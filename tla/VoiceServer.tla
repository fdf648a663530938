---------------------------- MODULE VoiceServer ----------------------------
(***************************************************************************)
(* The signaling server of one voice channel: VoiceConnectionManager and   *)
(* one voice_socket coroutine per WebSocket                                *)
(* (backend/app/core/routers/voice.py).                                    *)
(*                                                                         *)
(* All coroutines run on one event loop, so what lies between two awaits   *)
(* is one step.  join has no await, and the send on a socket that was just *)
(* accepted does not wait, so joining, writing "peers" and copying the     *)
(* targets of "peer-joined" are one step.  A broadcast awaits each of its  *)
(* sends, to targets copied when it began: one step per target, in any     *)
(* order.  A "speaking" message is relayed like a "mute" that changes      *)
(* nothing and is left out, like every name and description text.          *)
(***************************************************************************)
EXTENDS Naturals, Sequences

CONSTANTS
  Users,        \* users that may enter the channel
  NumSockets,   \* bound: WebSockets they open, numbered in that order per user
  Owner         \* whose token a socket was opened with

Sockets  == 1..NumSockets
NoSocket == 0           \* the user is not in the room

ASSUME OwnerAssumption == NumSockets \in Nat /\ Owner \in [Sockets -> Users]

VARIABLES
  net,          \* per socket: "unused", "open", or "gone" once an end closed it
  toServer,     \* per socket, frames on their way to the server
  toClient,     \* per socket, frames on their way to the client
  room,         \* _channels[channel_id]: per user the socket and the mute flag
  handler,      \* per socket, where its voice_socket coroutine is
  overlapped    \* history: users with two sockets in the channel at a time

serverVars == <<net, toServer, toClient, room, handler, overlapped>>

Absent == [ws |-> NoSocket, muted |-> FALSE]

Present(r) == {u \in Users : r[u].ws # NoSocket}

\* list(room.items()) without the excluded user
Targets(r, excluded) == {r[u].ws : u \in Present(r) \ excluded}

\* "serve": in receive_text; "broadcast": in the send loop; then: what follows it
Handler(pc, todo, msg, then) == [pc |-> pc, todo |-> todo, msg |-> msg, then |-> then]

NoMsg == [type |-> "none"]
At(pc) == Handler(pc, {}, NoMsg, pc)

Broadcasting(todo, msg, then) ==
  IF todo = {} THEN At(then) ELSE Handler("broadcast", todo, msg, then)

ServerInit ==
  /\ net = [s \in Sockets |-> "unused"]
  /\ toServer = [s \in Sockets |-> << >>]
  /\ toClient = [s \in Sockets |-> << >>]
  /\ room = [u \in Users |-> Absent]
  /\ handler = [s \in Sockets |-> At("new")]
  /\ overlapped = {}

\* A send to a socket that is gone raises, which both send loops swallow.
Delivered(queues, t, msg) ==
  IF net[t] = "open" THEN [queues EXCEPT ![t] = Append(@, msg)] ELSE queues

\* Coroutines of u that have joined, or tried to, and have not ended.
Started(u) == {s \in Sockets : Owner[s] = u /\ handler[s].pc \notin {"new", "ended"}}

-----------------------------------------------------------------------------
(* voice_socket up to its loop *)

\* Unknown token, unknown channel, not a member: the server closes the socket.
Refuse(s) ==
  /\ handler[s].pc = "new" /\ net[s] = "open"
  /\ handler' = [handler EXCEPT ![s] = At("ended")]
  /\ net' = [net EXCEPT ![s] = "gone"]
  /\ toServer' = [toServer EXCEPT ![s] = << >>]
  /\ UNCHANGED <<toClient, room, overlapped>>

\* join: a user's entry is overwritten by that of the newer socket.
Entered(u, s) == [room EXCEPT ![u] = [ws |-> s, muted |-> FALSE]]

\* What "peers" tells: the entries before this one, an older one of u included.
Existing(u) == {[user |-> v, muted |-> room[v].muted] : v \in Present(room)}

Joined(u, s) ==
  /\ room' = Entered(u, s)
  /\ overlapped' = IF Started(u) = {} THEN overlapped ELSE overlapped \cup {u}

Join(s) ==
  LET u == Owner[s] IN
  /\ handler[s].pc = "new" /\ net[s] # "unused"
  /\ Joined(u, s)
  /\ toClient' = Delivered(toClient, s, [type |-> "peers", peers |-> Existing(u)])
  /\ handler' = [handler EXCEPT ![s] =
       Broadcasting(Targets(room, {u}),
                    [type |-> "peer-joined", user |-> u], "serve")]
  /\ UNCHANGED <<net, toServer>>

\* The client is gone already: accept or the send of "peers" raises, the latter
\* after join and before the try whose finally would call leave.
JoinBreaks(s) ==
  /\ handler[s].pc = "new" /\ net[s] = "gone"
  /\ \/ /\ Joined(Owner[s], s)
        /\ handler' = [handler EXCEPT ![s] = At("broken")]
     \/ /\ handler' = [handler EXCEPT ![s] = At("ended")]
        /\ UNCHANGED <<room, overlapped>>
  /\ UNCHANGED <<net, toServer, toClient>>

-----------------------------------------------------------------------------
(* Its loop *)

BroadcastSend(s) ==
  /\ handler[s].pc = "broadcast"
  /\ \E t \in handler[s].todo :
       /\ toClient' = Delivered(toClient, t, handler[s].msg)
       /\ handler' = [handler EXCEPT ![s] =
            Broadcasting(handler[s].todo \ {t}, handler[s].msg, handler[s].then)]
  /\ UNCHANGED <<net, toServer, room, overlapped>>

\* Mutant: set_muted without telling the others.
MuteSilently(s, m) ==
  /\ room' = IF room[Owner[s]].ws # NoSocket
             THEN [room EXCEPT ![Owner[s]].muted = m.muted] ELSE room
  /\ UNCHANGED <<toClient, handler>>

\* set_muted and the broadcast after it.
Mute(s, m) ==
  LET u == Owner[s] IN
  /\ room' = IF room[u].ws # NoSocket THEN [room EXCEPT ![u] = [ws |-> @.ws, muted |-> m.muted]]
                                      ELSE room
  /\ handler' = [handler EXCEPT ![s] =
       Broadcasting(Targets(room, {u}),
                    [type |-> "mute-changed", user |-> u, muted |-> m.muted], "serve")]
  /\ UNCHANGED toClient

\* offer, answer and ice-candidate go to whatever socket the target has now.
Relay(s, m) ==
  /\ toClient' = IF room[m.to].ws # NoSocket
                 THEN Delivered(toClient, room[m.to].ws,
                                [type |-> m.type, from |-> Owner[s], sdp |-> m.sdp])
                 ELSE toClient
  /\ UNCHANGED <<room, handler>>

Receive(s) ==
  /\ handler[s].pc = "serve" /\ toServer[s] # << >>
  /\ LET m == Head(toServer[s]) IN IF m.type = "mute" THEN Mute(s, m) ELSE Relay(s, m)
  /\ toServer' = [toServer EXCEPT ![s] = Tail(@)]
  /\ UNCHANGED <<net, overlapped>>

\* Mutant: leave is skipped.
LeftStays(u) == room

\* leave pops the entry of the user, whichever socket wrote it.
Left(u) == [room EXCEPT ![u] = Absent]

\* receive_text raises WebSocketDisconnect once the frames before it are read.
Disconnect(s) ==
  LET u == Owner[s] IN
  /\ handler[s].pc = "serve" /\ net[s] = "gone" /\ toServer[s] = << >>
  /\ room' = Left(u)
  /\ handler' = [handler EXCEPT ![s] =
       Broadcasting(Targets(Left(u), {}), [type |-> "peer-left", user |-> u], "ended")]
  /\ UNCHANGED <<net, toServer, toClient, overlapped>>

ServerStep(s) ==
  \/ Join(s) \/ JoinBreaks(s)
  \/ BroadcastSend(s) \/ Receive(s) \/ Disconnect(s)

-----------------------------------------------------------------------------
(* Properties *)

Live == {"serve", "broadcast"}
Inside(s) == handler[s].pc = "serve" \/ (handler[s].pc = "broadcast" /\ handler[s].then = "serve")

(* An entry of the room belongs to a coroutine that will still remove it, or to
   one whose join broke (it stays until the process ends); and a coroutine that
   serves its socket has its entry, unless its user overlapped with another
   socket, whose end removes the newer entry.  So nobody is shown in a channel
   they left, and nobody speaks in it unseen. *)
RoomHoldsLiveSockets ==
  /\ \A u \in Present(room) :
       LET s == room[u].ws IN Owner[s] = u /\ (Inside(s) \/ handler[s].pc = "broken")
  /\ \A s \in Sockets :
       Inside(s) /\ Owner[s] \notin overlapped => room[Owner[s]].ws = s

=============================================================================
