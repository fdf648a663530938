------------------------- MODULE VoiceChannelProofs -------------------------
(***************************************************************************)
(* Proofs about VoiceChannel, for any number of users and sockets, however *)
(* users reconnect. First, that the table of the signaling server and its  *)
(* coroutines never lose track of each other, but for the two cases the    *)
(* property names: RoomInv. Nothing is assumed of the frames clients send. *)
(*                                                                         *)
(* Then, that the participants' lists agree with that table when nothing   *)
(* is under way: ListInv. A list is not compared with the table but with   *)
(* what it will be: the frames on the way to a participant, applied in     *)
(* their order (Leads), make a list of his that is right about every user  *)
(* whose news he has been sent, and that the news a coroutine still has to *)
(* send him makes right (Told). It is here that each broadcast goes to a   *)
(* participant once, that a queue is first in first out, and that the      *)
(* coroutines of one user do not overlap, are needed.                      *)
(*                                                                         *)
(* Last, that the connections form a mesh: MeshInv. As long as nobody's    *)
(* session ends (Steady), every two sessions that joined are in one of the *)
(* eleven stages of a handshake (Offers, Accepts): what each hook and each *)
(* of the four queues has of the other user is all that the stage says,    *)
(* and each step of one of them leaves the stage or leads to the next.     *)
(***************************************************************************)
EXTENDS VoiceChannel, SequenceTheorems, TLAPS

\* The two tables are functions, and an entry is that of a socket.
TablesOK ==
  /\ room = [u \in Users |-> room[u]]
  /\ handler = [s \in Sockets |-> handler[s]]
  /\ \A u \in Users : room[u].ws # NoSocket => room[u].ws \in Sockets

RoomInv == TablesOK /\ RoomHoldsLiveSockets

\* A coroutine that is, or will be after its broadcast, at "then".
Comes(h, then) == h.pc = then \/ (h.pc = "broadcast" /\ h.then = then)

-----------------------------------------------------------------------------
(* Lemmas *)

\* A broadcast to nobody is over at once.
LEMMA BroadcastingComes ==
  ASSUME NEW todo, NEW msg, NEW then
  PROVE  /\ Comes(Broadcasting(todo, msg, then), then)
         /\ then = "serve" => Comes(Broadcasting(todo, msg, then), "serve")
         /\ then = "ended" => ~Comes(Broadcasting(todo, msg, then), "serve")
BY DEF Broadcasting, Handler, At, Comes

LEMMA InsideComes == \A s : Inside(s) <=> Comes(handler[s], "serve")
BY DEF Inside, Comes

LEMMA SocketsAreNotNo == \A s \in Sockets : s # NoSocket
BY DEF Sockets, NoSocket

\* The invariant in terms of single entries and coroutines.
LEMMA Entries ==
  RoomHoldsLiveSockets <=>
    /\ \A u \in Users : room[u].ws # NoSocket =>
         /\ Owner[room[u].ws] = u
         /\ Comes(handler[room[u].ws], "serve") \/ handler[room[u].ws].pc = "broken"
    /\ \A s \in Sockets : Comes(handler[s], "serve") /\ Owner[s] \notin overlapped =>
         room[Owner[s]].ws = s
BY InsideComes DEF RoomHoldsLiveSockets, Present

\* A step that replaces a coroutine and leaves the table is harmless if the
\* coroutine goes where it was going.
LEMMA CoroutineKeepsInv ==
  ASSUME RoomInv, NEW s \in Sockets, NEW h,
         handler' = [handler EXCEPT ![s] = h],
         \A u \in Users : room'[u].ws = room[u].ws,
         room' = [u \in Users |-> room'[u]],
         overlapped' = overlapped,
         handler[s].pc # "broken",
         Comes(h, "serve") <=> Comes(handler[s], "serve")
  PROVE  RoomInv'
<1>1. \A t \in Sockets : handler'[t] = IF t = s THEN h ELSE handler[t]
  BY DEF RoomInv, TablesOK
<1>2. TablesOK'
  BY DEF RoomInv, TablesOK
<1>3. \A t \in Sockets : Comes(handler'[t], "serve") <=> Comes(handler[t], "serve")
  BY <1>1
<1>4. \A t \in Sockets : handler[t].pc = "broken" => handler'[t].pc = "broken"
  BY <1>1
<1>5. /\ \A u \in Users : room[u].ws # NoSocket => room[u].ws \in Sockets
      /\ \A u \in Users : room[u].ws # NoSocket =>
           /\ Owner[room[u].ws] = u
           /\ Comes(handler[room[u].ws], "serve") \/ handler[room[u].ws].pc = "broken"
      /\ \A t \in Sockets : Comes(handler[t], "serve") /\ Owner[t] \notin overlapped =>
           room[Owner[t]].ws = t
  BY Entries DEF RoomInv, TablesOK
<1>6. \A t \in Sockets : Owner[t] \in Users
  BY OwnerAssumption
<1>7. /\ \A u \in Users : room'[u].ws # NoSocket =>
           /\ Owner[room'[u].ws] = u
           /\ Comes(handler'[room'[u].ws], "serve") \/ handler'[room'[u].ws].pc = "broken"
      /\ \A t \in Sockets : Comes(handler'[t], "serve") /\ Owner[t] \notin overlapped' =>
           room'[Owner[t]].ws = t
  BY <1>3, <1>4, <1>5, <1>6
<1>8. RoomHoldsLiveSockets'
  BY <1>7 DEF RoomHoldsLiveSockets, Present, Inside, Comes
<1> QED
  BY <1>2, <1>8 DEF RoomInv

\* Likewise if nothing of the three changes.
LEMMA OthersKeepInv ==
  ASSUME RoomInv, UNCHANGED <<room, handler, overlapped>>
  PROVE  RoomInv'
BY DEF RoomInv, TablesOK, RoomHoldsLiveSockets, Present, Inside

\* The entry of a new session replaces that of an older one, whose user is
\* remembered as overlapping.
LEMMA JoinedKeepsInv ==
  ASSUME RoomInv, NEW s \in Sockets, NEW h, handler[s].pc = "new",
         Joined(Owner[s], s),
         handler' = [handler EXCEPT ![s] = h],
         Comes(h, "serve") \/ h.pc = "broken"
  PROVE  RoomInv'
<1> DEFINE u == Owner[s]
<1>1. u \in Users
  BY OwnerAssumption
<1>2. /\ room' = [room EXCEPT ![u] = [ws |-> s, muted |-> FALSE]]
      /\ overlapped \subseteq overlapped'
      /\ u \notin overlapped' => Started(u) = {}
  BY DEF Joined, Entered
<1>3. /\ \A t \in Sockets : handler'[t] = IF t = s THEN h ELSE handler[t]
      /\ \A v \in Users : room'[v] = IF v = u THEN [ws |-> s, muted |-> FALSE] ELSE room[v]
  BY <1>1, <1>2 DEF RoomInv, TablesOK
<1>4. TablesOK'
  BY <1>2, <1>3 DEF RoomInv, TablesOK
<1>5. /\ \A v \in Users : room[v].ws # NoSocket =>
           /\ room[v].ws \in Sockets
           /\ Owner[room[v].ws] = v
           /\ Comes(handler[room[v].ws], "serve") \/ handler[room[v].ws].pc = "broken"
      /\ \A t \in Sockets : Comes(handler[t], "serve") /\ Owner[t] \notin overlapped =>
           room[Owner[t]].ws = t
  BY Entries DEF RoomInv, TablesOK
<1>6. ASSUME NEW v \in Users, room'[v].ws # NoSocket
      PROVE  /\ Owner[room'[v].ws] = v
             /\ Comes(handler'[room'[v].ws], "serve") \/ handler'[room'[v].ws].pc = "broken"
  <2>1. CASE v = u
    BY <1>1, <1>3, <2>1
  <2>2. CASE v # u
    BY <1>3, <1>5, <1>6, <2>2
  <2> QED
    BY <2>1, <2>2
<1>7. ASSUME NEW t \in Sockets, Comes(handler'[t], "serve"), Owner[t] \notin overlapped'
      PROVE  room'[Owner[t]].ws = t
  <2>1. Owner[t] \in Users
    BY OwnerAssumption
  <2>2. CASE t = s
    BY <1>1, <1>3, <2>2
  <2>3. CASE t # s /\ Owner[t] = u
    <3>1. Comes(handler[t], "serve")
      BY <1>3, <1>7, <2>3
    <3>2. t \in Started(u)
      BY <2>3, <3>1 DEF Started, Comes
    <3> QED
      BY <1>2, <1>7, <2>3, <3>2
  <2>4. CASE t # s /\ Owner[t] # u
    BY <1>2, <1>3, <1>5, <1>7, <2>1, <2>4
  <2> QED
    BY <2>2, <2>3, <2>4
<1>8. RoomHoldsLiveSockets'
  BY <1>6, <1>7 DEF RoomHoldsLiveSockets, Present, Inside, Comes
<1> QED
  BY <1>4, <1>8 DEF RoomInv

-----------------------------------------------------------------------------
(* One lemma per step of the server *)

LEMMA JoinKeepsInv ==
  ASSUME RoomInv, NEW s \in Sockets, Join(s)
  PROVE  RoomInv'
<1> DEFINE h == Broadcasting(Targets(room, {Owner[s]}),
                             [type |-> "peer-joined", user |-> Owner[s]], "serve")
<1>1. handler[s].pc = "new" /\ Joined(Owner[s], s) /\ handler' = [handler EXCEPT ![s] = h]
  BY DEF Join
<1>2. Comes(h, "serve")
  BY BroadcastingComes
<1> HIDE DEF h
<1> QED
  BY <1>1, <1>2, JoinedKeepsInv

LEMMA JoinBreaksKeepsInv ==
  ASSUME RoomInv, NEW s \in Sockets, JoinBreaks(s)
  PROVE  RoomInv'
<1>1. CASE Joined(Owner[s], s) /\ handler' = [handler EXCEPT ![s] = At("broken")]
  BY <1>1, JoinedKeepsInv DEF JoinBreaks, At, Handler
<1>2. CASE handler' = [handler EXCEPT ![s] = At("ended")] /\ UNCHANGED <<room, overlapped>>
  <2>1. ~Comes(At("ended"), "serve") /\ ~Comes(handler[s], "serve") /\ handler[s].pc # "broken"
    BY DEF JoinBreaks, Comes, At, Handler
  <2>2. room' = [u \in Users |-> room'[u]]
    BY <1>2 DEF RoomInv, TablesOK
  <2> QED
    BY <1>2, <2>1, <2>2, CoroutineKeepsInv
<1> QED
  BY <1>1, <1>2 DEF JoinBreaks

LEMMA RefuseKeepsInv ==
  ASSUME RoomInv, NEW s \in Sockets, Refuse(s)
  PROVE  RoomInv'
<1>1. ~Comes(At("ended"), "serve") /\ ~Comes(handler[s], "serve") /\ handler[s].pc # "broken"
  BY DEF Refuse, Comes, At, Handler
<1>2. room' = [u \in Users |-> room'[u]]
  BY DEF Refuse, RoomInv, TablesOK
<1> QED
  BY <1>1, <1>2, CoroutineKeepsInv DEF Refuse

LEMMA BroadcastSendKeepsInv ==
  ASSUME RoomInv, NEW s \in Sockets, BroadcastSend(s)
  PROVE  RoomInv'
<1>1. PICK todo : handler' = [handler EXCEPT ![s] =
                                Broadcasting(todo, handler[s].msg, handler[s].then)]
  BY DEF BroadcastSend
<1> DEFINE h == Broadcasting(todo, handler[s].msg, handler[s].then)
<1>2. Comes(h, "serve") <=> Comes(handler[s], "serve")
  BY DEF BroadcastSend, Comes, Broadcasting, Handler, At
<1>3. room' = [u \in Users |-> room'[u]]
  BY DEF BroadcastSend, RoomInv, TablesOK
<1>4. handler[s].pc # "broken" /\ room' = room /\ overlapped' = overlapped
  BY DEF BroadcastSend
<1> HIDE DEF h
<1> QED
  BY <1>1, <1>2, <1>3, <1>4, CoroutineKeepsInv DEF h

\* A mute flag is no part of the invariant, a relayed message is none either.
LEMMA ReceiveKeepsInv ==
  ASSUME RoomInv, NEW s \in Sockets, Receive(s)
  PROVE  RoomInv'
<1>1. handler[s].pc = "serve" /\ overlapped' = overlapped
  BY DEF Receive
<1>2. CASE UNCHANGED <<room, handler>>
  BY <1>1, <1>2, OthersKeepInv
<1>3. CASE \E m : Mute(s, m)
  <2>1. PICK m : Mute(s, m)
    BY <1>3
  <2> DEFINE u == Owner[s]
             h == Broadcasting(Targets(room, {u}),
                               [type |-> "mute-changed", user |-> u, muted |-> m.muted], "serve")
  <2>2. handler' = [handler EXCEPT ![s] = h]
    BY <2>1 DEF Mute
  <2>3. Comes(h, "serve") /\ Comes(handler[s], "serve")
    BY <1>1, BroadcastingComes DEF Comes
  <2>4. room' = room \/ room' = [room EXCEPT ![u] = [ws |-> room[u].ws, muted |-> m.muted]]
    BY <2>1 DEF Mute
  <2>5. room' = [v \in Users |-> room'[v]] /\ \A v \in Users : room'[v].ws = room[v].ws
    BY <2>4 DEF RoomInv, TablesOK
  <2> HIDE DEF h
  <2> QED
    BY <1>1, <2>2, <2>3, <2>5, CoroutineKeepsInv
<1> QED
  BY <1>2, <1>3 DEF Receive, Relay

\* leave removes the entry of the user: that of this socket, unless the user
\* overlapped.
LEMMA DisconnectKeepsInv ==
  ASSUME RoomInv, NEW s \in Sockets, Disconnect(s)
  PROVE  RoomInv'
<1> DEFINE u == Owner[s]
           h == Broadcasting(Targets(Left(u), {}), [type |-> "peer-left", user |-> u], "ended")
<1>1. u \in Users
  BY OwnerAssumption
<1>2. /\ handler[s].pc = "serve" /\ overlapped' = overlapped
      /\ room' = [room EXCEPT ![u] = Absent]
      /\ handler' = [handler EXCEPT ![s] = h]
  BY DEF Disconnect, Left
<1>3. ~Comes(h, "serve")
  BY BroadcastingComes
<1> HIDE DEF h
<1>4. /\ \A t \in Sockets : handler'[t] = IF t = s THEN h ELSE handler[t]
      /\ \A v \in Users : room'[v] = IF v = u THEN Absent ELSE room[v]
  BY <1>1, <1>2 DEF RoomInv, TablesOK
<1>5. TablesOK'
  BY <1>2, <1>4 DEF RoomInv, TablesOK, Absent
<1>6. /\ \A v \in Users : room[v].ws # NoSocket =>
           /\ room[v].ws \in Sockets
           /\ Owner[room[v].ws] = v
           /\ Comes(handler[room[v].ws], "serve") \/ handler[room[v].ws].pc = "broken"
      /\ \A t \in Sockets : Comes(handler[t], "serve") /\ Owner[t] \notin overlapped =>
           room[Owner[t]].ws = t
  BY Entries DEF RoomInv, TablesOK
<1>7. ASSUME NEW v \in Users, room'[v].ws # NoSocket
      PROVE  /\ Owner[room'[v].ws] = v
             /\ Comes(handler'[room'[v].ws], "serve") \/ handler'[room'[v].ws].pc = "broken"
  <2>1. v # u
    BY <1>4, <1>7 DEF Absent
  <2>2. room'[v] = room[v] /\ room[v].ws # s
    BY <1>4, <1>6, <1>7, <2>1
  <2> QED
    BY <1>4, <1>6, <1>7, <2>2
<1>8. ASSUME NEW t \in Sockets, Comes(handler'[t], "serve"), Owner[t] \notin overlapped'
      PROVE  room'[Owner[t]].ws = t
  <2>1. t # s /\ Comes(handler[t], "serve")
    BY <1>3, <1>4, <1>8
  <2>2. Comes(handler[s], "serve")
    BY <1>2 DEF Comes
  <2>3. Owner[t] # u
    BY <1>2, <1>6, <1>8, <2>1, <2>2
  <2> QED
    BY <1>2, <1>4, <1>6, <1>8, <2>1, <2>3, OwnerAssumption
<1>9. RoomHoldsLiveSockets'
  BY <1>7, <1>8 DEF RoomHoldsLiveSockets, Present, Inside, Comes
<1> QED
  BY <1>5, <1>9 DEF RoomInv

-----------------------------------------------------------------------------
(* The invariant *)

LEMMA InitEstablishes == Init => RoomInv
<1> SUFFICES ASSUME Init PROVE RoomInv
  OBVIOUS
<1>1. TablesOK
  BY DEF Init, ServerInit, TablesOK, Absent
<1>2. /\ \A u \in Users : room[u].ws = NoSocket
      /\ \A s \in Sockets : handler[s].pc = "new"
  BY DEF Init, ServerInit, Absent, At, Handler
<1>3. RoomHoldsLiveSockets
  BY <1>2 DEF RoomHoldsLiveSockets, Present, Inside
<1> QED
  BY <1>1, <1>3 DEF RoomInv

\* The hook works on its own state and its socket.
LEMMA ClientKeepsInv ==
  ASSUME RoomInv, NEW s \in Sockets, ClientStep(s) \/ UserStep(s)
  PROVE  RoomInv'
<1> DEFINE Same == UNCHANGED <<room, handler, overlapped>>
<1>1. \A c, msgs : Resumed(s, c, msgs) => Same
  BY DEF Resumed
<1> HIDE DEF Same
<1>2. ASSUME NEW k, Rejected(s, k) PROVE Same
  BY <1>1, <1>2 DEF Rejected
<1>3. ASSUME NEW k, OfferReady(s, k) PROVE Same
  BY <1>1, <1>3, Zenon DEF OfferReady
<1>4. ASSUME NEW k, AcceptOffer(s, k) \/ Answered(s, k) PROVE Same
  <2>1. PICK sig, next : Described(s, k, sig, next)
    BY <1>4 DEF AcceptOffer, Answered
  <2> QED
    BY <1>1, <2>1, Zenon DEF Described
<1>5. ASSUME NEW k, Reply(s, k) PROVE Same
  BY <1>1, <1>5, Zenon DEF Reply
<1>6. ASSUME OnMessage(s) PROVE Same
  BY <1>6 DEF OnMessage, Same
<1>7. ASSUME UserStep(s) PROVE Same
  BY <1>7 DEF UserStep, Enter, IceServersFail, MicrophoneGranted, MicrophoneRefused, Opened,
              Leave, Drop, ToggleMute, serverVars, Same
<1>8. Same
  BY <1>2, <1>3, <1>4, <1>5, <1>6, <1>7, Zenon DEF ClientStep, Task
<1> QED
  BY <1>8, OthersKeepInv DEF Same

LEMMA NextKeepsInv == RoomInv /\ Next => RoomInv'
<1> SUFFICES ASSUME RoomInv, NEW s \in Sockets,
                    ServerStep(s) \/ Refuse(s) \/ ClientStep(s) \/ UserStep(s)
             PROVE  RoomInv'
  BY DEF Next
<1> QED
  BY JoinKeepsInv, JoinBreaksKeepsInv, RefuseKeepsInv, BroadcastSendKeepsInv,
     ReceiveKeepsInv, DisconnectKeepsInv, ClientKeepsInv DEF ServerStep

LEMMA StutteringKeepsInv == RoomInv /\ UNCHANGED vars => RoomInv'
BY OthersKeepInv DEF vars, serverVars

(* The table of a channel holds sockets whose coroutine is there to remove them,
   and every coroutine that serves has its entry, whatever clients send and
   however they come, go and break off (voice_socket, join, leave). *)
THEOREM RoomsHoldLiveSockets == Spec => []RoomHoldsLiveSockets
<1>1. RoomInv => RoomHoldsLiveSockets
  BY DEF RoomInv
<1> QED
  BY <1>1, InitEstablishes, NextKeepsInv, StutteringKeepsInv, PTL DEF Spec

-----------------------------------------------------------------------------
(* Queues: functions on 1..n, whatever is in them *)

Queue(q) == Len(q) \in Nat /\ q = [i \in 1..Len(q) |-> q[i]]

LEMMA QueueIsSeq ==
  ASSUME NEW q, Queue(q)
  PROVE  q \in Seq({q[i] : i \in 1..Len(q)})
BY DEF Queue

LEMMA SeqIsQueue ==
  ASSUME NEW S, NEW q \in Seq(S)
  PROVE  Queue(q)
BY LenProperties DEF Queue

LEMMA EmptyQueue ==
  /\ Queue(<< >>) /\ Len(<< >>) = 0
  /\ \A q : Queue(q) /\ Len(q) = 0 => q = << >>
<1>1. Queue(<< >>) /\ Len(<< >>) = 0
  BY DEF Queue
<1>2. ASSUME NEW q, Queue(q), Len(q) = 0
      PROVE  q = << >>
  BY <1>2, QueueIsSeq, EmptySeq
<1> QED
  BY <1>1, <1>2

LEMMA QueueAppend ==
  ASSUME NEW q, NEW m, Queue(q)
  PROVE  /\ Queue(Append(q, m)) /\ Len(Append(q, m)) = Len(q) + 1
         /\ \A i \in 1..Len(q) : Append(q, m)[i] = q[i]
         /\ Append(q, m)[Len(q) + 1] = m
<1> DEFINE S == {q[i] : i \in 1..Len(q)} \cup {m}
<1>1. q \in Seq(S) /\ m \in S
  BY DEF Queue
<1> HIDE DEF S
<1>2. Append(q, m) \in Seq(S)
  BY <1>1, AppendProperties
<1>3. /\ Len(Append(q, m)) = Len(q) + 1
      /\ \A i \in 1..Len(q) : Append(q, m)[i] = q[i]
      /\ Append(q, m)[Len(q) + 1] = m
  BY <1>1, AppendProperties
<1>4. Queue(Append(q, m))
  BY <1>2, SeqIsQueue
<1> QED
  BY <1>3, <1>4

LEMMA QueueTail ==
  ASSUME NEW q, Queue(q), q # << >>
  PROVE  /\ Queue(Tail(q)) /\ Len(Tail(q)) = Len(q) - 1 /\ Len(q) - 1 \in Nat
         /\ Head(q) = q[1] /\ 1 \in 1..Len(q)
         /\ \A i \in 1..(Len(q) - 1) : Tail(q)[i] = q[i + 1] /\ i + 1 \in 1..Len(q)
<1> DEFINE S == {q[i] : i \in 1..Len(q)}
<1>1. q \in Seq(S)
  BY QueueIsSeq
<1> HIDE DEF S
<1>2. Len(q) \in Nat /\ Len(q) # 0
  BY EmptyQueue DEF Queue
<1>3. /\ Tail(q) \in Seq(S) /\ Len(Tail(q)) = Len(q) - 1 /\ Head(q) = q[1]
      /\ \A i \in 1..(Len(q) - 1) : Tail(q)[i] = q[i + 1]
  BY <1>1, HeadTailProperties
<1>4. Queue(Tail(q))
  BY <1>3, SeqIsQueue
<1> QED
  BY <1>2, <1>3, <1>4

LEMMA QueueConcat ==
  ASSUME NEW q, NEW r, Queue(q), Queue(r)
  PROVE  /\ Queue(q \o r) /\ Len(q \o r) = Len(q) + Len(r)
         /\ \A i \in 1..Len(q) : (q \o r)[i] = q[i]
         /\ \A i \in 1..Len(r) : (q \o r)[Len(q) + i] = r[i]
         /\ \A i \in 1..Len(q \o r) : \/ i \in 1..Len(q) /\ (q \o r)[i] = q[i]
                                      \/ i - Len(q) \in 1..Len(r) /\ (q \o r)[i] = r[i - Len(q)]
<1> DEFINE S == {q[i] : i \in 1..Len(q)} \cup {r[i] : i \in 1..Len(r)}
<1>1. q \in Seq(S) /\ r \in Seq(S)
  BY DEF Queue
<1> HIDE DEF S
<1>2. /\ q \o r \in Seq(S) /\ Len(q \o r) = Len(q) + Len(r)
      /\ \A i \in 1..(Len(q) + Len(r)) : (q \o r)[i] = IF i <= Len(q) THEN q[i] ELSE r[i - Len(q)]
  BY <1>1, ConcatProperties
<1>3. Queue(q \o r)
  BY <1>2, SeqIsQueue
<1>4. Len(q) \in Nat /\ Len(r) \in Nat
  BY DEF Queue
<1> QED
  BY <1>2, <1>3, <1>4

-----------------------------------------------------------------------------
(* What the frames on the way to a client make of its list *)

Participant == [user : Users, muted : BOOLEAN]

Effect(list, m) ==
  CASE m.type = "peers"        -> m.peers
    [] m.type = "peer-joined"  -> list \cup {[user |-> m.user, muted |-> FALSE]}
    [] m.type = "peer-left"    -> {p \in list : p.user # m.user}
    [] m.type = "mute-changed" ->
         {IF p.user = m.user THEN [p EXCEPT !.muted = m.muted] ELSE p : p \in list}
    [] OTHER                   -> list

\* The frames of q, applied in their order, make "after" of "before".
Leads(before, q, after) ==
  \E lists : /\ lists[1] = before /\ lists[Len(q) + 1] = after
             /\ \A i \in 1..Len(q) : lists[i + 1] = Effect(lists[i], q[i])

LEMMA LeadsNowhere ==
  ASSUME NEW before, NEW after, Leads(before, << >>, after)
  PROVE  after = before
BY EmptyQueue DEF Leads

LEMMA NothingLeads ==
  ASSUME NEW list
  PROVE  Leads(list, << >>, list)
<1> DEFINE lists == [i \in 1..1 |-> list]
<1>1. lists[1] = list /\ lists[Len(<< >>) + 1] = list
  BY EmptyQueue
<1> HIDE DEF lists
<1> QED
  BY <1>1, EmptyQueue DEF Leads

LEMMA LeadsFurther ==
  ASSUME NEW before, NEW q, NEW after, NEW m, Queue(q), Leads(before, q, after)
  PROVE  Leads(before, Append(q, m), Effect(after, m))
<1>1. PICK n \in Nat : n = Len(q)
  BY DEF Queue
<1>2. PICK lists : /\ lists[1] = before /\ lists[n + 1] = after
                   /\ \A i \in 1..n : lists[i + 1] = Effect(lists[i], q[i])
  BY <1>1 DEF Leads
<1>3. PICK r : r = Append(q, m)
  OBVIOUS
<1>4. Len(r) = n + 1 /\ r[n + 1] = m /\ \A i \in 1..n : r[i] = q[i]
  BY <1>1, <1>3, QueueAppend
<1>5. PICK e : e = Effect(after, m)
  OBVIOUS
<1> DEFINE more == [i \in 1..(n + 2) |-> IF i = n + 2 THEN e ELSE lists[i]]
<1>6. more[1] = before /\ more[(n + 1) + 1] = e /\ more[n + 1] = after
  BY <1>2
<1>7. \A i \in 1..n : more[i] = lists[i] /\ more[i + 1] = lists[i + 1]
  OBVIOUS
<1> HIDE DEF more
<1>8. ASSUME NEW i \in 1..(n + 1)
      PROVE  more[i + 1] = Effect(more[i], r[i])
  <2>1. CASE i = n + 1
    BY <1>4, <1>5, <1>6, <2>1
  <2>2. CASE i # n + 1
    <3>1. i \in 1..n
      BY <2>2
    <3> QED
      BY <1>2, <1>4, <1>7, <3>1
  <2> QED
    BY <2>1, <2>2
<1>9. Leads(before, r, e)
  BY <1>4, <1>6, <1>8 DEF Leads
<1> QED
  BY <1>3, <1>5, <1>9

LEMMA LeadsFromNext ==
  ASSUME NEW before, NEW q, NEW after, Queue(q), q # << >>, Leads(before, q, after)
  PROVE  Leads(Effect(before, Head(q)), Tail(q), after)
<1>1. PICK n \in Nat : Len(q) = n + 1
  <2>1. Len(q) - 1 \in Nat /\ Len(q) = (Len(q) - 1) + 1
    BY QueueTail DEF Queue
  <2> QED
    BY <2>1
<1>2. PICK lists : /\ lists[1] = before /\ lists[(n + 1) + 1] = after
                   /\ \A i \in 1..(n + 1) : lists[i + 1] = Effect(lists[i], q[i])
  BY <1>1 DEF Leads
<1>3. PICK r : r = Tail(q)
  OBVIOUS
<1>4. /\ Len(r) = n /\ Head(q) = q[1]
      /\ \A i \in 1..n : r[i] = q[i + 1] /\ i + 1 \in 1..(n + 1)
  <2>1. Len(q) - 1 = n
    BY <1>1
  <2> QED
    BY <1>1, <1>3, <2>1, QueueTail
<1> DEFINE rest == [i \in 1..(n + 1) |-> lists[i + 1]]
<1>5. /\ rest[1] = lists[2] /\ rest[n + 1] = after
      /\ \A i \in 1..n : rest[i] = lists[i + 1] /\ rest[i + 1] = lists[(i + 1) + 1]
  BY <1>2
<1> HIDE DEF rest
<1>6. lists[2] = Effect(before, Head(q))
  <2>1. 1 \in 1..(n + 1) /\ 1 + 1 = 2
    OBVIOUS
  <2> QED
    BY <1>2, <1>4, <2>1
<1>7. \A i \in 1..n : rest[i + 1] = Effect(rest[i], r[i])
  BY <1>2, <1>4, <1>5
<1>8. Leads(Effect(before, Head(q)), r, after)
  BY <1>4, <1>5, <1>6, <1>7 DEF Leads
<1> QED
  BY <1>3, <1>8

\* Frames of the server, and of a client.
Relayed == {"offer", "answer", "ice-candidate"}
News    == {"peer-joined", "peer-left", "mute-changed"}

ClientBound(m) ==
  \/ m.type = "peers" /\ m.peers \subseteq Participant
  \/ m.type \in News /\ m.user \in Users /\ (m.type = "mute-changed" => m.muted \in BOOLEAN)
  \/ m.type \in Relayed

ServerBound(m) == (m.type = "mute" /\ m.muted \in BOOLEAN) \/ m.type \in Relayed

\* The part of a list that is about one user, and what it should be.
About(list, u) == {p \in list : p.user = u}

Shown(u) == IF room[u].ws = NoSocket THEN {} ELSE {[user |-> u, muted |-> room[u].muted]}

LEMMA EffectOnTypes ==
  ASSUME NEW list \in SUBSET Participant, NEW m, ClientBound(m)
  PROVE  Effect(list, m) \in SUBSET Participant
<1>1. CASE m.type = "peers"
  BY <1>1 DEF Effect, ClientBound, News, Relayed
<1>2. CASE m.type = "peer-joined"
  <2>1. [user |-> m.user, muted |-> FALSE] \in Participant
    BY <1>2 DEF ClientBound, News, Relayed, Participant
  <2> QED
    BY <1>2, <2>1 DEF Effect
<1>3. CASE m.type = "peer-left"
  BY <1>3 DEF Effect
<1>4. CASE m.type = "mute-changed"
  <2>1. m.muted \in BOOLEAN
    BY <1>4 DEF ClientBound, News, Relayed
  <2>2. \A p \in list : [p EXCEPT !.muted = m.muted] \in Participant
    BY <2>1 DEF Participant
  <2>3. Effect(list, m) = {IF p.user = m.user THEN [p EXCEPT !.muted = m.muted] ELSE p : p \in list}
    BY <1>4 DEF Effect
  <2> QED
    BY <2>2, <2>3
<1>5. CASE m.type \in Relayed
  BY <1>5 DEF Effect, Relayed
<1> QED
  BY <1>1, <1>2, <1>3, <1>4, <1>5 DEF ClientBound, News

LEMMA RelayedHasNoEffect ==
  ASSUME NEW list, NEW m, m.type \in Relayed
  PROVE  Effect(list, m) = list
BY DEF Effect, Relayed

\* News about a user changes what a list says about that user only.
LEMMA NewsIsLocal ==
  ASSUME NEW list \in SUBSET Participant, NEW m, ClientBound(m), m.type \in News,
         NEW u \in Users, u # m.user
  PROVE  About(Effect(list, m), u) = About(list, u)
<1>1. CASE m.type = "peer-joined"
  <2>1. Effect(list, m) = list \cup {[user |-> m.user, muted |-> FALSE]}
    BY <1>1 DEF Effect
  <2> QED
    BY <2>1 DEF About
<1>2. CASE m.type = "peer-left"
  <2>1. Effect(list, m) = {p \in list : p.user # m.user}
    BY <1>2 DEF Effect
  <2> QED
    BY <2>1 DEF About
<1>3. CASE m.type = "mute-changed"
  <2> DEFINE changed(p) == IF p.user = m.user THEN [p EXCEPT !.muted = m.muted] ELSE p
  <2>1. Effect(list, m) = {changed(p) : p \in list}
    BY <1>3 DEF Effect
  <2>2. \A p \in list : /\ changed(p).user = p.user
                        /\ p.user = u => changed(p) = p
    BY DEF Participant
  <2> HIDE DEF changed
  <2> QED
    BY <2>1, <2>2 DEF About
<1> QED
  BY <1>1, <1>2, <1>3 DEF News

\* What it makes of that.
LEMMA NewsTells ==
  ASSUME NEW list \in SUBSET Participant, NEW m, ClientBound(m)
  PROVE  /\ m.type = "peer-joined" =>
              About(Effect(list, m), m.user) =
                About(list, m.user) \cup {[user |-> m.user, muted |-> FALSE]}
         /\ m.type = "peer-left" => About(Effect(list, m), m.user) = {}
         /\ m.type = "mute-changed" =>
              About(Effect(list, m), m.user) =
                {[p EXCEPT !.muted = m.muted] : p \in About(list, m.user)}
<1>1. ASSUME m.type = "peer-joined"
      PROVE  About(Effect(list, m), m.user) =
               About(list, m.user) \cup {[user |-> m.user, muted |-> FALSE]}
  <2>1. Effect(list, m) = list \cup {[user |-> m.user, muted |-> FALSE]}
    BY <1>1 DEF Effect
  <2> QED
    BY <2>1 DEF About
<1>2. ASSUME m.type = "peer-left"
      PROVE  About(Effect(list, m), m.user) = {}
  <2>1. Effect(list, m) = {p \in list : p.user # m.user}
    BY <1>2 DEF Effect
  <2> QED
    BY <2>1 DEF About
<1>3. ASSUME m.type = "mute-changed"
      PROVE  About(Effect(list, m), m.user) =
               {[p EXCEPT !.muted = m.muted] : p \in About(list, m.user)}
  <2> DEFINE told(p) == [p EXCEPT !.muted = m.muted]
             changed(p) == IF p.user = m.user THEN told(p) ELSE p
  <2>1. Effect(list, m) = {changed(p) : p \in list}
    BY <1>3 DEF Effect
  <2>2. \A p \in list : changed(p).user = p.user
    BY DEF Participant
  <2>3. \A p \in list : p.user = m.user => changed(p) = told(p)
    OBVIOUS
  <2> HIDE DEF changed, told
  <2>4. About(Effect(list, m), m.user) = {told(p) : p \in About(list, m.user)}
    BY <2>1, <2>2, <2>3 DEF About
  <2> QED
    BY <2>4 DEF told
<1> QED
  BY <1>1, <1>2, <1>3

\* And it depends on that alone.
LEMMA NewsIsAbout ==
  ASSUME NEW list \in SUBSET Participant, NEW other \in SUBSET Participant,
         NEW m, ClientBound(m), m.type \in News,
         About(list, m.user) = About(other, m.user)
  PROVE  About(Effect(list, m), m.user) = About(Effect(other, m), m.user)
BY NewsTells DEF News

LEMMA ListsOfParts ==
  ASSUME NEW list \in SUBSET Participant, NEW other \in SUBSET Participant,
         \A u \in Users : About(list, u) = About(other, u)
  PROVE  list = other
BY DEF About, Participant

-----------------------------------------------------------------------------
(* What the hook's handlers leave of a client: its list but for messages,  *)
(* its mute flag and its phase                                             *)

ClientFields == {"phase", "left", "muted", "toggled", "participants", "pcs", "peer",
                 "pending", "tasks"}

IsClient(c) == c = [f \in ClientFields |-> c[f]]

Same(c, d) ==
  /\ IsClient(d)
  /\ d.participants = c.participants /\ d.muted = c.muted
  /\ d.toggled = c.toggled /\ d.phase = c.phase

LEMMA NewClientIsClient ==
  IsClient(NewClient) /\ NewClient.participants = {} /\ NewClient.muted = FALSE
    /\ NewClient.toggled = FALSE /\ NewClient.phase = "off"
BY DEF IsClient, ClientFields, NewClient

\* Connections, pending candidates and tasks are not told apart here.
LEMMA ConnectionsAside ==
  ASSUME NEW c, IsClient(c), NEW x
  PROVE  /\ Same(c, [c EXCEPT !.pcs = x]) /\ Same(c, [c EXCEPT !.peer = x])
         /\ Same(c, [c EXCEPT !.pending = x]) /\ Same(c, [c EXCEPT !.tasks = x])
BY DEF IsClient, ClientFields, Same

LEMMA SameIsTransitive ==
  ASSUME NEW c, NEW d, NEW e, Same(c, d), Same(d, e)
  PROVE  Same(c, e)
BY DEF Same

LEMMA SameAsItself == \A c : IsClient(c) => Same(c, c)
BY DEF Same

LEMMA WithConnectionSame ==
  ASSUME NEW c, IsClient(c), NEW u
  PROVE  Same(c, WithConnection(c, u))
BY DEF IsClient, ClientFields, Same, WithConnection

LEMMA WithTaskSame ==
  ASSUME NEW c, IsClient(c), NEW kind, NEW pc, NEW sdp, NEW rest
  PROVE  Same(c, WithTask(c, kind, pc, sdp, rest))
BY DEF IsClient, ClientFields, Same, WithTask

LEMMA WithCandidateSame ==
  ASSUME NEW c, IsClient(c), NEW u, NEW sdp
  PROVE  Same(c, WithCandidate(c, u, sdp))
BY DEF IsClient, ClientFields, Same, WithCandidate

LEMMA OfferNextSame ==
  ASSUME NEW c, IsClient(c), NEW rest, NEW d \in OfferNext(c, rest)
  PROVE  Same(c, d)
<1>1. CASE rest = {}
  BY <1>1, SameAsItself DEF OfferNext
<1>2. CASE rest # {}
  <2>1. PICK u \in rest :
          d = WithTask(WithConnection(c, u), "offer", Len(c.pcs) + 1, NoSdp, rest \ {u})
    BY <1>2 DEF OfferNext
  <2>2. Same(c, WithConnection(c, u)) /\ IsClient(WithConnection(c, u))
    BY WithConnectionSame DEF Same
  <2> QED
    BY <2>1, <2>2, WithTaskSame, SameIsTransitive
<1> QED
  BY <1>1, <1>2

\* A handler that was suspended goes on.
Continues(s) ==
  \E d, msgs : /\ Same(client[s], d) /\ SetClient(s, d)
               /\ Queue(msgs) /\ \A i \in 1..Len(msgs) : msgs[i].type \in Relayed
               /\ toServer' = Sent(s, msgs)
               /\ UNCHANGED <<net, toClient, room, handler, overlapped>>

LEMMA DescriptionFrames ==
  ASSUME NEW kind \in Relayed, NEW s, NEW i
  PROVE  /\ Queue(Description(kind, s, i))
         /\ \A n \in 1..Len(Description(kind, s, i)) :
              Description(kind, s, i)[n].type \in Relayed
<1> DEFINE Signal(type) == [type |-> type, to |-> client[s].pcs[i].user, sdp |-> <<s, i>>]
<1>1. Signal(kind).type = kind /\ Signal("ice-candidate").type = "ice-candidate"
  OBVIOUS
<1>2. PICK a, b : a = Signal(kind) /\ b = Signal("ice-candidate")
  OBVIOUS
<1>3. Description(kind, s, i) = IF s \in Gathering THEN <<a, b>> ELSE <<a>>
  BY <1>2 DEF Description
<1>4. a.type \in Relayed /\ b.type \in Relayed
  BY <1>1, <1>2 DEF Relayed
<1>5. CASE s \in Gathering
  <2>1. Queue(<<a, b>>) /\ Len(<<a, b>>) = 2 /\ <<a, b>>[1] = a /\ <<a, b>>[2] = b
    BY DEF Queue
  <2> QED
    BY <1>3, <1>4, <1>5, <2>1
<1>6. CASE s \notin Gathering
  <2>1. Queue(<<a>>) /\ Len(<<a>>) = 1 /\ <<a>>[1] = a
    BY DEF Queue
  <2> QED
    BY <1>3, <1>4, <1>6, <2>1
<1> QED
  BY <1>5, <1>6

LEMMA NothingIsAQueue == Queue(<< >>) /\ \A i \in 1..Len(<< >>) : << >>[i].type \in Relayed
BY EmptyQueue

LEMMA DescribedSame ==
  ASSUME NEW s, IsClient(client[s]), NEW k, NEW sig, NEW next, Described(s, k, sig, next)
  PROVE  Continues(s)
<1> DEFINE c == Without(client[s], k)
           u == c.pcs[k.pc].user
           d == [c EXCEPT !.pcs[k.pc].sig = sig, !.pcs[k.pc].remote = k.sdp,
                          !.pcs[k.pc].heard = k.sdp \in c.pending[u], !.pending[u] = {}]
<1>1. Same(client[s], c) /\ IsClient(c)
  BY ConnectionsAside DEF Without, Same
<1>2. \/ Resumed(s, IF next THEN WithTask(d, "reply", k.pc, NoSdp, {}) ELSE d, << >>)
      \/ Resumed(s, d, << >>)
  BY DEF Described
<1>3. Same(c, d)
  <2>1. PICK e : e = [c EXCEPT !.pcs[k.pc].sig = sig]
    OBVIOUS
  <2>2. PICK f : f = [e EXCEPT !.pcs[k.pc].remote = k.sdp]
    OBVIOUS
  <2>3. PICK g : g = [f EXCEPT !.pcs[k.pc].heard = k.sdp \in c.pending[u]]
    OBVIOUS
  <2>4. d = [g EXCEPT !.pending[u] = {}]
    BY <2>1, <2>2, <2>3
  <2> HIDE DEF c, u, d
  <2>5. Same(c, e) /\ IsClient(e)
    BY <1>1, <2>1, ConnectionsAside DEF Same
  <2>6. Same(e, f) /\ IsClient(f)
    BY <2>2, <2>5, ConnectionsAside DEF Same
  <2>7. Same(f, g) /\ IsClient(g)
    BY <2>3, <2>6, ConnectionsAside DEF Same
  <2>8. Same(g, d)
    BY <2>4, <2>7, ConnectionsAside
  <2> QED
    BY <2>5, <2>6, <2>7, <2>8, SameIsTransitive
<1> HIDE DEF c, u, d
<1>4. Same(client[s], d) /\ IsClient(d)
  BY <1>1, <1>3, SameIsTransitive DEF Same
<1>5. Same(client[s], WithTask(d, "reply", k.pc, NoSdp, {}))
  BY <1>4, WithTaskSame, SameIsTransitive
<1>6. PICK e : Same(client[s], e) /\ Resumed(s, e, << >>)
  BY <1>2, <1>4, <1>5
<1> QED
  BY <1>6, NothingIsAQueue DEF Continues, Resumed

LEMMA TaskContinues ==
  ASSUME NEW s, IsClient(client[s]), Task(s)
  PROVE  Continues(s)
<1>1. PICK k \in client[s].tasks : \/ Rejected(s, k) \/ OfferReady(s, k)
                                   \/ AcceptOffer(s, k) \/ Reply(s, k) \/ Answered(s, k)
  BY DEF Task
<1>2. PICK c : c = Without(client[s], k)
  OBVIOUS
<1>3. Same(client[s], c) /\ IsClient(c)
  BY <1>2, ConnectionsAside DEF Without, Same
<1>4. \A x : Same(client[s], [c EXCEPT !.pcs[k.pc].sig = x])
  <2> SUFFICES ASSUME NEW x PROVE Same(client[s], [c EXCEPT !.pcs[k.pc].sig = x])
    OBVIOUS
  <2>1. Same(c, [c EXCEPT !.pcs[k.pc].sig = x])
    BY <1>3, ConnectionsAside
  <2> QED
    BY <1>3, <2>1, SameIsTransitive
<1>5. CASE Rejected(s, k)
  <2>1. Resumed(s, c, << >>)
    BY <1>2, <1>5 DEF Rejected
  <2> QED
    BY <1>3, <2>1, NothingIsAQueue DEF Continues, Resumed
<1>6. CASE OfferReady(s, k)
  <2>1. PICK d : d = [c EXCEPT !.pcs[k.pc].sig = "offering"]
    OBVIOUS
  <2>2. PICK e \in OfferNext(d, k.rest) : Resumed(s, e, Description("offer", s, k.pc))
    BY <1>2, <1>6, <2>1 DEF OfferReady
  <2>3. Same(client[s], d) /\ IsClient(d)
    BY <1>4, <2>1 DEF Same
  <2>4. Same(client[s], e)
    BY <2>3, OfferNextSame, SameIsTransitive
  <2>5. "offer" \in Relayed
    BY DEF Relayed
  <2>6. PICK msgs : msgs = Description("offer", s, k.pc)
    OBVIOUS
  <2>7. Queue(msgs) /\ \A i \in 1..Len(msgs) : msgs[i].type \in Relayed
    BY <2>5, <2>6, DescriptionFrames
  <2> QED
    BY <2>2, <2>4, <2>6, <2>7 DEF Continues, Resumed
<1>7. CASE Reply(s, k)
  <2>1. PICK d : d = [c EXCEPT !.pcs[k.pc].sig = "stable"]
    OBVIOUS
  <2>2. PICK msgs : msgs = Description("answer", s, k.pc)
    OBVIOUS
  <2>3. Resumed(s, d, msgs)
    BY <1>2, <1>7, <2>1, <2>2 DEF Reply
  <2>4. "answer" \in Relayed
    BY DEF Relayed
  <2>5. Queue(msgs) /\ \A i \in 1..Len(msgs) : msgs[i].type \in Relayed
    BY <2>2, <2>4, DescriptionFrames
  <2> QED
    BY <1>4, <2>1, <2>3, <2>5 DEF Continues, Resumed
<1>8. CASE AcceptOffer(s, k) \/ Answered(s, k)
  BY <1>8, DescribedSame DEF AcceptOffer, Answered
<1> QED
  BY <1>1, <1>5, <1>6, <1>7, <1>8

\* A message is handled up to the first await.
LEMMA HandledEffect ==
  ASSUME NEW c, IsClient(c), NEW m, ClientBound(m), NEW d \in Handled(c, m)
  PROVE  /\ IsClient(d) /\ d.participants = Effect(c.participants, m)
         /\ d.muted = c.muted /\ d.toggled = c.toggled /\ d.phase = c.phase
<1>1. CASE m.type = "peers"
  <2>1. PICK e : e = [c EXCEPT !.participants = m.peers]
    OBVIOUS
  <2>2. d \in OfferNext(e, {p.user : p \in m.peers})
    BY <1>1, <2>1 DEF Handled
  <2>3. /\ IsClient(e) /\ e.participants = m.peers
        /\ e.muted = c.muted /\ e.toggled = c.toggled /\ e.phase = c.phase
    BY <2>1 DEF IsClient, ClientFields
  <2>4. Same(e, d)
    BY <2>2, <2>3, OfferNextSame
  <2> QED
    BY <1>1, <2>3, <2>4 DEF Same, Effect
<1>2. CASE m.type = "peer-joined"
  <2>1. d = [c EXCEPT !.participants = c.participants \cup {[user |-> m.user, muted |-> FALSE]}]
    BY <1>2 DEF Handled
  <2> QED
    BY <1>2, <2>1 DEF IsClient, ClientFields, Effect
<1>3. CASE m.type = "peer-left"
  <2>1. d = Forgotten(c, m.user)
    BY <1>3 DEF Handled
  <2>2. PICK list : list = {p \in c.participants : p.user # m.user}
    OBVIOUS
  <2>3. /\ IsClient(d) /\ d.participants = list
        /\ d.muted = c.muted /\ d.toggled = c.toggled /\ d.phase = c.phase
    BY <2>1, <2>2 DEF Forgotten, IsClient, ClientFields
  <2> QED
    BY <1>3, <2>2, <2>3 DEF Effect
<1>4. CASE m.type = "mute-changed"
  <2>1. PICK list : list = {IF p.user = m.user THEN [p EXCEPT !.muted = m.muted] ELSE p :
                              p \in c.participants}
    OBVIOUS
  <2>2. d = [c EXCEPT !.participants = list]
    BY <1>4, <2>1 DEF Handled
  <2>3. Effect(c.participants, m) = list
    BY <1>4, <2>1 DEF Effect
  <2> QED
    BY <2>2, <2>3 DEF IsClient, ClientFields
<1>5. CASE m.type \in Relayed
  <2>1. Same(c, d)
    <3>1. CASE m.type = "offer"
      <4>1. d = WithTask(WithConnection(c, m.from), "accept", Len(c.pcs) + 1, m.sdp, {})
        BY <3>1 DEF Handled
      <4>2. Same(c, WithConnection(c, m.from)) /\ IsClient(WithConnection(c, m.from))
        BY WithConnectionSame DEF Same
      <4> QED
        BY <4>1, <4>2, WithTaskSame, SameIsTransitive
    <3>2. CASE m.type = "answer"
      <4>1. d = IF c.peer[m.from] = 0 THEN c
                ELSE WithTask(c, "answered", c.peer[m.from], m.sdp, {})
        BY <3>2 DEF Handled
      <4> QED
        BY <4>1, SameAsItself, WithTaskSame
    <3>3. CASE m.type = "ice-candidate"
      <4>1. d = WithCandidate(c, m.from, m.sdp)
        BY <3>3 DEF Handled
      <4> QED
        BY <4>1, WithCandidateSame
    <3> QED
      BY <1>5, <3>1, <3>2, <3>3 DEF Relayed
  <2> QED
    BY <1>5, <2>1, RelayedHasNoEffect DEF Same
<1> QED
  BY <1>1, <1>2, <1>3, <1>4, <1>5 DEF ClientBound, News

-----------------------------------------------------------------------------
(* The types of the channel, and how far its sessions are *)

BroadcastTypes(s) ==
  /\ handler[s].pc \in {"new", "serve", "broadcast", "ended", "broken"}
  /\ handler[s].pc = "broadcast" =>
       /\ handler[s].then \in {"serve", "ended"}
       /\ ClientBound(handler[s].msg) /\ handler[s].msg.type \in News
       /\ handler[s].msg.user = Owner[s]

ClientTypes(s) ==
  /\ IsClient(client[s])
  /\ client[s].participants \in SUBSET Participant
  /\ client[s].muted \in BOOLEAN /\ client[s].toggled \in BOOLEAN

QueueTypes(s) ==
  /\ Queue(toServer[s]) /\ \A i \in 1..Len(toServer[s]) : ServerBound(toServer[s][i])
  /\ Queue(toClient[s]) /\ \A i \in 1..Len(toClient[s]) : ClientBound(toClient[s][i])

\* A socket is opened before it is joined, and is not open once its hook or its
\* coroutine has ended.
Progress(s) ==
  /\ net[s] \in {"unused", "open", "gone"}
  /\ client[s].phase \in {"off", "asking"} => net[s] = "unused"
  /\ net[s] = "unused" => handler[s].pc = "new" /\ toServer[s] = << >> /\ ~client[s].toggled
  /\ net[s] = "open" => client[s].phase = "open" /\ (handler[s].pc = "new" \/ Inside(s))

SocketTypes(s) == BroadcastTypes(s) /\ ClientTypes(s) /\ QueueTypes(s) /\ Progress(s)

AreFunctions ==
  /\ net = [s \in Sockets |-> net[s]]
  /\ toServer = [s \in Sockets |-> toServer[s]]
  /\ toClient = [s \in Sockets |-> toClient[s]]
  /\ handler = [s \in Sockets |-> handler[s]]
  /\ client = [s \in Sockets |-> client[s]]
  /\ room = [u \in Users |-> room[u]]

ListTypes ==
  /\ AreFunctions
  /\ \A u \in Users : room[u].muted \in BOOLEAN
  /\ \A s \in Sockets : SocketTypes(s)

\* Frames may be added to the end of a queue to a client.
Grows(q, r) == r = q \/ \E m : ClientBound(m) /\ r = Append(q, m)

\* A step of one socket; the others may be sent a frame.
StepOf(s) ==
  /\ AreFunctions'
  /\ \A x \in Sockets : x # s =>
       /\ net'[x] = net[x] /\ toServer'[x] = toServer[x] /\ handler'[x] = handler[x]
       /\ client'[x] = client[x] /\ Grows(toClient[x], toClient'[x])

LEMMA GrowsTypes ==
  ASSUME NEW q, NEW r, Grows(q, r), Queue(q), \A i \in 1..Len(q) : ClientBound(q[i])
  PROVE  Queue(r) /\ \A i \in 1..Len(r) : ClientBound(r[i])
<1>1. CASE r = q
  BY <1>1
<1>2. ASSUME NEW m, ClientBound(m), r = Append(q, m)
      PROVE  Queue(r) /\ \A i \in 1..Len(r) : ClientBound(r[i])
  <2>1. /\ Queue(r) /\ Len(r) = Len(q) + 1 /\ r[Len(q) + 1] = m
        /\ \A i \in 1..Len(q) : r[i] = q[i]
    BY <1>2, QueueAppend
  <2>2. \A i \in 1..(Len(q) + 1) : i \in 1..Len(q) \/ i = Len(q) + 1
    BY DEF Queue
  <2> QED
    BY <1>2, <2>1, <2>2
<1> QED
  BY <1>1, <1>2 DEF Grows

LEMMA StepKeepsTypes ==
  ASSUME ListTypes, NEW s \in Sockets, StepOf(s), SocketTypes(s)',
         \A u \in Users : room'[u].muted \in BOOLEAN
  PROVE  ListTypes'
<1>1. ASSUME NEW x \in Sockets, x # s
      PROVE  SocketTypes(x)'
  <2>1. /\ net'[x] = net[x] /\ toServer'[x] = toServer[x] /\ handler'[x] = handler[x]
        /\ client'[x] = client[x] /\ Grows(toClient[x], toClient'[x])
    BY <1>1 DEF StepOf
  <2>2. BroadcastTypes(x) /\ ClientTypes(x) /\ QueueTypes(x) /\ Progress(x)
    BY DEF ListTypes, SocketTypes
  <2>3. BroadcastTypes(x)' /\ ClientTypes(x)'
    BY <2>1, <2>2 DEF BroadcastTypes, ClientTypes
  <2>4. QueueTypes(x)'
    <3>1. PICK q, r : q = toClient[x] /\ r = toClient'[x]
      OBVIOUS
    <3>2. Queue(r) /\ \A i \in 1..Len(r) : ClientBound(r[i])
      BY <2>1, <2>2, <3>1, GrowsTypes DEF QueueTypes
    <3> QED
      BY <2>1, <2>2, <3>1, <3>2 DEF QueueTypes
  <2>5. Progress(x)'
    BY <2>1, <2>2 DEF Progress, Inside
  <2> QED
    BY <2>3, <2>4, <2>5 DEF SocketTypes
<1> QED
  BY <1>1 DEF ListTypes, StepOf

\* The value of a function of the sockets after a step.
LEMMA AfterUpdate ==
  ASSUME NEW f, f = [x \in Sockets |-> f[x]], NEW s \in Sockets, NEW v
  PROVE  /\ [f EXCEPT ![s] = v] = [x \in Sockets |-> [f EXCEPT ![s] = v][x]]
         /\ [f EXCEPT ![s] = v][s] = v
         /\ \A x \in Sockets : x # s => [f EXCEPT ![s] = v][x] = f[x]
OBVIOUS

LEMMA AfterDelivery ==
  ASSUME ListTypes, NEW t, NEW m
  PROVE  /\ Delivered(toClient, t, m) = [x \in Sockets |-> Delivered(toClient, t, m)[x]]
         /\ \A x \in Sockets :
              Delivered(toClient, t, m)[x] =
                IF x = t /\ net[t] = "open" THEN Append(toClient[x], m) ELSE toClient[x]
BY DEF ListTypes, AreFunctions, Delivered

-----------------------------------------------------------------------------
(* The invariant: what each participant will see *)

Viewer(t) == net[t] = "open" /\ Inside(t)

\* The coroutine of x still has to send its news to t.
Pending(x, t) == handler[x].pc = "broadcast" /\ t \in handler[x].todo

\* With the news about u that t has not been sent yet, a list is right about u.
Told(t, u, list) ==
  /\ \A x \in Sockets : Owner[x] = u /\ Pending(x, t) =>
       About(Effect(list, handler[x].msg), u) = Shown(u)
  /\ (\A x \in Sockets : Owner[x] = u => ~Pending(x, t)) => About(list, u) = Shown(u)

Expected(t, list) ==
  /\ About(list, Owner[t]) = {}
  /\ \A u \in Users : u # Owner[t] => Told(t, u, list)

\* The frames under way lead to a list, and for a participant to the right one.
View(t) ==
  \E list \in SUBSET Participant :
    /\ Leads(client[t].participants, toClient[t], list)
    /\ Viewer(t) => Expected(t, list)

\* The flag of the room is that of the hook, or will be.
MuteKnown(s) ==
  net[s] = "open" =>
    /\ \A i \in 1..Len(toServer[s]) : toServer[s][i].type = "mute" =>
         client[s].toggled /\ toServer[s][i].muted = client[s].muted
    /\ client[s].toggled =>
         \/ \E i \in 1..Len(toServer[s]) : toServer[s][i].type = "mute"
         \/ Inside(s) /\ room[Owner[s]].muted = client[s].muted
    /\ ~client[s].toggled =>
         /\ client[s].muted => s \in PushToTalk
         /\ Inside(s) => ~room[Owner[s]].muted

OneSession ==
  \A x, y \in Sockets :
    (/\ Owner[x] = Owner[y]
     /\ handler[x].pc \notin {"new", "ended"}
     /\ handler[y].pc \notin {"new", "ended"}) => x = y

\* News goes to sessions that joined, of other users.
Addressed ==
  \A x, t \in Sockets : Pending(x, t) => Owner[t] # Owner[x] /\ handler[t].pc # "new"

Agreement == OneSession /\ Addressed /\ \A s \in Sockets : View(s) /\ MuteKnown(s)

ListInv == ListTypes /\ (Undisturbed => Agreement)

-----------------------------------------------------------------------------
(* Steps of a client: the server and what others see stay *)

ClientOnly(s) ==
  /\ StepOf(s)
  /\ UNCHANGED <<room, handler, overlapped>>
  /\ \A x \in Sockets : x # s => toClient'[x] = toClient[x]

LEMMA ExpectedStays ==
  ASSUME UNCHANGED <<room, handler>>, NEW t \in Sockets, NEW list
  PROVE  Expected(t, list)' <=> Expected(t, list)
<1>1. \A x, y \in Sockets : Pending(x, y)' <=> Pending(x, y)
  BY DEF Pending
<1>2. \A u \in Users : Shown(u)' = Shown(u)
  BY DEF Shown
<1>3. \A u \in Users : Told(t, u, list)' <=> Told(t, u, list)
  BY <1>1, <1>2 DEF Told
<1> QED
  BY <1>3 DEF Expected

LEMMA ClientStepKeepsLists ==
  ASSUME ListInv, NEW s \in Sockets, ClientOnly(s), SocketTypes(s)',
         Undisturbed /\ Agreement => View(s)' /\ MuteKnown(s)'
  PROVE  ListInv'
<1>1. ListTypes'
  BY StepKeepsTypes DEF ListInv, ListTypes, ClientOnly
<1>2. ASSUME Undisturbed'
      PROVE  Agreement'
  <2>1. Undisturbed /\ Agreement
    BY <1>2 DEF ListInv, ClientOnly, Undisturbed
  <2>2. OneSession' /\ Addressed'
    BY <2>1 DEF Agreement, OneSession, Addressed, Pending, ClientOnly
  <2>3. ASSUME NEW x \in Sockets
        PROVE  View(x)' /\ MuteKnown(x)'
    <3>1. CASE x = s
      BY <2>1, <3>1
    <3>2. CASE x # s
      <4>1. /\ net'[x] = net[x] /\ toServer'[x] = toServer[x] /\ handler' = handler
            /\ client'[x] = client[x] /\ toClient'[x] = toClient[x] /\ room' = room
        BY <3>2 DEF ClientOnly, StepOf
      <4>2. MuteKnown(x)'
        <5>1. MuteKnown(x)
          BY <2>1 DEF Agreement
        <5> QED
          BY <4>1, <5>1 DEF MuteKnown, Inside
      <4>3. PICK list \in SUBSET Participant :
              /\ Leads(client[x].participants, toClient[x], list)
              /\ Viewer(x) => Expected(x, list)
        BY <2>1 DEF Agreement, View
      <4>4. Viewer(x)' <=> Viewer(x)
        BY <4>1 DEF Viewer, Inside
      <4>5. Viewer(x)' => Expected(x, list)'
        BY <4>1, <4>3, <4>4, ExpectedStays
      <4>6. Leads(client'[x].participants, toClient'[x], list)
        BY <4>1, <4>3
      <4> QED
        BY <4>2, <4>5, <4>6 DEF View
    <3> QED
      BY <3>1, <3>2
  <2> QED
    BY <2>2, <2>3 DEF Agreement
<1> QED
  BY <1>1, <1>2 DEF ListInv

\* What View(s) takes from a step of its own client.
LEMMA OwnView ==
  ASSUME ListTypes, NEW s \in Sockets, UNCHANGED <<room, handler>>, View(s),
         \/ /\ client'[s].participants = client[s].participants
            /\ toClient'[s] = toClient[s]
            /\ net'[s] = net[s] \/ handler[s].pc = "new"
         \/ /\ client'[s].participants \in SUBSET Participant
            /\ toClient'[s] = << >> /\ net'[s] # "open"
         \/ /\ toClient[s] # << >> /\ toClient'[s] = Tail(toClient[s]) /\ net'[s] = net[s]
            /\ client'[s].participants = Effect(client[s].participants, Head(toClient[s]))
  PROVE  View(s)'
<1>1. PICK list \in SUBSET Participant :
        /\ Leads(client[s].participants, toClient[s], list)
        /\ Viewer(s) => Expected(s, list)
  BY DEF View
<1>2. Expected(s, list)' <=> Expected(s, list)
  BY ExpectedStays
<1>3. CASE /\ client'[s].participants = client[s].participants
           /\ toClient'[s] = toClient[s]
           /\ net'[s] = net[s] \/ handler[s].pc = "new"
  <2>1. Viewer(s)' => Viewer(s)
    BY <1>3 DEF Viewer, Inside
  <2>2. Leads(client'[s].participants, toClient'[s], list)
    BY <1>1, <1>3
  <2> QED
    BY <1>1, <1>2, <2>1, <2>2 DEF View
<1>4. CASE /\ client'[s].participants \in SUBSET Participant
           /\ toClient'[s] = << >> /\ net'[s] # "open"
  <2>1. ~Viewer(s)'
    BY <1>4 DEF Viewer
  <2>2. Leads(client'[s].participants, toClient'[s], client'[s].participants)
    BY <1>4, NothingLeads
  <2> QED
    BY <1>4, <2>1, <2>2 DEF View
<1>5. CASE /\ toClient[s] # << >> /\ toClient'[s] = Tail(toClient[s]) /\ net'[s] = net[s]
           /\ client'[s].participants = Effect(client[s].participants, Head(toClient[s]))
  <2>1. Viewer(s)' => Viewer(s)
    BY <1>5 DEF Viewer, Inside
  <2>2. Queue(toClient[s])
    BY DEF ListTypes, SocketTypes, QueueTypes
  <2>3. Leads(Effect(client[s].participants, Head(toClient[s])), Tail(toClient[s]), list)
    BY <1>1, <1>5, <2>2, LeadsFromNext
  <2>4. Leads(client'[s].participants, toClient'[s], list)
    BY <1>5, <2>3
  <2> QED
    BY <1>1, <1>2, <2>1, <2>4 DEF View
<1> QED
  BY <1>3, <1>4, <1>5

-----------------------------------------------------------------------------
(* One lemma per step of a client *)

\* What a step of a client starts from.
LEMMA ClientBefore ==
  ASSUME ListTypes, NEW s \in Sockets
  PROVE  /\ BroadcastTypes(s) /\ ClientTypes(s) /\ QueueTypes(s) /\ Progress(s)
         /\ \A c : /\ [client EXCEPT ![s] = c] = [x \in Sockets |-> [client EXCEPT ![s] = c][x]]
                   /\ [client EXCEPT ![s] = c][s] = c
                   /\ \A x \in Sockets : x # s => [client EXCEPT ![s] = c][x] = client[x]
BY AfterUpdate DEF ListTypes, SocketTypes, AreFunctions

\* The hook's state changes, but for its connections nothing the invariant reads.
LEMMA EnterKeepsLists ==
  ASSUME ListInv, NEW s \in Sockets,
         client[s].phase \in {"off", "asking"}, UNCHANGED serverVars,
         NEW c, SetClient(s, c), IsClient(c), c.participants = client[s].participants,
         c.muted = client[s].muted, c.toggled = client[s].toggled
  PROVE  ListInv'
<1>1. ListTypes /\ Progress(s)
  BY ClientBefore DEF ListInv
<1>2. net[s] = "unused" /\ handler[s].pc = "new" /\ toServer[s] = << >> /\ ~client[s].toggled
  BY <1>1 DEF Progress
<1>3. /\ client'[s] = c /\ client' = [x \in Sockets |-> client'[x]]
      /\ \A x \in Sockets : x # s => client'[x] = client[x]
  BY ClientBefore DEF ListInv, SetClient
<1>4. ClientOnly(s)
  BY <1>3 DEF ClientOnly, StepOf, AreFunctions, ListInv, ListTypes, serverVars, Grows
<1>5. SocketTypes(s)'
  <2>1. BroadcastTypes(s)' /\ QueueTypes(s)'
    BY ClientBefore DEF ListInv, BroadcastTypes, QueueTypes, serverVars
  <2>2. ClientTypes(s)'
    BY <1>3, ClientBefore DEF ListInv, ClientTypes
  <2>3. Progress(s)'
    BY <1>2, <1>3 DEF Progress, serverVars
  <2> QED
    BY <2>1, <2>2, <2>3 DEF SocketTypes
<1>6. ASSUME Agreement PROVE View(s)' /\ MuteKnown(s)'
  <2>1. View(s)'
    BY <1>3, <1>6, OwnView DEF ListInv, Agreement, serverVars
  <2>2. MuteKnown(s)'
    BY <1>2 DEF MuteKnown, serverVars
  <2> QED
    BY <2>1, <2>2
<1> QED
  BY <1>4, <1>5, <1>6, ClientStepKeepsLists

LEMMA OpenedKeepsLists ==
  ASSUME ListInv, NEW s \in Sockets, client[s].phase = "asking",
         NEW muted \in BOOLEAN, muted => s \in PushToTalk, Opened(s, muted)
  PROVE  ListInv'
<1>1. net[s] = "unused" /\ handler[s].pc = "new" /\ toServer[s] = << >> /\ ~client[s].toggled
  BY ClientBefore DEF ListInv, Progress
<1>2. PICK c : c = [client[s] EXCEPT !.phase = "open", !.muted = muted]
  OBVIOUS
<1>3. /\ IsClient(c) /\ c.participants = client[s].participants /\ c.muted = muted
      /\ c.toggled = client[s].toggled /\ c.phase = "open"
  <2>1. PICK b : b = client[s]
    OBVIOUS
  <2>2. PICK e : e = [b EXCEPT !.phase = "open"]
    OBVIOUS
  <2>3. c = [e EXCEPT !.muted = muted] /\ IsClient(b)
    BY <1>2, <2>1, <2>2, ClientBefore DEF ListInv, ClientTypes
  <2>4. IsClient(e) /\ e.participants = b.participants /\ e.toggled = b.toggled /\ e.phase = "open"
    BY <2>2, <2>3 DEF IsClient, ClientFields
  <2>5. /\ IsClient(c) /\ c.participants = e.participants /\ c.muted = muted
        /\ c.toggled = e.toggled /\ c.phase = "open"
    BY <2>3, <2>4 DEF IsClient, ClientFields
  <2> QED
    BY <2>1, <2>4, <2>5
<1>4. /\ client'[s] = c /\ client' = [x \in Sockets |-> client'[x]]
      /\ \A x \in Sockets : x # s => client'[x] = client[x]
  BY <1>2, ClientBefore DEF ListInv, Opened, SetClient
<1>5. /\ net'[s] = "open" /\ net' = [x \in Sockets |-> net'[x]]
      /\ \A x \in Sockets : x # s => net'[x] = net[x]
  BY AfterUpdate DEF Opened, ListInv, ListTypes, AreFunctions
<1>6. UNCHANGED <<toServer, toClient, room, handler, overlapped>>
  BY DEF Opened
<1>7. ClientOnly(s)
  BY <1>4, <1>5, <1>6 DEF ClientOnly, StepOf, AreFunctions, ListInv, ListTypes, Grows
<1>8. SocketTypes(s)'
  <2>1. BroadcastTypes(s)' /\ QueueTypes(s)'
    BY <1>6, ClientBefore DEF ListInv, BroadcastTypes, QueueTypes
  <2>2. ClientTypes(s)'
    BY <1>3, <1>4, ClientBefore DEF ListInv, ClientTypes
  <2>3. Progress(s)'
    BY <1>1, <1>3, <1>4, <1>5, <1>6 DEF Progress
  <2> QED
    BY <2>1, <2>2, <2>3 DEF SocketTypes
<1>9. ASSUME Agreement PROVE View(s)' /\ MuteKnown(s)'
  <2>1. View(s)'
    BY <1>1, <1>3, <1>4, <1>6, <1>9, OwnView DEF ListInv, Agreement
  <2>2. MuteKnown(s)'
    <3>1. \A i \in 1..Len(<< >>) : FALSE
      BY EmptyQueue
    <3> QED
      BY <1>1, <1>3, <1>4, <1>6, <3>1 DEF MuteKnown, Inside
  <2> QED
    BY <2>1, <2>2
<1> QED
  BY <1>7, <1>8, <1>9, ClientStepKeepsLists

\* The socket is closed by the page, or lost.
LEMMA ClosedKeepsLists ==
  ASSUME ListInv, NEW s \in Sockets, net[s] # "unused" \/ client[s].phase = "open",
         NEW c, IsClient(c), client' = [client EXCEPT ![s] = c],
         c.participants \in SUBSET Participant, c.muted \in BOOLEAN, c.toggled \in BOOLEAN,
         c.phase \notin {"off", "asking"},
         net' = [net EXCEPT ![s] = "gone"], toClient' = [toClient EXCEPT ![s] = << >>],
         toServer' = toServer \/ toServer' = [toServer EXCEPT ![s] = << >>],
         UNCHANGED <<room, handler, overlapped>>
  PROVE  ListInv'
<1>1. /\ client'[s] = c /\ client' = [x \in Sockets |-> client'[x]]
      /\ \A x \in Sockets : x # s => client'[x] = client[x]
  BY ClientBefore DEF ListInv
<1>2. /\ net'[s] = "gone" /\ net' = [x \in Sockets |-> net'[x]]
      /\ \A x \in Sockets : x # s => net'[x] = net[x]
  BY AfterUpdate DEF ListInv, ListTypes, AreFunctions
<1>3. /\ toClient'[s] = << >> /\ toClient' = [x \in Sockets |-> toClient'[x]]
      /\ \A x \in Sockets : x # s => toClient'[x] = toClient[x]
  BY AfterUpdate DEF ListInv, ListTypes, AreFunctions
<1>4. /\ toServer'[s] \in {toServer[s], << >>} /\ toServer' = [x \in Sockets |-> toServer'[x]]
      /\ \A x \in Sockets : x # s => toServer'[x] = toServer[x]
  BY AfterUpdate DEF ListInv, ListTypes, AreFunctions
<1>5. ClientOnly(s)
  BY <1>1, <1>2, <1>3, <1>4 DEF ClientOnly, StepOf, AreFunctions, ListInv, ListTypes, Grows
<1>6. SocketTypes(s)'
  <2>1. BroadcastTypes(s)'
    BY ClientBefore DEF ListInv, BroadcastTypes
  <2>2. ClientTypes(s)'
    BY <1>1 DEF ClientTypes
  <2>3. QueueTypes(s)'
    BY <1>3, <1>4, ClientBefore, EmptyQueue DEF ListInv, QueueTypes
  <2>4. Progress(s)'
    BY <1>1, <1>2 DEF Progress
  <2> QED
    BY <2>1, <2>2, <2>3, <2>4 DEF SocketTypes
<1>7. ASSUME Agreement PROVE View(s)' /\ MuteKnown(s)'
  <2>1. View(s)'
    BY <1>1, <1>2, <1>3, <1>7, OwnView DEF ListInv, Agreement
  <2>2. MuteKnown(s)'
    BY <1>2 DEF MuteKnown
  <2> QED
    BY <2>1, <2>2
<1> QED
  BY <1>5, <1>6, <1>7, ClientStepKeepsLists

-----------------------------------------------------------------------------
(* What the hook sends and handles *)

\* Frames are sent on an open socket only, behind those already sent.
LEMMA SentFrames ==
  ASSUME ListTypes, NEW s \in Sockets, NEW msgs, Queue(msgs),
         \A i \in 1..Len(msgs) : ServerBound(msgs[i]),
         toServer' = Sent(s, msgs)
  PROVE  /\ toServer' = [x \in Sockets |-> toServer'[x]]
         /\ \A x \in Sockets : x # s => toServer'[x] = toServer[x]
         /\ Queue(toServer'[s])
         /\ \A i \in 1..Len(toServer'[s]) : ServerBound(toServer'[s][i])
         /\ net[s] # "open" => toServer'[s] = toServer[s]
         /\ \A i \in 1..Len(toServer[s]) :
              i \in 1..Len(toServer'[s]) /\ toServer'[s][i] = toServer[s][i]
         /\ \A i \in 1..Len(toServer'[s]) :
              \/ i \in 1..Len(toServer[s]) /\ toServer'[s][i] = toServer[s][i]
              \/ \E j \in 1..Len(msgs) : toServer'[s][i] = msgs[j]
         /\ net[s] = "open" => \A j \in 1..Len(msgs) :
              \E i \in 1..Len(toServer'[s]) : toServer'[s][i] = msgs[j]
<1>1. PICK q, r : q = toServer[s] /\ r = toServer'[s]
  OBVIOUS
<1>2. /\ toServer = [x \in Sockets |-> toServer[x]]
      /\ Queue(q) /\ \A i \in 1..Len(q) : ServerBound(q[i])
  BY <1>1 DEF ListTypes, AreFunctions, SocketTypes, QueueTypes
<1>3. /\ toServer' = [x \in Sockets |-> toServer'[x]]
      /\ \A x \in Sockets : x # s => toServer'[x] = toServer[x]
      /\ r = IF net[s] = "open" THEN q \o msgs ELSE q
  BY <1>1, <1>2 DEF Sent
<1>4. CASE net[s] # "open"
  <2>1. r = q
    BY <1>3, <1>4
  <2> QED
    BY <1>1, <1>2, <1>3, <1>4, <2>1
<1>5. CASE net[s] = "open"
  <2>1. r = q \o msgs
    BY <1>3, <1>5
  <2>2. Len(q) \in Nat /\ Len(msgs) \in Nat
    BY <1>2 DEF Queue
  <2>3. /\ Queue(r) /\ Len(r) = Len(q) + Len(msgs)
        /\ \A i \in 1..Len(q) : r[i] = q[i]
        /\ \A i \in 1..Len(msgs) : r[Len(q) + i] = msgs[i]
        /\ \A i \in 1..Len(r) : \/ i \in 1..Len(q) /\ r[i] = q[i]
                                \/ i - Len(q) \in 1..Len(msgs) /\ r[i] = msgs[i - Len(q)]
    BY <1>2, <2>1, QueueConcat
  <2>4. \A i \in 1..Len(r) : ServerBound(r[i])
    BY <1>2, <2>3
  <2>5. \A i \in 1..Len(q) : i \in 1..Len(r) /\ r[i] = q[i]
    BY <2>2, <2>3
  <2>6. \A j \in 1..Len(msgs) : \E i \in 1..Len(r) : r[i] = msgs[j]
    <3>1. \A j \in 1..Len(msgs) : Len(q) + j \in 1..Len(r) /\ r[Len(q) + j] = msgs[j]
      BY <2>2, <2>3
    <3> QED
      BY <3>1
  <2>7. \A i \in 1..Len(r) : \/ i \in 1..Len(q) /\ r[i] = q[i]
                             \/ \E j \in 1..Len(msgs) : r[i] = msgs[j]
    BY <2>3
  <2> QED
    BY <1>1, <1>3, <1>5, <2>3, <2>4, <2>5, <2>6, <2>7
<1> QED
  BY <1>4, <1>5

\* The rest of a handler may send signals; the list and the flag stay.
LEMMA ContinuesKeepsLists ==
  ASSUME ListInv, NEW s \in Sockets, Continues(s)
  PROVE  ListInv'
<1>1. PICK d, msgs :
        /\ Same(client[s], d) /\ SetClient(s, d)
        /\ Queue(msgs) /\ \A i \in 1..Len(msgs) : msgs[i].type \in Relayed
        /\ toServer' = Sent(s, msgs)
        /\ UNCHANGED <<net, toClient, room, handler, overlapped>>
  BY DEF Continues
<1>2. /\ client'[s] = d /\ client' = [x \in Sockets |-> client'[x]]
      /\ \A x \in Sockets : x # s => client'[x] = client[x]
  BY <1>1, ClientBefore DEF ListInv, SetClient
<1>3. /\ IsClient(d) /\ d.participants = client[s].participants /\ d.muted = client[s].muted
      /\ d.toggled = client[s].toggled /\ d.phase = client[s].phase
  BY <1>1 DEF Same
<1>4. ListTypes /\ \A i \in 1..Len(msgs) : ServerBound(msgs[i])
  BY <1>1 DEF ServerBound, ListInv
<1>5. /\ toServer' = [x \in Sockets |-> toServer'[x]]
      /\ \A x \in Sockets : x # s => toServer'[x] = toServer[x]
      /\ Queue(toServer'[s])
      /\ \A i \in 1..Len(toServer'[s]) : ServerBound(toServer'[s][i])
      /\ net[s] # "open" => toServer'[s] = toServer[s]
      /\ \A i \in 1..Len(toServer[s]) :
           i \in 1..Len(toServer'[s]) /\ toServer'[s][i] = toServer[s][i]
      /\ \A i \in 1..Len(toServer'[s]) :
           \/ i \in 1..Len(toServer[s]) /\ toServer'[s][i] = toServer[s][i]
           \/ \E j \in 1..Len(msgs) : toServer'[s][i] = msgs[j]
  BY <1>1, <1>4, SentFrames
<1>6. ClientOnly(s)
  BY <1>1, <1>2, <1>5 DEF ClientOnly, StepOf, AreFunctions, ListInv, ListTypes, Grows
<1>7. SocketTypes(s)'
  <2>0. BroadcastTypes(s) /\ ClientTypes(s) /\ QueueTypes(s) /\ Progress(s)
    BY <1>4, ClientBefore
  <2>1. BroadcastTypes(s)' /\ QueueTypes(s)'
    BY <1>1, <1>5, <2>0 DEF BroadcastTypes, QueueTypes
  <2>2. ClientTypes(s)'
    BY <1>2, <1>3, <2>0 DEF ClientTypes
  <2>3. Progress(s)'
    BY <1>1, <1>2, <1>3, <1>5, <2>0 DEF Progress, Inside
  <2> QED
    BY <2>1, <2>2, <2>3 DEF SocketTypes
<1>8. ASSUME Agreement PROVE View(s)' /\ MuteKnown(s)'
  <2>1. View(s)'
    BY <1>1, <1>2, <1>3, <1>4, <1>8, OwnView DEF Agreement
  <2>2. MuteKnown(s)'
    <3>1. ASSUME net[s] = "open"
          PROVE  /\ \A i \in 1..Len(toServer[s]) : toServer[s][i].type = "mute" =>
                      client[s].toggled /\ toServer[s][i].muted = client[s].muted
                 /\ client[s].toggled =>
                      \/ \E i \in 1..Len(toServer[s]) : toServer[s][i].type = "mute"
                      \/ Inside(s) /\ room[Owner[s]].muted = client[s].muted
                 /\ ~client[s].toggled =>
                      /\ client[s].muted => s \in PushToTalk
                      /\ Inside(s) => ~room[Owner[s]].muted
      BY <1>8, <3>1 DEF Agreement, MuteKnown
    <3>2. \A j \in 1..Len(msgs) : msgs[j].type # "mute"
      BY <1>1 DEF Relayed
    <3>3. Inside(s)' <=> Inside(s)
      BY <1>1 DEF Inside
    <3>4. ASSUME net[s] = "open"
          PROVE  /\ \A i \in 1..Len(toServer'[s]) : toServer'[s][i].type = "mute" =>
                      d.toggled /\ toServer'[s][i].muted = d.muted
                 /\ d.toggled =>
                      \/ \E i \in 1..Len(toServer'[s]) : toServer'[s][i].type = "mute"
                      \/ Inside(s)' /\ room[Owner[s]].muted = d.muted
      <4>1. \A i \in 1..Len(toServer'[s]) : toServer'[s][i].type = "mute" =>
              i \in 1..Len(toServer[s]) /\ toServer'[s][i] = toServer[s][i]
        BY <1>5, <3>2
      <4> QED
        BY <1>3, <1>5, <3>1, <3>3, <3>4, <4>1
    <3> QED
      BY <1>1, <1>2, <1>3, <3>1, <3>3, <3>4 DEF MuteKnown
  <2> QED
    BY <2>1, <2>2
<1> QED
  BY <1>6, <1>7, <1>8, ClientStepKeepsLists

\* The one "mute" a session sends.
LEMMA ToggleMuteKeepsLists ==
  ASSUME ListInv, NEW s \in Sockets, ToggleMute(s)
  PROVE  ListInv'
<1>1. PICK m : m = [type |-> "mute", muted |-> ~client[s].muted]
  OBVIOUS
<1>2. PICK msgs : msgs = <<m>>
  OBVIOUS
<1>3. PICK b, e, c : /\ b = client[s] /\ e = [b EXCEPT !.muted = ~b.muted]
                     /\ c = [e EXCEPT !.toggled = TRUE]
  OBVIOUS
<1>4. /\ ~client[s].toggled /\ client[s].phase = "open" /\ net[s] = "open"
      /\ client' = [client EXCEPT ![s] = c] /\ toServer' = Sent(s, msgs)
      /\ UNCHANGED <<net, toClient, room, handler, overlapped>>
  BY <1>1, <1>2, <1>3 DEF ToggleMute, SetClient
<1>5. ListTypes /\ BroadcastTypes(s) /\ ClientTypes(s) /\ QueueTypes(s) /\ Progress(s)
  BY ClientBefore DEF ListInv
<1>6. /\ IsClient(c) /\ c.participants = client[s].participants /\ c.muted = ~client[s].muted
      /\ c.toggled = TRUE /\ c.phase = client[s].phase
  <2>1. IsClient(b) /\ b.muted \in BOOLEAN
    BY <1>3, <1>5 DEF ClientTypes
  <2>2. IsClient(e) /\ e.participants = b.participants /\ e.muted = ~b.muted /\ e.phase = b.phase
    BY <1>3, <2>1 DEF IsClient, ClientFields
  <2>3. /\ IsClient(c) /\ c.participants = e.participants /\ c.muted = e.muted
        /\ c.toggled = TRUE /\ c.phase = e.phase
    BY <1>3, <2>2 DEF IsClient, ClientFields
  <2> QED
    BY <1>3, <2>2, <2>3
<1>7. /\ client'[s] = c /\ client' = [x \in Sockets |-> client'[x]]
      /\ \A x \in Sockets : x # s => client'[x] = client[x]
  BY <1>4, <1>5, ClientBefore
<1>8. /\ Queue(msgs) /\ Len(msgs) = 1 /\ msgs[1] = m
      /\ m.type = "mute" /\ m.muted = c.muted /\ ServerBound(m)
  <2>1. m.type = "mute" /\ m.muted = c.muted /\ m.muted \in BOOLEAN
    BY <1>1, <1>6
  <2>2. Queue(msgs) /\ Len(msgs) = 1 /\ msgs[1] = m
    BY <1>2 DEF Queue
  <2> QED
    BY <2>1, <2>2 DEF ServerBound
<1>9. \A j \in 1..Len(msgs) : msgs[j] = m
  BY <1>8
<1>10. /\ toServer' = [x \in Sockets |-> toServer'[x]]
       /\ \A x \in Sockets : x # s => toServer'[x] = toServer[x]
       /\ Queue(toServer'[s])
       /\ \A i \in 1..Len(toServer'[s]) : ServerBound(toServer'[s][i])
       /\ \A i \in 1..Len(toServer'[s]) :
            \/ i \in 1..Len(toServer[s]) /\ toServer'[s][i] = toServer[s][i]
            \/ \E j \in 1..Len(msgs) : toServer'[s][i] = msgs[j]
       /\ \A j \in 1..Len(msgs) : \E i \in 1..Len(toServer'[s]) : toServer'[s][i] = msgs[j]
  <2>1. \A i \in 1..Len(msgs) : ServerBound(msgs[i])
    BY <1>8, <1>9
  <2> QED
    <3>1. toServer' = Sent(s, msgs) /\ Queue(msgs) /\ net[s] = "open"
      BY <1>4, <1>8
    <3>2. net[s] = "open" => \A j \in 1..Len(msgs) :
            \E i \in 1..Len(toServer'[s]) : toServer'[s][i] = msgs[j]
      BY <1>5, <2>1, <3>1, SentFrames
    <3>3. /\ toServer' = [x \in Sockets |-> toServer'[x]]
          /\ \A x \in Sockets : x # s => toServer'[x] = toServer[x]
          /\ Queue(toServer'[s])
          /\ \A i \in 1..Len(toServer'[s]) : ServerBound(toServer'[s][i])
      BY <1>5, <2>1, <3>1, SentFrames
    <3>4. \A i \in 1..Len(toServer'[s]) :
            \/ i \in 1..Len(toServer[s]) /\ toServer'[s][i] = toServer[s][i]
            \/ \E j \in 1..Len(msgs) : toServer'[s][i] = msgs[j]
      BY <1>5, <2>1, <3>1, SentFrames
    <3> QED
      BY <3>1, <3>2, <3>3, <3>4
<1>11. ClientOnly(s)
  BY <1>4, <1>7, <1>10, <1>5 DEF ClientOnly, StepOf, AreFunctions, ListTypes, Grows
<1>12. SocketTypes(s)'
  <2>1. BroadcastTypes(s)' /\ QueueTypes(s)'
    BY <1>4, <1>5, <1>10 DEF BroadcastTypes, QueueTypes
  <2>2. ClientTypes(s)'
    BY <1>5, <1>6, <1>7 DEF ClientTypes
  <2>3. Progress(s)'
    BY <1>4, <1>5, <1>6, <1>7 DEF Progress, Inside
  <2> QED
    BY <2>1, <2>2, <2>3 DEF SocketTypes
<1>13. ASSUME Agreement PROVE View(s)' /\ MuteKnown(s)'
  <2>1. View(s)'
    BY <1>4, <1>5, <1>6, <1>7, <1>13, OwnView DEF Agreement
  <2>2. \A i \in 1..Len(toServer[s]) : toServer[s][i].type # "mute"
    BY <1>4, <1>13 DEF Agreement, MuteKnown
  <2>3. \A i \in 1..Len(toServer'[s]) : toServer'[s][i].type = "mute" =>
          toServer'[s][i].muted = c.muted
    BY <1>8, <1>9, <1>10, <2>2
  <2>4. \E i \in 1..Len(toServer'[s]) : toServer'[s][i].type = "mute"
    <3>1. 1 \in 1..Len(msgs)
      BY <1>8
    <3> QED
      BY <1>8, <1>9, <1>10, <3>1
  <2>5. MuteKnown(s)'
    BY <1>6, <1>7, <2>3, <2>4 DEF MuteKnown
  <2> QED
    BY <2>1, <2>5
<1> QED
  BY <1>11, <1>12, <1>13, ClientStepKeepsLists

\* The hook takes the next frame.
LEMMA OnMessageKeepsLists ==
  ASSUME ListInv, NEW s \in Sockets, OnMessage(s)
  PROVE  ListInv'
<1>1. PICK q, m : q = toClient[s] /\ m = Head(q)
  OBVIOUS
<1>2. PICK c \in Handled(client[s], m) : client' = [client EXCEPT ![s] = c]
  BY <1>1 DEF OnMessage, SetClient
<1>3. /\ client[s].phase = "open" /\ net[s] = "open" /\ q # << >>
      /\ toClient' = [toClient EXCEPT ![s] = Tail(q)]
      /\ UNCHANGED <<net, toServer, room, handler, overlapped>>
  BY <1>1 DEF OnMessage
<1>4. ListTypes /\ BroadcastTypes(s) /\ ClientTypes(s) /\ QueueTypes(s) /\ Progress(s)
  BY ClientBefore DEF ListInv
<1>5. Queue(q) /\ \A i \in 1..Len(q) : ClientBound(q[i])
  BY <1>1, <1>4 DEF QueueTypes
<1>6. /\ Queue(Tail(q)) /\ ClientBound(m)
      /\ \A i \in 1..Len(Tail(q)) : ClientBound(Tail(q)[i])
  BY <1>1, <1>3, <1>5, QueueTail
<1>7. /\ IsClient(c) /\ c.participants = Effect(client[s].participants, m)
      /\ c.muted = client[s].muted /\ c.toggled = client[s].toggled
      /\ c.phase = client[s].phase
  <2>1. IsClient(client[s])
    BY <1>4 DEF ClientTypes
  <2> QED
    BY <1>2, <1>6, <2>1, HandledEffect
<1>8. c.participants \in SUBSET Participant
  BY <1>4, <1>6, <1>7, EffectOnTypes DEF ClientTypes
<1>9. /\ client'[s] = c /\ client' = [x \in Sockets |-> client'[x]]
      /\ \A x \in Sockets : x # s => client'[x] = client[x]
  BY <1>2, <1>4, ClientBefore
<1>10. /\ toClient'[s] = Tail(q) /\ toClient' = [x \in Sockets |-> toClient'[x]]
       /\ \A x \in Sockets : x # s => toClient'[x] = toClient[x]
  BY <1>3, <1>4, AfterUpdate DEF ListTypes, AreFunctions
<1>11. ClientOnly(s)
  BY <1>3, <1>4, <1>9, <1>10 DEF ClientOnly, StepOf, AreFunctions, ListTypes, Grows
<1>12. SocketTypes(s)'
  <2>1. BroadcastTypes(s)' /\ QueueTypes(s)'
    BY <1>3, <1>4, <1>6, <1>10 DEF BroadcastTypes, QueueTypes
  <2>2. ClientTypes(s)'
    BY <1>4, <1>7, <1>8, <1>9 DEF ClientTypes
  <2>3. Progress(s)'
    BY <1>3, <1>4, <1>7, <1>9 DEF Progress, Inside
  <2> QED
    BY <2>1, <2>2, <2>3 DEF SocketTypes
<1>13. ASSUME Agreement PROVE View(s)' /\ MuteKnown(s)'
  <2>1. View(s)'
    BY <1>1, <1>3, <1>4, <1>7, <1>9, <1>10, <1>13, OwnView DEF Agreement
  <2>2. MuteKnown(s)
    BY <1>13 DEF Agreement
  <2>3. MuteKnown(s)'
    BY <1>3, <1>7, <1>9, <2>2 DEF MuteKnown, Inside
  <2> QED
    BY <2>1, <2>3
<1> QED
  BY <1>11, <1>12, <1>13, ClientStepKeepsLists

LEMMA ClientKeepsLists ==
  ASSUME ListInv, NEW s \in Sockets, ClientStep(s) \/ UserStep(s)
  PROVE  ListInv'
<1>1. ListTypes /\ ClientTypes(s) /\ Progress(s) /\ IsClient(client[s])
  BY ClientBefore DEF ListInv, ClientTypes
<1>2. PICK b : b = client[s]
  OBVIOUS
<1>3. IsClient(b)
  BY <1>1, <1>2
<1>4. CASE ClientStep(s)
  BY <1>1, <1>4, OnMessageKeepsLists, TaskContinues, ContinuesKeepsLists DEF ClientStep
<1>5. CASE Enter(s)
  <2>1. PICK c : c = [b EXCEPT !.phase = "asking"]
    OBVIOUS
  <2>2. /\ IsClient(c) /\ c.participants = b.participants /\ c.muted = b.muted
        /\ c.toggled = b.toggled
    BY <1>3, <2>1 DEF IsClient, ClientFields
  <2>3. SetClient(s, c) /\ UNCHANGED serverVars /\ client[s].phase \in {"off", "asking"}
    BY <1>2, <1>5, <2>1 DEF Enter
  <2> QED
    BY <1>2, <2>2, <2>3, EnterKeepsLists
<1>6. CASE IceServersFail(s)
  <2>1. PICK c : c = [b EXCEPT !.phase = "closed"]
    OBVIOUS
  <2>2. /\ IsClient(c) /\ c.participants = b.participants /\ c.muted = b.muted
        /\ c.toggled = b.toggled
    BY <1>3, <2>1 DEF IsClient, ClientFields
  <2>3. SetClient(s, c) /\ UNCHANGED serverVars /\ client[s].phase \in {"off", "asking"}
    BY <1>2, <1>6, <2>1 DEF IceServersFail
  <2> QED
    BY <1>2, <2>2, <2>3, EnterKeepsLists
<1>7. CASE MicrophoneGranted(s) \/ MicrophoneRefused(s)
  <2>1. PICK muted \in BOOLEAN :
          client[s].phase = "asking" /\ Opened(s, muted) /\ (muted => s \in PushToTalk)
    <3>1. CASE MicrophoneRefused(s)
      BY <3>1 DEF MicrophoneRefused
    <3>2. CASE MicrophoneGranted(s)
      <4>1. client[s].phase = "asking" /\ Opened(s, s \in PushToTalk)
        BY <3>2 DEF MicrophoneGranted
      <4>2. \E muted \in BOOLEAN :
              client[s].phase = "asking" /\ Opened(s, muted) /\ (muted => s \in PushToTalk)
        <5> WITNESS (s \in PushToTalk) \in BOOLEAN
        <5> QED
          BY <4>1, Zenon
      <4> QED
        BY <4>2
    <3> QED
      BY <1>7, <3>1, <3>2
  <2> QED
    BY <2>1, OpenedKeepsLists
<1>8. CASE Leave(s)
  <2>1. CASE /\ client[s].phase = "asking" /\ UNCHANGED serverVars
             /\ SetClient(s, [client[s] EXCEPT !.left = TRUE])
    <3>1. PICK c : c = [b EXCEPT !.left = TRUE]
      OBVIOUS
    <3>2. /\ IsClient(c) /\ c.participants = b.participants /\ c.muted = b.muted
          /\ c.toggled = b.toggled
      BY <1>3, <3>1 DEF IsClient, ClientFields
    <3>3. SetClient(s, c) /\ UNCHANGED serverVars /\ client[s].phase \in {"off", "asking"}
      BY <1>2, <2>1, <3>1
    <3> QED
      BY <1>2, <3>2, <3>3, EnterKeepsLists
  <2>2. CASE /\ client[s].phase = "open"
             /\ SetClient(s, [NewClient EXCEPT !.phase = "closed", !.left = TRUE])
             /\ net' = [net EXCEPT ![s] = "gone"]
             /\ toClient' = [toClient EXCEPT ![s] = << >>]
             /\ UNCHANGED <<toServer, room, handler, overlapped>>
    <3>1. PICK n, e, c : /\ n = NewClient /\ e = [n EXCEPT !.phase = "closed"]
                         /\ c = [e EXCEPT !.left = TRUE]
      OBVIOUS
    <3>2. /\ IsClient(n) /\ n.participants = {} /\ n.muted = FALSE /\ n.toggled = FALSE
      BY <3>1, NewClientIsClient
    <3>3. /\ IsClient(e) /\ e.participants = {} /\ e.muted = FALSE /\ e.toggled = FALSE
          /\ e.phase = "closed"
      BY <3>1, <3>2 DEF IsClient, ClientFields
    <3>4. /\ IsClient(c) /\ c.participants = {} /\ c.muted = FALSE /\ c.toggled = FALSE
          /\ c.phase = "closed"
      BY <3>1, <3>3 DEF IsClient, ClientFields
    <3>5. client' = [client EXCEPT ![s] = c]
      BY <2>2, <3>1 DEF SetClient
    <3>6. /\ c.participants \in SUBSET Participant /\ c.muted \in BOOLEAN
          /\ c.toggled \in BOOLEAN /\ c.phase \notin {"off", "asking"}
      BY <3>4
    <3> QED
      BY <2>2, <3>4, <3>5, <3>6, ClosedKeepsLists
  <2> QED
    BY <1>8, <2>1, <2>2 DEF Leave
<1>9. CASE Drop(s)
  <2>1. /\ client[s].phase = "open"
        /\ net' = [net EXCEPT ![s] = "gone"]
        /\ toClient' = [toClient EXCEPT ![s] = << >>]
        /\ toServer' = [toServer EXCEPT ![s] = << >>]
        /\ UNCHANGED <<room, handler, overlapped, client>>
    BY <1>9 DEF Drop
  <2>2. client' = [client EXCEPT ![s] = client[s]]
    <3>1. client = [x \in Sockets |-> client[x]]
      BY <1>1 DEF ListTypes, AreFunctions
    <3> QED
      BY <2>1, <3>1
  <2>3. /\ IsClient(client[s]) /\ client[s].participants \in SUBSET Participant
        /\ client[s].muted \in BOOLEAN /\ client[s].toggled \in BOOLEAN
        /\ client[s].phase \notin {"off", "asking"}
    BY <1>1, <2>1 DEF ClientTypes
  <2> QED
    BY <2>1, <2>2, <2>3, ClosedKeepsLists
<1>10. CASE ToggleMute(s)
  BY <1>10, ToggleMuteKeepsLists
<1> QED
  BY <1>4, <1>5, <1>6, <1>7, <1>8, <1>9, <1>10 DEF UserStep

-----------------------------------------------------------------------------
(* Steps of the server: what they leave *)

\* No other coroutine of that user is about.
Alone(s) ==
  \A x \in Sockets : Owner[x] = Owner[s] /\ x # s => handler[x].pc \in {"new", "ended"}

ServerOnly(s) ==
  /\ StepOf(s) /\ client' = client
  /\ overlapped \subseteq overlapped' /\ handler[s].pc # "broken"

LEMMA ServerStepKeepsLists ==
  ASSUME ListInv, NEW s \in Sockets, ServerOnly(s), SocketTypes(s)',
         \A u \in Users : room'[u].muted \in BOOLEAN,
         Undisturbed /\ Undisturbed' /\ Agreement => Agreement'
  PROVE  ListInv'
<1>1. ListTypes'
  BY StepKeepsTypes DEF ListInv, ServerOnly
<1>2. ASSUME Undisturbed'
      PROVE  Undisturbed
  <2>1. overlapped = {}
    BY <1>2 DEF Undisturbed, ServerOnly
  <2>2. ASSUME NEW x \in Sockets
        PROVE  handler[x].pc # "broken"
    <3>1. x # s => handler'[x] = handler[x]
      BY DEF ServerOnly, StepOf
    <3> QED
      BY <1>2, <3>1 DEF Undisturbed, ServerOnly
  <2> QED
    BY <2>1, <2>2 DEF Undisturbed
<1> QED
  BY <1>1, <1>2 DEF ListInv

LEMMA StartedAlone ==
  ASSUME OneSession, NEW s \in Sockets, handler[s].pc \notin {"new", "ended"}
  PROVE  Alone(s)
BY DEF OneSession, Alone

LEMMA OneSessionStays ==
  ASSUME OneSession, NEW s \in Sockets, StepOf(s), Alone(s) \/ handler'[s].pc = "ended"
  PROVE  OneSession' /\ (Alone(s) => Alone(s)')
<1>1. \A x \in Sockets : x # s => handler'[x] = handler[x]
  BY DEF StepOf
<1>2. Alone(s) => Alone(s)'
  BY <1>1 DEF Alone
<1>3. OneSession'
  <2>1. ASSUME NEW x \in Sockets, NEW y \in Sockets, Owner[x] = Owner[y],
               handler'[x].pc \notin {"new", "ended"}, handler'[y].pc \notin {"new", "ended"}
        PROVE  x = y
    <3>1. CASE x # s /\ y # s
      BY <1>1, <2>1, <3>1 DEF OneSession
    <3>2. CASE x = s
      BY <1>1, <2>1, <3>2 DEF Alone
    <3>3. CASE y = s
      BY <1>1, <2>1, <3>3 DEF Alone
    <3> QED
      BY <3>1, <3>2, <3>3
  <2> QED
    BY <2>1 DEF OneSession
<1> QED
  BY <1>2, <1>3

LEMMA AddressedStays ==
  ASSUME Addressed, NEW s \in Sockets, StepOf(s), handler'[s].pc # "new",
         \A t \in Sockets : Pending(s, t)' => Owner[t] # Owner[s] /\ handler[t].pc # "new"
  PROVE  Addressed'
<1>1. \A x \in Sockets : x # s => handler'[x] = handler[x]
  BY DEF StepOf
<1>2. ASSUME NEW x \in Sockets, NEW t \in Sockets, Pending(x, t)'
      PROVE  Owner[t] # Owner[x] /\ handler[t].pc # "new"
  <2>1. CASE x = s
    BY <1>2, <2>1
  <2>2. CASE x # s
    BY <1>1, <1>2, <2>2 DEF Addressed, Pending
  <2> QED
    BY <2>1, <2>2
<1> QED
  BY <1>1, <1>2 DEF Addressed

LEMMA MuteKnownStays ==
  ASSUME NEW s \in Sockets, NEW x \in Sockets, x # s, StepOf(s), MuteKnown(x),
         Inside(x) => room'[Owner[x]].muted = room[Owner[x]].muted
  PROVE  MuteKnown(x)'
<1>1. /\ net'[x] = net[x] /\ toServer'[x] = toServer[x] /\ handler'[x] = handler[x]
      /\ client'[x] = client[x]
  BY DEF StepOf
<1>2. Inside(x)' <=> Inside(x)
  BY <1>1 DEF Inside
<1> QED
  BY <1>1, <1>2 DEF MuteKnown

\* A list that is right after the step, for the frames that are there then.
LEMMA ViewAfter ==
  ASSUME ListTypes, NEW t \in Sockets, client'[t] = client[t],
         NEW list \in SUBSET Participant, NEW next,
         Leads(client[t].participants, toClient[t], list),
         \/ toClient'[t] = toClient[t] /\ next = list
         \/ \E m : /\ ClientBound(m) /\ toClient'[t] = Append(toClient[t], m)
                   /\ next = Effect(list, m),
         Viewer(t)' => Expected(t, next)'
  PROVE  View(t)'
<1>1. Queue(toClient[t])
  BY DEF ListTypes, SocketTypes, QueueTypes
<1>2. next \in SUBSET Participant /\ Leads(client[t].participants, toClient'[t], next)
  <2>1. CASE toClient'[t] = toClient[t] /\ next = list
    BY <2>1
  <2>2. CASE \E m : /\ ClientBound(m) /\ toClient'[t] = Append(toClient[t], m)
                    /\ next = Effect(list, m)
    <3>1. PICK m : /\ ClientBound(m) /\ toClient'[t] = Append(toClient[t], m)
                   /\ next = Effect(list, m)
      BY <2>2
    <3>2. next \in SUBSET Participant
      BY <3>1, EffectOnTypes
    <3>3. Leads(client[t].participants, Append(toClient[t], m), Effect(list, m))
      BY <1>1, LeadsFurther
    <3> QED
      BY <3>1, <3>2, <3>3
  <2> QED
    BY <2>1, <2>2
<1>3. Leads(client'[t].participants, toClient'[t], next)
  BY <1>2
<1> QED
  BY <1>2, <1>3 DEF View

\* What a step of s leaves of the news about other users.
LEMMA OthersTold ==
  ASSUME ListTypes, NEW s \in Sockets, StepOf(s), NEW t \in Sockets,
         NEW u \in Users, u # Owner[s], room'[u] = room[u],
         NEW list \in SUBSET Participant, NEW next \in SUBSET Participant,
         About(next, u) = About(list, u), Told(t, u, list)
  PROVE  Told(t, u, next)'
<1>1. \A x \in Sockets : x # s => handler'[x] = handler[x]
  BY DEF StepOf
<1>2. Shown(u)' = Shown(u)
  BY DEF Shown
<1>3. \A x \in Sockets : Owner[x] = u => x # s /\ (Pending(x, t)' <=> Pending(x, t))
  BY <1>1 DEF Pending
<1>4. ASSUME NEW x \in Sockets, Owner[x] = u, Pending(x, t)'
      PROVE  About(Effect(next, handler'[x].msg), u) = Shown(u)'
  <2>1. x # s /\ Pending(x, t) /\ handler'[x] = handler[x]
    BY <1>1, <1>3, <1>4
  <2>2. PICK m : m = handler[x].msg
    OBVIOUS
  <2>3. ClientBound(m) /\ m.type \in News /\ m.user = u
    BY <1>4, <2>1, <2>2 DEF ListTypes, SocketTypes, BroadcastTypes, Pending
  <2>4. About(Effect(list, m), u) = Shown(u)
    BY <1>4, <2>1, <2>2 DEF Told
  <2>5. About(list, m.user) = About(next, m.user)
    BY <2>3
  <2>6. About(Effect(list, m), m.user) = About(Effect(next, m), m.user)
    BY <2>3, <2>5, NewsIsAbout
  <2> QED
    BY <1>2, <2>1, <2>2, <2>3, <2>4, <2>6
<1>5. (\A x \in Sockets : Owner[x] = u => ~Pending(x, t)') => About(next, u) = Shown(u)'
  BY <1>2, <1>3 DEF Told
<1> QED
  BY <1>4, <1>5 DEF Told

\* News about its own user is that of s alone.
LEMMA OwnWasTold ==
  ASSUME NEW s \in Sockets, Alone(s), NEW t \in Sockets, NEW list, Told(t, Owner[s], list)
  PROVE  /\ Pending(s, t) => About(Effect(list, handler[s].msg), Owner[s]) = Shown(Owner[s])
         /\ ~Pending(s, t) => About(list, Owner[s]) = Shown(Owner[s])
<1>1. \A x \in Sockets : Owner[x] = Owner[s] /\ Pending(x, t) => x = s
  BY DEF Alone, Pending
<1> QED
  BY <1>1 DEF Told

LEMMA OwnIsTold ==
  ASSUME NEW s \in Sockets, Alone(s)', NEW t \in Sockets, NEW list,
         Pending(s, t)' => About(Effect(list, handler'[s].msg), Owner[s]) = Shown(Owner[s])',
         ~Pending(s, t)' => About(list, Owner[s]) = Shown(Owner[s])'
  PROVE  Told(t, Owner[s], list)'
<1>1. \A x \in Sockets : Owner[x] = Owner[s] /\ Pending(x, t)' => x = s
  BY DEF Alone, Pending
<1> QED
  BY <1>1 DEF Told

-----------------------------------------------------------------------------
(* Targets *)

LEMMA TargetsAre ==
  ASSUME RoomInv, NEW s \in Sockets
  PROVE  /\ Targets(Left(Owner[s]), {}) = Targets(room, {Owner[s]})
         /\ \A t \in Targets(room, {Owner[s]}) :
              t \in Sockets /\ Owner[t] # Owner[s] /\ handler[t].pc # "new"
         /\ \A t \in Sockets : Owner[t] # Owner[s] /\ room[Owner[t]].ws = t =>
              t \in Targets(room, {Owner[s]})
<1> DEFINE o == Owner[s]
<1>1. o \in Users /\ \A t \in Sockets : Owner[t] \in Users /\ t # NoSocket
  BY OwnerAssumption, SocketsAreNotNo
<1>2. /\ room = [u \in Users |-> room[u]]
      /\ \A u \in Users : room[u].ws # NoSocket =>
           /\ room[u].ws \in Sockets /\ Owner[room[u].ws] = u
           /\ Comes(handler[room[u].ws], "serve") \/ handler[room[u].ws].pc = "broken"
  BY Entries DEF RoomInv, TablesOK
<1>3. /\ \A u \in Users : u # o => Left(o)[u] = room[u]
      /\ Left(o)[o].ws = NoSocket
  BY <1>1, <1>2 DEF Left, Absent
<1>4. Present(Left(o)) \ {} = Present(room) \ {o}
  BY <1>1, <1>3 DEF Present
<1>5. Targets(Left(o), {}) = Targets(room, {o})
  <2>1. \A u \in Present(room) \ {o} : Left(o)[u].ws = room[u].ws
    BY <1>3 DEF Present
  <2> QED
    BY <1>4, <2>1 DEF Targets
<1>6. \A t \in Targets(room, {o}) : t \in Sockets /\ Owner[t] # o /\ handler[t].pc # "new"
  BY <1>2 DEF Targets, Present, Comes
<1>7. \A t \in Sockets : Owner[t] # o /\ room[Owner[t]].ws = t => t \in Targets(room, {o})
  BY <1>1 DEF Targets, Present
<1> QED
  BY <1>5, <1>6, <1>7

\* Without disturbance the entry of a user is that of his session.
LEMMA ViewerIsPresent ==
  ASSUME RoomInv, Undisturbed, NEW t \in Sockets, Inside(t)
  PROVE  room[Owner[t]].ws = t
BY DEF RoomInv, RoomHoldsLiveSockets, Undisturbed

LEMMA BroadcastingIs ==
  ASSUME NEW todo, NEW m, NEW then \in {"serve", "ended"}, NEW h, h = Broadcasting(todo, m, then)
  PROVE  /\ \A t : h.pc = "broadcast" /\ t \in h.todo <=> t \in todo
         /\ h.pc = "broadcast" => h.msg = m /\ h.then = then
         /\ h.pc \in {then, "broadcast"}
         /\ h.pc = "serve" \/ (h.pc = "broadcast" /\ h.then = "serve") <=> then = "serve"
BY DEF Broadcasting, Handler, At
-----------------------------------------------------------------------------
(* One lemma per step of the server *)

LEMMA ServerBefore ==
  ASSUME ListTypes, NEW s \in Sockets
  PROVE  /\ BroadcastTypes(s) /\ ClientTypes(s) /\ QueueTypes(s) /\ Progress(s)
         /\ Owner[s] \in Users
         /\ \A h : /\ [handler EXCEPT ![s] = h] = [x \in Sockets |-> [handler EXCEPT ![s] = h][x]]
                   /\ [handler EXCEPT ![s] = h][s] = h
                   /\ \A x \in Sockets : x # s => [handler EXCEPT ![s] = h][x] = handler[x]
BY AfterUpdate, OwnerAssumption DEF ListTypes, SocketTypes, AreFunctions

\* The frame of a send reaches an open socket.
LEMMA Delivers ==
  ASSUME ListTypes, NEW t, NEW m, ClientBound(m), toClient' = Delivered(toClient, t, m)
  PROVE  /\ toClient' = [x \in Sockets |-> toClient'[x]]
         /\ \A x \in Sockets : Grows(toClient[x], toClient'[x])
         /\ \A x \in Sockets : x # t \/ net[x] # "open" => toClient'[x] = toClient[x]
         /\ \A x \in Sockets : x = t /\ net[x] = "open" => toClient'[x] = Append(toClient[x], m)
<1>1. /\ toClient' = [x \in Sockets |-> toClient'[x]]
      /\ \A x \in Sockets :
           toClient'[x] = IF x = t /\ net[t] = "open" THEN Append(toClient[x], m) ELSE toClient[x]
  BY AfterDelivery
<1> QED
  BY <1>1 DEF Grows

\* The queues of s after a step that took a frame from it, or none, and sent it
\* one, or none.
LEMMA QueuesAfter ==
  ASSUME ListTypes, NEW s \in Sockets, Grows(toClient[s], toClient'[s]),
         \/ toServer'[s] = toServer[s]
         \/ toServer'[s] = << >>
         \/ toServer[s] # << >> /\ toServer'[s] = Tail(toServer[s])
  PROVE  QueueTypes(s)'
<1>1. PICK q, r, p, n : q = toClient[s] /\ r = toClient'[s] /\ p = toServer[s] /\ n = toServer'[s]
  OBVIOUS
<1>2. /\ Queue(q) /\ \A i \in 1..Len(q) : ClientBound(q[i])
      /\ Queue(p) /\ \A i \in 1..Len(p) : ServerBound(p[i])
  BY <1>1 DEF ListTypes, SocketTypes, QueueTypes
<1>3. Queue(r) /\ \A i \in 1..Len(r) : ClientBound(r[i])
  BY <1>1, <1>2, GrowsTypes
<1>4. Queue(n) /\ \A i \in 1..Len(n) : ServerBound(n[i])
  <2>1. CASE n = p
    BY <1>2, <2>1
  <2>2. CASE n = << >>
    BY <2>2, EmptyQueue
  <2>3. CASE p # << >> /\ n = Tail(p)
    BY <1>2, <2>3, QueueTail
  <2> QED
    BY <1>1, <2>1, <2>2, <2>3
<1> QED
  BY <1>1, <1>3, <1>4 DEF QueueTypes

\* A socket whose coroutine ends before it joined.
LEMMA EndedKeepsLists ==
  ASSUME ListInv, NEW s \in Sockets, handler[s].pc = "new",
         net[s] # "unused", net' = [net EXCEPT ![s] = "gone"],
         handler' = [handler EXCEPT ![s] = At("ended")],
         toServer' = toServer \/ toServer' = [toServer EXCEPT ![s] = << >>],
         UNCHANGED <<toClient, room, overlapped, client>>
  PROVE  ListInv'
<1>1. ListTypes /\ BroadcastTypes(s) /\ ClientTypes(s) /\ QueueTypes(s) /\ Progress(s)
  BY ServerBefore DEF ListInv
<1>2. /\ net'[s] = "gone" /\ net' = [x \in Sockets |-> net'[x]]
      /\ \A x \in Sockets : x # s => net'[x] = net[x]
  BY <1>1, AfterUpdate DEF ListTypes, AreFunctions
<1>3. /\ handler'[s] = At("ended") /\ handler' = [x \in Sockets |-> handler'[x]]
      /\ \A x \in Sockets : x # s => handler'[x] = handler[x]
  BY <1>1, ServerBefore
<1>4. handler'[s].pc = "ended"
  BY <1>3 DEF At, Handler
<1>5. /\ toServer'[s] \in {toServer[s], << >>} /\ toServer' = [x \in Sockets |-> toServer'[x]]
      /\ \A x \in Sockets : x # s => toServer'[x] = toServer[x]
  BY <1>1, AfterUpdate DEF ListTypes, AreFunctions
<1>6. ServerOnly(s)
  BY <1>1, <1>2, <1>3, <1>5 DEF ServerOnly, StepOf, AreFunctions, ListTypes, Grows
<1>7. SocketTypes(s)'
  <2>1. BroadcastTypes(s)'
    BY <1>4 DEF BroadcastTypes
  <2>2. ClientTypes(s)'
    BY <1>1 DEF ClientTypes
  <2>3. QueueTypes(s)'
    BY <1>1, <1>5, QueuesAfter DEF Grows
  <2>4. Progress(s)'
    BY <1>1, <1>2 DEF Progress
  <2> QED
    BY <2>1, <2>2, <2>3, <2>4 DEF SocketTypes
<1>8. ASSUME Agreement PROVE Agreement'
  <2>1. \A x, t \in Sockets : Pending(x, t)' <=> Pending(x, t)
    BY <1>3, <1>4 DEF Pending
  <2>2. OneSession'
    BY <1>4, <1>6, <1>8, OneSessionStays DEF Agreement, ServerOnly
  <2>3. Addressed'
    <3>1. \A t \in Sockets : ~Pending(s, t)'
      BY <1>4 DEF Pending
    <3> QED
      BY <1>4, <1>6, <1>8, <3>1, AddressedStays DEF Agreement, ServerOnly
  <2>4. ASSUME NEW t \in Sockets PROVE View(t)'
    <3>1. PICK list \in SUBSET Participant :
            /\ Leads(client[t].participants, toClient[t], list)
            /\ Viewer(t) => Expected(t, list)
      BY <1>8 DEF Agreement, View
    <3>2. Viewer(t)' => Viewer(t) /\ t # s
      BY <1>2, <1>3, <1>4 DEF Viewer, Inside
    <3>3. \A u \in Users : Told(t, u, list)' <=> Told(t, u, list)
      <4>1. \A u \in Users : Shown(u)' = Shown(u)
        BY DEF Shown
      <4>2. \A x \in Sockets : Pending(x, t) => handler'[x] = handler[x]
        BY <1>3 DEF Pending
      <4> QED
        BY <2>1, <4>1, <4>2 DEF Told
    <3>4. Viewer(t)' => Expected(t, list)'
      BY <3>1, <3>2, <3>3 DEF Expected
    <3> QED
      BY <1>1, <3>1, <3>4, ViewAfter
  <2>5. ASSUME NEW x \in Sockets PROVE MuteKnown(x)'
    <3>1. CASE x = s
      BY <1>2, <3>1 DEF MuteKnown
    <3>2. CASE x # s
      BY <1>6, <1>8, <3>2, MuteKnownStays DEF Agreement, ServerOnly
    <3> QED
      BY <3>1, <3>2
  <2> QED
    BY <2>2, <2>3, <2>4, <2>5 DEF Agreement
<1>9. \A u \in Users : room'[u].muted \in BOOLEAN
  BY <1>1 DEF ListTypes
<1> QED
  BY <1>6, <1>7, <1>8, <1>9, ServerStepKeepsLists

\* A send of a broadcast.
LEMMA BroadcastSendKeepsLists ==
  ASSUME ListInv, NEW s \in Sockets, BroadcastSend(s), client' = client
  PROVE  ListInv'
<1>1. ListTypes /\ BroadcastTypes(s) /\ ClientTypes(s) /\ QueueTypes(s) /\ Progress(s)
      /\ Owner[s] \in Users
  BY ServerBefore DEF ListInv
<1>2. PICK r, h, m :
        /\ r \in handler[s].todo
        /\ m = handler[s].msg /\ toClient' = Delivered(toClient, r, m)
        /\ h = Broadcasting(handler[s].todo \ {r}, m, handler[s].then)
        /\ handler' = [handler EXCEPT ![s] = h]
  BY DEF BroadcastSend
<1>3. handler[s].pc = "broadcast" /\ UNCHANGED <<net, toServer, room, overlapped>>
  BY DEF BroadcastSend
<1>4. /\ handler[s].then \in {"serve", "ended"}
      /\ ClientBound(m) /\ m.type \in News /\ m.user = Owner[s]
  BY <1>1, <1>2, <1>3 DEF BroadcastTypes
<1>5. /\ \A t : h.pc = "broadcast" /\ t \in h.todo <=> t \in handler[s].todo \ {r}
      /\ h.pc = "broadcast" => h.msg = m /\ h.then = handler[s].then
      /\ h.pc \in {handler[s].then, "broadcast"}
      /\ h.pc = "serve" \/ (h.pc = "broadcast" /\ h.then = "serve") <=> handler[s].then = "serve"
  BY <1>2, <1>4, BroadcastingIs
<1>6. /\ handler'[s] = h /\ handler' = [x \in Sockets |-> handler'[x]]
      /\ \A x \in Sockets : x # s => handler'[x] = handler[x]
  BY <1>1, <1>2, ServerBefore
<1>7. /\ toClient' = [x \in Sockets |-> toClient'[x]]
      /\ \A x \in Sockets : Grows(toClient[x], toClient'[x])
      /\ \A x \in Sockets : x # r \/ net[x] # "open" => toClient'[x] = toClient[x]
      /\ \A x \in Sockets : x = r /\ net[x] = "open" => toClient'[x] = Append(toClient[x], m)
  BY <1>1, <1>2, <1>4, Delivers
<1>8. \A x \in Sockets : Inside(x)' <=> Inside(x)
  BY <1>3, <1>5, <1>6 DEF Inside
<1>9. ServerOnly(s)
  BY <1>1, <1>3, <1>6, <1>7 DEF ServerOnly, StepOf, AreFunctions, ListTypes
<1>10. SocketTypes(s)'
  <2>1. BroadcastTypes(s)'
    BY <1>3, <1>4, <1>5, <1>6 DEF BroadcastTypes
  <2>2. ClientTypes(s)'
    BY <1>1 DEF ClientTypes
  <2>3. QueueTypes(s)'
    BY <1>1, <1>3, <1>7, QueuesAfter
  <2>4. Progress(s)'
    BY <1>1, <1>3, <1>8 DEF Progress
  <2> QED
    BY <2>1, <2>2, <2>3, <2>4 DEF SocketTypes
<1>11. ASSUME Agreement PROVE Agreement'
  <2>1. Alone(s)
    BY <1>3, <1>11, StartedAlone DEF Agreement
  <2>2. OneSession' /\ Alone(s)'
    BY <1>9, <1>11, <2>1, OneSessionStays DEF Agreement, ServerOnly
  <2>3. \A t \in Sockets : Pending(s, t)' <=> Pending(s, t) /\ t # r
    BY <1>3, <1>5, <1>6 DEF Pending
  <2>4. Addressed'
    <3>1. \A t \in Sockets : Pending(s, t)' => Owner[t] # Owner[s] /\ handler[t].pc # "new"
      BY <1>11, <2>3 DEF Agreement, Addressed
    <3>2. handler'[s].pc # "new"
      BY <1>4, <1>5, <1>6
    <3> QED
      BY <1>9, <1>11, <3>1, <3>2, AddressedStays DEF Agreement, ServerOnly
  <2>5. ASSUME NEW t \in Sockets PROVE View(t)'
    <3>1. PICK list \in SUBSET Participant :
            /\ Leads(client[t].participants, toClient[t], list)
            /\ Viewer(t) => Expected(t, list)
      BY <1>11 DEF Agreement, View
    <3>2. Viewer(t)' <=> Viewer(t)
      BY <1>3, <1>8 DEF Viewer
    <3>3. PICK next : next = IF t = r /\ net[t] = "open" THEN Effect(list, m) ELSE list
      OBVIOUS
    <3>4. next \in SUBSET Participant
      BY <1>4, <3>3, EffectOnTypes
    <3>5. \/ toClient'[t] = toClient[t] /\ next = list
          \/ \E f : /\ ClientBound(f) /\ toClient'[t] = Append(toClient[t], f)
                    /\ next = Effect(list, f)
      BY <1>4, <1>7, <3>3
    <3>6. \A u \in Users : u # Owner[s] => About(next, u) = About(list, u)
      BY <1>4, <3>3, NewsIsLocal
    <3>7. ASSUME Viewer(t)
          PROVE  Expected(t, next)'
      <4>1. About(next, Owner[t]) = {}
        <5>1. About(list, Owner[t]) = {} /\ Owner[t] \in Users
          BY <3>1, <3>7, OwnerAssumption DEF Expected
        <5>2. CASE t # r
          BY <3>3, <5>1, <5>2
        <5>3. CASE t = r
          <6>1. Pending(s, t)
            BY <1>2, <1>3, <5>3 DEF Pending
          <6>2. Owner[t] # Owner[s]
            BY <1>11, <6>1 DEF Agreement, Addressed
          <6> QED
            BY <3>6, <5>1, <6>2
        <5> QED
          BY <5>2, <5>3
      <4>2. ASSUME NEW u \in Users, u # Owner[t]
            PROVE  Told(t, u, next)'
        <5>1. Told(t, u, list)
          BY <3>1, <3>7, <4>2 DEF Expected
        <5>2. CASE u # Owner[s]
          <6>1. room'[u] = room[u] /\ About(next, u) = About(list, u)
            BY <1>3, <3>6, <5>2
          <6> QED
            BY <1>1, <1>9, <3>4, <5>1, <5>2, <6>1, OthersTold DEF ServerOnly
        <5>3. CASE u = Owner[s]
          <6>1. /\ Pending(s, t) => About(Effect(list, m), u) = Shown(u)
                /\ ~Pending(s, t) => About(list, u) = Shown(u)
            BY <1>2, <2>1, <5>1, <5>3, OwnWasTold
          <6>2. Shown(u)' = Shown(u)
            BY <1>3 DEF Shown
          <6>3. Pending(s, t)' => next = list /\ handler'[s].msg = m /\ Pending(s, t)
            <7>1. Pending(s, t)' => handler'[s].pc = "broadcast"
              BY DEF Pending
            <7> QED
              BY <1>5, <1>6, <2>3, <3>3, <7>1
          <6>4. ~Pending(s, t)' => IF Pending(s, t) THEN next = Effect(list, m) ELSE next = list
            <7>1. t = r => Pending(s, t)
              BY <1>2, <1>3 DEF Pending
            <7>2. net[t] = "open"
              BY <3>7 DEF Viewer
            <7> QED
              BY <2>3, <3>3, <7>1, <7>2
          <6>5. Pending(s, t)' => About(Effect(next, handler'[s].msg), u) = Shown(u)'
            BY <6>1, <6>2, <6>3
          <6>6. ~Pending(s, t)' => About(next, u) = Shown(u)'
            BY <6>1, <6>2, <6>4
          <6> QED
            BY <2>2, <5>3, <6>5, <6>6, OwnIsTold
        <5> QED
          BY <5>2, <5>3
      <4> QED
        BY <4>1, <4>2 DEF Expected
    <3> QED
      BY <1>1, <3>1, <3>2, <3>5, <3>7, ViewAfter
  <2>6. ASSUME NEW x \in Sockets PROVE MuteKnown(x)'
    <3>1. MuteKnown(x)
      BY <1>11 DEF Agreement
    <3> QED
      BY <1>3, <1>8, <3>1 DEF MuteKnown
  <2> QED
    BY <2>2, <2>4, <2>5, <2>6 DEF Agreement
<1>12. \A u \in Users : room'[u].muted \in BOOLEAN
  BY <1>1, <1>3 DEF ListTypes
<1> QED
  BY <1>9, <1>10, <1>11, <1>12, ServerStepKeepsLists

-----------------------------------------------------------------------------
(* Join, mute and leave: news about the user of s is on its way *)

LEMMA AnnouncedAgrees ==
  ASSUME ListTypes, RoomInv, Undisturbed, Agreement,
         NEW s \in Sockets, ServerOnly(s), Alone(s), handler[s].pc \in {"new", "serve"},
         NEW m, ClientBound(m), m.type \in News, m.user = Owner[s],
         NEW then \in {"serve", "ended"}, NEW h,
         h = Broadcasting(Targets(room, {Owner[s]}), m, then), handler'[s] = h,
         \A u \in Users : u # Owner[s] => room'[u] = room[u],
         \A x \in Sockets : x # s => toClient'[x] = toClient[x],
         \A list \in SUBSET Participant :
           About(list, Owner[s]) = Shown(Owner[s]) =>
             About(Effect(list, m), Owner[s]) = Shown(Owner[s])',
         View(s)', MuteKnown(s)'
  PROVE  Agreement'
<1>1. StepOf(s) /\ client' = client /\ Owner[s] \in Users
  BY OwnerAssumption DEF ServerOnly
<1>2. \A x \in Sockets : x # s => handler'[x] = handler[x] /\ net'[x] = net[x]
  BY <1>1 DEF StepOf
<1>3. /\ \A t : h.pc = "broadcast" /\ t \in h.todo <=> t \in Targets(room, {Owner[s]})
      /\ h.pc = "broadcast" => h.msg = m
      /\ h.pc \in {then, "broadcast"}
  BY BroadcastingIs
<1>4. \A t \in Sockets : Pending(s, t)' <=> t \in Targets(room, {Owner[s]})
  BY <1>3 DEF Pending
<1>5. OneSession' /\ Alone(s)'
  BY <1>1, OneSessionStays DEF Agreement
<1>6. Addressed'
  <2>1. \A t \in Sockets : Pending(s, t)' => Owner[t] # Owner[s] /\ handler[t].pc # "new"
    BY <1>4, TargetsAre
  <2>2. handler'[s].pc # "new"
    BY <1>3
  <2> QED
    BY <1>1, <2>1, <2>2, AddressedStays DEF Agreement
<1>7. \A x \in Sockets : x # s /\ Inside(x) => Owner[x] # Owner[s]
  BY DEF Alone, Inside
<1>8. ASSUME NEW t \in Sockets, t # s PROVE View(t)'
  <2>1. PICK list \in SUBSET Participant :
          /\ Leads(client[t].participants, toClient[t], list)
          /\ Viewer(t) => Expected(t, list)
    BY DEF Agreement, View
  <2>2. Viewer(t)' <=> Viewer(t)
    BY <1>2, <1>8 DEF Viewer, Inside
  <2>3. ASSUME Viewer(t) PROVE Expected(t, list)'
    <3>1. Inside(t) /\ Owner[t] # Owner[s]
      BY <1>7, <1>8, <2>3 DEF Viewer
    <3>2. Pending(s, t)' /\ ~Pending(s, t)
      <4>1. room[Owner[t]].ws = t
        BY <3>1, ViewerIsPresent
      <4> QED
        BY <1>4, <3>1, <4>1, TargetsAre DEF Pending
    <3>3. ASSUME NEW u \in Users, u # Owner[t]
          PROVE  Told(t, u, list)'
      <4>1. Told(t, u, list)
        BY <2>1, <2>3, <3>3 DEF Expected
      <4>2. CASE u # Owner[s]
        <5>1. room'[u] = room[u]
          BY <4>2
        <5> QED
          BY <1>1, <4>1, <4>2, <5>1, OthersTold
      <4>3. CASE u = Owner[s]
        <5>1. About(list, Owner[s]) = Shown(Owner[s])
          BY <3>2, <4>1, <4>3, OwnWasTold
        <5>2. About(Effect(list, m), Owner[s]) = Shown(Owner[s])'
          BY <5>1
        <5>3. handler'[s].msg = m
          BY <1>3, <3>2 DEF Pending
        <5> QED
          BY <1>5, <3>2, <4>3, <5>2, <5>3, OwnIsTold
      <4> QED
        BY <4>2, <4>3
    <3> QED
      BY <2>1, <2>3, <3>3 DEF Expected
  <2>4. client'[t] = client[t] /\ toClient'[t] = toClient[t]
    BY <1>1, <1>8
  <2> QED
    BY <2>1, <2>2, <2>3, <2>4, ViewAfter
<1>9. ASSUME NEW x \in Sockets, x # s PROVE MuteKnown(x)'
  <2>1. Inside(x) => room'[Owner[x]].muted = room[Owner[x]].muted
    BY <1>7, <1>9, OwnerAssumption
  <2> QED
    BY <1>1, <1>9, <2>1, MuteKnownStays DEF Agreement
<1>10. \A x \in Sockets : View(x)' /\ MuteKnown(x)'
  BY <1>8, <1>9
<1> QED
  BY <1>5, <1>6, <1>10 DEF Agreement

\* The types after such a step, which may have read a frame and sent one.
Announces(s, m, then, h) ==
  /\ client' = client /\ net' = net /\ overlapped \subseteq overlapped'
  /\ ClientBound(m) /\ m.type \in News /\ m.user = Owner[s]
  /\ then \in {"serve", "ended"}
  /\ \E todo : h = Broadcasting(todo, m, then)
  /\ handler' = [handler EXCEPT ![s] = h]
  /\ handler[s].pc \in {"new", "serve"} /\ net[s] # "unused"
  /\ net[s] = "open" => then = "serve"
  /\ \/ toServer' = toServer
     \/ toServer[s] # << >> /\ toServer' = [toServer EXCEPT ![s] = Tail(toServer[s])]
  /\ toClient' = [x \in Sockets |-> toClient'[x]]
  /\ \A x \in Sockets : Grows(toClient[x], toClient'[x])
  /\ room' = [u \in Users |-> room'[u]]

LEMMA AnnouncedTypes ==
  ASSUME ListTypes, NEW s \in Sockets, NEW m, NEW then, NEW h, Announces(s, m, then, h)
  PROVE  /\ ServerOnly(s) /\ SocketTypes(s)' /\ handler'[s] = h
         /\ Inside(s)' <=> then = "serve"
<1> USE DEF Announces
<1>1. BroadcastTypes(s) /\ ClientTypes(s) /\ QueueTypes(s) /\ Progress(s)
  BY ServerBefore
<1>2. /\ handler'[s] = h /\ handler' = [x \in Sockets |-> handler'[x]]
      /\ \A x \in Sockets : x # s => handler'[x] = handler[x]
  BY ServerBefore
<1>3. /\ h.pc = "broadcast" => h.msg = m /\ h.then = then
      /\ h.pc \in {then, "broadcast"}
      /\ h.pc = "serve" \/ (h.pc = "broadcast" /\ h.then = "serve") <=> then = "serve"
  <2>1. PICK todo : h = Broadcasting(todo, m, then)
    OBVIOUS
  <2> QED
    BY <2>1, BroadcastingIs
<1>4. /\ toServer'[s] = toServer[s] \/ (toServer[s] # << >> /\ toServer'[s] = Tail(toServer[s]))
      /\ toServer' = [x \in Sockets |-> toServer'[x]]
      /\ \A x \in Sockets : x # s => toServer'[x] = toServer[x]
  BY AfterUpdate DEF ListTypes, AreFunctions
<1>5. ServerOnly(s)
  BY <1>2, <1>4 DEF ServerOnly, StepOf, AreFunctions, ListTypes
<1>6. Inside(s)' <=> then = "serve"
  BY <1>2, <1>3 DEF Inside
<1>7. SocketTypes(s)'
  <2>1. BroadcastTypes(s)'
    BY <1>2, <1>3 DEF BroadcastTypes
  <2>2. ClientTypes(s)'
    BY <1>1 DEF ClientTypes
  <2>3. QueueTypes(s)'
    BY <1>4, QueuesAfter
  <2>4. Progress(s)'
    BY <1>1, <1>6 DEF Progress
  <2> QED
    BY <2>1, <2>2, <2>3, <2>4 DEF SocketTypes
<1> QED
  BY <1>2, <1>5, <1>6, <1>7
\* set_muted, and the broadcast of the new flag.
LEMMA MuteKeepsLists ==
  ASSUME ListInv, RoomInv, NEW s \in Sockets, NEW f, f.type = "mute", f = Head(toServer[s]),
         handler[s].pc = "serve", toServer[s] # << >>, Mute(s, f),
         toServer' = [toServer EXCEPT ![s] = Tail(toServer[s])],
         UNCHANGED <<net, overlapped, client>>
  PROVE  ListInv'
<1>1. ListTypes /\ BroadcastTypes(s) /\ ClientTypes(s) /\ QueueTypes(s) /\ Progress(s)
      /\ Owner[s] \in Users
  BY ServerBefore DEF ListInv
<1>2. PICK q : q = toServer[s]
  OBVIOUS
<1>3. /\ Queue(q) /\ Queue(Tail(q)) /\ f = q[1] /\ 1 \in 1..Len(q) /\ q # << >>
      /\ \A i \in 1..Len(q) : ServerBound(q[i])
      /\ \A i \in 1..Len(Tail(q)) : Tail(q)[i] = q[i + 1] /\ i + 1 \in 1..Len(q)
  <2>1. Queue(q) /\ \A i \in 1..Len(q) : ServerBound(q[i])
    BY <1>1, <1>2 DEF QueueTypes
  <2> QED
    BY <1>2, <2>1, QueueTail
<1>4. f.muted \in BOOLEAN
  BY <1>3 DEF ServerBound, Relayed
<1>5. PICK m, h, todo :
        /\ m = [type |-> "mute-changed", user |-> Owner[s], muted |-> f.muted]
        /\ todo = Targets(room, {Owner[s]})
        /\ h = Broadcasting(todo, m, "serve")
        /\ handler' = [handler EXCEPT ![s] = h]
  BY DEF Mute
<1>6. ClientBound(m) /\ m.type \in News /\ m.user = Owner[s] /\ m.muted = f.muted
      /\ m.type = "mute-changed"
  BY <1>1, <1>4, <1>5 DEF ClientBound, News
<1>7. /\ room' = [u \in Users |-> room'[u]]
      /\ \A u \in Users : u # Owner[s] => room'[u] = room[u]
      /\ room'[Owner[s]].ws = room[Owner[s]].ws
      /\ room[Owner[s]].ws # NoSocket => room'[Owner[s]].muted = f.muted
      /\ \A u \in Users : room'[u].muted \in BOOLEAN
  <2>1. room = [u \in Users |-> room[u]] /\ \A u \in Users : room[u].muted \in BOOLEAN
    BY <1>1 DEF ListTypes, AreFunctions
  <2>2. CASE room[Owner[s]].ws = NoSocket
    BY <2>1, <2>2 DEF Mute
  <2>3. CASE room[Owner[s]].ws # NoSocket
    <3>1. PICK e : e = [ws |-> room[Owner[s]].ws, muted |-> f.muted]
      OBVIOUS
    <3>2. room' = [room EXCEPT ![Owner[s]] = e]
      BY <2>3, <3>1 DEF Mute
    <3>3. \A u \in Users : room'[u] = IF u = Owner[s] THEN e ELSE room[u]
      BY <2>1, <3>2
    <3> QED
      BY <1>1, <1>4, <2>1, <3>1, <3>2, <3>3
  <2> QED
    BY <2>2, <2>3
<1>8. toClient' = toClient /\ net[s] # "unused"
  BY <1>1 DEF Mute, Progress
<1>9. /\ toClient' = [x \in Sockets |-> toClient'[x]]
      /\ \A x \in Sockets : Grows(toClient[x], toClient'[x])
  BY <1>1, <1>8 DEF ListTypes, AreFunctions, Grows
<1>10. ServerOnly(s) /\ SocketTypes(s)' /\ handler'[s] = h /\ Inside(s)'
  <2>1. client' = client /\ net' = net /\ overlapped \subseteq overlapped'
    OBVIOUS
  <2>2. \/ toServer' = toServer
        \/ toServer[s] # << >> /\ toServer' = [toServer EXCEPT ![s] = Tail(toServer[s])]
    OBVIOUS
  <2>3. Announces(s, m, "serve", h)
    BY <1>5, <1>6, <1>7, <1>8, <1>9, <2>1, <2>2 DEF Announces
  <2> QED
    BY <1>1, <2>3, AnnouncedTypes
<1>11. ASSUME Undisturbed, Agreement PROVE Agreement'
  <2>1. Alone(s)
    BY <1>11, StartedAlone DEF Agreement
  <2>2. Inside(s) /\ room[Owner[s]].ws = s /\ s # NoSocket
    BY <1>11, ViewerIsPresent, SocketsAreNotNo DEF Inside
  <2>3. ASSUME NEW list \in SUBSET Participant, About(list, Owner[s]) = Shown(Owner[s])
        PROVE  About(Effect(list, m), Owner[s]) = Shown(Owner[s])'
    <3>1. About(list, Owner[s]) = {[user |-> Owner[s], muted |-> room[Owner[s]].muted]}
      BY <2>2, <2>3 DEF Shown
    <3>2. About(Effect(list, m), m.user) =
            {[p EXCEPT !.muted = m.muted] : p \in About(list, m.user)}
      BY <1>6, NewsTells
    <3>3. About(Effect(list, m), Owner[s]) = {[user |-> Owner[s], muted |-> f.muted]}
      BY <1>6, <3>1, <3>2
    <3>4. Shown(Owner[s])' = {[user |-> Owner[s], muted |-> f.muted]}
      BY <1>7, <2>2 DEF Shown
    <3> QED
      BY <3>3, <3>4
  <2>4. View(s)'
    <3>1. PICK list \in SUBSET Participant :
            /\ Leads(client[s].participants, toClient[s], list)
            /\ Viewer(s) => Expected(s, list)
      BY <1>11 DEF Agreement, View
    <3>2. ASSUME Viewer(s)' PROVE Expected(s, list)'
      <4>1. Expected(s, list)
        BY <2>2, <3>1, <3>2 DEF Viewer
      <4>2. ASSUME NEW u \in Users, u # Owner[s] PROVE Told(s, u, list)'
        <5>1. room'[u] = room[u] /\ Told(s, u, list)
          BY <1>7, <4>1, <4>2 DEF Expected
        <5> QED
          BY <1>1, <1>10, <4>2, <5>1, OthersTold DEF ServerOnly
      <4> QED
        BY <4>1, <4>2 DEF Expected
    <3> QED
      BY <1>1, <1>8, <3>1, <3>2, ViewAfter
  <2>5. MuteKnown(s)'
    <3>1. net[s] = "open" =>
            /\ \A i \in 1..Len(q) : q[i].type = "mute" =>
                 client[s].toggled /\ q[i].muted = client[s].muted
      BY <1>2, <1>11 DEF Agreement, MuteKnown
    <3>2. toServer'[s] = Tail(q)
      BY <1>1, <1>2, AfterUpdate DEF ListTypes, AreFunctions
    <3>3. net[s] = "open" => \A i \in 1..Len(Tail(q)) : Tail(q)[i].type = "mute" =>
            client[s].toggled /\ Tail(q)[i].muted = client[s].muted
      BY <1>3, <3>1
    <3>4. net[s] = "open" => client[s].toggled /\ room'[Owner[s]].muted = client[s].muted
      BY <1>3, <1>7, <2>2, <3>1
    <3> QED
      BY <1>10, <3>2, <3>3, <3>4 DEF MuteKnown
  <2> QED
    BY <1>1, <1>5, <1>6, <1>7, <1>8, <1>10, <1>11, <2>1, <2>3, <2>4, <2>5, AnnouncedAgrees
<1> QED
  BY <1>7, <1>10, <1>11, ServerStepKeepsLists

\* A relayed signal changes no list.
LEMMA RelayKeepsLists ==
  ASSUME ListInv, NEW s \in Sockets, NEW f, f.type # "mute", f = Head(toServer[s]),
         handler[s].pc = "serve", toServer[s] # << >>, Relay(s, f),
         toServer' = [toServer EXCEPT ![s] = Tail(toServer[s])],
         UNCHANGED <<net, overlapped, client>>
  PROVE  ListInv'
<1>1. ListTypes /\ BroadcastTypes(s) /\ ClientTypes(s) /\ QueueTypes(s) /\ Progress(s)
  BY ServerBefore DEF ListInv
<1>2. PICK q : q = toServer[s]
  OBVIOUS
<1>3. /\ Queue(q) /\ Queue(Tail(q)) /\ Len(q) \in Nat /\ Len(Tail(q)) = Len(q) - 1
      /\ f = q[1] /\ 1 \in 1..Len(q) /\ q # << >>
      /\ \A i \in 1..Len(q) : ServerBound(q[i])
      /\ \A i \in 1..Len(Tail(q)) : Tail(q)[i] = q[i + 1] /\ i + 1 \in 1..Len(q)
  <2>1. Queue(q) /\ \A i \in 1..Len(q) : ServerBound(q[i])
    BY <1>1, <1>2 DEF QueueTypes
  <2> QED
    BY <1>2, <2>1, QueueTail DEF Queue
<1>4. PICK m : m = [type |-> f.type, from |-> Owner[s], sdp |-> f.sdp]
  OBVIOUS
<1>5. m.type \in Relayed /\ ClientBound(m)
  <2>1. f.type \in Relayed
    BY <1>3 DEF ServerBound
  <2> QED
    BY <1>4, <2>1 DEF ClientBound
<1>6. UNCHANGED <<room, handler>>
  BY DEF Relay
<1>7. /\ toClient' = [x \in Sockets |-> toClient'[x]]
      /\ \A x \in Sockets : toClient'[x] = toClient[x] \/ toClient'[x] = Append(toClient[x], m)
  <2>1. PICK r : r = room[f.to].ws
    OBVIOUS
  <2>2. toClient' = toClient \/ toClient' = Delivered(toClient, r, m)
    BY <1>4, <2>1 DEF Relay
  <2>3. CASE toClient' = toClient
    BY <1>1, <2>3 DEF ListTypes, AreFunctions
  <2>4. CASE toClient' = Delivered(toClient, r, m)
    BY <1>1, <1>5, <2>4, Delivers
  <2> QED
    BY <2>2, <2>3, <2>4
<1>8. /\ toServer'[s] = Tail(q) /\ toServer' = [x \in Sockets |-> toServer'[x]]
      /\ \A x \in Sockets : x # s => toServer'[x] = toServer[x]
  BY <1>1, <1>2, AfterUpdate DEF ListTypes, AreFunctions
<1>9. ServerOnly(s)
  BY <1>1, <1>5, <1>6, <1>7, <1>8 DEF ServerOnly, StepOf, AreFunctions, ListTypes, Grows
<1>10. SocketTypes(s)'
  <2>1. BroadcastTypes(s)' /\ ClientTypes(s)' /\ Progress(s)'
    BY <1>1, <1>6 DEF BroadcastTypes, ClientTypes, Progress, Inside
  <2>2. QueueTypes(s)'
    BY <1>1, <1>2, <1>3, <1>5, <1>7, <1>8, QueuesAfter DEF Grows
  <2> QED
    BY <2>1, <2>2 DEF SocketTypes
<1>11. ASSUME Agreement PROVE Agreement'
  <2>1. OneSession' /\ Addressed'
    BY <1>6, <1>11 DEF Agreement, OneSession, Addressed, Pending
  <2>2. ASSUME NEW t \in Sockets PROVE View(t)'
    <3>1. PICK list \in SUBSET Participant :
            /\ Leads(client[t].participants, toClient[t], list)
            /\ Viewer(t) => Expected(t, list)
      BY <1>11 DEF Agreement, View
    <3>2. Effect(list, m) = list
      BY <1>5, RelayedHasNoEffect
    <3>3. \/ toClient'[t] = toClient[t] /\ list = list
          \/ \E g : /\ ClientBound(g) /\ toClient'[t] = Append(toClient[t], g)
                    /\ list = Effect(list, g)
      BY <1>5, <1>7, <3>2
    <3>4. Viewer(t)' <=> Viewer(t)
      BY <1>6 DEF Viewer, Inside
    <3>5. Expected(t, list)' <=> Expected(t, list)
      BY <1>6, ExpectedStays
    <3> QED
      BY <1>1, <3>1, <3>3, <3>4, <3>5, ViewAfter
  <2>3. ASSUME NEW x \in Sockets, x # s PROVE MuteKnown(x)'
    BY <1>6, <1>9, <1>11, <2>3, MuteKnownStays DEF Agreement, ServerOnly
  <2>4. MuteKnown(s)'
    <3>1. Inside(s)' <=> Inside(s)
      BY <1>6 DEF Inside
    <3>2. net[s] = "open" =>
            /\ \A i \in 1..Len(q) : q[i].type = "mute" =>
                 client[s].toggled /\ q[i].muted = client[s].muted
            /\ client[s].toggled =>
                 \/ \E i \in 1..Len(q) : q[i].type = "mute"
                 \/ Inside(s) /\ room[Owner[s]].muted = client[s].muted
            /\ ~client[s].toggled =>
                 /\ client[s].muted => s \in PushToTalk
                 /\ Inside(s) => ~room[Owner[s]].muted
      BY <1>2, <1>11 DEF Agreement, MuteKnown
    <3>3. \A i \in 1..Len(q) : q[i].type = "mute" =>
            i - 1 \in 1..Len(Tail(q)) /\ Tail(q)[i - 1] = q[i]
      <4>1. ASSUME NEW i \in 1..Len(q), q[i].type = "mute"
            PROVE  i - 1 \in 1..Len(Tail(q)) /\ (i - 1) + 1 = i
        BY <1>3, <4>1
      <4> QED
        BY <1>3, <4>1
    <3>4. net[s] = "open" => \A i \in 1..Len(Tail(q)) : Tail(q)[i].type = "mute" =>
            client[s].toggled /\ Tail(q)[i].muted = client[s].muted
      BY <1>3, <3>2
    <3>5. (\E i \in 1..Len(q) : q[i].type = "mute") =>
            \E i \in 1..Len(Tail(q)) : Tail(q)[i].type = "mute"
      BY <3>3
    <3>6. net' = net /\ client' = client /\ room' = room /\ toServer'[s] = Tail(q)
      BY <1>6, <1>8
    <3>7. net'[s] = "open" =>
            /\ \A i \in 1..Len(toServer'[s]) : toServer'[s][i].type = "mute" =>
                 client'[s].toggled /\ toServer'[s][i].muted = client'[s].muted
            /\ client'[s].toggled =>
                 \/ \E i \in 1..Len(toServer'[s]) : toServer'[s][i].type = "mute"
                 \/ Inside(s)' /\ room'[Owner[s]].muted = client'[s].muted
      BY <3>1, <3>2, <3>4, <3>5, <3>6
    <3>8. net'[s] = "open" /\ ~client'[s].toggled =>
            /\ client'[s].muted => s \in PushToTalk
            /\ Inside(s)' => ~room'[Owner[s]].muted
      BY <3>1, <3>2, <3>6
    <3> QED
      BY <3>7, <3>8 DEF MuteKnown
  <2> QED
    BY <2>1, <2>2, <2>3, <2>4 DEF Agreement
<1>12. \A u \in Users : room'[u].muted \in BOOLEAN
  BY <1>1, <1>6 DEF ListTypes
<1> QED
  BY <1>9, <1>10, <1>11, <1>12, ServerStepKeepsLists

LEMMA ReceiveKeepsLists ==
  ASSUME ListInv, RoomInv, NEW s \in Sockets, Receive(s), client' = client
  PROVE  ListInv'
<1>1. PICK f : f = Head(toServer[s])
  OBVIOUS
<1>2. /\ handler[s].pc = "serve" /\ toServer[s] # << >>
      /\ toServer' = [toServer EXCEPT ![s] = Tail(toServer[s])]
      /\ UNCHANGED <<net, overlapped, client>>
      /\ IF f.type = "mute" THEN Mute(s, f) ELSE Relay(s, f)
  BY <1>1 DEF Receive
<1> QED
  BY <1>1, <1>2, MuteKeepsLists, RelayKeepsLists

\* leave, and the broadcast that tells it.
LEMMA DisconnectKeepsLists ==
  ASSUME ListInv, RoomInv, NEW s \in Sockets, Disconnect(s), client' = client
  PROVE  ListInv'
<1>1. ListTypes /\ BroadcastTypes(s) /\ ClientTypes(s) /\ QueueTypes(s) /\ Progress(s)
      /\ Owner[s] \in Users
  BY ServerBefore DEF ListInv
<1>2. PICK m, h, todo :
        /\ m = [type |-> "peer-left", user |-> Owner[s]]
        /\ todo = Targets(Left(Owner[s]), {})
        /\ h = Broadcasting(todo, m, "ended")
        /\ handler' = [handler EXCEPT ![s] = h]
  BY DEF Disconnect
<1>3. /\ handler[s].pc = "serve" /\ net[s] = "gone" /\ room' = [room EXCEPT ![Owner[s]] = Absent]
      /\ UNCHANGED <<net, toServer, toClient, overlapped>>
  BY DEF Disconnect, Left
<1>4. ClientBound(m) /\ m.type \in News /\ m.user = Owner[s] /\ m.type = "peer-left"
  BY <1>1, <1>2 DEF ClientBound, News
<1>5. todo = Targets(room, {Owner[s]})
  BY <1>2, TargetsAre
<1>6. /\ room' = [u \in Users |-> room'[u]]
      /\ \A u \in Users : u # Owner[s] => room'[u] = room[u]
      /\ room'[Owner[s]].ws = NoSocket
      /\ \A u \in Users : room'[u].muted \in BOOLEAN
  <2>1. room = [u \in Users |-> room[u]] /\ \A u \in Users : room[u].muted \in BOOLEAN
    BY <1>1 DEF ListTypes, AreFunctions
  <2> QED
    BY <1>1, <1>3, <2>1 DEF Absent
<1>7. /\ toClient' = [x \in Sockets |-> toClient'[x]]
      /\ \A x \in Sockets : Grows(toClient[x], toClient'[x])
  BY <1>1, <1>3 DEF ListTypes, AreFunctions, Grows
<1>8. ServerOnly(s) /\ SocketTypes(s)' /\ handler'[s] = h
  <2>1. client' = client /\ net' = net /\ overlapped \subseteq overlapped' /\ toServer' = toServer
    BY <1>3
  <2>2. Announces(s, m, "ended", h)
    BY <1>2, <1>3, <1>4, <1>6, <1>7, <2>1 DEF Announces
  <2> QED
    BY <1>1, <2>2, AnnouncedTypes
<1>9. ASSUME Undisturbed, Agreement PROVE Agreement'
  <2>1. Alone(s)
    BY <1>3, <1>9, StartedAlone DEF Agreement
  <2>2. ASSUME NEW list \in SUBSET Participant, About(list, Owner[s]) = Shown(Owner[s])
        PROVE  About(Effect(list, m), Owner[s]) = Shown(Owner[s])'
    BY <1>4, <1>6, <2>2, NewsTells DEF Shown
  <2>3. View(s)'
    <3>1. PICK list \in SUBSET Participant : Leads(client[s].participants, toClient[s], list)
      BY <1>9 DEF Agreement, View
    <3>2. ~Viewer(s)'
      BY <1>3 DEF Viewer
    <3> QED
      BY <1>1, <1>3, <3>1, <3>2, ViewAfter
  <2>4. MuteKnown(s)'
    BY <1>3 DEF MuteKnown
  <2> QED
    BY <1>1, <1>2, <1>3, <1>4, <1>5, <1>6, <1>8, <1>9, <2>1, <2>2, <2>3, <2>4, AnnouncedAgrees
<1> QED
  BY <1>6, <1>8, <1>9, ServerStepKeepsLists

\* join, the send of "peers", and the broadcast that tells the others.
LEMMA JoinKeepsLists ==
  ASSUME ListInv, RoomInv, NEW s \in Sockets, Join(s), client' = client
  PROVE  ListInv'
<1>1. ListTypes /\ BroadcastTypes(s) /\ ClientTypes(s) /\ QueueTypes(s) /\ Progress(s)
      /\ Owner[s] \in Users
  BY ServerBefore DEF ListInv
<1>2. PICK m, h, todo, peers :
        /\ m = [type |-> "peer-joined", user |-> Owner[s]]
        /\ todo = Targets(room, {Owner[s]})
        /\ h = Broadcasting(todo, m, "serve")
        /\ handler' = [handler EXCEPT ![s] = h]
        /\ peers = [type |-> "peers", peers |-> Existing(Owner[s])]
        /\ toClient' = Delivered(toClient, s, peers)
  BY DEF Join
<1>3. /\ handler[s].pc = "new" /\ net[s] # "unused" /\ Joined(Owner[s], s)
      /\ UNCHANGED <<net, toServer>>
  BY DEF Join
<1>4. /\ overlapped \subseteq overlapped'
      /\ Owner[s] \notin overlapped' => Started(Owner[s]) = {}
  BY <1>3 DEF Joined
<1>5. ClientBound(m) /\ m.type \in News /\ m.user = Owner[s] /\ m.type = "peer-joined"
  BY <1>1, <1>2 DEF ClientBound, News
<1>6. /\ room' = [u \in Users |-> room'[u]]
      /\ \A u \in Users : u # Owner[s] => room'[u] = room[u]
      /\ room'[Owner[s]].ws = s /\ room'[Owner[s]].muted = FALSE
      /\ \A u \in Users : room'[u].muted \in BOOLEAN
  <2>1. room = [u \in Users |-> room[u]] /\ \A u \in Users : room[u].muted \in BOOLEAN
    BY <1>1 DEF ListTypes, AreFunctions
  <2> QED
    BY <1>1, <1>3, <2>1 DEF Joined, Entered
<1>7. /\ ClientBound(peers) /\ Existing(Owner[s]) \in SUBSET Participant
      /\ \A list : Effect(list, peers) = Existing(Owner[s])
  <2>1. Existing(Owner[s]) \in SUBSET Participant
    BY <1>1 DEF ListTypes, Existing, Present, Participant
  <2> QED
    BY <1>2, <2>1 DEF ClientBound, Effect
<1>8. /\ toClient' = [x \in Sockets |-> toClient'[x]]
      /\ \A x \in Sockets : Grows(toClient[x], toClient'[x])
      /\ \A x \in Sockets : x # s => toClient'[x] = toClient[x]
      /\ net[s] = "open" => toClient'[s] = Append(toClient[s], peers)
      /\ net[s] # "open" => toClient'[s] = toClient[s]
  BY <1>1, <1>2, <1>7, Delivers
<1>9. ServerOnly(s) /\ SocketTypes(s)' /\ handler'[s] = h /\ Inside(s)'
  <2>1. Announces(s, m, "serve", h)
    BY <1>2, <1>3, <1>4, <1>5, <1>6, <1>8 DEF Announces
  <2> QED
    BY <1>1, <2>1, AnnouncedTypes
<1>10. ASSUME Undisturbed, Undisturbed', Agreement PROVE Agreement'
  <2>1. Alone(s)
    <3>1. Started(Owner[s]) = {}
      BY <1>4, <1>10 DEF Undisturbed
    <3> QED
      BY <3>1 DEF Alone, Started
  <2>2. room[Owner[s]].ws = NoSocket
    <3>1. ASSUME room[Owner[s]].ws # NoSocket
          PROVE  FALSE
      <4>1. /\ room[Owner[s]].ws \in Sockets /\ Owner[room[Owner[s]].ws] = Owner[s]
            /\ \/ Comes(handler[room[Owner[s]].ws], "serve")
               \/ handler[room[Owner[s]].ws].pc = "broken"
        BY <1>1, <3>1, Entries DEF RoomInv, TablesOK
      <4>2. handler[room[Owner[s]].ws].pc \in {"new", "ended"}
        BY <1>3, <2>1, <4>1 DEF Alone
      <4> QED
        BY <1>10, <4>1, <4>2 DEF Comes, Undisturbed
    <3> QED
      BY <3>1
  <2>3. ASSUME NEW list \in SUBSET Participant, About(list, Owner[s]) = Shown(Owner[s])
        PROVE  About(Effect(list, m), Owner[s]) = Shown(Owner[s])'
    <3>1. About(Effect(list, m), Owner[s]) = {[user |-> Owner[s], muted |-> FALSE]}
      BY <1>5, <2>2, <2>3, NewsTells DEF Shown
    <3>2. Shown(Owner[s])' = {[user |-> Owner[s], muted |-> FALSE]}
      BY <1>6, SocketsAreNotNo DEF Shown
    <3> QED
      BY <3>1, <3>2
  <2>4. View(s)'
    <3>1. PICK list \in SUBSET Participant : Leads(client[s].participants, toClient[s], list)
      BY <1>10 DEF Agreement, View
    <3>2. CASE net[s] # "open"
      <4>1. ~Viewer(s)'
        BY <1>3, <3>2 DEF Viewer
      <4> QED
        BY <1>1, <1>8, <3>1, <3>2, <4>1, ViewAfter
    <3>3. CASE net[s] = "open"
      <4>1. PICK next : next = Existing(Owner[s])
        OBVIOUS
      <4>2. About(next, Owner[s]) = {}
        BY <2>2, <4>1 DEF About, Existing, Present
      <4>3. \A u \in Users : About(next, u) = Shown(u)
        BY <4>1 DEF About, Existing, Present, Shown
      <4>4. \A x \in Sockets : ~Pending(x, s)
        BY <1>3, <1>10 DEF Agreement, Addressed
      <4>5. ASSUME NEW u \in Users, u # Owner[s] PROVE Told(s, u, next)'
        <5>1. Told(s, u, next)
          BY <4>3, <4>4 DEF Told
        <5>2. room'[u] = room[u]
          BY <1>6, <4>5
        <5> QED
          BY <1>1, <1>7, <1>9, <4>1, <4>5, <5>1, <5>2, OthersTold DEF ServerOnly
      <4>6. Expected(s, next)'
        BY <4>2, <4>5 DEF Expected
      <4>7. \E f : ClientBound(f) /\ toClient'[s] = Append(toClient[s], f) /\ next = Effect(list, f)
        BY <1>7, <1>8, <3>3, <4>1
      <4> QED
        BY <1>1, <3>1, <4>6, <4>7, ViewAfter
    <3> QED
      BY <3>2, <3>3
  <2>5. MuteKnown(s)'
    <3>1. MuteKnown(s) /\ ~Inside(s)
      BY <1>3, <1>10 DEF Agreement, Inside
    <3> QED
      BY <1>3, <1>6, <3>1 DEF MuteKnown
  <2> QED
    BY <1>1, <1>2, <1>3, <1>5, <1>6, <1>8, <1>9, <1>10, <2>1, <2>3, <2>4, <2>5, AnnouncedAgrees
<1> QED
  BY <1>6, <1>9, <1>10, ServerStepKeepsLists

\* A join that breaks is not undisturbed.
LEMMA JoinBreaksKeepsLists ==
  ASSUME ListInv, NEW s \in Sockets, JoinBreaks(s), client' = client
  PROVE  ListInv'
<1>1. ListTypes /\ BroadcastTypes(s) /\ ClientTypes(s) /\ QueueTypes(s) /\ Progress(s)
      /\ Owner[s] \in Users
  BY ServerBefore DEF ListInv
<1>2. handler[s].pc = "new" /\ net[s] = "gone" /\ UNCHANGED <<net, toServer, toClient>>
  BY DEF JoinBreaks
<1>3. CASE handler' = [handler EXCEPT ![s] = At("ended")] /\ UNCHANGED <<room, overlapped>>
  <2>1. net' = [net EXCEPT ![s] = "gone"]
    <3>1. net = [x \in Sockets |-> net[x]]
      BY <1>1 DEF ListTypes, AreFunctions
    <3> QED
      BY <1>2, <3>1
  <2> QED
    BY <1>2, <1>3, <2>1, EndedKeepsLists
<1>4. CASE Joined(Owner[s], s) /\ handler' = [handler EXCEPT ![s] = At("broken")]
  <2>1. /\ handler'[s] = At("broken") /\ handler' = [x \in Sockets |-> handler'[x]]
        /\ \A x \in Sockets : x # s => handler'[x] = handler[x]
    BY <1>1, <1>4, ServerBefore
  <2>2. handler'[s].pc = "broken"
    BY <2>1 DEF At, Handler
  <2>3. /\ room' = [u \in Users |-> room'[u]]
        /\ \A u \in Users : room'[u].muted \in BOOLEAN
    <3>1. room = [u \in Users |-> room[u]] /\ \A u \in Users : room[u].muted \in BOOLEAN
      BY <1>1 DEF ListTypes, AreFunctions
    <3> QED
      BY <1>1, <1>4, <3>1 DEF Joined, Entered
  <2>4. ServerOnly(s)
    BY <1>1, <1>2, <1>4, <2>1, <2>3 DEF ServerOnly, StepOf, AreFunctions, ListTypes, Grows, Joined
  <2>5. SocketTypes(s)'
    <3>1. BroadcastTypes(s)'
      BY <2>2 DEF BroadcastTypes
    <3>2. ClientTypes(s)' /\ QueueTypes(s)'
      BY <1>1, <1>2 DEF ClientTypes, QueueTypes
    <3>3. Progress(s)'
      BY <1>1, <1>2 DEF Progress
    <3> QED
      BY <3>1, <3>2, <3>3 DEF SocketTypes
  <2>6. ~Undisturbed'
    BY <2>2 DEF Undisturbed
  <2> QED
    BY <2>3, <2>4, <2>5, <2>6, ServerStepKeepsLists
<1> QED
  BY <1>3, <1>4 DEF JoinBreaks

LEMMA RefuseKeepsLists ==
  ASSUME ListInv, NEW s \in Sockets, Refuse(s), client' = client
  PROVE  ListInv'
<1>1. /\ handler[s].pc = "new" /\ net[s] # "unused" /\ net' = [net EXCEPT ![s] = "gone"]
      /\ handler' = [handler EXCEPT ![s] = At("ended")]
      /\ toServer' = [toServer EXCEPT ![s] = << >>]
      /\ UNCHANGED <<toClient, room, overlapped, client>>
  BY DEF Refuse
<1> QED
  BY <1>1, EndedKeepsLists

-----------------------------------------------------------------------------
(* The theorem *)

LEMMA InitEstablishesLists == Init => ListInv
<1> SUFFICES ASSUME Init PROVE ListInv
  OBVIOUS
<1>1. AreFunctions
  BY DEF Init, ServerInit, AreFunctions
<1>2. /\ \A u \in Users : room[u].ws = NoSocket /\ room[u].muted = FALSE
      /\ \A s \in Sockets : /\ net[s] = "unused" /\ handler[s].pc = "new"
                            /\ toServer[s] = << >> /\ toClient[s] = << >>
                            /\ client[s] = NewClient
  BY DEF Init, ServerInit, Absent, At, Handler
<1>3. ASSUME NEW s \in Sockets PROVE SocketTypes(s)
  <2>1. BroadcastTypes(s)
    BY <1>2 DEF BroadcastTypes
  <2>2. ClientTypes(s)
    BY <1>2, NewClientIsClient DEF ClientTypes
  <2>3. QueueTypes(s)
    BY <1>2, EmptyQueue DEF QueueTypes
  <2>4. Progress(s)
    BY <1>2, NewClientIsClient DEF Progress
  <2> QED
    BY <2>1, <2>2, <2>3, <2>4 DEF SocketTypes
<1>4. ListTypes
  BY <1>1, <1>2, <1>3 DEF ListTypes
<1>5. OneSession /\ Addressed
  BY <1>2 DEF OneSession, Addressed, Pending
<1>6. ASSUME NEW s \in Sockets PROVE View(s) /\ MuteKnown(s)
  <2>1. MuteKnown(s)
    BY <1>2 DEF MuteKnown
  <2>2. ~Viewer(s)
    BY <1>2 DEF Viewer
  <2>3. Leads(client[s].participants, toClient[s], {})
    BY <1>2, NothingLeads, NewClientIsClient
  <2> QED
    BY <2>1, <2>2, <2>3 DEF View
<1> QED
  BY <1>4, <1>5, <1>6 DEF ListInv, Agreement

LEMMA NextKeepsLists == ListInv /\ RoomInv /\ Next => ListInv'
<1> SUFFICES ASSUME ListInv, RoomInv, NEW s \in Sockets,
                    \/ ServerStep(s) /\ UNCHANGED client
                    \/ Refuse(s) /\ UNCHANGED client
                    \/ ClientStep(s) \/ UserStep(s)
             PROVE  ListInv'
  BY DEF Next
<1> QED
  BY JoinKeepsLists, JoinBreaksKeepsLists, RefuseKeepsLists, BroadcastSendKeepsLists,
     ReceiveKeepsLists, DisconnectKeepsLists, ClientKeepsLists DEF ServerStep

LEMMA StutteringKeepsLists == ListInv /\ UNCHANGED vars => ListInv'
<1> SUFFICES ASSUME ListInv, UNCHANGED vars PROVE ListInv'
  OBVIOUS
<1>1. UNCHANGED <<net, toServer, toClient, room, handler, overlapped, client>>
  BY DEF vars, serverVars
<1>2. \A s \in Sockets : SocketTypes(s)' <=> SocketTypes(s)
  BY <1>1 DEF SocketTypes, BroadcastTypes, ClientTypes, QueueTypes, Progress, Inside
<1>3. ListTypes'
  BY <1>1, <1>2 DEF ListInv, ListTypes, AreFunctions
<1>4. ASSUME Agreement PROVE Agreement'
  <2>1. OneSession' /\ Addressed'
    BY <1>1, <1>4 DEF Agreement, OneSession, Addressed, Pending
  <2>2. ASSUME NEW s \in Sockets PROVE View(s)'
    <3>1. PICK list \in SUBSET Participant :
            /\ Leads(client[s].participants, toClient[s], list)
            /\ Viewer(s) => Expected(s, list)
      BY <1>4 DEF Agreement, View
    <3>2. Viewer(s)' => Viewer(s)
      BY <1>1 DEF Viewer, Inside
    <3>3. Expected(s, list)' <=> Expected(s, list)
      BY <1>1, ExpectedStays
    <3>4. Leads(client'[s].participants, toClient'[s], list)
      BY <1>1, <3>1
    <3> QED
      BY <3>1, <3>2, <3>3, <3>4 DEF View
  <2>3. ASSUME NEW s \in Sockets PROVE MuteKnown(s)'
    <3>1. MuteKnown(s)
      BY <1>4 DEF Agreement
    <3> QED
      BY <1>1, <3>1 DEF MuteKnown, Inside
  <2> QED
    BY <2>1, <2>2, <2>3 DEF Agreement
<1>5. Undisturbed' => Undisturbed
  BY <1>1 DEF Undisturbed
<1> QED
  BY <1>3, <1>4, <1>5 DEF ListInv

\* With nothing under way the list is there, and every flag has arrived.
LEMMA QuietListsAgree == ListInv /\ RoomInv => ListsAgree
<1> SUFFICES ASSUME ListInv, RoomInv, Quiescent, Undisturbed, NEW s \in Sockets, net[s] = "open"
             PROVE  /\ client[s].participants =
                         {[user |-> u, muted |-> room[u].muted] : u \in Present(room) \ {Owner[s]}}
                    /\ \/ room[Owner[s]].muted = client[s].muted
                       \/ s \in PushToTalk /\ ~client[s].toggled
  BY DEF ListsAgree
<1>1. ListTypes /\ Agreement /\ ClientTypes(s) /\ Owner[s] \in Users
  BY ServerBefore DEF ListInv
<1>2. toServer[s] = << >> /\ toClient[s] = << >> /\ handler[s].pc = "serve"
  BY DEF Quiescent
<1>3. Inside(s) /\ Viewer(s)
  BY <1>2 DEF Inside, Viewer
<1>4. PICK shown :
        shown = {[user |-> u, muted |-> room[u].muted] : u \in Present(room) \ {Owner[s]}}
  OBVIOUS
<1>5. client[s].participants = shown
  <2>1. PICK list \in SUBSET Participant :
          /\ Leads(client[s].participants, toClient[s], list)
          /\ Viewer(s) => Expected(s, list)
    BY <1>1 DEF Agreement, View
  <2>2. list = client[s].participants
    BY <1>2, <2>1, LeadsNowhere
  <2>3. \A x \in Sockets : ~Pending(x, s)
    <3>1. \A x \in Sockets : handler[x].pc # "broadcast"
      <4>1. ASSUME NEW x \in Sockets PROVE handler[x].pc # "broadcast"
        <5>1. Progress(x)
          BY <1>1 DEF ListTypes, SocketTypes
        <5> QED
          BY <5>1 DEF Quiescent, Progress
      <4> QED
        BY <4>1
    <3> QED
      BY <3>1 DEF Pending
  <2>4. shown \in SUBSET Participant
    BY <1>1, <1>4 DEF ListTypes, Present, Participant
  <2>5. ASSUME NEW u \in Users PROVE About(list, u) = About(shown, u)
    <3>1. CASE u = Owner[s]
      BY <1>3, <1>4, <2>1, <3>1 DEF Expected, About
    <3>2. CASE u # Owner[s]
      <4>1. About(list, u) = Shown(u)
        BY <1>3, <2>1, <2>3, <3>2 DEF Expected, Told
      <4>2. About(shown, u) = Shown(u)
        BY <1>4, <3>2 DEF About, Shown, Present
      <4> QED
        BY <4>1, <4>2
    <3> QED
      BY <3>1, <3>2
  <2> QED
    BY <2>2, <2>4, <2>5, ListsOfParts
<1>6. room[Owner[s]].muted = client[s].muted \/ (s \in PushToTalk /\ ~client[s].toggled)
  <2>1. MuteKnown(s) /\ room[Owner[s]].muted \in BOOLEAN /\ client[s].muted \in BOOLEAN
    BY <1>1 DEF Agreement, ListTypes, ClientTypes
  <2>2. ~\E i \in 1..Len(toServer[s]) : toServer[s][i].type = "mute"
    BY <1>2, EmptyQueue
  <2> QED
    BY <1>3, <2>1, <2>2 DEF MuteKnown
<1> QED
  BY <1>4, <1>5, <1>6

(* With no message under way, nobody arriving or leaving and no user disturbed by
   a second socket or a broken join, every participant sees exactly the others,
   with the flags the room has, and the room has that of his microphone (or he
   starts under push-to-talk): join, set_muted and leave, the send loop of
   broadcast and the onmessage of the hook keep each other informed, however the
   sends of several coroutines to several sockets interleave. *)
THEOREM ListsAlwaysAgree == Spec => []ListsAgree
<1>1. Init => RoomInv /\ ListInv
  BY InitEstablishes, InitEstablishesLists
<1>2. RoomInv /\ ListInv /\ [Next]_vars => (RoomInv /\ ListInv)'
  BY NextKeepsInv, StutteringKeepsInv, NextKeepsLists, StutteringKeepsLists
<1> QED
  BY <1>1, <1>2, QuietListsAgree, PTL DEF Spec

-----------------------------------------------------------------------------
(* What one session has of another user: in its hook, and in its queues *)

\* A signal in a queue: to a user, on the way up, or from him, on the way down.
Is(f, kind, end, u) == f.type = kind /\ f[end] = u

None(q, kind, end, u) == \A i \in 1..Len(q) : ~Is(q[i], kind, end, u)
One(q, kind, end, u, d) ==
  \E n \in 1..Len(q) : /\ Is(q[n], kind, end, u) /\ q[n].sdp = d
                       /\ \A i \in 1..Len(q) : Is(q[i], kind, end, u) => i = n

\* "peers" is on its way and lists u; the loop over it still has u before it.
Names(f, u)   == f.type = "peers" /\ \E p \in f.peers : p.user = u
Listed(q, u)  == \E i \in 1..Len(q) : Names(q[i], u)
Waiting(c, u) == \E k \in c.tasks : u \in k.rest

\* peersRef has connection i for u, and no other was ever made for u.
Line(c, u, i) == c.peer[u] = i /\ \A k \in 1..Len(c.pcs) : c.pcs[k].user = u => k = i

TasksOf(c, i) == {k \in c.tasks : k.pc = i}
TaskOf(kind, i, sdp, rest) == [kind |-> kind, pc |-> i, sdp |-> sdp, rest |-> rest]

\* Nothing of u, and nothing for u.
Stranger(C, Q, R, u) ==
  /\ \A kind \in Relayed : None(Q, kind, "to", u) /\ None(R, kind, "from", u)
  /\ ~Listed(R, u) /\ ~Waiting(C, u)
  /\ Line(C, u, 0) /\ C.pending[u] = {}

(* An offer, from connection i of its sender to j of its receiver, is
     1 due to "peers"     4 sent      7 described      10 answered
     2 in the loop        5 relayed   8 answer sent    11 done
     3 being made         6 accepted  9 answer relayed
   and the candidates m of the sender and l of the receiver are "unsent", "up"
   to the server, "down" to the other client, or "there". *)
Offers(C, Q, R, u, n, i, mine, its, m, l) ==
  /\ Listed(R, u) <=> n = 1
  /\ Waiting(C, u) <=> n = 2
  /\ n = 4 => One(Q, "offer", "to", u, mine)
  /\ n # 4 => None(Q, "offer", "to", u)
  /\ None(Q, "answer", "to", u) /\ None(R, "offer", "from", u)
  /\ n = 9 => One(R, "answer", "from", u, its)
  /\ n # 9 => None(R, "answer", "from", u)
  /\ m = "up" => One(Q, "ice-candidate", "to", u, mine)
  /\ m # "up" => None(Q, "ice-candidate", "to", u)
  /\ l = "down" => One(R, "ice-candidate", "from", u, its)
  /\ l # "down" => None(R, "ice-candidate", "from", u)
  /\ l = "there" /\ n <= 10 => C.pending[u] = {its}
  /\ l # "there" \/ n = 11 => C.pending[u] = {}
  /\ n <= 2 => Line(C, u, 0)
  /\ n >= 3 =>
       /\ Line(C, u, i) /\ i # 0
       /\ n = 3 => /\ C.pcs[i].sig = "new"
                   /\ \E k \in C.tasks : k.kind = "offer" /\ TasksOf(C, i) = {k}
       /\ 3 < n /\ n <= 10 => C.pcs[i].sig = "offering"
       /\ n = 10 => TasksOf(C, i) = {TaskOf("answered", i, its, {})}
       /\ n # 3 /\ n # 10 => TasksOf(C, i) = {}
       /\ n <= 10 => C.pcs[i].remote = NoSdp
       /\ n = 11 => /\ C.pcs[i].sig = "stable" /\ C.pcs[i].remote = its
                    /\ l = "there" => C.pcs[i].heard = TRUE

Accepts(C, Q, R, u, n, j, mine, its, m, l) ==
  /\ ~Listed(R, u) /\ ~Waiting(C, u)
  /\ n = 5 => One(R, "offer", "from", u, its)
  /\ n # 5 => None(R, "offer", "from", u)
  /\ None(R, "answer", "from", u) /\ None(Q, "offer", "to", u)
  /\ n = 8 => One(Q, "answer", "to", u, mine)
  /\ n # 8 => None(Q, "answer", "to", u)
  /\ l = "up" => One(Q, "ice-candidate", "to", u, mine)
  /\ l # "up" => None(Q, "ice-candidate", "to", u)
  /\ m = "down" => One(R, "ice-candidate", "from", u, its)
  /\ m # "down" => None(R, "ice-candidate", "from", u)
  /\ m = "there" /\ n <= 6 => C.pending[u] = {its}
  /\ m # "there" \/ n >= 7 => C.pending[u] = {}
  /\ n <= 5 => Line(C, u, 0)
  /\ n >= 6 =>
       /\ Line(C, u, j) /\ j # 0
       /\ n = 6 => /\ C.pcs[j].sig = "new" /\ C.pcs[j].remote = NoSdp
                   /\ TasksOf(C, j) = {TaskOf("accept", j, its, {})}
       /\ n = 7 => /\ C.pcs[j].sig = "accepting"
                   /\ TasksOf(C, j) = {TaskOf("reply", j, NoSdp, {})}
       /\ n >= 7 => /\ C.pcs[j].remote = its
                    /\ m = "there" => C.pcs[j].heard = TRUE
       /\ n >= 8 => C.pcs[j].sig = "stable" /\ TasksOf(C, j) = {}

Ways == {"unsent", "up", "down", "there"}

\* How far the candidates may be: they follow the description.
Travels(o, c, n, m, l) ==
  /\ n \in 1..11 /\ m \in Ways /\ l \in Ways
  /\ m = "unsent" <=> n <= 3 \/ o \notin Gathering
  /\ l = "unsent" <=> n <= 7 \/ c \notin Gathering

Shake(o, c, n, i, j, m, l) ==
  /\ Travels(o, c, n, m, l)
  /\ Offers(client[o], toServer[o], toClient[o], Owner[c], n, i, <<o, i>>, <<c, j>>, m, l)
  /\ Accepts(client[c], toServer[c], toClient[c], Owner[o], n, j, <<c, j>>, <<o, i>>, m, l)

Shaking(o, c) == \E n, i, j, m, l : Shake(o, c, n, i, j, m, l)

ConnectionFields == {"user", "sig", "remote", "heard"}
IsConnection(p)  == p = [f \in ConnectionFields |-> p[f]]

\* The hook: a connection per entry of peersRef, and one loop of offers.
Hook(C) ==
  /\ IsClient(C) /\ Queue(C.pcs)
  /\ C.peer = [u \in Users |-> C.peer[u]] /\ C.pending = [u \in Users |-> C.pending[u]]
  /\ \A k \in 1..Len(C.pcs) : IsConnection(C.pcs[k]) /\ C.pcs[k].user \in Users
  /\ \A u \in Users : C.peer[u] # 0 => C.peer[u] \in 1..Len(C.pcs) /\ C.pcs[C.peer[u]].user = u
  /\ \A k \in C.tasks : /\ k.pc \in 1..Len(C.pcs) /\ k.rest \subseteq Users
                        /\ k.kind # "offer" => k.rest = {}
  /\ \A k, h \in C.tasks : k.kind = "offer" /\ h.kind = "offer" => k = h

Looping(C) == \E k \in C.tasks : k.kind = "offer"

\* What it has been sent: one "peers", before its loop begins, and no "peer-left".
Inbox(C, R) ==
  /\ \A i, j \in 1..Len(R) : R[i].type = "peers" /\ R[j].type = "peers" => i = j
  /\ \A i \in 1..Len(R) : /\ R[i].type # "peer-left"
                          /\ R[i].type = "peers" => ~Looping(C)
                          /\ R[i].type \in Relayed => R[i].from \in Users

Outbox(Q) == \A i \in 1..Len(Q) : Q[i].type \in Relayed => Q[i].to \in Users

Session(x) ==
  /\ Hook(client[x]) /\ Inbox(client[x], toClient[x]) /\ Outbox(toServer[x])
  /\ handler[x].pc = "broadcast" => handler[x].msg.type # "peer-left"
  /\ handler[x].pc = "new" => /\ ~Looping(client[x])
                              /\ \A i \in 1..Len(toClient[x]) : toClient[x][i].type # "peers"

\* Nobody's session ended, and nobody opened a second one.
Steady ==
  /\ \A x \in Sockets : net[x] # "gone"
  /\ \A x, y \in Sockets : Owner[x] = Owner[y] /\ net[x] # "unused" /\ net[y] # "unused" => x = y

Strange(x, u) == Stranger(client[x], toServer[x], toClient[x], u)

Meeting ==
  /\ overlapped = {}
  /\ \A x \in Sockets : Session(x) /\ Strange(x, Owner[x])
  /\ \A x \in Sockets, u \in Users :
       handler[x].pc = "new" \/ room[u].ws = NoSocket => Strange(x, u)
  /\ \A x, y \in Sockets : x # y /\ handler[x].pc # "new" /\ handler[y].pc # "new" =>
       Shaking(x, y) \/ Shaking(y, x)

MeshInv == Steady => Meeting

-----------------------------------------------------------------------------
(* Signals in queues *)

LEMMA SignalsTail ==
  ASSUME NEW q, Queue(q), q # << >>, NEW kind, NEW end, NEW u
  PROVE  /\ None(q, kind, end, u) =>
              None(Tail(q), kind, end, u) /\ ~Is(Head(q), kind, end, u)
         /\ \A d : One(q, kind, end, u, d) /\ Is(Head(q), kind, end, u) =>
              Head(q).sdp = d /\ None(Tail(q), kind, end, u)
         /\ \A d : One(q, kind, end, u, d) /\ ~Is(Head(q), kind, end, u) =>
              One(Tail(q), kind, end, u, d)
<1>1. /\ Queue(Tail(q)) /\ Len(Tail(q)) = Len(q) - 1 /\ Len(q) - 1 \in Nat
      /\ Head(q) = q[1] /\ 1 \in 1..Len(q)
      /\ \A i \in 1..(Len(q) - 1) : Tail(q)[i] = q[i + 1] /\ i + 1 \in 1..Len(q)
  BY QueueTail
<1>2. Len(q) \in Nat
  BY DEF Queue
<1>3. ASSUME None(q, kind, end, u)
      PROVE  None(Tail(q), kind, end, u) /\ ~Is(Head(q), kind, end, u)
  BY <1>1, <1>2, <1>3 DEF None
<1>4. ASSUME NEW d, One(q, kind, end, u, d), Is(Head(q), kind, end, u)
      PROVE  Head(q).sdp = d /\ None(Tail(q), kind, end, u)
  <2>1. PICK n \in 1..Len(q) : /\ Is(q[n], kind, end, u) /\ q[n].sdp = d
                               /\ \A i \in 1..Len(q) : Is(q[i], kind, end, u) => i = n
    BY <1>4 DEF One
  <2>2. n = 1
    BY <2>1, <1>1, <1>4
  <2>3. ASSUME NEW i \in 1..Len(Tail(q))
        PROVE  ~Is(Tail(q)[i], kind, end, u)
    <3>1. i \in 1..(Len(q) - 1) /\ i \in Nat /\ i >= 1
      BY <1>1, <1>2
    <3>2. Tail(q)[i] = q[i + 1] /\ i + 1 \in 1..Len(q) /\ i + 1 # 1
      BY <1>1, <3>1
    <3> QED
      BY <2>1, <2>2, <3>2
  <2> QED
    BY <1>1, <2>1, <2>2, <2>3 DEF None
<1>5. ASSUME NEW d, One(q, kind, end, u, d), ~Is(Head(q), kind, end, u)
      PROVE  One(Tail(q), kind, end, u, d)
  <2>1. PICK n \in 1..Len(q) : /\ Is(q[n], kind, end, u) /\ q[n].sdp = d
                               /\ \A i \in 1..Len(q) : Is(q[i], kind, end, u) => i = n
    BY <1>5 DEF One
  <2>2. n # 1
    BY <2>1, <1>1, <1>5
  <2>3. n - 1 \in 1..Len(Tail(q)) /\ n - 1 \in 1..(Len(q) - 1)
    BY <2>2, <1>1, <1>2
  <2>4. Tail(q)[n - 1] = q[n]
    <3>1. Tail(q)[n - 1] = q[(n - 1) + 1]
      BY <2>3, <1>1
    <3>2. (n - 1) + 1 = n
      BY <1>2
    <3> QED
      BY <3>1, <3>2
  <2>5. ASSUME NEW i \in 1..Len(Tail(q)), Is(Tail(q)[i], kind, end, u)
        PROVE  i = n - 1
    <3>1. i \in 1..(Len(q) - 1) /\ i \in Nat
      BY <1>1, <1>2
    <3>2. Tail(q)[i] = q[i + 1] /\ i + 1 \in 1..Len(q)
      BY <1>1, <3>1
    <3>3. i + 1 = n
      BY <2>1, <2>5, <3>2
    <3> QED
      BY <3>1, <3>3
  <2> QED
    BY <2>1, <2>3, <2>4, <2>5 DEF One
<1> QED
  BY <1>3, <1>4, <1>5

LEMMA SignalsAppend ==
  ASSUME NEW q, Queue(q), NEW f, NEW kind, NEW end, NEW u
  PROVE  /\ None(q, kind, end, u) /\ ~Is(f, kind, end, u) => None(Append(q, f), kind, end, u)
         /\ None(q, kind, end, u) /\ Is(f, kind, end, u) =>
              One(Append(q, f), kind, end, u, f.sdp)
         /\ \A d : One(q, kind, end, u, d) /\ ~Is(f, kind, end, u) =>
              One(Append(q, f), kind, end, u, d)
<1> DEFINE r == Append(q, f)
<1>1. /\ Len(r) = Len(q) + 1 /\ Len(q) \in Nat
      /\ \A i \in 1..Len(q) : r[i] = q[i]
      /\ r[Len(q) + 1] = f
  BY QueueAppend DEF Queue
<1>2. \A i \in 1..Len(r) : \/ i \in 1..Len(q) /\ r[i] = q[i]
                           \/ i = Len(q) + 1 /\ r[i] = f
  BY <1>1
<1>3. Len(q) + 1 \in 1..Len(r) /\ \A i \in 1..Len(q) : i \in 1..Len(r) /\ i # Len(q) + 1
  BY <1>1
<1> HIDE DEF r
<1>4. None(q, kind, end, u) /\ ~Is(f, kind, end, u) => None(r, kind, end, u)
  BY <1>2 DEF None
<1>5. None(q, kind, end, u) /\ Is(f, kind, end, u) => One(r, kind, end, u, f.sdp)
  BY <1>1, <1>2, <1>3 DEF None, One
<1>6. ASSUME NEW d, One(q, kind, end, u, d), ~Is(f, kind, end, u)
      PROVE  One(r, kind, end, u, d)
  <2>1. PICK n \in 1..Len(q) : /\ Is(q[n], kind, end, u) /\ q[n].sdp = d
                               /\ \A i \in 1..Len(q) : Is(q[i], kind, end, u) => i = n
    BY <1>6 DEF One
  <2> QED
    BY <1>1, <1>2, <1>3, <1>6, <2>1 DEF One
<1> QED
  BY <1>4, <1>5, <1>6 DEF r

LEMMA ListedTail ==
  ASSUME NEW q, Queue(q), q # << >>, NEW u
  PROVE  Listed(q, u) <=> Names(Head(q), u) \/ Listed(Tail(q), u)
<1>1. /\ Len(Tail(q)) = Len(q) - 1 /\ Len(q) - 1 \in Nat
      /\ Head(q) = q[1] /\ 1 \in 1..Len(q)
      /\ \A i \in 1..(Len(q) - 1) : Tail(q)[i] = q[i + 1] /\ i + 1 \in 1..Len(q)
  BY QueueTail
<1>2. Len(q) \in Nat
  BY DEF Queue
<1>3. ASSUME NEW i \in 1..Len(q), Names(q[i], u), i # 1
      PROVE  Listed(Tail(q), u)
  <2>1. i - 1 \in 1..Len(Tail(q)) /\ Tail(q)[i - 1] = q[(i - 1) + 1] /\ (i - 1) + 1 = i
    BY <1>1, <1>2, <1>3
  <2> QED
    BY <1>3, <2>1 DEF Listed
<1>4. ASSUME Listed(Tail(q), u)
      PROVE  Listed(q, u)
  BY <1>1, <1>4 DEF Listed
<1> QED
  BY <1>1, <1>3, <1>4 DEF Listed

LEMMA ListedAppend ==
  ASSUME NEW q, Queue(q), NEW f, NEW u
  PROVE  Listed(Append(q, f), u) <=> Listed(q, u) \/ Names(f, u)
<1> DEFINE r == Append(q, f)
<1>1. /\ Len(r) = Len(q) + 1 /\ Len(q) \in Nat
      /\ \A i \in 1..Len(q) : r[i] = q[i]
      /\ r[Len(q) + 1] = f
  BY QueueAppend DEF Queue
<1>2. \A i \in 1..Len(r) : \/ i \in 1..Len(q) /\ r[i] = q[i]
                           \/ i = Len(q) + 1 /\ r[i] = f
  BY <1>1
<1>3. Len(q) + 1 \in 1..Len(r) /\ \A i \in 1..Len(q) : i \in 1..Len(r)
  BY <1>1
<1> HIDE DEF r
<1>4. Listed(r, u) <=> Listed(q, u) \/ Names(f, u)
  BY <1>1, <1>2, <1>3 DEF Listed
<1> QED
  BY <1>4 DEF r

\* Frames are sent one behind the other.
LEMMA QueuesEqual ==
  ASSUME NEW q, NEW r, Queue(q), Queue(r), Len(q) = Len(r),
         \A i \in 1..Len(q) : q[i] = r[i]
  PROVE  q = r
<1>1. q = [i \in 1..Len(q) |-> q[i]] /\ r = [i \in 1..Len(q) |-> r[i]]
  BY DEF Queue
<1> QED
  BY <1>1

LEMMA SendOne ==
  ASSUME NEW q, Queue(q), NEW a
  PROVE  q \o <<a>> = Append(q, a)
<1>1. Queue(<<a>>) /\ Len(<<a>>) = 1 /\ <<a>>[1] = a
  BY DEF Queue
<1>2. Len(q) \in Nat
  BY DEF Queue
<1>3. /\ Queue(q \o <<a>>) /\ Len(q \o <<a>>) = Len(q) + 1
      /\ \A i \in 1..Len(q) : (q \o <<a>>)[i] = q[i]
      /\ (q \o <<a>>)[Len(q) + 1] = a
  BY <1>1, QueueConcat
<1>4. /\ Queue(Append(q, a)) /\ Len(Append(q, a)) = Len(q) + 1
      /\ \A i \in 1..Len(q) : Append(q, a)[i] = q[i]
      /\ Append(q, a)[Len(q) + 1] = a
  BY QueueAppend
<1>5. ASSUME NEW i \in 1..(Len(q) + 1)
      PROVE  i \in 1..Len(q) \/ i = Len(q) + 1
  BY <1>2
<1>6. \A i \in 1..Len(q \o <<a>>) : (q \o <<a>>)[i] = Append(q, a)[i]
  BY <1>3, <1>4, <1>5
<1> QED
  BY <1>3, <1>4, <1>6, QueuesEqual

LEMMA SendTwo ==
  ASSUME NEW q, Queue(q), NEW a, NEW b
  PROVE  q \o <<a, b>> = Append(Append(q, a), b)
<1>1. Queue(<<a, b>>) /\ Len(<<a, b>>) = 2 /\ <<a, b>>[1] = a /\ <<a, b>>[2] = b
  BY DEF Queue
<1>2. Len(q) \in Nat
  BY DEF Queue
<1> DEFINE r == q \o <<a, b>>
           p == Append(q, a)
           t == Append(p, b)
<1>3. /\ Queue(r) /\ Len(r) = Len(q) + 2
      /\ \A i \in 1..Len(q) : r[i] = q[i]
      /\ r[Len(q) + 1] = a /\ r[Len(q) + 2] = b
  BY <1>1, QueueConcat
<1>4. /\ Queue(p) /\ Len(p) = Len(q) + 1
      /\ \A i \in 1..Len(q) : p[i] = q[i]
      /\ p[Len(q) + 1] = a
  BY QueueAppend
<1> HIDE DEF r, p
<1>5. /\ Queue(t) /\ Len(t) = Len(p) + 1
      /\ \A i \in 1..Len(p) : t[i] = p[i]
      /\ t[Len(p) + 1] = b
  BY <1>4, QueueAppend
<1> HIDE DEF t
<1>6. Len(t) = Len(q) + 2 /\ t[Len(q) + 2] = b /\ t[Len(q) + 1] = a
      /\ \A i \in 1..Len(q) : t[i] = q[i]
  BY <1>2, <1>4, <1>5
<1>7. ASSUME NEW i \in 1..(Len(q) + 2)
      PROVE  i \in 1..Len(q) \/ i = Len(q) + 1 \/ i = Len(q) + 2
  BY <1>2
<1>8. \A i \in 1..Len(r) : r[i] = t[i]
  BY <1>3, <1>6, <1>7
<1>9. r = t
  BY <1>3, <1>5, <1>6, <1>8, QueuesEqual
<1> QED
  BY <1>9 DEF r, t, p

LEMMA SendNothing ==
  ASSUME NEW q, Queue(q)
  PROVE  q \o << >> = q
<1>1. Queue(<< >>) /\ Len(<< >>) = 0
  BY EmptyQueue
<1>2. Len(q) \in Nat
  BY DEF Queue
<1>3. /\ Queue(q \o << >>) /\ Len(q \o << >>) = Len(q)
      /\ \A i \in 1..Len(q) : (q \o << >>)[i] = q[i]
  BY <1>1, <1>2, QueueConcat
<1> QED
  BY <1>3, QueuesEqual

-----------------------------------------------------------------------------
(* What a step leaves of another user *)

Carries(q, r, end, u) ==
  \A kind \in Relayed : /\ None(q, kind, end, u) => None(r, kind, end, u)
                        /\ \A d : One(q, kind, end, u, d) => One(r, kind, end, u, d)

Kept(C, D, u) ==
  /\ D.pending[u] = C.pending[u]
  /\ \A i : Line(C, u, i) => /\ Line(D, u, i)
                             /\ i # 0 => D.pcs[i] = C.pcs[i] /\ TasksOf(D, i) = TasksOf(C, i)

Unmoved(C, Q, R, D, S, T, u) ==
  /\ Kept(C, D, u)
  /\ Waiting(D, u) <=> Waiting(C, u)
  /\ Listed(T, u) <=> Listed(R, u)
  /\ Carries(Q, S, "to", u) /\ Carries(R, T, "from", u)

LEMMA SignalKinds == "offer" \in Relayed /\ "answer" \in Relayed /\ "ice-candidate" \in Relayed
BY DEF Relayed

LEMMA StrangerStays ==
  ASSUME NEW C, NEW Q, NEW R, NEW D, NEW S, NEW T, NEW u,
         Unmoved(C, Q, R, D, S, T, u), Stranger(C, Q, R, u)
  PROVE  Stranger(D, S, T, u)
BY DEF Unmoved, Carries, Kept, Stranger

LEMMA OffersStay ==
  ASSUME NEW C, NEW Q, NEW R, NEW D, NEW S, NEW T, NEW u, Unmoved(C, Q, R, D, S, T, u),
         NEW n, NEW i, NEW mine, NEW its, NEW m, NEW l,
         Offers(C, Q, R, u, n, i, mine, its, m, l)
  PROVE  Offers(D, S, T, u, n, i, mine, its, m, l)
BY SignalKinds DEF Unmoved, Carries, Kept, Offers, TasksOf

LEMMA AcceptsStay ==
  ASSUME NEW C, NEW Q, NEW R, NEW D, NEW S, NEW T, NEW u, Unmoved(C, Q, R, D, S, T, u),
         NEW n, NEW j, NEW mine, NEW its, NEW m, NEW l,
         Accepts(C, Q, R, u, n, j, mine, its, m, l)
  PROVE  Accepts(D, S, T, u, n, j, mine, its, m, l)
BY SignalKinds DEF Unmoved, Carries, Kept, Accepts

LEMMA CarriesItself ==
  ASSUME NEW q, NEW end, NEW u
  PROVE  Carries(q, q, end, u)
BY DEF Carries

LEMMA CarriesTwice ==
  ASSUME NEW q, NEW r, NEW t, NEW end, NEW u, Carries(q, r, end, u), Carries(r, t, end, u)
  PROVE  Carries(q, t, end, u)
BY DEF Carries

LEMMA CarriesAppend ==
  ASSUME NEW q, Queue(q), NEW f, NEW end, NEW u, f.type \in Relayed => f[end] # u
  PROVE  Carries(q, Append(q, f), end, u)
BY SignalsAppend DEF Carries, Is

LEMMA CarriesTail ==
  ASSUME NEW q, Queue(q), q # << >>, NEW end, NEW u, Head(q).type \in Relayed => Head(q)[end] # u
  PROVE  Carries(q, Tail(q), end, u)
BY SignalsTail DEF Carries, Is

LEMMA KeptTwice ==
  ASSUME NEW C, NEW D, NEW E, NEW u, Kept(C, D, u), Kept(D, E, u)
  PROVE  Kept(C, E, u)
BY DEF Kept

LEMMA KeepsItself ==
  ASSUME NEW C, NEW u
  PROVE  Kept(C, C, u)
BY DEF Kept

LEMMA UnmovedAtAll ==
  ASSUME NEW C, NEW Q, NEW R, NEW u
  PROVE  Unmoved(C, Q, R, C, Q, R, u)
BY CarriesItself, KeepsItself DEF Unmoved

-----------------------------------------------------------------------------
(* What the operations on the state of a hook leave of another user *)

\* A user's connection is among those made.
LEMMA LineIsMade ==
  ASSUME NEW c, Hook(c), NEW u \in Users, NEW i, Line(c, u, i), i # 0
  PROVE  i \in 1..Len(c.pcs) /\ c.pcs[i].user = u
BY DEF Hook, Line

MadeFor(c, u, d, k) ==
  /\ Hook(d) /\ d.tasks = c.tasks /\ d.pending = c.pending
  /\ \A v \in Users : v # u => Kept(c, d, v)
  /\ k # 0 /\ k \in 1..Len(d.pcs)
  /\ Line(c, u, 0) => Line(d, u, k)
  /\ d.pcs[k] = NewConnection(u)
  /\ TasksOf(d, k) = {}

LEMMA ConnectionMade ==
  ASSUME NEW c, Hook(c), NEW u \in Users, NEW d, d = WithConnection(c, u),
         NEW k, k = Len(c.pcs) + 1
  PROVE  MadeFor(c, u, d, k)
<1> DEFINE p == Append(c.pcs, NewConnection(u))
           q == [c.peer EXCEPT ![u] = Len(c.pcs) + 1]
<1>1. IsClient(c) /\ Queue(c.pcs) /\ Len(c.pcs) \in Nat
  BY DEF Hook, Queue
<1>2. IsClient(d) /\ d.pcs = p /\ d.peer = q /\ d.pending = c.pending /\ d.tasks = c.tasks
  BY <1>1 DEF WithConnection, IsClient, ClientFields
<1>3. /\ Queue(p) /\ Len(p) = Len(c.pcs) + 1 /\ \A i \in 1..Len(c.pcs) : p[i] = c.pcs[i]
      /\ p[Len(c.pcs) + 1] = NewConnection(u)
  BY <1>1, QueueAppend
<1>4. /\ q = [v \in Users |-> q[v]] /\ q[u] = Len(c.pcs) + 1
      /\ \A v \in Users : v # u => q[v] = c.peer[v]
  BY DEF Hook
<1> HIDE DEF p, q
<1>5. \A i \in 1..Len(p) : i \in 1..Len(c.pcs) \/ i = Len(c.pcs) + 1
  BY <1>1, <1>3
<1>6. /\ Len(c.pcs) + 1 \in 1..Len(p) /\ Len(c.pcs) + 1 # 0
       /\ \A i \in 1..Len(c.pcs) : i \in 1..Len(p) /\ i # Len(c.pcs) + 1
  BY <1>1, <1>3
<1>7. IsConnection(NewConnection(u)) /\ NewConnection(u).user = u
  BY DEF NewConnection, IsConnection, ConnectionFields
<1>8. Hook(d)
  <2>1. \A h \in 1..Len(p) : IsConnection(p[h]) /\ p[h].user \in Users
    BY <1>3, <1>5, <1>7 DEF Hook
  <2>2. \A v \in Users : q[v] # 0 => q[v] \in 1..Len(p) /\ p[q[v]].user = v
    BY <1>3, <1>4, <1>6, <1>7 DEF Hook
  <2> QED
    BY <1>2, <1>3, <1>4, <1>6, <2>1, <2>2 DEF Hook
<1>9. ASSUME NEW v \in Users, v # u
       PROVE  Kept(c, d, v)
  <2>1. ASSUME NEW i, Line(c, v, i)
        PROVE  /\ Line(d, v, i)
               /\ i # 0 => d.pcs[i] = c.pcs[i] /\ TasksOf(d, i) = TasksOf(c, i)
    <3>1. Line(d, v, i)
      BY <1>2, <1>3, <1>4, <1>5, <1>7, <1>9, <2>1 DEF Line
    <3>2. i # 0 => i \in 1..Len(c.pcs)
      BY <2>1, LineIsMade
    <3> QED
      BY <1>2, <1>3, <3>1, <3>2 DEF TasksOf
  <2> QED
    BY <1>2, <2>1 DEF Kept
<1>10. ASSUME Line(c, u, 0)
       PROVE  Line(d, u, Len(c.pcs) + 1)
  BY <1>2, <1>3, <1>4, <1>5, <1>7, <1>10, <1>6 DEF Line
<1>11. TasksOf(d, Len(c.pcs) + 1) = {}
  BY <1>2, <1>6 DEF TasksOf, Hook
<1>12. /\ k # 0 /\ k \in 1..Len(d.pcs) /\ d.pcs[k] = NewConnection(u)
       /\ Line(c, u, 0) => Line(d, u, k)
       /\ TasksOf(d, k) = {}
  BY <1>2, <1>3, <1>6, <1>10, <1>11
<1> QED
  BY <1>2, <1>8, <1>9, <1>12 DEF MadeFor

Added(c, kind, pc, sdp, rest, d) ==
  /\ Hook(d) /\ d.pcs = c.pcs /\ d.peer = c.peer /\ d.pending = c.pending
  /\ \A v \in Users : v # c.pcs[pc].user => Kept(c, d, v)
  /\ \A v, i : Line(d, v, i) <=> Line(c, v, i)
  /\ TasksOf(d, pc) = TasksOf(c, pc) \cup {TaskOf(kind, pc, sdp, rest)}
  /\ \A v : Waiting(d, v) <=> Waiting(c, v) \/ v \in rest
  /\ Looping(d) <=> Looping(c) \/ kind = "offer"

LEMMA TaskAdded ==
  ASSUME NEW c, Hook(c), NEW kind, NEW pc \in 1..Len(c.pcs), NEW sdp, NEW rest \in SUBSET Users,
         kind # "offer" => rest = {}, kind = "offer" => ~Looping(c),
         NEW d, d = WithTask(c, kind, pc, sdp, rest)
  PROVE  Added(c, kind, pc, sdp, rest, d)
<1>1. PICK k : k = TaskOf(kind, pc, sdp, rest)
  OBVIOUS
<1>2. k.kind = kind /\ k.pc = pc /\ k.rest = rest
  BY <1>1 DEF TaskOf
<1>3. IsClient(c) /\ d = [c EXCEPT !.tasks = c.tasks \cup {k}]
  BY <1>1 DEF WithTask, TaskOf, Hook
<1>4. /\ IsClient(d) /\ d.tasks = c.tasks \cup {k}
      /\ d.pcs = c.pcs /\ d.peer = c.peer /\ d.pending = c.pending
  BY <1>3 DEF IsClient, ClientFields
<1>5. Hook(d)
  <2>1. \A h \in d.tasks : /\ h.pc \in 1..Len(d.pcs) /\ h.rest \subseteq Users
                           /\ h.kind # "offer" => h.rest = {}
    BY <1>2, <1>4 DEF Hook
  <2>2. \A g, h \in d.tasks : g.kind = "offer" /\ h.kind = "offer" => g = h
    BY <1>2, <1>4 DEF Hook, Looping
  <2> QED
    BY <1>4, <2>1, <2>2 DEF Hook
<1>6. ASSUME NEW v \in Users, v # c.pcs[pc].user
      PROVE  Kept(c, d, v)
  <2>1. ASSUME NEW i, Line(c, v, i), i # 0
        PROVE  TasksOf(d, i) = TasksOf(c, i)
    <3>1. i # pc
      BY <1>6, <2>1, LineIsMade
    <3> QED
      BY <1>2, <1>4, <3>1 DEF TasksOf
  <2> QED
    BY <1>4, <2>1 DEF Kept, Line
<1>7. \A v, i : Line(d, v, i) <=> Line(c, v, i)
  BY <1>4 DEF Line
<1>8. TasksOf(d, pc) = TasksOf(c, pc) \cup {k}
  BY <1>2, <1>4 DEF TasksOf
<1>9. \A v : Waiting(d, v) <=> Waiting(c, v) \/ v \in rest
  BY <1>2, <1>4 DEF Waiting
<1>10. Looping(d) <=> Looping(c) \/ kind = "offer"
  BY <1>2, <1>4 DEF Looping
<1> QED
  BY <1>1, <1>4, <1>5, <1>6, <1>7, <1>8, <1>9, <1>10 DEF Added

Taken(c, k, d) ==
  /\ Hook(d) /\ d.pcs = c.pcs /\ d.peer = c.peer /\ d.pending = c.pending
  /\ \A v \in Users : v # c.pcs[k.pc].user => Kept(c, d, v)
  /\ \A v, i : Line(d, v, i) <=> Line(c, v, i)
  /\ TasksOf(c, k.pc) = {k} => TasksOf(d, k.pc) = {}
  /\ k.kind # "offer" => \A v : Waiting(d, v) <=> Waiting(c, v)
  /\ k.kind = "offer" => ~Looping(d) /\ \A v : ~Waiting(d, v) /\ (Waiting(c, v) <=> v \in k.rest)
  /\ Looping(d) => Looping(c)

LEMMA TaskTaken ==
  ASSUME NEW c, Hook(c), NEW k \in c.tasks, NEW d, d = Without(c, k)
  PROVE  Taken(c, k, d)
<1>1. IsClient(c) /\ d = [c EXCEPT !.tasks = c.tasks \ {k}]
  BY DEF Without, Hook
<1>2. /\ IsClient(d) /\ d.tasks = c.tasks \ {k}
      /\ d.pcs = c.pcs /\ d.peer = c.peer /\ d.pending = c.pending
  BY <1>1 DEF IsClient, ClientFields
<1>3. /\ \A h \in c.tasks : h.kind # "offer" => h.rest = {}
      /\ \A g, h \in c.tasks : g.kind = "offer" /\ h.kind = "offer" => g = h
  BY DEF Hook
<1>4. Hook(d)
  BY <1>2 DEF Hook
<1>5. ASSUME NEW v \in Users, v # c.pcs[k.pc].user
      PROVE  Kept(c, d, v)
  <2>1. ASSUME NEW i, Line(c, v, i), i # 0
        PROVE  TasksOf(d, i) = TasksOf(c, i)
    <3>1. i # k.pc
      BY <1>5, <2>1, LineIsMade
    <3> QED
      BY <1>2, <3>1 DEF TasksOf
  <2> QED
    BY <1>2, <2>1 DEF Kept, Line
<1>6. \A v, i : Line(d, v, i) <=> Line(c, v, i)
  BY <1>2 DEF Line
<1>7. TasksOf(c, k.pc) = {k} => TasksOf(d, k.pc) = {}
  BY <1>2 DEF TasksOf
<1>8. k.kind # "offer" => \A v : Waiting(d, v) <=> Waiting(c, v)
  BY <1>2, <1>3 DEF Waiting
<1>9. k.kind = "offer" => ~Looping(d) /\ \A v : ~Waiting(d, v) /\ (Waiting(c, v) <=> v \in k.rest)
  BY <1>2, <1>3 DEF Waiting, Looping
<1>10. Looping(d) => Looping(c)
  BY <1>2 DEF Looping
<1> QED
  BY <1>2, <1>4, <1>5, <1>6, <1>7, <1>8, <1>9, <1>10 DEF Taken

SetTo(c, i, p, d) ==
  /\ Hook(d) /\ d.tasks = c.tasks /\ d.peer = c.peer /\ d.pending = c.pending
  /\ d.pcs[i] = p /\ Len(d.pcs) = Len(c.pcs)
  /\ \A v \in Users : v # c.pcs[i].user => Kept(c, d, v)
  /\ \A v, j : Line(d, v, j) <=> Line(c, v, j)

LEMMA ConnectionSet ==
  ASSUME NEW c, Hook(c), NEW i \in 1..Len(c.pcs), NEW p, IsConnection(p),
         p.user = c.pcs[i].user, NEW d, d = [c EXCEPT !.pcs = [@ EXCEPT ![i] = p]]
  PROVE  SetTo(c, i, p, d)
<1> DEFINE q == [c.pcs EXCEPT ![i] = p]
<1>1. IsClient(c) /\ Queue(c.pcs) /\ Len(c.pcs) \in Nat
  BY DEF Hook, Queue
<1>2. /\ IsClient(d) /\ d.pcs = q
      /\ d.tasks = c.tasks /\ d.peer = c.peer /\ d.pending = c.pending
  BY <1>1 DEF IsClient, ClientFields
<1>3. Queue(q) /\ Len(q) = Len(c.pcs)
  <2>1. PICK S : c.pcs \in Seq(S) /\ S = {c.pcs[k] : k \in 1..Len(c.pcs)}
    BY <1>1, QueueIsSeq
  <2>2. c.pcs \in Seq(S \cup {p})
    BY <2>1
  <2>3. q \in Seq(S \cup {p}) /\ Len(q) = Len(c.pcs)
    BY <2>2
  <2> QED
    BY <2>3, SeqIsQueue
<1>4. q[i] = p /\ \A j \in 1..Len(c.pcs) : j # i => q[j] = c.pcs[j]
  BY DEF Hook, Queue
<1> HIDE DEF q
<1>5. \A j \in 1..Len(c.pcs) : IsConnection(q[j]) /\ q[j].user = c.pcs[j].user
  BY <1>4 DEF Hook
<1>6. Hook(d)
  <2>1. \A v \in Users : d.peer[v] # 0 =>
          d.peer[v] \in 1..Len(d.pcs) /\ d.pcs[d.peer[v]].user = v
    BY <1>2, <1>3, <1>5 DEF Hook
  <2>2. \A k \in d.tasks : /\ k.pc \in 1..Len(d.pcs) /\ k.rest \subseteq Users
                           /\ k.kind # "offer" => k.rest = {}
    BY <1>2, <1>3 DEF Hook
  <2>3. \A k \in 1..Len(d.pcs) : IsConnection(d.pcs[k]) /\ d.pcs[k].user \in Users
    BY <1>2, <1>3, <1>5 DEF Hook
  <2>4. \A k, h \in d.tasks : k.kind = "offer" /\ h.kind = "offer" => k = h
    BY <1>2 DEF Hook
  <2>5. /\ d.peer = [v \in Users |-> d.peer[v]]
        /\ d.pending = [v \in Users |-> d.pending[v]]
    BY <1>2 DEF Hook
  <2> QED
    BY <1>2, <1>3, <2>1, <2>2, <2>3, <2>4, <2>5 DEF Hook
<1>7. \A v, j : Line(d, v, j) <=> Line(c, v, j)
  BY <1>2, <1>3, <1>5 DEF Line
<1>8. ASSUME NEW v \in Users, v # c.pcs[i].user
      PROVE  Kept(c, d, v)
  <2>1. ASSUME NEW j, Line(c, v, j), j # 0
        PROVE  d.pcs[j] = c.pcs[j]
    <3>1. j # i /\ j \in 1..Len(c.pcs)
      BY <1>8, <2>1, LineIsMade
    <3> QED
      BY <1>2, <1>4, <3>1
  <2> QED
    BY <1>2, <1>7, <2>1 DEF Kept, TasksOf
<1> QED
  BY <1>2, <1>3, <1>4, <1>6, <1>7, <1>8 DEF SetTo

PendingIs(c, u, x, d) ==
  /\ Hook(d) /\ d.tasks = c.tasks /\ d.peer = c.peer /\ d.pcs = c.pcs
  /\ d.pending[u] = x
  /\ \A v \in Users : v # u => Kept(c, d, v)
  /\ \A v, j : Line(d, v, j) <=> Line(c, v, j)

LEMMA PendingSet ==
  ASSUME NEW c, Hook(c), NEW u \in Users, NEW x, NEW d,
         d = [c EXCEPT !.pending = [@ EXCEPT ![u] = x]]
  PROVE  PendingIs(c, u, x, d)
<1> DEFINE q == [c.pending EXCEPT ![u] = x]
<1>1. IsClient(c)
  BY DEF Hook
<1>2. /\ IsClient(d) /\ d.pending = q
      /\ d.tasks = c.tasks /\ d.peer = c.peer /\ d.pcs = c.pcs
  BY <1>1 DEF IsClient, ClientFields
<1>3. /\ q = [v \in Users |-> q[v]] /\ q[u] = x
      /\ \A v \in Users : v # u => q[v] = c.pending[v]
  BY DEF Hook
<1> HIDE DEF q
<1>4. Hook(d)
  <2>1. d.pending = [v \in Users |-> d.pending[v]]
    BY <1>2, <1>3
  <2>2. d.peer = [v \in Users |-> d.peer[v]] /\ Queue(d.pcs)
    BY <1>2 DEF Hook
  <2> QED
    BY <1>2, <2>1, <2>2 DEF Hook
<1>5. \A v, j : Line(d, v, j) <=> Line(c, v, j)
  BY <1>2 DEF Line
<1>6. \A v \in Users : v # u => Kept(c, d, v)
  BY <1>2, <1>3, <1>5 DEF Kept, TasksOf
<1> QED
  BY <1>2, <1>3, <1>4, <1>5, <1>6 DEF PendingIs

-----------------------------------------------------------------------------
(* What a step leaves of the connections *)

Untouched(x, u) ==
  Unmoved(client[x], toServer[x], toClient[x], client'[x], toServer'[x], toClient'[x], u)

\* A step of the client of s that has to do with u.
Moves(s, u) ==
  /\ ~Strange(s, u)
  /\ \A y \in Sockets : y # s /\ Owner[y] = u =>
       (Shaking(s, y) => Shaking(s, y)') /\ (Shaking(y, s) => Shaking(y, s)')

\* What the mesh takes from the other invariants in a state: every session that
\* joined is the one of its user in the room, and its connection is open.
InTouch ==
  /\ \A x \in Sockets : handler[x].pc # "new" => net[x] = "open" /\ room[Owner[x]].ws = x
  /\ \A u \in Users : room[u].ws # NoSocket =>
       room[u].ws \in Sockets /\ Owner[room[u].ws] = u /\ handler[room[u].ws].pc # "new"

LEMMA StrangeStays ==
  ASSUME NEW x, NEW u, Untouched(x, u), Strange(x, u)
  PROVE  Strange(x, u)'
BY StrangerStays DEF Untouched, Strange

LEMMA ShakingStays ==
  ASSUME NEW x, NEW y, Untouched(x, Owner[y]), Untouched(y, Owner[x]), Shaking(x, y)
  PROVE  Shaking(x, y)'
<1>1. PICK n, i, j, m, l : Shake(x, y, n, i, j, m, l)
  BY DEF Shaking
<1>2. /\ Offers(client[x], toServer[x], toClient[x], Owner[y], n, i, <<x, i>>, <<y, j>>, m, l)
      /\ Accepts(client[y], toServer[y], toClient[y], Owner[x], n, j, <<y, j>>, <<x, i>>, m, l)
      /\ Travels(x, y, n, m, l)
  BY <1>1 DEF Shake
<1>3. Offers(client'[x], toServer'[x], toClient'[x], Owner[y], n, i, <<x, i>>, <<y, j>>, m, l)
  BY <1>2, OffersStay DEF Untouched
<1>4. Accepts(client'[y], toServer'[y], toClient'[y], Owner[x], n, j, <<y, j>>, <<x, i>>, m, l)
  BY <1>2, AcceptsStay DEF Untouched
<1>5. Shake(x, y, n, i, j, m, l)'
  BY <1>2, <1>3, <1>4 DEF Shake
<1> QED
  BY <1>5 DEF Shaking

LEMMA MeetingStays ==
  ASSUME Meeting, overlapped' = overlapped,
         \A x \in Sockets : Session(x)' /\ (handler'[x].pc = "new" <=> handler[x].pc = "new"),
         \A u \in Users : room'[u].ws = room[u].ws,
         \A x \in Sockets, u \in Users :
           handler[x].pc = "new" \/ room[u].ws = NoSocket \/ u = Owner[x] => Strange(x, u)',
         \A x, y \in Sockets : x # y /\ handler[x].pc # "new" /\ handler[y].pc # "new" =>
           (Shaking(x, y) => Shaking(x, y)')
  PROVE  Meeting'
<1>1. \A x \in Sockets : Owner[x] \in Users
  BY OwnerAssumption
<1>2. \A x \in Sockets : Strange(x, Owner[x])'
  BY <1>1 DEF Meeting
<1>3. \A x \in Sockets, u \in Users :
        handler'[x].pc = "new" \/ room'[u].ws = NoSocket => Strange(x, u)'
  BY DEF Meeting
<1>4. \A x, y \in Sockets : x # y /\ handler'[x].pc # "new" /\ handler'[y].pc # "new" =>
        Shaking(x, y)' \/ Shaking(y, x)'
  BY DEF Meeting
<1> QED
  BY <1>2, <1>3, <1>4 DEF Meeting

LEMMA ClientMoves ==
  ASSUME Meeting, NEW s \in Sockets, UNCHANGED <<room, handler, overlapped>>,
         \A x \in Sockets : x # s => /\ client'[x] = client[x] /\ toServer'[x] = toServer[x]
                                     /\ toClient'[x] = toClient[x],
         Session(s)',
         \A u \in Users : Untouched(s, u) \/ Moves(s, u)
  PROVE  Meeting'
<1>1. \A x \in Sockets : Owner[x] \in Users
  BY OwnerAssumption
<1>2. \A x \in Sockets, u \in Users : x # s => Untouched(x, u)
  BY UnmovedAtAll DEF Untouched
<1>3. \A x \in Sockets : Session(x)'
  BY DEF Session, Meeting
<1>4. \A x \in Sockets, u \in Users : Strange(x, u) => Strange(x, u)'
  BY <1>2, StrangeStays DEF Moves
<1>5. ASSUME NEW x \in Sockets, NEW y \in Sockets, x # y, Shaking(x, y)
      PROVE  Shaking(x, y)'
  <2>1. CASE Untouched(x, Owner[y]) /\ Untouched(y, Owner[x])
    BY <1>5, <2>1, ShakingStays
  <2>2. CASE ~Untouched(x, Owner[y])
    <3>1. x = s /\ Moves(s, Owner[y])
      BY <1>1, <1>2, <2>2
    <3> QED
      BY <1>5, <3>1 DEF Moves
  <2>3. CASE ~Untouched(y, Owner[x])
    <3>1. y = s /\ Moves(s, Owner[x])
      BY <1>1, <1>2, <2>3
    <3> QED
      BY <1>5, <3>1 DEF Moves
  <2> QED
    BY <2>1, <2>2, <2>3
<1>6. \A x \in Sockets, u \in Users :
        handler[x].pc = "new" \/ room[u].ws = NoSocket \/ u = Owner[x] => Strange(x, u)'
  BY <1>4 DEF Meeting
<1> QED
  BY <1>3, <1>5, <1>6, MeetingStays

\* Whoever is no stranger has a session, and the two shake hands.
LEMMA Partner ==
  ASSUME Meeting, InTouch, NEW s \in Sockets, NEW u \in Users, ~Strange(s, u)
  PROVE  \E y \in Sockets : /\ y # s /\ Owner[y] = u
                            /\ Shaking(s, y) \/ Shaking(y, s)
<1>1. handler[s].pc # "new" /\ room[u].ws # NoSocket /\ u # Owner[s]
  BY DEF Meeting
<1>2. PICK y : y = room[u].ws
  OBVIOUS
<1>3. y \in Sockets /\ Owner[y] = u /\ handler[y].pc # "new"
  BY <1>1, <1>2 DEF InTouch
<1>4. y # s
  BY <1>1, <1>3
<1> QED
  BY <1>1, <1>3, <1>4 DEF Meeting

\* A session that has to do with another user is open.
LEMMA PartnerIsOpen ==
  ASSUME Meeting, InTouch, NEW s \in Sockets, NEW u \in Users, ~Strange(s, u)
  PROVE  net[s] = "open" /\ handler[s].pc # "new"
BY DEF Meeting, InTouch

LEMMA InboxTail ==
  ASSUME NEW C, NEW R, Queue(R), R # << >>, Inbox(C, R), NEW D,
         (Looping(D) => Looping(C)) \/ Head(R).type = "peers"
  PROVE  Inbox(D, Tail(R))
<1>1. /\ Len(Tail(R)) = Len(R) - 1 /\ Len(R) - 1 \in Nat
      /\ Head(R) = R[1] /\ 1 \in 1..Len(R)
      /\ \A i \in 1..(Len(R) - 1) : Tail(R)[i] = R[i + 1] /\ i + 1 \in 1..Len(R)
  BY QueueTail
<1>2. \A i \in 1..Len(Tail(R)) :
        i \in 1..(Len(R) - 1) /\ i \in Nat /\ i + 1 \in 1..Len(R) /\ i + 1 # 1
          /\ Tail(R)[i] = R[i + 1]
  BY <1>1
<1>3. ASSUME NEW i \in 1..Len(Tail(R)), NEW j \in 1..Len(Tail(R)),
             Tail(R)[i].type = "peers", Tail(R)[j].type = "peers"
      PROVE  i = j
  <2>1. i + 1 = j + 1
    BY <1>2, <1>3 DEF Inbox
  <2> QED
    BY <1>2, <2>1
<1>4. ASSUME NEW i \in 1..Len(Tail(R))
      PROVE  /\ Tail(R)[i].type # "peer-left"
             /\ Tail(R)[i].type = "peers" => ~Looping(D)
             /\ Tail(R)[i].type \in Relayed => Tail(R)[i].from \in Users
  BY <1>1, <1>2, <1>4 DEF Inbox
<1> QED
  BY <1>3, <1>4 DEF Inbox

LEMMA InboxHead ==
  ASSUME NEW C, NEW R, Queue(R), R # << >>, Inbox(C, R)
  PROVE  /\ Head(R).type # "peer-left"
         /\ Head(R).type = "peers" => ~Looping(C)
         /\ Head(R).type \in Relayed => Head(R).from \in Users
         /\ \A i \in 1..Len(Tail(R)) : Head(R).type = "peers" => Tail(R)[i].type # "peers"
<1>1. /\ Len(Tail(R)) = Len(R) - 1 /\ Len(R) - 1 \in Nat
      /\ Head(R) = R[1] /\ 1 \in 1..Len(R)
      /\ \A i \in 1..(Len(R) - 1) : Tail(R)[i] = R[i + 1] /\ i + 1 \in 1..Len(R)
  BY QueueTail
<1>2. \A i \in 1..Len(Tail(R)) :
        i \in 1..(Len(R) - 1) /\ i \in Nat /\ i + 1 \in 1..Len(R) /\ i + 1 # 1
          /\ Tail(R)[i] = R[i + 1]
  BY <1>1
<1> QED
  BY <1>1, <1>2 DEF Inbox

-----------------------------------------------------------------------------
(* Steps that have nothing to do with connections *)

\* The state of a hook but for its connections changes.
SameConnections(c, d) ==
  /\ IsClient(d) /\ d.pcs = c.pcs /\ d.peer = c.peer
  /\ d.pending = c.pending /\ d.tasks = c.tasks

LEMMA SameConnectionsKeep ==
  ASSUME NEW c, NEW d, SameConnections(c, d), Hook(c)
  PROVE  /\ Hook(d) /\ (Looping(d) <=> Looping(c))
         /\ \A u : Kept(c, d, u) /\ (Waiting(d, u) <=> Waiting(c, u))
         /\ \A u, i : Line(d, u, i) <=> Line(c, u, i)
BY DEF SameConnections, Hook, Looping, Kept, Waiting, Line, TasksOf

LEMMA OtherFieldsSet ==
  ASSUME NEW c, IsClient(c), NEW x
  PROVE  /\ SameConnections(c, [c EXCEPT !.phase = x])
         /\ SameConnections(c, [c EXCEPT !.left = x])
         /\ SameConnections(c, [c EXCEPT !.muted = x])
         /\ SameConnections(c, [c EXCEPT !.toggled = x])
         /\ SameConnections(c, [c EXCEPT !.participants = x])
BY DEF IsClient, ClientFields, SameConnections

LEMMA SameConnectionsTwice ==
  ASSUME NEW c, NEW d, NEW e, SameConnections(c, d), SameConnections(d, e)
  PROVE  SameConnections(c, e)
BY DEF SameConnections

\* A frame that is not about connections is taken from a queue, or put there.
Aside(f) == f.type \notin Relayed /\ f.type # "peers"

LEMMA OutboxAppend ==
  ASSUME NEW Q, Queue(Q), Outbox(Q), NEW f, f.type \in Relayed => f.to \in Users
  PROVE  Outbox(Append(Q, f))
<1>1. /\ Len(Append(Q, f)) = Len(Q) + 1 /\ Len(Q) \in Nat
      /\ \A i \in 1..Len(Q) : Append(Q, f)[i] = Q[i]
      /\ Append(Q, f)[Len(Q) + 1] = f
  BY QueueAppend DEF Queue
<1>2. \A i \in 1..Len(Append(Q, f)) : i \in 1..Len(Q) \/ i = Len(Q) + 1
  BY <1>1
<1> QED
  BY <1>1, <1>2 DEF Outbox

LEMMA OutboxTail ==
  ASSUME NEW Q, Queue(Q), Q # << >>, Outbox(Q)
  PROVE  Outbox(Tail(Q)) /\ (Head(Q).type \in Relayed => Head(Q).to \in Users)
<1>1. /\ Len(Tail(Q)) = Len(Q) - 1 /\ Len(Q) - 1 \in Nat
      /\ Head(Q) = Q[1] /\ 1 \in 1..Len(Q)
      /\ \A i \in 1..(Len(Q) - 1) : Tail(Q)[i] = Q[i + 1] /\ i + 1 \in 1..Len(Q)
  BY QueueTail
<1> QED
  BY <1>1 DEF Outbox

LEMMA InboxAppend ==
  ASSUME NEW C, NEW R, Queue(R), Inbox(C, R), NEW f, f.type # "peers", f.type # "peer-left",
         f.type \in Relayed => f.from \in Users
  PROVE  Inbox(C, Append(R, f))
<1>1. /\ Len(Append(R, f)) = Len(R) + 1 /\ Len(R) \in Nat
      /\ \A i \in 1..Len(R) : Append(R, f)[i] = R[i]
      /\ Append(R, f)[Len(R) + 1] = f
  BY QueueAppend DEF Queue
<1>2. \A i \in 1..Len(Append(R, f)) : i \in 1..Len(R) \/ i = Len(R) + 1
  BY <1>1
<1> QED
  BY <1>1, <1>2 DEF Inbox

\* What Meeting gives of one session.
LEMMA SessionBefore ==
  ASSUME Meeting, NEW s \in Sockets
  PROVE  /\ Hook(client[s]) /\ Inbox(client[s], toClient[s]) /\ Outbox(toServer[s])
         /\ Strange(s, Owner[s]) /\ Owner[s] \in Users
BY OwnerAssumption DEF Meeting, Session

\* The hook changes, but for its connections; it may send one frame like that.
LEMMA AsideStep ==
  ASSUME Meeting, ListTypes, NEW s \in Sockets,
         UNCHANGED <<toClient, room, handler, overlapped>>,
         NEW d, SameConnections(client[s], d), SetClient(s, d),
         \/ toServer' = toServer
         \/ \E f : Aside(f) /\ toServer' = [toServer EXCEPT ![s] = Append(toServer[s], f)]
  PROVE  Meeting'
<1>1. Hook(client[s]) /\ Inbox(client[s], toClient[s]) /\ Outbox(toServer[s])
  BY SessionBefore
<1>2. /\ Queue(toServer[s]) /\ client'[s] = d
      /\ \A x \in Sockets : x # s => client'[x] = client[x]
  BY ClientBefore DEF QueueTypes, SetClient
<1>3. /\ Hook(d) /\ (Looping(d) <=> Looping(client[s]))
      /\ \A u : Kept(client[s], d, u) /\ (Waiting(d, u) <=> Waiting(client[s], u))
  BY <1>1, SameConnectionsKeep
<1>4. /\ \A x \in Sockets : x # s => toServer'[x] = toServer[x]
      /\ \/ toServer'[s] = toServer[s]
         \/ \E f : Aside(f) /\ toServer'[s] = Append(toServer[s], f)
  BY DEF ListTypes, AreFunctions
<1>5. Outbox(toServer'[s]) /\ \A u \in Users : Carries(toServer[s], toServer'[s], "to", u)
  <2>1. CASE toServer'[s] = toServer[s]
    BY <1>1, <2>1, CarriesItself
  <2>2. CASE \E f : Aside(f) /\ toServer'[s] = Append(toServer[s], f)
    <3>1. PICK f : f.type \notin Relayed /\ toServer'[s] = Append(toServer[s], f)
      BY <2>2 DEF Aside
    <3>2. Outbox(Append(toServer[s], f))
      BY <1>1, <1>2, <3>1, OutboxAppend
    <3>3. \A u \in Users : Carries(toServer[s], Append(toServer[s], f), "to", u)
      BY <1>2, <3>1, CarriesAppend
    <3> QED
      BY <3>1, <3>2, <3>3
  <2> QED
    BY <1>4, <2>1, <2>2
<1>6. Inbox(d, toClient[s])
  BY <1>1, <1>3 DEF Inbox
<1>7. Session(s)'
  BY <1>2, <1>3, <1>5, <1>6 DEF Session, Meeting
<1>8. \A u \in Users : Untouched(s, u)
  BY <1>2, <1>3, <1>5, CarriesItself DEF Untouched, Unmoved
<1> QED
  BY <1>2, <1>4, <1>7, <1>8, ClientMoves

-----------------------------------------------------------------------------
(* The hook takes a frame *)

\* One signal leaves a queue, or comes to it: the other kinds stay.
Took(q, r, sdp, k0, end, u) ==
  /\ ~None(q, k0, end, u)
  /\ \A d : One(q, k0, end, u, d) => sdp = d /\ None(r, k0, end, u)
  /\ \A kind : kind # k0 => /\ None(q, kind, end, u) => None(r, kind, end, u)
                           /\ \A d : One(q, kind, end, u, d) => One(r, kind, end, u, d)

Put(q, r, sdp, k0, end, u) ==
  /\ None(q, k0, end, u) => One(r, k0, end, u, sdp)
  /\ \A kind : kind # k0 => /\ None(q, kind, end, u) => None(r, kind, end, u)
                           /\ \A d : One(q, kind, end, u, d) => One(r, kind, end, u, d)

LEMMA SignalTook ==
  ASSUME NEW q, Queue(q), q # << >>, NEW k0, NEW end, NEW u, Is(Head(q), k0, end, u)
  PROVE  Took(q, Tail(q), Head(q).sdp, k0, end, u)
<1>1. \A kind : kind # k0 => ~Is(Head(q), kind, end, u)
  BY DEF Is
<1> QED
  BY <1>1, SignalsTail DEF Took

LEMMA SignalPut ==
  ASSUME NEW q, Queue(q), NEW f, NEW k0, NEW end, NEW u, Is(f, k0, end, u)
  PROVE  Put(q, Append(q, f), f.sdp, k0, end, u)
<1>1. \A kind : kind # k0 => ~Is(f, kind, end, u)
  BY DEF Is
<1> QED
  BY <1>1, SignalsAppend DEF Put

Takes(s, f, d) ==
  /\ toClient[s] # << >> /\ f = Head(toClient[s])
  /\ client' = [client EXCEPT ![s] = d]
  /\ toClient' = [toClient EXCEPT ![s] = Tail(@)]
  /\ UNCHANGED <<net, toServer, room, handler, overlapped>>

LEMMA TakesIs ==
  ASSUME ListTypes, NEW s \in Sockets, NEW f, NEW d, Takes(s, f, d)
  PROVE  /\ client'[s] = d /\ toClient'[s] = Tail(toClient[s]) /\ toServer'[s] = toServer[s]
         /\ \A x \in Sockets : x # s => /\ client'[x] = client[x] /\ toServer'[x] = toServer[x]
                                        /\ toClient'[x] = toClient[x]
         /\ Queue(toClient[s]) /\ toClient[s] # << >> /\ f = Head(toClient[s])
         /\ UNCHANGED <<room, handler, overlapped>>
BY ClientBefore DEF Takes, QueueTypes, ListTypes, AreFunctions

LEMMA TakesKeeps ==
  ASSUME Meeting, ListTypes, NEW s \in Sockets, NEW f, NEW d, Takes(s, f, d),
         Hook(d), (Looping(d) => Looping(client[s])) \/ f.type = "peers",
         \A u \in Users : \/ /\ Kept(client[s], d, u) /\ (Waiting(d, u) <=> Waiting(client[s], u))
                             /\ ~Names(f, u) /\ (f.type \in Relayed => f.from # u)
                          \/ Moves(s, u)
  PROVE  Meeting'
<1>1. /\ client'[s] = d /\ toClient'[s] = Tail(toClient[s]) /\ toServer'[s] = toServer[s]
      /\ \A x \in Sockets : x # s => /\ client'[x] = client[x] /\ toServer'[x] = toServer[x]
                                     /\ toClient'[x] = toClient[x]
      /\ Queue(toClient[s]) /\ toClient[s] # << >> /\ f = Head(toClient[s])
      /\ UNCHANGED <<room, handler, overlapped>>
  BY TakesIs
<1>2. Hook(client[s]) /\ Inbox(client[s], toClient[s]) /\ Outbox(toServer[s])
  BY SessionBefore
<1>3. Session(s)'
  <2>1. Inbox(d, Tail(toClient[s]))
    BY <1>1, <1>2, InboxTail
  <2>2. /\ Len(Tail(toClient[s])) = Len(toClient[s]) - 1 /\ Len(toClient[s]) - 1 \in Nat
        /\ Head(toClient[s]) = toClient[s][1] /\ 1 \in 1..Len(toClient[s])
        /\ \A i \in 1..(Len(toClient[s]) - 1) :
             Tail(toClient[s])[i] = toClient[s][i + 1] /\ i + 1 \in 1..Len(toClient[s])
    BY <1>1, QueueTail
  <2>3. handler[s].pc = "new" =>
          /\ ~Looping(d)
          /\ \A i \in 1..Len(Tail(toClient[s])) : Tail(toClient[s])[i].type # "peers"
    BY <1>1, <2>2 DEF Meeting, Session
  <2> QED
    BY <1>1, <1>2, <2>1, <2>3 DEF Session, Meeting
<1>4. ASSUME NEW u \in Users, Kept(client[s], d, u), Waiting(d, u) <=> Waiting(client[s], u),
             ~Names(f, u), f.type \in Relayed => f.from # u
      PROVE  Untouched(s, u)
  <2>1. Listed(Tail(toClient[s]), u) <=> Listed(toClient[s], u)
    BY <1>1, <1>4, ListedTail
  <2>2. Carries(toClient[s], Tail(toClient[s]), "from", u)
    BY <1>1, <1>4, CarriesTail
  <2> QED
    BY <1>1, <1>4, <2>1, <2>2, CarriesItself DEF Untouched, Unmoved
<1> QED
  BY <1>1, <1>3, <1>4, ClientMoves

\* News: the list of participants changes.
LEMMA NewsTaken ==
  ASSUME Meeting, ListTypes, NEW s \in Sockets, NEW f, NEW d, Takes(s, f, d),
         f.type \in News, SameConnections(client[s], d)
  PROVE  Meeting'
<1>1. f.type \notin Relayed /\ \A u : ~Names(f, u)
  BY DEF News, Relayed, Names
<1>2. Hook(client[s])
  BY SessionBefore
<1> QED
  BY <1>1, <1>2, SameConnectionsKeep, TakesKeeps

\* An offer is taken: 5 becomes 6.
LEMMA OfferTaken ==
  ASSUME Meeting, ListTypes, NEW s \in Sockets, NEW f, NEW d, Takes(s, f, d),
         f.type = "offer",
         d = WithTask(WithConnection(client[s], f.from), "accept", Len(client[s].pcs) + 1, f.sdp,
                      {})
  PROVE  Meeting'
<1>1. PICK c, Q, R, T, u, k, e :
        /\ c = client[s] /\ Q = toServer[s] /\ R = toClient[s] /\ T = Tail(R)
        /\ u = f.from /\ k = Len(c.pcs) + 1 /\ e = WithConnection(c, u)
  OBVIOUS
<1>2. d = WithTask(e, "accept", k, f.sdp, {})
  BY <1>1
<1>3. /\ client'[s] = d /\ toClient'[s] = T /\ toServer'[s] = Q
      /\ \A x \in Sockets : x # s => /\ client'[x] = client[x] /\ toServer'[x] = toServer[x]
                                     /\ toClient'[x] = toClient[x]
      /\ Queue(R) /\ R # << >> /\ f = Head(R)
      /\ UNCHANGED <<room, handler, overlapped>>
  BY <1>1, TakesIs
<1>4. Hook(c) /\ Inbox(c, R)
  BY <1>1, SessionBefore
<1>5. u \in Users /\ f.type \in Relayed
  BY <1>1, <1>3, <1>4, InboxHead DEF Relayed
<1>6. MadeFor(c, u, e, k)
  BY <1>1, <1>4, <1>5, ConnectionMade
<1>7. NewConnection(u).user = u /\ NewConnection(u).sig = "new" /\ NewConnection(u).remote = NoSdp
  BY DEF NewConnection
<1>8. Added(e, "accept", k, f.sdp, {}, d)
  <2>1. Hook(e) /\ k \in 1..Len(e.pcs)
    BY <1>6 DEF MadeFor
  <2> QED
    BY <1>2, <2>1, TaskAdded
<1>9. /\ d.pending = c.pending /\ (Looping(d) <=> Looping(c))
      /\ \A v : Waiting(d, v) <=> Waiting(c, v)
      /\ Line(c, u, 0) => Line(d, u, k)
      /\ k # 0 /\ d.pcs[k].sig = "new" /\ d.pcs[k].remote = NoSdp
      /\ Hook(d)
  BY <1>6, <1>7, <1>8 DEF MadeFor, Added, Waiting, Looping
<1>10. TasksOf(d, k) = {TaskOf("accept", k, f.sdp, {})}
  BY <1>6, <1>8 DEF MadeFor, Added
<1>11. /\ Took(R, T, f.sdp, "offer", "from", u)
       /\ Listed(T, u) <=> Listed(R, u)
       /\ \A v : ~Names(f, v)
  <2>1. Is(Head(R), "offer", "from", u)
    BY <1>1, <1>3 DEF Is
  <2>2. \A v : ~Names(f, v)
    BY DEF Names
  <2>3. Took(R, T, f.sdp, "offer", "from", u)
    BY <1>1, <1>3, <2>1, SignalTook
  <2> QED
    BY <1>1, <1>3, <2>2, <2>3, ListedTail
<1>12. ASSUME NEW y \in Sockets, y # s, Owner[y] = u
       PROVE  ~Shaking(s, y) /\ (Shaking(y, s) => Shaking(y, s)')
  <2>1. ASSUME NEW n, NEW i, NEW j, NEW m, NEW l, Shake(s, y, n, i, j, m, l)
        PROVE  FALSE
    BY <1>1, <1>11, <1>12, <2>1 DEF Shake, Offers, Took
  <2>2. ASSUME NEW n, NEW i, NEW j, NEW m, NEW l, Shake(y, s, n, i, j, m, l)
        PROVE  Shake(y, s, 6, i, k, m, l)'
    <3>1. /\ Travels(y, s, n, m, l)
          /\ Offers(client[y], toServer[y], toClient[y], Owner[s], n, i, <<y, i>>, <<s, j>>, m, l)
          /\ Accepts(c, Q, R, u, n, j, <<s, j>>, <<y, i>>, m, l)
      BY <1>1, <1>12, <2>2 DEF Shake
    <3>2. n = 5 /\ f.sdp = <<y, i>> /\ None(T, "offer", "from", u)
      BY <1>11, <3>1 DEF Accepts, Took
    <3>3. Travels(y, s, 6, m, l) /\ l = "unsent"
      BY <3>1, <3>2 DEF Travels
    <3>4. Offers(client'[y], toServer'[y], toClient'[y], Owner[s], 6, i, <<y, i>>, <<s, k>>, m, l)
      BY <1>3, <1>12, <3>1, <3>2, <3>3 DEF Offers
    <3>5. Accepts(d, Q, T, u, 6, k, <<s, k>>, <<y, i>>, m, l)
      BY <1>9, <1>10, <1>11, <3>1, <3>2, <3>3 DEF Accepts, Took
    <3> QED
      BY <1>1, <1>3, <1>12, <3>3, <3>4, <3>5 DEF Shake
  <2> QED
    BY <2>1, <2>2 DEF Shaking
<1>13. Moves(s, u)
  <2>1. ~Strange(s, u)
    BY <1>1, <1>5, <1>11 DEF Strange, Stranger, Relayed, Took
  <2> QED
    BY <1>12, <2>1 DEF Moves
<1>14. ASSUME NEW v \in Users, v # u
       PROVE  Kept(c, d, v)
  <2>1. Kept(c, e, v) /\ Kept(e, d, v)
    BY <1>6, <1>7, <1>8, <1>14 DEF MadeFor, Added
  <2> QED
    BY <2>1, KeptTwice
<1> QED
  BY <1>1, <1>5, <1>9, <1>11, <1>13, <1>14, TakesKeeps

LEMMA AnsweringNow ==
  ASSUME NEW d, NEW Q, NEW T, NEW u, NEW k, NEW mine, NEW its, NEW m, NEW l,
         ~Listed(T, u), ~Waiting(d, u), None(Q, "offer", "to", u), None(Q, "answer", "to", u),
         None(T, "offer", "from", u), None(T, "answer", "from", u),
         m = "up" => One(Q, "ice-candidate", "to", u, mine),
         m # "up" => None(Q, "ice-candidate", "to", u),
         l = "down" => One(T, "ice-candidate", "from", u, its),
         l # "down" => None(T, "ice-candidate", "from", u),
         l = "there" => d.pending[u] = {its}, l # "there" => d.pending[u] = {},
         Line(d, u, k), k # 0, d.pcs[k].sig = "offering", d.pcs[k].remote = NoSdp,
         TasksOf(d, k) = {TaskOf("answered", k, its, {})}
  PROVE  Offers(d, Q, T, u, 10, k, mine, its, m, l)
BY DEF Offers

\* An answer is taken: 9 becomes 10.
LEMMA AnswerTaken ==
  ASSUME Meeting, InTouch, ListTypes, NEW s \in Sockets, NEW f, NEW d, Takes(s, f, d),
         f.type = "answer",
         d = IF client[s].peer[f.from] = 0 THEN client[s]
             ELSE WithTask(client[s], "answered", client[s].peer[f.from], f.sdp, {})
  PROVE  Meeting'
<1>1. PICK c, Q, R, T, u, k :
        /\ c = client[s] /\ Q = toServer[s] /\ R = toClient[s] /\ T = Tail(R)
        /\ u = f.from /\ k = c.peer[u]
  OBVIOUS
<1>2. /\ client'[s] = d /\ toClient'[s] = T /\ toServer'[s] = Q
      /\ \A x \in Sockets : x # s => /\ client'[x] = client[x] /\ toServer'[x] = toServer[x]
                                     /\ toClient'[x] = toClient[x]
      /\ Queue(R) /\ R # << >> /\ f = Head(R)
      /\ UNCHANGED <<room, handler, overlapped>>
  BY <1>1, TakesIs
<1>3. Hook(c) /\ Inbox(c, R)
  BY <1>1, SessionBefore
<1>4. u \in Users /\ f.type \in Relayed
  BY <1>1, <1>2, <1>3, InboxHead DEF Relayed
<1>5. /\ Took(R, T, f.sdp, "answer", "from", u)
      /\ Listed(T, u) <=> Listed(R, u)
      /\ \A v : ~Names(f, v)
  <2>1. Is(Head(R), "answer", "from", u)
    BY <1>1, <1>2 DEF Is
  <2>2. \A v : ~Names(f, v)
    BY DEF Names
  <2>3. Took(R, T, f.sdp, "answer", "from", u)
    BY <1>1, <1>2, <2>1, SignalTook
  <2> QED
    BY <1>1, <1>2, <2>2, <2>3, ListedTail, SMTT(20)
<1>6. ~Strange(s, u)
  BY <1>1, <1>4, <1>5 DEF Strange, Stranger, Relayed, Took
<1>7. ASSUME NEW y \in Sockets, Owner[y] = u
      PROVE  ~Shaking(y, s)
  <2>1. ASSUME NEW n, NEW i, NEW j, NEW m, NEW l, Shake(y, s, n, i, j, m, l)
        PROVE  FALSE
    BY <1>1, <1>5, <1>7, <2>1 DEF Shake, Accepts, Took
  <2> QED
    BY <2>1 DEF Shaking
<1>8. ASSUME NEW y \in Sockets, Owner[y] = u,
             NEW n, NEW i, NEW j, NEW m, NEW l, Shake(s, y, n, i, j, m, l)
      PROVE  /\ n = 9 /\ i = k /\ k # 0 /\ f.sdp = <<y, j>> /\ None(T, "answer", "from", u)
             /\ Travels(s, y, n, m, l)
             /\ Offers(c, Q, R, u, n, k, <<s, k>>, <<y, j>>, m, l)
             /\ Accepts(client[y], toServer[y], toClient[y], Owner[s], n, j, <<y, j>>, <<s, k>>,
                        m, l)
  <2>1. /\ Travels(s, y, n, m, l)
        /\ Offers(c, Q, R, u, n, i, <<s, i>>, <<y, j>>, m, l)
        /\ Accepts(client[y], toServer[y], toClient[y], Owner[s], n, j, <<y, j>>, <<s, i>>, m, l)
    BY <1>1, <1>8 DEF Shake
  <2>2. n = 9 /\ f.sdp = <<y, j>> /\ None(T, "answer", "from", u)
    BY <1>5, <2>1 DEF Offers, Took
  <2>3. i = k /\ k # 0
    BY <1>1, <2>1, <2>2 DEF Offers, Line
  <2> QED
    BY <2>1, <2>2, <2>3
<1>9. k # 0
  <2>1. PICK y \in Sockets : Owner[y] = u /\ Shaking(s, y)
    BY <1>4, <1>6, <1>7, Partner
  <2> QED
    BY <1>8, <2>1 DEF Shaking
<1>10. k \in 1..Len(c.pcs) /\ c.pcs[k].user = u
  BY <1>1, <1>3, <1>4, <1>9 DEF Hook
<1>11. Added(c, "answered", k, f.sdp, {}, d)
  BY <1>1, <1>3, <1>9, <1>10, TaskAdded
<1>12. ASSUME NEW y \in Sockets, y # s, Owner[y] = u,
              NEW n, NEW i, NEW j, NEW m, NEW l, Shake(s, y, n, i, j, m, l)
       PROVE  Shake(s, y, 10, k, j, m, l)'
  <2>1. /\ n = 9 /\ i = k /\ k # 0 /\ f.sdp = <<y, j>> /\ None(T, "answer", "from", u)
        /\ Travels(s, y, n, m, l)
        /\ Offers(c, Q, R, u, n, k, <<s, k>>, <<y, j>>, m, l)
        /\ Accepts(client[y], toServer[y], toClient[y], Owner[s], n, j, <<y, j>>, <<s, k>>, m, l)
    BY <1>8, <1>12
  <2>2. Travels(s, y, 10, m, l)
    BY <2>1 DEF Travels
  <2>3. TasksOf(d, k) = {TaskOf("answered", k, f.sdp, {})}
    BY <1>11, <2>1, SMTT(20) DEF Added, Offers
  <2>4. Offers(d, Q, T, u, 10, k, <<s, k>>, <<y, j>>, m, l)
    <3>1. /\ d.pcs = c.pcs /\ d.pending = c.pending
          /\ \A v, h : Line(d, v, h) <=> Line(c, v, h)
          /\ \A v : Waiting(d, v) <=> Waiting(c, v)
      BY <1>11 DEF Added
    <3>2. TasksOf(d, k) = {TaskOf("answered", k, <<y, j>>, {})}
      BY <2>1, <2>3
    <3>3. /\ ~Listed(R, u) /\ ~Waiting(c, u)
          /\ None(Q, "offer", "to", u) /\ None(Q, "answer", "to", u)
          /\ None(R, "offer", "from", u)
          /\ m = "up" => One(Q, "ice-candidate", "to", u, <<s, k>>)
          /\ m # "up" => None(Q, "ice-candidate", "to", u)
          /\ l = "down" => One(R, "ice-candidate", "from", u, <<y, j>>)
          /\ l # "down" => None(R, "ice-candidate", "from", u)
          /\ l = "there" => c.pending[u] = {<<y, j>>}
          /\ l # "there" => c.pending[u] = {}
          /\ Line(c, u, k) /\ k # 0 /\ c.pcs[k].sig = "offering" /\ c.pcs[k].remote = NoSdp
      BY <2>1 DEF Offers
    <3>4. /\ ~Listed(T, u) /\ None(T, "offer", "from", u)
          /\ l = "down" => One(T, "ice-candidate", "from", u, <<y, j>>)
          /\ l # "down" => None(T, "ice-candidate", "from", u)
      BY <1>5, <3>3 DEF Took
    <3>5. /\ Line(d, u, k) /\ k # 0 /\ ~Waiting(d, u)
          /\ l = "there" => d.pending[u] = {<<y, j>>}
          /\ l # "there" => d.pending[u] = {}
          /\ d.pcs[k].sig = "offering" /\ d.pcs[k].remote = NoSdp
      BY <3>1, <3>3
    <3>6. /\ None(T, "answer", "from", u)
          /\ None(Q, "offer", "to", u) /\ None(Q, "answer", "to", u)
          /\ m = "up" => One(Q, "ice-candidate", "to", u, <<s, k>>)
          /\ m # "up" => None(Q, "ice-candidate", "to", u)
      BY <2>1, <3>3
    <3> QED
      BY <3>2, <3>4, <3>5, <3>6, AnsweringNow
  <2>5. Accepts(client'[y], toServer'[y], toClient'[y], Owner[s], 10, j, <<y, j>>, <<s, k>>, m, l)
    BY <1>2, <1>12, <2>1 DEF Accepts
  <2> QED
    BY <1>1, <1>2, <1>12, <2>2, <2>4, <2>5 DEF Shake
<1>13. Moves(s, u)
  BY <1>6, <1>7, <1>12 DEF Moves, Shaking
<1>14. /\ Hook(d) /\ (Looping(d) <=> Looping(c))
       /\ \A v \in Users : v # u => Kept(c, d, v)
       /\ \A v : Waiting(d, v) <=> Waiting(c, v)
  BY <1>10, <1>11 DEF Added
<1> QED
  BY <1>1, <1>4, <1>5, <1>13, <1>14, TakesKeeps

GivenTo(c, u, sdp, d, k) ==
  /\ Hook(d) /\ d.tasks = c.tasks /\ (\A v, i : Line(d, v, i) <=> Line(c, v, i))
  /\ \A v \in Users : v # u => Kept(c, d, v)
  /\ k # 0 /\ c.pcs[k].remote # NoSdp =>
       /\ d.pending = c.pending
       /\ d.pcs[k].sig = c.pcs[k].sig /\ d.pcs[k].remote = c.pcs[k].remote
       /\ c.pcs[k].remote = sdp => d.pcs[k].heard = TRUE
  /\ k = 0 \/ c.pcs[k].remote = NoSdp =>
       d.pcs = c.pcs /\ d.pending[u] = c.pending[u] \cup {sdp}

\* Candidates are given to a connection that has a description, or kept.
LEMMA CandidateGiven ==
  ASSUME NEW c, Hook(c), NEW u \in Users, NEW sdp, NEW d, d = WithCandidate(c, u, sdp),
         NEW k, k = c.peer[u]
  PROVE  GivenTo(c, u, sdp, d, k)
<1>1. CASE k # 0 /\ c.pcs[k].remote # NoSdp
  <2>1. PICK h : h = (c.pcs[k].heard \/ c.pcs[k].remote = sdp)
    OBVIOUS
  <2>2. c.pcs[k].remote = sdp => h = TRUE
    BY <2>1
  <2>3. PICK p : p = [c.pcs[k] EXCEPT !.heard = h]
    OBVIOUS
  <2>4. k \in 1..Len(c.pcs) /\ c.pcs[k].user = u /\ IsConnection(c.pcs[k])
    BY <1>1 DEF Hook
  <2>5. /\ IsConnection(p) /\ p.user = u /\ p.heard = h
        /\ p.sig = c.pcs[k].sig /\ p.remote = c.pcs[k].remote
    BY <2>3, <2>4 DEF IsConnection, ConnectionFields
  <2>6. d = [c EXCEPT !.pcs = [@ EXCEPT ![k] = p]]
    BY <1>1, <2>1, <2>3 DEF WithCandidate
  <2>7. SetTo(c, k, p, d)
    BY <2>4, <2>5, <2>6, ConnectionSet
  <2> QED
    BY <1>1, <2>2, <2>4, <2>5, <2>7 DEF SetTo, GivenTo
<1>2. CASE k = 0 \/ c.pcs[k].remote = NoSdp
  <2>1. d = [c EXCEPT !.pending = [@ EXCEPT ![u] = c.pending[u] \cup {sdp}]]
    BY <1>2 DEF WithCandidate
  <2>2. PendingIs(c, u, c.pending[u] \cup {sdp}, d)
    BY <2>1, PendingSet
  <2> QED
    BY <1>2, <2>2 DEF PendingIs, GivenTo
<1> QED
  BY <1>1, <1>2

\* Candidates are taken: they are there.
LEMMA CandidateTaken ==
  ASSUME Meeting, ListTypes, NEW s \in Sockets, NEW f, NEW d, Takes(s, f, d),
         f.type = "ice-candidate", d = WithCandidate(client[s], f.from, f.sdp)
  PROVE  Meeting'
<1>1. PICK c, Q, R, T, u, k :
        /\ c = client[s] /\ Q = toServer[s] /\ R = toClient[s] /\ T = Tail(R)
        /\ u = f.from /\ k = c.peer[u]
  OBVIOUS
<1>2. /\ client'[s] = d /\ toClient'[s] = T /\ toServer'[s] = Q
      /\ \A x \in Sockets : x # s => /\ client'[x] = client[x] /\ toServer'[x] = toServer[x]
                                     /\ toClient'[x] = toClient[x]
      /\ Queue(R) /\ R # << >> /\ f = Head(R)
      /\ UNCHANGED <<room, handler, overlapped>>
  BY <1>1, TakesIs
<1>3. Hook(c) /\ Inbox(c, R)
  BY <1>1, SessionBefore
<1>4. u \in Users /\ f.type \in Relayed
  BY <1>1, <1>2, <1>3, InboxHead DEF Relayed
<1>5. /\ Took(R, T, f.sdp, "ice-candidate", "from", u)
      /\ Listed(T, u) <=> Listed(R, u)
      /\ \A v : ~Names(f, v)
  <2>1. Is(Head(R), "ice-candidate", "from", u)
    BY <1>1, <1>2 DEF Is
  <2>2. \A v : ~Names(f, v)
    BY DEF Names
  <2>3. Took(R, T, f.sdp, "ice-candidate", "from", u)
    BY <1>1, <1>2, <2>1, SignalTook
  <2> QED
    BY <1>1, <1>2, <2>2, <2>3, ListedTail
<1>6. ~Strange(s, u)
  BY <1>1, <1>4, <1>5 DEF Strange, Stranger, Relayed, Took
<1>7. GivenTo(c, u, f.sdp, d, k)
  BY <1>1, <1>3, <1>4, CandidateGiven
<1>8. /\ Hook(d) /\ d.tasks = c.tasks /\ (\A v, i : Line(d, v, i) <=> Line(c, v, i))
      /\ \A v \in Users : v # u => Kept(c, d, v)
      /\ k # 0 /\ c.pcs[k].remote # NoSdp =>
           /\ d.pending = c.pending
           /\ d.pcs[k].sig = c.pcs[k].sig /\ d.pcs[k].remote = c.pcs[k].remote
           /\ c.pcs[k].remote = f.sdp => d.pcs[k].heard = TRUE
      /\ k = 0 \/ c.pcs[k].remote = NoSdp =>
           d.pcs = c.pcs /\ d.pending[u] = c.pending[u] \cup {f.sdp}
  BY <1>7 DEF GivenTo
<1>9. /\ (Looping(d) <=> Looping(c)) /\ \A v : Waiting(d, v) <=> Waiting(c, v)
      /\ \A i : TasksOf(d, i) = TasksOf(c, i)
  BY <1>8 DEF Looping, Waiting, TasksOf
<1>10. \A y, j : <<y, j>> # NoSdp
  BY DEF NoSdp
<1>11. ASSUME NEW y \in Sockets, y # s, Owner[y] = u,
              NEW n, NEW i, NEW j, NEW m, NEW l, Shake(s, y, n, i, j, m, l)
       PROVE  Shake(s, y, n, i, j, m, "there")'
  <2>1. /\ Travels(s, y, n, m, l)
        /\ Offers(c, Q, R, u, n, i, <<s, i>>, <<y, j>>, m, l)
        /\ Accepts(client[y], toServer[y], toClient[y], Owner[s], n, j, <<y, j>>, <<s, i>>, m, l)
    BY <1>1, <1>11 DEF Shake
  <2>2. l = "down" /\ f.sdp = <<y, j>> /\ None(T, "ice-candidate", "from", u)
    BY <1>5, <2>1 DEF Offers, Took
  <2>3. Travels(s, y, n, m, "there") /\ n \in 8..11
    BY <2>1, <2>2 DEF Travels, Ways
  <2>4. Line(c, u, i) /\ i # 0 /\ i = k
    BY <1>1, <2>1, <2>3 DEF Offers, Line
  <2>5. CASE n <= 10
    <3>1. d.pcs = c.pcs /\ d.pending[u] = {<<y, j>>}
      BY <1>8, <2>1, <2>2, <2>3, <2>4, <2>5 DEF Offers
    <3>2. Offers(d, Q, T, u, n, i, <<s, i>>, <<y, j>>, m, "there")
      BY <1>5, <1>8, <1>9, <2>1, <2>2, <2>3, <2>5, <3>1 DEF Offers, Took
    <3>3. Accepts(client'[y], toServer'[y], toClient'[y], Owner[s], n, j, <<y, j>>, <<s, i>>, m,
                  "there")
      BY <1>2, <1>11, <2>1, <2>2 DEF Accepts
    <3> QED
      BY <1>1, <1>2, <1>11, <2>3, <3>2, <3>3 DEF Shake
  <2>6. CASE n = 11
    <3>1. /\ d.pending = c.pending /\ d.pcs[i].sig = c.pcs[i].sig
          /\ d.pcs[i].remote = c.pcs[i].remote /\ d.pcs[i].heard = TRUE
      BY <1>8, <1>10, <2>1, <2>2, <2>4, <2>6 DEF Offers
    <3>2. Offers(d, Q, T, u, n, i, <<s, i>>, <<y, j>>, m, "there")
      BY <1>5, <1>8, <1>9, <2>1, <2>2, <2>6, <3>1, SMTT(20) DEF Offers, Took
    <3>3. Accepts(client'[y], toServer'[y], toClient'[y], Owner[s], n, j, <<y, j>>, <<s, i>>, m,
                  "there")
      BY <1>2, <1>11, <2>1, <2>2 DEF Accepts
    <3> QED
      BY <1>1, <1>2, <1>11, <2>3, <3>2, <3>3 DEF Shake
  <2> QED
    BY <2>3, <2>5, <2>6
<1>12. ASSUME NEW y \in Sockets, y # s, Owner[y] = u,
              NEW n, NEW i, NEW j, NEW m, NEW l, Shake(y, s, n, i, j, m, l)
       PROVE  Shake(y, s, n, i, j, "there", l)'
  <2>1. /\ Travels(y, s, n, m, l)
        /\ Offers(client[y], toServer[y], toClient[y], Owner[s], n, i, <<y, i>>, <<s, j>>, m, l)
        /\ Accepts(c, Q, R, u, n, j, <<s, j>>, <<y, i>>, m, l)
    BY <1>1, <1>12 DEF Shake
  <2>2. m = "down" /\ f.sdp = <<y, i>> /\ None(T, "ice-candidate", "from", u)
    BY <1>5, <2>1 DEF Accepts, Took
  <2>3. Travels(y, s, n, "there", l) /\ n \in 4..11
    BY <2>1, <2>2 DEF Travels, Ways
  <2>4. Offers(client'[y], toServer'[y], toClient'[y], Owner[s], n, i, <<y, i>>, <<s, j>>,
               "there", l)
    BY <1>2, <1>12, <2>1, <2>2 DEF Offers
  <2>5. CASE n <= 6
    <3>1. k = 0 \/ (k = j /\ c.pcs[k].remote = NoSdp)
      BY <1>1, <2>1, <2>3, <2>5 DEF Accepts, Line
    <3>2. d.pcs = c.pcs /\ d.pending[u] = {<<y, i>>}
      BY <1>8, <2>1, <2>2, <2>3, <2>5, <3>1 DEF Accepts
    <3>3. Accepts(d, Q, T, u, n, j, <<s, j>>, <<y, i>>, "there", l)
      BY <1>5, <1>8, <1>9, <2>1, <2>2, <2>3, <2>5, <3>2 DEF Accepts, Took
    <3> QED
      BY <1>1, <1>2, <1>12, <2>3, <2>4, <3>3 DEF Shake
  <2>6. CASE n >= 7
    <3>1. k = j /\ j # 0 /\ c.pcs[k].remote = <<y, i>>
      BY <1>1, <2>1, <2>3, <2>6, SMTT(20) DEF Accepts, Line
    <3>2. /\ d.pending = c.pending /\ d.pcs[j].sig = c.pcs[j].sig
          /\ d.pcs[j].remote = c.pcs[j].remote /\ d.pcs[j].heard = TRUE
      BY <1>8, <1>10, <2>2, <3>1
    <3>3. Accepts(d, Q, T, u, n, j, <<s, j>>, <<y, i>>, "there", l)
      BY <1>5, <1>8, <1>9, <2>1, <2>2, <2>3, <2>6, <3>2, SMTT(20) DEF Accepts, Took
    <3> QED
      BY <1>1, <1>2, <1>12, <2>3, <2>4, <3>3 DEF Shake
  <2> QED
    BY <2>3, <2>5, <2>6
<1>13. Moves(s, u)
  BY <1>6, <1>11, <1>12 DEF Moves, Shaking
<1> QED
  BY <1>1, <1>4, <1>5, <1>8, <1>9, <1>13, TakesKeeps

\* The loop over the users U goes to u: a connection, and the others wait.
Offered(c, U, u, k, d) ==
  /\ Hook(d) /\ Looping(d)
  /\ \A v \in Users : v # u => Kept(c, d, v)
  /\ \A v : Waiting(d, v) <=> v \in U /\ v # u
  /\ d.pending = c.pending /\ k # 0
  /\ Line(c, u, 0) => Line(d, u, k)
  /\ d.pcs[k].sig = "new" /\ d.pcs[k].remote = NoSdp
  /\ \E h \in d.tasks : h.kind = "offer" /\ TasksOf(d, k) = {h}

LEMMA NextIsOffered ==
  ASSUME NEW c, Hook(c), ~Looping(c), \A v : ~Waiting(c, v),
         NEW U \in SUBSET Users, U # {}, NEW d \in OfferNext(c, U)
  PROVE  \E u \in U : \E k : Offered(c, U, u, k, d)
<1>1. PICK u \in U :
        d = WithTask(WithConnection(c, u), "offer", Len(c.pcs) + 1, NoSdp, U \ {u})
  BY DEF OfferNext
<1>2. PICK k, e, rest, h :
        /\ k = Len(c.pcs) + 1 /\ e = WithConnection(c, u) /\ rest = U \ {u}
        /\ h = TaskOf("offer", k, NoSdp, rest)
  OBVIOUS
<1>3. d = WithTask(e, "offer", k, NoSdp, rest) /\ rest \in SUBSET Users /\ u \in Users
  BY <1>1, <1>2
<1>4. MadeFor(c, u, e, k)
  BY <1>2, <1>3, ConnectionMade
<1>5. Hook(e) /\ k \in 1..Len(e.pcs) /\ ~Looping(e) /\ (\A v : ~Waiting(e, v)) /\ k # 0
      /\ e.pcs[k] = NewConnection(u) /\ TasksOf(e, k) = {} /\ e.pending = c.pending
  BY <1>4 DEF MadeFor, Looping, Waiting
<1>6. Added(e, "offer", k, NoSdp, rest, d)
  BY <1>3, <1>5, TaskAdded
<1>7. NewConnection(u).user = u /\ NewConnection(u).sig = "new" /\ NewConnection(u).remote = NoSdp
  BY DEF NewConnection
<1>8. TasksOf(d, k) = {h} /\ h \in d.tasks /\ h.kind = "offer"
  <2>1. TasksOf(d, k) = {h}
    BY <1>2, <1>5, <1>6 DEF Added
  <2>2. h \in TasksOf(d, k)
    BY <2>1
  <2> QED
    BY <1>2, <2>1, <2>2 DEF TasksOf, TaskOf
<1>9. \A v \in Users : v # u => Kept(c, d, v)
  <2> SUFFICES ASSUME NEW v \in Users, v # u
               PROVE  Kept(c, d, v)
    OBVIOUS
  <2>1. Kept(c, e, v) /\ Kept(e, d, v)
    BY <1>4, <1>5, <1>6, <1>7 DEF MadeFor, Added
  <2> QED
    BY <2>1, KeptTwice
<1>10. \A v : Waiting(d, v) <=> v \in U /\ v # u
  BY <1>2, <1>5, <1>6 DEF Added
<1>11. Line(c, u, 0) => Line(d, u, k)
  BY <1>4, <1>6 DEF MadeFor, Added
<1>12. /\ Hook(d) /\ Looping(d) /\ d.pending = c.pending
       /\ d.pcs[k].sig = "new" /\ d.pcs[k].remote = NoSdp
  BY <1>5, <1>6, <1>7 DEF Added
<1>13. \E g \in d.tasks : g.kind = "offer" /\ TasksOf(d, k) = {g}
  BY <1>8
<1>14. Offered(c, U, u, k, d)
  BY <1>5, <1>9, <1>10, <1>11, <1>12, <1>13 DEF Offered
<1> QED
  BY <1>14

\* "peers" is taken: 1 becomes 3 for the first of its users, 2 for the others.
LEMMA PeersTaken ==
  ASSUME Meeting, ListTypes, NEW s \in Sockets, NEW f, NEW d, Takes(s, f, d),
         f.type = "peers", f.peers \subseteq Participant,
         NEW b, SameConnections(client[s], b), NEW U, U = {p.user : p \in f.peers},
         d \in OfferNext(b, U)
  PROVE  Meeting'
<1>1. PICK c, Q, R, T : c = client[s] /\ Q = toServer[s] /\ R = toClient[s] /\ T = Tail(R)
  OBVIOUS
<1>2. /\ client'[s] = d /\ toClient'[s] = T /\ toServer'[s] = Q
      /\ \A x \in Sockets : x # s => /\ client'[x] = client[x] /\ toServer'[x] = toServer[x]
                                     /\ toClient'[x] = toClient[x]
      /\ Queue(R) /\ R # << >> /\ f = Head(R)
      /\ UNCHANGED <<room, handler, overlapped>>
  BY <1>1, TakesIs
<1>3. Hook(c) /\ Inbox(c, R)
  BY <1>1, SessionBefore
<1>4. /\ ~Looping(c)
      /\ \A i \in 1..Len(T) : T[i].type # "peers"
  BY <1>1, <1>2, <1>3, InboxHead
<1>5. U \in SUBSET Users /\ \A v : Names(f, v) <=> v \in U
  BY DEF Participant, Names
<1>6. \A v : ~Waiting(c, v)
  BY <1>3, <1>4 DEF Hook, Looping, Waiting
<1>7. /\ Hook(b) /\ (Looping(b) <=> Looping(c))
      /\ \A u : Kept(c, b, u) /\ (Waiting(b, u) <=> Waiting(c, u))
      /\ \A u, i : Line(b, u, i) <=> Line(c, u, i)
      /\ b.pending = c.pending
  BY <1>1, <1>3, SameConnectionsKeep DEF SameConnections
<1>8. f.type \notin Relayed
  BY DEF Relayed
<1>9. CASE U = {}
  <2>1. d = b
    BY <1>9 DEF OfferNext
  <2> QED
    BY <1>1, <1>5, <1>7, <1>8, <1>9, <2>1, TakesKeeps
<1>10. CASE U # {}
  <2>1. PICK u \in U : \E k : Offered(b, U, u, k, d)
    BY <1>4, <1>5, <1>6, <1>7, <1>10, NextIsOffered
  <2>2. PICK k : Offered(b, U, u, k, d)
    BY <2>1
  <2>3. \A v \in Users : v # u => Kept(c, d, v)
    <3> SUFFICES ASSUME NEW v \in Users, v # u PROVE Kept(c, d, v)
      OBVIOUS
    <3>1. Kept(c, b, v) /\ Kept(b, d, v)
      BY <1>7, <2>2 DEF Offered
    <3> QED
      BY <3>1, KeptTwice
  <2>4. \A v : ~Listed(T, v)
    BY <1>4 DEF Listed, Names
  <2>5. \A kind \in Relayed : \A v :
         /\ None(R, kind, "from", v) => None(T, kind, "from", v)
         /\ \A a : One(R, kind, "from", v, a) => One(T, kind, "from", v, a)
    <3> SUFFICES ASSUME NEW v
                 PROVE  Carries(R, T, "from", v)
      BY DEF Carries
    <3> QED
      BY <1>1, <1>2, <1>8, CarriesTail
  <2>6. ASSUME NEW v \in U, NEW y \in Sockets, y # s, Owner[y] = v
        PROVE  ~Shaking(y, s) /\ (Shaking(s, y) => Shaking(s, y)')
    <3>1. Listed(R, v) /\ v \in Users
      BY <1>1, <1>2, <1>5, <2>6, ListedTail
    <3>2. ASSUME NEW n, NEW i, NEW j, NEW m, NEW l, Shake(y, s, n, i, j, m, l)
          PROVE  FALSE
      BY <1>1, <2>6, <3>1, <3>2 DEF Shake, Accepts
    <3>3. ASSUME NEW n, NEW i, NEW j, NEW m, NEW l, Shake(s, y, n, i, j, m, l)
          PROVE  Shaking(s, y)'
      <4>1. /\ Travels(s, y, n, m, l)
            /\ Offers(c, Q, R, v, n, i, <<s, i>>, <<y, j>>, m, l)
            /\ Accepts(client[y], toServer[y], toClient[y], Owner[s], n, j, <<y, j>>, <<s, i>>, m,
                       l)
        BY <1>1, <2>6, <3>3 DEF Shake
      <4>2. n = 1 /\ m = "unsent" /\ l = "unsent"
        BY <3>1, <4>1 DEF Offers, Travels
      <4>3. Line(c, v, 0) /\ c.pending[v] = {}
        BY <4>1, <4>2 DEF Offers
      <4>4. /\ None(Q, "offer", "to", v) /\ None(Q, "answer", "to", v)
            /\ None(Q, "ice-candidate", "to", v)
            /\ None(T, "offer", "from", v) /\ None(T, "answer", "from", v)
            /\ None(T, "ice-candidate", "from", v)
        BY <2>5, <4>1, <4>2, SignalKinds DEF Offers
      <4>5. CASE v = u
        <5>1. /\ Line(d, u, k) /\ k # 0 /\ ~Waiting(d, u) /\ d.pending[u] = {}
              /\ d.pcs[k].sig = "new" /\ d.pcs[k].remote = NoSdp
              /\ \E h \in d.tasks : h.kind = "offer" /\ TasksOf(d, k) = {h}
          BY <1>7, <2>2, <4>3, <4>5 DEF Offered
        <5>2. Offers(d, Q, T, u, 3, k, <<s, k>>, <<y, j>>, m, l)
          BY <2>4, <4>2, <4>4, <4>5, <5>1 DEF Offers
        <5>3. Accepts(client'[y], toServer'[y], toClient'[y], Owner[s], 3, j, <<y, j>>, <<s, k>>,
                      m, l)
          BY <1>2, <2>6, <4>1, <4>2 DEF Accepts
        <5>4. Travels(s, y, 3, m, l)
          BY <4>1, <4>2 DEF Travels
        <5> QED
          BY <1>1, <1>2, <2>6, <4>5, <5>2, <5>3, <5>4 DEF Shake, Shaking
      <4>6. CASE v # u
        <5>1. Line(d, v, 0) /\ Waiting(d, v) /\ d.pending[v] = {}
          BY <1>7, <2>2, <2>3, <2>6, <3>1, <4>3, <4>6 DEF Offered, Kept
        <5>2. Offers(d, Q, T, v, 2, i, <<s, i>>, <<y, j>>, m, l)
          BY <2>4, <4>2, <4>4, <5>1 DEF Offers
        <5>3. Accepts(client'[y], toServer'[y], toClient'[y], Owner[s], 2, j, <<y, j>>, <<s, i>>,
                      m, l)
          BY <1>2, <2>6, <4>1, <4>2 DEF Accepts
        <5>4. Travels(s, y, 2, m, l)
          BY <4>1, <4>2 DEF Travels
        <5> QED
          BY <1>1, <1>2, <2>6, <5>2, <5>3, <5>4 DEF Shake, Shaking
      <4> QED
        BY <4>5, <4>6
    <3> QED
      BY <3>2, <3>3 DEF Shaking
  <2>7. ASSUME NEW v \in U
        PROVE  Moves(s, v)
    <3>1. Listed(R, v)
      BY <1>1, <1>2, <1>5, <2>7, ListedTail
    <3> QED
      BY <1>1, <2>6, <2>7, <3>1 DEF Moves, Strange, Stranger
  <2>8. \A v : v \notin U => (Waiting(d, v) <=> Waiting(c, v))
    BY <1>6, <2>2 DEF Offered
  <2>9. Hook(d)
    BY <2>2 DEF Offered
  <2> QED
    BY <1>1, <1>5, <1>8, <2>3, <2>7, <2>8, <2>9, TakesKeeps
<1> QED
  BY <1>9, <1>10

LEMMA OnMessageMoves ==
  ASSUME Meeting, InTouch, ListTypes, NEW s \in Sockets, OnMessage(s)
  PROVE  Meeting'
<1>1. PICK f : f = Head(toClient[s])
  OBVIOUS
<1>2. PICK d \in Handled(client[s], f) : SetClient(s, d)
  BY <1>1 DEF OnMessage
<1>3. Takes(s, f, d)
  BY <1>1, <1>2 DEF OnMessage, Takes, SetClient
<1>4. toClient[s] # << >> /\ Queue(toClient[s]) /\ IsClient(client[s]) /\ ClientBound(f)
  <2>1. QueueTypes(s) /\ ClientTypes(s) /\ toClient[s] # << >>
    BY ClientBefore DEF OnMessage
  <2>2. Head(toClient[s]) = toClient[s][1] /\ 1 \in 1..Len(toClient[s])
    BY <2>1, QueueTail DEF QueueTypes
  <2> QED
    BY <1>1, <2>1, <2>2 DEF QueueTypes, ClientTypes
<1>5. f.type # "peer-left"
  BY <1>1, <1>4, InboxHead, SessionBefore
<1>6. CASE f.type = "peers"
  <2>1. PICK b : b = [client[s] EXCEPT !.participants = f.peers]
    OBVIOUS
  <2>2. PICK U : U = {p.user : p \in f.peers}
    OBVIOUS
  <2>3. d \in OfferNext(b, U)
    BY <1>2, <1>6, <2>1, <2>2 DEF Handled
  <2>4. SameConnections(client[s], b)
    BY <1>4, <2>1, OtherFieldsSet
  <2>5. f.peers \subseteq Participant
    BY <1>4, <1>6 DEF ClientBound, News, Relayed
  <2> QED
    BY <1>3, <1>6, <2>2, <2>3, <2>4, <2>5, PeersTaken
<1>7. CASE f.type = "offer"
  BY <1>2, <1>3, <1>7, OfferTaken DEF Handled
<1>8. CASE f.type = "answer"
  BY <1>2, <1>3, <1>8, AnswerTaken DEF Handled
<1>9. CASE f.type = "ice-candidate"
  BY <1>2, <1>3, <1>9, CandidateTaken DEF Handled
<1>10. CASE f.type = "peer-joined"
  <2>1. PICK list : d = [client[s] EXCEPT !.participants = list]
    BY <1>2, <1>10 DEF Handled
  <2>2. SameConnections(client[s], d)
    BY <1>4, <2>1, OtherFieldsSet
  <2> QED
    BY <1>3, <1>10, <2>2, NewsTaken DEF News
<1>11. CASE f.type = "mute-changed"
  <2>1. PICK list : d = [client[s] EXCEPT !.participants = list]
    BY <1>2, <1>11 DEF Handled
  <2>2. SameConnections(client[s], d)
    BY <1>4, <2>1, OtherFieldsSet
  <2> QED
    BY <1>3, <1>11, <2>2, NewsTaken DEF News
<1> QED
  BY <1>4, <1>5, <1>6, <1>7, <1>8, <1>9, <1>10, <1>11 DEF ClientBound, News, Relayed

-----------------------------------------------------------------------------
(* A suspended handler goes on *)

\* A task of a connection tells how far the handshake is.
OfOffer(s, k, y, n, i, j) ==
  /\ i = k.pc /\ TasksOf(client[s], i) = {k}
  /\ n \in {3, 10}
  /\ n = 3  => k.kind = "offer" /\ client[s].pcs[i].sig = "new"
  /\ n = 10 => k.kind = "answered" /\ k.sdp = <<y, j>> /\ client[s].pcs[i].sig = "offering"

OfAccept(s, k, y, n, i, j) ==
  /\ j = k.pc /\ TasksOf(client[s], j) = {k}
  /\ n \in {6, 7}
  /\ n = 6 => k.kind = "accept" /\ k.sdp = <<y, i>> /\ client[s].pcs[j].sig = "new"
  /\ n = 7 => k.kind = "reply" /\ client[s].pcs[j].sig = "accepting"

LEMMA TaskFields ==
  ASSUME NEW kind, NEW i, NEW sdp, NEW rest, NEW k, k = TaskOf(kind, i, sdp, rest)
  PROVE  k.kind = kind /\ k.pc = i /\ k.sdp = sdp /\ k.rest = rest
BY DEF TaskOf

LEMMA TaskOfOffer ==
  ASSUME NEW s, NEW k, Hook(client[s]), k \in client[s].tasks,
         NEW y, Owner[y] = client[s].pcs[k.pc].user,
         NEW n, NEW i, NEW j, NEW m, NEW l, Shake(s, y, n, i, j, m, l)
  PROVE  OfOffer(s, k, y, n, i, j)
<1>1. PICK C, u : C = client[s] /\ u = Owner[y]
  OBVIOUS
<1>2. Offers(C, toServer[s], toClient[s], u, n, i, <<s, i>>, <<y, j>>, m, l) /\ n \in 1..11
  BY <1>1 DEF Shake, Travels
<1>3. k.pc \in 1..Len(C.pcs) /\ Len(C.pcs) \in Nat /\ k.pc # 0
  BY <1>1 DEF Hook, Queue
<1>4. n >= 3 /\ Line(C, u, i) /\ i = k.pc
  <2>1. CASE n <= 2
    BY <1>1, <1>2, <1>3, <2>1 DEF Offers, Line
  <2>2. CASE n >= 3
    <3>1. Line(C, u, i)
      BY <1>2, <2>2 DEF Offers
    <3> QED
      BY <1>1, <1>3, <2>2, <3>1 DEF Line
  <2> QED
    BY <1>2, <2>1, <2>2
<1>5. k \in TasksOf(C, i)
  BY <1>1, <1>4 DEF TasksOf
<1>6. n = 3 \/ n = 10
  BY <1>2, <1>4, <1>5 DEF Offers
<1>7. CASE n = 3
  <2>1. C.pcs[i].sig = "new" /\ \E h \in C.tasks : h.kind = "offer" /\ TasksOf(C, i) = {h}
    BY <1>2, <1>7 DEF Offers
  <2>2. TasksOf(C, i) = {k} /\ k.kind = "offer"
    BY <1>5, <2>1
  <2> QED
    BY <1>1, <1>4, <1>7, <2>1, <2>2 DEF OfOffer
<1>8. CASE n = 10
  <2>1. C.pcs[i].sig = "offering" /\ TasksOf(C, i) = {TaskOf("answered", i, <<y, j>>, {})}
    BY <1>2, <1>8 DEF Offers
  <2>2. TasksOf(C, i) = {k} /\ k = TaskOf("answered", i, <<y, j>>, {})
    BY <1>5, <2>1
  <2>3. k.kind = "answered" /\ k.sdp = <<y, j>>
    BY <2>2, TaskFields
  <2> QED
    BY <1>1, <1>4, <1>8, <2>1, <2>2, <2>3, SMTT(20) DEF OfOffer
<1> QED
  BY <1>6, <1>7, <1>8

LEMMA TaskOfAccept ==
  ASSUME NEW s, NEW k, Hook(client[s]), k \in client[s].tasks,
         NEW y, Owner[y] = client[s].pcs[k.pc].user,
         NEW n, NEW i, NEW j, NEW m, NEW l, Shake(y, s, n, i, j, m, l)
  PROVE  OfAccept(s, k, y, n, i, j)
<1>1. PICK C, u : C = client[s] /\ u = Owner[y]
  OBVIOUS
<1>2. Accepts(C, toServer[s], toClient[s], u, n, j, <<s, j>>, <<y, i>>, m, l) /\ n \in 1..11
  BY <1>1 DEF Shake, Travels
<1>3. k.pc \in 1..Len(C.pcs) /\ Len(C.pcs) \in Nat /\ k.pc # 0
  BY <1>1 DEF Hook, Queue
<1>4. n >= 6 /\ Line(C, u, j) /\ j = k.pc
  <2>1. CASE n <= 5
    BY <1>1, <1>2, <1>3, <2>1 DEF Accepts, Line
  <2>2. CASE n >= 6
    <3>1. Line(C, u, j)
      BY <1>2, <2>2 DEF Accepts
    <3> QED
      BY <1>1, <1>3, <2>2, <3>1 DEF Line
  <2> QED
    BY <1>2, <2>1, <2>2
<1>5. k \in TasksOf(C, j)
  BY <1>1, <1>4 DEF TasksOf
<1>6. n = 6 \/ n = 7
  BY <1>2, <1>4, <1>5 DEF Accepts
<1>7. CASE n = 6
  <2>1. C.pcs[j].sig = "new" /\ TasksOf(C, j) = {TaskOf("accept", j, <<y, i>>, {})}
    BY <1>2, <1>7 DEF Accepts
  <2>2. TasksOf(C, j) = {k} /\ k = TaskOf("accept", j, <<y, i>>, {})
    BY <1>5, <2>1
  <2>3. k.kind = "accept" /\ k.sdp = <<y, i>>
    BY <2>2, TaskFields
  <2> QED
    BY <1>1, <1>4, <1>7, <2>1, <2>2, <2>3, SMTT(20) DEF OfAccept
<1>8. CASE n = 7
  <2>1. C.pcs[j].sig = "accepting" /\ TasksOf(C, j) = {TaskOf("reply", j, NoSdp, {})}
    BY <1>2, <1>8 DEF Accepts
  <2>2. TasksOf(C, j) = {k} /\ k = TaskOf("reply", j, NoSdp, {})
    BY <1>5, <2>1
  <2>3. k.kind = "reply"
    BY <2>2, TaskFields
  <2> QED
    BY <1>1, <1>4, <1>8, <2>1, <2>2, <2>3 DEF OfAccept
<1> QED
  BY <1>6, <1>7, <1>8

\* A task is of a connection with somebody who is there.
LEMMA TaskHasPartner ==
  ASSUME Meeting, InTouch, NEW s \in Sockets, NEW k \in client[s].tasks,
         NEW u, u = client[s].pcs[k.pc].user
  PROVE  /\ u \in Users /\ k.pc \in 1..Len(client[s].pcs)
         /\ ~Strange(s, u) /\ net[s] = "open" /\ handler[s].pc # "new"
         /\ \E y \in Sockets : y # s /\ Owner[y] = u /\ (Shaking(s, y) \/ Shaking(y, s))
<1>1. Hook(client[s])
  BY SessionBefore
<1>2. u \in Users /\ k.pc \in 1..Len(client[s].pcs) /\ k.pc # 0
  BY <1>1 DEF Hook, Queue
<1>3. ~Strange(s, u)
  BY <1>2 DEF Strange, Stranger, Line
<1> QED
  BY <1>2, <1>3, Partner, PartnerIsOpen

\* So no promise of the hook is rejected.
LEMMA NothingIsRejected ==
  ASSUME Meeting, InTouch, NEW s \in Sockets, NEW k \in client[s].tasks
  PROVE  ~Rejected(s, k)
<1>1. PICK u : u = client[s].pcs[k.pc].user
  OBVIOUS
<1>2. PICK y \in Sockets : y # s /\ Owner[y] = u /\ (Shaking(s, y) \/ Shaking(y, s))
  BY <1>1, TaskHasPartner
<1>3. Hook(client[s])
  BY SessionBefore
<1>4. client[s].pcs[k.pc].sig # "closed"
      /\ (k.kind = "answered" => client[s].pcs[k.pc].sig = "offering")
  <2>1. CASE Shaking(s, y)
    <3>1. PICK n, i, j, m, l : Shake(s, y, n, i, j, m, l)
      BY <2>1 DEF Shaking
    <3>2. OfOffer(s, k, y, n, i, j)
      BY <1>1, <1>2, <1>3, <3>1, TaskOfOffer
    <3> QED
      BY <3>2 DEF OfOffer
  <2>2. CASE Shaking(y, s)
    <3>1. PICK n, i, j, m, l : Shake(y, s, n, i, j, m, l)
      BY <2>2 DEF Shaking
    <3>2. OfAccept(s, k, y, n, i, j)
      BY <1>1, <1>2, <1>3, <3>1, TaskOfAccept
    <3> QED
      BY <3>2 DEF OfAccept
  <2> QED
    BY <1>2, <2>1, <2>2
<1> QED
  BY <1>4 DEF Rejected

\* The state after a task, and the frames behind those already sent.
Resumes(s, d, Q, S) ==
  /\ client'[s] = d /\ toClient'[s] = toClient[s] /\ Q = toServer[s] /\ toServer'[s] = S
  /\ \A x \in Sockets : x # s => /\ client'[x] = client[x] /\ toServer'[x] = toServer[x]
                                 /\ toClient'[x] = toClient[x]
  /\ Queue(Q) /\ Outbox(Q) /\ UNCHANGED <<room, handler, overlapped>>

LEMMA ResumedIs ==
  ASSUME Meeting, ListTypes, NEW s \in Sockets, net[s] = "open", NEW d, NEW msgs,
         Resumed(s, d, msgs), NEW Q, Q = toServer[s]
  PROVE  Resumes(s, d, Q, Q \o msgs)
<1>1. Queue(Q)
  BY ClientBefore DEF QueueTypes
<1>2. /\ client'[s] = d /\ \A x \in Sockets : x # s => client'[x] = client[x]
  BY ClientBefore DEF Resumed, SetClient
<1>3. toServer' = [toServer EXCEPT ![s] = Q \o msgs]
  BY DEF Resumed, Sent
<1>4. toServer'[s] = Q \o msgs /\ \A x \in Sockets : x # s => toServer'[x] = toServer[x]
  BY <1>3 DEF ListTypes, AreFunctions
<1>5. UNCHANGED <<toClient, room, handler, overlapped>>
  BY DEF Resumed
<1> QED
  BY <1>1, <1>2, <1>4, <1>5, SessionBefore DEF Resumes

LEMMA ResumesKeeps ==
  ASSUME Meeting, NEW s \in Sockets, NEW d, NEW Q, NEW S, Resumes(s, d, Q, S),
         Hook(d), Looping(d) => Looping(client[s]), Outbox(S),
         \A u \in Users : \/ /\ Kept(client[s], d, u) /\ (Waiting(d, u) <=> Waiting(client[s], u))
                             /\ Carries(Q, S, "to", u)
                          \/ Moves(s, u)
  PROVE  Meeting'
<1>1. Hook(client[s]) /\ Inbox(client[s], toClient[s])
  BY SessionBefore
<1>2. Inbox(d, toClient[s])
  BY <1>1 DEF Inbox
<1>3. Session(s)'
  BY <1>2 DEF Session, Meeting, Resumes
<1>4. \A u \in Users : Untouched(s, u) \/ Moves(s, u)
  BY CarriesItself DEF Untouched, Unmoved, Resumes
<1> QED
  BY <1>3, <1>4, ClientMoves DEF Resumes

\* A description is sent, and the candidates after it if they are followed.
Describes(Q, S, kind, u, s, i) ==
  /\ Outbox(S)
  /\ \A v : v # u => Carries(Q, S, "to", v)
  /\ None(Q, kind, "to", u) => One(S, kind, "to", u, <<s, i>>)
  /\ \A other \in {"offer", "answer"} : other # kind /\ None(Q, other, "to", u) =>
       None(S, other, "to", u)
  /\ s \in Gathering /\ None(Q, "ice-candidate", "to", u) =>
       One(S, "ice-candidate", "to", u, <<s, i>>)
  /\ s \notin Gathering /\ None(Q, "ice-candidate", "to", u) => None(S, "ice-candidate", "to", u)

LEMMA DescriptionSent ==
  ASSUME NEW Q, Queue(Q), Outbox(Q), NEW kind \in {"offer", "answer"}, NEW s, NEW i,
         NEW u \in Users, u = client[s].pcs[i].user, NEW S, S = Q \o Description(kind, s, i)
  PROVE  Describes(Q, S, kind, u, s, i)
<1>1. PICK a, b : /\ a = [type |-> kind, to |-> u, sdp |-> <<s, i>>]
                  /\ b = [type |-> "ice-candidate", to |-> u, sdp |-> <<s, i>>]
  OBVIOUS
<1>2. Description(kind, s, i) = IF s \in Gathering THEN <<a, b>> ELSE <<a>>
  BY <1>1 DEF Description
<1>3. /\ Is(a, kind, "to", u) /\ a.sdp = <<s, i>> /\ a.to = u /\ b.to = u
      /\ Is(b, "ice-candidate", "to", u) /\ b.sdp = <<s, i>>
  BY <1>1 DEF Is
<1>4. PICK T : T = Append(Q, a)
  OBVIOUS
<1>5. Queue(T) /\ Outbox(T) /\ Put(Q, T, <<s, i>>, kind, "to", u)
  <2>1. Queue(T)
    BY <1>3, <1>4, QueueAppend
  <2>2. Outbox(T)
    BY <1>3, <1>4, OutboxAppend
  <2>3. Put(Q, T, <<s, i>>, kind, "to", u)
    BY <1>3, <1>4, SignalPut
  <2> QED
    BY <2>1, <2>2, <2>3
<1>6. \A v : v # u => Carries(Q, T, "to", v)
  <2> SUFFICES ASSUME NEW v, v # u PROVE Carries(Q, T, "to", v)
    OBVIOUS
  <2>1. a["to"] # v
    BY <1>3
  <2> QED
    BY <1>4, <2>1, CarriesAppend
<1>7. CASE s \notin Gathering
  <2>1. S = T
    BY <1>2, <1>4, <1>7, SendOne
  <2> QED
    BY <1>5, <1>6, <1>7, <2>1 DEF Describes, Put
<1>8. CASE s \in Gathering
  <2>1. S = Append(T, b)
    BY <1>2, <1>4, <1>8, SendTwo
  <2>2. Outbox(S) /\ Put(T, S, <<s, i>>, "ice-candidate", "to", u)
    BY <1>3, <1>5, <2>1, OutboxAppend, SignalPut
  <2>3. \A v : v # u => Carries(T, S, "to", v)
    <3> SUFFICES ASSUME NEW v, v # u PROVE Carries(T, S, "to", v)
      OBVIOUS
    <3>1. b["to"] # v
      BY <1>3
    <3> QED
      BY <1>5, <2>1, <3>1, CarriesAppend
  <2>4. \A v : v # u => Carries(Q, S, "to", v)
    BY <1>6, <2>3, CarriesTwice
  <2> QED
    BY <1>5, <1>8, <2>2, <2>4 DEF Describes, Put
<1> QED
  BY <1>7, <1>8

\* Nothing is sent.
LEMMA NothingSent ==
  ASSUME NEW s, NEW d, NEW Q, Resumes(s, d, Q, Q \o << >>)
  PROVE  Resumes(s, d, Q, Q) /\ Outbox(Q)
BY SendNothing DEF Resumes

SigIs(c, i, sig, d) ==
  \E p : /\ SetTo(c, i, p, d) /\ p.sig = sig
         /\ p.remote = c.pcs[i].remote /\ p.heard = c.pcs[i].heard

\* One field of a connection is set.
LEMMA SigSet ==
  ASSUME NEW c, Hook(c), NEW i \in 1..Len(c.pcs), NEW sig, NEW d, d = [c EXCEPT !.pcs[i].sig = sig]
  PROVE  SigIs(c, i, sig, d)
<1>1. PICK p : p = [c.pcs[i] EXCEPT !.sig = sig]
  OBVIOUS
<1>2. IsConnection(c.pcs[i])
  BY DEF Hook
<1>3. /\ IsConnection(p) /\ p.user = c.pcs[i].user /\ p.sig = sig
      /\ p.remote = c.pcs[i].remote /\ p.heard = c.pcs[i].heard
  BY <1>1, <1>2 DEF IsConnection, ConnectionFields
<1>4. d = [c EXCEPT !.pcs = [@ EXCEPT ![i] = p]]
  BY <1>1
<1>5. SetTo(c, i, p, d)
  BY <1>3, <1>4, ConnectionSet
<1> QED
  BY <1>3, <1>5 DEF SigIs

\* The answer is made: 7 becomes 8, and the receiver's candidates are sent.
LEMMA ReplyMoves ==
  ASSUME Meeting, InTouch, ListTypes, NEW s \in Sockets, NEW k \in client[s].tasks, Reply(s, k)
  PROVE  Meeting'
<1>1. PICK c, Q, R, u, a, d, S :
        /\ c = client[s] /\ Q = toServer[s] /\ R = toClient[s] /\ u = c.pcs[k.pc].user
        /\ a = Without(c, k) /\ d = [a EXCEPT !.pcs[k.pc].sig = "stable"]
        /\ S = Q \o Description("answer", s, k.pc)
  OBVIOUS
<1>2. k.kind = "reply" /\ Resumed(s, d, Description("answer", s, k.pc))
  BY <1>1 DEF Reply, Usable
<1>3. /\ u \in Users /\ k.pc \in 1..Len(c.pcs) /\ ~Strange(s, u) /\ net[s] = "open"
  BY <1>1, TaskHasPartner
<1>4. Hook(c)
  BY <1>1, SessionBefore
<1>5. Resumes(s, d, Q, S)
  BY <1>1, <1>2, <1>3, ResumedIs
<1>6. Describes(Q, S, "answer", u, s, k.pc)
  <2>1. Queue(Q) /\ Outbox(Q)
    BY <1>5 DEF Resumes
  <2> QED
    BY <1>1, <1>3, <2>1, DescriptionSent
<1>7. Taken(c, k, a)
  BY <1>1, <1>4, TaskTaken
<1>8. Hook(a) /\ a.pcs = c.pcs /\ k.pc \in 1..Len(a.pcs) /\ a.pcs[k.pc].user = u
  BY <1>1, <1>3, <1>7 DEF Taken
<1>9. PICK p : /\ SetTo(a, k.pc, p, d) /\ p.sig = "stable" /\ p.remote = a.pcs[k.pc].remote
               /\ p.heard = a.pcs[k.pc].heard
  <2>1. SigIs(a, k.pc, "stable", d)
    BY <1>1, <1>8, SigSet
  <2> QED
    BY <2>1 DEF SigIs
<1>10. /\ Hook(d) /\ (Looping(d) => Looping(c)) /\ d.pending = c.pending
       /\ \A v, i : Line(d, v, i) <=> Line(c, v, i)
       /\ \A v : Waiting(d, v) <=> Waiting(c, v)
       /\ d.pcs[k.pc].sig = "stable" /\ d.pcs[k.pc].remote = c.pcs[k.pc].remote
       /\ d.pcs[k.pc].heard = c.pcs[k.pc].heard
  BY <1>2, <1>7, <1>9 DEF Taken, SetTo, Looping, Waiting
<1>11. TasksOf(c, k.pc) = {k} => TasksOf(d, k.pc) = {}
  BY <1>7, <1>9 DEF Taken, SetTo, TasksOf
<1>12. ASSUME NEW v \in Users, v # u
       PROVE  Kept(c, d, v) /\ Carries(Q, S, "to", v)
  <2>1. Kept(c, a, v) /\ Kept(a, d, v)
    BY <1>1, <1>7, <1>8, <1>9, <1>12 DEF Taken, SetTo
  <2> QED
    BY <1>6, <1>12, <2>1, KeptTwice DEF Describes
<1>13. ASSUME NEW y \in Sockets, y # s, Owner[y] = u
       PROVE  ~Shaking(s, y) /\ (Shaking(y, s) => Shaking(y, s)')
  <2>1. ASSUME NEW n, NEW i, NEW j, NEW m, NEW l, Shake(s, y, n, i, j, m, l)
        PROVE  FALSE
    <3>1. OfOffer(s, k, y, n, i, j)
      BY <1>1, <1>4, <1>13, <2>1, TaskOfOffer
    <3> QED
      BY <1>2, <3>1 DEF OfOffer
  <2>2. ASSUME NEW n, NEW i, NEW j, NEW m, NEW l, Shake(y, s, n, i, j, m, l)
        PROVE  Shaking(y, s)'
    <3>1. OfAccept(s, k, y, n, i, j)
      BY <1>1, <1>4, <1>13, <2>2, TaskOfAccept
    <3>2. n = 7 /\ j = k.pc /\ TasksOf(d, j) = {}
      BY <1>1, <1>2, <1>11, <3>1 DEF OfAccept
    <3>3. /\ Travels(y, s, n, m, l)
          /\ Offers(client[y], toServer[y], toClient[y], Owner[s], n, i, <<y, i>>, <<s, j>>, m, l)
          /\ Accepts(c, Q, R, u, n, j, <<s, j>>, <<y, i>>, m, l)
      BY <1>1, <1>13, <2>2 DEF Shake
    <3>4. PICK g : g = IF s \in Gathering THEN "up" ELSE "unsent"
      OBVIOUS
    <3>5. Travels(y, s, 8, m, g) /\ l = "unsent"
      BY <3>2, <3>3, <3>4 DEF Travels, Ways
    <3>6. Offers(client[y], toServer[y], toClient[y], Owner[s], 8, i, <<y, i>>, <<s, j>>, m, g)
      BY <3>2, <3>3, <3>4, <3>5 DEF Offers
    <3>7. /\ One(S, "answer", "to", u, <<s, j>>) /\ None(S, "offer", "to", u)
          /\ g = "up" => One(S, "ice-candidate", "to", u, <<s, j>>)
          /\ g # "up" => None(S, "ice-candidate", "to", u)
      BY <1>6, <3>2, <3>3, <3>4, <3>5 DEF Describes, Accepts
    <3>8. /\ Line(c, u, j) /\ j # 0 /\ c.pcs[j].remote = <<y, i>>
          /\ m = "there" => c.pcs[j].heard = TRUE
          /\ c.pending[u] = {} /\ ~Listed(R, u) /\ ~Waiting(c, u)
          /\ None(R, "offer", "from", u) /\ None(R, "answer", "from", u)
          /\ m = "down" => One(R, "ice-candidate", "from", u, <<y, i>>)
          /\ m # "down" => None(R, "ice-candidate", "from", u)
      BY <3>2, <3>3 DEF Accepts
    <3>9. Accepts(d, S, R, u, 8, j, <<s, j>>, <<y, i>>, m, g)
      BY <1>10, <3>2, <3>7, <3>8 DEF Accepts
    <3>10. Shake(y, s, 8, i, j, m, g)'
      BY <1>1, <1>5, <1>13, <3>5, <3>6, <3>9 DEF Shake, Resumes
    <3> QED
      BY <3>10 DEF Shaking
  <2> QED
    BY <2>1, <2>2 DEF Shaking
<1>14. Moves(s, u)
  BY <1>3, <1>13 DEF Moves
<1>15. Outbox(S)
  BY <1>6 DEF Describes
<1> QED
  BY <1>1, <1>5, <1>10, <1>12, <1>14, <1>15, ResumesKeeps

\* The offer is made: 3 becomes 4, and the loop goes to the next user: 2 becomes 3.
LEMMA OfferReadyMoves ==
  ASSUME Meeting, InTouch, ListTypes, NEW s \in Sockets, NEW k \in client[s].tasks,
         OfferReady(s, k)
  PROVE  Meeting'
<1>1. PICK c, Q, R, u, a, b, S, rest :
        /\ c = client[s] /\ Q = toServer[s] /\ R = toClient[s] /\ u = c.pcs[k.pc].user
        /\ a = Without(c, k) /\ b = [a EXCEPT !.pcs[k.pc].sig = "offering"]
        /\ S = Q \o Description("offer", s, k.pc) /\ rest = k.rest
  OBVIOUS
<1>2. PICK d \in OfferNext(b, rest) : Resumed(s, d, Description("offer", s, k.pc))
  BY <1>1 DEF OfferReady
<1>3. k.kind = "offer"
  BY DEF OfferReady, Usable
<1>4. /\ u \in Users /\ k.pc \in 1..Len(c.pcs) /\ ~Strange(s, u) /\ net[s] = "open"
      /\ \E y \in Sockets : y # s /\ Owner[y] = u /\ (Shaking(s, y) \/ Shaking(y, s))
  BY <1>1, TaskHasPartner
<1>5. Hook(c) /\ rest \in SUBSET Users
  BY <1>1, SessionBefore DEF Hook
<1>6. Resumes(s, d, Q, S)
  BY <1>1, <1>2, <1>4, ResumedIs
<1>7. Describes(Q, S, "offer", u, s, k.pc)
  <2>1. Queue(Q) /\ Outbox(Q)
    BY <1>6 DEF Resumes
  <2> QED
    BY <1>1, <1>4, <2>1, DescriptionSent
<1>8. Taken(c, k, a)
  BY <1>1, <1>5, TaskTaken
<1>9. /\ Hook(a) /\ a.pcs = c.pcs /\ k.pc \in 1..Len(a.pcs) /\ a.pcs[k.pc].user = u
      /\ ~Looping(a) /\ \A v : ~Waiting(a, v) /\ (Waiting(c, v) <=> v \in rest)
  BY <1>1, <1>3, <1>4, <1>8 DEF Taken
<1>10. PICK p : /\ SetTo(a, k.pc, p, b) /\ p.sig = "offering" /\ p.remote = a.pcs[k.pc].remote
                /\ p.heard = a.pcs[k.pc].heard
  <2>1. SigIs(a, k.pc, "offering", b)
    BY <1>1, <1>9, SigSet
  <2> QED
    BY <2>1 DEF SigIs
<1>11. /\ Hook(b) /\ ~Looping(b) /\ b.pending = c.pending
       /\ \A v, i : Line(b, v, i) <=> Line(c, v, i)
       /\ \A v : ~Waiting(b, v)
       /\ b.pcs[k.pc].sig = "offering" /\ b.pcs[k.pc].remote = c.pcs[k.pc].remote
  BY <1>8, <1>9, <1>10 DEF Taken, SetTo, Looping, Waiting
<1>12. TasksOf(c, k.pc) = {k} => TasksOf(b, k.pc) = {}
  BY <1>8, <1>10 DEF Taken, SetTo, TasksOf
<1>13. \A v \in Users : v # u => Kept(c, b, v) /\ Carries(Q, S, "to", v)
  <2> SUFFICES ASSUME NEW v \in Users, v # u
               PROVE  Kept(c, b, v) /\ Carries(Q, S, "to", v)
    OBVIOUS
  <2>1. Kept(c, a, v) /\ Kept(a, b, v)
    BY <1>1, <1>8, <1>9, <1>10 DEF Taken, SetTo
  <2> QED
    BY <1>7, <2>1, KeptTwice DEF Describes
<1>14. PICK W \in SUBSET rest :
         /\ Hook(d) /\ \A v \in Users : v \notin W => Kept(b, d, v)
         /\ \A v : Waiting(d, v) <=> v \in rest /\ v \notin W
         /\ \A v \in W : \E h : Offered(b, rest, v, h, d)
  <2>1. CASE rest = {}
    <3>1. d = b
      BY <1>2, <2>1 DEF OfferNext
    <3>2. PICK e : e = {}
      OBVIOUS
    <3>3. e \in SUBSET rest /\ \A v : v \notin e
      BY <3>2
    <3>4. /\ Hook(d) /\ \A v \in Users : v \notin e => Kept(b, d, v)
          /\ \A v : Waiting(d, v) <=> v \in rest /\ v \notin e
          /\ \A v \in e : \E h : Offered(b, rest, v, h, d)
      BY <1>11, <2>1, <3>1, <3>3, KeepsItself
    <3> QED
      BY <3>3, <3>4
  <2>2. CASE rest # {}
    <3>1. PICK w \in rest : \E h : Offered(b, rest, w, h, d)
      BY <1>2, <1>5, <1>11, <2>2, NextIsOffered
    <3>2. PICK h : Offered(b, rest, w, h, d)
      BY <3>1
    <3>3. /\ Hook(d) /\ \A v \in Users : v \notin {w} => Kept(b, d, v)
          /\ \A v : Waiting(d, v) <=> v \in rest /\ v \notin {w}
      BY <3>2 DEF Offered
    <3> QED
      BY <3>1, <3>3
  <2> QED
    BY <2>1, <2>2
<1>15. ASSUME NEW y \in Sockets, y # s, Owner[y] = u
       PROVE  ~Shaking(y, s)
  <2>1. ASSUME NEW n, NEW i, NEW j, NEW m, NEW l, Shake(y, s, n, i, j, m, l)
        PROVE  FALSE
    <3>1. OfAccept(s, k, y, n, i, j)
      BY <1>1, <1>5, <1>15, <2>1, TaskOfAccept
    <3> QED
      BY <1>3, <3>1 DEF OfAccept
  <2> QED
    BY <2>1 DEF Shaking
<1>16. ASSUME NEW y \in Sockets, y # s, Owner[y] = u,
              NEW n, NEW i, NEW j, NEW m, NEW l, Shake(s, y, n, i, j, m, l)
       PROVE  /\ n = 3 /\ i = k.pc /\ TasksOf(b, i) = {} /\ ~Waiting(c, u)
              /\ Travels(s, y, n, m, l)
              /\ Offers(c, Q, R, u, n, i, <<s, i>>, <<y, j>>, m, l)
              /\ Accepts(client[y], toServer[y], toClient[y], Owner[s], n, j, <<y, j>>, <<s, i>>,
                         m, l)
  <2>1. OfOffer(s, k, y, n, i, j)
    BY <1>1, <1>5, <1>16, TaskOfOffer
  <2>2. n = 3 /\ i = k.pc /\ TasksOf(b, i) = {}
    BY <1>1, <1>3, <1>12, <2>1 DEF OfOffer
  <2>3. /\ Travels(s, y, n, m, l)
        /\ Offers(c, Q, R, u, n, i, <<s, i>>, <<y, j>>, m, l)
        /\ Accepts(client[y], toServer[y], toClient[y], Owner[s], n, j, <<y, j>>, <<s, i>>, m, l)
    BY <1>1, <1>16 DEF Shake
  <2>4. ~Waiting(c, u)
    BY <2>2, <2>3 DEF Offers
  <2> QED
    BY <2>2, <2>3, <2>4
<1>17. u \notin rest /\ u \notin W /\ ~Waiting(c, u) /\ ~Waiting(d, u) /\ Kept(b, d, u)
  <2>1. PICK y \in Sockets : y # s /\ Owner[y] = u /\ Shaking(s, y)
    BY <1>4, <1>15
  <2>2. ~Waiting(c, u)
    BY <1>16, <2>1 DEF Shaking
  <2>3. u \notin rest
    BY <1>9, <2>2
  <2> QED
    BY <1>4, <1>14, <2>2, <2>3
<1>18. ASSUME NEW y \in Sockets, y # s, Owner[y] = u, Shaking(s, y)
       PROVE  Shaking(s, y)'
  <2>1. PICK n, i, j, m, l : Shake(s, y, n, i, j, m, l)
    BY <1>18 DEF Shaking
  <2>2. /\ n = 3 /\ i = k.pc /\ TasksOf(b, i) = {} /\ ~Waiting(c, u)
        /\ Travels(s, y, n, m, l)
        /\ Offers(c, Q, R, u, n, i, <<s, i>>, <<y, j>>, m, l)
        /\ Accepts(client[y], toServer[y], toClient[y], Owner[s], n, j, <<y, j>>, <<s, i>>, m, l)
    BY <1>16, <1>18, <2>1
  <2>3. PICK g : g = IF s \in Gathering THEN "up" ELSE "unsent"
    OBVIOUS
  <2>4. Travels(s, y, 4, g, l) /\ m = "unsent" /\ l = "unsent"
    BY <2>2, <2>3 DEF Travels, Ways
  <2>5. Accepts(client[y], toServer[y], toClient[y], Owner[s], 4, j, <<y, j>>, <<s, i>>, g, l)
    BY <2>2, <2>3, <2>4 DEF Accepts
  <2>6. /\ Line(c, u, i) /\ i # 0 /\ c.pcs[i].remote = NoSdp /\ c.pending[u] = {}
        /\ ~Listed(R, u) /\ None(Q, "offer", "to", u) /\ None(Q, "answer", "to", u)
        /\ None(Q, "ice-candidate", "to", u)
        /\ None(R, "offer", "from", u) /\ None(R, "answer", "from", u)
        /\ None(R, "ice-candidate", "from", u)
    BY <2>2, <2>4 DEF Offers
  <2>7. /\ One(S, "offer", "to", u, <<s, i>>) /\ None(S, "answer", "to", u)
        /\ g = "up" => One(S, "ice-candidate", "to", u, <<s, i>>)
        /\ g # "up" => None(S, "ice-candidate", "to", u)
    BY <1>7, <2>2, <2>3, <2>6 DEF Describes
  <2>8. /\ Line(d, u, i) /\ d.pcs[i].sig = "offering" /\ d.pcs[i].remote = NoSdp
        /\ TasksOf(d, i) = {} /\ d.pending[u] = {}
    BY <1>11, <1>17, <2>2, <2>6 DEF Kept
  <2>9. Offers(d, S, R, u, 4, i, <<s, i>>, <<y, j>>, g, l)
    BY <1>17, <2>3, <2>4, <2>6, <2>7, <2>8 DEF Offers
  <2>10. Shake(s, y, 4, i, j, g, l)'
    BY <1>1, <1>6, <1>18, <2>4, <2>5, <2>9 DEF Shake, Resumes
  <2> QED
    BY <2>10 DEF Shaking
<1>19. Moves(s, u)
  BY <1>4, <1>15, <1>18 DEF Moves
<1>20. ASSUME NEW v \in W
       PROVE  Moves(s, v)
  <2>1. v \in Users /\ v \in rest /\ v # u /\ Waiting(c, v)
    BY <1>5, <1>9, <1>17
  <2>2. PICK h : Offered(b, rest, v, h, d)
    BY <1>14
  <2>3. ~Strange(s, v)
    BY <1>1, <2>1 DEF Strange, Stranger
  <2>4. ASSUME NEW y \in Sockets, y # s, Owner[y] = v, Shaking(y, s)
        PROVE  FALSE
    <3>1. PICK n, i, j, m, l : Shake(y, s, n, i, j, m, l)
      BY <2>4 DEF Shaking
    <3> QED
      BY <1>1, <2>1, <2>4, <3>1 DEF Shake, Accepts
  <2>5. ASSUME NEW y \in Sockets, y # s, Owner[y] = v, Shaking(s, y)
        PROVE  Shaking(s, y)'
    <3>1. PICK n, i, j, m, l : Shake(s, y, n, i, j, m, l)
      BY <2>5 DEF Shaking
    <3>2. /\ Travels(s, y, n, m, l)
          /\ Offers(c, Q, R, v, n, i, <<s, i>>, <<y, j>>, m, l)
          /\ Accepts(client[y], toServer[y], toClient[y], Owner[s], n, j, <<y, j>>, <<s, i>>, m, l)
      BY <1>1, <2>5, <3>1 DEF Shake
    <3>3. n = 2 /\ m = "unsent" /\ l = "unsent"
      BY <2>1, <3>2 DEF Offers, Travels
    <3>4. /\ ~Listed(R, v) /\ Line(c, v, 0) /\ c.pending[v] = {}
          /\ None(Q, "offer", "to", v) /\ None(Q, "answer", "to", v)
          /\ None(Q, "ice-candidate", "to", v)
          /\ None(R, "offer", "from", v) /\ None(R, "answer", "from", v)
          /\ None(R, "ice-candidate", "from", v)
      BY <3>2, <3>3 DEF Offers
    <3>5. /\ None(S, "offer", "to", v) /\ None(S, "answer", "to", v)
          /\ None(S, "ice-candidate", "to", v)
      BY <1>13, <2>1, <3>4, SignalKinds DEF Carries
    <3>6. /\ Line(d, v, h) /\ h # 0 /\ ~Waiting(d, v) /\ d.pending[v] = {}
          /\ d.pcs[h].sig = "new" /\ d.pcs[h].remote = NoSdp
          /\ \E g \in d.tasks : g.kind = "offer" /\ TasksOf(d, h) = {g}
      BY <1>11, <2>2, <3>4 DEF Offered
    <3>7. Offers(d, S, R, v, 3, h, <<s, h>>, <<y, j>>, m, l)
      BY <3>3, <3>4, <3>5, <3>6 DEF Offers
    <3>8. Accepts(client[y], toServer[y], toClient[y], Owner[s], 3, j, <<y, j>>, <<s, h>>, m, l)
      BY <3>2, <3>3 DEF Accepts
    <3>9. Travels(s, y, 3, m, l)
      BY <3>2, <3>3 DEF Travels
    <3>10. Shake(s, y, 3, h, j, m, l)'
      BY <1>1, <1>6, <2>5, <3>7, <3>8, <3>9 DEF Shake, Resumes
    <3> QED
      BY <3>10 DEF Shaking
  <2> QED
    BY <2>3, <2>4, <2>5 DEF Moves
<1>21. ASSUME NEW v \in Users, v # u, v \notin W
       PROVE  Kept(c, d, v) /\ (Waiting(d, v) <=> Waiting(c, v)) /\ Carries(Q, S, "to", v)
  <2>1. Kept(c, b, v) /\ Kept(b, d, v) /\ Carries(Q, S, "to", v)
    BY <1>13, <1>14, <1>21
  <2>2. Waiting(d, v) <=> Waiting(c, v)
    BY <1>9, <1>14, <1>21
  <2> QED
    BY <2>1, <2>2, KeptTwice
<1>22. Outbox(S) /\ Hook(d) /\ Looping(client[s])
  BY <1>3, <1>7, <1>14 DEF Describes, Looping
<1> QED
  BY <1>1, <1>6, <1>19, <1>20, <1>21, <1>22, ResumesKeeps

\* The description of the other side is set, and its candidates are given.
RemoteIs(c, i, u, sig, sdp, d) ==
  /\ Hook(d) /\ d.tasks = c.tasks /\ i \in 1..Len(d.pcs) /\ d.pcs[i].user = u
  /\ \A v, j : Line(d, v, j) <=> Line(c, v, j)
  /\ \A v \in Users : v # u => Kept(c, d, v)
  /\ d.pending[u] = {} /\ d.pcs[i].sig = sig /\ d.pcs[i].remote = sdp
  /\ sdp \in c.pending[u] => d.pcs[i].heard = TRUE

LEMMA RemoteSet ==
  ASSUME NEW c, Hook(c), NEW i \in 1..Len(c.pcs), NEW u \in Users, u = c.pcs[i].user,
         NEW sig, NEW sdp, NEW d,
         d = [c EXCEPT !.pcs[i].sig = sig, !.pcs[i].remote = sdp,
                       !.pcs[i].heard = sdp \in c.pending[u], !.pending[u] = {}]
  PROVE  RemoteIs(c, i, u, sig, sdp, d)
<1>1. PICK h : h = (sdp \in c.pending[u])
  OBVIOUS
<1>2. sdp \in c.pending[u] => h = TRUE
  BY <1>1, Zenon
<1>3. PICK p : p = [c.pcs[i] EXCEPT !.sig = sig]
  OBVIOUS
<1>4. PICK q : q = [p EXCEPT !.remote = sdp]
  OBVIOUS
<1>5. PICK r : r = [q EXCEPT !.heard = h]
  OBVIOUS
<1>6. IsConnection(c.pcs[i])
  BY DEF Hook
<1>7. IsConnection(p) /\ p.user = u /\ p.sig = sig
  BY <1>3, <1>6 DEF IsConnection, ConnectionFields
<1>8. IsConnection(q) /\ q.user = u /\ q.sig = sig /\ q.remote = sdp
  BY <1>4, <1>7 DEF IsConnection, ConnectionFields
<1>9. IsConnection(r) /\ r.user = u /\ r.sig = sig /\ r.remote = sdp /\ r.heard = h
  BY <1>5, <1>8 DEF IsConnection, ConnectionFields
<1>10. PICK x : x = [c EXCEPT !.pcs[i].sig = sig]
  OBVIOUS
<1>11. SetTo(c, i, p, x)
  <2>1. x = [c EXCEPT !.pcs = [@ EXCEPT ![i] = p]]
    BY <1>3, <1>10
  <2> QED
    BY <1>7, <2>1, ConnectionSet
<1>12. PICK y : y = [x EXCEPT !.pcs[i].remote = sdp]
  OBVIOUS
<1>13. SetTo(x, i, q, y)
  <2>1. Hook(x) /\ i \in 1..Len(x.pcs) /\ x.pcs[i] = p
    BY <1>11 DEF SetTo
  <2>2. y = [x EXCEPT !.pcs = [@ EXCEPT ![i] = q]]
    BY <1>4, <1>12, <2>1
  <2> QED
    BY <1>7, <1>8, <2>1, <2>2, ConnectionSet
<1>14. PICK z : z = [y EXCEPT !.pcs[i].heard = h]
  OBVIOUS
<1>15. SetTo(y, i, r, z)
  <2>1. Hook(y) /\ i \in 1..Len(y.pcs) /\ y.pcs[i] = q
    BY <1>11, <1>13 DEF SetTo
  <2>2. z = [y EXCEPT !.pcs = [@ EXCEPT ![i] = r]]
    BY <1>5, <1>14, <2>1
  <2> QED
    BY <1>8, <1>9, <2>1, <2>2, ConnectionSet
<1>16. d = [z EXCEPT !.pending = [@ EXCEPT ![u] = {}]]
  BY <1>1, <1>10, <1>12, <1>14
<1>17. PendingIs(z, u, {}, d)
  <2>1. Hook(z)
    BY <1>15 DEF SetTo
  <2> QED
    BY <1>16, <2>1, PendingSet
<1>18. \A v \in Users : v # u => Kept(c, d, v)
  <2> SUFFICES ASSUME NEW v \in Users, v # u PROVE Kept(c, d, v)
    OBVIOUS
  <2>1. Kept(c, x, v) /\ Kept(x, y, v)
    BY <1>7, <1>11, <1>13 DEF SetTo
  <2>2. Kept(y, z, v) /\ Kept(z, d, v)
    BY <1>8, <1>11, <1>13, <1>15, <1>17 DEF SetTo, PendingIs
  <2> QED
    BY <2>1, <2>2, KeptTwice
<1>19. \A v, j : Line(d, v, j) <=> Line(c, v, j)
  BY <1>11, <1>13, <1>15, <1>17 DEF SetTo, PendingIs
<1>20. /\ Hook(d) /\ d.tasks = c.tasks /\ d.pcs[i] = r /\ Len(d.pcs) = Len(c.pcs)
       /\ d.pending[u] = {}
  BY <1>11, <1>13, <1>15, <1>17 DEF SetTo, PendingIs
<1> QED
  BY <1>2, <1>9, <1>18, <1>19, <1>20 DEF RemoteIs

\* The offer is set: 6 becomes 7.
LEMMA AcceptOfferMoves ==
  ASSUME Meeting, InTouch, ListTypes, NEW s \in Sockets, NEW k \in client[s].tasks,
         AcceptOffer(s, k)
  PROVE  Meeting'
<1>1. PICK c, Q, R, u, a :
        /\ c = client[s] /\ Q = toServer[s] /\ R = toClient[s] /\ u = c.pcs[k.pc].user
        /\ a = Without(c, k)
  OBVIOUS
<1>2. PICK b :
          b = [a EXCEPT !.pcs[k.pc].sig = "accepting", !.pcs[k.pc].remote = k.sdp,
                         !.pcs[k.pc].heard = k.sdp \in a.pending[u], !.pending[u] = {}]
  OBVIOUS
<1>3. PICK d : d = WithTask(b, "reply", k.pc, NoSdp, {})
  OBVIOUS
<1>4. k.kind = "accept"
  BY DEF AcceptOffer, Usable
<1>5. /\ u \in Users /\ k.pc \in 1..Len(c.pcs) /\ ~Strange(s, u) /\ net[s] = "open"
      /\ \E y \in Sockets : y # s /\ Owner[y] = u /\ (Shaking(s, y) \/ Shaking(y, s))
  BY <1>1, TaskHasPartner
<1>6. Hook(c)
  BY <1>1, SessionBefore
<1>7. Taken(c, k, a)
  BY <1>1, <1>6, TaskTaken
<1>8. Hook(a) /\ a.pcs = c.pcs /\ k.pc \in 1..Len(a.pcs) /\ a.pcs[k.pc].user = u
  BY <1>1, <1>5, <1>7 DEF Taken
<1>9. RemoteIs(a, k.pc, u, "accepting", k.sdp, b)
  BY <1>2, <1>5, <1>8, RemoteSet
<1>10. Added(b, "reply", k.pc, NoSdp, {}, d)
  <2>1. Hook(b) /\ k.pc \in 1..Len(b.pcs) /\ {} \in SUBSET Users
    BY <1>9 DEF RemoteIs
  <2> QED
    BY <1>3, <2>1, TaskAdded
<1>11. ASSUME NEW y \in Sockets, y # s, Owner[y] = u
      PROVE  ~Shaking(s, y)
  <2>1. ASSUME NEW n, NEW i, NEW j, NEW m, NEW l, Shake(s, y, n, i, j, m, l)
        PROVE  FALSE
    <3>1. OfOffer(s, k, y, n, i, j)
      BY <1>1, <1>6, <1>11, <2>1, TaskOfOffer
    <3> QED
      BY <1>4, <3>1 DEF OfOffer
  <2> QED
    BY <2>1 DEF Shaking
<1>12. a.pending[u] \ {k.sdp} = {}
  <2>1. PICK y \in Sockets : y # s /\ Owner[y] = u /\ Shaking(y, s)
    BY <1>5, <1>11
  <2>2. PICK n, i, j, m, l : Shake(y, s, n, i, j, m, l)
    BY <2>1 DEF Shaking
  <2>3. OfAccept(s, k, y, n, i, j) /\ Accepts(c, Q, R, u, n, j, <<s, j>>, <<y, i>>, m, l)
    BY <1>1, <1>6, <2>1, <2>2, TaskOfAccept DEF Shake
  <2>4. n = 6 /\ k.sdp = <<y, i>>
    BY <1>4, <2>3 DEF OfAccept
  <2>5. c.pending[u] \subseteq {k.sdp}
    BY <2>3, <2>4 DEF Accepts
  <2>6. a.pending = c.pending
    BY <1>7 DEF Taken
  <2> QED
    BY <2>6, <2>5
<1>13. Resumed(s, d, << >>)
  <2>1. Described(s, k, "accepting", TRUE)
    BY DEF AcceptOffer
  <2>2. a.pcs[k.pc].user = u
    BY <1>8
  <2> QED
    BY <1>2, <1>1, <1>12, <1>3, <2>1, <2>2 DEF Described
<1>14. Resumes(s, d, Q, Q) /\ Outbox(Q)
  BY <1>1, <1>5, <1>13, ResumedIs, NothingSent
<1>15. /\ Hook(d) /\ (Looping(d) => Looping(c)) /\ d.pending[u] = {}
       /\ \A v, i : Line(d, v, i) <=> Line(c, v, i)
       /\ \A v : Waiting(d, v) <=> Waiting(c, v)
       /\ d.pcs[k.pc].sig = "accepting" /\ d.pcs[k.pc].remote = k.sdp
       /\ k.sdp \in c.pending[u] => d.pcs[k.pc].heard = TRUE
  BY <1>4, <1>7, <1>9, <1>10 DEF Taken, RemoteIs, Added, Looping, Waiting
<1>16. TasksOf(c, k.pc) = {k} => TasksOf(d, k.pc) = {TaskOf("reply", k.pc, NoSdp, {})}
  <2>1. TasksOf(c, k.pc) = {k} => TasksOf(b, k.pc) = {}
    BY <1>7, <1>9 DEF Taken, RemoteIs, TasksOf
  <2> QED
    BY <1>10, <2>1 DEF Added
<1>17. ASSUME NEW v \in Users, v # u
       PROVE  Kept(c, d, v) /\ Carries(Q, Q, "to", v)
  <2>1. Kept(c, a, v) /\ Kept(a, b, v)
    BY <1>1, <1>7, <1>9, <1>17 DEF Taken, RemoteIs
  <2>2. Kept(b, d, v)
    BY <1>9, <1>10, <1>17 DEF Added, RemoteIs
  <2> QED
    BY <2>1, <2>2, KeptTwice, CarriesItself
<1>18. ASSUME NEW y \in Sockets, y # s, Owner[y] = u, Shaking(y, s)
       PROVE  Shaking(y, s)'
  <2>1. PICK n, i, j, m, l : Shake(y, s, n, i, j, m, l)
    BY <1>18 DEF Shaking
  <2>2. OfAccept(s, k, y, n, i, j)
    BY <1>1, <1>6, <1>18, <2>1, TaskOfAccept
  <2>3. n = 6 /\ j = k.pc /\ k.sdp = <<y, i>>
    BY <1>1, <1>4, <2>2 DEF OfAccept
  <2>4. /\ n = 6 /\ j = k.pc /\ k.sdp = <<y, i>>
        /\ Travels(y, s, n, m, l)
        /\ Offers(client[y], toServer[y], toClient[y], Owner[s], n, i, <<y, i>>, <<s, j>>, m, l)
        /\ Accepts(c, Q, R, u, n, j, <<s, j>>, <<y, i>>, m, l)
    BY <1>1, <1>18, <2>1, <2>3 DEF Shake
  <2>5. TasksOf(d, j) = {TaskOf("reply", j, NoSdp, {})}
    BY <1>1, <1>16, <2>2 DEF OfAccept
  <2>6. Travels(y, s, 7, m, l) /\ l = "unsent"
    BY <2>4 DEF Travels, Ways
  <2>7. Offers(client[y], toServer[y], toClient[y], Owner[s], 7, i, <<y, i>>, <<s, j>>, m, l)
    BY <2>4, <2>6 DEF Offers
  <2>8. /\ Line(c, u, j) /\ j # 0 /\ ~Listed(R, u) /\ ~Waiting(c, u)
        /\ None(Q, "offer", "to", u) /\ None(Q, "answer", "to", u)
        /\ None(Q, "ice-candidate", "to", u)
        /\ None(R, "offer", "from", u) /\ None(R, "answer", "from", u)
        /\ m = "down" => One(R, "ice-candidate", "from", u, <<y, i>>)
        /\ m # "down" => None(R, "ice-candidate", "from", u)
    BY <2>4, <2>6 DEF Accepts
  <2>9. m = "there" => k.sdp \in c.pending[u]
    BY <2>4 DEF Accepts
  <2>10. m = "there" => d.pcs[j].heard = TRUE
    BY <1>15, <2>4, <2>9
  <2>11. /\ Line(d, u, j) /\ ~Waiting(d, u) /\ d.pending[u] = {}
        /\ d.pcs[j].sig = "accepting" /\ d.pcs[j].remote = <<y, i>>
    BY <1>15, <2>4, <2>8
  <2>12. Accepts(d, Q, R, u, 7, j, <<s, j>>, <<y, i>>, m, l)
    BY <2>6, <2>8, <2>10, <2>11, <2>5 DEF Accepts
  <2>13. Shake(y, s, 7, i, j, m, l)'
    BY <1>1, <1>14, <1>18, <2>6, <2>7, <2>12 DEF Shake, Resumes
  <2> QED
    BY <2>13 DEF Shaking
<1>19. Moves(s, u)
  BY <1>5, <1>11, <1>18 DEF Moves
<1> QED
  BY <1>1, <1>14, <1>15, <1>17, <1>19, ResumesKeeps

\* The answer is set: 10 becomes 11.
LEMMA AnsweredMoves ==
  ASSUME Meeting, InTouch, ListTypes, NEW s \in Sockets, NEW k \in client[s].tasks,
         Answered(s, k)
  PROVE  Meeting'
<1>1. PICK c, Q, R, u, a :
        /\ c = client[s] /\ Q = toServer[s] /\ R = toClient[s] /\ u = c.pcs[k.pc].user
        /\ a = Without(c, k)
  OBVIOUS
<1>2. PICK d :
        d = [a EXCEPT !.pcs[k.pc].sig = "stable", !.pcs[k.pc].remote = k.sdp,
                      !.pcs[k.pc].heard = k.sdp \in a.pending[u], !.pending[u] = {}]
  OBVIOUS
<1>3. k.kind = "answered"
  BY DEF Answered, Usable
<1>4. /\ u \in Users /\ k.pc \in 1..Len(c.pcs) /\ ~Strange(s, u) /\ net[s] = "open"
      /\ \E y \in Sockets : y # s /\ Owner[y] = u /\ (Shaking(s, y) \/ Shaking(y, s))
  BY <1>1, TaskHasPartner
<1>5. Hook(c)
  BY <1>1, SessionBefore
<1>6. Taken(c, k, a)
  BY <1>1, <1>5, TaskTaken
<1>7. Hook(a) /\ a.pcs = c.pcs /\ k.pc \in 1..Len(a.pcs) /\ a.pcs[k.pc].user = u
  BY <1>1, <1>4, <1>6 DEF Taken
<1>8. RemoteIs(a, k.pc, u, "stable", k.sdp, d)
  BY <1>2, <1>4, <1>7, RemoteSet
<1>9. ASSUME NEW y \in Sockets, y # s, Owner[y] = u
      PROVE  ~Shaking(y, s)
  <2>1. ASSUME NEW n, NEW i, NEW j, NEW m, NEW l, Shake(y, s, n, i, j, m, l)
        PROVE  FALSE
    <3>1. OfAccept(s, k, y, n, i, j)
      BY <1>1, <1>5, <1>9, <2>1, TaskOfAccept
    <3> QED
      BY <1>3, <3>1 DEF OfAccept
  <2> QED
    BY <2>1 DEF Shaking
<1>10. a.pending[u] \ {k.sdp} = {}
  <2>1. PICK y \in Sockets : y # s /\ Owner[y] = u /\ Shaking(s, y)
    BY <1>4, <1>9
  <2>2. PICK n, i, j, m, l : Shake(s, y, n, i, j, m, l)
    BY <2>1 DEF Shaking
  <2>3. OfOffer(s, k, y, n, i, j) /\ Offers(c, Q, R, u, n, i, <<s, i>>, <<y, j>>, m, l)
    BY <1>1, <1>5, <2>1, <2>2, TaskOfOffer DEF Shake
  <2>4. n = 10 /\ k.sdp = <<y, j>>
    BY <1>3, <2>3 DEF OfOffer
  <2>5. c.pending[u] \subseteq {k.sdp}
    BY <2>3, <2>4 DEF Offers
  <2>6. a.pending = c.pending
    BY <1>6 DEF Taken
  <2> QED
    BY <2>5, <2>6
<1>11. Resumed(s, d, << >>)
  <2>1. Described(s, k, "stable", FALSE)
    BY DEF Answered
  <2>2. a.pcs[k.pc].user = u
    BY <1>7
  <2> QED
    BY <1>1, <1>2, <1>10, <2>1, <2>2 DEF Described
<1>12. Resumes(s, d, Q, Q) /\ Outbox(Q)
  BY <1>1, <1>4, <1>11, ResumedIs, NothingSent
<1>13. /\ Hook(d) /\ (Looping(d) => Looping(c)) /\ d.pending[u] = {}
       /\ \A v, i : Line(d, v, i) <=> Line(c, v, i)
       /\ \A v : Waiting(d, v) <=> Waiting(c, v)
       /\ d.pcs[k.pc].sig = "stable" /\ d.pcs[k.pc].remote = k.sdp
       /\ k.sdp \in c.pending[u] => d.pcs[k.pc].heard = TRUE
  BY <1>3, <1>6, <1>8 DEF Taken, RemoteIs, Looping, Waiting
<1>14. TasksOf(c, k.pc) = {k} => TasksOf(d, k.pc) = {}
  BY <1>6, <1>8 DEF Taken, RemoteIs, TasksOf
<1>15. ASSUME NEW v \in Users, v # u
       PROVE  Kept(c, d, v) /\ Carries(Q, Q, "to", v)
  <2>1. Kept(c, a, v) /\ Kept(a, d, v)
    BY <1>1, <1>6, <1>8, <1>15 DEF Taken, RemoteIs
  <2> QED
    BY <2>1, KeptTwice, CarriesItself
<1>16. ASSUME NEW y \in Sockets, y # s, Owner[y] = u, Shaking(s, y)
       PROVE  Shaking(s, y)'
  <2>1. PICK n, i, j, m, l : Shake(s, y, n, i, j, m, l)
    BY <1>16 DEF Shaking
  <2>2. OfOffer(s, k, y, n, i, j)
    BY <1>1, <1>5, <1>16, <2>1, TaskOfOffer
  <2>3. n = 10 /\ i = k.pc /\ k.sdp = <<y, j>>
    BY <1>1, <1>3, <2>2 DEF OfOffer
  <2>4. TasksOf(d, i) = {}
    BY <1>1, <1>14, <2>2 DEF OfOffer
  <2>5. /\ Travels(s, y, n, m, l)
        /\ Offers(c, Q, R, u, n, i, <<s, i>>, <<y, j>>, m, l)
        /\ Accepts(client[y], toServer[y], toClient[y], Owner[s], n, j, <<y, j>>, <<s, i>>, m, l)
    BY <1>1, <1>16, <2>1 DEF Shake
  <2>6. Travels(s, y, 11, m, l)
    BY <2>3, <2>5 DEF Travels
  <2>7. Accepts(client[y], toServer[y], toClient[y], Owner[s], 11, j, <<y, j>>, <<s, i>>, m, l)
    BY <2>3, <2>5 DEF Accepts
  <2>8. /\ Line(c, u, i) /\ i # 0 /\ ~Listed(R, u) /\ ~Waiting(c, u)
        /\ None(Q, "offer", "to", u) /\ None(Q, "answer", "to", u)
        /\ None(R, "offer", "from", u) /\ None(R, "answer", "from", u)
        /\ m = "up" => One(Q, "ice-candidate", "to", u, <<s, i>>)
        /\ m # "up" => None(Q, "ice-candidate", "to", u)
        /\ l = "down" => One(R, "ice-candidate", "from", u, <<y, j>>)
        /\ l # "down" => None(R, "ice-candidate", "from", u)
    BY <2>3, <2>5 DEF Offers
  <2>9. l = "there" => k.sdp \in c.pending[u]
    BY <2>3, <2>5 DEF Offers
  <2>10. l = "there" => d.pcs[i].heard = TRUE
    BY <1>13, <2>3, <2>9
  <2>11. /\ Line(d, u, i) /\ ~Waiting(d, u) /\ d.pending[u] = {}
         /\ d.pcs[i].sig = "stable" /\ d.pcs[i].remote = <<y, j>>
    BY <1>13, <2>3, <2>8
  <2>12. Offers(d, Q, R, u, 11, i, <<s, i>>, <<y, j>>, m, l)
    BY <2>4, <2>8, <2>10, <2>11 DEF Offers
  <2>13. Shake(s, y, 11, i, j, m, l)'
    BY <1>1, <1>12, <1>16, <2>6, <2>7, <2>12 DEF Shake, Resumes
  <2> QED
    BY <2>13 DEF Shaking
<1>17. Moves(s, u)
  BY <1>4, <1>9, <1>16 DEF Moves
<1> QED
  BY <1>1, <1>12, <1>13, <1>15, <1>17, ResumesKeeps

LEMMA TaskMoves ==
  ASSUME Meeting, InTouch, ListTypes, NEW s \in Sockets, Task(s)
  PROVE  Meeting'
<1>1. PICK k \in client[s].tasks : \/ Rejected(s, k) \/ OfferReady(s, k)
                                   \/ AcceptOffer(s, k) \/ Reply(s, k) \/ Answered(s, k)
  BY DEF Task
<1> QED
  BY <1>1, NothingIsRejected, OfferReadyMoves, AcceptOfferMoves, ReplyMoves, AnsweredMoves

-----------------------------------------------------------------------------
(* The user does something: nobody's session ends *)

LEMMA OpenedMoves ==
  ASSUME Meeting, ListTypes, NEW s \in Sockets, NEW muted, Opened(s, muted)
  PROVE  Meeting'
<1>1. PICK b : b = [client[s] EXCEPT !.phase = "open"]
  OBVIOUS
<1>2. PICK d : d = [b EXCEPT !.muted = muted]
  OBVIOUS
<1>3. SameConnections(client[s], b)
  BY <1>1, ClientBefore, OtherFieldsSet DEF ClientTypes
<1>4. SameConnections(b, d)
  BY <1>2, <1>3, OtherFieldsSet DEF SameConnections
<1>5. SameConnections(client[s], d) /\ SetClient(s, d)
  BY <1>1, <1>2, <1>3, <1>4, SameConnectionsTwice DEF Opened
<1>6. UNCHANGED <<toServer, toClient, room, handler, overlapped>>
  BY DEF Opened
<1> QED
  BY <1>5, <1>6, AsideStep

LEMMA ToggleMuteMoves ==
  ASSUME Meeting, ListTypes, NEW s \in Sockets, ToggleMute(s)
  PROVE  Meeting'
<1>1. PICK flag : flag = ~client[s].muted
  OBVIOUS
<1>2. PICK b : b = [client[s] EXCEPT !.muted = flag]
  OBVIOUS
<1>3. PICK d : d = [b EXCEPT !.toggled = TRUE]
  OBVIOUS
<1>4. PICK f : f = [type |-> "mute", muted |-> flag]
  OBVIOUS
<1>5. SameConnections(client[s], b)
  BY <1>2, ClientBefore, OtherFieldsSet DEF ClientTypes
<1>6. SameConnections(b, d)
  BY <1>3, <1>5, OtherFieldsSet DEF SameConnections
<1>7. SetClient(s, d)
  BY <1>1, <1>2, <1>3 DEF ToggleMute
<1>8. toServer' = [toServer EXCEPT ![s] = Append(toServer[s], f)]
  <2>1. toServer' = [toServer EXCEPT ![s] = toServer[s] \o <<f>>]
    BY <1>1, <1>4 DEF ToggleMute, Sent
  <2>2. toServer[s] \o <<f>> = Append(toServer[s], f)
    BY ClientBefore, SendOne DEF QueueTypes
  <2> QED
    BY <2>1, <2>2
<1>9. Aside(f)
  BY <1>4 DEF Aside, Relayed
<1>10. UNCHANGED <<toClient, room, handler, overlapped>>
  BY DEF ToggleMute
<1>11. SameConnections(client[s], d)
  BY <1>5, <1>6, SameConnectionsTwice
<1> QED
  BY <1>7, <1>8, <1>9, <1>10, <1>11, AsideStep

LEMMA UserMoves ==
  ASSUME Meeting, ListTypes, Steady', NEW s \in Sockets, UserStep(s)
  PROVE  Meeting'
<1>1. IsClient(client[s]) /\ net = [x \in Sockets |-> net[x]] /\ net'[s] # "gone"
  BY ClientBefore DEF ClientTypes, ListTypes, AreFunctions, Steady
<1>2. CASE Enter(s)
  <2>1. PICK d : d = [client[s] EXCEPT !.phase = "asking"]
    OBVIOUS
  <2>2. SameConnections(client[s], d) /\ SetClient(s, d)
    BY <1>1, <1>2, <2>1, OtherFieldsSet DEF Enter
  <2> QED
    BY <1>2, <2>2, AsideStep DEF Enter, serverVars
<1>3. CASE IceServersFail(s)
  <2>1. PICK d : d = [client[s] EXCEPT !.phase = "closed"]
    OBVIOUS
  <2>2. SameConnections(client[s], d) /\ SetClient(s, d)
    BY <1>1, <1>3, <2>1, OtherFieldsSet DEF IceServersFail
  <2> QED
    BY <1>3, <2>2, AsideStep DEF IceServersFail, serverVars
<1>4. CASE MicrophoneGranted(s)
  BY <1>4, OpenedMoves DEF MicrophoneGranted
<1>5. CASE MicrophoneRefused(s)
  BY <1>5, OpenedMoves DEF MicrophoneRefused
<1>6. CASE Leave(s)
  <2>1. net' # [net EXCEPT ![s] = "gone"]
    BY <1>1
  <2>2. PICK d : d = [client[s] EXCEPT !.left = TRUE]
    OBVIOUS
  <2>3. SetClient(s, d) /\ UNCHANGED serverVars
    BY <1>6, <2>1, <2>2 DEF Leave
  <2>4. SameConnections(client[s], d)
    BY <1>1, <2>2, OtherFieldsSet
  <2> QED
    BY <2>3, <2>4, AsideStep DEF serverVars
<1>7. CASE Drop(s)
  BY <1>1, <1>7 DEF Drop
<1>8. CASE ToggleMute(s)
  BY <1>8, ToggleMuteMoves
<1> QED
  BY <1>2, <1>3, <1>4, <1>5, <1>6, <1>7, <1>8 DEF UserStep

-----------------------------------------------------------------------------
(* The server does something that is not about connections *)

LEMMA QuietServerStep ==
  ASSUME Meeting, ListTypes, UNCHANGED <<client, overlapped>>,
         \A u \in Users : room'[u].ws = room[u].ws,
         \A x \in Sockets :
           /\ handler'[x].pc = "new" <=> handler[x].pc = "new"
           /\ handler'[x].pc = "broadcast" => handler'[x].msg.type # "peer-left"
           /\ \/ toServer'[x] = toServer[x]
              \/ /\ toServer[x] # << >> /\ Head(toServer[x]).type \notin Relayed
                 /\ toServer'[x] = Tail(toServer[x])
           /\ \/ toClient'[x] = toClient[x]
              \/ \E f : /\ Aside(f) /\ f.type # "peer-left"
                        /\ toClient'[x] = Append(toClient[x], f)
  PROVE  Meeting'
<1>1. ASSUME NEW x \in Sockets
      PROVE  Session(x)' /\ \A u \in Users : Untouched(x, u)
  <2>1. PICK C, Q, R, S, T : /\ C = client[x] /\ Q = toServer[x] /\ R = toClient[x]
                             /\ S = toServer'[x] /\ T = toClient'[x]
    OBVIOUS
  <2>2. Queue(Q) /\ Queue(R) /\ Hook(C) /\ Inbox(C, R) /\ Outbox(Q) /\ client'[x] = C
    BY <2>1, ClientBefore, SessionBefore DEF QueueTypes
  <2>3. Outbox(S) /\ \A u : Carries(Q, S, "to", u)
    <3>1. CASE S = Q
      BY <2>2, <3>1, CarriesItself
    <3>2. CASE Q # << >> /\ Head(Q).type \notin Relayed /\ S = Tail(Q)
      <4>1. \A u : Carries(Q, Tail(Q), "to", u)
        BY <2>2, <3>2, CarriesTail
      <4> QED
        BY <2>2, <3>2, <4>1, OutboxTail
    <3> QED
      BY <2>1, <3>1, <3>2
  <2>4. T = R \/ \E f : Aside(f) /\ f.type # "peer-left" /\ T = Append(R, f)
    BY <2>1
  <2>5. /\ Inbox(C, T) /\ \A u : Carries(R, T, "from", u) /\ (Listed(T, u) <=> Listed(R, u))
        /\ (\A i \in 1..Len(R) : R[i].type # "peers") => \A i \in 1..Len(T) : T[i].type # "peers"
    <3>1. CASE T = R
      BY <2>2, <3>1, CarriesItself
    <3>2. CASE \E f : Aside(f) /\ f.type # "peer-left" /\ T = Append(R, f)
      <4>1. PICK f : /\ f.type \notin Relayed /\ f.type # "peers" /\ f.type # "peer-left"
                     /\ T = Append(R, f)
        BY <3>2 DEF Aside
      <4>2. Inbox(C, T)
        BY <2>2, <4>1, InboxAppend
      <4>3. \A u : Carries(R, T, "from", u)
        BY <2>2, <4>1, CarriesAppend
      <4>4. \A u : Listed(T, u) <=> Listed(R, u)
        BY <2>2, <4>1, ListedAppend DEF Names
      <4>5. \A i \in 1..Len(T) : (i \in 1..Len(R) /\ T[i] = R[i]) \/ T[i] = f
        <5>1. /\ Len(T) = Len(R) + 1 /\ Len(R) \in Nat /\ T[Len(R) + 1] = f
              /\ \A i \in 1..Len(R) : T[i] = R[i]
          BY <2>2, <4>1, QueueAppend DEF Queue
        <5> QED
          BY <5>1
      <4> QED
        BY <4>1, <4>2, <4>3, <4>4, <4>5
    <3> QED
      BY <2>4, <3>1, <3>2
  <2>6. Session(x)'
    BY <2>1, <2>2, <2>3, <2>5 DEF Session, Meeting
  <2>7. \A u \in Users : Untouched(x, u)
    BY <2>1, <2>2, <2>3, <2>5, KeepsItself DEF Untouched, Unmoved
  <2> QED
    BY <2>6, <2>7
<1>2. \A x \in Sockets : Owner[x] \in Users
  BY OwnerAssumption
<1>3. \A x \in Sockets, u \in Users : Strange(x, u) => Strange(x, u)'
  BY <1>1, StrangeStays
<1>4. \A x \in Sockets, u \in Users :
        handler[x].pc = "new" \/ room[u].ws = NoSocket \/ u = Owner[x] => Strange(x, u)'
  BY <1>3 DEF Meeting
<1>5. \A x, y \in Sockets : Shaking(x, y) => Shaking(x, y)'
  BY <1>1, <1>2, ShakingStays
<1> QED
  BY <1>1, <1>4, <1>5, MeetingStays

LEMMA BroadcastSendMoves ==
  ASSUME Meeting, ListTypes, NEW s \in Sockets, BroadcastSend(s), UNCHANGED client
  PROVE  Meeting'
<1>1. PICK f, then : f = handler[s].msg /\ then = handler[s].then
  OBVIOUS
<1>2. PICK t \in handler[s].todo : \E h :
        /\ toClient' = Delivered(toClient, t, f)
        /\ h = Broadcasting(handler[s].todo \ {t}, f, then)
        /\ handler' = [handler EXCEPT ![s] = h]
  BY <1>1 DEF BroadcastSend
<1>3. PICK h : /\ h = Broadcasting(handler[s].todo \ {t}, f, then)
                /\ handler' = [handler EXCEPT ![s] = h]
  BY <1>2
<1>4. /\ f.type \in News /\ f.type # "peer-left" /\ ClientBound(f)
      /\ then \in {"serve", "ended"} /\ handler[s].pc = "broadcast"
  BY <1>1, ServerBefore DEF BroadcastTypes, BroadcastSend, Meeting, Session
<1>5. Aside(f)
  BY <1>4 DEF Aside, News, Relayed
<1>6. h.pc # "new" /\ (h.pc = "broadcast" => h.msg.type # "peer-left")
  BY <1>4, <1>3, BroadcastingIs
<1>7. handler'[s] = h /\ \A x \in Sockets : x # s => handler'[x] = handler[x]
  BY <1>3, ServerBefore
<1>8. \A x \in Sockets : toClient'[x] = toClient[x] \/ toClient'[x] = Append(toClient[x], f)
  BY <1>2, <1>4, Delivers
<1>9. UNCHANGED <<client, overlapped, toServer, room>>
  BY DEF BroadcastSend
<1>10. \A x \in Sockets : handler[x].pc = "broadcast" => handler[x].msg.type # "peer-left"
  BY DEF Meeting, Session
<1> QED
  BY <1>4, <1>5, <1>6, <1>7, <1>8, <1>9, <1>10, QuietServerStep

LEMMA MuteMoves ==
  ASSUME Meeting, ListTypes, NEW s \in Sockets, Receive(s), UNCHANGED client,
         Head(toServer[s]).type = "mute"
  PROVE  Meeting'
<1>1. Mute(s, Head(toServer[s])) /\ handler[s].pc = "serve" /\ toServer[s] # << >>
  BY DEF Receive
<1>2. PICK f, todo : f = [type |-> "mute-changed", user |-> Owner[s],
                         muted |-> Head(toServer[s]).muted] /\ todo = Targets(room, {Owner[s]})
  OBVIOUS
<1>3. PICK h : h = Broadcasting(todo, f, "serve")
  OBVIOUS
<1>4. handler' = [handler EXCEPT ![s] = h] /\ UNCHANGED <<toClient, client, overlapped>>
  BY <1>1, <1>2, <1>3 DEF Mute, Receive
<1>5. h.pc # "new" /\ (h.pc = "broadcast" => h.msg.type # "peer-left")
  <2>1. f.type # "peer-left"
    BY <1>2
  <2> QED
    BY <1>3, <2>1, BroadcastingIs
<1>6. handler'[s] = h /\ \A x \in Sockets : x # s => handler'[x] = handler[x]
  BY <1>4, ServerBefore
<1>7. \A u \in Users : room'[u].ws = room[u].ws
  <2>1. room = [u \in Users |-> room[u]]
    BY DEF ListTypes, AreFunctions
  <2> QED
    BY <1>1, <2>1 DEF Mute
<1>8. /\ toServer'[s] = Tail(toServer[s])
      /\ \A x \in Sockets : x # s => toServer'[x] = toServer[x]
  BY DEF Receive, ListTypes, AreFunctions
<1>9. \A x \in Sockets : handler[x].pc = "broadcast" => handler[x].msg.type # "peer-left"
  BY DEF Meeting, Session
<1>10. Head(toServer[s]).type \notin Relayed
  BY DEF Relayed
<1> QED
  BY <1>1, <1>4, <1>5, <1>6, <1>7, <1>8, <1>9, <1>10, QuietServerStep

-----------------------------------------------------------------------------
(* The server relays a signal *)

LEMMA OfferRelayed ==
  ASSUME NEW C, NEW Q, NEW R, NEW u, NEW n, NEW i, NEW mine, NEW its, NEW m, NEW l,
         Offers(C, Q, R, u, n, i, mine, its, m, l), NEW S, NEW sdp,
         Took(Q, S, sdp, "offer", "to", u), NEW o, NEW c, Travels(o, c, n, m, l)
  PROVE  /\ n = 4 /\ sdp = mine /\ Offers(C, S, R, u, 5, i, mine, its, m, l)
         /\ Travels(o, c, 5, m, l)
<1>1. n = 4
  BY DEF Offers, Took
<1>2. sdp = mine /\ None(S, "offer", "to", u)
  BY <1>1 DEF Offers, Took
<1>3. /\ None(S, "answer", "to", u)
      /\ m = "up" => One(S, "ice-candidate", "to", u, mine)
      /\ m # "up" => None(S, "ice-candidate", "to", u)
  BY DEF Offers, Took
<1>4. Offers(C, S, R, u, 5, i, mine, its, m, l)
  BY <1>1, <1>2, <1>3 DEF Offers
<1>5. Travels(o, c, 5, m, l)
  BY <1>1 DEF Travels
<1> QED
  BY <1>1, <1>2, <1>4, <1>5

LEMMA OfferComes ==
  ASSUME NEW C, NEW Q, NEW R, NEW u, NEW j, NEW mine, NEW its, NEW m, NEW l,
         Accepts(C, Q, R, u, 4, j, mine, its, m, l), NEW T,
         Put(R, T, its, "offer", "from", u), Listed(T, u) <=> Listed(R, u)
  PROVE  Accepts(C, Q, T, u, 5, j, mine, its, m, l)
<1>1. /\ One(T, "offer", "from", u, its) /\ None(T, "answer", "from", u)
      /\ m = "down" => One(T, "ice-candidate", "from", u, its)
      /\ m # "down" => None(T, "ice-candidate", "from", u)
  BY DEF Accepts, Put
<1> QED
  BY <1>1 DEF Accepts

LEMMA AnswerRelayed ==
  ASSUME NEW C, NEW Q, NEW R, NEW u, NEW n, NEW j, NEW mine, NEW its, NEW m, NEW l,
         Accepts(C, Q, R, u, n, j, mine, its, m, l), NEW S, NEW sdp,
         Took(Q, S, sdp, "answer", "to", u), NEW o, NEW c, Travels(o, c, n, m, l)
  PROVE  /\ n = 8 /\ sdp = mine /\ Accepts(C, S, R, u, 9, j, mine, its, m, l)
         /\ Travels(o, c, 9, m, l)
<1>1. n = 8
  BY DEF Accepts, Took
<1>2. sdp = mine /\ None(S, "answer", "to", u)
  BY <1>1 DEF Accepts, Took
<1>3. /\ None(S, "offer", "to", u)
      /\ l = "up" => One(S, "ice-candidate", "to", u, mine)
      /\ l # "up" => None(S, "ice-candidate", "to", u)
  BY DEF Accepts, Took
<1>4. Accepts(C, S, R, u, 9, j, mine, its, m, l)
  BY <1>1, <1>2, <1>3 DEF Accepts
<1>5. Travels(o, c, 9, m, l)
  BY <1>1 DEF Travels
<1> QED
  BY <1>1, <1>2, <1>4, <1>5

LEMMA AnswerComes ==
  ASSUME NEW C, NEW Q, NEW R, NEW u, NEW i, NEW mine, NEW its, NEW m, NEW l,
         Offers(C, Q, R, u, 8, i, mine, its, m, l), NEW T,
         Put(R, T, its, "answer", "from", u), Listed(T, u) <=> Listed(R, u)
  PROVE  Offers(C, Q, T, u, 9, i, mine, its, m, l)
<1>1. /\ One(T, "answer", "from", u, its) /\ None(T, "offer", "from", u)
      /\ l = "down" => One(T, "ice-candidate", "from", u, its)
      /\ l # "down" => None(T, "ice-candidate", "from", u)
  BY DEF Offers, Put
<1>2. ~Listed(T, u)
  BY DEF Offers
<1> QED
  BY <1>1, <1>2 DEF Offers

LEMMA SenderCandidates ==
  ASSUME NEW C, NEW Q, NEW R, NEW u, NEW n, NEW i, NEW mine, NEW its, NEW m, NEW l,
         Offers(C, Q, R, u, n, i, mine, its, m, l), NEW S, NEW sdp,
         Took(Q, S, sdp, "ice-candidate", "to", u), NEW o, NEW c, Travels(o, c, n, m, l)
  PROVE  /\ m = "up" /\ sdp = mine /\ Offers(C, S, R, u, n, i, mine, its, "down", l)
         /\ Travels(o, c, n, "down", l)
<1>1. m = "up"
  BY DEF Offers, Took
<1>2. sdp = mine /\ None(S, "ice-candidate", "to", u)
  BY <1>1 DEF Offers, Took
<1>3. /\ None(S, "answer", "to", u)
      /\ n = 4 => One(S, "offer", "to", u, mine)
      /\ n # 4 => None(S, "offer", "to", u)
  BY DEF Offers, Took
<1>4. Offers(C, S, R, u, n, i, mine, its, "down", l)
  BY <1>2, <1>3 DEF Offers
<1>5. Travels(o, c, n, "down", l)
  BY <1>1 DEF Travels, Ways
<1> QED
  BY <1>1, <1>2, <1>4, <1>5

LEMMA SenderCandidatesCome ==
  ASSUME NEW C, NEW Q, NEW R, NEW u, NEW n, NEW j, NEW mine, NEW its, NEW l,
         Accepts(C, Q, R, u, n, j, mine, its, "up", l), NEW T,
         Put(R, T, its, "ice-candidate", "from", u), Listed(T, u) <=> Listed(R, u)
  PROVE  Accepts(C, Q, T, u, n, j, mine, its, "down", l)
<1>1. /\ One(T, "ice-candidate", "from", u, its) /\ None(T, "answer", "from", u)
      /\ n = 5 => One(T, "offer", "from", u, its)
      /\ n # 5 => None(T, "offer", "from", u)
  BY DEF Accepts, Put
<1> QED
  BY <1>1 DEF Accepts

LEMMA ReceiverCandidates ==
  ASSUME NEW C, NEW Q, NEW R, NEW u, NEW n, NEW j, NEW mine, NEW its, NEW m, NEW l,
         Accepts(C, Q, R, u, n, j, mine, its, m, l), NEW S, NEW sdp,
         Took(Q, S, sdp, "ice-candidate", "to", u), NEW o, NEW c, Travels(o, c, n, m, l)
  PROVE  /\ l = "up" /\ sdp = mine /\ Accepts(C, S, R, u, n, j, mine, its, m, "down")
         /\ Travels(o, c, n, m, "down")
<1>1. l = "up"
  BY DEF Accepts, Took
<1>2. sdp = mine /\ None(S, "ice-candidate", "to", u)
  BY <1>1 DEF Accepts, Took
<1>3. /\ None(S, "offer", "to", u)
      /\ n = 8 => One(S, "answer", "to", u, mine)
      /\ n # 8 => None(S, "answer", "to", u)
  BY DEF Accepts, Took
<1>4. Accepts(C, S, R, u, n, j, mine, its, m, "down")
  BY <1>2, <1>3 DEF Accepts
<1>5. Travels(o, c, n, m, "down")
  BY <1>1 DEF Travels, Ways
<1> QED
  BY <1>1, <1>2, <1>4, <1>5

LEMMA ReceiverCandidatesCome ==
  ASSUME NEW C, NEW Q, NEW R, NEW u, NEW n, NEW i, NEW mine, NEW its, NEW m,
         Offers(C, Q, R, u, n, i, mine, its, m, "up"), NEW T,
         Put(R, T, its, "ice-candidate", "from", u), Listed(T, u) <=> Listed(R, u)
  PROVE  Offers(C, Q, T, u, n, i, mine, its, m, "down")
<1>1. /\ One(T, "ice-candidate", "from", u, its) /\ None(T, "offer", "from", u)
      /\ n = 9 => One(T, "answer", "from", u, its)
      /\ n # 9 => None(T, "answer", "from", u)
  BY DEF Offers, Put
<1>2. Listed(T, u) <=> n = 1
  BY DEF Offers
<1> QED
  BY <1>1, <1>2 DEF Offers

\* What a relay does: a frame goes from the queue of s to that of y.
Relays(s, f, y, g) ==
  /\ toServer[s] # << >> /\ f = Head(toServer[s]) /\ toServer'[s] = Tail(toServer[s])
  /\ f.type \in Relayed /\ f.to = Owner[y]
  /\ toClient'[y] = Append(toClient[y], g)
  /\ g.type = f.type /\ g.from = Owner[s] /\ g.sdp = f.sdp
  /\ \A x \in Sockets : /\ x # s => toServer'[x] = toServer[x]
                        /\ x # y => toClient'[x] = toClient[x]

LEMMA RelaysIs ==
  ASSUME Meeting, InTouch, ListTypes, NEW s \in Sockets, Receive(s), UNCHANGED client,
         Head(toServer[s]).type # "mute"
  PROVE  /\ UNCHANGED <<client, room, handler, overlapped>> /\ handler[s].pc # "new"
         /\ \E y \in Sockets : /\ y # s /\ handler[y].pc # "new"
                               /\ \E f, g : Relays(s, f, y, g)
<1>1. /\ Relay(s, Head(toServer[s])) /\ handler[s].pc # "new" /\ toServer[s] # << >>
      /\ toServer' = [toServer EXCEPT ![s] = Tail(@)] /\ overlapped' = overlapped
  BY DEF Receive
<1>2. PICK Q, f : Q = toServer[s] /\ f = Head(Q)
  OBVIOUS
<1>3. Queue(Q) /\ Outbox(Q) /\ f = Q[1] /\ 1 \in 1..Len(Q)
  BY <1>1, <1>2, ServerBefore, SessionBefore, QueueTail DEF QueueTypes
<1>4. f.type \in Relayed /\ f.to \in Users
  BY <1>2, <1>3, ServerBefore DEF QueueTypes, ServerBound, Outbox
<1>5. ~Strange(s, f.to)
  <2>1. Is(Q[1], f.type, "to", f.to)
    BY <1>3 DEF Is
  <2>2. ~None(Q, f.type, "to", f.to)
    BY <1>3, <2>1 DEF None
  <2> QED
    BY <1>2, <1>4, <2>2 DEF Strange, Stranger
<1>6. PICK y : y = room[f.to].ws
  OBVIOUS
<1>7. y \in Sockets /\ y # s /\ handler[y].pc # "new" /\ Owner[y] = f.to /\ room[f.to].ws # NoSocket
  BY <1>4, <1>5, <1>6 DEF Meeting, InTouch
<1>8. net[y] = "open"
  BY <1>7 DEF InTouch
<1>9. PICK g : g = [type |-> f.type, from |-> Owner[s], sdp |-> f.sdp]
  OBVIOUS
<1>10. g.type = f.type /\ g.from = Owner[s] /\ g.sdp = f.sdp /\ ClientBound(g)
  BY <1>4, <1>9 DEF ClientBound
<1>11. toClient' = Delivered(toClient, y, g) /\ UNCHANGED <<room, handler>>
  BY <1>1, <1>2, <1>6, <1>7, <1>9 DEF Relay
<1>12. /\ toClient'[y] = Append(toClient[y], g)
       /\ \A x \in Sockets : x # y => toClient'[x] = toClient[x]
  BY <1>7, <1>8, <1>10, <1>11, Delivers
<1>13. /\ toServer'[s] = Tail(toServer[s])
       /\ \A x \in Sockets : x # s => toServer'[x] = toServer[x]
  BY <1>1 DEF ListTypes, AreFunctions
<1>14. Relays(s, f, y, g)
  BY <1>1, <1>2, <1>4, <1>7, <1>10, <1>12, <1>13 DEF Relays
<1> QED
  BY <1>1, <1>7, <1>11, <1>14

LEMMA RelayMoves ==
  ASSUME Meeting, InTouch, ListTypes, NEW s \in Sockets, Receive(s), UNCHANGED client,
         Head(toServer[s]).type # "mute"
  PROVE  Meeting'
<1>1. UNCHANGED <<client, room, handler, overlapped>> /\ handler[s].pc # "new"
  BY RelaysIs
<1>2. PICK y \in Sockets : y # s /\ handler[y].pc # "new" /\ \E f, g : Relays(s, f, y, g)
  BY RelaysIs
<1>3. PICK f, g : Relays(s, f, y, g)
  BY <1>2
<1>4. PICK o, u, Q, S, R, T :
        /\ o = Owner[s] /\ u = Owner[y] /\ Q = toServer[s] /\ S = toServer'[s]
        /\ R = toClient[y] /\ T = toClient'[y]
  OBVIOUS
<1>5. /\ Queue(Q) /\ Q # << >> /\ f = Head(Q) /\ S = Tail(Q) /\ f.type \in Relayed /\ f.to = u
      /\ Queue(R) /\ T = Append(R, g) /\ g.type = f.type /\ g.from = o /\ g.sdp = f.sdp
      /\ \A x \in Sockets : /\ x # s => toServer'[x] = toServer[x]
                            /\ x # y => toClient'[x] = toClient[x]
      /\ o \in Users /\ u \in Users
  BY <1>3, <1>4, ServerBefore DEF Relays, QueueTypes
<1>6. g.type \in Relayed /\ g.type # "peers" /\ g.type # "peer-left"
  BY <1>5 DEF Relayed
<1>7. Outbox(S) /\ Inbox(client[y], T)
  BY <1>4, <1>5, <1>6, SessionBefore, OutboxTail, InboxAppend
<1>8. Took(Q, S, f.sdp, f.type, "to", u) /\ Put(R, T, f.sdp, f.type, "from", o)
  BY <1>5, SignalTook, SignalPut DEF Is
<1>9. \A v : Listed(T, v) <=> Listed(R, v)
  BY <1>5, <1>6, ListedAppend DEF Names
<1>10. (\A v : v # u => Carries(Q, S, "to", v)) /\ \A v : v # o => Carries(R, T, "from", v)
  <2>1. ASSUME NEW v, v # u PROVE Carries(Q, S, "to", v)
    BY <1>5, <2>1, CarriesTail
  <2>2. ASSUME NEW v, v # o PROVE Carries(R, T, "from", v)
    BY <1>5, <2>2, CarriesAppend
  <2> QED
    BY <2>1, <2>2
<1>11. ASSUME NEW x \in Sockets, NEW v, x = s => v # u, x = y => v # o
       PROVE  Untouched(x, v)
  <2>1. Carries(toServer[x], toServer'[x], "to", v)
    BY <1>4, <1>5, <1>10, <1>11, CarriesItself
  <2>2. /\ Carries(toClient[x], toClient'[x], "from", v)
        /\ Listed(toClient'[x], v) <=> Listed(toClient[x], v)
    BY <1>4, <1>5, <1>9, <1>10, <1>11, CarriesItself
  <2> QED
    BY <1>1, <2>1, <2>2, KeepsItself DEF Untouched, Unmoved
<1>12. \A x \in Sockets : Session(x)'
  <2> SUFFICES ASSUME NEW x \in Sockets PROVE Session(x)'
    OBVIOUS
  <2>1. Outbox(toServer'[x])
    BY <1>4, <1>5, <1>7, SessionBefore
  <2>2. Inbox(client[x], toClient'[x])
    BY <1>4, <1>5, <1>7, SessionBefore
  <2>3. Hook(client[x])
    BY SessionBefore
  <2>4. handler[x].pc = "new" => toClient'[x] = toClient[x]
    BY <1>2, <1>5
  <2> QED
    BY <1>1, <2>1, <2>2, <2>3, <2>4 DEF Session, Meeting
<1>13. \A x \in Sockets, v \in Users :
         handler[x].pc = "new" \/ room[v].ws = NoSocket \/ v = Owner[x] => Strange(x, v)'
  <2> SUFFICES ASSUME NEW x \in Sockets, NEW v \in Users,
                      handler[x].pc = "new" \/ room[v].ws = NoSocket \/ v = Owner[x]
               PROVE  Strange(x, v)'
    OBVIOUS
  <2>1. /\ room[u].ws = y /\ room[o].ws = s /\ u # o /\ y # NoSocket /\ s # NoSocket
    BY <1>1, <1>2, <1>4, SocketsAreNotNo DEF InTouch
  <2>2. (x = s => v # u) /\ (x = y => v # o)
    BY <1>1, <1>2, <1>4, <2>1
  <2>3. Untouched(x, v) /\ Strange(x, v)
    BY <1>11, <2>2 DEF Meeting
  <2> QED
    BY <2>3, StrangeStays
<1>14. Shaking(s, y) => Shaking(s, y)'
  <2> SUFFICES ASSUME Shaking(s, y) PROVE Shaking(s, y)'
    OBVIOUS
  <2>1. PICK n, i, j, m, l : Shake(s, y, n, i, j, m, l)
    BY DEF Shaking
  <2>2. PICK C, D, E, P : /\ C = client[s] /\ D = client[y] /\ E = toClient[s] /\ P = toServer[y]
                          /\ toClient'[s] = E /\ toServer'[y] = P
    BY <1>2, <1>5
  <2>3. /\ Travels(s, y, n, m, l)
        /\ Offers(C, Q, E, u, n, i, <<s, i>>, <<y, j>>, m, l)
        /\ Accepts(D, P, R, o, n, j, <<y, j>>, <<s, i>>, m, l)
    BY <1>4, <2>1, <2>2 DEF Shake
  <2>4. \A a, m1, l1 : /\ Travels(s, y, a, m1, l1)
                       /\ Offers(C, S, E, u, a, i, <<s, i>>, <<y, j>>, m1, l1)
                       /\ Accepts(D, P, T, o, a, j, <<y, j>>, <<s, i>>, m1, l1)
                      => Shaking(s, y)'
    BY <1>1, <1>4, <2>2 DEF Shaking, Shake
  <2>5. CASE f.type = "offer"
    <3>1. /\ n = 4 /\ f.sdp = <<s, i>> /\ Travels(s, y, 5, m, l)
          /\ Offers(C, S, E, u, 5, i, <<s, i>>, <<y, j>>, m, l)
      BY <1>8, <2>3, <2>5, OfferRelayed
    <3>2. Accepts(D, P, T, o, 5, j, <<y, j>>, <<s, i>>, m, l)
      BY <1>8, <1>9, <2>3, <2>5, <3>1, OfferComes
    <3> QED
      BY <2>4, <3>1, <3>2
  <2>6. CASE f.type = "answer"
    <3>1. ~None(Q, "answer", "to", u)
      BY <1>8, <2>6 DEF Took
    <3> QED
      BY <2>3, <3>1 DEF Offers
  <2>7. CASE f.type = "ice-candidate"
    <3>1. /\ m = "up" /\ f.sdp = <<s, i>> /\ Travels(s, y, n, "down", l)
          /\ Offers(C, S, E, u, n, i, <<s, i>>, <<y, j>>, "down", l)
      BY <1>8, <2>3, <2>7, SenderCandidates
    <3>2. Accepts(D, P, T, o, n, j, <<y, j>>, <<s, i>>, "down", l)
      BY <1>8, <1>9, <2>3, <2>7, <3>1, SenderCandidatesCome
    <3> QED
      BY <2>4, <3>1, <3>2
  <2> QED
    BY <1>5, <2>5, <2>6, <2>7 DEF Relayed
<1>15. Shaking(y, s) => Shaking(y, s)'
  <2> SUFFICES ASSUME Shaking(y, s) PROVE Shaking(y, s)'
    OBVIOUS
  <2>1. PICK n, i, j, m, l : Shake(y, s, n, i, j, m, l)
    BY DEF Shaking
  <2>2. PICK C, D, E, P : /\ C = client[s] /\ D = client[y] /\ E = toClient[s] /\ P = toServer[y]
                          /\ toClient'[s] = E /\ toServer'[y] = P
    BY <1>2, <1>5
  <2>3. /\ Travels(y, s, n, m, l)
        /\ Offers(D, P, R, o, n, i, <<y, i>>, <<s, j>>, m, l)
        /\ Accepts(C, Q, E, u, n, j, <<s, j>>, <<y, i>>, m, l)
    BY <1>4, <2>1, <2>2 DEF Shake
  <2>4. \A a, m1, l1 : /\ Travels(y, s, a, m1, l1)
                       /\ Offers(D, P, T, o, a, i, <<y, i>>, <<s, j>>, m1, l1)
                       /\ Accepts(C, S, E, u, a, j, <<s, j>>, <<y, i>>, m1, l1)
                      => Shaking(y, s)'
    BY <1>1, <1>4, <2>2 DEF Shaking, Shake
  <2>5. CASE f.type = "offer"
    <3>1. ~None(Q, "offer", "to", u)
      BY <1>8, <2>5 DEF Took
    <3> QED
      BY <2>3, <3>1 DEF Accepts
  <2>6. CASE f.type = "answer"
    <3>1. /\ n = 8 /\ f.sdp = <<s, j>> /\ Travels(y, s, 9, m, l)
          /\ Accepts(C, S, E, u, 9, j, <<s, j>>, <<y, i>>, m, l)
      BY <1>8, <2>3, <2>6, AnswerRelayed
    <3>2. Offers(D, P, T, o, 9, i, <<y, i>>, <<s, j>>, m, l)
      BY <1>8, <1>9, <2>3, <2>6, <3>1, AnswerComes
    <3> QED
      BY <2>4, <3>1, <3>2
  <2>7. CASE f.type = "ice-candidate"
    <3>1. /\ l = "up" /\ f.sdp = <<s, j>> /\ Travels(y, s, n, m, "down")
          /\ Accepts(C, S, E, u, n, j, <<s, j>>, <<y, i>>, m, "down")
      BY <1>8, <2>3, <2>7, ReceiverCandidates
    <3>2. Offers(D, P, T, o, n, i, <<y, i>>, <<s, j>>, m, "down")
      BY <1>8, <1>9, <2>3, <2>7, <3>1, ReceiverCandidatesCome
    <3> QED
      BY <2>4, <3>1, <3>2
  <2> QED
    BY <1>5, <2>5, <2>6, <2>7 DEF Relayed
<1>16. \A x, z \in Sockets : x # z /\ handler[x].pc # "new" /\ handler[z].pc # "new" =>
         (Shaking(x, z) => Shaking(x, z)')
  <2> SUFFICES ASSUME NEW x \in Sockets, NEW z \in Sockets,
                      handler[x].pc # "new", handler[z].pc # "new", Shaking(x, z)
               PROVE  Shaking(x, z)'
    OBVIOUS
  <2>1. \A a, b \in Sockets : Owner[a] = Owner[b] /\ handler[a].pc # "new"
          /\ handler[b].pc # "new" => a = b
    BY DEF InTouch
  <2>2. CASE (x = s /\ z = y) \/ (x = y /\ z = s)
    BY <1>14, <1>15, <2>2
  <2>3. CASE ~((x = s /\ z = y) \/ (x = y /\ z = s))
    <3>1. /\ x = s => Owner[z] # u
          /\ x = y => Owner[z] # o
          /\ z = s => Owner[x] # u
          /\ z = y => Owner[x] # o
      BY <1>1, <1>2, <1>4, <2>1, <2>3
    <3>2. Untouched(x, Owner[z]) /\ Untouched(z, Owner[x])
      BY <1>11, <3>1
    <3> QED
      BY <3>2, ShakingStays
  <2> QED
    BY <2>2, <2>3
<1> QED
  BY <1>1, <1>12, <1>13, <1>16, MeetingStays

-----------------------------------------------------------------------------
(* A session joins: everybody who is there is on its list *)

\* The state after a session joined that was sent f.
Joins(s, f) ==
  /\ handler[s].pc = "new" /\ handler'[s].pc # "new" /\ f.type = "peers"
  /\ handler'[s].pc = "broadcast" => handler'[s].msg.type # "peer-left"
  /\ toClient'[s] = Append(toClient[s], f) /\ UNCHANGED <<client, toServer, overlapped>>
  /\ \A x \in Sockets : x # s => handler'[x] = handler[x] /\ toClient'[x] = toClient[x]
  /\ room[Owner[s]].ws = NoSocket /\ room'[Owner[s]].ws = s
  /\ \A u \in Users : u # Owner[s] => room'[u].ws = room[u].ws
  /\ \A u \in Users : Names(f, u) <=> room[u].ws # NoSocket

LEMMA JoinsIs ==
  ASSUME Meeting, InTouch, ListTypes, Steady, NEW s \in Sockets, Join(s), UNCHANGED client
  PROVE  \E f : Joins(s, f)
<1>1. PICK o, f, todo, m :
        /\ o = Owner[s] /\ f = [type |-> "peers", peers |-> Existing(o)]
        /\ todo = Targets(room, {o}) /\ m = [type |-> "peer-joined", user |-> o]
  OBVIOUS
<1>2. PICK h : h = Broadcasting(todo, m, "serve")
  OBVIOUS
<1>3. /\ handler[s].pc = "new" /\ net[s] # "unused" /\ Joined(o, s)
      /\ toClient' = Delivered(toClient, s, f) /\ handler' = [handler EXCEPT ![s] = h]
      /\ toServer' = toServer
  BY <1>1, <1>2 DEF Join
<1>4. net[s] = "open"
  BY <1>3, ServerBefore DEF Progress, Steady
<1>5. o \in Users /\ s # NoSocket /\ room = [u \in Users |-> room[u]]
  BY <1>1, ServerBefore, SocketsAreNotNo DEF ListTypes, AreFunctions
<1>6. ASSUME NEW x \in Sockets, Owner[x] = o
      PROVE  handler[x].pc = "new"
  BY <1>1, <1>3, <1>6 DEF InTouch, Steady
<1>7. room[o].ws = NoSocket
  BY <1>5, <1>6 DEF InTouch
<1>8. Started(o) = {}
  BY <1>6 DEF Started
<1>9. overlapped' = overlapped /\ room' = [room EXCEPT ![o] = [ws |-> s, muted |-> FALSE]]
  BY <1>3, <1>8 DEF Joined, Entered
<1>10. room'[o].ws = s /\ \A u \in Users : u # o => room'[u].ws = room[u].ws
  BY <1>5, <1>9
<1>11. handler'[s] = h /\ \A x \in Sockets : x # s => handler'[x] = handler[x]
  BY <1>3, ServerBefore
<1>12. h.pc # "new" /\ (h.pc = "broadcast" => h.msg.type # "peer-left")
  <2>1. m.type # "peer-left"
    BY <1>1
  <2> QED
    BY <1>2, <2>1, BroadcastingIs
<1>13. /\ toClient'[s] = Append(toClient[s], f)
       /\ \A x \in Sockets : x # s => toClient'[x] = toClient[x]
  BY <1>3, <1>4, AfterDelivery
<1>14. f.type = "peers" /\ f.peers = Existing(o)
  BY <1>1
<1>15. \A u \in Users : Names(f, u) <=> room[u].ws # NoSocket
  <2>1. \A u \in Users : (\E p \in Existing(o) : p.user = u) <=> u \in Present(room)
    <3> SUFFICES ASSUME NEW u \in Users
                 PROVE  (\E p \in Existing(o) : p.user = u) <=> u \in Present(room)
      OBVIOUS
    <3>1. ASSUME NEW p \in Existing(o)
          PROVE  p.user \in Present(room)
      <4>1. PICK v \in Present(room) : p = [user |-> v, muted |-> room[v].muted]
        BY DEF Existing
      <4> QED
        BY <4>1
    <3>2. ASSUME u \in Present(room)
          PROVE  \E p \in Existing(o) : p.user = u
      <4>1. PICK p : p = [user |-> u, muted |-> room[u].muted]
        OBVIOUS
      <4>2. p \in Existing(o)
        BY <3>2, <4>1 DEF Existing
      <4>3. p.user = u
        BY <4>1
      <4> QED
        BY <4>2, <4>3
    <3> QED
      BY <3>1, <3>2
  <2> QED
    BY <1>14, <2>1 DEF Names, Present
<1>16. Joins(s, f)
  BY <1>1, <1>3, <1>7, <1>9, <1>10, <1>11, <1>12, <1>13, <1>14, <1>15 DEF Joins
<1> QED
  BY <1>16

\* 1: the newcomer is due to offer to everybody who is there.
LEMMA JoinMoves ==
  ASSUME Meeting, InTouch, ListTypes, Steady, NEW s \in Sockets, Join(s), UNCHANGED client
  PROVE  Meeting'
<1>1. PICK f : Joins(s, f)
  BY JoinsIs
<1>2. PICK o, C, Q, R, T : /\ o = Owner[s] /\ C = client[s] /\ Q = toServer[s]
                           /\ R = toClient[s] /\ T = toClient'[s]
  OBVIOUS
<1>3. /\ Queue(R) /\ T = Append(R, f) /\ f.type = "peers" /\ f.type \notin Relayed
      /\ client' = client /\ toServer' = toServer /\ overlapped' = {}
      /\ \A x \in Sockets : x # s => handler'[x] = handler[x] /\ toClient'[x] = toClient[x]
      /\ \A x \in Sockets : Owner[x] \in Users
  BY <1>1, <1>2, ServerBefore, OwnerAssumption DEF Joins, QueueTypes, Relayed, Meeting
<1>4. \A v : Listed(T, v) <=> Listed(R, v) \/ Names(f, v)
  BY <1>3, ListedAppend
<1>5. \A v : Carries(R, T, "from", v)
  BY <1>3, CarriesAppend
<1>6. Inbox(C, T)
  <2>1. /\ Inbox(C, R) /\ ~Looping(C) /\ \A i \in 1..Len(R) : R[i].type # "peers"
    BY <1>1, <1>2 DEF Meeting, Session, Joins
  <2>2. /\ Len(T) = Len(R) + 1 /\ Len(R) \in Nat /\ T[Len(R) + 1] = f
        /\ \A i \in 1..Len(R) : T[i] = R[i]
    BY <1>3, QueueAppend DEF Queue
  <2>3. \A i \in 1..Len(T) : (i \in 1..Len(R) /\ T[i] = R[i]) \/ (i = Len(R) + 1 /\ T[i] = f)
    BY <2>2
  <2>4. \A i, j \in 1..Len(T) : T[i].type = "peers" /\ T[j].type = "peers" => i = j
    BY <2>1, <2>3
  <2>5. \A i \in 1..Len(T) : /\ T[i].type # "peer-left" /\ (T[i].type = "peers" => ~Looping(C))
                             /\ T[i].type \in Relayed => T[i].from \in Users
    BY <1>3, <2>1, <2>3 DEF Inbox
  <2> QED
    BY <2>4, <2>5 DEF Inbox
<1>7. \A x \in Sockets : Session(x)'
  <2>1. Session(s)'
    BY <1>1, <1>2, <1>3, <1>6, SessionBefore DEF Session, Joins
  <2>2. \A x \in Sockets : x # s => Session(x)'
    BY <1>3 DEF Session, Meeting
  <2> QED
    BY <2>1, <2>2
<1>8. ASSUME NEW x \in Sockets, NEW v \in Users, x # s \/ room[v].ws = NoSocket
      PROVE  Untouched(x, v)
  <2>1. CASE x # s
    BY <1>3, <2>1, UnmovedAtAll DEF Untouched
  <2>2. CASE x = s /\ room[v].ws = NoSocket
    <3>1. Listed(T, v) <=> Listed(R, v)
      BY <1>1, <1>4, <2>2 DEF Joins
    <3> QED
      BY <1>2, <1>3, <1>5, <2>2, <3>1, KeepsItself, CarriesItself DEF Untouched, Unmoved
  <2> QED
    BY <1>8, <2>1, <2>2
<1>9. \A x \in Sockets : Strange(x, Owner[x])'
  <2> SUFFICES ASSUME NEW x \in Sockets PROVE Strange(x, Owner[x])'
    OBVIOUS
  <2>1. x # s \/ room[Owner[x]].ws = NoSocket
    BY <1>1 DEF Joins
  <2>2. Untouched(x, Owner[x])
    BY <1>3, <1>8, <2>1
  <2> QED
    BY <2>2, StrangeStays, SessionBefore
<1>10. \A x \in Sockets, v \in Users :
         handler'[x].pc = "new" \/ room'[v].ws = NoSocket => Strange(x, v)'
  <2> SUFFICES ASSUME NEW x \in Sockets, NEW v \in Users,
                      handler'[x].pc = "new" \/ room'[v].ws = NoSocket
               PROVE  Strange(x, v)'
    OBVIOUS
  <2>1. /\ handler[x].pc = "new" \/ room[v].ws = NoSocket
        /\ x # s \/ room[v].ws = NoSocket
    BY <1>1, SocketsAreNotNo DEF Joins
  <2>2. Strange(x, v) /\ Untouched(x, v)
    BY <1>8, <2>1 DEF Meeting
  <2> QED
    BY <2>2, StrangeStays
<1>11. ASSUME NEW y \in Sockets, y # s, handler[y].pc # "new"
       PROVE  Shaking(s, y)'
  <2>1. PICK v, D, P, E : v = Owner[y] /\ D = client[y] /\ P = toServer[y] /\ E = toClient[y]
    OBVIOUS
  <2>2. Stranger(C, Q, R, v) /\ Stranger(D, P, E, o)
    BY <1>1, <1>2, <1>3, <2>1 DEF Meeting, Strange, Joins
  <2>3. Listed(T, v)
    <3>1. room[v].ws # NoSocket
      BY <1>11, <2>1, SocketsAreNotNo DEF InTouch
    <3>2. Names(f, v)
      BY <1>1, <1>3, <2>1, <3>1 DEF Joins
    <3> QED
      BY <1>4, <3>2
  <2>4. \A kind \in Relayed : None(Q, kind, "to", v) /\ None(T, kind, "from", v)
    BY <1>5, <2>2 DEF Stranger, Carries
  <2>5. Offers(C, Q, T, v, 1, 0, <<s, 0>>, <<y, 0>>, "unsent", "unsent")
    BY <2>2, <2>3, <2>4, SignalKinds DEF Offers, Stranger
  <2>6. Accepts(D, P, E, o, 1, 0, <<y, 0>>, <<s, 0>>, "unsent", "unsent")
    BY <2>2, SignalKinds DEF Accepts, Stranger
  <2>7. Travels(s, y, 1, "unsent", "unsent")
    BY DEF Travels, Ways
  <2>8. Shake(s, y, 1, 0, 0, "unsent", "unsent")'
    BY <1>2, <1>3, <1>11, <2>1, <2>5, <2>6, <2>7 DEF Shake
  <2> QED
    BY <2>8 DEF Shaking
<1>12. \A x, y \in Sockets : x # y /\ handler'[x].pc # "new" /\ handler'[y].pc # "new" =>
         Shaking(x, y)' \/ Shaking(y, x)'
  <2> SUFFICES ASSUME NEW x \in Sockets, NEW y \in Sockets, x # y,
                      handler'[x].pc # "new", handler'[y].pc # "new"
               PROVE  Shaking(x, y)' \/ Shaking(y, x)'
    OBVIOUS
  <2>1. CASE x = s
    BY <1>3, <1>11, <2>1
  <2>2. CASE y = s
    BY <1>3, <1>11, <2>2
  <2>3. CASE x # s /\ y # s
    <3>1. Shaking(x, y) \/ Shaking(y, x)
      BY <1>3, <2>3 DEF Meeting
    <3>2. Untouched(x, Owner[y]) /\ Untouched(y, Owner[x])
      BY <1>3, <1>8, <2>3
    <3> QED
      BY <3>1, <3>2, ShakingStays
  <2> QED
    BY <2>1, <2>2, <2>3
<1> QED
  BY <1>3, <1>7, <1>9, <1>10, <1>12 DEF Meeting

-----------------------------------------------------------------------------
(* The mesh *)

LEMMA SessionsAreInTouch ==
  ASSUME Meeting, Steady, RoomInv, ListTypes
  PROVE  InTouch
<1>1. ASSUME NEW x \in Sockets, handler[x].pc # "new"
      PROVE  net[x] = "open" /\ room[Owner[x]].ws = x
  <2>1. net[x] = "open" /\ Inside(x)
    BY <1>1, ServerBefore DEF Progress, Steady
  <2> QED
    BY <2>1 DEF RoomInv, RoomHoldsLiveSockets, Meeting
<1>2. ASSUME NEW u \in Users, room[u].ws # NoSocket
      PROVE  room[u].ws \in Sockets /\ Owner[room[u].ws] = u /\ handler[room[u].ws].pc # "new"
  <2>1. /\ room[u].ws \in Sockets /\ Owner[room[u].ws] = u
        /\ Inside(room[u].ws) \/ handler[room[u].ws].pc = "broken"
    BY <1>2 DEF RoomInv, TablesOK, RoomHoldsLiveSockets, Present
  <2> QED
    BY <2>1 DEF Inside
<1> QED
  BY <1>1, <1>2 DEF InTouch

\* A connection is opened once, and does not open again.
LEMMA ConnectionsOpenOnce ==
  ASSUME ListTypes, Next
  PROVE  \/ net' = net
         \/ \E s \in Sockets : net[s] = "unused" /\ net' = [net EXCEPT ![s] = "open"]
         \/ \E s \in Sockets : net' = [net EXCEPT ![s] = "gone"]
<1>1. PICK s \in Sockets : \/ ServerStep(s) \/ Refuse(s) \/ ClientStep(s) \/ UserStep(s)
  BY DEF Next
<1>2. CASE ServerStep(s)
  BY <1>2 DEF ServerStep, Join, JoinBreaks, BroadcastSend, Receive, Disconnect
<1>3. CASE Refuse(s)
  BY <1>3 DEF Refuse
<1>4. CASE ClientStep(s)
  <2>1. CASE OnMessage(s)
    BY <2>1 DEF OnMessage
  <2>2. CASE Task(s)
    <3>1. IsClient(client[s])
      BY ServerBefore DEF ClientTypes
    <3> QED
      BY <2>2, <3>1, TaskContinues DEF Continues
  <2> QED
    BY <1>4, <2>1, <2>2 DEF ClientStep
<1>5. CASE UserStep(s)
  <2>1. client[s].phase = "asking" => net[s] = "unused"
    BY ServerBefore DEF Progress
  <2>2. CASE Enter(s) \/ IceServersFail(s) \/ ToggleMute(s)
    BY <2>2 DEF Enter, IceServersFail, ToggleMute, serverVars
  <2>3. CASE MicrophoneGranted(s) \/ MicrophoneRefused(s)
    BY <2>1, <2>3 DEF MicrophoneGranted, MicrophoneRefused, Opened
  <2>4. CASE Leave(s) \/ Drop(s)
    BY <2>4 DEF Leave, Drop, serverVars
  <2> QED
    BY <1>5, <2>2, <2>3, <2>4 DEF UserStep
<1> QED
  BY <1>1, <1>2, <1>3, <1>4, <1>5

LEMMA SteadyBefore ==
  ASSUME ListTypes, Next, Steady'
  PROVE  Steady
<1>1. net = [x \in Sockets |-> net[x]]
  BY DEF ListTypes, AreFunctions
<1>2. ASSUME NEW x \in Sockets
      PROVE  (net[x] = "gone" => net'[x] = "gone") /\ (net[x] # "unused" => net'[x] # "unused")
  BY <1>1, ConnectionsOpenOnce
<1> QED
  BY <1>2 DEF Steady

LEMMA InitMeets == Init => MeshInv
<1> SUFFICES ASSUME Init PROVE Meeting
  BY DEF MeshInv
<1>1. /\ overlapped = {} /\ \A u \in Users : room[u].ws = NoSocket
      /\ \A s \in Sockets : /\ handler[s].pc = "new" /\ client[s] = NewClient
                            /\ toServer[s] = << >> /\ toClient[s] = << >>
  BY DEF Init, ServerInit, Absent, At, Handler
<1>2. /\ IsClient(NewClient) /\ NewClient.pcs = << >> /\ NewClient.tasks = {}
      /\ NewClient.peer = [u \in Users |-> 0] /\ NewClient.pending = [u \in Users |-> {}]
  BY NewClientIsClient DEF NewClient
<1>3. Hook(NewClient) /\ ~Looping(NewClient)
  BY <1>2, EmptyQueue DEF Hook, Looping
<1>4. Inbox(NewClient, << >>) /\ Outbox(<< >>)
  BY EmptyQueue DEF Inbox, Outbox
<1>5. \A s \in Sockets : Session(s)
  BY <1>1, <1>3, <1>4, EmptyQueue DEF Session
<1>6. ASSUME NEW u \in Users PROVE Stranger(NewClient, << >>, << >>, u)
  <2>1. NewClient.peer[u] = 0 /\ NewClient.pending[u] = {} /\ ~Waiting(NewClient, u)
    BY <1>2 DEF Waiting
  <2>2. Line(NewClient, u, 0)
    BY <1>2, <2>1, EmptyQueue DEF Line
  <2>3. ~Listed(<< >>, u) /\ \A kind, end : None(<< >>, kind, end, u)
    BY EmptyQueue DEF None, Listed
  <2> QED
    BY <2>1, <2>2, <2>3 DEF Stranger
<1>7. \A s \in Sockets, u \in Users : Strange(s, u)
  BY <1>1, <1>6 DEF Strange
<1>8. \A s \in Sockets : Owner[s] \in Users
  BY OwnerAssumption
<1> QED
  BY <1>1, <1>5, <1>7, <1>8 DEF Meeting

LEMMA ServerMoves ==
  ASSUME Meeting, InTouch, ListTypes, Steady, NEW s \in Sockets, ServerStep(s), UNCHANGED client
  PROVE  Meeting'
<1>1. net[s] # "gone"
  BY DEF Steady
<1>2. CASE Join(s)
  BY <1>2, JoinMoves
<1>3. CASE JoinBreaks(s) \/ Disconnect(s)
  BY <1>1, <1>3 DEF JoinBreaks, Disconnect
<1>4. CASE BroadcastSend(s)
  BY <1>4, BroadcastSendMoves
<1>5. CASE Receive(s)
  BY <1>5, MuteMoves, RelayMoves
<1> QED
  BY <1>2, <1>3, <1>4, <1>5 DEF ServerStep

LEMMA NextKeepsMeeting == MeshInv /\ RoomInv /\ ListTypes /\ Next => MeshInv'
<1> SUFFICES ASSUME MeshInv, RoomInv, ListTypes, Next, Steady'
             PROVE  Meeting'
  BY DEF MeshInv
<1>1. Steady /\ Meeting /\ InTouch
  BY SteadyBefore, SessionsAreInTouch DEF MeshInv
<1>2. PICK s \in Sockets : \/ ServerStep(s) /\ UNCHANGED client
                           \/ Refuse(s)
                           \/ ClientStep(s) \/ UserStep(s)
  BY DEF Next
<1>3. ~Refuse(s)
  BY DEF Refuse, Steady, ListTypes, AreFunctions
<1> QED
  BY <1>1, <1>2, <1>3, ServerMoves, OnMessageMoves, TaskMoves, UserMoves DEF ClientStep

LEMMA StutteringKeepsMeeting == MeshInv /\ UNCHANGED vars => MeshInv'
<1> SUFFICES ASSUME MeshInv, UNCHANGED vars, Steady'
             PROVE  Meeting'
  BY DEF MeshInv
<1>1. UNCHANGED <<net, toServer, toClient, room, handler, overlapped, client>>
  BY DEF vars, serverVars
<1>2. Meeting
  BY <1>1 DEF MeshInv, Steady
<1>3. \A x, u : Strange(x, u)' <=> Strange(x, u)
  BY <1>1 DEF Strange
<1>4. \A x, y : Shaking(x, y)' <=> Shaking(x, y)
  BY <1>1 DEF Shaking, Shake
<1>5. \A x \in Sockets : Session(x)'
  BY <1>1, <1>2 DEF Session, Meeting
<1> QED
  BY <1>1, <1>2, <1>3, <1>4, <1>5 DEF Meeting

\* When nothing is under way a handshake is done.
LEMMA QuietShakeIsDone ==
  ASSUME NEW s \in Sockets, NEW t \in Sockets,
         client[s].tasks = {}, toServer[s] = << >>, toClient[s] = << >>,
         client[t].tasks = {}, toServer[t] = << >>, toClient[t] = << >>,
         Shaking(s, t)
  PROVE  Connected(s, t) /\ Connected(t, s)
<1>1. PICK n, i, j, m, l : Shake(s, t, n, i, j, m, l)
  BY DEF Shaking
<1>2. PICK C, D, o, u : C = client[s] /\ D = client[t] /\ o = Owner[s] /\ u = Owner[t]
  OBVIOUS
<1>3. /\ Travels(s, t, n, m, l)
      /\ Offers(C, << >>, << >>, u, n, i, <<s, i>>, <<t, j>>, m, l)
      /\ Accepts(D, << >>, << >>, o, n, j, <<t, j>>, <<s, i>>, m, l)
  BY <1>1, <1>2 DEF Shake
<1>4. /\ \A kind, end, v, d : ~One(<< >>, kind, end, v, d)
      /\ \A v : ~Listed(<< >>, v)
  BY EmptyQueue DEF One, Listed
<1>5. C.tasks = {} /\ D.tasks = {}
  BY <1>2
<1>6. ~Waiting(C, u) /\ (\A k : TasksOf(C, k) = {}) /\ \A k : TasksOf(D, k) = {}
  BY <1>5 DEF Waiting, TasksOf
<1>7. n # 1 /\ n # 2 /\ n # 3 /\ n # 4 /\ n # 9
  BY <1>3, <1>4, <1>5, <1>6 DEF Offers
<1>8. n # 10
  <2>1. \A x : {x} # {}
    OBVIOUS
  <2> QED
    BY <1>3, <1>6, <2>1, SMTT(20) DEF Offers
<1>9. n # 5 /\ n # 8
  BY <1>3, <1>4 DEF Accepts
<1>10. n # 6 /\ n # 7
  <2>1. \A x : {x} # {}
    OBVIOUS
  <2>2. TasksOf(D, j) = {}
    BY <1>6
  <2>3. n # 6
    BY <1>3, <2>1, <2>2 DEF Accepts
  <2>4. n # 7
    BY <1>3, <2>1, <2>2 DEF Accepts
  <2> QED
    BY <2>3, <2>4
<1>11. n = 11
  BY <1>3, <1>7, <1>8, <1>9, <1>10 DEF Travels
<1>12. m \in {"unsent", "there"} /\ l \in {"unsent", "there"}
  BY <1>3, <1>4 DEF Offers, Accepts, Travels, Ways
<1>13. (s \in Gathering => m = "there") /\ (t \in Gathering => l = "there")
  BY <1>3, <1>11, <1>12 DEF Travels
<1>14. /\ C.peer[u] = i /\ i # 0 /\ C.pcs[i].sig = "stable" /\ C.pcs[i].remote = <<t, j>>
       /\ t \in Gathering => C.pcs[i].heard = TRUE
  BY <1>3, <1>11, <1>13 DEF Offers, Line
<1>15. /\ D.peer[o] = j /\ j # 0 /\ D.pcs[j].sig = "stable" /\ D.pcs[j].remote = <<s, i>>
       /\ s \in Gathering => D.pcs[j].heard = TRUE
  BY <1>3, <1>11, <1>13 DEF Accepts, Line
<1>16. Connected(s, t)
  BY <1>2, <1>14, <1>15 DEF Connected
<1>17. Connected(t, s)
  BY <1>2, <1>14, <1>15 DEF Connected
<1> QED
  BY <1>16, <1>17

LEMMA QuietMesh ==
  ASSUME MeshInv, Steady, Quiescent, NEW s \in Sockets, NEW t \in Sockets,
         s # t, net[s] = "open", net[t] = "open"
  PROVE  Connected(s, t)
<1>1. /\ client[s].tasks = {} /\ toServer[s] = << >> /\ toClient[s] = << >>
      /\ client[t].tasks = {} /\ toServer[t] = << >> /\ toClient[t] = << >>
      /\ handler[s].pc = "serve" /\ handler[t].pc = "serve"
  BY DEF Quiescent
<1>2. Shaking(s, t) \/ Shaking(t, s)
  BY <1>1 DEF MeshInv, Meeting
<1> QED
  BY <1>1, <1>2, QuietShakeIsDone

(* As long as nobody's session ends and nobody opens a second one, any number of
   participants form a complete mesh once everything has arrived: for every two,
   one offered and the other answered, whatever overtook what (useVoiceChannel's
   onmessage, pendingIceRef, and the relay of voice_socket). *)
THEOREM MeshOfThoseWhoStay == Spec => [](Steady => MeshIsComplete)
<1>1. Init => RoomInv /\ ListInv /\ MeshInv
  BY InitEstablishes, InitEstablishesLists, InitMeets
<1>2. RoomInv /\ ListInv /\ MeshInv /\ [Next]_vars => (RoomInv /\ ListInv /\ MeshInv)'
  BY NextKeepsInv, StutteringKeepsInv, NextKeepsLists, StutteringKeepsLists,
     NextKeepsMeeting, StutteringKeepsMeeting DEF ListInv
<1>3. MeshInv => (Steady => MeshIsComplete)
  BY QuietMesh DEF MeshIsComplete, Sole
<1> QED
  BY <1>1, <1>2, <1>3, PTL DEF Spec

(* With two users the mesh is complete whatever they do: two sessions that are the
   only ones of their users are then all there is, and nobody else can leave while
   one of them is offering. *)
THEOREM MeshOfTwoIsComplete ==
  ASSUME \A u, v, w \in Users : u = v \/ u = w \/ v = w
  PROVE  Spec => []MeshIsComplete
<1>1. (Steady => MeshIsComplete) => MeshIsComplete
  <2> SUFFICES ASSUME Steady => MeshIsComplete, Quiescent,
                      NEW s \in Sockets, NEW t \in Sockets, Sole(s), Sole(t), s # t
               PROVE  Connected(s, t)
    BY DEF MeshIsComplete
  <2>1. \A x \in Sockets : Owner[x] \in Users
    BY OwnerAssumption
  <2>2. Owner[s] # Owner[t]
    BY DEF Sole
  <2>3. \A x \in Sockets : Owner[x] = Owner[s] \/ Owner[x] = Owner[t]
    BY <2>1, <2>2
  <2>4. \A x \in Sockets : net[x] # "unused" => x = s \/ x = t
    BY <2>3 DEF Sole
  <2>5. Steady
    BY <2>2, <2>4 DEF Steady, Sole
  <2> QED
    BY <2>5 DEF MeshIsComplete
<1> QED
  BY <1>1, MeshOfThoseWhoStay, PTL

=============================================================================
