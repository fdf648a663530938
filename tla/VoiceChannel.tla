---------------------------- MODULE VoiceChannel ----------------------------
(***************************************************************************)
(* One voice channel: the server of VoiceServer and the browsers that run  *)
(* useVoiceChannel (frontend/src/hooks/useVoiceChannel.ts), joined by one  *)
(* FIFO WebSocket per session.                                             *)
(*                                                                         *)
(* A message handler of the hook is an async function: what it awaits is a *)
(* task here, and other messages are handled while a task is suspended.    *)
(* The media plane and WebRTC itself are the browser's: of a peer          *)
(* connection the model keeps its signaling state, whose description it    *)
(* holds and whether it was given the candidates of that side.  The        *)
(* candidates of one side travel as one message, and a description is the  *)
(* identity of the connection that made it.                                *)
(***************************************************************************)
EXTENDS VoiceServer, FiniteSets

CONSTANTS
  PushToTalk,   \* sessions whose settings.mode is "ptt"
  Toggling,     \* bound: sessions whose user toggles mute, once
  Unsteady,     \* bound: sessions whose access, microphone or connection may fail
  Gathering     \* bound: sessions whose candidates are followed

ASSUME SessionsAssumption ==
  /\ PushToTalk \subseteq Sockets /\ Toggling \subseteq Sockets
  /\ Unsteady \subseteq Sockets /\ Gathering \subseteq Sockets

VARIABLE client     \* per socket, the run of the hook's effect that opens it

vars == <<serverVars, client>>

NoSdp == << >>

\* sig: signaling state; remote: the description set on it; heard: it was given
\* that side's candidates.
NewConnection(u) ==
  [user |-> u, sig |-> "new", remote |-> NoSdp, heard |-> FALSE]

NewClient == [phase |-> "off", left |-> FALSE, muted |-> FALSE, toggled |-> FALSE,
              participants |-> {}, pcs |-> << >>, peer |-> [u \in Users |-> 0],
              pending |-> [u \in Users |-> {}], tasks |-> {}]

Init == ServerInit /\ client = [s \in Sockets |-> NewClient]

SetClient(s, c) == client' = [client EXCEPT ![s] = c]

Sent(s, msgs) ==
  IF net[s] = "open" THEN [toServer EXCEPT ![s] = @ \o msgs] ELSE toServer

-----------------------------------------------------------------------------
(* connect and cleanup *)

\* One page per user: its effect was cleaned up before it runs again, although
\* the connect() of the earlier run may still go on.
Enter(s) ==
  /\ client[s].phase = "off"
  /\ \A t \in Sockets : Owner[t] = Owner[s] /\ t < s =>
       client[t].phase = "closed" \/ client[t].left
  /\ SetClient(s, [client[s] EXCEPT !.phase = "asking"])
  /\ UNCHANGED serverVars

Opened(s, muted) ==
  /\ SetClient(s, [client[s] EXCEPT !.phase = "open", !.muted = muted])
  /\ net' = [net EXCEPT ![s] = "open"]
  /\ UNCHANGED <<toServer, toClient, room, handler, overlapped>>

\* The ICE servers cannot be fetched, or come after the channel was left.
IceServersFail(s) ==
  /\ client[s].phase = "asking" /\ (s \in Unsteady \/ client[s].left)
  /\ SetClient(s, [client[s] EXCEPT !.phase = "closed"])
  /\ UNCHANGED serverVars

\* getUserMedia resolves; push-to-talk starts with the track disabled.
MicrophoneGranted(s) ==
  /\ client[s].phase = "asking" /\ ~client[s].left
  /\ Opened(s, s \in PushToTalk)

\* getUserMedia rejects: the session goes on as a listener, cancelled or not.
MicrophoneRefused(s) ==
  /\ client[s].phase = "asking" /\ s \in Unsteady
  /\ Opened(s, FALSE)

\* The effect is cleaned up: before the socket exists only the flag is set.
Leave(s) ==
  \/ /\ client[s].phase = "asking" /\ ~client[s].left
     /\ SetClient(s, [client[s] EXCEPT !.left = TRUE])
     /\ UNCHANGED serverVars
  \/ /\ client[s].phase = "open"
     /\ SetClient(s, [NewClient EXCEPT !.phase = "closed", !.left = TRUE])
     /\ net' = [net EXCEPT ![s] = "gone"]
     /\ toClient' = [toClient EXCEPT ![s] = << >>]
     /\ UNCHANGED <<toServer, room, handler, overlapped>>

\* The connection is lost: what was on the way is lost too; the hook only shows it.
Drop(s) ==
  /\ client[s].phase = "open" /\ net[s] = "open" /\ s \in Unsteady
  /\ net' = [net EXCEPT ![s] = "gone"]
  /\ toClient' = [toClient EXCEPT ![s] = << >>]
  /\ toServer' = [toServer EXCEPT ![s] = << >>]
  /\ UNCHANGED <<room, handler, overlapped, client>>

\* applyMuted, from the button or from push-to-talk.
ToggleMute(s) ==
  /\ s \in Toggling /\ ~client[s].toggled
  /\ client[s].phase = "open" /\ net[s] = "open"
  /\ SetClient(s, [client[s] EXCEPT !.muted = ~@, !.toggled = TRUE])
  /\ toServer' = Sent(s, <<[type |-> "mute", muted |-> ~client[s].muted]>>)
  /\ UNCHANGED <<net, toClient, room, handler, overlapped>>

-----------------------------------------------------------------------------
(* onmessage: what a case does before its first await *)

\* createPeerConnection: the entry of peersRef is overwritten, not closed.
WithConnection(c, u) ==
  [c EXCEPT !.pcs = Append(@, NewConnection(u)), !.peer[u] = Len(c.pcs) + 1]

WithTask(c, kind, pc, sdp, rest) ==
  [c EXCEPT !.tasks = @ \cup {[kind |-> kind, pc |-> pc, sdp |-> sdp, rest |-> rest]}]

\* The loop over "peers": the next connection, and its createOffer.
OfferNext(c, rest) ==
  IF rest = {} THEN {c}
  ELSE {WithTask(WithConnection(c, u), "offer", Len(c.pcs) + 1, NoSdp, rest \ {u}) : u \in rest}

\* peer-left: the pending candidates of the user stay.
Forgotten(c, u) ==
  [c EXCEPT !.pcs = IF c.peer[u] = 0 THEN @ ELSE [@ EXCEPT ![c.peer[u]].sig = "closed"],
            !.peer[u] = 0,
            !.participants = {p \in @ : p.user # u}]

\* Mutant: candidates that come before the description are dropped.
WithCandidateDropped(c, u, sdp) ==
  IF c.peer[u] # 0 /\ c.pcs[c.peer[u]].remote = sdp
  THEN [c EXCEPT !.pcs[c.peer[u]].heard = TRUE] ELSE c

\* ice-candidate: given to the connection if it has a description, else kept.
WithCandidate(c, u, sdp) ==
  LET i == c.peer[u] IN
  IF i # 0 /\ c.pcs[i].remote # NoSdp
  THEN [c EXCEPT !.pcs[i].heard = @ \/ c.pcs[i].remote = sdp]
  ELSE [c EXCEPT !.pending[u] = @ \cup {sdp}]

Handled(c, m) ==
  CASE m.type = "peers"        -> OfferNext([c EXCEPT !.participants = m.peers],
                                            {p.user : p \in m.peers})
    [] m.type = "peer-joined"  -> {[c EXCEPT !.participants =
                                      @ \cup {[user |-> m.user, muted |-> FALSE]}]}
    [] m.type = "peer-left"    -> {Forgotten(c, m.user)}
    [] m.type = "mute-changed" -> {[c EXCEPT !.participants =
                                      {IF p.user = m.user THEN [p EXCEPT !.muted = m.muted]
                                       ELSE p : p \in @}]}
    [] m.type = "offer"        -> {WithTask(WithConnection(c, m.from), "accept",
                                            Len(c.pcs) + 1, m.sdp, {})}
    [] m.type = "answer"       -> {IF c.peer[m.from] = 0 THEN c
                                   ELSE WithTask(c, "answered", c.peer[m.from], m.sdp, {})}
    [] m.type = "ice-candidate" -> {WithCandidate(c, m.from, m.sdp)}

OnMessage(s) ==
  /\ client[s].phase = "open" /\ net[s] = "open" /\ toClient[s] # << >>
  /\ \E c \in Handled(client[s], Head(toClient[s])) : SetClient(s, c)
  /\ toClient' = [toClient EXCEPT ![s] = Tail(@)]
  /\ UNCHANGED <<net, toServer, room, handler, overlapped>>

-----------------------------------------------------------------------------
(* onmessage: what follows an await *)

Without(c, k) == [c EXCEPT !.tasks = @ \ {k}]

Resumed(s, c, msgs) ==
  /\ SetClient(s, c)
  /\ toServer' = Sent(s, msgs)
  /\ UNCHANGED <<net, toClient, room, handler, overlapped>>

\* A promise of a closed connection rejects, or never settles: either way the
\* rest of the handler does not run.
Rejected(s, k) ==
  /\ \/ client[s].pcs[k.pc].sig = "closed"
     \/ k.kind = "answered" /\ client[s].pcs[k.pc].sig # "offering"
  /\ Resumed(s, Without(client[s], k), << >>)

\* onicecandidate follows setLocalDescription.
Description(kind, s, i) ==
  LET Signal(type) == [type |-> type, to |-> client[s].pcs[i].user, sdp |-> <<s, i>>] IN
  IF s \in Gathering THEN <<Signal(kind), Signal("ice-candidate")>> ELSE <<Signal(kind)>>

Usable(s, k, kind) == k.kind = kind /\ client[s].pcs[k.pc].sig # "closed"

\* createOffer and setLocalDescription: the offer goes out, then the next peer.
OfferReady(s, k) ==
  /\ Usable(s, k, "offer")
  /\ LET c == [Without(client[s], k) EXCEPT !.pcs[k.pc].sig = "offering"] IN
     \E c2 \in OfferNext(c, k.rest) :
       Resumed(s, c2, Description("offer", s, k.pc))

\* setRemoteDescription, then addPendingIce; a candidate of an earlier
\* connection of that user may be ignored, or reject and end the handler.
Described(s, k, sig, next) ==
  LET c == Without(client[s], k)
      u == c.pcs[k.pc].user
      d == [c EXCEPT !.pcs[k.pc].sig = sig, !.pcs[k.pc].remote = k.sdp,
                     !.pcs[k.pc].heard = k.sdp \in c.pending[u], !.pending[u] = {}]
  IN \/ Resumed(s, IF next THEN WithTask(d, "reply", k.pc, NoSdp, {}) ELSE d, << >>)
     \/ c.pending[u] \ {k.sdp} # {} /\ Resumed(s, d, << >>)

AcceptOffer(s, k) == Usable(s, k, "accept") /\ Described(s, k, "accepting", TRUE)

Answered(s, k) ==
  /\ Usable(s, k, "answered") /\ client[s].pcs[k.pc].sig = "offering"
  /\ Described(s, k, "stable", FALSE)

\* createAnswer and setLocalDescription.
Reply(s, k) ==
  /\ Usable(s, k, "reply")
  /\ LET c == [Without(client[s], k) EXCEPT !.pcs[k.pc].sig = "stable"] IN
     Resumed(s, c, Description("answer", s, k.pc))

Task(s) ==
  \E k \in client[s].tasks : \/ Rejected(s, k) \/ OfferReady(s, k)
                             \/ AcceptOffer(s, k) \/ Reply(s, k) \/ Answered(s, k)

-----------------------------------------------------------------------------

ClientStep(s) == OnMessage(s) \/ Task(s)

UserStep(s) ==
  \/ Enter(s) \/ IceServersFail(s) \/ MicrophoneGranted(s) \/ MicrophoneRefused(s)
  \/ Leave(s) \/ Drop(s) \/ ToggleMute(s)

Next ==
  \E s \in Sockets : \/ ServerStep(s) /\ UNCHANGED client
                     \/ s \in Unsteady /\ Refuse(s) /\ UNCHANGED client
                     \/ ClientStep(s)
                     \/ UserStep(s)

Spec == Init /\ [][Next]_vars

-----------------------------------------------------------------------------
(* Properties *)

\* Nothing is on its way: no message, no suspended handler, nobody arriving or
\* leaving.
Quiescent ==
  \A s \in Sockets :
    /\ net[s] = "open" => toServer[s] = << >> /\ toClient[s] = << >> /\ handler[s].pc = "serve"
    /\ net[s] = "gone" => handler[s].pc \in {"ended", "broken"}
    /\ client[s].tasks = {}

\* The only session its user ever connected.
Sole(s) ==
  net[s] = "open" /\ \A t \in Sockets : Owner[t] = Owner[s] /\ net[t] # "unused" => t = s

Connected(s, t) ==
  LET i == client[s].peer[Owner[t]] IN
  /\ i # 0
  /\ client[s].pcs[i].sig = "stable"
  /\ client[s].pcs[i].heard \/ t \notin Gathering
  /\ client[s].pcs[i].remote = <<t, client[t].peer[Owner[s]]>>

(* When everything has arrived, two participants that did not reconnect have one
   connection with each other, each holding the other's description and
   candidates: candidates that overtake the description are not lost, and never
   do both sides offer or both wait. *)
MeshIsComplete ==
  Quiescent => \A s, t \in Sockets : Sole(s) /\ Sole(t) /\ s # t => Connected(s, t)

(* "The newcomer sends an offer to everybody in the participant list it is sent"
   (voice.py:7-8): so two participants who stay have a connection, whoever else
   comes and goes. *)
NewcomerOffersToAll ==
  Quiescent => \A s, t \in Sockets :
    Sole(s) /\ Sole(t) /\ s # t => client[s].peer[Owner[t]] # 0

\* No socket of any user broke while joining, or overlapped with another.
Undisturbed ==
  overlapped = {} /\ \A s \in Sockets : handler[s].pc # "broken"

(* Undisturbed, the list a participant sees is the room without himself, mute
   flags included, and the room's flag is the state of his own microphone -
   except under push-to-talk until the key is first pressed: that session starts
   muted and nobody is told. *)
ListsAgree ==
  Quiescent /\ Undisturbed =>
    \A s \in Sockets : net[s] = "open" =>
      /\ client[s].participants =
           {[user |-> u, muted |-> room[u].muted] : u \in Present(room) \ {Owner[s]}}
      /\ room[Owner[s]].muted = client[s].muted \/ (s \in PushToTalk /\ ~client[s].toggled)

=============================================================================
