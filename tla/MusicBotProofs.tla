--------------------------- MODULE MusicBotProofs ---------------------------
(***************************************************************************)
(* Proofs about MusicBot for any number of commands, sessions and voice    *)
(* channels: what keeps the queue and its timer in step, although commands *)
(* come from threads that may have given up long before their coroutine    *)
(* runs, and what keeps the bot in the room of the session the server has, *)
(* although the session and the room are set by different steps.           *)
(***************************************************************************)
EXTENDS MusicBot, SequenceTheorems, TLAPS

Channels == VoiceChannels \cup {"none"}

MusicSession == [channel : Channels, queue : Seq(Nat), current : Nat, added : Nat,
                 timers : SUBSET Nat, task : Nat, stalled : BOOLEAN]

Command == [op : {"muzik-katil", "muzik-ayril", "muzik-ekle", "muzik-sonraki"},
            thread : {"create", "wait", "done"},
            coroutine : {"none", "ready", "offering", "closing", "returned", "raised"},
            session : Nat, channel : Channels]

\* What _advance may rely on: the numbers in the queue end with the last one
\* added, and no timer runs but the one that task refers to.
Orderly(x) ==
  /\ x \in MusicSession
  /\ Len(x.queue) <= x.added
  /\ \A i \in 1..Len(x.queue) : x.queue[i] = x.added - Len(x.queue) + i
  /\ x.current # NoTrack => x.current = x.added - Len(x.queue)
  /\ x.timers \subseteq {x.task} /\ NoTrack \notin x.timers
  /\ x.task # NoTrack => x.task = x.current

\* What it leaves behind.
PlaysOn(x) ==
  /\ Orderly(x)
  /\ x.current # NoTrack /\ ~x.stalled => x.timers = {x.current}

SessionsPlayOn ==
  /\ sessions \in Seq(MusicSession)
  /\ \A s \in DOMAIN sessions : PlaysOn(sessions[s])

CommandTypes == command \in Seq(Command) /\ sessionOf \in Nat

MusicInv == SessionsPlayOn /\ CommandTypes

-----------------------------------------------------------------------------
(* Sessions *)

LEMMA NewSessionPlaysOn ==
  ASSUME NEW c \in Channels
  PROVE  /\ [NoMusicSession EXCEPT !.channel = c] \in MusicSession
         /\ PlaysOn([NoMusicSession EXCEPT !.channel = c])
<1>1. << >> \in Seq(Nat) /\ Len(<< >>) = 0
  BY EmptySeq
<1>2. PICK r : r = NoMusicSession
  OBVIOUS
<1>3. /\ r \in MusicSession
      /\ r.queue = << >> /\ r.current = 0 /\ r.added = 0 /\ r.timers = {} /\ r.task = 0
  BY <1>1, <1>2 DEF NoMusicSession, MusicSession, Channels, NoTrack
<1> DEFINE x == [r EXCEPT !.channel = c]
<1>4. /\ x \in MusicSession
      /\ x.queue = << >> /\ x.current = 0 /\ x.added = 0 /\ x.timers = {} /\ x.task = 0
  BY <1>3 DEF MusicSession
<1> HIDE DEF x
<1>5. PlaysOn(x)
  BY <1>1, <1>4 DEF PlaysOn, Orderly, NoTrack
<1> QED
  BY <1>2, <1>4, <1>5 DEF x

\* play_now: the next track is taken, and its timer starts or not.
LEMMA PlayedPlaysOn ==
  ASSUME NEW x, Orderly(x), x.queue # << >>, x.timers = {}, x.task = NoTrack,
         NEW z \in Played(x)
  PROVE  PlaysOn(z)
<1> DEFINE n == Len(x.queue)
           next == Head(x.queue)
           rest == Tail(x.queue)
<1>1. x \in MusicSession /\ x.queue \in Seq(Nat) /\ x.added \in Nat
  BY DEF Orderly, MusicSession
<1>2. n \in Nat \ {0} /\ n <= x.added
  BY <1>1, EmptySeq DEF Orderly
<1>3. next = x.added - n + 1 /\ next \in Nat /\ next # NoTrack
  <2>1. next = x.queue[1]
    BY <1>1
  <2>2. x.queue[1] = x.added - n + 1
    BY <1>2 DEF Orderly
  <2> QED
    BY <1>1, <1>2, <2>1, <2>2 DEF NoTrack
<1>4. /\ rest \in Seq(Nat) /\ Len(rest) = n - 1
      /\ \A i \in 1..Len(rest) : rest[i] = x.queue[i + 1]
  BY <1>1, HeadTailProperties
<1>5. /\ z \in MusicSession
      /\ z.queue = rest /\ z.current = next /\ z.added = x.added
      /\ \/ z.timers = {next} /\ z.task = next
         \/ z.timers = {} /\ z.task = NoTrack /\ z.stalled
  <2> DEFINE y == [x EXCEPT !.queue = rest, !.current = next]
  <2>1. /\ y \in MusicSession /\ y.queue = rest /\ y.current = next /\ y.added = x.added
        /\ y.timers = {} /\ y.task = NoTrack
    <3> HIDE DEF rest, next
    <3> QED
      BY <1>1, <1>3, <1>4 DEF MusicSession
  <2>2. z \in {[y EXCEPT !.timers = @ \cup {next}, !.task = next, !.stalled = FALSE],
               [y EXCEPT !.stalled = TRUE]}
    BY DEF Played
  <2> HIDE DEF y, next, rest
  <2>3. CASE z = [y EXCEPT !.timers = @ \cup {next}, !.task = next, !.stalled = FALSE]
    BY <1>3, <2>1, <2>3 DEF MusicSession
  <2>4. CASE z = [y EXCEPT !.stalled = TRUE]
    BY <2>1, <2>4 DEF MusicSession
  <2> QED
    BY <2>2, <2>3, <2>4
<1> HIDE DEF next, rest
<1>6. \A i \in 1..Len(rest) : rest[i] = x.added - Len(rest) + i
  <2> SUFFICES ASSUME NEW i \in 1..Len(rest) PROVE rest[i] = x.added - Len(rest) + i
    OBVIOUS
  <2>1. i + 1 \in 1..n
    BY <1>2, <1>4
  <2>2. x.queue[i + 1] = x.added - n + (i + 1)
    BY <2>1 DEF Orderly
  <2>3. rest[i] = x.queue[i + 1]
    BY <1>4
  <2>4. i \in Int /\ Len(rest) = n - 1 /\ n \in Int /\ x.added \in Int
    BY <1>1, <1>2, <1>4
  <2> HIDE DEF n
  <2>5. x.added - n + (i + 1) = x.added - (n - 1) + i
    BY <2>4
  <2> QED
    BY <2>2, <2>3, <2>4, <2>5, Zenon
<1>7. Len(rest) <= x.added /\ next = x.added - Len(rest)
  BY <1>1, <1>2, <1>3, <1>4
<1> QED
  BY <1>3, <1>5, <1>6, <1>7 DEF PlaysOn, Orderly

LEMMA AdvancedPlaysOn ==
  ASSUME NEW x, Orderly(x), NEW z \in Advanced(x)
  PROVE  PlaysOn(z)
<1> DEFINE y == [x EXCEPT !.timers = @ \ {x.task}, !.task = NoTrack]
<1>1. x \in MusicSession /\ x.timers \subseteq {x.task}
  BY DEF Orderly
<1>2. /\ y \in MusicSession /\ y.queue = x.queue /\ y.current = x.current
      /\ y.added = x.added /\ y.timers = {} /\ y.task = NoTrack
  BY <1>1 DEF MusicSession, NoTrack
<1>3. CASE x.queue = << >>
  <2>1. z = [y EXCEPT !.current = NoTrack]
    BY <1>3 DEF Advanced
  <2> HIDE DEF y
  <2>2. /\ z \in MusicSession /\ z.queue = x.queue /\ z.current = NoTrack
        /\ z.added = x.added /\ z.timers = {} /\ z.task = NoTrack
    BY <1>2, <2>1 DEF MusicSession, NoTrack
  <2> QED
    BY <2>2 DEF PlaysOn, Orderly
<1>4. CASE x.queue # << >>
  <2>1. z \in Played(y)
    BY <1>4 DEF Advanced
  <2> HIDE DEF y
  <2>2. Orderly(y)
    BY <1>2 DEF Orderly
  <2> QED
    BY <1>2, <1>4, <2>1, <2>2, PlayedPlaysOn
<1> QED
  BY <1>3, <1>4

\* A track is added at the end.
LEMMA EnqueuedIsOrderly ==
  ASSUME NEW x, Orderly(x)
  PROVE  LET y == [x EXCEPT !.added = @ + 1, !.queue = Append(@, x.added + 1)] IN
         /\ Orderly(y)
         /\ y.current = x.current /\ y.timers = x.timers /\ y.stalled = x.stalled
<1> DEFINE q == Append(x.queue, x.added + 1)
           y == [x EXCEPT !.added = @ + 1, !.queue = q]
<1>1. /\ x \in MusicSession /\ x.queue \in Seq(Nat) /\ x.added \in Nat
      /\ Len(x.queue) \in Nat /\ Len(x.queue) <= x.added
  BY LenProperties DEF Orderly, MusicSession
<1>2. /\ q \in Seq(Nat) /\ Len(q) = Len(x.queue) + 1
      /\ \A i \in 1..Len(x.queue) : q[i] = x.queue[i]
      /\ q[Len(x.queue) + 1] = x.added + 1
  BY <1>1, AppendProperties
<1> HIDE DEF q
<1>3. /\ y \in MusicSession /\ y.queue = q /\ y.added = x.added + 1
      /\ y.current = x.current /\ y.timers = x.timers
      /\ y.task = x.task /\ y.stalled = x.stalled
  <2>1. PICK n \in Nat : n = x.added + 1
    BY <1>1
  <2>2. y = [x EXCEPT !.added = n, !.queue = q]
    BY <2>1
  <2> HIDE DEF y
  <2> QED
    BY <1>1, <1>2, <2>1, <2>2 DEF MusicSession
<1> HIDE DEF y
<1>4. \A i \in 1..Len(q) : q[i] = (x.added + 1) - Len(q) + i
  <2> SUFFICES ASSUME NEW i \in 1..Len(q) PROVE q[i] = (x.added + 1) - Len(q) + i
    OBVIOUS
  <2>1. CASE i = Len(x.queue) + 1
    BY <1>1, <1>2, <2>1
  <2>2. CASE i \in 1..Len(x.queue)
    <3>1. q[i] = x.added - Len(x.queue) + i
      BY <1>2, <2>2 DEF Orderly
    <3>2. Len(q) = Len(x.queue) + 1 /\ i \in Int /\ Len(x.queue) \in Int /\ x.added \in Int
      BY <1>1, <1>2
    <3> QED
      BY <3>1, <3>2
  <2> QED
    BY <1>1, <1>2, <2>1, <2>2
<1>5. Len(q) <= x.added + 1 /\ (x.added + 1) - Len(q) = x.added - Len(x.queue)
  BY <1>1, <1>2
<1>6. Orderly(y)
  BY <1>3, <1>4, <1>5 DEF Orderly
<1> QED
  BY <1>3, <1>6 DEF y, q

-----------------------------------------------------------------------------
(* The table of sessions and the commands *)

\* One session changes; a number that names none changes nothing.
LEMMA SessionBecomes ==
  ASSUME SessionsPlayOn, NEW s, NEW z, s \in DOMAIN sessions => PlaysOn(z),
         sessions' = [sessions EXCEPT ![s] = z]
  PROVE  SessionsPlayOn'
<1>1. sessions \in Seq(MusicSession) /\ DOMAIN sessions = 1..Len(sessions)
  BY LenProperties DEF SessionsPlayOn
<1>2. CASE s \notin DOMAIN sessions
  <2>1. sessions' = sessions
    <3>1. sessions = [i \in DOMAIN sessions |-> sessions[i]]
      BY <1>1, LenProperties
    <3> QED
      BY <1>2, <3>1
  <2> QED
    BY <2>1 DEF SessionsPlayOn
<1>3. CASE s \in DOMAIN sessions
  <2>1. z \in MusicSession /\ PlaysOn(z)
    BY <1>3 DEF PlaysOn, Orderly
  <2> DEFINE t == [sessions EXCEPT ![s] = z]
  <2>2. /\ t \in Seq(MusicSession) /\ DOMAIN t = DOMAIN sessions
        /\ \A i \in DOMAIN sessions : t[i] = IF i = s THEN z ELSE sessions[i]
    BY <1>1, <1>3, <2>1, ExceptSeq
  <2>3. \A i \in DOMAIN t : PlaysOn(t[i])
    BY <2>1, <2>2 DEF SessionsPlayOn
  <2>4. sessions' = t
    OBVIOUS
  <2> HIDE DEF t
  <2> QED
    BY <2>2, <2>3, <2>4 DEF SessionsPlayOn
<1> QED
  BY <1>2, <1>3

\* A command goes on, or is over and forgotten.
LEMMA CommandBecomes ==
  ASSUME CommandTypes, NEW k \in DOMAIN command, NEW c \in Command, SetCommand(k, c)
  PROVE  command' \in Seq(Command)
<1>1. /\ command \in Seq(Command) /\ Len(command) \in Nat /\ k \in 1..Len(command)
      /\ \A i \in 1..Len(command) : command[i] \in Command
  BY LenProperties, ElementOfSeq DEF CommandTypes
<1>2. CASE command' = RemoveAt(command, k)
  <2>1. /\ k - 1 \in Int /\ k + 1 \in Int
        /\ \A i \in 1..(k - 1) : command[i] \in Command
        /\ \A i \in (k + 1)..Len(command) : command[i] \in Command
    BY <1>1
  <2>2. SubSeq(command, 1, k - 1) \in Seq(Command)
    BY <2>1, SubSeqProperties
  <2>3. SubSeq(command, k + 1, Len(command)) \in Seq(Command)
    BY <1>1, <2>1, SubSeqProperties
  <2> QED
    BY <1>2, <2>2, <2>3, ConcatProperties DEF RemoveAt
<1>3. CASE command' = [command EXCEPT ![k] = c]
  BY <1>1, <1>3, ExceptSeq
<1> QED
  BY <1>2, <1>3 DEF SetCommand

\* What SetCommand is given is a command.
LEMMA CommandGoesOn ==
  ASSUME CommandTypes, NEW k \in DOMAIN command
  PROVE  /\ command[k] \in Command
         /\ [command[k] EXCEPT !.thread = "done"] \in Command
         /\ \A at \in {"offering", "closing", "returned", "raised"} :
              [command[k] EXCEPT !.coroutine = at] \in Command
         /\ \A n \in Nat :
              [command[k] EXCEPT !.thread = "wait", !.coroutine = "ready", !.session = n] \in Command
<1>1. command[k] \in Command
  BY LenProperties, ElementOfSeq DEF CommandTypes
<1> DEFINE c == command[k]
<1> HIDE DEF c
<1>2. c \in Command
  BY <1>1 DEF c
<1>3. /\ [c EXCEPT !.thread = "done"] \in Command
      /\ \A at \in {"offering", "closing", "returned", "raised"} :
           [c EXCEPT !.coroutine = at] \in Command
      /\ \A n \in Nat :
           [c EXCEPT !.thread = "wait", !.coroutine = "ready", !.session = n] \in Command
  BY <1>2 DEF Command
<1> QED
  BY <1>1, <1>3 DEF c

LEMMA CoroutineBecomes ==
  ASSUME CommandTypes, NEW k \in DOMAIN command,
         NEW at \in {"offering", "closing", "returned", "raised"}, Coroutine(k, at)
  PROVE  command' \in Seq(Command)
BY CommandGoesOn, CommandBecomes DEF Coroutine

-----------------------------------------------------------------------------
(* The steps *)

LEMMA ReceiveKeepsInv ==
  ASSUME MusicInv, NEW v \in Channels,
         NEW op \in {"muzik-katil", "muzik-ayril", "muzik-ekle", "muzik-sonraki"}, Receive(op, v)
  PROVE  MusicInv'
<1>1. command \in Seq(Command) /\ sessionOf \in Nat
  BY DEF MusicInv, CommandTypes
<1> DEFINE c == IF op = "muzik-katil"
                THEN [NewCommand(op) EXCEPT !.thread = "create", !.coroutine = "none",
                                            !.channel = v]
                ELSE [NewCommand(op) EXCEPT !.session = sessionOf]
<1>2. c \in Command
  BY <1>1 DEF NewCommand, Command, Channels, NoSession
<1>3. command' = Append(command, c) /\ sessionOf' = sessionOf /\ sessions' = sessions
  BY DEF Receive
<1> HIDE DEF c
<1>4. command' \in Seq(Command)
  BY <1>1, <1>2, <1>3, AppendProperties
<1> QED
  BY <1>1, <1>3, <1>4 DEF MusicInv, SessionsPlayOn, CommandTypes

LEMMA CreateSessionKeepsInv ==
  ASSUME MusicInv, NEW k \in DOMAIN command, CreateSession(k)
  PROVE  MusicInv'
<1>1. SessionsPlayOn /\ CommandTypes
  BY DEF MusicInv
<1> DEFINE n == Len(sessions)
           x == [NoMusicSession EXCEPT !.channel = command[k].channel]
<1>2. x \in MusicSession /\ PlaysOn(x)
  <2>1. command[k] \in Command
    BY <1>1, CommandGoesOn
  <2>2. command[k].channel \in Channels
    BY <2>1 DEF Command
  <2> QED
    BY <2>2, NewSessionPlaysOn
<1>3. sessions' = Append(sessions, x) /\ sessionOf' = n + 1
  BY DEF CreateSession
<1>4. n \in Nat /\ sessions \in Seq(MusicSession) /\ DOMAIN sessions = 1..n
  BY <1>1, LenProperties DEF SessionsPlayOn
<1> HIDE DEF x
<1>5. /\ sessions' \in Seq(MusicSession)
      /\ DOMAIN sessions' = 1..(n + 1)
      /\ \A i \in 1..n : sessions'[i] = sessions[i]
      /\ sessions'[n + 1] = x
  <2>1. /\ Append(sessions, x) \in Seq(MusicSession)
        /\ Len(Append(sessions, x)) = n + 1
        /\ \A i \in 1..n : Append(sessions, x)[i] = sessions[i]
        /\ Append(sessions, x)[n + 1] = x
    BY <1>2, <1>4, AppendProperties
  <2> QED
    BY <1>3, <2>1, LenProperties
<1>6. SessionsPlayOn'
  <2>1. \A i \in 1..n : PlaysOn(sessions[i])
    BY <1>1, <1>4 DEF SessionsPlayOn
  <2>2. \A i \in 1..(n + 1) : i \in 1..n \/ i = n + 1
    BY <1>4
  <2>3. \A i \in DOMAIN sessions' : PlaysOn(sessions'[i])
    BY <1>2, <1>5, <2>1, <2>2
  <2> QED
    BY <1>5, <2>3 DEF SessionsPlayOn
<1>7. CommandTypes'
  <2>1. n + 1 \in Nat
    BY <1>4
  <2>2. command' \in Seq(Command)
    BY <1>1, <2>1, CommandGoesOn, CommandBecomes DEF CreateSession
  <2> QED
    BY <1>3, <2>1, <2>2 DEF CommandTypes
<1> QED
  BY <1>6, <1>7 DEF MusicInv

\* Steps of threads and coroutines that touch no session.
LEMMA CommandStepsKeepInv ==
  ASSUME MusicInv, NEW k \in DOMAIN command,
         Returned(k) \/ GivesUp(k) \/ JoinRoom(k) \/ JoinEnds(k) \/ LeaveRoom(k)
  PROVE  MusicInv'
<1>1. SessionsPlayOn /\ CommandTypes
  BY DEF MusicInv
<1>2. sessions' = sessions
  BY DEF Returned, GivesUp, JoinRoom, JoinEnds, LeaveRoom
<1>3. sessionOf' \in Nat
  BY <1>1 DEF CommandTypes, NoSession, Returned, GivesUp, JoinRoom, JoinEnds, LeaveRoom
<1>4. command' \in Seq(Command)
  <2>1. CASE SetCommand(k, [command[k] EXCEPT !.thread = "done"])
    BY <1>1, <2>1, CommandGoesOn, CommandBecomes
  <2>2. CASE \E at \in {"offering", "returned", "raised"} : Coroutine(k, at)
    BY <1>1, <2>2, CoroutineBecomes
  <2> QED
    BY <2>1, <2>2 DEF Returned, GivesUp, JoinRoom, JoinEnds, LeaveRoom
<1> QED
  BY <1>1, <1>2, <1>3, <1>4 DEF MusicInv, SessionsPlayOn, CommandTypes

LEMMA LeaveStopsTimerKeepsInv ==
  ASSUME MusicInv, NEW k \in DOMAIN command, LeaveStopsTimer(k)
  PROVE  MusicInv'
<1>1. SessionsPlayOn /\ CommandTypes
  BY DEF MusicInv
<1>2. PICK s : s = command[k].session
  OBVIOUS
<1> DEFINE x == sessions[s]
           z == [x EXCEPT !.timers = @ \ {x.task}, !.task = NoTrack, !.stalled = TRUE]
<1>3. sessions' = [sessions EXCEPT ![s] = z]
  BY <1>2 DEF LeaveStopsTimer
<1>4. s \in DOMAIN sessions => PlaysOn(z)
  <2> SUFFICES ASSUME s \in DOMAIN sessions PROVE PlaysOn(z)
    OBVIOUS
  <2>1. Orderly(x)
    BY <1>1 DEF SessionsPlayOn, PlaysOn
  <2> HIDE DEF x
  <2>2. /\ z \in MusicSession /\ z.queue = x.queue /\ z.current = x.current
        /\ z.added = x.added /\ z.timers = {} /\ z.task = NoTrack /\ z.stalled
    BY <2>1 DEF Orderly, MusicSession, NoTrack
  <2> HIDE DEF z
  <2> QED
    BY <2>1, <2>2 DEF PlaysOn, Orderly
<1> HIDE DEF z
<1>5. SessionsPlayOn'
  BY <1>1, <1>3, <1>4, SessionBecomes
<1>6. command' \in Seq(Command) /\ sessionOf' = sessionOf
  BY <1>1, CoroutineBecomes DEF LeaveStopsTimer
<1> QED
  BY <1>1, <1>5, <1>6 DEF MusicInv, CommandTypes

LEMMA EnqueueKeepsInv ==
  ASSUME MusicInv, NEW k \in DOMAIN command, EnqueueTrack(k)
  PROVE  MusicInv'
<1>1. SessionsPlayOn /\ CommandTypes
  BY DEF MusicInv
<1>2. PICK s : s = command[k].session
  OBVIOUS
<1> DEFINE x == sessions[s]
           y == [x EXCEPT !.added = @ + 1, !.queue = Append(@, x.added + 1)]
<1>3. PICK z \in (IF x.current = NoTrack THEN Advanced(y) ELSE {y}) :
        sessions' = [sessions EXCEPT ![s] = z]
  BY <1>2 DEF EnqueueTrack
<1>4. s \in DOMAIN sessions => PlaysOn(z)
  <2> SUFFICES ASSUME s \in DOMAIN sessions PROVE PlaysOn(z)
    OBVIOUS
  <2>1. PlaysOn(x) /\ Orderly(x)
    BY <1>1 DEF SessionsPlayOn, PlaysOn
  <2> HIDE DEF x
  <2>2. Orderly(y) /\ y.current = x.current /\ y.timers = x.timers /\ y.stalled = x.stalled
    BY <2>1, EnqueuedIsOrderly
  <2> HIDE DEF y
  <2>3. CASE x.current = NoTrack
    BY <1>3, <2>2, <2>3, AdvancedPlaysOn
  <2>4. CASE x.current # NoTrack
    BY <1>3, <2>1, <2>2, <2>4 DEF PlaysOn
  <2> QED
    BY <2>3, <2>4
<1> HIDE DEF y
<1>5. SessionsPlayOn'
  BY <1>1, <1>3, <1>4, SessionBecomes
<1>6. \E at \in {"raised", "returned"} : Coroutine(k, at)
  BY DEF EnqueueTrack
<1>7. command' \in Seq(Command) /\ sessionOf' = sessionOf
  BY <1>1, <1>6, CoroutineBecomes DEF EnqueueTrack
<1> QED
  BY <1>1, <1>5, <1>7 DEF MusicInv, CommandTypes

LEMMA SkipKeepsInv ==
  ASSUME MusicInv, NEW k \in DOMAIN command, Skip(k)
  PROVE  MusicInv'
<1>1. SessionsPlayOn /\ CommandTypes
  BY DEF MusicInv
<1>2. PICK s : s = command[k].session
  OBVIOUS
<1> DEFINE x == sessions[s]
<1>3. PICK z \in (IF x.current = NoTrack /\ x.queue = << >> THEN {x} ELSE Advanced(x)) :
        sessions' = [sessions EXCEPT ![s] = z]
  BY <1>2 DEF Skip
<1>4. s \in DOMAIN sessions => PlaysOn(z)
  <2> SUFFICES ASSUME s \in DOMAIN sessions PROVE PlaysOn(z)
    OBVIOUS
  <2>1. PlaysOn(x) /\ Orderly(x)
    BY <1>1 DEF SessionsPlayOn, PlaysOn
  <2> HIDE DEF x
  <2> QED
    BY <1>3, <2>1, AdvancedPlaysOn
<1>5. SessionsPlayOn'
  BY <1>1, <1>3, <1>4, SessionBecomes
<1>6. \E at \in {"raised", "returned"} : Coroutine(k, at)
  BY DEF Skip
<1>7. command' \in Seq(Command) /\ sessionOf' = sessionOf
  BY <1>1, <1>6, CoroutineBecomes DEF Skip
<1> QED
  BY <1>1, <1>5, <1>7 DEF MusicInv, CommandTypes

\* The timer that calls _advance is no longer one that runs.
LEMMA TimerEndsKeepsInv ==
  ASSUME MusicInv, NEW s \in DOMAIN sessions, TimerEnds(s)
  PROVE  MusicInv'
<1>1. SessionsPlayOn /\ CommandTypes
  BY DEF MusicInv
<1> DEFINE x == sessions[s]
<1>2. PICK i \in x.timers :
        /\ \E z \in Advanced([x EXCEPT !.timers = @ \ {i}]) : sessions' = [sessions EXCEPT ![s] = z]
        /\ UNCHANGED <<sessionOf, command>>
  BY DEF TimerEnds
<1> DEFINE y == [x EXCEPT !.timers = @ \ {i}]
<1>3. Orderly(y)
  <2>1. Orderly(x)
    BY <1>1 DEF SessionsPlayOn, PlaysOn
  <2> HIDE DEF x
  <2>2. /\ y \in MusicSession /\ y.queue = x.queue /\ y.current = x.current
        /\ y.added = x.added /\ y.timers \subseteq x.timers /\ y.task = x.task
    BY <2>1 DEF Orderly, MusicSession
  <2> HIDE DEF y
  <2> QED
    BY <2>1, <2>2 DEF Orderly
<1>4. PICK z \in Advanced(y) : sessions' = [sessions EXCEPT ![s] = z]
  BY <1>2
<1> HIDE DEF y
<1>5. SessionsPlayOn'
  BY <1>1, <1>3, <1>4, AdvancedPlaysOn, SessionBecomes
<1> QED
  BY <1>1, <1>2, <1>5 DEF MusicInv, CommandTypes

-----------------------------------------------------------------------------
(* The rooms: one command at a time joins or leaves *)

NobodyIn == voice = [v \in VoiceChannels |-> NoSession]

InPlace ==
  voice = [v \in VoiceChannels |->
             IF sessionOf # NoSession /\ sessions[sessionOf].channel = v
             THEN sessionOf ELSE NoSession]

\* Where the rooms are when a command that joins or leaves is so far.
Stage(c) ==
  /\ c.thread = "create" => /\ c.op = "muzik-katil" /\ c.coroutine = "none"
                            /\ sessionOf = NoSession /\ NobodyIn
  /\ c.thread # "create" =>
       /\ c.thread = "wait" /\ c.session = sessionOf /\ sessionOf # NoSession
       /\ c.op = "muzik-katil" =>
            /\ sessions[sessionOf].channel = c.channel
            /\ c.coroutine = "ready" => NobodyIn
            /\ c.coroutine # "ready" =>
                 c.coroutine \in {"offering", "returned", "raised"} /\ InPlace
       /\ c.op = "muzik-ayril" =>
            /\ c.coroutine = "returned" => NobodyIn
            /\ c.coroutine # "returned" =>
                 c.coroutine \in {"ready", "closing"} /\ InPlace

Moves(k) == command[k].op \in JoinOrLeave

RoomInv ==
  /\ sessionOf = NoSession \/ sessionOf \in DOMAIN sessions
  /\ \A k \in DOMAIN command : command[k].thread = "create" => Moves(k)
  /\ ~muddled =>
       /\ \A k, l \in DOMAIN command : Moves(k) /\ Moves(l) => k = l
       /\ \A k \in DOMAIN command : Moves(k) => Stage(command[k])
       /\ (\A k \in DOMAIN command : ~Moves(k)) => InPlace

\* The sessions keep their numbers and their channels.
SessionsStay ==
  /\ DOMAIN sessions \subseteq DOMAIN sessions'
  /\ \A s \in DOMAIN sessions : sessions'[s].channel = sessions[s].channel

\* The place a command had before the one at k was removed.
Was(i, k) == IF i < k THEN i ELSE i + 1

LEMMA RemoveAtProperties ==
  ASSUME NEW S, NEW list \in Seq(S), NEW k \in 1..Len(list)
  PROVE  /\ DOMAIN RemoveAt(list, k) = 1..(Len(list) - 1)
         /\ \A i \in 1..(Len(list) - 1) :
              Was(i, k) \in 1..Len(list) /\ RemoveAt(list, k)[i] = list[Was(i, k)]
<1> DEFINE n == Len(list)
           a == SubSeq(list, 1, k - 1)
           b == SubSeq(list, k + 1, n)
<1>1. n \in Nat /\ k \in Int /\ k - 1 \in Nat /\ k + 1 \in Int /\ k <= n /\ n \in Int
  BY LenProperties
<1>2. \A i \in 1..n : list[i] \in S
  BY ElementOfSeq
<1>3. /\ a \in Seq(S) /\ Len(a) = k - 1 /\ \A i \in 1..(k - 1) : a[i] = list[i]
  <2>1. \A i \in 1..(k - 1) : list[i] \in S
    BY <1>1, <1>2
  <2>2. /\ a \in Seq(S)
        /\ Len(a) = IF 1 <= k - 1 THEN (k - 1) - 1 + 1 ELSE 0
        /\ \A i \in 1..((k - 1) - 1 + 1) : a[i] = list[1 + i - 1]
    BY <1>1, <2>1, SubSeqProperties
  <2> HIDE DEF a
  <2> QED
    BY <1>1, <2>2
<1>4. /\ b \in Seq(S) /\ Len(b) = n - k /\ \A i \in 1..(n - k) : b[i] = list[k + i]
  <2>1. \A i \in (k + 1)..n : list[i] \in S
    BY <1>1, <1>2
  <2>2. /\ b \in Seq(S)
        /\ Len(b) = IF k + 1 <= n THEN n - (k + 1) + 1 ELSE 0
        /\ \A i \in 1..(n - (k + 1) + 1) : b[i] = list[(k + 1) + i - 1]
    BY <1>1, <2>1, SubSeqProperties
  <2> HIDE DEF b
  <2> QED
    BY <1>1, <2>2
<1> HIDE DEF a, b
<1>5. /\ a \o b \in Seq(S) /\ Len(a \o b) = n - 1
      /\ \A i \in 1..(n - 1) : (a \o b)[i] = IF i <= k - 1 THEN a[i] ELSE b[i - (k - 1)]
  <2>1. /\ a \o b \in Seq(S) /\ Len(a \o b) = Len(a) + Len(b)
        /\ \A i \in 1..(Len(a) + Len(b)) :
             (a \o b)[i] = IF i <= Len(a) THEN a[i] ELSE b[i - Len(a)]
    BY <1>3, <1>4, ConcatProperties
  <2>2. Len(a) + Len(b) = n - 1
    BY <1>1, <1>3, <1>4
  <2> QED
    BY <1>3, <2>1, <2>2
<1>6. RemoveAt(list, k) = a \o b
  BY DEF RemoveAt, a, b
<1>7. ASSUME NEW i \in 1..(n - 1)
      PROVE  Was(i, k) \in 1..n /\ (a \o b)[i] = list[Was(i, k)]
  <2>1. CASE i < k
    BY <1>1, <1>3, <1>5, <2>1 DEF Was
  <2>2. CASE ~(i < k)
    <3>1. i - (k - 1) \in 1..(n - k) /\ k + (i - (k - 1)) = i + 1 /\ ~(i <= k - 1)
      BY <1>1, <2>2
    <3>2. b[i - (k - 1)] = list[i + 1]
      BY <1>4, <3>1
    <3> QED
      BY <1>1, <1>5, <2>2, <3>1, <3>2 DEF Was
  <2> QED
    BY <2>1, <2>2
<1> QED
  BY <1>5, <1>6, <1>7, LenProperties

\* What becomes of the commands when the one at k changes: it is over, and the others
\* keep their order, or it goes on at its place.
LEMMA CommandsAfter ==
  ASSUME CommandTypes, NEW k \in DOMAIN command, NEW c \in Command, SetCommand(k, c)
  PROVE  /\ Over(c) =>
              /\ \A i \in DOMAIN command' : /\ Was(i, k) \in DOMAIN command \ {k}
                                            /\ command'[i] = command[Was(i, k)]
              /\ \A i, j \in DOMAIN command' : Was(i, k) = Was(j, k) => i = j
              /\ \A j \in DOMAIN command \ {k} : \E i \in DOMAIN command' : Was(i, k) = j
         /\ ~Over(c) =>
              /\ DOMAIN command' = DOMAIN command /\ command'[k] = c
              /\ \A i \in DOMAIN command \ {k} : command'[i] = command[i]
<1>1. /\ command \in Seq(Command) /\ Len(command) \in Nat
      /\ DOMAIN command = 1..Len(command) /\ k \in 1..Len(command)
  BY LenProperties DEF CommandTypes
<1>2. CASE Over(c)
  <2>1. command' = RemoveAt(command, k)
    BY <1>2 DEF SetCommand
  <2>2. /\ DOMAIN command' = 1..(Len(command) - 1)
        /\ \A i \in 1..(Len(command) - 1) :
             Was(i, k) \in 1..Len(command) /\ command'[i] = command[Was(i, k)]
    BY <1>1, <2>1, RemoveAtProperties
  <2>3. \A i \in 1..(Len(command) - 1) : Was(i, k) # k
    BY <1>1 DEF Was
  <2>4. \A i, j \in 1..(Len(command) - 1) : Was(i, k) = Was(j, k) => i = j
    BY <1>1 DEF Was
  <2>5. ASSUME NEW j \in 1..Len(command), j # k
        PROVE  \E i \in 1..(Len(command) - 1) : Was(i, k) = j
    <3>1. CASE j < k
      BY <1>1, <3>1 DEF Was
    <3>2. CASE j > k
      <4>1. j - 1 \in 1..(Len(command) - 1) /\ Was(j - 1, k) = j
        BY <1>1, <3>2 DEF Was
      <4> QED
        BY <4>1
    <3> QED
      BY <1>1, <2>5, <3>1, <3>2
  <2> QED
    BY <1>1, <1>2, <2>2, <2>3, <2>4, <2>5
<1>3. CASE ~Over(c)
  BY <1>1, <1>3 DEF SetCommand
<1> QED
  BY <1>2, <1>3

\* The rooms, and what they say of a command, while only the queues change.
LEMMA RoomsStay ==
  ASSUME RoomInv, SessionsStay, UNCHANGED <<sessionOf, voice>>
  PROVE  /\ sessionOf' = NoSession \/ sessionOf' \in DOMAIN sessions'
         /\ InPlace => InPlace'
         /\ NobodyIn => NobodyIn'
         /\ \A c : Stage(c) => Stage(c)'
<1>1. sessionOf' = NoSession \/ sessionOf' \in DOMAIN sessions'
  BY DEF RoomInv, SessionsStay
<1>2. sessionOf # NoSession => sessions'[sessionOf'].channel = sessions[sessionOf].channel
  BY DEF RoomInv, SessionsStay
<1>3. InPlace => InPlace'
  BY <1>2 DEF InPlace
<1>4. NobodyIn => NobodyIn'
  BY DEF NobodyIn
<1>5. ASSUME NEW c, Stage(c)
      PROVE  Stage(c)'
  BY <1>2, <1>3, <1>4, <1>5 DEF Stage
<1> QED
  BY <1>1, <1>3, <1>4, <1>5

\* A step of a command that neither joins nor leaves.
LEMMA OthersGoOn ==
  ASSUME RoomInv, CommandTypes, NEW k \in DOMAIN command, ~Moves(k),
         NEW c \in Command, SetCommand(k, c), c.op = command[k].op, c.thread # "create",
         SessionsStay, UNCHANGED <<sessionOf, voice>>, ~muddled' => ~muddled
  PROVE  RoomInv'
<1>1. /\ sessionOf' = NoSession \/ sessionOf' \in DOMAIN sessions'
      /\ InPlace => InPlace'
      /\ \A d : Stage(d) => Stage(d)'
  BY RoomsStay
<1> DEFINE old(i) == IF Over(c) THEN Was(i, k) ELSE i
<1>2. ASSUME NEW i \in DOMAIN command'
      PROVE  /\ old(i) \in DOMAIN command
             /\ old(i) # k => command'[i] = command[old(i)]
             /\ old(i) = k => command'[i] = c
  BY CommandsAfter
<1>3. \A i, j \in DOMAIN command' : old(i) = old(j) => i = j
  BY CommandsAfter
<1>4. \A j \in DOMAIN command \ {k} : \E i \in DOMAIN command' : old(i) = j
  BY CommandsAfter
<1> HIDE DEF old
<1>5. \A i \in DOMAIN command' : Moves(i)' <=> Moves(old(i))
  BY <1>2 DEF Moves
<1>6. ASSUME NEW i \in DOMAIN command', command'[i].thread = "create"
      PROVE  Moves(i)'
  BY <1>2, <1>5, <1>6 DEF RoomInv
<1>7. ASSUME ~muddled'
      PROVE  /\ \A i, j \in DOMAIN command' : Moves(i)' /\ Moves(j)' => i = j
             /\ \A i \in DOMAIN command' : Moves(i)' => Stage(command[i])'
             /\ (\A i \in DOMAIN command' : ~Moves(i)') => InPlace'
  <2>1. \A i, j \in DOMAIN command' : Moves(i)' /\ Moves(j)' => i = j
    BY <1>2, <1>3, <1>5, <1>7 DEF RoomInv
  <2>2. ASSUME NEW i \in DOMAIN command', Moves(i)'
        PROVE  Stage(command[i])'
    <3>1. Moves(old(i)) /\ old(i) # k /\ old(i) \in DOMAIN command
      BY <1>2, <1>5, <2>2
    <3>2. PICK d : d = command[old(i)]
      OBVIOUS
    <3>3. Stage(d)
      BY <1>7, <3>1, <3>2 DEF RoomInv
    <3>4. Stage(d)'
      BY <1>1, <3>3
    <3>5. command'[i] = d
      BY <1>2, <3>1, <3>2
    <3> QED
      BY <3>4, <3>5 DEF Stage
  <2>3. ASSUME \A i \in DOMAIN command' : ~Moves(i)'
        PROVE  InPlace'
    <3>1. \A j \in DOMAIN command : ~Moves(j)
      BY <1>4, <1>5, <2>3
    <3> QED
      BY <1>1, <1>7, <3>1 DEF RoomInv
  <2> QED
    BY <2>1, <2>2, <2>3
<1> QED
  BY <1>1, <1>6, <1>7 DEF RoomInv

\* A step of the command that joins or leaves: where it is then, or that it is over.
LEMMA MoverGoesOn ==
  ASSUME RoomInv, CommandTypes, NEW k \in DOMAIN command, Moves(k),
         NEW c \in Command, SetCommand(k, c), c.op = command[k].op,
         sessionOf' = NoSession \/ sessionOf' \in DOMAIN sessions',
         ~muddled' => ~muddled,
         ~muddled' => IF Over(c) THEN InPlace' ELSE Stage(c)'
  PROVE  RoomInv'
<1>1. CASE Over(c)
  <2>1. /\ \A i \in DOMAIN command' : /\ Was(i, k) \in DOMAIN command \ {k}
                                      /\ command'[i] = command[Was(i, k)]
    BY <1>1, CommandsAfter
  <2>2. \A i \in DOMAIN command' : Moves(i)' <=> Moves(Was(i, k))
    BY <2>1 DEF Moves
  <2>3. \A i \in DOMAIN command' : command'[i].thread = "create" => Moves(i)'
    BY <2>1, <2>2 DEF RoomInv
  <2>4. ~muddled' => \A i \in DOMAIN command' : ~Moves(i)'
    BY <2>1, <2>2 DEF RoomInv
  <2> QED
    BY <1>1, <2>3, <2>4 DEF RoomInv
<1>2. CASE ~Over(c)
  <2>1. /\ DOMAIN command' = DOMAIN command /\ command'[k] = c
        /\ \A i \in DOMAIN command \ {k} : command'[i] = command[i]
    BY <1>2, CommandsAfter
  <2>2. \A i \in DOMAIN command' : Moves(i)' <=> Moves(i)
    BY <2>1 DEF Moves
  <2>3. \A i \in DOMAIN command' : command'[i].thread = "create" => Moves(i)'
    BY <2>1, <2>2 DEF RoomInv
  <2>4. ASSUME ~muddled'
        PROVE  /\ \A i, j \in DOMAIN command' : Moves(i)' /\ Moves(j)' => i = j
               /\ \A i \in DOMAIN command' : Moves(i)' => i = k
    BY <2>1, <2>2, <2>4 DEF RoomInv
  <2>5. ~muddled' => Stage(command[k])'
    BY <1>2, <2>1 DEF Stage
  <2>6. Moves(k)' /\ k \in DOMAIN command'
    BY <2>1, <2>2
  <2> QED
    BY <2>3, <2>4, <2>5, <2>6 DEF RoomInv
<1> QED
  BY <1>1, <1>2

\* The commands that SetCommand is given, by their fields.
LEMMA DoneCommand ==
  ASSUME NEW r \in Command, NEW c, c = [r EXCEPT !.thread = "done"]
  PROVE  c \in Command /\ c.op = r.op /\ c.thread = "done" /\ c.coroutine = r.coroutine
BY DEF Command

LEMMA CoroutineCommand ==
  ASSUME NEW r \in Command, NEW at \in {"offering", "closing", "returned", "raised"},
         NEW c, c = [r EXCEPT !.coroutine = at]
  PROVE  /\ c \in Command /\ c.op = r.op /\ c.thread = r.thread /\ c.coroutine = at
         /\ c.session = r.session /\ c.channel = r.channel
BY DEF Command

LEMMA AdvancedKeepsChannel ==
  ASSUME NEW x \in MusicSession, NEW z \in Advanced(x)
  PROVE  z.channel = x.channel
BY DEF MusicSession, Advanced, Played

LEMMA OneSessionStays ==
  ASSUME SessionsPlayOn, NEW s, NEW z, s \in DOMAIN sessions => z.channel = sessions[s].channel,
         sessions' = [sessions EXCEPT ![s] = z]
  PROVE  SessionsStay
<1>1. sessions \in Seq(MusicSession)
  BY DEF SessionsPlayOn
<1>2. DOMAIN sessions' = DOMAIN sessions
  OBVIOUS
<1>3. \A i \in DOMAIN sessions : sessions'[i].channel = sessions[i].channel
  OBVIOUS
<1> QED
  BY <1>2, <1>3 DEF SessionsStay

LEMMA ReceiveKeepsRooms ==
  ASSUME RoomInv, MusicInv, NEW v \in Channels,
         NEW op \in {"muzik-katil", "muzik-ayril", "muzik-ekle", "muzik-sonraki"}, Receive(op, v)
  PROVE  RoomInv'
<1>1. command \in Seq(Command) /\ sessionOf \in Nat
  BY DEF MusicInv, CommandTypes
<1> DEFINE c == IF op = "muzik-katil"
                THEN [NewCommand(op) EXCEPT !.thread = "create", !.coroutine = "none",
                                            !.channel = v]
                ELSE [NewCommand(op) EXCEPT !.session = sessionOf]
<1>0. PICK n : n = Len(command)
  OBVIOUS
<1>2. /\ command' = Append(command, c) /\ UNCHANGED <<sessionOf, sessions, voice>>
      /\ muddled' = (muddled \/ (op \in JoinOrLeave /\ Overlapping))
      /\ op = "muzik-katil" <=> sessionOf = NoSession
  BY DEF Receive
<1>3. /\ c \in Command /\ c.op = op
      /\ op = "muzik-katil" => c.thread = "create" /\ c.coroutine = "none"
      /\ op # "muzik-katil" => c.thread = "wait" /\ c.coroutine = "ready" /\ c.session = sessionOf
  BY <1>1 DEF NewCommand, Command, Channels, NoSession
<1> HIDE DEF c
<1>4. /\ n \in Nat /\ DOMAIN command = 1..n /\ DOMAIN command' = 1..(n + 1)
      /\ \A i \in 1..n : command'[i] = command[i]
      /\ command'[n + 1] = c
  <2>1. /\ Append(command, c) \in Seq(Command) /\ Len(Append(command, c)) = n + 1
        /\ \A i \in 1..n : Append(command, c)[i] = command[i]
        /\ Append(command, c)[n + 1] = c
    BY <1>0, <1>1, <1>3, AppendProperties
  <2> QED
    BY <1>0, <1>1, <1>2, <2>1, LenProperties
<1>5. SessionsStay
  BY <1>2 DEF SessionsStay
<1>6. /\ sessionOf' = NoSession \/ sessionOf' \in DOMAIN sessions'
      /\ InPlace => InPlace'
      /\ NobodyIn => NobodyIn'
      /\ \A d : Stage(d) => Stage(d)'
  BY <1>2, <1>5, RoomsStay
<1>7. /\ \A i \in 1..n : Moves(i)' <=> Moves(i)
      /\ Moves(n + 1)' <=> op \in JoinOrLeave
  BY <1>3, <1>4 DEF Moves
<1>8. \A i \in 1..(n + 1) : i \in 1..n \/ i = n + 1
  BY <1>4
<1>9. \A i \in DOMAIN command' : command'[i].thread = "create" => Moves(i)'
  <2>1. c.thread = "create" => op \in JoinOrLeave
    BY <1>3 DEF JoinOrLeave
  <2> QED
    BY <1>4, <1>7, <1>8, <2>1 DEF RoomInv
<1>10. ASSUME ~muddled'
       PROVE  /\ \A i, j \in DOMAIN command' : Moves(i)' /\ Moves(j)' => i = j
              /\ \A i \in DOMAIN command' : Moves(i)' => Stage(command[i])'
              /\ (\A i \in DOMAIN command' : ~Moves(i)') => InPlace'
  <2>1. ~muddled
    BY <1>2, <1>10
  <2>2. CASE op \in JoinOrLeave
    <3>1. \A i \in 1..n : ~Moves(i)
      BY <1>2, <1>4, <1>10, <2>2 DEF Overlapping, Moves
    <3>2. InPlace
      BY <1>4, <2>1, <3>1 DEF RoomInv
    <3>3. op = "muzik-katil" => NobodyIn
      BY <1>2, <3>2 DEF InPlace, NobodyIn
    <3>4. Stage(c)
      BY <1>2, <1>3, <2>2, <3>2, <3>3 DEF Stage, JoinOrLeave
    <3>5. PICK d : d = c
      OBVIOUS
    <3>6. Stage(d)'
      BY <1>6, <3>4, <3>5
    <3>7. Stage(command[n + 1])'
      <4>1. (command[n + 1])' = d
        BY <1>2, <1>4, <3>5
      <4> QED
        BY <3>6, <4>1 DEF Stage
    <3> QED
      BY <1>4, <1>7, <1>8, <2>2, <3>1, <3>7
  <2>3. CASE op \notin JoinOrLeave
    <3>1. \A i, j \in DOMAIN command' : Moves(i)' /\ Moves(j)' => i = j
      BY <1>4, <1>7, <1>8, <2>1, <2>3 DEF RoomInv
    <3>2. ASSUME NEW i \in DOMAIN command', Moves(i)'
          PROVE  Stage(command[i])'
      <4>1. i \in DOMAIN command /\ Moves(i)
        BY <1>4, <1>7, <1>8, <2>3, <3>2
      <4>2. PICK d : d = command[i]
        OBVIOUS
      <4>3. Stage(d)'
        BY <1>6, <2>1, <4>1, <4>2 DEF RoomInv
      <4> QED
        BY <1>4, <4>1, <4>2, <4>3 DEF Stage
    <3>3. (\A i \in DOMAIN command' : ~Moves(i)') => InPlace'
      BY <1>4, <1>6, <1>7, <2>1 DEF RoomInv
    <3> QED
      BY <3>1, <3>2, <3>3
  <2> QED
    BY <2>2, <2>3
<1> QED
  BY <1>6, <1>9, <1>10 DEF RoomInv

LEMMA CreateSessionKeepsRooms ==
  ASSUME RoomInv, MusicInv, NEW k \in DOMAIN command, CreateSession(k)
  PROVE  RoomInv'
<1>1. SessionsPlayOn /\ CommandTypes
  BY DEF MusicInv
<1>2. PICK new : new = Len(sessions) + 1
  OBVIOUS
<1> DEFINE x == [NoMusicSession EXCEPT !.channel = command[k].channel]
<1>3. PICK c : c = [command[k] EXCEPT !.thread = "wait", !.coroutine = "ready", !.session = new]
  OBVIOUS
<1>4. /\ new \in Nat /\ new # NoSession /\ sessions \in Seq(MusicSession)
  BY <1>1, <1>2, LenProperties DEF SessionsPlayOn, NoSession
<1>5. /\ command[k].thread = "create" /\ sessions' = Append(sessions, x)
      /\ sessionOf' = new /\ SetCommand(k, c) /\ UNCHANGED <<voice, muddled>>
  BY <1>2, <1>3 DEF CreateSession
<1>6. command[k] \in Command
  BY <1>1, CommandGoesOn
<1>7. command[k].channel \in Channels
  BY <1>6 DEF Command
<1>8. x \in MusicSession
  BY <1>7, NewSessionPlaysOn
<1>9. x.channel = command[k].channel
  BY DEF NoMusicSession
<1>10. c \in Command /\ c.op = command[k].op /\ c.thread = "wait" /\ c.coroutine = "ready"
       /\ c.session = new /\ c.channel = command[k].channel
  BY <1>3, <1>4, <1>6 DEF Command
<1> HIDE DEF x
<1>11. sessionOf' \in DOMAIN sessions' /\ sessions'[sessionOf'] = x
  <2>1. /\ Append(sessions, x) \in Seq(MusicSession) /\ Len(Append(sessions, x)) = new
        /\ Append(sessions, x)[new] = x
    BY <1>2, <1>4, <1>8, AppendProperties
  <2>2. Len(sessions) \in Nat
    BY <1>4, LenProperties
  <2>3. new \in 1..new
    BY <1>2, <1>4, <2>2
  <2> QED
    BY <1>5, <2>1, <2>3, LenProperties
<1>12. Moves(k)
  BY <1>5 DEF RoomInv
<1>13. ~Over(c)
  BY <1>10 DEF Over
<1>14. ~muddled' => Stage(c)'
  <2> SUFFICES ASSUME ~muddled' PROVE Stage(c)'
    OBVIOUS
  <2>1. command[k].op = "muzik-katil" /\ NobodyIn
    BY <1>5, <1>12 DEF RoomInv, Stage
  <2>2. NobodyIn'
    BY <1>5, <2>1 DEF NobodyIn
  <2>3. /\ c.op = "muzik-katil" /\ c.thread = "wait" /\ c.coroutine = "ready"
        /\ c.session = sessionOf' /\ sessionOf' # NoSession
        /\ sessions'[sessionOf'].channel = c.channel
    BY <1>4, <1>5, <1>9, <1>10, <1>11, <2>1 DEF NoSession
  <2> QED
    BY <2>2, <2>3 DEF Stage, NoSession
<1> QED
  BY <1>1, <1>5, <1>10, <1>11, <1>12, <1>13, <1>14, MoverGoesOn

\* A coroutine of a command that neither joins nor leaves is over.
LEMMA OtherCoroutineKeepsRooms ==
  ASSUME RoomInv, MusicInv, NEW k \in DOMAIN command, ~Moves(k),
         NEW at \in {"returned", "raised"}, Coroutine(k, at),
         SessionsStay, UNCHANGED <<sessionOf, voice, muddled>>
  PROVE  RoomInv'
<1>1. CommandTypes
  BY DEF MusicInv
<1>2. command[k] \in Command
  BY <1>1, CommandGoesOn
<1>3. PICK c : c = [command[k] EXCEPT !.coroutine = at]
  OBVIOUS
<1>4. c \in Command /\ c.op = command[k].op /\ c.thread = command[k].thread
  BY <1>2, <1>3, CoroutineCommand
<1>5. c.thread # "create"
  BY <1>4 DEF RoomInv
<1>6. SetCommand(k, c)
  BY <1>3 DEF Coroutine
<1> QED
  BY <1>1, <1>4, <1>5, <1>6, OthersGoOn

LEMMA EnqueueKeepsRooms ==
  ASSUME RoomInv, MusicInv, NEW k \in DOMAIN command, EnqueueTrack(k)
  PROVE  RoomInv'
<1>1. SessionsPlayOn
  BY DEF MusicInv
<1>2. PICK s : s = command[k].session
  OBVIOUS
<1> DEFINE x == sessions[s]
           y == [x EXCEPT !.added = @ + 1, !.queue = Append(@, x.added + 1)]
<1>3. PICK z \in (IF x.current = NoTrack THEN Advanced(y) ELSE {y}) :
        sessions' = [sessions EXCEPT ![s] = z]
  BY <1>2 DEF EnqueueTrack
<1>4. s \in DOMAIN sessions => z.channel = x.channel
  <2> SUFFICES ASSUME s \in DOMAIN sessions PROVE z.channel = x.channel
    OBVIOUS
  <2>1. Orderly(x)
    BY <1>1 DEF SessionsPlayOn, PlaysOn
  <2> HIDE DEF x
  <2>2. y \in MusicSession
    BY <2>1, EnqueuedIsOrderly DEF Orderly
  <2>3. y.channel = x.channel
    BY <2>1 DEF Orderly, MusicSession
  <2> HIDE DEF y
  <2> QED
    BY <1>3, <2>2, <2>3, AdvancedKeepsChannel
<1> HIDE DEF y
<1>5. SessionsStay
  BY <1>1, <1>3, <1>4, OneSessionStays
<1>6. \E at \in {"raised", "returned"} : Coroutine(k, at)
  BY DEF EnqueueTrack
<1>7. ~Moves(k) /\ UNCHANGED <<sessionOf, voice, muddled>>
  BY DEF EnqueueTrack, Runs, Moves, JoinOrLeave
<1> QED
  BY <1>5, <1>6, <1>7, OtherCoroutineKeepsRooms

LEMMA SkipKeepsRooms ==
  ASSUME RoomInv, MusicInv, NEW k \in DOMAIN command, Skip(k)
  PROVE  RoomInv'
<1>1. SessionsPlayOn
  BY DEF MusicInv
<1>2. PICK s : s = command[k].session
  OBVIOUS
<1> DEFINE x == sessions[s]
<1>3. PICK z \in (IF x.current = NoTrack /\ x.queue = << >> THEN {x} ELSE Advanced(x)) :
        sessions' = [sessions EXCEPT ![s] = z]
  BY <1>2 DEF Skip
<1>4. s \in DOMAIN sessions => z.channel = x.channel
  <2> SUFFICES ASSUME s \in DOMAIN sessions PROVE z.channel = x.channel
    OBVIOUS
  <2>1. x \in MusicSession
    BY <1>1 DEF SessionsPlayOn, PlaysOn, Orderly
  <2> HIDE DEF x
  <2> QED
    BY <1>3, <2>1, AdvancedKeepsChannel
<1>5. SessionsStay
  BY <1>1, <1>3, <1>4, OneSessionStays
<1>6. \E at \in {"raised", "returned"} : Coroutine(k, at)
  BY DEF Skip
<1>7. ~Moves(k) /\ UNCHANGED <<sessionOf, voice, muddled>>
  BY DEF Skip, Runs, Moves, JoinOrLeave
<1> QED
  BY <1>5, <1>6, <1>7, OtherCoroutineKeepsRooms

\* The commands are as they were.
LEMMA NoCommandKeepsRooms ==
  ASSUME RoomInv, SessionsStay, UNCHANGED <<sessionOf, voice, command, muddled>>
  PROVE  RoomInv'
<1>1. /\ sessionOf' = NoSession \/ sessionOf' \in DOMAIN sessions'
      /\ InPlace => InPlace'
      /\ \A d : Stage(d) => Stage(d)'
  BY RoomsStay
<1>2. \A i \in DOMAIN command : Moves(i)' <=> Moves(i)
  BY DEF Moves
<1>3. ASSUME ~muddled, NEW i \in DOMAIN command, Moves(i)
      PROVE  Stage(command[i])'
  <2>1. PICK d : d = command[i]
    OBVIOUS
  <2>2. Stage(d)'
    BY <1>1, <1>3, <2>1 DEF RoomInv
  <2> QED
    BY <2>1, <2>2 DEF Stage
<1> QED
  BY <1>1, <1>2, <1>3 DEF RoomInv

LEMMA TimerEndsKeepsRooms ==
  ASSUME RoomInv, MusicInv, NEW s \in DOMAIN sessions, TimerEnds(s)
  PROVE  RoomInv'
<1>1. SessionsPlayOn
  BY DEF MusicInv
<1> DEFINE x == sessions[s]
<1>2. PICK i \in x.timers :
        \E z \in Advanced([x EXCEPT !.timers = @ \ {i}]) : sessions' = [sessions EXCEPT ![s] = z]
  BY DEF TimerEnds
<1> DEFINE y == [x EXCEPT !.timers = @ \ {i}]
<1>3. PICK z \in Advanced(y) : sessions' = [sessions EXCEPT ![s] = z]
  BY <1>2
<1>4. z.channel = x.channel
  <2>1. x \in MusicSession
    BY <1>1 DEF SessionsPlayOn, PlaysOn, Orderly
  <2> HIDE DEF x
  <2>2. y \in MusicSession /\ y.channel = x.channel
    BY <2>1 DEF MusicSession
  <2> HIDE DEF y
  <2> QED
    BY <2>2, AdvancedKeepsChannel
<1> HIDE DEF y
<1>5. SessionsStay
  BY <1>1, <1>3, <1>4, OneSessionStays
<1>6. UNCHANGED <<sessionOf, voice, command, muddled>>
  BY DEF TimerEnds
<1> QED
  BY <1>5, <1>6, NoCommandKeepsRooms

\* The thread of a command has its result, or has stopped waiting for it.
LEMMA ThreadEndsKeepsRooms ==
  ASSUME RoomInv, MusicInv, NEW k \in DOMAIN command, Returned(k) \/ GivesUp(k)
  PROVE  RoomInv'
<1>1. CommandTypes
  BY DEF MusicInv
<1>2. command[k] \in Command
  BY <1>1, CommandGoesOn
<1>3. PICK c : c = [command[k] EXCEPT !.thread = "done"]
  OBVIOUS
<1>4. /\ c \in Command /\ c.op = command[k].op /\ c.thread = "done"
      /\ c.coroutine = command[k].coroutine
  BY <1>2, <1>3, DoneCommand
<1>5. SetCommand(k, c) /\ UNCHANGED <<sessions, voice>>
  BY <1>3 DEF Returned, GivesUp
<1>6. SessionsStay
  BY <1>5 DEF SessionsStay
<1>7. ~muddled' => ~muddled
  BY DEF Returned, GivesUp
<1>8. CASE ~Moves(k)
  <2>1. sessionOf' = sessionOf
    BY <1>8 DEF Returned, GivesUp, Moves, JoinOrLeave
  <2> QED
    BY <1>1, <1>4, <1>5, <1>6, <1>7, <1>8, <2>1, OthersGoOn
<1>9. CASE Moves(k)
  <2>1. sessionOf' = NoSession \/ sessionOf' \in DOMAIN sessions'
    BY <1>5 DEF RoomInv, Returned, GivesUp
  <2>2. ASSUME ~muddled'
        PROVE  IF Over(c) THEN InPlace' ELSE Stage(c)'
    <3>1. Returned(k) /\ ~GivesUp(k)
      BY <1>9, <2>2 DEF GivesUp, Moves
    <3>2. Over(c)
      BY <1>4, <3>1 DEF Over, Returned
    <3>3. Stage(command[k]) /\ command[k].thread = "wait"
      BY <1>7, <1>9, <2>2, <3>1 DEF RoomInv, Returned
    <3>4. CASE command[k].op = "muzik-katil"
      <4>1. command[k].coroutine = "returned" /\ sessionOf' = sessionOf
        BY <2>2, <3>1, <3>4 DEF Returned
      <4>2. InPlace
        BY <3>3, <3>4, <4>1 DEF Stage
      <4> QED
        BY <1>5, <3>2, <4>1, <4>2 DEF InPlace
    <3>5. CASE command[k].op = "muzik-ayril"
      <4>1. command[k].coroutine \in {"returned", "raised"} /\ sessionOf' = NoSession
        BY <3>1, <3>5 DEF Returned
      <4>2. NobodyIn
        BY <3>3, <3>5, <4>1 DEF Stage
      <4> QED
        BY <1>5, <3>2, <4>1, <4>2 DEF InPlace, NobodyIn
    <3> QED
      BY <1>9, <3>4, <3>5 DEF Moves, JoinOrLeave
  <2> QED
    BY <1>1, <1>4, <1>5, <1>7, <1>9, <2>1, <2>2, MoverGoesOn
<1> QED
  BY <1>8, <1>9

\* A coroutine that joins or leaves gets further.
LEMMA MoverCoroutineKeepsRooms ==
  ASSUME RoomInv, MusicInv, NEW k \in DOMAIN command, Moves(k),
         NEW at \in {"offering", "closing", "returned", "raised"}, Coroutine(k, at),
         UNCHANGED <<sessionOf, muddled>>, SessionsStay,
         \A c \in Command :
           /\ ~muddled /\ Stage(command[k]) /\ command[k].thread = "wait" /\ c.thread = "wait"
           /\ c.op = command[k].op /\ c.coroutine = at
           /\ c.session = command[k].session /\ c.channel = command[k].channel
           => Stage(c)',
         command[k].coroutine # "none"
  PROVE  RoomInv'
<1>1. CommandTypes
  BY DEF MusicInv
<1>2. command[k] \in Command
  BY <1>1, CommandGoesOn
<1>3. PICK c : c = [command[k] EXCEPT !.coroutine = at]
  OBVIOUS
<1>4. /\ c \in Command /\ c.op = command[k].op /\ c.thread = command[k].thread
      /\ c.coroutine = at /\ c.session = command[k].session /\ c.channel = command[k].channel
  BY <1>2, <1>3, CoroutineCommand
<1>5. SetCommand(k, c)
  BY <1>3 DEF Coroutine
<1>6. sessionOf' = NoSession \/ sessionOf' \in DOMAIN sessions'
  BY DEF RoomInv, SessionsStay
<1>7. ~muddled' => IF Over(c) THEN InPlace' ELSE Stage(c)'
  <2> SUFFICES ASSUME ~muddled' PROVE ~Over(c) /\ Stage(c)'
    OBVIOUS
  <2>1. Stage(command[k]) /\ command[k].thread = "wait"
    BY DEF RoomInv, Stage
  <2> QED
    BY <1>4, <2>1 DEF Over
<1> QED
  BY <1>1, <1>4, <1>5, <1>6, <1>7, MoverGoesOn

LEMMA JoinRoomKeepsRooms ==
  ASSUME RoomInv, MusicInv, NEW k \in DOMAIN command, JoinRoom(k)
  PROVE  RoomInv'
<1>1. CommandTypes
  BY DEF MusicInv
<1>2. /\ command[k].op = "muzik-katil" /\ command[k].coroutine = "ready"
      /\ Coroutine(k, "offering") /\ UNCHANGED <<sessionOf, sessions, muddled>>
      /\ voice' = [voice EXCEPT ![command[k].channel] = command[k].session]
  BY DEF JoinRoom, Runs
<1>3. Moves(k) /\ SessionsStay
  BY <1>2 DEF Moves, JoinOrLeave, SessionsStay
<1>4. ASSUME Stage(command[k]), command[k].thread = "wait"
      PROVE  InPlace'
  <2>1. /\ NobodyIn /\ command[k].session = sessionOf /\ sessionOf # NoSession
        /\ sessions[sessionOf].channel = command[k].channel
    BY <1>2, <1>4 DEF Stage
  <2> QED
    BY <1>2, <2>1 DEF NobodyIn, InPlace
<1>5. ASSUME NEW c \in Command, Stage(command[k]), command[k].thread = "wait",
             c.thread = "wait", c.op = command[k].op, c.coroutine = "offering",
             c.session = command[k].session, c.channel = command[k].channel
      PROVE  Stage(c)'
  BY <1>2, <1>4, <1>5 DEF Stage
<1> QED
  BY <1>2, <1>3, <1>5, MoverCoroutineKeepsRooms

LEMMA JoinEndsKeepsRooms ==
  ASSUME RoomInv, MusicInv, NEW k \in DOMAIN command, JoinEnds(k)
  PROVE  RoomInv'
<1>1. PICK at \in {"returned", "raised"} : Coroutine(k, at)
  BY DEF JoinEnds
<1>2. /\ command[k].op = "muzik-katil" /\ command[k].coroutine = "offering"
      /\ UNCHANGED <<sessionOf, sessions, voice, muddled>>
  BY DEF JoinEnds, Runs
<1>3. Moves(k) /\ SessionsStay
  BY <1>2 DEF Moves, JoinOrLeave, SessionsStay
<1>4. InPlace => InPlace'
  BY <1>3, <1>2, RoomsStay
<1>5. ASSUME NEW c \in Command, Stage(command[k]), command[k].thread = "wait",
             c.thread = "wait", c.op = command[k].op, c.coroutine = at,
             c.session = command[k].session, c.channel = command[k].channel
      PROVE  Stage(c)'
  BY <1>2, <1>4, <1>5 DEF Stage
<1> QED
  BY <1>1, <1>2, <1>3, <1>5, MoverCoroutineKeepsRooms

LEMMA LeaveStopsTimerKeepsRooms ==
  ASSUME RoomInv, MusicInv, NEW k \in DOMAIN command, LeaveStopsTimer(k)
  PROVE  RoomInv'
<1>1. SessionsPlayOn
  BY DEF MusicInv
<1>2. PICK s : s = command[k].session
  OBVIOUS
<1> DEFINE x == sessions[s]
           z == [x EXCEPT !.timers = @ \ {x.task}, !.task = NoTrack, !.stalled = TRUE]
<1>3. sessions' = [sessions EXCEPT ![s] = z]
  BY <1>2 DEF LeaveStopsTimer
<1>4. s \in DOMAIN sessions => z.channel = x.channel
  <2> SUFFICES ASSUME s \in DOMAIN sessions PROVE z.channel = x.channel
    OBVIOUS
  <2>1. x \in MusicSession
    BY <1>1 DEF SessionsPlayOn, PlaysOn, Orderly
  <2> HIDE DEF x
  <2> QED
    BY <2>1 DEF MusicSession
<1> HIDE DEF z
<1>5. SessionsStay
  BY <1>1, <1>3, <1>4, OneSessionStays
<1>6. /\ command[k].op = "muzik-ayril" /\ command[k].coroutine = "ready"
      /\ Coroutine(k, "closing") /\ UNCHANGED <<sessionOf, voice, muddled>>
  BY DEF LeaveStopsTimer, Runs
<1>7. Moves(k)
  BY <1>6 DEF Moves, JoinOrLeave
<1>8. InPlace => InPlace'
  BY <1>5, <1>6, RoomsStay
<1>9. ASSUME NEW c \in Command, Stage(command[k]), command[k].thread = "wait",
             c.thread = "wait", c.op = command[k].op, c.coroutine = "closing",
             c.session = command[k].session, c.channel = command[k].channel
      PROVE  Stage(c)'
  BY <1>6, <1>8, <1>9 DEF Stage
<1> QED
  BY <1>5, <1>6, <1>7, <1>9, MoverCoroutineKeepsRooms

LEMMA LeaveRoomKeepsRooms ==
  ASSUME RoomInv, MusicInv, NEW k \in DOMAIN command, LeaveRoom(k)
  PROVE  RoomInv'
<1>1. /\ command[k].op = "muzik-ayril" /\ command[k].coroutine = "closing"
      /\ Coroutine(k, "returned") /\ UNCHANGED <<sessionOf, sessions, muddled>>
      /\ voice' = [voice EXCEPT ![sessions[command[k].session].channel] = NoSession]
  BY DEF LeaveRoom, Runs
<1>2. Moves(k) /\ SessionsStay
  BY <1>1 DEF Moves, JoinOrLeave, SessionsStay
<1>3. ASSUME Stage(command[k]), command[k].thread = "wait"
      PROVE  NobodyIn'
  <2>1. InPlace /\ command[k].session = sessionOf
    BY <1>1, <1>3 DEF Stage
  <2> QED
    BY <1>1, <2>1 DEF NobodyIn, InPlace
<1>4. ASSUME NEW c \in Command, Stage(command[k]), command[k].thread = "wait",
             c.thread = "wait", c.op = command[k].op, c.coroutine = "returned",
             c.session = command[k].session, c.channel = command[k].channel
      PROVE  Stage(c)'
  BY <1>1, <1>3, <1>4 DEF Stage
<1> QED
  BY <1>1, <1>2, <1>4, MoverCoroutineKeepsRooms

-----------------------------------------------------------------------------
(* The invariant and what follows from it *)

LEMMA InitEstablishes == MusicInit => MusicInv
<1> SUFFICES ASSUME MusicInit PROVE MusicInv
  OBVIOUS
<1>1. << >> \in Seq(MusicSession) /\ << >> \in Seq(Command)
  BY EmptySeq
<1>2. sessions = << >> /\ command = << >> /\ sessionOf = 0
  BY DEF MusicInit, NoSession
<1>3. \A s \in DOMAIN sessions : PlaysOn(sessions[s])
  BY <1>2
<1> QED
  BY <1>1, <1>2, <1>3 DEF MusicInv, SessionsPlayOn, CommandTypes

LEMMA NextKeepsInv == MusicInv /\ MusicNext => MusicInv'
<1> SUFFICES ASSUME MusicInv, MusicNext PROVE MusicInv'
  OBVIOUS
<1>1. CASE \E v \in VoiceChannels : Receive("muzik-katil", v)
  BY <1>1, ReceiveKeepsInv DEF Channels
<1>2. CASE \E op \in {"muzik-ayril", "muzik-ekle", "muzik-sonraki"} : Receive(op, "none")
  BY <1>2, ReceiveKeepsInv DEF Channels
<1>3. ASSUME NEW k \in DOMAIN command,
             \/ CreateSession(k) \/ Returned(k) \/ GivesUp(k)
             \/ JoinRoom(k) \/ JoinEnds(k) \/ LeaveStopsTimer(k) \/ LeaveRoom(k)
             \/ EnqueueTrack(k) \/ Skip(k)
      PROVE  MusicInv'
  BY <1>3, CreateSessionKeepsInv, CommandStepsKeepInv, LeaveStopsTimerKeepsInv,
     EnqueueKeepsInv, SkipKeepsInv
<1>4. CASE \E s \in DOMAIN sessions : TimerEnds(s)
  BY <1>4, TimerEndsKeepsInv
<1> QED
  BY <1>1, <1>2, <1>3, <1>4 DEF MusicNext

LEMMA StutteringKeepsInv == MusicInv /\ UNCHANGED musicVars => MusicInv'
BY DEF musicVars, MusicInv, SessionsPlayOn, CommandTypes

LEMMA MusicInvariant == MusicSpec => []MusicInv
BY InitEstablishes, NextKeepsInv, StutteringKeepsInv, PTL DEF MusicSpec

(* Whatever commands advance a queue together with its timer, from threads that
   wait for them or have given up, one timer at most runs in a session, the
   current track's, and the tracks queued are the last ones added, in their
   order (enqueue, skip, _advance and _auto_advance_after). *)
THEOREM QueuesPlayOn == MusicSpec => []QueuePlaysOn
<1>1. MusicInv => QueuePlaysOn
  <2> SUFFICES ASSUME MusicInv, NEW s \in DOMAIN sessions
               PROVE  LET x == sessions[s] IN
                      /\ x.timers \subseteq {x.current} /\ NoTrack \notin x.timers
                      /\ x.current # NoTrack /\ ~x.stalled => x.timers = {x.current}
                      /\ x.queue = [i \in 1..Len(x.queue) |-> x.added - Len(x.queue) + i]
                      /\ x.current # NoTrack => x.current = x.added - Len(x.queue)
    BY DEF QueuePlaysOn
  <2> DEFINE x == sessions[s]
  <2>1. PlaysOn(x)
    BY DEF MusicInv, SessionsPlayOn
  <2> HIDE DEF x
  <2>2. x.timers \subseteq {x.current} /\ NoTrack \notin x.timers
    BY <2>1 DEF PlaysOn, Orderly
  <2>3. x.queue = [i \in 1..Len(x.queue) |-> x.added - Len(x.queue) + i]
    <3>1. x.queue \in Seq(Nat)
      BY <2>1 DEF PlaysOn, Orderly, MusicSession
    <3>2. x.queue = [i \in 1..Len(x.queue) |-> x.queue[i]]
      BY <3>1, LenProperties
    <3>3. \A i \in 1..Len(x.queue) : x.queue[i] = x.added - Len(x.queue) + i
      BY <2>1 DEF PlaysOn, Orderly
    <3> QED
      BY <3>2, <3>3
  <2>4. /\ x.current # NoTrack /\ ~x.stalled => x.timers = {x.current}
        /\ x.current # NoTrack => x.current = x.added - Len(x.queue)
    BY <2>1 DEF PlaysOn, Orderly
  <2> QED
    BY <2>2, <2>3, <2>4 DEF x
<1> QED
  BY <1>1, MusicInvariant, PTL

LEMMA InitPutsNobodyIn == MusicInit => RoomInv
BY DEF MusicInit, RoomInv, InPlace, Moves

LEMMA NextKeepsRooms == RoomInv /\ MusicInv /\ MusicNext => RoomInv'
<1> SUFFICES ASSUME RoomInv, MusicInv, MusicNext PROVE RoomInv'
  OBVIOUS
<1>1. CASE \E v \in VoiceChannels : Receive("muzik-katil", v)
  BY <1>1, ReceiveKeepsRooms DEF Channels
<1>2. CASE \E op \in {"muzik-ayril", "muzik-ekle", "muzik-sonraki"} : Receive(op, "none")
  BY <1>2, ReceiveKeepsRooms DEF Channels
<1>3. ASSUME NEW k \in DOMAIN command,
             \/ CreateSession(k) \/ Returned(k) \/ GivesUp(k)
             \/ JoinRoom(k) \/ JoinEnds(k) \/ LeaveStopsTimer(k) \/ LeaveRoom(k)
             \/ EnqueueTrack(k) \/ Skip(k)
      PROVE  RoomInv'
  BY <1>3, CreateSessionKeepsRooms, ThreadEndsKeepsRooms, JoinRoomKeepsRooms,
     JoinEndsKeepsRooms, LeaveStopsTimerKeepsRooms, LeaveRoomKeepsRooms,
     EnqueueKeepsRooms, SkipKeepsRooms
<1>4. CASE \E s \in DOMAIN sessions : TimerEnds(s)
  BY <1>4, TimerEndsKeepsRooms
<1> QED
  BY <1>1, <1>2, <1>3, <1>4 DEF MusicNext

LEMMA StutteringKeepsRooms == RoomInv /\ UNCHANGED musicVars => RoomInv'
<1> SUFFICES ASSUME RoomInv, UNCHANGED musicVars PROVE RoomInv'
  OBVIOUS
<1>1. UNCHANGED <<sessionOf, sessions, voice, command, muddled>>
  BY DEF musicVars
<1>2. SessionsStay
  BY <1>1 DEF SessionsStay
<1> QED
  BY <1>1, <1>2, NoCommandKeepsRooms

LEMMA RoomInvariant == MusicSpec => []RoomInv
BY MusicInvariant, InitPutsNobodyIn, NextKeepsRooms, StutteringKeepsRooms, PTL DEF MusicSpec

(* The thread of a command sets the table of the sessions and its coroutine the
   rooms, at different times: as long as no join failed or was given up, no leave
   was given up and no two of them overlapped, the two agree whenever no command
   is under way (muzik-katil and muzik-ayril in handle_command, join, leave). *)
THEOREM SessionsHaveTheirRooms == MusicSpec => []SessionHasItsRoom
<1>1. RoomInv => SessionHasItsRoom
  <2> SUFFICES ASSUME RoomInv, ~muddled, command = << >>, NEW v \in VoiceChannels
               PROVE  voice[v] = IF sessionOf # NoSession /\ sessions[sessionOf].channel = v
                                 THEN sessionOf ELSE NoSession
    BY DEF SessionHasItsRoom
  <2>1. InPlace
    BY DEF RoomInv
  <2> QED
    BY <2>1 DEF InPlace
<1> QED
  BY <1>1, RoomInvariant, PTL

=============================================================================
