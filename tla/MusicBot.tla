------------------------------ MODULE MusicBot ------------------------------
(***************************************************************************)
(* The music plugin on one server: its commands run in threads of the pool *)
(* (plugins/music/main.py), the sessions they create live on the event     *)
(* loop (plugins/music/voice_session.py).  A command hands a coroutine to  *)
(* the loop and waits ten seconds for it; when the time is over the        *)
(* command ends and the coroutine goes on.  Both are one process, with     *)
(* plugin_execution_mode "local": in the sandbox every command is a        *)
(* process of its own, without the loop and without the sessions.          *)
(*                                                                         *)
(* What a coroutine does between two awaits is one step.  enqueue, skip    *)
(* and _advance do not await at all.  The signaling with the peers is part *)
(* of the two awaits of join and leave; commands that only read            *)
(* (muzik-listele, muzik-kuyruk) are left out.                             *)
(***************************************************************************)
EXTENDS Naturals, SequencesExt

CONSTANTS
  VoiceChannels,  \* voice channels of the server
  NumCommands,    \* bound: commands
  NumSessions     \* bound: sessions created

Sessions == 1..NumSessions
NoSession == 0
NoTrack == 0

VARIABLES
  sessionOf,    \* _sessions: the session of the server
  sessions,     \* the MusicSession objects; tracks are numbered as they are added
  voice,        \* per voice channel, the session whose client has the bot's entry
  command,      \* the commands under way, in order of arrival: thread and coroutine
  arrived,      \* bound: the number of commands so far
  muddled       \* history: a join failed or was given up, a leave was given up, or
                \* two commands that join or leave overlapped

musicVars == <<sessionOf, sessions, voice, command, arrived, muddled>>

NoMusicSession == [channel |-> "none", queue |-> << >>, current |-> NoTrack, added |-> 0,
                   timers |-> {}, task |-> NoTrack, stalled |-> FALSE]
NewCommand(op) == [op |-> op, thread |-> "wait", coroutine |-> "ready",
                   session |-> NoSession, channel |-> "none"]

MusicInit ==
  /\ sessionOf = NoSession
  /\ sessions = << >>
  /\ voice = [v \in VoiceChannels |-> NoSession]
  /\ command = << >>
  /\ arrived = 0
  /\ muddled = FALSE

JoinOrLeave == {"muzik-katil", "muzik-ayril"}
Overlapping == \E k \in DOMAIN command : command[k].op \in JoinOrLeave
Over(c) == c.thread = "done" /\ c.coroutine \in {"returned", "raised"}
SetCommand(k, c) == command' = IF Over(c) THEN RemoveAt(command, k) ELSE [command EXCEPT ![k] = c]
Runs(k, op, at) == command[k].op = op /\ command[k].coroutine = at
Coroutine(k, at) == SetCommand(k, [command[k] EXCEPT !.coroutine = at])

-----------------------------------------------------------------------------
(* handle_command *)

\* muzik-katil goes on without a session, every other command with one.
Receive(op, v) ==
  LET join == op = "muzik-katil" IN
  /\ arrived < NumCommands /\ arrived' = arrived + 1
  /\ join <=> sessionOf = NoSession
  /\ command' = Append(command,
       IF join THEN [NewCommand(op) EXCEPT !.thread = "create", !.coroutine = "none", !.channel = v]
       ELSE [NewCommand(op) EXCEPT !.session = sessionOf])
  /\ muddled' = (muddled \/ (op \in JoinOrLeave /\ Overlapping))
  /\ UNCHANGED <<sessionOf, sessions, voice>>

CreateSession(k) ==
  LET new == Len(sessions) + 1 IN
  /\ command[k].thread = "create" /\ new \in Sessions
  /\ sessions' = Append(sessions, [NoMusicSession EXCEPT !.channel = command[k].channel])
  /\ sessionOf' = new
  /\ SetCommand(k, [command[k] EXCEPT !.thread = "wait", !.coroutine = "ready", !.session = new])
  /\ UNCHANGED <<voice, arrived, muddled>>

\* _run has the result: a failed join and a leave remove the session of the
\* server, whichever it is.
Returned(k) ==
  LET c == command[k]
      failed == c.op = "muzik-katil" /\ c.coroutine = "raised" IN
  /\ c.thread = "wait" /\ c.coroutine \in {"returned", "raised"}
  /\ sessionOf' = IF failed \/ c.op = "muzik-ayril" THEN NoSession ELSE sessionOf
  /\ muddled' = (muddled \/ failed)
  /\ SetCommand(k, [c EXCEPT !.thread = "done"])
  /\ UNCHANGED <<sessions, voice, arrived>>

\* Ten seconds are over: only muzik-katil catches that, and removes the session.
GivesUp(k) ==
  LET c == command[k] IN
  /\ c.thread = "wait" /\ c.coroutine \in {"ready", "offering", "closing"}
  /\ sessionOf' = IF c.op = "muzik-katil" THEN NoSession ELSE sessionOf
  /\ muddled' = (muddled \/ c.op \in JoinOrLeave)
  /\ SetCommand(k, [c EXCEPT !.thread = "done"])
  /\ UNCHANGED <<sessions, voice, arrived>>

-----------------------------------------------------------------------------
(* MusicSession.join and leave *)

\* The entry replaces one that an earlier session left.
JoinRoom(k) ==
  /\ Runs(k, "muzik-katil", "ready")
  /\ voice' = [voice EXCEPT ![command[k].channel] = command[k].session]
  /\ Coroutine(k, "offering")
  /\ UNCHANGED <<sessionOf, sessions, arrived, muddled>>

\* An offer to a peer may take seconds, or raise, with the entry in the room.
JoinEnds(k) ==
  /\ Runs(k, "muzik-katil", "offering")
  /\ Coroutine(k, "returned") \/ Coroutine(k, "raised")
  /\ UNCHANGED <<sessionOf, sessions, voice, arrived, muddled>>

LeaveStopsTimer(k) ==
  LET s == command[k].session
      x == sessions[s] IN
  /\ Runs(k, "muzik-ayril", "ready")
  /\ sessions' = [sessions EXCEPT ![s] =
                    [x EXCEPT !.timers = @ \ {x.task}, !.task = NoTrack, !.stalled = TRUE]]
  /\ Coroutine(k, "closing")
  /\ UNCHANGED <<sessionOf, voice, arrived, muddled>>

\* Mutant: the connections are closed, the entry stays.
LeaveRoomKeepsEntry(k) ==
  /\ Runs(k, "muzik-ayril", "closing")
  /\ Coroutine(k, "returned")
  /\ UNCHANGED <<sessionOf, sessions, voice, arrived, muddled>>

\* The connections are closed; the entry is removed whichever session has it.
LeaveRoom(k) ==
  /\ Runs(k, "muzik-ayril", "closing")
  /\ voice' = [voice EXCEPT ![sessions[command[k].session].channel] = NoSession]
  /\ Coroutine(k, "returned")
  /\ UNCHANGED <<sessionOf, sessions, arrived, muddled>>

-----------------------------------------------------------------------------
(* The queue and its timer *)

\* A track whose file cannot be read is current, but starts no timer.
Played(x) ==
  LET next == Head(x.queue)
      y == [x EXCEPT !.queue = Tail(@), !.current = next] IN
  { [y EXCEPT !.timers = @ \cup {next}, !.task = next, !.stalled = FALSE],
    [y EXCEPT !.stalled = TRUE] }

\* Mutant: the timer of the track before goes on.
AdvancedUncancelled(x) ==
  IF x.queue = << >> THEN {[x EXCEPT !.current = NoTrack, !.task = NoTrack]} ELSE Played(x)

\* _advance.  A timer that calls it has left timers, to cancel it does nothing.
Advanced(x) ==
  LET y == [x EXCEPT !.timers = @ \ {x.task}, !.task = NoTrack] IN
  IF x.queue = << >> THEN {[y EXCEPT !.current = NoTrack]} ELSE Played(y)

PlayFailed(x, y) == y.current # NoTrack /\ y.current # x.current /\ y.stalled

EnqueueTrack(k) ==
  LET s == command[k].session
      x == sessions[s]
      y == [x EXCEPT !.added = @ + 1, !.queue = Append(@, x.added + 1)] IN
  /\ Runs(k, "muzik-ekle", "ready")
  /\ \E z \in IF x.current = NoTrack THEN Advanced(y) ELSE {y} :
       /\ sessions' = [sessions EXCEPT ![s] = z]
       /\ Coroutine(k, IF PlayFailed(x, z) THEN "raised" ELSE "returned")
  /\ UNCHANGED <<sessionOf, voice, arrived, muddled>>

Skip(k) ==
  LET s == command[k].session
      x == sessions[s] IN
  /\ Runs(k, "muzik-sonraki", "ready")
  /\ \E z \in IF x.current = NoTrack /\ x.queue = << >> THEN {x} ELSE Advanced(x) :
       /\ sessions' = [sessions EXCEPT ![s] = z]
       /\ Coroutine(k, IF PlayFailed(x, z) THEN "raised" ELSE "returned")
  /\ UNCHANGED <<sessionOf, voice, arrived, muddled>>

\* _auto_advance_after
TimerEnds(s) ==
  \E i \in sessions[s].timers :
    /\ \E z \in Advanced([sessions[s] EXCEPT !.timers = @ \ {i}]) :
         sessions' = [sessions EXCEPT ![s] = z]
    /\ UNCHANGED <<sessionOf, voice, command, arrived, muddled>>

-----------------------------------------------------------------------------

MusicNext ==
  \/ \E v \in VoiceChannels : Receive("muzik-katil", v)
  \/ \E op \in {"muzik-ayril", "muzik-ekle", "muzik-sonraki"} : Receive(op, "none")
  \/ \E k \in DOMAIN command :
       \/ CreateSession(k) \/ Returned(k) \/ GivesUp(k)
       \/ JoinRoom(k) \/ JoinEnds(k) \/ LeaveStopsTimer(k) \/ LeaveRoom(k)
       \/ EnqueueTrack(k) \/ Skip(k)
  \/ \E s \in DOMAIN sessions : TimerEnds(s)

MusicSpec == MusicInit /\ [][MusicNext]_musicVars

-----------------------------------------------------------------------------
(* Properties *)

(* Commands and the timer advance the same queue: at any time at most one timer
   runs per session, it is the current track's, and while neither a leave nor a
   file that cannot be read came in between, a current track has it; the tracks
   still queued are those added after the current one, none twice and none lost. *)
QueuePlaysOn ==
  \A s \in DOMAIN sessions :
    LET x == sessions[s] IN
    /\ x.timers \subseteq {x.current} /\ NoTrack \notin x.timers
    /\ x.current # NoTrack /\ ~x.stalled => x.timers = {x.current}
    /\ x.queue = [i \in 1..Len(x.queue) |-> x.added - Len(x.queue) + i]
    /\ x.current # NoTrack => x.current = x.added - Len(x.queue)

(* Between commands the bot is in a voice room exactly if the server has the
   session that put it there, so that muzik-ayril can always take it out - unless
   a join failed or was given up, a leave was given up, or two such commands
   overlapped, each of which may leave a bot nobody can remove. *)
SessionHasItsRoom ==
  (~muddled /\ command = << >>) =>
    \A v \in VoiceChannels :
      voice[v] = IF sessionOf # NoSession /\ sessions[sessionOf].channel = v
                    THEN sessionOf ELSE NoSession

=============================================================================
