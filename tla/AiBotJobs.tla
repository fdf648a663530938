----------------------------- MODULE AiBotJobs -----------------------------
(***************************************************************************)
(* The queue of bot questions (/sor in a channel): the ai_bot_jobs table   *)
(* and process_bot_one of worker.py, which generates an answer, stores it, *)
(* posts it to the Matrix room and then marks the job as done.             *)
(*                                                                         *)
(* Steps, leases and helpers are as in AiJobQueue: a helper that passes    *)
(* its fencing test is a read and a later commit.  There is no             *)
(* cancellation and no streaming; instead the stored result survives the   *)
(* attempt, and the send to Matrix lies outside of any transaction.        *)
(*                                                                         *)
(* A text is named by the attempt that generated it; 0 stands for NULL and *)
(* for the empty text, which Python's "not result" does not tell apart.    *)
(*                                                                         *)
(* The Matrix homeserver is external: it keeps one event per transaction   *)
(* id of an access token, and all sends carry the token of the one bot     *)
(* account.  Which ids it gets to see is the worker's doing (Txn).         *)
(***************************************************************************)
EXTENDS Naturals, Sequences

CONSTANTS
  MaxJobs,       \* rows are numbered 1..MaxJobs, in order of insertion
  Workers,       \* ai-worker processes; a restarted one takes a new WORKER_ID
  NoWorker,      \* locked_by IS NULL
  Gone,          \* locked_by of a process that no longer exists
  MaxAttempts,   \* max(1, settings.ai_worker_max_attempts)
  MaxFaults      \* bound: crashes, hung sends, database errors, lost leases

ASSUME JobsAssumption    == MaxJobs \in Nat \ {0}
ASSUME WorkersAssumption == /\ Workers # {} /\ NoWorker # Gone
                            /\ NoWorker \notin Workers /\ Gone \notin Workers
ASSUME BoundsAssumption  == MaxAttempts \in Nat \ {0} /\ MaxFaults \in Nat

VARIABLES
  ai_bot_jobs,   \* the rows of table ai_bot_jobs
  room,          \* the events the sends put into the Matrix rooms
  worker,        \* per process, where it is in process_bot_one and its locals
  chat_waiting,  \* _claim_next_job would find a chat job
  faults

vars == <<ai_bot_jobs, room, worker, chat_waiting, faults>>

Jobs     == 1..MaxJobs
Pending  == {"queued", "running"}
Terminal == {"succeeded", "failed"}
Statuses == {"absent"} \cup Pending \cup Terminal

\* What ended an attempt: OllamaError that may pass or not, MatrixError, a
\* connection to Matrix that broke, anything else.
Errors == {"none", "gateway", "model", "matrix", "connection", "other"}

Row == [status      : Statuses,
        attempts    : Nat,
        locked_by   : Workers \cup {NoWorker, Gone},
        lease       : {"null", "live", "expired"},   \* lease_expires_at
        due         : BOOLEAN,                       \* next_attempt_at <= now
        result_text : Nat,
        error       : Errors]

ReadPc   == {"load", "chat", "store", "send", "hung", "finish", "fail"}
CommitPc == {"store_commit", "finish_commit", "fail_commit"}

Process == [pc      : {"idle"} \cup ReadPc \cup CommitPc,
            job     : Jobs \cup {0},
            attempt : Nat,
            result  : Nat,
            error   : Errors]

Absent == [status |-> "absent", attempts |-> 0, locked_by |-> NoWorker,
           lease |-> "null", due |-> FALSE, result_text |-> 0, error |-> "none"]

Idle == [pc |-> "idle", job |-> 0, attempt |-> 0, result |-> 0, error |-> "none"]

\* job is a history field: the question the event answers, which Matrix is not told.
Event == [txn : Seq(Nat), job : Jobs, text : Nat]

TypeOK ==
  /\ ai_bot_jobs \in [Jobs -> Row]
  /\ room \subseteq Event
  /\ worker \in [Workers -> Process]
  /\ \A w \in Workers : worker[w].pc # "idle" => worker[w].job \in Jobs
  /\ chat_waiting \in BOOLEAN
  /\ faults \in 0..MaxFaults

Init ==
  /\ ai_bot_jobs = [j \in Jobs |-> Absent]
  /\ room = {}
  /\ worker = [w \in Workers |-> Idle]
  /\ chat_waiting = FALSE
  /\ faults = 0

-----------------------------------------------------------------------------

SetRow(j, row)   == ai_bot_jobs' = [ai_bot_jobs EXCEPT ![j] = row]
SetProcess(w, p) == worker' = [worker EXCEPT ![w] = p]
Goto(w, pc)      == SetProcess(w, [worker[w] EXCEPT !.pc = pc])
Raise(w, error)  == SetProcess(w, [worker[w] EXCEPT !.pc = "fail", !.error = error])

Released(row, status) ==
  [row EXCEPT !.status = status, !.locked_by = NoWorker, !.lease = "null"]

\* enqueue_bot_question
Enqueue(j) ==
  /\ ai_bot_jobs[j].status = "absent"
  /\ \A i \in Jobs : i < j => ai_bot_jobs[i].status # "absent"
  /\ SetRow(j, [ai_bot_jobs[j] EXCEPT !.status = "queued", !.due = TRUE])
  /\ UNCHANGED <<room, worker, chat_waiting, faults>>

\* process_one looks for a chat job first.
ChatArrives ==
  /\ ~chat_waiting /\ chat_waiting' = TRUE
  /\ UNCHANGED <<ai_bot_jobs, room, worker, faults>>

ServeChat(w) ==
  /\ worker[w].pc = "idle"
  /\ chat_waiting /\ chat_waiting' = FALSE
  /\ UNCHANGED <<ai_bot_jobs, room, worker, faults>>

\* Mutant: expired leases are not taken over.
ClaimableQueuedOnly(j) == ai_bot_jobs[j].status = "queued" /\ ai_bot_jobs[j].due

\* Mutant: a failed job is tried again when its date has passed.
ClaimableFailed(j) ==
  \/ ai_bot_jobs[j].status \in {"queued", "failed"} /\ ai_bot_jobs[j].due
  \/ ai_bot_jobs[j].status = "running" /\ ai_bot_jobs[j].lease = "expired"

Claimable(j) ==
  \/ ai_bot_jobs[j].status = "queued" /\ ai_bot_jobs[j].due
  \/ ai_bot_jobs[j].status = "running" /\ ai_bot_jobs[j].lease = "expired"

\* A transaction of another process may hold the row's lock.
Committing(j) == \E w \in Workers : worker[w].job = j /\ worker[w].pc \in CommitPc

\* The first claimable row that is not passed over (SKIP LOCKED).  The result of
\* an earlier attempt stays on the row.
Claim(w) ==
  /\ worker[w].pc = "idle" /\ ~chat_waiting
  /\ \E j \in Jobs :
       /\ Claimable(j)
       /\ \A i \in Jobs : Claimable(i) => j <= i \/ Committing(i)
       /\ SetRow(j, [ai_bot_jobs[j] EXCEPT !.status = "running", !.attempts = @ + 1,
                                           !.locked_by = w, !.lease = "live"])
       /\ SetProcess(w, [Idle EXCEPT !.pc = "load", !.job = j,
                                     !.attempt = ai_bot_jobs[j].attempts + 1])
  /\ UNCHANGED <<room, chat_waiting, faults>>

-----------------------------------------------------------------------------
(* process_bot_one *)

MyRow(w) == ai_bot_jobs[worker[w].job]
Mine(w)  == MyRow(w).status = "running" /\ MyRow(w).locked_by = w

\* Mutant: the stored result is not used.
LoadForgets(w) ==
  /\ worker[w].pc = "load"
  /\ IF Mine(w) THEN Goto(w, "chat") ELSE SetProcess(w, Idle)
  /\ UNCHANGED <<ai_bot_jobs, room, chat_waiting, faults>>

\* An attempt that finds a result goes straight to the send.
Load(w) ==
  /\ worker[w].pc = "load"
  /\ SetProcess(w,
       IF ~Mine(w) THEN Idle
       ELSE [worker[w] EXCEPT !.pc = IF MyRow(w).result_text = 0 THEN "chat" ELSE "send",
                              !.result = MyRow(w).result_text])
  /\ UNCHANGED <<ai_bot_jobs, room, chat_waiting, faults>>

\* ollama_client.chat: a text, an empty text, or an error.
Chat(w) ==
  /\ worker[w].pc = "chat"
  /\ \/ \E text \in {0, worker[w].attempt} :
          SetProcess(w, [worker[w] EXCEPT !.pc = "store", !.result = text])
     \/ \E error \in {"gateway", "model"} : Raise(w, error)
  /\ UNCHANGED <<ai_bot_jobs, room, chat_waiting, faults>>

StoreRead(w) ==
  /\ worker[w].pc = "store"
  /\ IF Mine(w) THEN Goto(w, "store_commit") ELSE SetProcess(w, Idle)
  /\ UNCHANGED <<ai_bot_jobs, room, chat_waiting, faults>>

StoreCommit(w) ==
  /\ worker[w].pc = "store_commit"
  /\ SetRow(worker[w].job, [MyRow(w) EXCEPT !.result_text = worker[w].result])
  /\ Goto(w, "send")
  /\ UNCHANGED <<room, chat_waiting, faults>>

\* Mutant: every attempt sends under an id of its own.
TxnFresh(w) == <<worker[w].job, worker[w].attempt>>

\* Mutant: the id does not tell the jobs apart.
TxnShared(w) == << >>

\* nexus-ai-job-{job_id}, the txn_id every attempt of every worker passes.
Txn(w) == <<worker[w].job>>

Answer(w) == [txn |-> Txn(w), job |-> worker[w].job, text |-> worker[w].result]

\* The homeserver: a transaction id it knows is answered with the event it has.
Deliver(event) ==
  room' = IF \E e \in room : e.txn = event.txn THEN room ELSE room \cup {event}

\* matrix_client.send_message: answered, refused or timed out by a proxy
\* (MatrixError), or cut off or answered with something else, with the event in
\* the room or not.  Without a token or a room id it is refused before it starts.
Send(w) ==
  /\ worker[w].pc = "send"
  /\ \/ Deliver(Answer(w)) /\ Goto(w, "finish")
     \/ /\ Deliver(Answer(w)) \/ UNCHANGED room
        /\ \E error \in {"matrix", "connection"} : Raise(w, error)
  /\ UNCHANGED <<ai_bot_jobs, chat_waiting, faults>>

FinishRead(w) ==
  /\ worker[w].pc = "finish"
  /\ IF Mine(w) THEN Goto(w, "finish_commit") ELSE SetProcess(w, Idle)
  /\ UNCHANGED <<ai_bot_jobs, room, chat_waiting, faults>>

FinishCommit(w) ==
  /\ worker[w].pc = "finish_commit"
  /\ SetRow(worker[w].job, [Released(MyRow(w), "succeeded") EXCEPT !.error = "none"])
  /\ SetProcess(w, Idle)
  /\ UNCHANGED <<room, chat_waiting, faults>>

FailRead(w) ==
  /\ worker[w].pc = "fail"
  /\ IF Mine(w) THEN Goto(w, "fail_commit") ELSE SetProcess(w, Idle)
  /\ UNCHANGED <<ai_bot_jobs, room, chat_waiting, faults>>

\* Mutant: a status AiJobStatus does not have.
VerdictUnknown(w) == IF worker[w].attempt < MaxAttempts THEN "retrying" ELSE "failed"

Verdict(w) ==
  IF worker[w].error \in {"gateway", "matrix"} /\ worker[w].attempt < MaxAttempts
  THEN "queued" ELSE "failed"

FailCommit(w) ==
  /\ worker[w].pc = "fail_commit"
  /\ SetRow(worker[w].job, [Released(MyRow(w), Verdict(w)) EXCEPT
       !.due = IF Verdict(w) = "queued" THEN FALSE ELSE @, !.error = worker[w].error])
  /\ SetProcess(w, Idle)
  /\ UNCHANGED <<room, chat_waiting, faults>>

-----------------------------------------------------------------------------
(* The clock, and what may go wrong *)

BackoffElapses(j) ==
  /\ ai_bot_jobs[j].status = "queued" /\ ~ai_bot_jobs[j].due
  /\ SetRow(j, [ai_bot_jobs[j] EXCEPT !.due = TRUE])
  /\ UNCHANGED <<room, worker, chat_waiting, faults>>

\* A process that holds the row may still write to it.
Held(j) ==
  \E w \in Workers : /\ ai_bot_jobs[j].locked_by = w
                     /\ worker[w].pc \notin {"idle", "hung"} /\ worker[w].job = j

LeaseExpires(j) ==
  /\ ai_bot_jobs[j].lease = "live"
  /\ SetRow(j, [ai_bot_jobs[j] EXCEPT !.lease = "expired"])
  /\ IF Held(j) THEN faults < MaxFaults /\ faults' = faults + 1
                ELSE UNCHANGED faults
  /\ UNCHANGED <<room, worker, chat_waiting>>

Fault == faults < MaxFaults /\ faults' = faults + 1

Crash(w) ==
  /\ Fault
  /\ SetProcess(w, Idle)
  /\ ai_bot_jobs' = [j \in Jobs |->
       IF ai_bot_jobs[j].locked_by = w THEN [ai_bot_jobs[j] EXCEPT !.locked_by = Gone]
       ELSE ai_bot_jobs[j]]
  /\ UNCHANGED <<room, chat_waiting>>

\* requests.put has no timeout: a homeserver that accepts the connection and
\* never answers keeps the process for good.
SendHangs(w) ==
  /\ Fault
  /\ worker[w].pc = "send"
  /\ Deliver(Answer(w)) \/ UNCHANGED room
  /\ Goto(w, "hung")
  /\ UNCHANGED <<ai_bot_jobs, chat_waiting>>

DatabaseError(w) ==
  /\ Fault
  /\ worker[w].pc \notin {"idle", "chat", "send", "hung"}
  /\ IF worker[w].pc \in {"fail", "fail_commit"} THEN SetProcess(w, Idle)
                                                 ELSE Raise(w, "other")
  /\ UNCHANGED <<ai_bot_jobs, room, chat_waiting>>

-----------------------------------------------------------------------------

WorkerStep(w) ==
  \/ Load(w) \/ Chat(w)
  \/ StoreRead(w) \/ StoreCommit(w)
  \/ Send(w)
  \/ FinishRead(w) \/ FinishCommit(w)
  \/ FailRead(w) \/ FailCommit(w)

Next ==
  \/ ChatArrives
  \/ \E j \in Jobs : Enqueue(j) \/ BackoffElapses(j) \/ LeaseExpires(j)
  \/ \E w \in Workers : \/ ServeChat(w) \/ Claim(w)
                        \/ WorkerStep(w)
                        \/ Crash(w) \/ SendHangs(w) \/ DatabaseError(w)

Spec == Init /\ [][Next]_vars

\* Workers run and the clock goes on, as in AiJobQueue.  A bot job is claimed
\* only when no chat job waits, hence strong fairness: the assumption is that
\* a poll finds the chat queue empty again and again.
FairSpec ==
  /\ Spec
  /\ \A w \in Workers : /\ WF_vars(WorkerStep(w)) /\ WF_vars(ServeChat(w))
                        /\ SF_vars(Claim(w))
  /\ \A j \in Jobs : WF_vars(BackoffElapses(j)) /\ WF_vars(LeaseExpires(j))

-----------------------------------------------------------------------------
(* Properties *)

\* The answers to question j among events.
Texts(events, j) == {e.text : e \in {f \in events : f.job = j}}

(* A question is answered once: however its attempts and workers interleave,
   and whichever answers of the homeserver get lost, no attempt sends under an
   id that differs from the one an earlier attempt may have been heard under. *)
AtMostOneEvent == \A e, f \in room : e.job = f.job => e = f

(* "succeeded" means that the answer to this question is in the room: the send
   was not taken for the repetition of another question's. *)
SucceededWasPosted ==
  \A j \in Jobs : ai_bot_jobs[j].status = "succeeded" => Texts(room, j) # {}

(* With one worker, what the room shows is what result_text says, however
   often the job was retried or its worker killed around the send.  (The empty
   answer is the exception: it is generated again.) *)
PostedIsStored ==
  \A j \in Jobs : Texts(room, j) \subseteq {0, ai_bot_jobs[j].result_text}

(* Every question is settled, although a send may hang for good, as long as
   another worker is left. *)
EveryBotJobSettles ==
  \A j \in Jobs : (ai_bot_jobs[j].status \in Pending) ~> (ai_bot_jobs[j].status \in Terminal)

(* docs/deployment/AI_WORKER.md:40-41 and matrix_client.py:90-91: a send that
   was cut off is retried, under the same transaction id, while attempts are
   left. *)
CutOffSendsAreRetried ==
  \A j \in Jobs :
    ai_bot_jobs[j].status = "failed" /\ ai_bot_jobs[j].error = "connection" =>
      ai_bot_jobs[j].attempts >= MaxAttempts

Lifecycle == INSTANCE AiJobLifecycle
  WITH status  <- [j \in Jobs |-> ai_bot_jobs[j].status],
       answers <- [j \in Jobs |-> IF ai_bot_jobs[j].status = "succeeded" THEN 1 ELSE 0]

(* With one worker, a bot job moves along the same edges as a chat job. *)
ImplementsLifecycle == Lifecycle!Spec

=============================================================================
