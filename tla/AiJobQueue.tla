----------------------------- MODULE AiJobQueue -----------------------------
(***************************************************************************)
(* The queue of AI chat jobs: the ai_jobs table, the API handlers that add *)
(* and cancel rows, and the ai-worker processes that claim a row under a   *)
(* lease, stream an answer from the gateway and store it                   *)
(* (backend/app/services/ollama/worker.py and requests.py).                *)
(*                                                                         *)
(* Atomicity.  Every helper of worker.py opens a session of its own, reads *)
(* the row without a lock, tests it in Python and commits an UPDATE of the *)
(* columns it changed, restricted by the primary key alone.  Under READ    *)
(* COMMITTED another transaction may commit in between, so a helper that   *)
(* passes its test is two steps here: the read (pc = "complete") and the   *)
(* commit (pc = "complete_commit").  _claim_next_job and the cancel_job    *)
(* handler hold the row lock (FOR UPDATE) and are one step.                *)
(*                                                                         *)
(* Time.  next_attempt_at and lease_expires_at are compared with the clock *)
(* only, so a row keeps whether its date has passed.  Texts are counted in *)
(* stream payloads.  The columns error, started_at and completed_at, which *)
(* no code reads to decide anything, are left out.                         *)
(***************************************************************************)
EXTENDS Naturals, Sequences

CONSTANTS
  MaxJobs,       \* rows are numbered 1..MaxJobs, in order of insertion
  Workers,       \* ai-worker processes; a restarted one takes a new WORKER_ID
  NoWorker,      \* locked_by IS NULL
  Gone,          \* locked_by of a process that no longer exists
  MaxAttempts,   \* max(1, settings.ai_worker_max_attempts)
  MaxChunks,     \* bound: payloads of one generation (num_predict bounds it)
  MaxFaults      \* bound: crashes, database errors and lost leases in a run

ASSUME JobsAssumption    == MaxJobs \in Nat \ {0}
ASSUME WorkersAssumption == /\ Workers # {}
                            /\ NoWorker \notin Workers
                            /\ Gone \notin Workers
                            /\ NoWorker # Gone
ASSUME BoundsAssumption  == /\ MaxAttempts \in Nat \ {0}
                            /\ MaxChunks \in Nat
                            /\ MaxFaults \in Nat

VARIABLES
  ai_jobs,       \* the rows of table ai_jobs
  answers,       \* per job, the assistant messages stored for it, oldest first
  worker,        \* per process, where it is in process_one and its locals
  faults,        \* faults so far, at most MaxFaults
  asked          \* history: jobs whose cancellation a client requested

vars == <<ai_jobs, answers, worker, faults, asked>>

Jobs     == 1..MaxJobs
Pending  == {"queued", "running"}
Terminal == {"succeeded", "failed", "cancelled"}
Statuses == {"absent"} \cup Pending \cup Terminal

Row == [status           : Statuses,
        attempts         : Nat,
        locked_by        : Workers \cup {NoWorker, Gone},
        lease            : {"null", "live", "expired"},   \* lease_expires_at
        due              : BOOLEAN,                       \* next_attempt_at <= now
        cancel_requested : BOOLEAN,
        output           : Nat]                           \* output_text

ReadPc   == {"load", "stream", "flush", "complete", "cancel", "fail"}
CommitPc == {"flush_commit", "complete_commit", "cancel_commit", "fail_commit"}

\* seen: the status a helper read (cancel_commit) or is about to write
\* (fail_commit).  last: this flush is the one after the stream ended.
Process == [pc      : {"idle"} \cup ReadPc \cup CommitPc,
            job     : Jobs \cup {0},
            attempt : Nat,
            buf     : Nat,
            last    : BOOLEAN,
            retryable : BOOLEAN,
            seen    : Statuses]

Absent == [status |-> "absent", attempts |-> 0, locked_by |-> NoWorker,
           lease |-> "null", due |-> FALSE, cancel_requested |-> FALSE,
           output |-> 0]

Idle == [pc |-> "idle", job |-> 0, attempt |-> 0, buf |-> 0, last |-> FALSE,
         retryable |-> FALSE, seen |-> "absent"]

TypeOK ==
  /\ ai_jobs \in [Jobs -> Row]
  /\ answers \in [Jobs -> Seq(Nat)]
  /\ worker \in [Workers -> Process]
  /\ \A w \in Workers : worker[w].pc # "idle" => worker[w].job \in Jobs
  /\ faults \in 0..MaxFaults
  /\ asked \in SUBSET Jobs

Init ==
  /\ ai_jobs = [j \in Jobs |-> Absent]
  /\ answers = [j \in Jobs |-> << >>]
  /\ worker = [w \in Workers |-> Idle]
  /\ faults = 0
  /\ asked = {}

-----------------------------------------------------------------------------
(* What an UPDATE writes *)

SetRow(j, row)  == ai_jobs' = [ai_jobs EXCEPT ![j] = row]
SetProcess(w, p) == worker' = [worker EXCEPT ![w] = p]
Goto(w, pc)      == SetProcess(w, [worker[w] EXCEPT !.pc = pc])

\* Mutant: the lock of the attempt stays on the row.
ReleasedLocked(row, status) == [row EXCEPT !.status = status]

\* Every update that ends an attempt clears the lock columns.
Released(row, status) ==
  [row EXCEPT !.status = status, !.locked_by = NoWorker, !.lease = "null"]

\* cancel_requested is only ever set.
Flagged(row) == [row EXCEPT !.cancel_requested = TRUE]

\* A failed attempt; when the job is requeued, next_attempt_at is in the future.
Failed(row, status) ==
  [Released(row, status) EXCEPT !.due = IF status = "queued" THEN FALSE ELSE @]

\* Mutant: the lease column is not set.
LockedUnleased(row, w) == [row EXCEPT !.status = "running", !.locked_by = w]

Locked(row, w) ==
  [row EXCEPT !.status = "running", !.locked_by = w, !.lease = "live"]

\* Mutant: a reclaimed row forgets that its cancellation was requested.
ClaimedResetsCancel(row, w) ==
  [Locked(row, w) EXCEPT !.attempts = @ + 1, !.output = 0, !.cancel_requested = FALSE]

\* Mutant: the attempt is not counted.
ClaimedUncounted(row, w) == [Locked(row, w) EXCEPT !.output = 0]

\* The columns a claim writes.
Claimed(row, w) == [Locked(row, w) EXCEPT !.attempts = @ + 1, !.output = 0]

-----------------------------------------------------------------------------
(* The API process *)

\* send_message commits the user message and the row of its job together.
\* Which requests get this far is modelled in AiJobApi.
Enqueue(j) ==
  /\ ai_jobs[j].status = "absent"
  /\ \A i \in Jobs : i < j => ai_jobs[i].status # "absent"
  /\ SetRow(j, [ai_jobs[j] EXCEPT !.status = "queued", !.due = TRUE])
  /\ UNCHANGED <<answers, worker, faults, asked>>

\* Mutant: the handler cancels without looking at the status.
CancelRequestUnguarded(j) ==
  /\ ai_jobs[j].status # "absent"
  /\ SetRow(j, Flagged(Released(ai_jobs[j], "cancelled")))
  /\ asked' = asked \cup {j}
  /\ UNCHANGED <<answers, worker, faults>>

\* The row is locked from the read to the commit.
CancelRequest(j) ==
  /\ ai_jobs[j].status \in Pending
  /\ SetRow(j, IF ai_jobs[j].status = "queued"
               THEN Flagged(Released(ai_jobs[j], "cancelled"))
               ELSE Flagged(ai_jobs[j]))
  /\ asked' = asked \cup {j}
  /\ UNCHANGED <<answers, worker, faults>>

-----------------------------------------------------------------------------
(* A worker process: claim, load, stream *)

\* Mutant: expired leases are not taken over.
ClaimableQueuedOnly(j) == ai_jobs[j].status = "queued" /\ ai_jobs[j].due

\* Mutant: failed rows are picked up again.
ClaimableFailed(j) ==
  \/ ai_jobs[j].status \in {"queued", "failed"} /\ ai_jobs[j].due
  \/ ai_jobs[j].status = "running" /\ ai_jobs[j].lease = "expired"

Claimable(j) ==
  \/ ai_jobs[j].status = "queued" /\ ai_jobs[j].due
  \/ ai_jobs[j].status = "running" /\ ai_jobs[j].lease = "expired"

\* The first claimable row whose lock is free.  A cancel request, which may come
\* at any time, holds the lock of its row, and SKIP LOCKED then passes over it:
\* so it may be any claimable row.
Claim(w) ==
  /\ worker[w].pc = "idle"
  /\ \E j \in Jobs :
       /\ Claimable(j)
       /\ SetRow(j, Claimed(ai_jobs[j], w))
       /\ SetProcess(w, [Idle EXCEPT !.pc = "load", !.job = j,
                                     !.attempt = ai_jobs[j].attempts + 1])
  /\ UNCHANGED <<answers, faults, asked>>

\* The row of the job a process works on, and the fencing test every helper
\* starts with.
MyRow(w) == ai_jobs[worker[w].job]
Mine(w)  == MyRow(w).status = "running" /\ MyRow(w).locked_by = w

Load(w) ==
  /\ worker[w].pc = "load"
  /\ SetProcess(w,
       IF ~Mine(w) THEN Idle
       ELSE [worker[w] EXCEPT
               !.pc = IF MyRow(w).cancel_requested THEN "cancel" ELSE "stream",
               !.attempt = MyRow(w).attempts,
               !.buf = MyRow(w).output])
  /\ UNCHANGED <<ai_jobs, answers, faults, asked>>

\* One payload of chat_stream; the poll period may have passed, or not.
ReceiveChunk(w) ==
  /\ worker[w].pc = "stream"
  /\ worker[w].buf < MaxChunks
  /\ \E pc \in {"stream", "flush"} :
       SetProcess(w, [worker[w] EXCEPT !.buf = @ + 1, !.pc = pc])
  /\ UNCHANGED <<ai_jobs, answers, faults, asked>>

\* Mutant: the text after the last periodic flush is not flushed.
StreamEndsUnflushed(w) ==
  /\ worker[w].pc = "stream"
  /\ Goto(w, "complete")
  /\ UNCHANGED <<ai_jobs, answers, faults, asked>>

StreamEnds(w) ==
  /\ worker[w].pc = "stream"
  /\ SetProcess(w, [worker[w] EXCEPT !.pc = "flush", !.last = TRUE])
  /\ UNCHANGED <<ai_jobs, answers, faults, asked>>

\* The gateway is unavailable or timed out (retryable), or anything else.
StreamFails(w) ==
  /\ worker[w].pc = "stream"
  /\ \E retryable \in BOOLEAN :
       SetProcess(w, [worker[w] EXCEPT !.pc = "fail", !.retryable = retryable])
  /\ UNCHANGED <<ai_jobs, answers, faults, asked>>

-----------------------------------------------------------------------------
(* _update_output *)

FlushRead(w) ==
  /\ worker[w].pc = "flush"
  /\ Goto(w, IF Mine(w) /\ ~MyRow(w).cancel_requested THEN "flush_commit" ELSE "cancel")
  /\ UNCHANGED <<ai_jobs, answers, faults, asked>>

FlushCommit(w) ==
  /\ worker[w].pc = "flush_commit"
  /\ SetRow(worker[w].job, [MyRow(w) EXCEPT !.output = worker[w].buf])
  /\ Goto(w, IF worker[w].last THEN "complete" ELSE "stream")
  /\ UNCHANGED <<answers, faults, asked>>

-----------------------------------------------------------------------------
(* _complete_job: the answer, its usage row and the status, in one commit *)

CompleteRead(w) ==
  /\ worker[w].pc = "complete"
  /\ Goto(w, IF Mine(w) /\ ~MyRow(w).cancel_requested THEN "complete_commit" ELSE "cancel")
  /\ UNCHANGED <<ai_jobs, answers, faults, asked>>

CompleteCommit(w) ==
  /\ worker[w].pc = "complete_commit"
  /\ answers' = [answers EXCEPT ![worker[w].job] = Append(@, worker[w].buf)]
  /\ SetRow(worker[w].job, Released(MyRow(w), "succeeded"))
  /\ SetProcess(w, Idle)
  /\ UNCHANGED <<faults, asked>>

-----------------------------------------------------------------------------
(* _cancel_job *)

CancelRead(w) ==
  /\ worker[w].pc = "cancel"
  /\ SetProcess(w,
       IF MyRow(w).status = "queued" \/ Mine(w)
       THEN [worker[w] EXCEPT !.pc = "cancel_commit", !.seen = MyRow(w).status]
       ELSE Idle)
  /\ UNCHANGED <<ai_jobs, answers, faults, asked>>

\* A row read as "queued" had no lock: the UPDATE leaves those columns out.
CancelCommit(w) ==
  /\ worker[w].pc = "cancel_commit"
  /\ SetRow(worker[w].job,
            IF worker[w].seen = "queued"
            THEN Flagged([MyRow(w) EXCEPT !.status = "cancelled"])
            ELSE Flagged(Released(MyRow(w), "cancelled")))
  /\ SetProcess(w, Idle)
  /\ UNCHANGED <<answers, faults, asked>>

-----------------------------------------------------------------------------
(* _fail_job *)

\* Mutant: one attempt too many.
VerdictOffByOne(w) ==
  IF MyRow(w).cancel_requested THEN "cancelled"
  ELSE IF worker[w].retryable /\ worker[w].attempt <= MaxAttempts
       THEN "queued" ELSE "failed"

\* Mutant: an error that is not retryable ends the job as cancelled.
VerdictCancels(w) ==
  IF worker[w].retryable /\ ~MyRow(w).cancel_requested /\ worker[w].attempt < MaxAttempts
  THEN "queued" ELSE "cancelled"

\* Mutant: a status AiJobStatus does not have.
VerdictUnknown(w) == IF worker[w].retryable THEN "retrying" ELSE "failed"

\* What _fail_job makes of a row it may write.
Verdict(w) ==
  IF MyRow(w).cancel_requested THEN "cancelled"
  ELSE IF worker[w].retryable /\ worker[w].attempt < MaxAttempts
       THEN "queued" ELSE "failed"

FailRead(w) ==
  /\ worker[w].pc = "fail"
  /\ SetProcess(w,
       IF Mine(w) THEN [worker[w] EXCEPT !.pc = "fail_commit", !.seen = Verdict(w)]
                  ELSE Idle)
  /\ UNCHANGED <<ai_jobs, answers, faults, asked>>

FailCommit(w) ==
  /\ worker[w].pc = "fail_commit"
  /\ SetRow(worker[w].job, Failed(MyRow(w), worker[w].seen))
  /\ SetProcess(w, Idle)
  /\ UNCHANGED <<answers, faults, asked>>

-----------------------------------------------------------------------------
(* The clock, and what may go wrong *)

BackoffElapses(j) ==
  /\ ai_jobs[j].status = "queued" /\ ~ai_jobs[j].due
  /\ SetRow(j, [ai_jobs[j] EXCEPT !.due = TRUE])
  /\ UNCHANGED <<answers, worker, faults, asked>>

\* A process that holds the row is still working on it.
Held(j) ==
  \E w \in Workers : /\ ai_jobs[j].locked_by = w
                     /\ worker[w].pc # "idle" /\ worker[w].job = j

\* No code renews a lease: it also runs out under a generation that outlasts it.
LeaseExpires(j) ==
  /\ ai_jobs[j].lease = "live"
  /\ SetRow(j, [ai_jobs[j] EXCEPT !.lease = "expired"])
  /\ IF Held(j) THEN faults < MaxFaults /\ faults' = faults + 1
                ELSE UNCHANGED faults
  /\ UNCHANGED <<answers, worker, asked>>

\* The process dies; the supervisor starts another one with a new WORKER_ID.
Crash(w) ==
  /\ faults < MaxFaults
  /\ faults' = faults + 1
  /\ SetProcess(w, Idle)
  /\ ai_jobs' = [j \in Jobs |->
       IF ai_jobs[j].locked_by = w THEN [ai_jobs[j] EXCEPT !.locked_by = Gone]
       ELSE ai_jobs[j]]
  /\ UNCHANGED <<answers, asked>>

\* A helper raises.  process_one hands the job to _fail_job; when _fail_job
\* itself raises, run logs it and goes on, and the row stays as it was.
DatabaseError(w) ==
  /\ faults < MaxFaults
  /\ worker[w].pc \notin {"idle", "stream"}
  /\ faults' = faults + 1
  /\ SetProcess(w, IF worker[w].pc \in {"fail", "fail_commit"} THEN Idle
                   ELSE [worker[w] EXCEPT !.pc = "fail", !.retryable = FALSE])
  /\ UNCHANGED <<ai_jobs, answers, asked>>

-----------------------------------------------------------------------------

WorkerStep(w) ==
  \/ Load(w)
  \/ ReceiveChunk(w) \/ StreamEnds(w) \/ StreamFails(w)
  \/ FlushRead(w) \/ FlushCommit(w)
  \/ CompleteRead(w) \/ CompleteCommit(w)
  \/ CancelRead(w) \/ CancelCommit(w)
  \/ FailRead(w) \/ FailCommit(w)

Next ==
  \/ \E j \in Jobs : \/ Enqueue(j)
                     \/ CancelRequest(j)
                     \/ BackoffElapses(j)
                     \/ LeaseExpires(j)
  \/ \E w \in Workers : \/ Claim(w)
                        \/ WorkerStep(w)
                        \/ Crash(w)
                        \/ DatabaseError(w)

Spec == Init /\ [][Next]_vars

\* A worker keeps taking steps (run loops for ever, compose restarts it; the
\* gateway's timeout ends a silent stream), and the clock goes on.
Fairness ==
  /\ \A w \in Workers : WF_vars(Claim(w)) /\ WF_vars(WorkerStep(w))
  /\ \A j \in Jobs : WF_vars(BackoffElapses(j)) /\ WF_vars(LeaseExpires(j))

FairSpec == Spec /\ Fairness

-----------------------------------------------------------------------------
(* Properties *)

Writing(j, pcs) == \E w \in Workers : worker[w].job = j /\ worker[w].pc \in pcs

(* Whatever the number of workers, a row in "running" carries a lock and a
   lease, so that _claim_next_job can take it over when its worker is gone (a
   NULL lease never compares as expired), and a row waiting in "queued"
   carries neither. *)
RunningIsReclaimable ==
  \A j \in Jobs :
    /\ ai_jobs[j].status = "running" => /\ ai_jobs[j].locked_by # NoWorker
                                        /\ ai_jobs[j].lease # "null"
    /\ ai_jobs[j].status = "queued" => /\ ai_jobs[j].locked_by = NoWorker
                                       /\ ai_jobs[j].lease = "null"

(* Fencing limits duplicates to one answer per claim of the row: a worker that
   lost its lease between the test and the commit of _complete_job may add a
   second answer, but never more answers than there were attempts. *)
AnswersBoundedByAttempts ==
  \A j \in Jobs : Len(answers[j]) <= ai_jobs[j].attempts

(* The lock columns are set exactly while the job runs, and only the process
   named there can be anywhere inside process_one with that job. *)
LockDiscipline ==
  /\ \A j \in Jobs : /\ (ai_jobs[j].locked_by # NoWorker) <=> (ai_jobs[j].status = "running")
                     /\ (ai_jobs[j].lease # "null") <=> (ai_jobs[j].status = "running")
  /\ \A w \in Workers : worker[w].pc # "idle" => Mine(w)

(* A succeeded job has one assistant message, equal to the output its SSE
   stream ended with; a job in any other status has none.  So no partial,
   duplicate or orphan answer enters the conversation. *)
OneAnswerPerSuccess ==
  \A j \in Jobs :
    answers[j] = IF ai_jobs[j].status = "succeeded" THEN <<ai_jobs[j].output>> ELSE << >>

(* A job ends "cancelled" only if a client called the cancel endpoint. *)
CancelledOnlyOnRequest ==
  \A j \in Jobs : ai_jobs[j].status = "cancelled" => j \in asked

(* The retry bound: a job waits for another attempt only while it has used
   fewer than MaxAttempts, reclaims after a crash included. *)
RetriesBounded ==
  \A j \in Jobs : ai_jobs[j].status = "queued" => ai_jobs[j].attempts < MaxAttempts

(* A terminal status is the last word: the SSE stream has sent "complete" and
   gone, so neither the row nor its answers may change afterwards. *)
TerminalIsFinal ==
  [][\A j \in Jobs : ai_jobs[j].status \in Terminal =>
       ai_jobs'[j] = ai_jobs[j] /\ answers'[j] = answers[j]]_vars

(* Every accepted job reaches a terminal status, through retries, crashes,
   database errors and lost leases. *)
EveryJobSettles ==
  \A j \in Jobs : (ai_jobs[j].status \in Pending) ~> (ai_jobs[j].status \in Terminal)

(* A cancellation recorded before the worker has passed the last test of
   _complete_job or _fail_job does end the job as "cancelled", whatever
   crash or reclaim comes in between. *)
CancelTakesEffect ==
  \A j \in Jobs :
    (/\ ai_jobs[j].status \in Pending
     /\ ai_jobs[j].cancel_requested
     /\ ~Writing(j, {"complete_commit", "fail_commit"}))
    ~> (ai_jobs[j].status = "cancelled")

(* The table, seen through the API, is the job lifecycle clients rely on. *)
Lifecycle == INSTANCE AiJobLifecycle
  WITH status  <- [j \in Jobs |-> ai_jobs[j].status],
       answers <- [j \in Jobs |-> Len(answers[j])]

(* With one worker the queue implements AiJobLifecycle: no status skips or
   returns from a terminal one, and the answer appears with "succeeded". *)
ImplementsLifecycle == Lifecycle!Spec

=============================================================================
