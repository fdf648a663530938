-------------------------- MODULE AiJobQueueProofs --------------------------
(***************************************************************************)
(* Proofs about AiJobQueue and AiStream for every number of jobs,          *)
(* attempts, payloads and faults: first for any set of workers, then what  *)
(* holds when one ai-worker runs at a time, as in docker-compose.yml:      *)
(* fencing, the retry bound, that an answer appears exactly once, and that *)
(* the table implements AiJobLifecycle.                                    *)
(***************************************************************************)
EXTENDS AiStream, SequenceTheorems, FiniteSetTheorems, TLAPS

-----------------------------------------------------------------------------
(* What the row updates do, column by column.  Later proofs cite these     *)
(* lemmas instead of expanding the record expressions.                     *)

\* The three sets of statuses, spelled out.
LEMMA StatusSets ==
  /\ {"absent", "queued", "running", "succeeded", "failed", "cancelled"} = Statuses
  /\ Pending = {"queued", "running"}
  /\ Terminal = {"succeeded", "failed", "cancelled"}
BY DEF Statuses, Pending, Terminal

\* The end of an attempt clears both lock columns and sets the status.
LEMMA ReleasedRow ==
  ASSUME NEW row \in Row, NEW s \in Statuses
  PROVE  /\ Released(row, s) \in Row
         /\ Released(row, s).status = s
         /\ Released(row, s).locked_by = NoWorker
         /\ Released(row, s).lease = "null"
         /\ Released(row, s).attempts = row.attempts
         /\ Released(row, s).cancel_requested = row.cancel_requested
         /\ Released(row, s).output = row.output
BY DEF Released, Row

\* A cancellation request changes cancel_requested only.
LEMMA FlaggedRow ==
  ASSUME NEW row \in Row
  PROVE  /\ Flagged(row) \in Row
         /\ Flagged(row).status = row.status
         /\ Flagged(row).locked_by = row.locked_by
         /\ Flagged(row).lease = row.lease
         /\ Flagged(row).attempts = row.attempts
         /\ Flagged(row).cancel_requested = TRUE
         /\ Flagged(row).output = row.output
BY DEF Flagged, Row

\* Moving next_attempt_at changes nothing that decides about a row.
LEMMA DueRow ==
  ASSUME NEW row \in Row, NEW b \in BOOLEAN
  PROVE  /\ [row EXCEPT !.due = b] \in Row
         /\ [row EXCEPT !.due = b].status = row.status
         /\ [row EXCEPT !.due = b].locked_by = row.locked_by
         /\ [row EXCEPT !.due = b].lease = row.lease
         /\ [row EXCEPT !.due = b].attempts = row.attempts
         /\ [row EXCEPT !.due = b].cancel_requested = row.cancel_requested
         /\ [row EXCEPT !.due = b].output = row.output
BY DEF Row

\* A failed attempt releases the row as well.
LEMMA FailedRow ==
  ASSUME NEW row \in Row, NEW s \in Statuses
  PROVE  /\ Failed(row, s) \in Row
         /\ Failed(row, s).status = s
         /\ Failed(row, s).locked_by = NoWorker
         /\ Failed(row, s).lease = "null"
         /\ Failed(row, s).attempts = row.attempts
         /\ Failed(row, s).cancel_requested = row.cancel_requested
         /\ Failed(row, s).output = row.output
<1> DEFINE r == Released(row, s)
           b == IF s = "queued" THEN FALSE ELSE r.due
<1>1. r \in Row /\ b \in BOOLEAN
  BY ReleasedRow DEF Row
<1>2. Failed(row, s) = [r EXCEPT !.due = b]
  BY DEF Failed
<1>3. /\ r.status = s
      /\ r.locked_by = NoWorker
      /\ r.lease = "null"
      /\ r.attempts = row.attempts
      /\ r.cancel_requested = row.cancel_requested
      /\ r.output = row.output
  BY ReleasedRow
<1> HIDE DEF r, b
<1> QED
  BY <1>1, <1>2, <1>3, DueRow

\* A claim sets the status and both lock columns together.
LEMMA LockedRow ==
  ASSUME NEW row \in Row, NEW w \in Workers
  PROVE  /\ Locked(row, w) \in Row
         /\ Locked(row, w).status = "running"
         /\ Locked(row, w).locked_by = w
         /\ Locked(row, w).lease = "live"
         /\ Locked(row, w).attempts = row.attempts
         /\ Locked(row, w).cancel_requested = row.cancel_requested
BY StatusSets DEF Locked, Row

\* A claim also counts the attempt and empties output_text.
LEMMA ClaimedRow ==
  ASSUME NEW row \in Row, NEW w \in Workers
  PROVE  /\ Claimed(row, w) \in Row
         /\ Claimed(row, w).status = "running"
         /\ Claimed(row, w).locked_by = w
         /\ Claimed(row, w).lease = "live"
         /\ Claimed(row, w).attempts = row.attempts + 1
         /\ Claimed(row, w).cancel_requested = row.cancel_requested
         /\ Claimed(row, w).output = 0
<1> DEFINE r == Locked(row, w)
           n == r.attempts + 1
<1>1. r \in Row /\ n \in Nat /\ n = row.attempts + 1
  BY LockedRow DEF Row
<1>2. Claimed(row, w) = [r EXCEPT !.attempts = n, !.output = 0]
  BY DEF Claimed
<1>3. /\ r.status = "running"
      /\ r.locked_by = w
      /\ r.lease = "live"
      /\ r.cancel_requested = row.cancel_requested
  BY LockedRow
<1> HIDE DEF r, n
<1>4. [r EXCEPT !.attempts = n, !.output = 0] \in Row
  BY <1>1 DEF Row
<1> QED
  BY <1>1, <1>2, <1>3, <1>4 DEF Row

-----------------------------------------------------------------------------
(* The effect of every step of a worker on its row and on its own locals.  *)

\* An UPDATE by primary key changes one row.
LEMMA SetRowEffect ==
  ASSUME ai_jobs \in [Jobs -> Row], NEW j \in Jobs, NEW row \in Row, SetRow(j, row)
  PROVE  /\ ai_jobs' \in [Jobs -> Row]
         /\ ai_jobs'[j] = row
         /\ \A i \in Jobs : i # j => ai_jobs'[i] = ai_jobs[i]
BY DEF SetRow

\* A step of one process leaves the others' locals alone.
LEMMA SetProcessEffect ==
  ASSUME worker \in [Workers -> Process], NEW w \in Workers, NEW p \in Process,
         SetProcess(w, p)
  PROVE  /\ worker' \in [Workers -> Process]
         /\ worker'[w] = p
         /\ \A v \in Workers : v # w => worker'[v] = worker[v]
BY DEF SetProcess

\* A process inside process_one has a job, and its row exists as a record.
LEMMA Busy ==
  ASSUME TypeOK, NEW w \in Workers, worker[w].pc # "idle"
  PROVE  worker[w] \in Process /\ worker[w].job \in Jobs /\ MyRow(w) \in Row
BY DEF TypeOK, MyRow

\* The locals of a process between two calls of process_one.
LEMMA IdleProcess == Idle \in Process /\ Idle.pc = "idle"
BY DEF Idle, Process, Statuses

(* A step that reads the row and moves on: to "idle", or with the same job to
   wherever p says. *)
Moves(w, p) ==
  /\ p \in Process
  /\ p.pc # "idle" => p.job = worker[w].job
  /\ SetProcess(w, p)
  /\ UNCHANGED <<ai_jobs, answers, faults, asked>>

Cancelling(w) == MyRow(w).cancel_requested

\* Moving on inside process_one keeps the other locals.
LEMMA GotoEffect ==
  ASSUME TypeOK, NEW w \in Workers, worker[w].pc # "idle",
         NEW pc \in {"stream", "flush_commit", "complete", "complete_commit", "cancel"},
         Goto(w, pc)
  PROVE  \E p \in Process : /\ SetProcess(w, p)
                            /\ p.pc = pc
                            /\ p.job = worker[w].job
                            /\ p.attempt = worker[w].attempt
                            /\ p.buf = worker[w].buf
<1> DEFINE q == [worker[w] EXCEPT !.pc = pc]
<1>1. worker[w] \in Process
  BY Busy
<1>2. /\ q \in Process
      /\ q.pc = pc /\ q.job = worker[w].job
      /\ q.attempt = worker[w].attempt /\ q.buf = worker[w].buf
  BY <1>1 DEF Process, ReadPc, CommitPc
<1>3. SetProcess(w, q)
  BY DEF Goto
<1> HIDE DEF q
<1> QED
  BY <1>2, <1>3

\* _load_job: the fencing test, then the cancellation test.
LEMMA LoadEffect ==
  ASSUME TypeOK, NEW w \in Workers, Load(w)
  PROVE  \E p \in Process :
           /\ Moves(w, p)
           /\ IF Mine(w) THEN /\ p.attempt = MyRow(w).attempts
                              /\ p.pc = IF Cancelling(w) THEN "cancel" ELSE "stream"
                         ELSE p.pc = "idle"
<1> DEFINE q == [worker[w] EXCEPT
                   !.pc = IF MyRow(w).cancel_requested THEN "cancel" ELSE "stream",
                   !.attempt = MyRow(w).attempts, !.buf = MyRow(w).output]
<1>1. worker[w] \in Process /\ MyRow(w) \in Row
  BY Busy DEF Load
<1>2. MyRow(w).attempts \in Nat /\ MyRow(w).output \in Nat
  BY <1>1 DEF Row
<1>3. q \in Process
  BY <1>1, <1>2 DEF Process, ReadPc
<1>4. /\ q.job = worker[w].job
      /\ q.attempt = MyRow(w).attempts
      /\ q.pc = IF Cancelling(w) THEN "cancel" ELSE "stream"
  BY <1>1, <1>2 DEF Process, Cancelling
<1>5. SetProcess(w, IF ~Mine(w) THEN Idle ELSE q) /\ UNCHANGED <<ai_jobs, answers, faults, asked>>
  BY DEF Load
<1> HIDE DEF q
<1> QED
  BY <1>3, <1>4, <1>5, IdleProcess DEF Moves

\* The steps of the generation touch no row.
LEMMA StreamEffect ==
  ASSUME TypeOK, NEW w \in Workers, ReceiveChunk(w) \/ StreamEnds(w) \/ StreamFails(w)
  PROVE  \E p \in Process : /\ Moves(w, p)
                            /\ p.pc \in {"stream", "flush", "fail"}
                            /\ p.attempt = worker[w].attempt
<1>1. worker[w] \in Process /\ worker[w].pc # "idle"
  BY Busy DEF ReceiveChunk, StreamEnds, StreamFails
<1>2. CASE ReceiveChunk(w)
  <2>1. PICK pc \in {"stream", "flush"} :
          SetProcess(w, [worker[w] EXCEPT !.buf = worker[w].buf + 1, !.pc = pc])
    BY <1>2 DEF ReceiveChunk
  <2> DEFINE n == worker[w].buf + 1
             q == [worker[w] EXCEPT !.buf = n, !.pc = pc]
  <2>2. n \in Nat
    BY <1>1 DEF Process
  <2> HIDE DEF n
  <2>3. q \in Process /\ q.pc = pc /\ q.job = worker[w].job /\ q.attempt = worker[w].attempt
    BY <1>1, <2>2 DEF Process, ReadPc
  <2>4. SetProcess(w, q)
    BY <2>1 DEF n
  <2> HIDE DEF q
  <2> QED
    BY <1>2, <2>3, <2>4 DEF Moves, ReceiveChunk
<1>3. CASE StreamEnds(w)
  <2> DEFINE q == [worker[w] EXCEPT !.pc = "flush", !.last = TRUE]
  <2>1. q \in Process /\ q.pc = "flush" /\ q.job = worker[w].job /\ q.attempt = worker[w].attempt
    BY <1>1 DEF Process, ReadPc
  <2>2. SetProcess(w, q)
    BY <1>3 DEF StreamEnds
  <2> HIDE DEF q
  <2> QED
    BY <1>3, <2>1, <2>2 DEF Moves, StreamEnds
<1>4. CASE StreamFails(w)
  <2>1. PICK b \in BOOLEAN :
          SetProcess(w, [worker[w] EXCEPT !.pc = "fail", !.retryable = b])
    BY <1>4 DEF StreamFails
  <2> DEFINE q == [worker[w] EXCEPT !.pc = "fail", !.retryable = b]
  <2>2. q \in Process /\ q.pc = "fail" /\ q.job = worker[w].job /\ q.attempt = worker[w].attempt
    BY <1>1 DEF Process, ReadPc
  <2>3. SetProcess(w, q)
    BY <2>1
  <2> HIDE DEF q
  <2> QED
    BY <1>4, <2>2, <2>3 DEF Moves, StreamFails
<1> QED
  BY <1>2, <1>3, <1>4

\* The test of _update_output and of _complete_job: go on, or to _cancel_job.
LEMMA TestEffect ==
  ASSUME TypeOK, NEW w \in Workers, FlushRead(w) \/ CompleteRead(w)
  PROVE  \E p \in Process :
           /\ Moves(w, p)
           /\ p.attempt = worker[w].attempt /\ p.buf = worker[w].buf
           /\ p.pc = IF ~Mine(w) \/ Cancelling(w) THEN "cancel"
                     ELSE IF worker[w].pc = "flush" THEN "flush_commit" ELSE "complete_commit"
<1>1. /\ worker[w].pc \in {"flush", "complete"}
      /\ Goto(w, IF ~Mine(w) \/ Cancelling(w) THEN "cancel"
                 ELSE IF worker[w].pc = "flush" THEN "flush_commit" ELSE "complete_commit")
      /\ UNCHANGED <<ai_jobs, answers, faults, asked>>
  BY DEF FlushRead, CompleteRead, Cancelling
<1> QED
  BY <1>1, GotoEffect DEF Moves

\* The test of _cancel_job: a queued row, or the row of this process.
LEMMA CancelReadEffect ==
  ASSUME TypeOK, NEW w \in Workers, CancelRead(w)
  PROVE  \E p \in Process :
           /\ Moves(w, p)
           /\ IF MyRow(w).status = "queued" \/ Mine(w)
              THEN /\ p.pc = "cancel_commit" /\ p.seen = MyRow(w).status
                   /\ p.attempt = worker[w].attempt
              ELSE p.pc = "idle"
<1> DEFINE q == [worker[w] EXCEPT !.pc = "cancel_commit", !.seen = MyRow(w).status]
<1>1. worker[w] \in Process /\ MyRow(w).status \in Statuses
  BY Busy DEF CancelRead, Row
<1>2. /\ q \in Process
      /\ q.pc = "cancel_commit" /\ q.seen = MyRow(w).status
      /\ q.job = worker[w].job /\ q.attempt = worker[w].attempt
  BY <1>1 DEF Process, CommitPc
<1>3. /\ SetProcess(w, IF MyRow(w).status = "queued" \/ Mine(w) THEN q ELSE Idle)
      /\ UNCHANGED <<ai_jobs, answers, faults, asked>>
  BY DEF CancelRead
<1> HIDE DEF q
<1> QED
  BY <1>2, <1>3, IdleProcess DEF Moves

\* The test of _fail_job and its verdict.
LEMMA FailReadEffect ==
  ASSUME TypeOK, NEW w \in Workers, FailRead(w)
  PROVE  \E p \in Process :
           /\ Moves(w, p)
           /\ IF Mine(w) THEN /\ p.pc = "fail_commit" /\ p.seen = Verdict(w)
                              /\ p.attempt = worker[w].attempt
                         ELSE p.pc = "idle"
<1> DEFINE q == [worker[w] EXCEPT !.pc = "fail_commit", !.seen = Verdict(w)]
<1>1. worker[w] \in Process /\ Verdict(w) \in Statuses
  BY Busy, StatusSets DEF FailRead, Verdict
<1>2. /\ q \in Process
      /\ q.pc = "fail_commit" /\ q.seen = Verdict(w)
      /\ q.job = worker[w].job /\ q.attempt = worker[w].attempt
  BY <1>1 DEF Process, CommitPc
<1>3. /\ SetProcess(w, IF Mine(w) THEN q ELSE Idle)
      /\ UNCHANGED <<ai_jobs, answers, faults, asked>>
  BY DEF FailRead
<1> HIDE DEF q
<1> QED
  BY <1>2, <1>3, IdleProcess DEF Moves

\* The commit of _update_output changes output_text only.
LEMMA FlushCommitEffect ==
  ASSUME TypeOK, NEW w \in Workers, FlushCommit(w)
  PROVE  \E p \in Process, row \in Row :
           /\ SetProcess(w, p)
           /\ p.pc = IF worker[w].last THEN "complete" ELSE "stream"
           /\ p.job = worker[w].job
           /\ p.attempt = worker[w].attempt
           /\ p.buf = worker[w].buf
           /\ SetRow(worker[w].job, row)
           /\ row.status = MyRow(w).status
           /\ row.locked_by = MyRow(w).locked_by
           /\ row.lease = MyRow(w).lease
           /\ row.attempts = MyRow(w).attempts
           /\ row.cancel_requested = MyRow(w).cancel_requested
           /\ row.output = worker[w].buf
           /\ UNCHANGED <<answers, faults, asked>>
<1> DEFINE r == [MyRow(w) EXCEPT !.output = worker[w].buf]
<1>1. worker[w] \in Process /\ MyRow(w) \in Row
  BY Busy DEF FlushCommit
<1>2. /\ r \in Row
      /\ r.status = MyRow(w).status /\ r.locked_by = MyRow(w).locked_by
      /\ r.lease = MyRow(w).lease /\ r.attempts = MyRow(w).attempts
      /\ r.cancel_requested = MyRow(w).cancel_requested
      /\ r.output = worker[w].buf
  BY <1>1 DEF Row, Process
<1>3. SetRow(worker[w].job, r) /\ UNCHANGED <<answers, faults, asked>>
  BY DEF FlushCommit
<1> HIDE DEF r
<1>4. Goto(w, IF worker[w].last THEN "complete" ELSE "stream") /\ worker[w].pc # "idle"
  BY DEF FlushCommit
<1>5. PICK p \in Process : /\ SetProcess(w, p)
                           /\ p.pc = IF worker[w].last THEN "complete" ELSE "stream"
                           /\ p.job = worker[w].job
                           /\ p.attempt = worker[w].attempt
                           /\ p.buf = worker[w].buf
  BY <1>4, GotoEffect
<1> QED
  BY <1>2, <1>3, <1>5

\* The commit of _complete_job: one answer and the status, together.
LEMMA CompleteCommitEffect ==
  ASSUME TypeOK, NEW w \in Workers, CompleteCommit(w)
  PROVE  /\ SetProcess(w, Idle)
         /\ SetRow(worker[w].job, Released(MyRow(w), "succeeded"))
         /\ answers' \in [Jobs -> Seq(Nat)]
         /\ answers'[worker[w].job] = Append(answers[worker[w].job], worker[w].buf)
         /\ \A i \in Jobs : i # worker[w].job => answers'[i] = answers[i]
         /\ UNCHANGED <<faults, asked>>
<1> DEFINE j == worker[w].job
           list == Append(answers[j], worker[w].buf)
<1>1. worker[w] \in Process /\ j \in Jobs
  BY Busy DEF CompleteCommit
<1>2. answers[j] \in Seq(Nat) /\ worker[w].buf \in Nat
  BY <1>1 DEF TypeOK, Process
<1>3. list \in Seq(Nat)
  BY <1>2
<1>4. answers' = [answers EXCEPT ![j] = list]
  BY DEF CompleteCommit
<1> HIDE DEF list
<1>5. /\ answers' \in [Jobs -> Seq(Nat)]
      /\ answers'[j] = list
      /\ \A i \in Jobs : i # j => answers'[i] = answers[i]
  BY <1>1, <1>3, <1>4 DEF TypeOK
<1> QED
  BY <1>5 DEF CompleteCommit, list

\* The commit of _cancel_job: the lock columns are cleared if they were read set.
LEMMA CancelCommitEffect ==
  ASSUME TypeOK, NEW w \in Workers, CancelCommit(w)
  PROVE  \E row \in Row :
           /\ SetProcess(w, Idle)
           /\ SetRow(worker[w].job, row)
           /\ row.status = "cancelled"
           /\ worker[w].seen # "queued" => row.locked_by = NoWorker /\ row.lease = "null"
           /\ row.attempts = MyRow(w).attempts
           /\ row.cancel_requested = TRUE
           /\ row.output = MyRow(w).output
           /\ UNCHANGED <<answers, faults, asked>>
<1> DEFINE r == [MyRow(w) EXCEPT !.status = "cancelled"]
<1>1. MyRow(w) \in Row /\ "cancelled" \in Statuses
  BY Busy, StatusSets DEF CancelCommit
<1>2. r \in Row /\ r.status = "cancelled" /\ r.attempts = MyRow(w).attempts
      /\ r.output = MyRow(w).output
  BY <1>1 DEF Row
<1>3. /\ SetRow(worker[w].job, IF worker[w].seen = "queued" THEN Flagged(r)
                               ELSE Flagged(Released(MyRow(w), "cancelled")))
      /\ SetProcess(w, Idle) /\ UNCHANGED <<answers, faults, asked>>
  BY DEF CancelCommit
<1> HIDE DEF r
<1>4. Released(MyRow(w), "cancelled") \in Row
  BY <1>1, ReleasedRow
<1>5. CASE worker[w].seen = "queued"
  BY <1>2, <1>3, <1>5, FlaggedRow
<1>6. CASE worker[w].seen # "queued"
  <2> DEFINE q == Released(MyRow(w), "cancelled")
  <2>1. /\ q \in Row /\ q.status = "cancelled" /\ q.attempts = MyRow(w).attempts
        /\ q.output = MyRow(w).output /\ q.locked_by = NoWorker /\ q.lease = "null"
    BY <1>1, ReleasedRow
  <2> HIDE DEF q
  <2>2. SetRow(worker[w].job, Flagged(q)) /\ SetProcess(w, Idle)
    BY <1>3, <1>6 DEF q
  <2> QED
    BY <1>3, <1>6, <2>1, <2>2, FlaggedRow
<1> QED
  BY <1>5, <1>6

\* The commit of _fail_job writes the verdict of its read.
LEMMA FailCommitEffect ==
  ASSUME TypeOK, NEW w \in Workers, FailCommit(w)
  PROVE  /\ SetProcess(w, Idle)
         /\ worker[w].seen \in Statuses
         /\ SetRow(worker[w].job, Failed(MyRow(w), worker[w].seen))
         /\ UNCHANGED <<answers, faults, asked>>
BY Busy DEF FailCommit, Process

\* A database error rolls back: no row changes.
LEMMA DatabaseErrorEffect ==
  ASSUME TypeOK, NEW w \in Workers, DatabaseError(w)
  PROVE  \E p \in Process :
           /\ SetProcess(w, p)
           /\ p.pc \in {"idle", "fail"}
           /\ p.pc # "idle" => p.job = worker[w].job /\ p.attempt = worker[w].attempt
           /\ faults' \in 0..MaxFaults
           /\ UNCHANGED <<ai_jobs, answers, asked>>
<1> DEFINE q == [worker[w] EXCEPT !.pc = "fail", !.retryable = FALSE]
<1>1. worker[w] \in Process
  BY Busy DEF DatabaseError
<1>2. q \in Process /\ q.pc = "fail" /\ q.job = worker[w].job /\ q.attempt = worker[w].attempt
  BY <1>1 DEF Process, ReadPc
<1>3. /\ SetProcess(w, IF worker[w].pc \in {"fail", "fail_commit"} THEN Idle ELSE q)
      /\ UNCHANGED <<ai_jobs, answers, asked>>
  BY DEF DatabaseError
<1>4. faults' \in 0..MaxFaults
  BY BoundsAssumption DEF DatabaseError, TypeOK
<1> HIDE DEF q
<1> QED
  BY <1>2, <1>3, <1>4, IdleProcess

\* A crash changes no column but the name of the owner, which nobody has any more.
LEMMA CrashEffect ==
  ASSUME TypeOK, NEW w \in Workers, Crash(w)
  PROVE  /\ SetProcess(w, Idle)
         /\ faults' \in 0..MaxFaults
         /\ ai_jobs' \in [Jobs -> Row]
         /\ \A j \in Jobs :
              /\ ai_jobs'[j].status = ai_jobs[j].status
              /\ ai_jobs'[j].lease = ai_jobs[j].lease
              /\ ai_jobs'[j].attempts = ai_jobs[j].attempts
              /\ ai_jobs'[j].cancel_requested = ai_jobs[j].cancel_requested
              /\ ai_jobs'[j].output = ai_jobs[j].output
              /\ ai_jobs'[j].locked_by = IF ai_jobs[j].locked_by = w THEN Gone
                                         ELSE ai_jobs[j].locked_by
              /\ ai_jobs[j].locked_by # w => ai_jobs'[j] = ai_jobs[j]
         /\ UNCHANGED <<answers, asked>>
<1>1. faults' \in 0..MaxFaults
  BY BoundsAssumption DEF Crash, TypeOK
<1>2. ASSUME NEW j \in Jobs
      PROVE  /\ ai_jobs'[j] \in Row
             /\ ai_jobs'[j].status = ai_jobs[j].status
             /\ ai_jobs'[j].lease = ai_jobs[j].lease
             /\ ai_jobs'[j].attempts = ai_jobs[j].attempts
             /\ ai_jobs'[j].cancel_requested = ai_jobs[j].cancel_requested
             /\ ai_jobs'[j].output = ai_jobs[j].output
             /\ ai_jobs'[j].locked_by = IF ai_jobs[j].locked_by = w THEN Gone
                                        ELSE ai_jobs[j].locked_by
             /\ ai_jobs[j].locked_by # w => ai_jobs'[j] = ai_jobs[j]
  <2> DEFINE r == [ai_jobs[j] EXCEPT !.locked_by = Gone]
  <2>1. ai_jobs[j] \in Row
    BY DEF TypeOK
  <2>2. /\ r \in Row /\ r.status = ai_jobs[j].status /\ r.lease = ai_jobs[j].lease
        /\ r.attempts = ai_jobs[j].attempts /\ r.output = ai_jobs[j].output
        /\ r.cancel_requested = ai_jobs[j].cancel_requested /\ r.locked_by = Gone
    BY <2>1 DEF Row
  <2>3. ai_jobs'[j] = IF ai_jobs[j].locked_by = w THEN r ELSE ai_jobs[j]
    BY DEF Crash
  <2> HIDE DEF r
  <2> QED
    BY <2>1, <2>2, <2>3
<1>3. ai_jobs' \in [Jobs -> Row]
  <2> DEFINE f(j) == IF ai_jobs[j].locked_by = w THEN [ai_jobs[j] EXCEPT !.locked_by = Gone]
                     ELSE ai_jobs[j]
  <2>1. ai_jobs' = [j \in Jobs |-> f(j)]
    BY DEF Crash
  <2> HIDE DEF f
  <2>2. \A j \in Jobs : f(j) \in Row
    BY <1>2, <2>1
  <2> QED
    BY <2>1, <2>2
<1> QED
  BY <1>1, <1>2, <1>3 DEF Crash

-----------------------------------------------------------------------------
(* The effect of the other steps: the API, the claim and the clock.        *)

\* A new row is free and queued.
LEMMA EnqueueEffect ==
  ASSUME TypeOK, NEW j \in Jobs, Enqueue(j)
  PROVE  \E row \in Row :
           /\ ai_jobs[j].status = "absent"
           /\ SetRow(j, row)
           /\ row.status = "queued"
           /\ row.locked_by = ai_jobs[j].locked_by
           /\ row.lease = ai_jobs[j].lease
           /\ row.attempts = ai_jobs[j].attempts
           /\ row.cancel_requested = ai_jobs[j].cancel_requested
           /\ row.output = ai_jobs[j].output
           /\ UNCHANGED <<answers, worker, faults, asked>>
<1> DEFINE r == [ai_jobs[j] EXCEPT !.status = "queued", !.due = TRUE]
<1>1. ai_jobs[j] \in Row
  BY DEF TypeOK
<1>2. /\ r \in Row /\ r.status = "queued" /\ r.locked_by = ai_jobs[j].locked_by
      /\ r.lease = ai_jobs[j].lease /\ r.attempts = ai_jobs[j].attempts
      /\ r.cancel_requested = ai_jobs[j].cancel_requested /\ r.output = ai_jobs[j].output
  BY <1>1, StatusSets DEF Row
<1>3. SetRow(j, r)
  BY DEF Enqueue
<1> HIDE DEF r
<1> QED
  BY <1>2, <1>3 DEF Enqueue

\* The cancel endpoint: a queued row ends at once, a running one is flagged.
LEMMA CancelRequestEffect ==
  ASSUME TypeOK, NEW j \in Jobs, CancelRequest(j)
  PROVE  \E row \in Row :
           /\ ai_jobs[j].status \in Pending
           /\ SetRow(j, row)
           /\ IF ai_jobs[j].status = "queued"
              THEN row.status = "cancelled" /\ row.locked_by = NoWorker /\ row.lease = "null"
              ELSE /\ row.status = ai_jobs[j].status
                   /\ row.locked_by = ai_jobs[j].locked_by
                   /\ row.lease = ai_jobs[j].lease
           /\ row.attempts = ai_jobs[j].attempts
           /\ row.cancel_requested = TRUE
           /\ row.output = ai_jobs[j].output
           /\ asked' = asked \cup {j}
           /\ UNCHANGED <<answers, worker, faults>>
<1> DEFINE q == Released(ai_jobs[j], "cancelled")
<1>1. ai_jobs[j] \in Row /\ "cancelled" \in Statuses
  BY StatusSets DEF TypeOK
<1>2. /\ q \in Row /\ q.status = "cancelled" /\ q.locked_by = NoWorker /\ q.lease = "null"
      /\ q.attempts = ai_jobs[j].attempts /\ q.output = ai_jobs[j].output
  BY <1>1, ReleasedRow
<1>3. SetRow(j, IF ai_jobs[j].status = "queued" THEN Flagged(q) ELSE Flagged(ai_jobs[j]))
  BY DEF CancelRequest
<1> HIDE DEF q
<1>4. CASE ai_jobs[j].status = "queued"
  BY <1>2, <1>3, <1>4, FlaggedRow DEF CancelRequest
<1>5. CASE ai_jobs[j].status # "queued"
  BY <1>1, <1>3, <1>5, FlaggedRow DEF CancelRequest
<1> QED
  BY <1>4, <1>5

\* One claim: a claimable row is locked by the process that goes on with it.
LEMMA ClaimEffect ==
  ASSUME TypeOK, NEW w \in Workers, Claim(w)
  PROVE  \E j \in Jobs, p \in Process :
           /\ Claimable(j)
           /\ worker[w].pc = "idle"
           /\ SetRow(j, Claimed(ai_jobs[j], w))
           /\ SetProcess(w, p)
           /\ p.pc = "load" /\ p.job = j
           /\ p.attempt = ai_jobs[j].attempts + 1
           /\ UNCHANGED <<answers, faults, asked>>
<1>1. PICK j \in Jobs : /\ Claimable(j)
                        /\ SetRow(j, Claimed(ai_jobs[j], w))
                        /\ SetProcess(w, [Idle EXCEPT !.pc = "load", !.job = j,
                                                      !.attempt = ai_jobs[j].attempts + 1])
  BY DEF Claim
<1> DEFINE n == ai_jobs[j].attempts + 1
           q == [Idle EXCEPT !.pc = "load", !.job = j, !.attempt = n]
<1>2. n \in Nat
  BY DEF TypeOK, Row
<1>3. SetProcess(w, q) /\ n = ai_jobs[j].attempts + 1
  BY <1>1
<1> HIDE DEF n
<1>4. q \in Process /\ q.pc = "load" /\ q.job = j /\ q.attempt = n
  BY <1>2, IdleProcess DEF Process, ReadPc
<1> HIDE DEF q
<1> QED
  BY <1>1, <1>3, <1>4 DEF Claim

\* The clock changes no status and no owner.
LEMMA ClockEffect ==
  ASSUME TypeOK, NEW j \in Jobs, BackoffElapses(j) \/ LeaseExpires(j)
  PROVE  \E row \in Row :
           /\ SetRow(j, row)
           /\ row.status = ai_jobs[j].status
           /\ row.locked_by = ai_jobs[j].locked_by
           /\ (row.lease = "null") <=> (ai_jobs[j].lease = "null")
           /\ row.attempts = ai_jobs[j].attempts
           /\ row.cancel_requested = ai_jobs[j].cancel_requested
           /\ row.output = ai_jobs[j].output
           /\ faults' \in 0..MaxFaults
           /\ UNCHANGED <<answers, worker, asked>>
<1>1. ai_jobs[j] \in Row
  BY DEF TypeOK
<1>2. CASE BackoffElapses(j)
  BY <1>1, <1>2, DueRow DEF BackoffElapses, TypeOK
<1>3. CASE LeaseExpires(j)
  <2> DEFINE r == [ai_jobs[j] EXCEPT !.lease = "expired"]
  <2>1. /\ r \in Row /\ r.status = ai_jobs[j].status /\ r.locked_by = ai_jobs[j].locked_by
        /\ r.lease # "null" /\ r.attempts = ai_jobs[j].attempts
        /\ r.cancel_requested = ai_jobs[j].cancel_requested /\ r.output = ai_jobs[j].output
    BY <1>1 DEF Row
  <2>2. /\ SetRow(j, r) /\ ai_jobs[j].lease # "null"
        /\ UNCHANGED <<answers, worker, asked>>
    BY <1>3 DEF LeaseExpires
  <2>3. faults' \in 0..MaxFaults
    BY <1>3, BoundsAssumption DEF LeaseExpires, TypeOK
  <2> HIDE DEF r
  <2> QED
    BY <2>1, <2>2, <2>3
<1> QED
  BY <1>2, <1>3

-----------------------------------------------------------------------------
(* Type correctness, for any set of workers.                               *)

\* A well-formed process may replace another.
LEMMA ProcessStepType ==
  ASSUME TypeOK, NEW w \in Workers, NEW p \in Process,
         p.pc # "idle" => p.job \in Jobs, SetProcess(w, p)
  PROVE  /\ worker' \in [Workers -> Process]
         /\ \A v \in Workers : worker'[v].pc # "idle" => worker'[v].job \in Jobs
BY SetProcessEffect DEF TypeOK

\* A step without a write keeps the types.
LEMMA MovesType ==
  ASSUME TypeOK, NEW w \in Workers, worker[w].pc # "idle", NEW p \in Process, Moves(w, p)
  PROVE  TypeOK'
<1>1. p.pc # "idle" => p.job \in Jobs
  BY Busy DEF Moves
<1>2. SetProcess(w, p) /\ UNCHANGED <<ai_jobs, answers, faults, asked>>
  BY DEF Moves
<1> QED
  BY <1>1, <1>2, ProcessStepType DEF TypeOK

\* The empty table and the idle processes are well formed.
LEMMA InitTypeOK == Init => TypeOK
<1> SUFFICES ASSUME Init PROVE TypeOK
  OBVIOUS
<1>1. Absent \in Row
  BY StatusSets DEF Absent, Row
<1>2. 0 \in 0..MaxFaults
  BY BoundsAssumption
<1>3. << >> \in Seq(Nat)
  OBVIOUS
<1> QED
  BY <1>1, <1>2, <1>3, IdleProcess DEF Init, TypeOK

\* A well-formed row may replace another.
LEMMA RowStepType ==
  ASSUME TypeOK, NEW j \in Jobs, NEW row \in Row, SetRow(j, row)
  PROVE  ai_jobs' \in [Jobs -> Row]
BY SetRowEffect DEF TypeOK

\* Every step inside process_one keeps the types.
LEMMA WorkerStepType ==
  ASSUME TypeOK, NEW w \in Workers, WorkerStep(w)
  PROVE  TypeOK'
<1>0. worker[w].pc # "idle"
  BY DEF WorkerStep, Load, ReceiveChunk, StreamEnds, StreamFails, FlushRead, FlushCommit,
         CompleteRead, CompleteCommit, CancelRead, CancelCommit, FailRead, FailCommit
<1>1. worker[w] \in Process /\ worker[w].job \in Jobs /\ MyRow(w) \in Row
  BY <1>0, Busy
<1>2. CASE Load(w)
  BY <1>0, <1>2, LoadEffect, MovesType
<1>3. CASE ReceiveChunk(w) \/ StreamEnds(w) \/ StreamFails(w)
  BY <1>0, <1>3, StreamEffect, MovesType
<1>4. CASE FlushRead(w) \/ CompleteRead(w)
  BY <1>0, <1>4, TestEffect, MovesType
<1>5. CASE CancelRead(w)
  BY <1>0, <1>5, CancelReadEffect, MovesType
<1>6. CASE FailRead(w)
  BY <1>0, <1>6, FailReadEffect, MovesType
<1>7. CASE FlushCommit(w)
  <2>1. PICK p \in Process, row \in Row :
          /\ SetProcess(w, p) /\ p.job = worker[w].job
          /\ SetRow(worker[w].job, row) /\ UNCHANGED <<answers, faults, asked>>
    BY <1>7, FlushCommitEffect
  <2> QED
    BY <1>1, <2>1, ProcessStepType, RowStepType DEF TypeOK
<1>8. CASE CompleteCommit(w)
  <2>1. Released(MyRow(w), "succeeded") \in Row
    BY <1>1, StatusSets, ReleasedRow
  <2> QED
    BY <1>1, <1>8, <2>1, CompleteCommitEffect, IdleProcess, ProcessStepType, RowStepType
    DEF TypeOK
<1>9. CASE CancelCommit(w)
  <2>1. PICK row \in Row : /\ SetProcess(w, Idle) /\ SetRow(worker[w].job, row)
                           /\ UNCHANGED <<answers, faults, asked>>
    BY <1>9, CancelCommitEffect
  <2> QED
    BY <1>1, <2>1, IdleProcess, ProcessStepType, RowStepType DEF TypeOK
<1>10. CASE FailCommit(w)
  <2>1. Failed(MyRow(w), worker[w].seen) \in Row
    BY <1>1, <1>10, FailCommitEffect, FailedRow
  <2> QED
    BY <1>1, <1>10, <2>1, FailCommitEffect, IdleProcess, ProcessStepType, RowStepType
    DEF TypeOK
<1> QED
  BY <1>2, <1>3, <1>4, <1>5, <1>6, <1>7, <1>8, <1>9, <1>10 DEF WorkerStep

\* So does every step of the system.
LEMMA NextTypeOK == TypeOK /\ [Next]_vars => TypeOK'
<1> SUFFICES ASSUME TypeOK, [Next]_vars PROVE TypeOK'
  OBVIOUS
<1>1. CASE UNCHANGED vars
  BY <1>1 DEF vars, TypeOK
<1>2. ASSUME NEW j \in Jobs, Enqueue(j) PROVE TypeOK'
  <2>1. PICK row \in Row : SetRow(j, row) /\ UNCHANGED <<answers, worker, faults, asked>>
    BY <1>2, EnqueueEffect
  <2> QED
    BY <2>1, RowStepType DEF TypeOK
<1>3. ASSUME NEW j \in Jobs, CancelRequest(j) PROVE TypeOK'
  <2>1. PICK row \in Row : /\ SetRow(j, row) /\ asked' = asked \cup {j}
                           /\ UNCHANGED <<answers, worker, faults>>
    BY <1>3, CancelRequestEffect
  <2> QED
    BY <2>1, RowStepType DEF TypeOK
<1>4. ASSUME NEW j \in Jobs, BackoffElapses(j) \/ LeaseExpires(j) PROVE TypeOK'
  <2>1. PICK row \in Row : /\ SetRow(j, row) /\ faults' \in 0..MaxFaults
                           /\ UNCHANGED <<answers, worker, asked>>
    BY <1>4, ClockEffect
  <2> QED
    BY <2>1, RowStepType DEF TypeOK
<1>5. ASSUME NEW w \in Workers, Claim(w) PROVE TypeOK'
  <2>1. PICK j \in Jobs, p \in Process :
          /\ SetRow(j, Claimed(ai_jobs[j], w)) /\ SetProcess(w, p)
          /\ p.job = j /\ UNCHANGED <<answers, faults, asked>>
    BY <1>5, ClaimEffect
  <2>2. Claimed(ai_jobs[j], w) \in Row
    BY ClaimedRow DEF TypeOK
  <2> QED
    BY <2>1, <2>2, ProcessStepType, RowStepType DEF TypeOK
<1>6. ASSUME NEW w \in Workers, Crash(w) PROVE TypeOK'
  BY <1>6, CrashEffect, IdleProcess, ProcessStepType DEF TypeOK
<1>7. ASSUME NEW w \in Workers, DatabaseError(w) PROVE TypeOK'
  <2>1. PICK p \in Process :
          /\ SetProcess(w, p)
          /\ p.pc # "idle" => p.job = worker[w].job
          /\ faults' \in 0..MaxFaults /\ UNCHANGED <<ai_jobs, answers, asked>>
    BY <1>7, DatabaseErrorEffect
  <2>2. worker[w].job \in Jobs
    BY <1>7, Busy DEF DatabaseError
  <2> QED
    BY <2>1, <2>2, ProcessStepType DEF TypeOK
<1> QED
  BY <1>1, <1>2, <1>3, <1>4, <1>5, <1>6, <1>7, WorkerStepType DEF Next

(* Every reachable state is well formed: the statuses are those of
   AiJobStatus, and a process inside process_one works on an existing id. *)
THEOREM TypeCorrect == Spec => []TypeOK
BY InitTypeOK, NextTypeOK, PTL DEF Spec

-----------------------------------------------------------------------------
(* RunningIsReclaimable, for any set of workers.  A stale worker may write *)
(* to a row it lost, so nothing ties a worker to a lock here; what holds   *)
(* is that whatever it writes clears the lock or leaves status and lock    *)
(* alone, and that _fail_job never writes "running".                       *)

LockedWhileRunning(row) ==
  /\ row.status = "running" => row.locked_by # NoWorker /\ row.lease # "null"
  /\ row.status \in {"queued", "absent"} => row.locked_by = NoWorker /\ row.lease = "null"

Sane(w) ==
  /\ worker[w].pc # "idle" => MyRow(w).status # "absent"
  /\ worker[w].pc = "fail_commit" => worker[w].seen \in {"queued", "failed", "cancelled"}

ReclaimInv ==
  /\ TypeOK
  /\ \A j \in Jobs : LockedWhileRunning(ai_jobs[j])
  /\ \A w \in Workers : Sane(w)

\* Writing one row that obeys the lock rule keeps the rule, and rows never vanish.
LEMMA RowStepReclaim ==
  ASSUME ReclaimInv, NEW j \in Jobs, NEW row \in Row, SetRow(j, row),
         LockedWhileRunning(row), row.status # "absent"
  PROVE  /\ \A i \in Jobs : LockedWhileRunning(ai_jobs'[i])
         /\ \A i \in Jobs : ai_jobs[i].status # "absent" => ai_jobs'[i].status # "absent"
         /\ ai_jobs'[j].status # "absent"
BY SetRowEffect DEF ReclaimInv, TypeOK

\* A step of one process keeps the others sane.
LEMMA ProcessStepReclaim ==
  ASSUME ReclaimInv, TypeOK',
         \A i \in Jobs : ai_jobs[i].status # "absent" => ai_jobs'[i].status # "absent",
         NEW w \in Workers, NEW p \in Process, SetProcess(w, p),
         p.pc # "idle" => ai_jobs'[p.job].status # "absent",
         p.pc = "fail_commit" => p.seen \in {"queued", "failed", "cancelled"}
  PROVE  \A v \in Workers : Sane(v)'
<1> SUFFICES ASSUME NEW v \in Workers PROVE Sane(v)'
  OBVIOUS
<1>1. CASE v = w
  <2>1. worker'[w] = p
    BY SetProcessEffect DEF ReclaimInv, TypeOK
  <2> QED
    BY <1>1, <2>1 DEF Sane, MyRow
<1>2. CASE v # w
  <2>1. worker'[v] = worker[v]
    BY <1>2, SetProcessEffect DEF ReclaimInv, TypeOK
  <2>2. worker[v].pc # "idle" => worker[v].job \in Jobs
    BY DEF ReclaimInv, TypeOK
  <2> QED
    BY <2>1, <2>2 DEF Sane, MyRow, ReclaimInv
<1> QED
  BY <1>1, <1>2

\* So does a step of no process.
LEMMA SameProcessReclaim ==
  ASSUME ReclaimInv, worker' = worker,
         \A i \in Jobs : ai_jobs[i].status # "absent" => ai_jobs'[i].status # "absent"
  PROVE  \A v \in Workers : Sane(v)'
BY DEF ReclaimInv, TypeOK, Sane, MyRow

\* Steps without a write keep ReclaimInv.
LEMMA MovesReclaim ==
  ASSUME ReclaimInv, NEW w \in Workers, worker[w].pc # "idle", NEW p \in Process, Moves(w, p),
         p.pc = "fail_commit" => p.seen \in {"queued", "failed", "cancelled"}
  PROVE  ReclaimInv'
<1>1. TypeOK'
  BY MovesType DEF ReclaimInv
<1>2. SetProcess(w, p) /\ ai_jobs' = ai_jobs
  BY DEF Moves
<1>3. p.pc # "idle" => ai_jobs'[p.job].status # "absent"
  BY <1>2 DEF Moves, ReclaimInv, Sane, MyRow
<1>4. \A v \in Workers : Sane(v)'
  BY <1>1, <1>2, <1>3, ProcessStepReclaim
<1> QED
  BY <1>1, <1>2, <1>4 DEF ReclaimInv

\* Every step inside process_one keeps ReclaimInv.
LEMMA WorkerStepReclaim ==
  ASSUME ReclaimInv, NEW w \in Workers, WorkerStep(w)
  PROVE  ReclaimInv'
<1>0. worker[w].pc # "idle"
  BY DEF WorkerStep, Load, ReceiveChunk, StreamEnds, StreamFails, FlushRead, FlushCommit,
         CompleteRead, CompleteCommit, CancelRead, CancelCommit, FailRead, FailCommit
<1> DEFINE j == worker[w].job
<1>1. /\ TypeOK /\ TypeOK'
      /\ j \in Jobs /\ MyRow(w) \in Row
      /\ LockedWhileRunning(MyRow(w)) /\ MyRow(w).status # "absent"
  BY <1>0, Busy, WorkerStepType DEF ReclaimInv, Sane, MyRow
<1>2. CASE Load(w)
  <2>1. PICK p \in Process : Moves(w, p) /\ p.pc \in {"idle", "cancel", "stream"}
    BY <1>1, <1>2, LoadEffect
  <2> QED
    BY <1>0, <2>1, MovesReclaim
<1>3. CASE ReceiveChunk(w) \/ StreamEnds(w) \/ StreamFails(w)
  <2>1. PICK p \in Process : Moves(w, p) /\ p.pc \in {"stream", "flush", "fail"}
    BY <1>1, <1>3, StreamEffect
  <2> QED
    BY <1>0, <2>1, MovesReclaim
<1>4. CASE FlushRead(w) \/ CompleteRead(w)
  <2>1. PICK p \in Process :
          Moves(w, p) /\ p.pc \in {"cancel", "flush_commit", "complete_commit"}
    BY <1>1, <1>4, TestEffect
  <2> QED
    BY <1>0, <2>1, MovesReclaim
<1>5. CASE CancelRead(w)
  <2>1. PICK p \in Process : Moves(w, p) /\ p.pc \in {"idle", "cancel_commit"}
    BY <1>1, <1>5, CancelReadEffect
  <2> QED
    BY <1>0, <2>1, MovesReclaim
<1>6. CASE FailRead(w)
  <2>1. Verdict(w) \in {"queued", "failed", "cancelled"}
    BY DEF Verdict
  <2>2. PICK p \in Process :
          /\ Moves(w, p)
          /\ p.pc = "fail_commit" => p.seen \in {"queued", "failed", "cancelled"}
    BY <1>1, <1>6, <2>1, FailReadEffect
  <2> QED
    BY <1>0, <2>2, MovesReclaim
<1>7. CASE FlushCommit(w)
  <2>1. PICK p \in Process, row \in Row :
          /\ SetProcess(w, p) /\ p.job = j /\ p.pc \in {"complete", "stream"}
          /\ SetRow(j, row) /\ row.status = MyRow(w).status
          /\ row.locked_by = MyRow(w).locked_by /\ row.lease = MyRow(w).lease
    BY <1>1, <1>7, FlushCommitEffect
  <2>2. LockedWhileRunning(row) /\ row.status # "absent"
    BY <1>1, <2>1 DEF LockedWhileRunning
  <2> QED
    BY <1>1, <2>1, <2>2, RowStepReclaim, ProcessStepReclaim DEF ReclaimInv
<1>8. CASE CompleteCommit(w)
  <2>1. PICK row \in Row : /\ SetProcess(w, Idle) /\ SetRow(j, row)
                           /\ row.status = "succeeded"
    BY <1>1, <1>8, StatusSets, CompleteCommitEffect, ReleasedRow
  <2>2. LockedWhileRunning(row) /\ row.status # "absent"
    BY <2>1 DEF LockedWhileRunning
  <2> QED
    BY <1>1, <2>1, <2>2, IdleProcess, RowStepReclaim, ProcessStepReclaim DEF ReclaimInv
<1>9. CASE CancelCommit(w)
  <2>1. PICK row \in Row : /\ SetProcess(w, Idle) /\ SetRow(j, row)
                           /\ row.status = "cancelled"
    BY <1>1, <1>9, CancelCommitEffect
  <2>2. LockedWhileRunning(row) /\ row.status # "absent"
    BY <2>1 DEF LockedWhileRunning
  <2> QED
    BY <1>1, <2>1, <2>2, IdleProcess, RowStepReclaim, ProcessStepReclaim DEF ReclaimInv
<1>10. CASE FailCommit(w)
  <2>0. worker[w].seen \in {"queued", "failed", "cancelled"}
    BY <1>10 DEF ReclaimInv, Sane, FailCommit
  <2>1. PICK row \in Row : /\ SetProcess(w, Idle) /\ SetRow(j, row)
                           /\ row.status = worker[w].seen
                           /\ row.locked_by = NoWorker /\ row.lease = "null"
    BY <1>1, <1>10, FailCommitEffect, FailedRow
  <2>2. LockedWhileRunning(row) /\ row.status # "absent"
    BY <2>0, <2>1 DEF LockedWhileRunning
  <2> QED
    BY <1>1, <2>1, <2>2, IdleProcess, RowStepReclaim, ProcessStepReclaim DEF ReclaimInv
<1> QED
  BY <1>2, <1>3, <1>4, <1>5, <1>6, <1>7, <1>8, <1>9, <1>10 DEF WorkerStep

\* ReclaimInv is inductive.
LEMMA NextReclaim == ReclaimInv /\ [Next]_vars => ReclaimInv'
<1> SUFFICES ASSUME ReclaimInv, [Next]_vars PROVE ReclaimInv'
  OBVIOUS
<1>0. /\ TypeOK /\ TypeOK'
      /\ \A j \in Jobs : ai_jobs[j] \in Row /\ LockedWhileRunning(ai_jobs[j])
  BY NextTypeOK DEF ReclaimInv, TypeOK
<1>1. CASE UNCHANGED vars
  BY <1>1, <1>0 DEF vars, ReclaimInv, Sane, MyRow
<1>2. ASSUME NEW j \in Jobs, Enqueue(j) PROVE ReclaimInv'
  <2>1. PICK row \in Row : /\ SetRow(j, row) /\ worker' = worker
                           /\ row.status = "queued" /\ ai_jobs[j].status = "absent"
                           /\ row.locked_by = ai_jobs[j].locked_by
                           /\ row.lease = ai_jobs[j].lease
    BY <1>0, <1>2, EnqueueEffect
  <2>2. LockedWhileRunning(row)
    BY <1>0, <2>1 DEF LockedWhileRunning
  <2> QED
    BY <1>0, <2>1, <2>2, RowStepReclaim, SameProcessReclaim DEF ReclaimInv
<1>3. ASSUME NEW j \in Jobs, CancelRequest(j) PROVE ReclaimInv'
  <2>1. PICK row \in Row :
          /\ SetRow(j, row) /\ worker' = worker
          /\ ai_jobs[j].status \in Pending
          /\ IF ai_jobs[j].status = "queued"
             THEN row.status = "cancelled"
             ELSE /\ row.status = ai_jobs[j].status
                  /\ row.locked_by = ai_jobs[j].locked_by
                  /\ row.lease = ai_jobs[j].lease
    BY <1>0, <1>3, CancelRequestEffect
  <2>2. LockedWhileRunning(row) /\ row.status # "absent"
    BY <1>0, <2>1, StatusSets DEF LockedWhileRunning
  <2> QED
    BY <1>0, <2>1, <2>2, RowStepReclaim, SameProcessReclaim DEF ReclaimInv
<1>4. ASSUME NEW j \in Jobs, BackoffElapses(j) \/ LeaseExpires(j) PROVE ReclaimInv'
  <2>1. PICK row \in Row : /\ SetRow(j, row) /\ worker' = worker
                           /\ row.status = ai_jobs[j].status
                           /\ row.locked_by = ai_jobs[j].locked_by
                           /\ (row.lease = "null") <=> (ai_jobs[j].lease = "null")
    BY <1>0, <1>4, ClockEffect
  <2>2. ai_jobs[j].status # "absent"
    BY <1>0, <1>4 DEF BackoffElapses, LeaseExpires, LockedWhileRunning
  <2>3. LockedWhileRunning(row) /\ row.status # "absent"
    BY <1>0, <2>1, <2>2 DEF LockedWhileRunning
  <2> QED
    BY <1>0, <2>1, <2>3, RowStepReclaim, SameProcessReclaim DEF ReclaimInv
<1>5. ASSUME NEW w \in Workers, Claim(w) PROVE ReclaimInv'
  <2>1. PICK j \in Jobs, p \in Process :
          /\ SetRow(j, Claimed(ai_jobs[j], w)) /\ SetProcess(w, p)
          /\ p.job = j /\ p.pc = "load"
    BY <1>0, <1>5, ClaimEffect
  <2> DEFINE row == Claimed(ai_jobs[j], w)
  <2>2. row \in Row /\ row.status = "running" /\ row.locked_by = w /\ row.lease = "live"
    BY <1>0, ClaimedRow
  <2>3. SetRow(j, row)
    BY <2>1
  <2> HIDE DEF row
  <2>4. LockedWhileRunning(row) /\ row.status # "absent"
    BY <2>2, WorkersAssumption DEF LockedWhileRunning
  <2> QED
    BY <1>0, <2>1, <2>2, <2>3, <2>4, RowStepReclaim, ProcessStepReclaim DEF ReclaimInv
<1>6. ASSUME NEW w \in Workers, WorkerStep(w) PROVE ReclaimInv'
  BY <1>6, WorkerStepReclaim
<1>7. ASSUME NEW w \in Workers, Crash(w) PROVE ReclaimInv'
  <2>1. \A j \in Jobs : /\ LockedWhileRunning(ai_jobs'[j])
                        /\ ai_jobs'[j].status = ai_jobs[j].status
    BY <1>0, <1>7, CrashEffect, WorkersAssumption DEF LockedWhileRunning
  <2>2. SetProcess(w, Idle)
    BY <1>0, <1>7, CrashEffect
  <2> QED
    BY <1>0, <2>1, <2>2, IdleProcess, ProcessStepReclaim DEF ReclaimInv
<1>8. ASSUME NEW w \in Workers, DatabaseError(w) PROVE ReclaimInv'
  <2>1. PICK p \in Process :
          /\ SetProcess(w, p)
          /\ p.pc \in {"idle", "fail"}
          /\ p.pc # "idle" => p.job = worker[w].job
          /\ ai_jobs' = ai_jobs
    BY <1>0, <1>8, DatabaseErrorEffect
  <2>2. MyRow(w).status # "absent"
    BY <1>8 DEF DatabaseError, ReclaimInv, Sane
  <2>3. p.pc # "idle" => ai_jobs'[p.job].status # "absent"
    BY <2>1, <2>2 DEF MyRow
  <2> QED
    BY <1>0, <2>1, <2>3, ProcessStepReclaim DEF ReclaimInv
<1> QED
  BY <1>1, <1>2, <1>3, <1>4, <1>5, <1>6, <1>7, <1>8 DEF Next

\* ReclaimInv holds in the empty table.
LEMMA InitReclaim == Init => ReclaimInv
BY InitTypeOK DEF Init, Absent, Idle, ReclaimInv, LockedWhileRunning, Sane

(* However many workers run, crash, or go on after losing a lease: every row
   in "running" can be taken over once its lease has expired, and every row in
   "queued" is free. *)
THEOREM Reclaimable == Spec => []RunningIsReclaimable
<1>1. ReclaimInv => RunningIsReclaimable
  BY DEF ReclaimInv, LockedWhileRunning, RunningIsReclaimable
<1> QED
  BY <1>1, InitReclaim, NextReclaim, PTL DEF Spec

-----------------------------------------------------------------------------
(* AnswersBoundedByAttempts, for any set of workers.  A claim counts one   *)
(* attempt and lets one process in; a process that is in may store one     *)
(* answer and is out then.  So the answers of a job and the processes that *)
(* are still in, fenced off or not, never exceed its attempts.             *)

Inside(j) == {w \in Workers : worker[w].pc # "idle" /\ worker[w].job = j}

Counted(j) ==
  /\ IsFiniteSet(Inside(j))
  /\ Len(answers[j]) + Cardinality(Inside(j)) <= ai_jobs[j].attempts

AttemptInv == TypeOK /\ \A j \in Jobs : Counted(j)

\* A step that neither counts an attempt nor stores an answer nor lets anyone in.
Uncounted == \A j \in Jobs : /\ Inside(j)' \subseteq Inside(j)
                             /\ answers'[j] = answers[j]
                             /\ ai_jobs'[j].attempts = ai_jobs[j].attempts

\* Such a step keeps the count.
LEMMA UncountedKeeps ==
  ASSUME AttemptInv, TypeOK', Uncounted
  PROVE  AttemptInv'
<1>1. ASSUME NEW j \in Jobs PROVE Counted(j)'
  <2>1. /\ IsFiniteSet(Inside(j)) /\ Inside(j)' \subseteq Inside(j)
        /\ Len(answers[j]) + Cardinality(Inside(j)) <= ai_jobs[j].attempts
    BY DEF AttemptInv, Counted, Uncounted
  <2>2. /\ IsFiniteSet(Inside(j)') /\ Cardinality(Inside(j)') <= Cardinality(Inside(j))
        /\ Cardinality(Inside(j)) \in Nat /\ Cardinality(Inside(j)') \in Nat
    BY <2>1, FS_Subset, FS_CardinalityType
  <2>3. /\ answers'[j] = answers[j] /\ Len(answers[j]) \in Nat
        /\ ai_jobs'[j].attempts = ai_jobs[j].attempts /\ ai_jobs[j].attempts \in Nat
    BY DEF AttemptInv, Uncounted, TypeOK, Row
  <2>4. Len(answers'[j]) + Cardinality(Inside(j)') <= ai_jobs'[j].attempts
    BY <2>1, <2>2, <2>3
  <2> QED
    BY <2>2, <2>4 DEF Counted
<1> QED
  BY <1>1 DEF AttemptInv

\* A process that moves on stays with its job or gets out.
LEMMA InsideShrinks ==
  ASSUME TypeOK, NEW w \in Workers, NEW p \in Process, SetProcess(w, p),
         p.pc # "idle" => worker[w].pc # "idle" /\ p.job = worker[w].job
  PROVE  \A j \in Jobs : Inside(j)' \subseteq Inside(j)
<1>1. worker'[w] = p /\ \A v \in Workers : v # w => worker'[v] = worker[v]
  BY SetProcessEffect DEF TypeOK
<1> QED
  BY <1>1 DEF Inside

\* An UPDATE that leaves attempts alone.
LEMMA AttemptsKept ==
  ASSUME TypeOK, NEW i \in Jobs, NEW row \in Row, SetRow(i, row),
         row.attempts = ai_jobs[i].attempts
  PROVE  \A j \in Jobs : ai_jobs'[j].attempts = ai_jobs[j].attempts
BY SetRowEffect DEF TypeOK

\* The reads count nothing.
LEMMA MovesUncounted ==
  ASSUME TypeOK, NEW w \in Workers, worker[w].pc # "idle", NEW p \in Process, Moves(w, p)
  PROVE  Uncounted
BY InsideShrinks DEF Moves, Uncounted

\* The commits of process w: one answer at most, and w is out after it.
LEMMA CommitKeepsCount ==
  ASSUME AttemptInv, TypeOK', NEW w \in Workers, CompleteCommit(w)
  PROVE  AttemptInv'
<1>0. PICK j \in Jobs : j = worker[w].job
  BY Busy DEF CompleteCommit, AttemptInv
<1>1. TypeOK /\ MyRow(w) \in Row /\ MyRow(w) = ai_jobs[j] /\ w \in Inside(j)
  BY <1>0, Busy DEF CompleteCommit, AttemptInv, Inside, MyRow
<1>2. PICK row \in Row : SetRow(j, row) /\ row.attempts = MyRow(w).attempts
  BY <1>0, <1>1, CompleteCommitEffect, StatusSets, ReleasedRow
<1>3. \A i \in Jobs : ai_jobs'[i].attempts = ai_jobs[i].attempts
  BY <1>1, <1>2, AttemptsKept
<1>4. SetProcess(w, Idle)
  BY <1>1, CompleteCommitEffect
<1>5. \A i \in Jobs : Inside(i)' \subseteq Inside(i)
  BY <1>1, <1>4, IdleProcess, InsideShrinks
<1>6. Inside(j)' \subseteq Inside(j) \ {w}
  <2>1. worker'[w].pc = "idle"
    BY <1>1, <1>4, IdleProcess, SetProcessEffect DEF TypeOK
  <2> QED
    BY <1>1, <1>5, <2>1 DEF Inside
<1>7. ASSUME NEW i \in Jobs PROVE Counted(i)'
  <2>1. /\ IsFiniteSet(Inside(i)) /\ Inside(i)' \subseteq Inside(i)
        /\ Len(answers[i]) + Cardinality(Inside(i)) <= ai_jobs[i].attempts
    BY <1>5, <1>7 DEF AttemptInv, Counted
  <2>2. /\ IsFiniteSet(Inside(i)') /\ Cardinality(Inside(i)') <= Cardinality(Inside(i))
        /\ Cardinality(Inside(i)) \in Nat /\ Cardinality(Inside(i)') \in Nat
    BY <2>1, FS_Subset, FS_CardinalityType
  <2>3. answers[i] \in Seq(Nat) /\ ai_jobs[i].attempts \in Nat
    BY <1>1 DEF TypeOK, Row
  <2>4. Len(answers[i]) \in Nat
    BY <2>3
  <2>5. CASE i # j
    <3>1. answers'[i] = answers[i]
      BY <1>0, <1>1, <2>5, CompleteCommitEffect
    <3>2. Len(answers'[i]) + Cardinality(Inside(i)') <= ai_jobs'[i].attempts
      BY <1>3, <2>1, <2>2, <2>3, <2>4, <3>1
    <3> QED
      BY <2>2, <3>2 DEF Counted
  <2>6. CASE i = j
    <3>1. /\ IsFiniteSet(Inside(j) \ {w})
          /\ Cardinality(Inside(j) \ {w}) = Cardinality(Inside(j)) - 1
      BY <1>1, <2>1, <2>6, FS_RemoveElement
    <3>2. Cardinality(Inside(j)') <= Cardinality(Inside(j) \ {w})
      BY <1>6, <3>1, FS_Subset
    <3>3. answers'[j] = Append(answers[j], worker[w].buf) /\ worker[w].buf \in Nat
      BY <1>0, <1>1, CompleteCommitEffect, Busy DEF Process, CompleteCommit
    <3>4. Len(answers'[j]) = Len(answers[j]) + 1
      BY <2>3, <2>6, <3>3
    <3>5. Len(answers'[i]) + Cardinality(Inside(i)') <= ai_jobs'[i].attempts
      BY <1>3, <2>1, <2>2, <2>3, <2>4, <2>6, <3>1, <3>2, <3>4
    <3> QED
      BY <2>2, <3>5 DEF Counted
  <2> QED
    BY <2>5, <2>6
<1> QED
  BY <1>7 DEF AttemptInv

\* A claim lets one process in and counts one attempt.
LEMMA ClaimKeepsCount ==
  ASSUME AttemptInv, TypeOK', NEW w \in Workers, Claim(w)
  PROVE  AttemptInv'
<1>1. TypeOK /\ worker[w].pc = "idle"
  BY DEF AttemptInv, Claim
<1>2. PICK j \in Jobs, p \in Process :
        /\ SetRow(j, Claimed(ai_jobs[j], w))
        /\ SetProcess(w, p) /\ p.job = j
        /\ answers' = answers
  BY <1>1, ClaimEffect
<1>3. \A v \in Workers : v # w => worker'[v] = worker[v]
  BY <1>1, <1>2, SetProcessEffect DEF TypeOK
<1>4. worker'[w].job = j
  BY <1>1, <1>2, SetProcessEffect DEF TypeOK
<1>5. /\ ai_jobs'[j].attempts = ai_jobs[j].attempts + 1
      /\ \A i \in Jobs : i # j => ai_jobs'[i] = ai_jobs[i]
  BY <1>1, <1>2, ClaimedRow, SetRowEffect DEF TypeOK
<1>6. ASSUME NEW i \in Jobs PROVE Counted(i)'
  <2>1. /\ IsFiniteSet(Inside(i))
        /\ Len(answers[i]) + Cardinality(Inside(i)) <= ai_jobs[i].attempts
    BY <1>6 DEF AttemptInv, Counted
  <2>2. ai_jobs[i].attempts \in Nat /\ Len(answers[i]) \in Nat
    BY <1>1 DEF TypeOK, Row
  <2>3. Cardinality(Inside(i)) \in Nat
    BY <2>1, FS_CardinalityType
  <2>4. CASE i # j
    <3>1. Inside(i)' \subseteq Inside(i)
      BY <1>3, <1>4, <2>4 DEF Inside
    <3>2. /\ IsFiniteSet(Inside(i)') /\ Cardinality(Inside(i)') <= Cardinality(Inside(i))
          /\ Cardinality(Inside(i)') \in Nat
      BY <2>1, <3>1, FS_Subset, FS_CardinalityType
    <3>3. Len(answers'[i]) + Cardinality(Inside(i)') <= ai_jobs'[i].attempts
      BY <1>2, <1>5, <2>1, <2>2, <2>3, <2>4, <3>2
    <3> QED
      BY <3>2, <3>3 DEF Counted
  <2>5. CASE i = j
    <3>1. Inside(j)' \subseteq Inside(j) \cup {w} /\ w \notin Inside(j)
      BY <1>1, <1>3 DEF Inside
    <3>2. /\ IsFiniteSet(Inside(j) \cup {w})
          /\ Cardinality(Inside(j) \cup {w}) = Cardinality(Inside(j)) + 1
      BY <2>1, <2>5, <3>1, FS_AddElement
    <3>3. /\ IsFiniteSet(Inside(j)')
          /\ Cardinality(Inside(j)') <= Cardinality(Inside(j) \cup {w})
          /\ Cardinality(Inside(j)') \in Nat
      BY <3>1, <3>2, FS_Subset, FS_CardinalityType
    <3>4. Len(answers'[i]) + Cardinality(Inside(i)') <= ai_jobs'[i].attempts
      BY <1>2, <1>5, <2>1, <2>2, <2>3, <2>5, <3>2, <3>3
    <3> QED
      BY <2>5, <3>3, <3>4 DEF Counted
  <2> QED
    BY <2>4, <2>5
<1> QED
  BY <1>6 DEF AttemptInv

\* The other steps inside process_one count nothing.
LEMMA WorkerStepUncounted ==
  ASSUME TypeOK, NEW w \in Workers, WorkerStep(w), ~CompleteCommit(w)
  PROVE  Uncounted
<1>0. worker[w].pc # "idle"
  BY DEF WorkerStep, Load, ReceiveChunk, StreamEnds, StreamFails, FlushRead, FlushCommit,
         CompleteRead, CompleteCommit, CancelRead, CancelCommit, FailRead, FailCommit
<1> DEFINE j == worker[w].job
<1>1. j \in Jobs /\ MyRow(w) \in Row /\ MyRow(w) = ai_jobs[j]
  BY <1>0, Busy DEF MyRow
<1>2. CASE \/ Load(w) \/ ReceiveChunk(w) \/ StreamEnds(w) \/ StreamFails(w)
           \/ FlushRead(w) \/ CompleteRead(w) \/ CancelRead(w) \/ FailRead(w)
  <2>1. PICK p \in Process : Moves(w, p)
    BY <1>2, LoadEffect, StreamEffect, TestEffect, CancelReadEffect, FailReadEffect
  <2> QED
    BY <1>0, <2>1, MovesUncounted
<1>3. CASE FlushCommit(w)
  <2>1. PICK p \in Process, row \in Row :
          /\ SetProcess(w, p) /\ p.job = j
          /\ SetRow(j, row) /\ row.attempts = MyRow(w).attempts
          /\ answers' = answers
    BY <1>3, FlushCommitEffect
  <2> QED
    BY <1>0, <1>1, <2>1, AttemptsKept, InsideShrinks DEF Uncounted
<1>4. CASE CancelCommit(w) \/ FailCommit(w)
  <2>1. PICK row \in Row : /\ SetProcess(w, Idle) /\ SetRow(j, row)
                           /\ row.attempts = MyRow(w).attempts
                           /\ answers' = answers
    BY <1>1, <1>4, CancelCommitEffect, FailCommitEffect, FailedRow
  <2> QED
    BY <1>1, <2>1, AttemptsKept, IdleProcess, InsideShrinks DEF Uncounted
<1> QED
  BY <1>2, <1>3, <1>4 DEF WorkerStep

\* AttemptInv is inductive.
LEMMA NextAttempts == AttemptInv /\ [Next]_vars => AttemptInv'
<1> SUFFICES ASSUME AttemptInv, [Next]_vars PROVE AttemptInv'
  OBVIOUS
<1>0. TypeOK /\ TypeOK'
  BY NextTypeOK DEF AttemptInv
<1>1. CASE UNCHANGED vars
  <2>1. Uncounted
    BY <1>1 DEF vars, Uncounted, Inside
  <2> QED
    BY <1>0, <2>1, UncountedKeeps
<1>2. ASSUME NEW j \in Jobs,
             Enqueue(j) \/ CancelRequest(j) \/ BackoffElapses(j) \/ LeaseExpires(j)
      PROVE  AttemptInv'
  <2>1. PICK row \in Row : /\ SetRow(j, row) /\ row.attempts = ai_jobs[j].attempts
                           /\ answers' = answers /\ worker' = worker
    BY <1>0, <1>2, EnqueueEffect, CancelRequestEffect, ClockEffect
  <2>2. Uncounted
    BY <1>0, <2>1, AttemptsKept DEF Uncounted, Inside
  <2> QED
    BY <1>0, <2>2, UncountedKeeps
<1>3. ASSUME NEW w \in Workers, Claim(w) PROVE AttemptInv'
  BY <1>0, <1>3, ClaimKeepsCount
<1>4. ASSUME NEW w \in Workers, WorkerStep(w) PROVE AttemptInv'
  BY <1>0, <1>4, CommitKeepsCount, WorkerStepUncounted, UncountedKeeps
<1>5. ASSUME NEW w \in Workers, Crash(w) PROVE AttemptInv'
  <2>1. /\ SetProcess(w, Idle) /\ answers' = answers
        /\ \A j \in Jobs : ai_jobs'[j].attempts = ai_jobs[j].attempts
    BY <1>0, <1>5, CrashEffect
  <2>2. Uncounted
    BY <1>0, <2>1, IdleProcess, InsideShrinks DEF Uncounted
  <2> QED
    BY <1>0, <2>2, UncountedKeeps
<1>6. ASSUME NEW w \in Workers, DatabaseError(w) PROVE AttemptInv'
  <2>1. PICK p \in Process : /\ SetProcess(w, p)
                             /\ p.pc # "idle" => p.job = worker[w].job
                             /\ UNCHANGED <<ai_jobs, answers>>
    BY <1>0, <1>6, DatabaseErrorEffect
  <2>2. Uncounted
    BY <1>0, <1>6, <2>1, InsideShrinks DEF Uncounted, DatabaseError
  <2> QED
    BY <1>0, <2>2, UncountedKeeps
<1> QED
  BY <1>1, <1>2, <1>3, <1>4, <1>5, <1>6 DEF Next

\* In the empty table nobody is inside and nothing is answered.
LEMMA InitAttempts == Init => AttemptInv
<1> SUFFICES ASSUME Init PROVE AttemptInv
  OBVIOUS
<1>1. ASSUME NEW j \in Jobs PROVE Counted(j)
  <2>1. Inside(j) = {}
    BY DEF Init, Idle, Inside
  <2>2. answers[j] = << >> /\ ai_jobs[j].attempts = 0
    BY DEF Init, Absent
  <2>3. Len(answers[j]) = 0
    BY <2>2
  <2> QED
    BY <2>1, <2>2, <2>3, FS_EmptySet DEF Counted
<1> QED
  BY <1>1, InitTypeOK DEF AttemptInv

(* However many workers run, crash, or go on after losing a lease: a job never
   has more answers than it had attempts. *)
THEOREM AnswersAreBounded == Spec => []AnswersBoundedByAttempts
<1>1. ASSUME AttemptInv, NEW j \in Jobs PROVE Len(answers[j]) <= ai_jobs[j].attempts
  <2>1. /\ Cardinality(Inside(j)) \in Nat
        /\ Len(answers[j]) + Cardinality(Inside(j)) <= ai_jobs[j].attempts
    BY <1>1, FS_CardinalityType DEF AttemptInv, Counted
  <2>2. Len(answers[j]) \in Nat /\ ai_jobs[j].attempts \in Nat
    BY <1>1 DEF AttemptInv, TypeOK, Row
  <2> QED
    BY <2>1, <2>2
<1>2. AttemptInv => AnswersBoundedByAttempts
  BY <1>1 DEF AnswersBoundedByAttempts
<1> QED
  BY <1>2, InitAttempts, NextAttempts, PTL DEF Spec

-----------------------------------------------------------------------------
(* AiStream, for any set of workers.  What the client has ends with        *)
(* previous, the text the generator compares the next one with; and while  *)
(* nothing that was sent was dropped, it is previous, and the row only     *)
(* adds to it.                                                             *)

Texts == Seq(Payloads)

EndsWith(t, s) == \E r \in Texts : t = r \o s

StreamTypes ==
  /\ text \in [Jobs -> Texts]
  /\ buffer \in [Workers -> Texts]
  /\ stream \in [open : BOOLEAN, previous : Texts, received : Texts, shown : Texts,
                 dropped : BOOLEAN]

\* The generator x with the output the row has.
InStep(x, output) ==
  /\ EndsWith(x.received, x.previous)
  /\ EndsWith(x.received, x.shown)
  /\ ~x.dropped => /\ x.received = x.previous /\ x.shown = x.previous
                   /\ IsPrefix(x.previous, output)

StreamInv == TypeOK /\ StreamTypes /\ InStep(stream, text[Streamed])

\* A text that was found to have grown is the text before with the delta.
LEMMA DeltaCompletes ==
  ASSUME NEW s \in Texts, NEW t \in Texts
  PROVE  /\ Delta(s, t) \in Texts
         /\ IsPrefix(s, t) => s \o Delta(s, t) = t
         /\ ~IsPrefix(s, t) => Delta(s, t) = t
<1>1. s \in Seq(Payloads) /\ t \in Seq(Payloads) /\ Len(s) \in Nat /\ Len(t) \in Nat
  BY LenProperties DEF Texts
<1>2. CASE IsPrefix(s, t)
  <2>1. Len(s) <= Len(t) /\ SubSeq(t, 1, Len(s)) = s
    BY <1>1, <1>2, SubSeqFull DEF IsPrefix
  <2>2. SubSeq(t, 1, Len(s)) \o SubSeq(t, Len(s) + 1, Len(t)) = t
    <3>1. /\ 1 \in 1..(Len(t) + 1) /\ Len(s) \in (1 - 1)..Len(t) /\ Len(t) \in Len(s)..Len(t)
      BY <1>1, <2>1
    <3> QED
      BY <1>1, <3>1, ConcatAdjacentSubSeq, SubSeqFull
  <2>3. SubSeq(t, Len(s) + 1, Len(t)) \in Texts
    <3>1. \A i \in (Len(s) + 1)..Len(t) : t[i] \in Payloads
      BY <1>1, ElementOfSeq
    <3>2. Len(s) + 1 \in Int /\ Len(t) \in Int
      BY <1>1
    <3> QED
      BY <3>1, <3>2, SubSeqProperties DEF Texts
  <2> QED
    BY <1>2, <2>1, <2>2, <2>3 DEF Delta
<1>3. CASE ~IsPrefix(s, t)
  BY <1>3 DEF Delta
<1> QED
  BY <1>2, <1>3

\* The empty text is a prefix and the end of every text.
LEMMA NothingSent ==
  ASSUME NEW t \in Texts
  PROVE  << >> \in Texts /\ IsPrefix(<< >>, t) /\ EndsWith(t, << >>)
<1>1. << >> \in Texts /\ Len(<< >>) = 0 /\ t \o << >> = t /\ Len(t) \in Nat
  BY EmptySeq, ConcatEmptySeq, LenProperties DEF Texts
<1>2. SubSeq(<< >>, 1, 0) = << >> /\ SubSeq(t, 1, 0) = << >>
  BY SubSeqEmpty
<1> QED
  BY <1>1, <1>2 DEF IsPrefix, EndsWith

\* EndsWith, in terms of the operator the property uses.
LEMMA EndIsSuffix ==
  ASSUME NEW s \in Texts, NEW t \in Texts, EndsWith(t, s)
  PROVE  IsSuffix(s, t)
<1>1. PICK r \in Texts : t = r \o s
  BY DEF EndsWith
<1> DEFINE m == Len(s)
           n == Len(t)
<1>2. /\ m \in Nat /\ n \in Nat /\ Len(r) \in Nat /\ n = Len(r) + m
      /\ \A i \in 1..n : t[i] = IF i <= Len(r) THEN r[i] ELSE s[i - Len(r)]
  BY <1>1, LenProperties, ConcatProperties DEF Texts
<1>3. /\ Reverse(s) = [i \in 1..m |-> s[(m - i) + 1]]
      /\ Reverse(t) = [i \in 1..n |-> t[(n - i) + 1]]
  BY DEF Reverse
<1>4. \A i \in 1..m : s[(m - i) + 1] = t[(n - i) + 1] /\ s[(m - i) + 1] \in Payloads
  <2> SUFFICES ASSUME NEW i \in 1..m
               PROVE  s[(m - i) + 1] = t[(n - i) + 1] /\ s[(m - i) + 1] \in Payloads
    OBVIOUS
  <2>1. /\ (n - i) + 1 \in 1..n /\ ~((n - i) + 1 <= Len(r))
        /\ ((n - i) + 1) - Len(r) = (m - i) + 1 /\ (m - i) + 1 \in 1..m
    BY <1>2
  <2>2. s[(m - i) + 1] \in Payloads
    BY <2>1, ElementOfSeq DEF Texts
  <2> QED
    BY <1>2, <2>1, <2>2
<1>5. \A i \in 1..n : t[(n - i) + 1] \in Payloads
  <2> SUFFICES ASSUME NEW i \in 1..n PROVE t[(n - i) + 1] \in Payloads
    OBVIOUS
  <2>1. (n - i) + 1 \in 1..n
    BY <1>2
  <2> QED
    BY <2>1, ElementOfSeq DEF Texts
<1> HIDE DEF m, n
<1>6. /\ Reverse(s) \in Seq(Payloads) /\ Len(Reverse(s)) = m
      /\ \A i \in 1..m : Reverse(s)[i] = s[(m - i) + 1]
  BY <1>2, <1>3, <1>4
<1>7. /\ Reverse(t) \in Seq(Payloads) /\ Len(Reverse(t)) = n
      /\ \A i \in 1..n : Reverse(t)[i] = t[(n - i) + 1]
  BY <1>2, <1>3, <1>5
<1> DEFINE a == Reverse(s)
           b == Reverse(t)
           c == SubSeq(b, 1, m)
<1>8. /\ c \in Seq(Payloads) /\ Len(c) = m
      /\ \A i \in 1..m : c[i] = b[i]
  <2>1. \A i \in 1..m : b[i] \in Payloads
    BY <1>2, <1>5, <1>7
  <2>2. \A i \in 1..m : b[1 + i - 1] = b[i] /\ m - 1 + 1 = m
    BY <1>2
  <2>3. /\ c \in Seq(Payloads) /\ Len(c) = (IF 1 <= m THEN m - 1 + 1 ELSE 0)
        /\ \A i \in 1..(m - 1 + 1) : c[i] = b[1 + i - 1]
    <3> HIDE DEF b
    <3> QED
      BY <1>2, <2>1, SubSeqProperties
  <2> HIDE DEF b, c
  <2> QED
    BY <1>2, <2>2, <2>3
<1>9. c = a
  <2>1. ASSUME NEW i \in 1..m PROVE c[i] = a[i]
    <3>1. i \in 1..n
      BY <1>2
    <3>2. c[i] = b[i] /\ b[i] = t[(n - i) + 1] /\ a[i] = s[(m - i) + 1]
      BY <1>6, <1>7, <1>8, <3>1
    <3> HIDE DEF a, b, c
    <3> QED
      BY <1>4, <3>2
  <2> HIDE DEF a, c
  <2> QED
    BY <1>6, <1>8, <2>1, SeqEqual DEF a
<1>10. SubSeq(a, 1, Len(a)) = a
  BY <1>6, SubSeqFull
<1> QED
  BY <1>2, <1>6, <1>7, <1>9, <1>10 DEF IsSuffix, IsPrefix

\* A step that leaves the text of the streamed job or marks what it drops.
LEMMA WatchedInStep ==
  ASSUME StreamInv, Watched
  PROVE  /\ InStep(stream, text[Streamed])'
         /\ stream' \in [open : BOOLEAN, previous : Texts, received : Texts, shown : Texts,
                         dropped : BOOLEAN]
<1> DEFINE x == stream
           b == x.dropped \/ ~IsPrefix(x.previous, text'[Streamed])
           y == [x EXCEPT !.dropped = b]
<1>1. /\ x \in [open : BOOLEAN, previous : Texts, received : Texts, shown : Texts, dropped : BOOLEAN]
      /\ InStep(x, text[Streamed])
  BY DEF StreamInv, StreamTypes
<1>2. stream' = y
  BY DEF Watched
<1>3. b \in BOOLEAN /\ (~b => ~x.dropped /\ IsPrefix(x.previous, text'[Streamed]))
  BY <1>1
<1> HIDE DEF x, b
<1>4. /\ y \in [open : BOOLEAN, previous : Texts, received : Texts, shown : Texts, dropped : BOOLEAN]
      /\ y.previous = x.previous /\ y.received = x.received /\ y.shown = x.shown /\ y.dropped = b
  BY <1>1, <1>3
<1> HIDE DEF y
<1> QED
  BY <1>1, <1>2, <1>3, <1>4 DEF InStep

\* Poll: the client gets the delta, or the whole text if it did not grow.
LEMMA PollInStep ==
  ASSUME Streamed \in Jobs, StreamInv, Poll
  PROVE  StreamInv'
<1> DEFINE x      == stream
           output == text[Streamed]
           delta  == Delta(x.previous, output)
           o == ai_jobs[Streamed].status \notin Terminal
           p == IF delta = << >> THEN x.previous ELSE output
           y == [x EXCEPT !.open = o, !.previous = p, !.received = x.received \o delta,
                          !.shown = output]
<1>1. /\ x \in [open : BOOLEAN, previous : Texts, received : Texts, shown : Texts, dropped : BOOLEAN]
      /\ InStep(x, output) /\ output \in Texts
  BY DEF StreamInv, StreamTypes
<1>2. stream' = y /\ UNCHANGED <<vars, text, buffer>>
  BY DEF Poll
<1>3. /\ delta \in Texts
      /\ IsPrefix(x.previous, output) => x.previous \o delta = output
      /\ ~IsPrefix(x.previous, output) => delta = output
  BY <1>1, DeltaCompletes
<1>4. o \in BOOLEAN /\ p \in Texts /\ (delta = << >> => p = x.previous) /\ (delta # << >> => p = output)
  BY <1>1
<1>5. text[Streamed] = output
  OBVIOUS
<1> HIDE DEF x, output, delta, o, p
<1>6. x.received \o delta \in Texts
  BY <1>1, <1>3, ConcatProperties DEF Texts
<1>7. /\ y \in [open : BOOLEAN, previous : Texts, received : Texts, shown : Texts, dropped : BOOLEAN]
      /\ y.previous = p /\ y.received = x.received \o delta /\ y.shown = output
      /\ y.dropped = x.dropped
  BY <1>1, <1>4, <1>6
<1> HIDE DEF y
<1>8. EndsWith(x.received \o delta, output)
  <2>1. CASE IsPrefix(x.previous, output)
    <3>1. PICK r \in Texts : x.received = r \o x.previous
      BY <1>1 DEF InStep, EndsWith
    <3>2. PICK s \in Seq(Payloads) : s = x.previous
      BY <1>1 DEF Texts
    <3>3. (r \o s) \o delta = r \o (s \o delta)
      BY <1>3, ConcatAssociative DEF Texts
    <3> QED
      BY <1>3, <2>1, <3>1, <3>2, <3>3 DEF EndsWith
  <2>2. CASE ~IsPrefix(x.previous, output)
    BY <1>1, <1>3, <2>2 DEF EndsWith
  <2> QED
    BY <2>1, <2>2
<1>9. EndsWith(x.received \o delta, p)
  <2>1. CASE delta = << >>
    <3>1. x.received \o delta = x.received
      BY <1>1, <2>1, ConcatEmptySeq DEF Texts
    <3> QED
      BY <1>1, <1>4, <2>1, <3>1 DEF InStep
  <2> QED
    BY <1>4, <1>8, <2>1
<1>10. ASSUME ~x.dropped
       PROVE  x.received \o delta = output /\ p = output /\ IsPrefix(output, output)
  <2>1. x.received = x.previous /\ IsPrefix(x.previous, output)
    BY <1>1, <1>10 DEF InStep
  <2>2. x.received \o delta = output
    BY <1>3, <2>1
  <2>3. p = output
    <3>1. CASE delta = << >>
      BY <1>1, <1>4, <2>1, <2>2, <3>1, ConcatEmptySeq DEF Texts
    <3> QED
      BY <1>4, <3>1
  <2>4. Len(output) \in Nat
    BY <1>1, LenProperties DEF Texts
  <2> QED
    BY <2>2, <2>3, <2>4 DEF IsPrefix
<1>11. InStep(y, output)
  BY <1>7, <1>8, <1>9, <1>10 DEF InStep
<1> QED
  BY <1>2, <1>5, <1>7, <1>11 DEF StreamInv, StreamTypes, TypeOK, vars

\* A step of the queue that writes no text.
LEMMA QueueStepInStep ==
  ASSUME StreamInv, TypeOK', UNCHANGED <<text, stream>>, buffer' \in [Workers -> Texts]
  PROVE  StreamInv'
BY DEF StreamInv, StreamTypes

LEMMA NextStream ==
  ASSUME Streamed \in Jobs, StreamInv, [StreamNext]_<<vars, streamVars>>
  PROVE  StreamInv'
<1>0. TypeOK /\ StreamTypes
  BY DEF StreamInv
<1>1. CASE Connect
  <2>1. /\ stream' = Connected /\ UNCHANGED <<vars, text, buffer>>
    BY <1>1 DEF Connect
  <2>2. text[Streamed] \in Texts
    BY <1>0 DEF StreamTypes
  <2>3. << >> \in Texts /\ IsPrefix(<< >>, text[Streamed]) /\ EndsWith(<< >>, << >>)
    BY <2>2, NothingSent
  <2>4. InStep(Connected, text[Streamed])
    BY <2>3 DEF InStep, Connected
  <2>5. Connected \in [open : BOOLEAN, previous : Texts, received : Texts, shown : Texts,
                       dropped : BOOLEAN]
    BY <2>3 DEF Connected
  <2> QED
    BY <1>0, <2>1, <2>4, <2>5 DEF StreamInv, StreamTypes, TypeOK, vars
<1>2. CASE Poll
  BY <1>2, PollInStep
<1>3. CASE UNCHANGED <<vars, streamVars>>
  BY <1>3 DEF StreamInv, StreamTypes, TypeOK, vars, streamVars
<1>4. CASE \/ \E j \in Jobs : /\ Enqueue(j) \/ CancelRequest(j) \/ BackoffElapses(j) \/ LeaseExpires(j)
                              /\ UNCHANGED streamVars
           \/ \E w \in Workers : OtherStep(w) /\ UNCHANGED streamVars
  <2>1. Next /\ UNCHANGED streamVars
    BY <1>4 DEF OtherStep, Next, WorkerStep
  <2>2. TypeOK'
    BY <1>0, <2>1, NextTypeOK
  <2> QED
    BY <1>0, <2>1, <2>2, QueueStepInStep DEF streamVars, StreamTypes
<1>5. ASSUME NEW w \in Workers, ClaimText(w) PROVE StreamInv'
  <2>1. Next
    BY <1>5 DEF ClaimText, Next
  <2>2. TypeOK'
    BY <1>0, <2>1, NextTypeOK
  <2>3. text' \in [Jobs -> Texts]
    <3>1. << >> \in Texts
      BY EmptySeq DEF Texts
    <3> QED
      BY <1>0, <1>5, <3>1 DEF ClaimText, StreamTypes
  <2>4. Watched /\ buffer' = buffer
    BY <1>5 DEF ClaimText
  <2> QED
    BY <1>0, <2>2, <2>3, <2>4, WatchedInStep DEF StreamInv, StreamTypes
<1>6. ASSUME NEW w \in Workers, FlushText(w) PROVE StreamInv'
  <2>1. Next
    BY <1>6 DEF FlushText, Next, WorkerStep
  <2>2. TypeOK'
    BY <1>0, <2>1, NextTypeOK
  <2>3. text' \in [Jobs -> Texts]
    BY <1>0, <1>6 DEF FlushText, StreamTypes
  <2>4. Watched /\ buffer' = buffer
    BY <1>6 DEF FlushText
  <2> QED
    BY <1>0, <2>2, <2>3, <2>4, WatchedInStep DEF StreamInv, StreamTypes
<1>7. ASSUME NEW w \in Workers, LoadText(w) PROVE StreamInv'
  <2>1. Next /\ UNCHANGED <<text, stream>>
    BY <1>7 DEF LoadText, Next, WorkerStep
  <2>2. TypeOK'
    BY <1>0, <2>1, NextTypeOK
  <2>3. << >> \in Texts /\ text[worker[w].job] \in Texts
    <3>1. worker[w].job \in Jobs
      BY <1>0, <1>7, Busy DEF LoadText, Load
    <3> QED
      BY <1>0, <3>1, EmptySeq DEF Texts, StreamTypes
  <2>4. buffer' \in [Workers -> Texts]
    BY <1>0, <1>7, <2>3 DEF LoadText, StreamTypes
  <2> QED
    BY <2>1, <2>2, <2>4, QueueStepInStep
<1>8. ASSUME NEW w \in Workers, ReceiveText(w) PROVE StreamInv'
  <2>1. Next /\ UNCHANGED <<text, stream>>
    BY <1>8 DEF ReceiveText, Next, WorkerStep
  <2>2. TypeOK'
    BY <1>0, <2>1, NextTypeOK
  <2>3. PICK payload \in Payloads : buffer' = [buffer EXCEPT ![w] = Append(buffer[w], payload)]
    BY <1>8 DEF ReceiveText
  <2>4. Append(buffer[w], payload) \in Texts
    BY <1>0, AppendProperties DEF Texts, StreamTypes
  <2>5. buffer' \in [Workers -> Texts]
    BY <1>0, <2>3, <2>4 DEF StreamTypes
  <2> QED
    BY <2>1, <2>2, <2>5, QueueStepInStep
<1> QED
  BY <1>1, <1>2, <1>3, <1>4, <1>5, <1>6, <1>7, <1>8 DEF StreamNext

LEMMA InitStream == Streamed \in Jobs /\ StreamInit => StreamInv
<1> SUFFICES ASSUME Streamed \in Jobs, StreamInit PROVE StreamInv
  OBVIOUS
<1>1. << >> \in Texts /\ IsPrefix(<< >>, << >>) /\ EndsWith(<< >>, << >>)
  BY EmptySeq, NothingSent DEF Texts
<1>2. /\ TypeOK /\ text = [j \in Jobs |-> << >>] /\ buffer = [w \in Workers |-> << >>]
  BY InitTypeOK DEF StreamInit
<1> DEFINE x == Connected
           y == [x EXCEPT !.open = FALSE]
<1>3. /\ x.previous = << >> /\ x.received = << >> /\ x.shown = << >> /\ x.dropped = FALSE
      /\ x \in [open : BOOLEAN, previous : Texts, received : Texts, shown : Texts, dropped : BOOLEAN]
  BY <1>1 DEF Connected
<1>4. stream = y
  BY DEF StreamInit
<1> HIDE DEF x
<1>5. /\ y.previous = << >> /\ y.received = << >> /\ y.shown = << >> /\ y.dropped = FALSE
      /\ y \in [open : BOOLEAN, previous : Texts, received : Texts, shown : Texts, dropped : BOOLEAN]
  BY <1>3
<1> HIDE DEF y
<1>6. InStep(stream, text[Streamed])
  BY <1>1, <1>2, <1>4, <1>5 DEF InStep
<1> QED
  BY <1>1, <1>2, <1>4, <1>5, <1>6 DEF StreamInv, StreamTypes

(* Whatever attempts write the row, and whenever the generator polls it, the
   tokens its client appended end with the output of the last event; and they
   are that output if no text that was sent was dropped (stream_job). *)
THEOREM StreamEndsWithOutput ==
  ASSUME Streamed \in Jobs
  PROVE  StreamSpec => []TokensEndWithOutput
<1>1. StreamInv => TokensEndWithOutput
  <2> SUFFICES ASSUME StreamInv PROVE TokensEndWithOutput
    OBVIOUS
  <2>1. /\ stream.shown \in Texts /\ stream.received \in Texts
        /\ EndsWith(stream.received, stream.shown)
        /\ ~stream.dropped => stream.received = stream.shown
    BY DEF StreamInv, StreamTypes, InStep
  <2> QED
    BY <2>1, EndIsSuffix DEF TokensEndWithOutput
<1>2. StreamInv /\ [StreamNext]_<<vars, streamVars>> => StreamInv'
  BY NextStream
<1> QED
  BY <1>1, <1>2, InitStream, PTL DEF StreamSpec

-----------------------------------------------------------------------------
(* One worker at a time.  LockDiscipline alone is not inductive: a         *)
(* commit must be known to write over the status its read saw, to a row    *)
(* its worker still holds.  Tracks says so for every pc, and Orderly what  *)
(* the row then makes of it.                                               *)

OneWorker == \A v, w \in Workers : v = w

\* A row, the answers stored for it and whether a client asked to cancel it.
Orderly(row, replies, requested) ==
  /\ (row.locked_by # NoWorker) <=> (row.status = "running")
  /\ (row.lease # "null") <=> (row.status = "running")
  /\ row.status = "queued" => row.attempts < MaxAttempts
  /\ row.status = "absent" => row.attempts = 0 /\ ~row.cancel_requested
  /\ row.status = "cancelled" => row.cancel_requested
  /\ row.cancel_requested => requested
  /\ replies = IF row.status = "succeeded" THEN <<row.output>> ELSE << >>

\* The locals p of process w inside process_one, and the row of its job.
Tracks(w, p, row) ==
  /\ row.status = "running" /\ row.locked_by = w
  /\ p.attempt = row.attempts
  /\ p.pc \in {"complete", "complete_commit"} => p.buf = row.output
  /\ p.pc \in {"cancel", "cancel_commit"} => row.cancel_requested
  /\ p.pc = "cancel_commit" => p.seen = "running"
  /\ p.pc = "fail_commit" =>
       \/ p.seen = "queued" /\ p.attempt < MaxAttempts
       \/ p.seen = "failed"
       \/ p.seen = "cancelled" /\ row.cancel_requested

OneWorkerInv ==
  /\ TypeOK
  /\ \A j \in Jobs : Orderly(ai_jobs[j], answers[j], j \in asked)
  /\ \A w \in Workers : worker[w].pc # "idle" => Tracks(w, worker[w], MyRow(w))

\* Writing one orderly row keeps the table orderly.
LEMMA RowStepOrderly ==
  ASSUME OneWorkerInv, NEW j \in Jobs, NEW row \in Row, SetRow(j, row),
         Orderly(row, answers'[j], j \in asked'),
         \A i \in Jobs : i # j => answers'[i] = answers[i] /\ (i \in asked => i \in asked')
  PROVE  \A i \in Jobs : Orderly(ai_jobs'[i], answers'[i], i \in asked')
<1> SUFFICES ASSUME NEW i \in Jobs
             PROVE  Orderly(ai_jobs'[i], answers'[i], i \in asked')
  OBVIOUS
<1>1. CASE i = j
  BY <1>1, SetRowEffect DEF OneWorkerInv, TypeOK
<1>2. CASE i # j
  <2>1. ai_jobs'[i] = ai_jobs[i] /\ Orderly(ai_jobs[i], answers[i], i \in asked)
    BY <1>2, SetRowEffect DEF OneWorkerInv, TypeOK
  <2> QED
    BY <1>2, <2>1 DEF Orderly
<1> QED
  BY <1>1, <1>2

\* The only process tracks its row after its own step.
LEMMA ProcessStepTracks ==
  ASSUME OneWorker, OneWorkerInv, NEW w \in Workers, NEW p \in Process, SetProcess(w, p),
         p.pc # "idle" => Tracks(w, p, ai_jobs'[p.job])
  PROVE  \A v \in Workers : (worker[v].pc # "idle" => Tracks(v, worker[v], MyRow(v)))'
<1>1. worker'[w] = p /\ \A v \in Workers : v = w
  BY SetProcessEffect DEF OneWorker, OneWorkerInv, TypeOK
<1> QED
  BY <1>1 DEF MyRow

\* A step of the API or the clock on row j.
LEMMA SameProcessTracks ==
  ASSUME OneWorkerInv, NEW j \in Jobs, NEW row \in Row, SetRow(j, row), worker' = worker,
         ai_jobs[j].status = "running" =>
           /\ row.status = "running" /\ row.locked_by = ai_jobs[j].locked_by
           /\ row.attempts = ai_jobs[j].attempts /\ row.output = ai_jobs[j].output
           /\ ai_jobs[j].cancel_requested => row.cancel_requested
  PROVE  \A v \in Workers : (worker[v].pc # "idle" => Tracks(v, worker[v], MyRow(v)))'
<1> SUFFICES ASSUME NEW v \in Workers, worker[v].pc # "idle"
             PROVE  Tracks(v, worker[v], ai_jobs'[worker[v].job])
  BY DEF MyRow
<1>1. worker[v].job \in Jobs /\ Tracks(v, worker[v], ai_jobs[worker[v].job])
  BY DEF OneWorkerInv, TypeOK, MyRow
<1>2. CASE worker[v].job = j
  BY <1>1, <1>2, SetRowEffect DEF OneWorkerInv, TypeOK, Tracks
<1>3. CASE worker[v].job # j
  BY <1>1, <1>3, SetRowEffect DEF OneWorkerInv, TypeOK
<1> QED
  BY <1>2, <1>3

\* Steps without a write keep OneWorkerInv.
LEMMA MovesOneWorker ==
  ASSUME OneWorker, OneWorkerInv, NEW w \in Workers, worker[w].pc # "idle",
         NEW p \in Process, Moves(w, p),
         p.pc # "idle" => Tracks(w, p, MyRow(w))
  PROVE  OneWorkerInv'
<1>1. TypeOK'
  BY MovesType DEF OneWorkerInv
<1>2. /\ SetProcess(w, p)
      /\ UNCHANGED <<ai_jobs, answers, asked>>
      /\ p.pc # "idle" => p.job = worker[w].job
  BY DEF Moves
<1>3. p.pc # "idle" => Tracks(w, p, ai_jobs'[p.job])
  BY <1>2 DEF MyRow
<1>4. \A v \in Workers : (worker[v].pc # "idle" => Tracks(v, worker[v], MyRow(v)))'
  BY <1>2, <1>3, ProcessStepTracks
<1>5. \A i \in Jobs : Orderly(ai_jobs'[i], answers'[i], i \in asked')
  BY <1>2 DEF OneWorkerInv
<1> QED
  BY <1>1, <1>4, <1>5 DEF OneWorkerInv

\* The end of an attempt: one commit writes the row, the process goes idle.
LEMMA FinishesOneWorker ==
  ASSUME OneWorker, OneWorkerInv, TypeOK', NEW w \in Workers, NEW j \in Jobs,
         NEW row \in Row, SetRow(j, row), SetProcess(w, Idle), asked' = asked,
         Orderly(row, answers'[j], j \in asked),
         \A i \in Jobs : i # j => answers'[i] = answers[i]
  PROVE  OneWorkerInv'
<1>1. \A i \in Jobs : Orderly(ai_jobs'[i], answers'[i], i \in asked')
  BY RowStepOrderly
<1>2. \A v \in Workers : (worker[v].pc # "idle" => Tracks(v, worker[v], MyRow(v)))'
  BY IdleProcess, ProcessStepTracks
<1> QED
  BY <1>1, <1>2 DEF OneWorkerInv

\* Every step inside process_one keeps OneWorkerInv.
LEMMA WorkerStepOneWorker ==
  ASSUME OneWorker, OneWorkerInv, NEW w \in Workers, WorkerStep(w)
  PROVE  OneWorkerInv'
<1>0. worker[w].pc # "idle"
  BY DEF WorkerStep, Load, ReceiveChunk, StreamEnds, StreamFails, FlushRead, FlushCommit,
         CompleteRead, CompleteCommit, CancelRead, CancelCommit, FailRead, FailCommit
<1> DEFINE j == worker[w].job
<1>1. /\ TypeOK /\ TypeOK'
      /\ j \in Jobs /\ MyRow(w) = ai_jobs[j] /\ ai_jobs[j] \in Row
      /\ Tracks(w, worker[w], MyRow(w)) /\ Orderly(ai_jobs[j], answers[j], j \in asked)
  BY <1>0, Busy, WorkerStepType DEF OneWorkerInv, MyRow
<1>2. Mine(w)
  BY <1>1 DEF Tracks, Mine
<1>3. CASE Load(w)
  <2>1. PICK p \in Process :
          /\ Moves(w, p)
          /\ p.attempt = MyRow(w).attempts
          /\ p.pc = IF Cancelling(w) THEN "cancel" ELSE "stream"
    BY <1>1, <1>2, <1>3, LoadEffect
  <2>2. Tracks(w, p, MyRow(w))
    BY <1>1, <2>1 DEF Tracks, Cancelling
  <2> QED
    BY <1>0, <2>1, <2>2, MovesOneWorker
<1>4. CASE ReceiveChunk(w) \/ StreamEnds(w) \/ StreamFails(w)
  <2>1. PICK p \in Process :
          /\ Moves(w, p)
          /\ p.pc \in {"stream", "flush", "fail"} /\ p.attempt = worker[w].attempt
    BY <1>1, <1>4, StreamEffect
  <2>2. Tracks(w, p, MyRow(w))
    BY <1>1, <2>1 DEF Tracks
  <2> QED
    BY <1>0, <2>1, <2>2, MovesOneWorker
<1>5. CASE FlushRead(w) \/ CompleteRead(w)
  <2>1. PICK p \in Process :
          /\ Moves(w, p)
          /\ p.attempt = worker[w].attempt /\ p.buf = worker[w].buf
          /\ p.pc = IF Cancelling(w) THEN "cancel"
                    ELSE IF worker[w].pc = "flush" THEN "flush_commit" ELSE "complete_commit"
    BY <1>1, <1>2, <1>5, TestEffect
  <2>2. worker[w].pc = "flush" \/ worker[w].pc = "complete"
    BY <1>5 DEF FlushRead, CompleteRead
  <2>3. Tracks(w, p, MyRow(w))
    BY <1>1, <2>1, <2>2 DEF Tracks, Cancelling
  <2> QED
    BY <1>0, <2>1, <2>3, MovesOneWorker
<1>6. CASE CancelRead(w)
  <2>1. PICK p \in Process :
          /\ Moves(w, p)
          /\ p.pc = "cancel_commit" /\ p.seen = MyRow(w).status
          /\ p.attempt = worker[w].attempt
    BY <1>1, <1>2, <1>6, CancelReadEffect
  <2>2. Tracks(w, p, MyRow(w))
    BY <1>1, <1>6, <2>1 DEF Tracks, CancelRead
  <2> QED
    BY <1>0, <2>1, <2>2, MovesOneWorker
<1>7. CASE FailRead(w)
  <2>1. PICK p \in Process :
          /\ Moves(w, p)
          /\ p.pc = "fail_commit" /\ p.seen = Verdict(w)
          /\ p.attempt = worker[w].attempt
    BY <1>1, <1>2, <1>7, FailReadEffect
  <2>2. Tracks(w, p, MyRow(w))
    BY <1>1, <2>1 DEF Tracks, Verdict
  <2> QED
    BY <1>0, <2>1, <2>2, MovesOneWorker
<1>8. CASE FlushCommit(w)
  <2>1. PICK p \in Process, row \in Row :
          /\ SetProcess(w, p)
          /\ p.pc \in {"complete", "stream"} /\ p.job = j
          /\ p.attempt = worker[w].attempt /\ p.buf = worker[w].buf
          /\ SetRow(j, row)
          /\ row.status = MyRow(w).status /\ row.locked_by = MyRow(w).locked_by
          /\ row.lease = MyRow(w).lease /\ row.attempts = MyRow(w).attempts
          /\ row.cancel_requested = MyRow(w).cancel_requested
          /\ row.output = worker[w].buf
          /\ UNCHANGED <<answers, faults, asked>>
    BY <1>1, <1>8, FlushCommitEffect
  <2>2. row.status = "running" /\ Tracks(w, p, row)
    BY <1>1, <2>1 DEF Tracks
  <2>3. Orderly(row, answers'[j], j \in asked')
    BY <1>1, <2>1, <2>2 DEF Orderly
  <2>4. \A i \in Jobs : Orderly(ai_jobs'[i], answers'[i], i \in asked')
    BY <1>1, <2>1, <2>3, RowStepOrderly
  <2>5. ai_jobs'[p.job] = row
    BY <1>1, <2>1, SetRowEffect DEF TypeOK
  <2>6. \A v \in Workers : (worker[v].pc # "idle" => Tracks(v, worker[v], MyRow(v)))'
    BY <2>1, <2>2, <2>5, ProcessStepTracks
  <2> QED
    BY <1>1, <2>4, <2>6 DEF OneWorkerInv
<1>9. CASE CompleteCommit(w)
  <2> DEFINE row == Released(MyRow(w), "succeeded")
  <2>1. /\ row \in Row /\ row.status = "succeeded"
        /\ row.locked_by = NoWorker /\ row.lease = "null"
        /\ row.output = MyRow(w).output
        /\ row.cancel_requested = MyRow(w).cancel_requested
    BY <1>1, StatusSets, ReleasedRow
  <2>2. /\ SetRow(j, row) /\ SetProcess(w, Idle)
        /\ answers'[j] = Append(answers[j], worker[w].buf)
        /\ \A i \in Jobs : i # j => answers'[i] = answers[i]
        /\ asked' = asked
    BY <1>1, <1>9, CompleteCommitEffect
  <2> HIDE DEF row
  <2>3. worker[w].buf = MyRow(w).output /\ answers[j] = << >>
    BY <1>1, <1>9 DEF Tracks, Orderly, CompleteCommit
  <2>4. answers'[j] = <<row.output>>
    BY <2>1, <2>2, <2>3
  <2>5. Orderly(row, answers'[j], j \in asked)
    BY <1>1, <2>1, <2>4 DEF Orderly
  <2> QED
    BY <1>1, <2>1, <2>2, <2>5, FinishesOneWorker
<1>10. CASE CancelCommit(w)
  <2>1. PICK row \in Row :
          /\ SetProcess(w, Idle) /\ SetRow(j, row)
          /\ row.status = "cancelled"
          /\ worker[w].seen # "queued" => row.locked_by = NoWorker /\ row.lease = "null"
          /\ row.cancel_requested = TRUE
          /\ UNCHANGED <<answers, faults, asked>>
    BY <1>1, <1>10, CancelCommitEffect
  <2>2. /\ worker[w].seen = "running" /\ MyRow(w).cancel_requested
        /\ MyRow(w).status = "running"
    BY <1>1, <1>10 DEF Tracks, CancelCommit
  <2>3. Orderly(row, answers'[j], j \in asked)
    BY <1>1, <2>1, <2>2 DEF Orderly
  <2> QED
    BY <1>1, <2>1, <2>3, FinishesOneWorker
<1>11. CASE FailCommit(w)
  <2>0. /\ MyRow(w).status = "running"
        /\ \/ worker[w].seen = "queued" /\ MyRow(w).attempts < MaxAttempts
           \/ worker[w].seen = "failed"
           \/ worker[w].seen = "cancelled" /\ MyRow(w).cancel_requested
    BY <1>1, <1>11 DEF Tracks, FailCommit
  <2> DEFINE row == Failed(MyRow(w), worker[w].seen)
  <2>1. /\ row \in Row /\ row.status = worker[w].seen
        /\ row.locked_by = NoWorker /\ row.lease = "null"
        /\ row.attempts = MyRow(w).attempts
        /\ row.cancel_requested = MyRow(w).cancel_requested
    BY <1>1, <1>11, FailCommitEffect, FailedRow
  <2>2. SetRow(j, row) /\ SetProcess(w, Idle) /\ UNCHANGED <<answers, asked>>
    BY <1>1, <1>11, FailCommitEffect
  <2> HIDE DEF row
  <2>3. Orderly(row, answers'[j], j \in asked)
    BY <1>1, <2>0, <2>1, <2>2 DEF Orderly
  <2> QED
    BY <1>1, <2>1, <2>2, <2>3, FinishesOneWorker
<1> QED
  BY <1>3, <1>4, <1>5, <1>6, <1>7, <1>8, <1>9, <1>10, <1>11 DEF WorkerStep

\* OneWorkerInv is inductive.
LEMMA NextOneWorker ==
  ASSUME OneWorker, OneWorkerInv, [Next]_vars
  PROVE  OneWorkerInv'
<1>0. /\ TypeOK /\ TypeOK'
      /\ \A j \in Jobs : ai_jobs[j] \in Row /\ Orderly(ai_jobs[j], answers[j], j \in asked)
  BY NextTypeOK DEF OneWorkerInv, TypeOK
<1>1. CASE UNCHANGED vars
  BY <1>1, <1>0 DEF vars, OneWorkerInv, MyRow
<1>2. ASSUME NEW j \in Jobs, Enqueue(j) PROVE OneWorkerInv'
  <2>1. PICK row \in Row :
          /\ SetRow(j, row)
          /\ ai_jobs[j].status = "absent" /\ row.status = "queued"
          /\ row.locked_by = ai_jobs[j].locked_by /\ row.lease = ai_jobs[j].lease
          /\ row.attempts = ai_jobs[j].attempts
          /\ row.cancel_requested = ai_jobs[j].cancel_requested
          /\ UNCHANGED <<answers, worker, faults, asked>>
    BY <1>0, <1>2, EnqueueEffect
  <2>2. row.attempts = 0 /\ ~row.cancel_requested /\ 0 < MaxAttempts
    <3>1. Orderly(ai_jobs[j], answers[j], j \in asked)
      BY <1>0
    <3>2. ai_jobs[j].attempts = 0 /\ ~ai_jobs[j].cancel_requested
      BY <2>1, <3>1, Zenon DEF Orderly
    <3>3. row.attempts = 0 /\ ~row.cancel_requested
      BY <2>1, <3>2, Zenon
    <3> QED
      BY <3>3, BoundsAssumption
  <2>3. Orderly(row, answers'[j], j \in asked')
    BY <1>0, <2>1, <2>2 DEF Orderly
  <2> QED
    BY <1>0, <2>1, <2>3, RowStepOrderly, SameProcessTracks DEF OneWorkerInv
<1>3. ASSUME NEW j \in Jobs, CancelRequest(j) PROVE OneWorkerInv'
  <2>1. PICK row \in Row :
          /\ ai_jobs[j].status \in {"queued", "running"}
          /\ SetRow(j, row)
          /\ IF ai_jobs[j].status = "queued"
             THEN row.status = "cancelled" /\ row.locked_by = NoWorker /\ row.lease = "null"
             ELSE /\ row.status = ai_jobs[j].status
                  /\ row.locked_by = ai_jobs[j].locked_by
                  /\ row.lease = ai_jobs[j].lease
          /\ row.attempts = ai_jobs[j].attempts
          /\ row.cancel_requested = TRUE
          /\ row.output = ai_jobs[j].output
          /\ asked' = asked \cup {j}
          /\ UNCHANGED <<answers, worker, faults>>
    BY <1>0, <1>3, CancelRequestEffect, StatusSets
  <2>2. Orderly(row, answers'[j], j \in asked')
    BY <1>0, <2>1 DEF Orderly
  <2>3. \A i \in Jobs : i # j => answers'[i] = answers[i] /\ (i \in asked => i \in asked')
    BY <2>1
  <2>4. ai_jobs[j].status = "running" =>
           /\ row.status = "running" /\ row.locked_by = ai_jobs[j].locked_by
           /\ row.attempts = ai_jobs[j].attempts /\ row.output = ai_jobs[j].output
           /\ ai_jobs[j].cancel_requested => row.cancel_requested
    BY <2>1
  <2> QED
    BY <1>0, <2>1, <2>2, <2>3, <2>4, RowStepOrderly, SameProcessTracks DEF OneWorkerInv
<1>4. ASSUME NEW j \in Jobs, BackoffElapses(j) \/ LeaseExpires(j) PROVE OneWorkerInv'
  <2>1. PICK row \in Row :
          /\ SetRow(j, row)
          /\ row.status = ai_jobs[j].status /\ row.locked_by = ai_jobs[j].locked_by
          /\ (row.lease = "null") <=> (ai_jobs[j].lease = "null")
          /\ row.attempts = ai_jobs[j].attempts
          /\ row.cancel_requested = ai_jobs[j].cancel_requested
          /\ row.output = ai_jobs[j].output
          /\ UNCHANGED <<answers, worker, asked>>
    BY <1>0, <1>4, ClockEffect
  <2>2. Orderly(row, answers'[j], j \in asked')
    BY <1>0, <2>1 DEF Orderly
  <2> QED
    BY <1>0, <2>1, <2>2, RowStepOrderly, SameProcessTracks DEF OneWorkerInv
<1>5. ASSUME NEW w \in Workers, Claim(w) PROVE OneWorkerInv'
  <2>1. PICK j \in Jobs, p \in Process :
          /\ Claimable(j)
          /\ SetRow(j, Claimed(ai_jobs[j], w)) /\ SetProcess(w, p)
          /\ p.pc = "load" /\ p.job = j /\ p.attempt = ai_jobs[j].attempts + 1
          /\ UNCHANGED <<answers, faults, asked>>
    BY <1>0, <1>5, ClaimEffect
  <2> DEFINE row == Claimed(ai_jobs[j], w)
  <2>2. /\ row \in Row /\ row.status = "running" /\ row.locked_by = w /\ row.lease = "live"
        /\ row.attempts = ai_jobs[j].attempts + 1
        /\ row.cancel_requested = ai_jobs[j].cancel_requested
    BY <1>0, ClaimedRow
  <2>3. SetRow(j, row)
    BY <2>1
  <2> HIDE DEF row
  <2>4. ai_jobs[j].status \in {"queued", "running"}
    BY <2>1 DEF Claimable
  <2>5. Orderly(row, answers'[j], j \in asked')
    BY <1>0, <2>1, <2>2, <2>4, WorkersAssumption DEF Orderly
  <2>6. ai_jobs'[p.job] = row /\ Tracks(w, p, row)
    BY <1>0, <2>1, <2>2, <2>3, SetRowEffect DEF TypeOK, Tracks
  <2>7. \A v \in Workers : (worker[v].pc # "idle" => Tracks(v, worker[v], MyRow(v)))'
    BY <2>1, <2>6, ProcessStepTracks
  <2> QED
    BY <1>0, <2>1, <2>2, <2>3, <2>5, <2>7, RowStepOrderly DEF OneWorkerInv
<1>6. ASSUME NEW w \in Workers, WorkerStep(w) PROVE OneWorkerInv'
  BY <1>6, WorkerStepOneWorker
<1>7. ASSUME NEW w \in Workers, Crash(w) PROVE OneWorkerInv'
  <2>1. SetProcess(w, Idle) /\ UNCHANGED <<answers, asked>>
    BY <1>0, <1>7, CrashEffect
  <2>2. \A j \in Jobs : Orderly(ai_jobs'[j], answers'[j], j \in asked')
    BY <1>0, <1>7, CrashEffect, WorkersAssumption DEF Orderly
  <2>3. \A v \in Workers : (worker[v].pc # "idle" => Tracks(v, worker[v], MyRow(v)))'
    BY <2>1, IdleProcess, ProcessStepTracks
  <2> QED
    BY <1>0, <2>2, <2>3 DEF OneWorkerInv
<1>8. ASSUME NEW w \in Workers, DatabaseError(w) PROVE OneWorkerInv'
  <2>1. PICK p \in Process :
          /\ SetProcess(w, p)
          /\ p.pc \in {"idle", "fail"}
          /\ p.pc # "idle" => p.job = worker[w].job /\ p.attempt = worker[w].attempt
          /\ UNCHANGED <<ai_jobs, answers, asked>>
    BY <1>0, <1>8, DatabaseErrorEffect
  <2>2. Tracks(w, worker[w], MyRow(w))
    BY <1>8 DEF DatabaseError, OneWorkerInv
  <2>3. p.pc # "idle" => Tracks(w, p, ai_jobs'[p.job])
    BY <2>1, <2>2 DEF Tracks, MyRow
  <2>4. \A v \in Workers : (worker[v].pc # "idle" => Tracks(v, worker[v], MyRow(v)))'
    BY <2>1, <2>3, ProcessStepTracks
  <2> QED
    BY <1>0, <2>1, <2>4 DEF OneWorkerInv
<1> QED
  BY <1>1, <1>2, <1>3, <1>4, <1>5, <1>6, <1>7, <1>8 DEF Next

\* OneWorkerInv holds in the empty table.
LEMMA InitOneWorker == Init => OneWorkerInv
<1> SUFFICES ASSUME Init PROVE OneWorkerInv
  OBVIOUS
<1>1. \A j \in Jobs : ai_jobs[j] = Absent /\ answers[j] = << >>
  BY DEF Init
<1>2. \A j \in Jobs : Orderly(ai_jobs[j], answers[j], j \in asked)
  BY <1>1 DEF Orderly, Absent
<1> QED
  BY <1>2, InitTypeOK DEF Init, Idle, OneWorkerInv

(* With one worker, every row is orderly (lock columns, answers and attempts
   agree with the status) and the process tracks the row it works on: what it
   has read is still true when it commits. *)
THEOREM OneWorkerInvariant ==
  ASSUME OneWorker
  PROVE  Spec => []OneWorkerInv
<1>1. OneWorkerInv /\ [Next]_vars => OneWorkerInv'
  BY NextOneWorker
<1> QED
  BY <1>1, InitOneWorker, PTL DEF Spec

-----------------------------------------------------------------------------
(* The safety invariants.                                                  *)

(* Fencing, with one worker: the lock columns are set exactly while a job
   runs, and the process in process_one is the one they name. *)
THEOREM LocksAreDisciplined ==
  ASSUME OneWorker
  PROVE  Spec => []LockDiscipline
<1>1. OneWorkerInv => LockDiscipline
  <2> SUFFICES ASSUME OneWorkerInv PROVE LockDiscipline
    OBVIOUS
  <2>1. \A j \in Jobs : /\ (ai_jobs[j].locked_by # NoWorker) <=> (ai_jobs[j].status = "running")
                        /\ (ai_jobs[j].lease # "null") <=> (ai_jobs[j].status = "running")
    BY DEF OneWorkerInv, Orderly
  <2>2. \A w \in Workers : worker[w].pc # "idle" => Mine(w)
    BY DEF OneWorkerInv, Tracks, Mine
  <2> QED
    BY <2>1, <2>2 DEF LockDiscipline
<1> QED
  BY <1>1, OneWorkerInvariant, PTL

(* A succeeded job has exactly one assistant message and it is the text its
   stream ended with; no other job has one. *)
THEOREM AnswersAreExact ==
  ASSUME OneWorker
  PROVE  Spec => []OneAnswerPerSuccess
<1>1. OneWorkerInv => OneAnswerPerSuccess
  BY DEF OneWorkerInv, Orderly, OneAnswerPerSuccess
<1> QED
  BY <1>1, OneWorkerInvariant, PTL

(* With one worker, nothing is cancelled that no client asked to cancel. *)
THEOREM CancellationsAreAsked ==
  ASSUME OneWorker
  PROVE  Spec => []CancelledOnlyOnRequest
<1>1. OneWorkerInv => CancelledOnlyOnRequest
  BY DEF OneWorkerInv, Orderly, CancelledOnlyOnRequest
<1> QED
  BY <1>1, OneWorkerInvariant, PTL

(* A job waits for another attempt only while it has one left. *)
THEOREM RetriesAreBounded ==
  ASSUME OneWorker
  PROVE  Spec => []RetriesBounded
<1>1. OneWorkerInv => RetriesBounded
  BY DEF OneWorkerInv, Orderly, RetriesBounded
<1> QED
  BY <1>1, OneWorkerInvariant, PTL

-----------------------------------------------------------------------------
(* What a step may do to the jobs.                                         *)

\* The statuses of no job change, and the rows of finished jobs stay as they are.
Quiet ==
  /\ \A i \in Jobs : /\ ai_jobs'[i].status = ai_jobs[i].status
                     /\ ai_jobs[i].status \in Terminal => ai_jobs'[i] = ai_jobs[i]
  /\ answers' = answers

\* Job j alone changes, along one edge of the lifecycle.
Advances(j) ==
  /\ \A i \in Jobs : i # j => ai_jobs'[i] = ai_jobs[i] /\ answers'[i] = answers[i]
  /\ \/ /\ answers' = answers
        /\ <<ai_jobs[j].status, ai_jobs'[j].status>> \in
             {<<"absent", "queued">>, <<"queued", "running">>, <<"running", "running">>,
              <<"running", "queued">>, <<"running", "failed">>,
              <<"queued", "cancelled">>, <<"running", "cancelled">>}
     \/ /\ ai_jobs[j].status = "running" /\ ai_jobs'[j].status = "succeeded"
        /\ answers' \in [Jobs -> Seq(Nat)]
        /\ Len(answers'[j]) = Len(answers[j]) + 1

\* Writing a row along an edge of the lifecycle advances that job.
LEMMA SetRowAdvances ==
  ASSUME TypeOK, NEW j \in Jobs, NEW row \in Row, SetRow(j, row), answers' = answers,
         <<ai_jobs[j].status, row.status>> \in
             {<<"absent", "queued">>, <<"queued", "running">>, <<"running", "running">>,
              <<"running", "queued">>, <<"running", "failed">>,
              <<"queued", "cancelled">>, <<"running", "cancelled">>}
  PROVE  Advances(j)
BY SetRowEffect DEF TypeOK, Advances

\* Writing a row without changing its status is quiet.
LEMMA SetRowQuiet ==
  ASSUME TypeOK, NEW j \in Jobs, NEW row \in Row, SetRow(j, row), answers' = answers,
         ai_jobs[j].status \notin Terminal, row.status = ai_jobs[j].status
  PROVE  Quiet
BY SetRowEffect DEF TypeOK, Quiet

\* Every step inside process_one is quiet or advances one job.
LEMMA WorkerStepShape ==
  ASSUME OneWorkerInv, NEW w \in Workers, WorkerStep(w)
  PROVE  Quiet \/ \E j \in Jobs : Advances(j)
<1>0. worker[w].pc # "idle"
  BY DEF WorkerStep, Load, ReceiveChunk, StreamEnds, StreamFails, FlushRead, FlushCommit,
         CompleteRead, CompleteCommit, CancelRead, CancelCommit, FailRead, FailCommit
<1> DEFINE j == worker[w].job
<1>1. /\ TypeOK /\ j \in Jobs
      /\ MyRow(w) = ai_jobs[j] /\ ai_jobs[j] \in Row
      /\ Tracks(w, worker[w], MyRow(w)) /\ ai_jobs[j].status = "running"
  BY <1>0, Busy DEF OneWorkerInv, MyRow, Tracks
<1>2. CASE UNCHANGED <<ai_jobs, answers>>
  BY <1>2 DEF Quiet
<1>3. CASE FlushCommit(w)
  <2>1. PICK row \in Row : /\ SetRow(j, row) /\ row.status = MyRow(w).status
                           /\ answers' = answers
    BY <1>1, <1>3, FlushCommitEffect
  <2> QED
    BY <1>1, <2>1, SetRowQuiet, StatusSets
<1>4. CASE CompleteCommit(w)
  <2>1. PICK row \in Row : SetRow(j, row) /\ row.status = "succeeded"
    BY <1>1, <1>4, StatusSets, ReleasedRow, CompleteCommitEffect
  <2>2. /\ answers' \in [Jobs -> Seq(Nat)]
        /\ answers'[j] = Append(answers[j], worker[w].buf)
        /\ \A i \in Jobs : i # j => answers'[i] = answers[i]
    BY <1>1, <1>4, CompleteCommitEffect
  <2>3. answers[j] \in Seq(Nat)
    BY <1>1 DEF TypeOK
  <2>4. Len(answers'[j]) = Len(answers[j]) + 1
    BY <2>2, <2>3
  <2>5. ai_jobs'[j].status = "succeeded" /\ \A i \in Jobs : i # j => ai_jobs'[i] = ai_jobs[i]
    BY <1>1, <2>1, SetRowEffect DEF TypeOK
  <2> QED
    BY <1>1, <2>2, <2>4, <2>5 DEF Advances
<1>5. CASE CancelCommit(w)
  <2>1. PICK row \in Row : /\ SetRow(j, row) /\ row.status = "cancelled"
                           /\ answers' = answers
    BY <1>1, <1>5, CancelCommitEffect
  <2> QED
    BY <1>1, <2>1, SetRowAdvances
<1>6. CASE FailCommit(w)
  <2>1. PICK row \in Row : /\ SetRow(j, row) /\ row.status = worker[w].seen
                           /\ answers' = answers
    BY <1>1, <1>6, FailCommitEffect, FailedRow
  <2>2. worker[w].seen \in {"queued", "failed", "cancelled"}
    BY <1>1, <1>6 DEF Tracks, FailCommit
  <2> QED
    BY <1>1, <2>1, <2>2, SetRowAdvances
<1> QED
  BY <1>2, <1>3, <1>4, <1>5, <1>6
  DEF WorkerStep, Load, ReceiveChunk, StreamEnds, StreamFails, FlushRead, CompleteRead,
      CancelRead, FailRead

\* So is every step of the system.
LEMMA NextShape ==
  ASSUME OneWorkerInv, [Next]_vars
  PROVE  Quiet \/ \E j \in Jobs : Advances(j)
<1>0. /\ TypeOK
      /\ \A j \in Jobs : ai_jobs[j] \in Row /\ Orderly(ai_jobs[j], answers[j], j \in asked)
  BY DEF OneWorkerInv, TypeOK
<1>1. CASE UNCHANGED vars
  BY <1>1 DEF vars, Quiet
<1>2. ASSUME NEW j \in Jobs, Enqueue(j) PROVE Advances(j)
  <2>1. PICK row \in Row : /\ SetRow(j, row) /\ answers' = answers
                           /\ ai_jobs[j].status = "absent" /\ row.status = "queued"
    BY <1>0, <1>2, EnqueueEffect
  <2> QED
    BY <1>0, <2>1, SetRowAdvances
<1>3. ASSUME NEW j \in Jobs, CancelRequest(j) PROVE Quiet \/ Advances(j)
  <2>1. PICK row \in Row :
          /\ ai_jobs[j].status \in Pending
          /\ SetRow(j, row)
          /\ IF ai_jobs[j].status = "queued" THEN row.status = "cancelled"
                                            ELSE row.status = ai_jobs[j].status
          /\ answers' = answers
    BY <1>0, <1>3, CancelRequestEffect
  <2>2. \/ ai_jobs[j].status = "queued" /\ row.status = "cancelled"
        \/ ai_jobs[j].status = "running" /\ row.status = "running"
    BY <2>1, StatusSets
  <2> QED
    BY <1>0, <2>1, <2>2, SetRowAdvances
<1>4. ASSUME NEW j \in Jobs, BackoffElapses(j) \/ LeaseExpires(j) PROVE Quiet
  <2>1. PICK row \in Row : /\ SetRow(j, row) /\ answers' = answers
                           /\ row.status = ai_jobs[j].status
    BY <1>0, <1>4, ClockEffect
  <2>2. ai_jobs[j].status \in {"queued", "running"}
    BY <1>0, <1>4 DEF BackoffElapses, LeaseExpires, Orderly
  <2> QED
    BY <1>0, <2>1, <2>2, SetRowQuiet, StatusSets
<1>5. ASSUME NEW w \in Workers, Claim(w) PROVE \E j \in Jobs : Advances(j)
  <2>1. PICK j \in Jobs : /\ Claimable(j) /\ SetRow(j, Claimed(ai_jobs[j], w))
                          /\ answers' = answers
    BY <1>0, <1>5, ClaimEffect
  <2>2. ai_jobs[j].status \in {"queued", "running"}
    BY <2>1 DEF Claimable
  <2>3. Claimed(ai_jobs[j], w) \in Row /\ Claimed(ai_jobs[j], w).status = "running"
    BY <1>0, ClaimedRow
  <2> QED
    BY <1>0, <2>1, <2>2, <2>3, SetRowAdvances
<1>6. ASSUME NEW w \in Workers, WorkerStep(w) PROVE Quiet \/ \E j \in Jobs : Advances(j)
  BY <1>6, WorkerStepShape
<1>7. ASSUME NEW w \in Workers, Crash(w) PROVE Quiet
  <2>1. \A j \in Jobs : ai_jobs[j].status \in Terminal => ai_jobs[j].locked_by # w
    BY <1>0, WorkersAssumption, StatusSets DEF Orderly
  <2> QED
    BY <1>0, <1>7, <2>1, CrashEffect DEF Quiet
<1>8. ASSUME NEW w \in Workers, DatabaseError(w) PROVE Quiet
  BY <1>8 DEF DatabaseError, Quiet
<1> QED
  BY <1>1, <1>2, <1>3, <1>4, <1>5, <1>6, <1>7, <1>8 DEF Next

(* With one worker a terminal status is the last word on a job: no later step
   of any actor changes its row or adds an answer. *)
THEOREM TerminalStaysFinal ==
  ASSUME OneWorker
  PROVE  Spec => TerminalIsFinal
<1> DEFINE Final == \A j \in Jobs : ai_jobs[j].status \in Terminal =>
                      ai_jobs'[j] = ai_jobs[j] /\ answers'[j] = answers[j]
<1>1. OneWorkerInv /\ [Next]_vars => Final
  <2> SUFFICES ASSUME OneWorkerInv, [Next]_vars, NEW j \in Jobs,
                      ai_jobs[j].status \in Terminal
               PROVE  ai_jobs'[j] = ai_jobs[j] /\ answers'[j] = answers[j]
    OBVIOUS
  <2>1. CASE Quiet
    BY <2>1 DEF Quiet
  <2>2. ASSUME NEW i \in Jobs, Advances(i)
        PROVE  ai_jobs'[j] = ai_jobs[j] /\ answers'[j] = answers[j]
    <3>1. ai_jobs[i].status \notin Terminal
      BY <2>2, StatusSets DEF Advances
    <3> QED
      BY <2>2, <3>1 DEF Advances
  <2> QED
    BY <2>1, <2>2, NextShape
<1> QED
  BY <1>1, OneWorkerInvariant, PTL DEF Spec, TerminalIsFinal

-----------------------------------------------------------------------------
(* Refinement: with one worker, the table implements AiJobLifecycle.       *)

\* A quiet step is a stutter of AiJobLifecycle.
LEMMA QuietRefines ==
  ASSUME Quiet
  PROVE  UNCHANGED Lifecycle!vars
BY DEF Quiet, Lifecycle!vars

\* A step that advances a job is a lifecycle step or, for a reclaim, a stutter.
LEMMA AdvanceRefines ==
  ASSUME TypeOK, TypeOK', NEW j \in Jobs, Advances(j)
  PROVE  [Lifecycle!Next]_(Lifecycle!vars)
<1> DEFINE st  == [i \in Jobs |-> ai_jobs[i].status]
           nst == [i \in Jobs |-> ai_jobs'[i].status]
           an  == [i \in Jobs |-> Len(answers[i])]
           nan == [i \in Jobs |-> Len(answers'[i])]
<1>1. nst = [st EXCEPT ![j] = ai_jobs'[j].status] /\ st[j] = ai_jobs[j].status
  BY DEF Advances
<1>2. answers' = answers => nan = an
  OBVIOUS
<1>3. nan = [an EXCEPT ![j] = Len(answers'[j])] /\ an[j] = Len(answers[j])
  BY DEF Advances
<1>4. CASE /\ answers' = answers
           /\ ai_jobs[j].status = "running" /\ ai_jobs'[j].status = "running"
  <2>1. nst = st
    BY <1>1, <1>4
  <2> QED
    BY <1>2, <1>4, <2>1 DEF Lifecycle!vars
<1>5. CASE /\ answers' = answers
           /\ <<ai_jobs[j].status, ai_jobs'[j].status>> \in
                {<<"absent", "queued">>, <<"queued", "running">>,
                 <<"running", "queued">>, <<"running", "failed">>,
                 <<"queued", "cancelled">>, <<"running", "cancelled">>}
  <2>1. \/ Lifecycle!Submit(j) \/ Lifecycle!Start(j) \/ Lifecycle!Retry(j)
        \/ Lifecycle!Fail(j) \/ Lifecycle!Cancel(j)
    BY <1>1, <1>2, <1>5
    DEF Lifecycle!Submit, Lifecycle!Start, Lifecycle!Retry, Lifecycle!Fail, Lifecycle!Cancel,
        Lifecycle!Move, Lifecycle!Pending
  <2> QED
    BY <2>1 DEF Lifecycle!Next
<1>6. CASE /\ ai_jobs[j].status = "running" /\ ai_jobs'[j].status = "succeeded"
           /\ Len(answers'[j]) = Len(answers[j]) + 1
  <2>1. nan = [an EXCEPT ![j] = an[j] + 1]
    BY <1>3, <1>6
  <2>2. Lifecycle!Succeed(j)
    BY <1>1, <1>6, <2>1 DEF Lifecycle!Succeed, Lifecycle!Move
  <2> QED
    BY <2>2 DEF Lifecycle!Next
<1> QED
  BY <1>4, <1>5, <1>6 DEF Advances

(* Seen through the API, the table moves along the edges of AiJobLifecycle
   only: claims, leases, flushes and retries after a crash stutter. *)
THEOREM TableImplementsLifecycle ==
  ASSUME OneWorker
  PROVE  Spec => ImplementsLifecycle
<1>1. Init => Lifecycle!Init
  BY DEF Init, Absent, Lifecycle!Init
<1>2. OneWorkerInv /\ [Next]_vars => [Lifecycle!Next]_(Lifecycle!vars)
  <2> SUFFICES ASSUME OneWorkerInv, [Next]_vars
               PROVE  [Lifecycle!Next]_(Lifecycle!vars)
    OBVIOUS
  <2>1. TypeOK /\ TypeOK'
    BY NextTypeOK DEF OneWorkerInv
  <2> QED
    BY <2>1, NextShape, QuietRefines, AdvanceRefines
<1> QED
  BY <1>1, <1>2, OneWorkerInvariant, PTL DEF Spec, ImplementsLifecycle, Lifecycle!Spec

=============================================================================
