-------------------------- MODULE AiBotJobsProofs --------------------------
(***************************************************************************)
(* Proofs about AiBotJobs.  For any number of workers, jobs, attempts and  *)
(* faults: what the stable transaction id and the order "send, then mark"  *)
(* are there for.  With one worker, as in docker-compose.yml: that the     *)
(* event in the room is the result on the row, and that the table          *)
(* implements AiJobLifecycle.                                              *)
(***************************************************************************)
EXTENDS AiBotJobs, TLAPS

\* A worker that passed the send goes on only if the event is in the room.
SentIsPosted ==
  \A w \in Workers : worker[w].pc \in {"finish", "finish_commit"} => Texts(room, worker[w].job) # {}

\* Whoever sends an answer sends it under the id of its question.
TxnIsJobs == \A e \in room : e.txn = <<e.job>>

PostInv == TypeOK /\ TxnIsJobs /\ AtMostOneEvent /\ SucceededWasPosted /\ SentIsPosted

-----------------------------------------------------------------------------
(* The parts a step may touch: the room, the table, one process *)

RoomGrows ==
  /\ room' \subseteq Event
  /\ TxnIsJobs' /\ AtMostOneEvent'
  /\ \A j \in Jobs : Texts(room, j) # {} => Texts(room', j) # {}

TableIsSound ==
  /\ ai_bot_jobs' \in [Jobs -> Row]
  /\ \A j \in Jobs : ai_bot_jobs'[j].status = "succeeded" => Texts(room', j) # {}

\* w goes on as p.
Becomes(w, p) ==
  /\ p \in Process
  /\ p.pc # "idle" => p.job \in Jobs
  /\ p.pc \in {"finish", "finish_commit"} => Texts(room', p.job) # {}
  /\ SetProcess(w, p)

\* The steps below establish the parts one by one.
LEMMA PartsKeepInv ==
  ASSUME PostInv, RoomGrows, TableIsSound,
         (\E w \in Workers : \E p : Becomes(w, p)) \/ worker' = worker,
         chat_waiting' \in BOOLEAN, faults' \in 0..MaxFaults
  PROVE  PostInv'
<1>1. TxnIsJobs' /\ AtMostOneEvent' /\ SucceededWasPosted'
  BY DEF RoomGrows, TableIsSound, AtMostOneEvent, SucceededWasPosted
<1>2. /\ worker' \in [Workers -> Process]
      /\ \A v \in Workers : worker'[v].pc # "idle" => worker'[v].job \in Jobs
      /\ SentIsPosted'
  <2>1. CASE worker' = worker
    BY <2>1 DEF PostInv, TypeOK, RoomGrows, SentIsPosted
  <2>2. ASSUME NEW w \in Workers, NEW p, Becomes(w, p)
        PROVE  /\ worker' \in [Workers -> Process]
               /\ \A v \in Workers : worker'[v].pc # "idle" => worker'[v].job \in Jobs
               /\ SentIsPosted'
    <3>1. /\ worker' \in [Workers -> Process]
          /\ worker'[w] = p
          /\ \A v \in Workers : v # w => worker'[v] = worker[v]
      BY <2>2 DEF Becomes, SetProcess, PostInv, TypeOK
    <3>2. \A v \in Workers : worker'[v].pc # "idle" => worker'[v].job \in Jobs
      BY <2>2, <3>1 DEF Becomes, PostInv, TypeOK
    <3>3. \A v \in Workers : v # w =>
            (worker'[v].pc \in {"finish", "finish_commit"} => Texts(room', worker'[v].job) # {})
      BY <3>1 DEF PostInv, TypeOK, SentIsPosted, RoomGrows
    <3>4. worker'[w].pc \in {"finish", "finish_commit"} => Texts(room', worker'[w].job) # {}
      BY <2>2, <3>1 DEF Becomes
    <3> QED
      BY <3>1, <3>2, <3>3, <3>4 DEF SentIsPosted
  <2> QED
    BY <2>1, <2>2
<1>3. TypeOK'
  BY <1>2 DEF TypeOK, RoomGrows, TableIsSound
<1> QED
  BY <1>1, <1>2, <1>3 DEF PostInv

\* A room that is left alone.
LEMMA RoomStays ==
  ASSUME PostInv, room' = room
  PROVE  RoomGrows
BY DEF PostInv, TypeOK, TxnIsJobs, AtMostOneEvent, RoomGrows

\* The answers to a question grow with the events.
LEMMA TextsGrow ==
  ASSUME NEW few, NEW many, few \subseteq many, NEW j
  PROVE  Texts(few, j) \subseteq Texts(many, j)
BY DEF Texts

\* An event is among the answers to its question, and to no other.
LEMMA TextOf ==
  ASSUME NEW events, NEW e, NEW j
  PROVE  /\ e \in events /\ e.job = j => e.text \in Texts(events, j)
         /\ e.job = j => Texts(events \cup {e}, j) = Texts(events, j) \cup {e.text}
         /\ e.job # j => Texts(events \cup {e}, j) = Texts(events, j)
BY DEF Texts

\* What a send of w offers to the homeserver.
LEMMA AnswerOf ==
  ASSUME NEW w \in Workers, worker[w].job \in Jobs, worker[w].result \in Nat
  PROVE  /\ Answer(w) \in Event /\ Answer(w).txn = <<worker[w].job>>
         /\ Answer(w).job = worker[w].job /\ Answer(w).text = worker[w].result
<1>1. <<worker[w].job>> \in Seq(Nat)
  BY DEF Jobs
<1> QED
  BY <1>1 DEF Answer, Txn, Event

\* A send that arrives: the room has an answer to the question of w, and if it
\* is a new one it is the first, because an earlier one has the same id.
LEMMA DeliverGrows ==
  ASSUME PostInv, NEW w \in Workers, worker[w].job \in Jobs, worker[w].result \in Nat,
         Deliver(Answer(w))
  PROVE  RoomGrows /\ Texts(room', worker[w].job) # {}
<1> DEFINE a == Answer(w)
           j == worker[w].job
<1>1. a \in Event /\ a.txn = <<j>> /\ a.job = j
  BY AnswerOf
<1>2. room \subseteq Event /\ TxnIsJobs /\ AtMostOneEvent
  BY DEF PostInv, TypeOK
<1>3. CASE \E e \in room : e.txn = a.txn
  <2>1. PICK e \in room : e.txn = a.txn
    BY <1>3
  <2>2. e.job = j
    BY <1>1, <1>2, <2>1 DEF TxnIsJobs
  <2>3. room' = room
    BY <1>3 DEF Deliver
  <2> QED
    BY <2>2, <2>3, RoomStays, TextOf
<1>4. CASE \A e \in room : e.txn # a.txn
  <2>1. room' = room \cup {a}
    BY <1>4 DEF Deliver
  <2>2. \A e \in room : e.job # j
    BY <1>1, <1>2, <1>4 DEF TxnIsJobs
  <2> HIDE DEF a
  <2>3. TxnIsJobs'
    BY <1>1, <1>2, <2>1 DEF TxnIsJobs
  <2>4. AtMostOneEvent'
    BY <1>1, <1>2, <2>1, <2>2 DEF AtMostOneEvent
  <2>5. \A i \in Jobs : Texts(room, i) \subseteq Texts(room', i)
    BY <2>1, TextsGrow
  <2>6. a.text \in Texts(room', j)
    BY <1>1, <2>1, TextOf
  <2> QED
    BY <1>1, <1>2, <2>1, <2>3, <2>4, <2>5, <2>6 DEF RoomGrows
<1> QED
  BY <1>3, <1>4

\* A table that is left alone.
LEMMA TableStays ==
  ASSUME PostInv, RoomGrows, ai_bot_jobs' = ai_bot_jobs
  PROVE  TableIsSound
BY DEF PostInv, TypeOK, SucceededWasPosted, RoomGrows, TableIsSound

\* One row changes: it may be "succeeded" only if its event is in the room.
LEMMA RowChanges ==
  ASSUME PostInv, RoomGrows, NEW j \in Jobs, NEW row \in Row, SetRow(j, row),
         row.status = "succeeded" => Texts(room', j) # {}
  PROVE  TableIsSound
<1>1. /\ ai_bot_jobs' \in [Jobs -> Row]
      /\ ai_bot_jobs'[j] = row
      /\ \A i \in Jobs : i # j => ai_bot_jobs'[i] = ai_bot_jobs[i]
  BY DEF SetRow, PostInv, TypeOK
<1>2. \A i \in Jobs : ai_bot_jobs[i].status = "succeeded" => Texts(room', i) # {}
  BY DEF PostInv, SucceededWasPosted, RoomGrows
<1> QED
  BY <1>1, <1>2 DEF TableIsSound

LEMMA StatusSets ==
  Statuses = {"absent", "queued", "running", "succeeded", "failed"}
BY DEF Statuses, Pending, Terminal

LEMMA IdleProcess == Idle \in Process /\ Idle.pc = "idle"
BY DEF Idle, Process, Errors

\* A process inside process_bot_one has a job, and its row is a row.
LEMMA Busy ==
  ASSUME PostInv, NEW w \in Workers, worker[w].pc # "idle"
  PROVE  worker[w] \in Process /\ worker[w].job \in Jobs /\ MyRow(w) \in Row
BY DEF PostInv, TypeOK, MyRow

\* A process that returns.
LEMMA Returns ==
  ASSUME NEW w \in Workers, SetProcess(w, Idle)
  PROVE  \E p : Becomes(w, p)
<1>1. Becomes(w, Idle)
  BY IdleProcess DEF Becomes
<1> QED
  BY <1>1

\* A process that goes on with its locals.
LEMMA GotoEffect ==
  ASSUME PostInv, NEW w \in Workers, worker[w].pc # "idle",
         NEW pc \in ReadPc \cup CommitPc, Goto(w, pc),
         pc \in {"finish", "finish_commit"} => Texts(room', worker[w].job) # {}
  PROVE  \E p : Becomes(w, p)
<1> DEFINE q == [worker[w] EXCEPT !.pc = pc]
<1>1. worker[w] \in Process /\ worker[w].job \in Jobs
  BY Busy
<1>2. q \in Process /\ q.pc = pc /\ q.job = worker[w].job
  BY <1>1 DEF Process
<1>3. SetProcess(w, q)
  BY DEF Goto
<1> HIDE DEF q
<1>4. Becomes(w, q)
  BY <1>1, <1>2, <1>3 DEF Becomes
<1> QED
  BY <1>4

\* A process that goes on to _fail_bot_job.
LEMMA RaiseEffect ==
  ASSUME PostInv, NEW w \in Workers, worker[w].pc # "idle", NEW error \in Errors, Raise(w, error)
  PROVE  \E p : Becomes(w, p)
<1> DEFINE t == worker[w]
<1>1. t \in Process /\ t.job \in Jobs
  BY Busy
<1>2. SetProcess(w, [t EXCEPT !.pc = "fail", !.error = error])
  BY DEF Raise
<1> HIDE DEF t
<1> DEFINE q == [t EXCEPT !.pc = "fail", !.error = error]
<1>3. q \in Process /\ q.pc = "fail" /\ q.job = t.job
  BY <1>1 DEF Process, ReadPc
<1> HIDE DEF q
<1>4. Becomes(w, q)
  BY <1>1, <1>2, <1>3 DEF Becomes, q
<1> QED
  BY <1>4

-----------------------------------------------------------------------------
(* The worker *)

\* The end of an attempt sets the status.
LEMMA ReleasedRow ==
  ASSUME NEW row \in Row, NEW s \in Statuses
  PROVE  Released(row, s) \in Row /\ Released(row, s).status = s
BY DEF Released, Row

\* Steps that read the row or talk to the gateway.
LEMMA LoadKeepsInv ==
  ASSUME PostInv, NEW w \in Workers, Load(w)
  PROVE  PostInv'
<1>1. /\ worker[w].pc = "load" /\ worker[w].pc # "idle"
      /\ UNCHANGED <<ai_bot_jobs, room, chat_waiting, faults>>
  BY DEF Load
<1>2. RoomGrows /\ TableIsSound
  BY <1>1, RoomStays, TableStays
<1> DEFINE t == worker[w]
           n == MyRow(w).result_text
           pc == IF n = 0 THEN "chat" ELSE "send"
           q == [t EXCEPT !.pc = pc, !.result = n]
<1>3. t \in Process /\ t.job \in Jobs /\ n \in Nat
  BY <1>1, Busy DEF Row
<1>4. SetProcess(w, IF ~Mine(w) THEN Idle ELSE q)
  BY DEF Load
<1>5. pc \in {"chat", "send"}
  OBVIOUS
<1> HIDE DEF t, n, pc
<1>6. q \in Process /\ q.pc \in {"chat", "send"} /\ q.job = t.job
  BY <1>3, <1>5 DEF Process, ReadPc
<1> HIDE DEF q
<1>7. SetProcess(w, q) => Becomes(w, q)
  BY <1>3, <1>6 DEF Becomes
<1>8. \E p : Becomes(w, p)
  BY <1>4, <1>7, Returns
<1> QED
  BY <1>1, <1>2, <1>8, PartsKeepInv DEF PostInv, TypeOK

LEMMA ChatKeepsInv ==
  ASSUME PostInv, NEW w \in Workers, Chat(w)
  PROVE  PostInv'
<1>1. /\ worker[w].pc = "chat" /\ worker[w].pc # "idle"
      /\ UNCHANGED <<ai_bot_jobs, room, chat_waiting, faults>>
  BY DEF Chat
<1>2. RoomGrows /\ TableIsSound
  BY <1>1, RoomStays, TableStays
<1>3. ASSUME NEW text \in {0, worker[w].attempt},
             SetProcess(w, [worker[w] EXCEPT !.pc = "store", !.result = text])
      PROVE  \E p : Becomes(w, p)
  <2> DEFINE t == worker[w]
             q == [t EXCEPT !.pc = "store", !.result = text]
  <2>1. t \in Process /\ t.job \in Jobs /\ text \in Nat
    BY <1>1, Busy DEF Process
  <2>2. SetProcess(w, q)
    BY <1>3
  <2> HIDE DEF t
  <2>3. q \in Process /\ q.pc = "store" /\ q.job = t.job
    BY <2>1 DEF Process, ReadPc
  <2> HIDE DEF q
  <2>4. Becomes(w, q)
    BY <2>1, <2>2, <2>3 DEF Becomes
  <2> QED
    BY <2>4
<1>4. ASSUME NEW error \in {"gateway", "model"}, Raise(w, error)
      PROVE  \E p : Becomes(w, p)
  BY <1>1, <1>4, RaiseEffect DEF Errors
<1>5. \E p : Becomes(w, p)
  BY <1>3, <1>4 DEF Chat
<1> QED
  BY <1>1, <1>2, <1>5, PartsKeepInv DEF PostInv, TypeOK

LEMMA ReadsKeepInv ==
  ASSUME PostInv, NEW w \in Workers, StoreRead(w) \/ FinishRead(w) \/ FailRead(w)
  PROVE  PostInv'
<1>1. /\ worker[w].pc # "idle"
      /\ UNCHANGED <<ai_bot_jobs, room, chat_waiting, faults>>
  BY DEF StoreRead, FinishRead, FailRead
<1>2. RoomGrows /\ TableIsSound
  BY <1>1, RoomStays, TableStays
<1>3. worker[w].pc = "finish" => Texts(room', worker[w].job) # {}
  BY <1>1 DEF PostInv, SentIsPosted
<1>4. CASE SetProcess(w, Idle)
  BY <1>1, <1>2, <1>4, Returns, PartsKeepInv DEF PostInv, TypeOK
<1>5. CASE \/ Goto(w, "store_commit") \/ Goto(w, "fail_commit")
           \/ Goto(w, "finish_commit") /\ worker[w].pc = "finish"
  <2>1. \E p : Becomes(w, p)
    BY <1>1, <1>3, <1>5, GotoEffect DEF CommitPc
  <2> QED
    BY <1>1, <1>2, <2>1, PartsKeepInv DEF PostInv, TypeOK
<1> QED
  BY <1>4, <1>5 DEF StoreRead, FinishRead, FailRead

\* The answer is stored before it is sent.
LEMMA StoreCommitKeepsInv ==
  ASSUME PostInv, NEW w \in Workers, StoreCommit(w)
  PROVE  PostInv'
<1>1. /\ worker[w].pc # "idle"
      /\ UNCHANGED <<room, chat_waiting, faults>>
      /\ Goto(w, "send")
  BY DEF StoreCommit
<1> DEFINE row == MyRow(w)
           n == worker[w].result
<1>2. row \in Row /\ n \in Nat /\ worker[w].job \in Jobs
  BY <1>1, Busy DEF Process
<1>3. SetRow(worker[w].job, [row EXCEPT !.result_text = n])
  BY DEF StoreCommit
<1>4. row.status = "succeeded" => Texts(room', worker[w].job) # {}
  BY <1>1, <1>2 DEF PostInv, SucceededWasPosted, MyRow
<1>5. RoomGrows
  BY <1>1, RoomStays
<1> HIDE DEF row, n
<1> DEFINE r == [row EXCEPT !.result_text = n]
<1>6. r \in Row /\ r.status = row.status
  BY <1>2 DEF Row
<1> HIDE DEF r
<1>7. TableIsSound
  BY <1>2, <1>3, <1>4, <1>5, <1>6, RowChanges DEF r
<1>8. \E p : Becomes(w, p)
  BY <1>1, GotoEffect DEF ReadPc
<1> QED
  BY <1>1, <1>5, <1>7, <1>8, PartsKeepInv DEF PostInv, TypeOK

\* The only way to "finish" is an answer of the homeserver.
LEMMA SendKeepsInv ==
  ASSUME PostInv, NEW w \in Workers, Send(w) \/ SendHangs(w)
  PROVE  PostInv'
<1>1. /\ worker[w].pc # "idle"
      /\ UNCHANGED <<ai_bot_jobs, chat_waiting>>
      /\ faults' \in 0..MaxFaults
  BY BoundsAssumption DEF Send, SendHangs, Fault, PostInv, TypeOK
<1> DEFINE D == Deliver(Answer(w))
<1>2. worker[w].job \in Jobs /\ worker[w].result \in Nat
  BY <1>1, Busy DEF Process
<1>3. D => RoomGrows /\ Texts(room', worker[w].job) # {}
  BY <1>2, DeliverGrows
<1>4. room' = room => RoomGrows
  BY RoomStays
<1>5. /\ D \/ room' = room
      /\ \/ D /\ Goto(w, "finish")
         \/ \E error \in {"matrix", "connection"} : Raise(w, error)
         \/ Goto(w, "hung")
  BY DEF Send, SendHangs
<1> HIDE DEF D
<1>6. RoomGrows
  BY <1>3, <1>4, <1>5
<1>7. TableIsSound
  BY <1>1, <1>6, TableStays
<1>8. \E p : Becomes(w, p)
  <2>1. CASE D /\ Goto(w, "finish")
    BY <1>1, <1>3, <2>1, GotoEffect DEF ReadPc
  <2>2. CASE \E error \in {"matrix", "connection"} : Raise(w, error)
    BY <1>1, <2>2, RaiseEffect DEF Errors
  <2>3. CASE Goto(w, "hung")
    BY <1>1, <2>3, GotoEffect DEF ReadPc
  <2> QED
    BY <1>5, <2>1, <2>2, <2>3
<1> QED
  BY <1>1, <1>6, <1>7, <1>8, PartsKeepInv DEF PostInv, TypeOK

LEMMA FinishCommitKeepsInv ==
  ASSUME PostInv, NEW w \in Workers, FinishCommit(w)
  PROVE  PostInv'
<1>1. /\ worker[w].pc = "finish_commit" /\ worker[w].pc # "idle"
      /\ UNCHANGED <<room, chat_waiting, faults>>
      /\ SetProcess(w, Idle)
      /\ SetRow(worker[w].job, [Released(MyRow(w), "succeeded") EXCEPT !.error = "none"])
  BY DEF FinishCommit
<1> DEFINE row == Released(MyRow(w), "succeeded")
           r == [row EXCEPT !.error = "none"]
<1>2. row \in Row /\ worker[w].job \in Jobs
  BY <1>1, Busy, ReleasedRow, StatusSets
<1>3. Texts(room', worker[w].job) # {}
  BY <1>1 DEF PostInv, SentIsPosted
<1>4. RoomGrows
  BY <1>1, RoomStays
<1>5. SetRow(worker[w].job, r)
  BY <1>1
<1> HIDE DEF row
<1>6. r \in Row
  BY <1>2 DEF Row, Errors
<1> HIDE DEF r
<1>7. TableIsSound
  BY <1>2, <1>3, <1>4, <1>5, <1>6, RowChanges
<1> QED
  BY <1>1, <1>4, <1>7, Returns, PartsKeepInv DEF PostInv, TypeOK

LEMMA FailCommitKeepsInv ==
  ASSUME PostInv, NEW w \in Workers, FailCommit(w)
  PROVE  PostInv'
<1>1. /\ worker[w].pc # "idle"
      /\ UNCHANGED <<room, chat_waiting, faults>>
      /\ SetProcess(w, Idle)
  BY DEF FailCommit
<1> DEFINE row == Released(MyRow(w), Verdict(w))
           b == IF Verdict(w) = "queued" THEN FALSE ELSE row.due
           e == worker[w].error
           r == [row EXCEPT !.due = b, !.error = e]
<1>2. Verdict(w) \in Statuses /\ Verdict(w) # "succeeded"
  BY StatusSets DEF Verdict
<1>3. row \in Row /\ row.status # "succeeded" /\ worker[w].job \in Jobs
  BY <1>1, <1>2, Busy, ReleasedRow
<1>4. b \in BOOLEAN /\ e \in Errors
  BY <1>1, <1>3, Busy DEF Row, Process
<1>5. SetRow(worker[w].job, r)
  BY DEF FailCommit
<1>6. RoomGrows
  BY <1>1, RoomStays
<1> HIDE DEF row, b, e
<1>7. r \in Row /\ r.status = row.status
  BY <1>3, <1>4 DEF Row
<1> HIDE DEF r
<1>8. TableIsSound
  BY <1>3, <1>5, <1>6, <1>7, RowChanges
<1> QED
  BY <1>1, <1>6, <1>8, Returns, PartsKeepInv DEF PostInv, TypeOK

LEMMA ClaimKeepsInv ==
  ASSUME PostInv, NEW w \in Workers, Claim(w)
  PROVE  PostInv'
<1>1. UNCHANGED <<room, chat_waiting, faults>>
  BY DEF Claim
<1>2. PICK j \in Jobs :
        /\ SetRow(j, [ai_bot_jobs[j] EXCEPT !.status = "running",
                                            !.attempts = ai_bot_jobs[j].attempts + 1,
                                            !.locked_by = w, !.lease = "live"])
        /\ SetProcess(w, [Idle EXCEPT !.pc = "load", !.job = j,
                                      !.attempt = ai_bot_jobs[j].attempts + 1])
  BY DEF Claim
<1> DEFINE row == ai_bot_jobs[j]
           n == ai_bot_jobs[j].attempts + 1
           r == [row EXCEPT !.status = "running", !.attempts = n, !.locked_by = w, !.lease = "live"]
           idle == Idle
           q == [idle EXCEPT !.pc = "load", !.job = j, !.attempt = n]
<1>3. row \in Row /\ n \in Nat /\ idle \in Process
  BY IdleProcess DEF PostInv, TypeOK, Row
<1>4. SetRow(j, r) /\ SetProcess(w, q)
  BY <1>2
<1>5. RoomGrows
  BY <1>1, RoomStays
<1> HIDE DEF row, n, idle
<1>6. r \in Row /\ r.status = "running"
  BY <1>3, StatusSets DEF Row
<1>7. q \in Process /\ q.pc = "load" /\ q.job = j
  BY <1>3 DEF Process, ReadPc
<1> HIDE DEF r, q
<1>8. TableIsSound
  BY <1>4, <1>5, <1>6, RowChanges
<1>9. Becomes(w, q)
  BY <1>4, <1>7 DEF Becomes
<1> QED
  BY <1>1, <1>5, <1>8, <1>9, PartsKeepInv DEF PostInv, TypeOK

-----------------------------------------------------------------------------
(* Everything else *)

LEMMA FaultsKeepInv ==
  ASSUME PostInv, NEW w \in Workers, Crash(w) \/ DatabaseError(w)
  PROVE  PostInv'
<1>1. room' = room /\ chat_waiting' = chat_waiting /\ faults' \in 0..MaxFaults
  BY BoundsAssumption DEF Crash, DatabaseError, Fault, PostInv, TypeOK
<1>2. RoomGrows
  BY <1>1, RoomStays
<1>3. CASE Crash(w)
  <2> DEFINE Lost(row) == [row EXCEPT !.locked_by = Gone]
  <2>1. \A row \in Row : Lost(row) \in Row /\ Lost(row).status = row.status
    BY DEF Row
  <2>2. ai_bot_jobs' = [j \in Jobs |-> IF ai_bot_jobs[j].locked_by = w
                                       THEN Lost(ai_bot_jobs[j]) ELSE ai_bot_jobs[j]]
    BY <1>3 DEF Crash
  <2> HIDE DEF Lost
  <2>3. TableIsSound
    BY <1>1, <2>1, <2>2 DEF TableIsSound, PostInv, TypeOK, SucceededWasPosted
  <2> QED
    BY <1>1, <1>2, <1>3, <2>3, Returns, PartsKeepInv DEF PostInv, TypeOK, Crash
<1>4. CASE DatabaseError(w)
  <2>1. worker[w].pc # "idle" /\ ai_bot_jobs' = ai_bot_jobs
    BY <1>4 DEF DatabaseError
  <2>2. \E p : Becomes(w, p)
    BY <1>4, <2>1, Returns, RaiseEffect DEF DatabaseError, Errors
  <2> QED
    BY <1>1, <1>2, <2>1, <2>2, TableStays, PartsKeepInv DEF PostInv, TypeOK
<1> QED
  BY <1>3, <1>4

LEMMA RowStepsKeepInv ==
  ASSUME PostInv, NEW j \in Jobs, Enqueue(j) \/ BackoffElapses(j) \/ LeaseExpires(j)
  PROVE  PostInv'
<1>1. /\ room' = room /\ worker' = worker /\ chat_waiting' = chat_waiting
      /\ faults' \in 0..MaxFaults
  BY BoundsAssumption DEF Enqueue, BackoffElapses, LeaseExpires, PostInv, TypeOK
<1>2. RoomGrows
  BY <1>1, RoomStays
<1> DEFINE row == ai_bot_jobs[j]
<1>3. row \in Row /\ (row.status = "succeeded" => Texts(room', j) # {})
  BY <1>1 DEF PostInv, TypeOK, SucceededWasPosted
<1>4. \/ SetRow(j, [row EXCEPT !.status = "queued", !.due = TRUE])
      \/ SetRow(j, [row EXCEPT !.due = TRUE])
      \/ SetRow(j, [row EXCEPT !.lease = "expired"])
  BY DEF Enqueue, BackoffElapses, LeaseExpires
<1> HIDE DEF row
<1>5. /\ [row EXCEPT !.status = "queued", !.due = TRUE] \in Row
      /\ [row EXCEPT !.status = "queued", !.due = TRUE].status = "queued"
      /\ [row EXCEPT !.due = TRUE] \in Row
      /\ [row EXCEPT !.due = TRUE].status = row.status
      /\ [row EXCEPT !.lease = "expired"] \in Row
      /\ [row EXCEPT !.lease = "expired"].status = row.status
  BY <1>3, StatusSets DEF Row
<1>6. PICK r \in Row : SetRow(j, r) /\ (r.status = "queued" \/ r.status = row.status)
  BY <1>4, <1>5
<1>7. TableIsSound
  BY <1>2, <1>3, <1>6, RowChanges
<1> QED
  BY <1>1, <1>2, <1>7, PartsKeepInv DEF PostInv, TypeOK

LEMMA ChatQueueKeepsInv ==
  ASSUME PostInv, ChatArrives \/ \E w \in Workers : ServeChat(w)
  PROVE  PostInv'
<1>1. UNCHANGED <<ai_bot_jobs, room, worker, faults>> /\ chat_waiting' \in BOOLEAN
  BY DEF ChatArrives, ServeChat
<1> QED
  BY <1>1, RoomStays, TableStays, PartsKeepInv DEF PostInv, TypeOK

LEMMA NextKeepsInv == PostInv /\ Next => PostInv'
<1> SUFFICES ASSUME PostInv, Next PROVE PostInv'
  OBVIOUS
<1>1. ASSUME NEW w \in Workers, WorkerStep(w) PROVE PostInv'
  BY <1>1, LoadKeepsInv, ChatKeepsInv, ReadsKeepInv, StoreCommitKeepsInv, SendKeepsInv,
     FinishCommitKeepsInv, FailCommitKeepsInv DEF WorkerStep
<1> QED
  BY <1>1, ChatQueueKeepsInv, RowStepsKeepInv, ClaimKeepsInv, SendKeepsInv, FaultsKeepInv DEF Next

LEMMA StutteringKeepsInv == PostInv /\ UNCHANGED vars => PostInv'
BY DEF vars, PostInv, TypeOK, TxnIsJobs, AtMostOneEvent, SucceededWasPosted, SentIsPosted

LEMMA InitEstablishes == Init => PostInv
<1> SUFFICES ASSUME Init PROVE PostInv
  OBVIOUS
<1>1. Absent \in Row /\ Absent.status = "absent"
  BY StatusSets DEF Absent, Row, Errors
<1>2. TypeOK
  <2>1. 0 \in 0..MaxFaults
    BY BoundsAssumption
  <2> QED
    BY <1>1, <2>1, IdleProcess DEF Init, TypeOK
<1>3. TxnIsJobs /\ AtMostOneEvent /\ SucceededWasPosted
  BY <1>1 DEF Init, TxnIsJobs, AtMostOneEvent, SucceededWasPosted
<1>4. SentIsPosted
  BY IdleProcess DEF Init, SentIsPosted
<1> QED
  BY <1>2, <1>3, <1>4 DEF PostInv

LEMMA Invariant == Spec => []PostInv
BY InitEstablishes, NextKeepsInv, StutteringKeepsInv, PTL DEF Spec

(* The rows of bot jobs, the rooms and the workers keep their types, in
   particular a worker past the claim always has a job (process_bot_one). *)
THEOREM BotTypes == Spec => []TypeOK
<1>1. PostInv => TypeOK
  BY DEF PostInv
<1> QED
  BY <1>1, Invariant, PTL

(* Whatever attempts of whatever workers send, and whichever answers are lost,
   a question has one event: the id an attempt sends under is the same for
   every attempt and every worker (process_bot_one, MatrixClient.send_message). *)
THEOREM OneEventPerQuestion == Spec => []AtMostOneEvent
<1>1. PostInv => AtMostOneEvent
  BY DEF PostInv
<1> QED
  BY <1>1, Invariant, PTL

(* A bot job is "succeeded" only if an answer to its question, and not only to
   another one whose id it shares, is in the room, even if another
   worker has taken the job over meanwhile (_finish_bot_job follows the send). *)
THEOREM SuccessIsPosted == Spec => []SucceededWasPosted
<1>1. PostInv => SucceededWasPosted
  BY DEF PostInv
<1> QED
  BY <1>1, Invariant, PTL

-----------------------------------------------------------------------------
(* One worker at a time, as in docker-compose.yml.  A commit must be known *)
(* to write to a row its worker still holds, and a send to carry the text  *)
(* that is stored: Tracks says so for every pc, and Orderly what the row   *)
(* then makes of it.                                                       *)

OneWorker == \A v, w \in Workers : v = w

\* A row and the texts of its events.
Orderly(row, texts) ==
  /\ (row.locked_by # NoWorker) <=> (row.status = "running")
  /\ (row.lease # "null") <=> (row.status = "running")
  /\ texts \subseteq {0, row.result_text}

\* The locals p of process w inside process_bot_one, and the row of its job.
Tracks(w, p, row) ==
  /\ row.status = "running" /\ row.locked_by = w
  /\ p.attempt = row.attempts
  /\ p.pc \in {"chat", "store", "store_commit"} => row.result_text = 0
  /\ p.pc \in {"send", "hung"} => p.result = row.result_text

OneWorkerInv ==
  /\ PostInv
  /\ \A j \in Jobs : Orderly(ai_bot_jobs[j], Texts(room, j))
  /\ \A w \in Workers : worker[w].pc # "idle" => Tracks(w, worker[w], MyRow(w))

\* The edges of AiJobLifecycle a bot job goes along; reclaims and writes keep the status.
Edge(from, to) ==
  \/ from = to /\ from \in Pending
  \/ <<from, to>> \in {<<"absent", "queued">>, <<"queued", "running">>, <<"running", "queued">>,
                       <<"running", "failed">>, <<"running", "succeeded">>}

\* w goes on as p and writes row j, along an edge; only the answers to j may change.
Moves(w, j, p, row) ==
  /\ SetProcess(w, p) /\ SetRow(j, row)
  /\ p.pc # "idle" => p.job = j /\ Tracks(w, p, row)
  /\ Orderly(row, Texts(room', j))
  /\ \A i \in Jobs : i # j => Texts(room', i) = Texts(room, i)
  /\ Edge(ai_bot_jobs[j].status, row.status)

SomeMove(w) == \E j \in Jobs, p \in Process, row \in Row : Moves(w, j, p, row)

\* What is known of a process inside process_bot_one.
LEMMA BusyTracks ==
  ASSUME OneWorkerInv, NEW w \in Workers, worker[w].pc # "idle"
  PROVE  /\ worker[w] \in Process /\ worker[w].job \in Jobs /\ MyRow(w) \in Row
         /\ MyRow(w) = ai_bot_jobs[worker[w].job]
         /\ Tracks(w, worker[w], MyRow(w)) /\ Orderly(MyRow(w), Texts(room, worker[w].job))
         /\ Mine(w) /\ MyRow(w).status \in Pending
<1>1. worker[w] \in Process /\ worker[w].job \in Jobs /\ MyRow(w) \in Row
  BY Busy DEF OneWorkerInv
<1>2. Tracks(w, worker[w], MyRow(w)) /\ Orderly(MyRow(w), Texts(room, worker[w].job))
  BY <1>1 DEF OneWorkerInv, MyRow
<1> QED
  BY <1>1, <1>2 DEF MyRow, Mine, Tracks, Pending

\* A process that goes on, with its row and the rooms as they are.
LEMMA StaysMoves ==
  ASSUME OneWorkerInv, NEW w \in Workers, worker[w].pc # "idle",
         UNCHANGED <<ai_bot_jobs, room>>, NEW p \in Process, SetProcess(w, p),
         p.pc # "idle" => p.job = worker[w].job /\ Tracks(w, p, MyRow(w))
  PROVE  SomeMove(w)
<1> DEFINE row == MyRow(w)
<1>1. PICK j \in Jobs : j = worker[w].job
  BY BusyTracks
<1>2. row \in Row /\ row = ai_bot_jobs[j] /\ Orderly(row, Texts(room, j)) /\ row.status \in Pending
  BY <1>1, BusyTracks
<1>3. SetRow(j, row)
  BY <1>2 DEF SetRow, OneWorkerInv, PostInv, TypeOK
<1>4. Edge(ai_bot_jobs[j].status, row.status)
  BY <1>2 DEF Edge
<1>5. p.pc # "idle" => p.job = j /\ Tracks(w, p, row)
  BY <1>1
<1> HIDE DEF row
<1>6. Moves(w, j, p, row)
  BY <1>2, <1>3, <1>4, <1>5 DEF Moves
<1> QED
  BY <1>2, <1>6 DEF SomeMove

\* Goto and Raise change what they name.
LEMMA GotoProcess ==
  ASSUME PostInv, NEW w \in Workers, worker[w].pc # "idle",
         NEW pc \in ReadPc \cup CommitPc, Goto(w, pc)
  PROVE  \E p \in Process : /\ SetProcess(w, p) /\ p.pc = pc
                            /\ p.job = worker[w].job /\ p.attempt = worker[w].attempt
                            /\ p.result = worker[w].result
<1> DEFINE t == worker[w]
           p == [t EXCEPT !.pc = pc]
<1>1. t \in Process
  BY Busy
<1>2. SetProcess(w, p)
  BY DEF Goto
<1> HIDE DEF t
<1>3. p \in Process /\ p.pc = pc /\ p.job = t.job /\ p.attempt = t.attempt /\ p.result = t.result
  BY <1>1 DEF Process
<1> QED
  BY <1>2, <1>3 DEF t

LEMMA RaiseProcess ==
  ASSUME PostInv, NEW w \in Workers, worker[w].pc # "idle", NEW error \in Errors, Raise(w, error)
  PROVE  \E p \in Process : /\ SetProcess(w, p) /\ p.pc = "fail"
                            /\ p.job = worker[w].job /\ p.attempt = worker[w].attempt
<1> DEFINE t == worker[w]
           p == [t EXCEPT !.pc = "fail", !.error = error]
<1>1. t \in Process
  BY Busy
<1>2. SetProcess(w, p)
  BY DEF Raise
<1> HIDE DEF t
<1>3. p \in Process /\ p.pc = "fail" /\ p.job = t.job /\ p.attempt = t.attempt
  BY <1>1 DEF Process, ReadPc
<1> QED
  BY <1>2, <1>3 DEF t

LEMMA LoadMoves ==
  ASSUME OneWorkerInv, NEW w \in Workers, Load(w)
  PROVE  SomeMove(w)
<1>1. worker[w].pc = "load" /\ worker[w].pc # "idle" /\ UNCHANGED <<ai_bot_jobs, room>>
  BY DEF Load
<1> DEFINE t == worker[w]
           n == MyRow(w).result_text
           pc == IF n = 0 THEN "chat" ELSE "send"
           p == [t EXCEPT !.pc = pc, !.result = n]
<1>2. t \in Process /\ t.job \in Jobs /\ n \in Nat /\ Tracks(w, t, MyRow(w))
  BY <1>1, BusyTracks DEF Row
<1>3. SetProcess(w, p)
  BY <1>1, BusyTracks DEF Load
<1>4. pc \in {"chat", "send"} /\ (pc = "chat" => n = 0)
  OBVIOUS
<1>5. n = MyRow(w).result_text /\ t.job = worker[w].job
  OBVIOUS
<1> HIDE DEF t, n, pc
<1>6. p \in Process /\ p.pc = pc /\ p.job = t.job /\ p.attempt = t.attempt /\ p.result = n
  BY <1>2, <1>4 DEF Process, ReadPc
<1> HIDE DEF p
<1>7. Tracks(w, p, MyRow(w))
  BY <1>2, <1>4, <1>5, <1>6 DEF Tracks
<1> QED
  BY <1>1, <1>3, <1>5, <1>6, <1>7, StaysMoves

LEMMA ChatMoves ==
  ASSUME OneWorkerInv, NEW w \in Workers, Chat(w)
  PROVE  SomeMove(w)
<1>1. /\ worker[w].pc = "chat" /\ worker[w].pc # "idle" /\ UNCHANGED <<ai_bot_jobs, room>>
      /\ PostInv
  BY DEF Chat, OneWorkerInv
<1>2. Tracks(w, worker[w], MyRow(w)) /\ MyRow(w).result_text = 0
  BY <1>1, BusyTracks DEF Tracks
<1>3. ASSUME NEW text \in {0, worker[w].attempt},
             SetProcess(w, [worker[w] EXCEPT !.pc = "store", !.result = text])
      PROVE  SomeMove(w)
  <2> DEFINE t == worker[w]
             p == [t EXCEPT !.pc = "store", !.result = text]
  <2>1. t \in Process /\ text \in Nat
    BY <1>1, Busy DEF Process
  <2>2. SetProcess(w, p)
    BY <1>3
  <2> HIDE DEF t
  <2>3. p \in Process /\ p.pc = "store" /\ p.job = t.job /\ p.attempt = t.attempt
    BY <2>1 DEF Process, ReadPc
  <2> HIDE DEF p
  <2>4. p.job = worker[w].job /\ Tracks(w, p, MyRow(w))
    BY <1>2, <2>3 DEF Tracks, t
  <2> QED
    BY <1>1, <2>2, <2>3, <2>4, StaysMoves
<1>4. ASSUME NEW error \in {"gateway", "model"}, Raise(w, error)
      PROVE  SomeMove(w)
  <2>1. PICK p \in Process : /\ SetProcess(w, p) /\ p.pc = "fail"
                             /\ p.job = worker[w].job /\ p.attempt = worker[w].attempt
    BY <1>1, <1>4, RaiseProcess DEF Errors
  <2>2. Tracks(w, p, MyRow(w))
    BY <1>2, <2>1 DEF Tracks
  <2> QED
    BY <1>1, <2>1, <2>2, StaysMoves
<1> QED
  BY <1>3, <1>4 DEF Chat

LEMMA ReadsMove ==
  ASSUME OneWorkerInv, NEW w \in Workers, StoreRead(w) \/ FinishRead(w) \/ FailRead(w)
  PROVE  SomeMove(w)
<1>1. /\ worker[w].pc # "idle" /\ UNCHANGED <<ai_bot_jobs, room>>
      /\ PostInv
  BY DEF StoreRead, FinishRead, FailRead, OneWorkerInv
<1>2. Tracks(w, worker[w], MyRow(w)) /\ Mine(w)
  BY <1>1, BusyTracks
<1>3. PICK pc \in CommitPc : Goto(w, pc) /\ (pc = "store_commit" => worker[w].pc = "store")
  BY <1>2 DEF StoreRead, FinishRead, FailRead, CommitPc
<1>4. PICK p \in Process : /\ SetProcess(w, p) /\ p.pc = pc
                           /\ p.job = worker[w].job /\ p.attempt = worker[w].attempt
  BY <1>1, <1>3, GotoProcess
<1>5. Tracks(w, p, MyRow(w))
  BY <1>2, <1>3, <1>4 DEF Tracks, CommitPc
<1> QED
  BY <1>1, <1>4, <1>5, StaysMoves

\* The first text an attempt stores meets no answer, or an empty one.
LEMMA StoreCommitMoves ==
  ASSUME OneWorkerInv, NEW w \in Workers, StoreCommit(w)
  PROVE  SomeMove(w)
<1>1. /\ worker[w].pc = "store_commit" /\ worker[w].pc # "idle" /\ room' = room
      /\ Goto(w, "send") /\ PostInv
  BY DEF StoreCommit, OneWorkerInv
<1>2. PICK j \in Jobs : j = worker[w].job
  BY <1>1, BusyTracks
<1>3. /\ MyRow(w) \in Row /\ MyRow(w) = ai_bot_jobs[j] /\ worker[w] \in Process
      /\ Tracks(w, worker[w], MyRow(w)) /\ Orderly(MyRow(w), Texts(room, j))
  BY <1>1, <1>2, BusyTracks
<1>4. PICK p \in Process : /\ SetProcess(w, p) /\ p.pc = "send" /\ p.job = j
                           /\ p.attempt = worker[w].attempt /\ p.result = worker[w].result
  BY <1>1, <1>2, GotoProcess DEF ReadPc
<1> DEFINE old == MyRow(w)
           n == worker[w].result
           row == [old EXCEPT !.result_text = n]
<1>5. n \in Nat /\ SetRow(j, row)
  BY <1>2, <1>3 DEF Process, StoreCommit
<1>6. old \in Row /\ old = MyRow(w) /\ n = worker[w].result
  BY <1>3
<1> HIDE DEF old, n
<1>7. /\ row \in Row /\ row.status = old.status /\ row.locked_by = old.locked_by
      /\ row.lease = old.lease /\ row.attempts = old.attempts /\ row.result_text = n
  BY <1>5, <1>6 DEF Row
<1> HIDE DEF row
<1>8. Tracks(w, p, row)
  BY <1>3, <1>4, <1>6, <1>7 DEF Tracks
<1>9. Orderly(row, Texts(room, j))
  BY <1>1, <1>3, <1>6, <1>7 DEF Tracks, Orderly
<1>10. Edge(ai_bot_jobs[j].status, row.status)
  BY <1>3, <1>6, <1>7 DEF Tracks, Edge, Pending
<1>11. Moves(w, j, p, row)
  BY <1>1, <1>4, <1>5, <1>8, <1>9, <1>10 DEF Moves
<1> QED
  BY <1>7, <1>11 DEF SomeMove

\* A send adds the stored text, or nothing, to the answers to its question.
LEMMA SendMoves ==
  ASSUME OneWorkerInv, NEW w \in Workers, Send(w) \/ SendHangs(w)
  PROVE  SomeMove(w)
<1>1. /\ worker[w].pc = "send" /\ worker[w].pc # "idle" /\ ai_bot_jobs' = ai_bot_jobs
      /\ PostInv
  BY DEF Send, SendHangs, OneWorkerInv
<1>2. PICK j \in Jobs : j = worker[w].job
  BY <1>1, BusyTracks
<1> DEFINE row == MyRow(w)
<1>3. /\ row \in Row /\ row = ai_bot_jobs[j] /\ worker[w] \in Process
      /\ Tracks(w, worker[w], row) /\ Orderly(row, Texts(room, j)) /\ row.status \in Pending
  BY <1>1, <1>2, BusyTracks
<1>4. worker[w].result = row.result_text /\ worker[w].result \in Nat
  BY <1>1, <1>3 DEF Tracks, Process
<1>5. room' = room \/ room' = room \cup {Answer(w)}
  BY DEF Send, SendHangs, Deliver
<1> DEFINE a == Answer(w)
<1>6. a.job = j /\ a.text = worker[w].result
  BY <1>2, <1>4, AnswerOf
<1>7. /\ \A i \in Jobs : i # j => Texts(room', i) = Texts(room, i)
      /\ Texts(room', j) \subseteq Texts(room, j) \cup {worker[w].result}
  <2>1. CASE room' = room
    BY <2>1
  <2>2. CASE room' = room \cup {a}
    <3> HIDE DEF a
    <3>1. \A i \in Jobs : i # j => Texts(room \cup {a}, i) = Texts(room, i)
      BY <1>6, TextOf, Zenon
    <3>2. Texts(room \cup {a}, j) = Texts(room, j) \cup {a.text}
      BY <1>6, TextOf, Zenon
    <3>3. \A i \in Jobs : Texts(room', i) = Texts(room \cup {a}, i)
      BY <2>2, Zenon
    <3> QED
      BY <1>6, <3>1, <3>2, <3>3
  <2> QED
    BY <1>5, <2>1, <2>2
<1>8. SetRow(j, row) /\ Edge(ai_bot_jobs[j].status, row.status)
  BY <1>1, <1>3 DEF SetRow, PostInv, TypeOK, Edge
<1> HIDE DEF row
<1>9. Orderly(row, Texts(room', j))
  BY <1>3, <1>4, <1>7 DEF Orderly
<1>10. \E p \in Process : /\ SetProcess(w, p) /\ p.job = j /\ p.attempt = worker[w].attempt
                          /\ \/ p.pc = "hung" /\ p.result = worker[w].result
                             \/ p.pc \in {"finish", "fail"}
  <2>1. CASE Goto(w, "finish") \/ Goto(w, "hung")
    BY <1>1, <1>2, <2>1, GotoProcess DEF ReadPc
  <2>2. CASE \E error \in {"matrix", "connection"} : Raise(w, error)
    BY <1>1, <1>2, <2>2, RaiseProcess DEF Errors
  <2> QED
    BY <2>1, <2>2 DEF Send, SendHangs
<1>11. PICK p \in Process : /\ SetProcess(w, p) /\ p.job = j /\ p.attempt = worker[w].attempt
                            /\ \/ p.pc = "hung" /\ p.result = worker[w].result
                               \/ p.pc \in {"finish", "fail"}
  BY <1>10
<1>12. Tracks(w, p, row)
  BY <1>3, <1>4, <1>11 DEF Tracks
<1>13. Moves(w, j, p, row)
  BY <1>7, <1>8, <1>9, <1>11, <1>12 DEF Moves
<1> QED
  BY <1>3, <1>13 DEF SomeMove

\* The end of an attempt: one commit releases the row, the process goes idle.
LEMMA ReleaseMoves ==
  ASSUME OneWorkerInv, NEW w \in Workers, worker[w].pc # "idle", SetProcess(w, Idle), room' = room,
         NEW row \in Row, SetRow(worker[w].job, row),
         row.status \in {"queued", "failed", "succeeded"},
         row.locked_by = NoWorker, row.lease = "null", row.result_text = MyRow(w).result_text
  PROVE  SomeMove(w)
<1>1. PICK j \in Jobs : j = worker[w].job
  BY BusyTracks
<1>2. /\ MyRow(w) = ai_bot_jobs[j] /\ Orderly(MyRow(w), Texts(room, j))
      /\ MyRow(w).status = "running"
  BY <1>1, BusyTracks DEF Tracks
<1>3. Orderly(row, Texts(room', j)) /\ Edge(ai_bot_jobs[j].status, row.status)
  BY <1>2 DEF Orderly, Edge
<1>4. Moves(w, j, Idle, row)
  BY <1>1, <1>3, IdleProcess DEF Moves
<1> QED
  BY <1>4, IdleProcess DEF SomeMove

LEMMA ReleasedColumns ==
  ASSUME NEW row \in Row, NEW s \in Statuses
  PROVE  /\ Released(row, s) \in Row /\ Released(row, s).status = s
         /\ Released(row, s).locked_by = NoWorker /\ Released(row, s).lease = "null"
         /\ Released(row, s).result_text = row.result_text
BY DEF Released, Row

LEMMA FinishCommitMoves ==
  ASSUME OneWorkerInv, NEW w \in Workers, FinishCommit(w)
  PROVE  SomeMove(w)
<1>1. /\ worker[w].pc # "idle" /\ SetProcess(w, Idle) /\ room' = room
      /\ SetRow(worker[w].job, [Released(MyRow(w), "succeeded") EXCEPT !.error = "none"])
  BY DEF FinishCommit
<1> DEFINE old == Released(MyRow(w), "succeeded")
           row == [old EXCEPT !.error = "none"]
<1>2. /\ old \in Row /\ old.status = "succeeded" /\ old.locked_by = NoWorker /\ old.lease = "null"
      /\ old.result_text = MyRow(w).result_text
  BY <1>1, BusyTracks, ReleasedColumns, StatusSets
<1>3. SetRow(worker[w].job, row)
  BY <1>1
<1> HIDE DEF old
<1>4. /\ row \in Row /\ row.status = old.status /\ row.locked_by = old.locked_by
      /\ row.lease = old.lease /\ row.result_text = old.result_text
  BY <1>2 DEF Row, Errors
<1> HIDE DEF row
<1> QED
  BY <1>1, <1>2, <1>3, <1>4, ReleaseMoves

LEMMA FailCommitMoves ==
  ASSUME OneWorkerInv, NEW w \in Workers, FailCommit(w)
  PROVE  SomeMove(w)
<1>1. worker[w].pc # "idle" /\ SetProcess(w, Idle) /\ room' = room
  BY DEF FailCommit
<1> DEFINE old == Released(MyRow(w), Verdict(w))
           b == IF Verdict(w) = "queued" THEN FALSE ELSE old.due
           e == worker[w].error
           row == [old EXCEPT !.due = b, !.error = e]
<1>2. Verdict(w) \in Statuses /\ Verdict(w) \in {"queued", "failed"}
  BY StatusSets DEF Verdict
<1>3. /\ old \in Row /\ old.status \in {"queued", "failed"}
      /\ old.locked_by = NoWorker /\ old.lease = "null"
      /\ old.result_text = MyRow(w).result_text
  BY <1>1, <1>2, BusyTracks, ReleasedColumns
<1>4. b \in BOOLEAN /\ e \in Errors
  BY <1>1, <1>3, BusyTracks DEF Row, Process
<1>5. SetRow(worker[w].job, row)
  BY DEF FailCommit
<1> HIDE DEF old, b, e
<1>6. /\ row \in Row /\ row.status = old.status /\ row.locked_by = old.locked_by
      /\ row.lease = old.lease /\ row.result_text = old.result_text
  BY <1>3, <1>4 DEF Row
<1> HIDE DEF row
<1> QED
  BY <1>1, <1>3, <1>5, <1>6, ReleaseMoves

LEMMA ClaimMoves ==
  ASSUME OneWorkerInv, NEW w \in Workers, Claim(w)
  PROVE  SomeMove(w)
<1>1. PICK j \in Jobs :
        /\ Claimable(j) /\ room' = room
        /\ SetRow(j, [ai_bot_jobs[j] EXCEPT !.status = "running",
                                            !.attempts = ai_bot_jobs[j].attempts + 1,
                                            !.locked_by = w, !.lease = "live"])
        /\ SetProcess(w, [Idle EXCEPT !.pc = "load", !.job = j,
                                      !.attempt = ai_bot_jobs[j].attempts + 1])
  BY DEF Claim
<1> DEFINE old == ai_bot_jobs[j]
           n == ai_bot_jobs[j].attempts + 1
           row == [old EXCEPT !.status = "running", !.attempts = n, !.locked_by = w, !.lease = "live"]
           idle == Idle
           p == [idle EXCEPT !.pc = "load", !.job = j, !.attempt = n]
<1>2. /\ old \in Row /\ n \in Nat /\ idle \in Process
      /\ Orderly(old, Texts(room, j)) /\ old = ai_bot_jobs[j]
  BY IdleProcess DEF OneWorkerInv, PostInv, TypeOK, Row
<1>3. SetRow(j, row) /\ SetProcess(w, p)
  BY <1>1
<1>4. old.status \in {"queued", "running"}
  BY <1>1 DEF Claimable
<1> HIDE DEF old, n, idle
<1>5. /\ row \in Row /\ row.status = "running" /\ row.locked_by = w /\ row.lease = "live"
      /\ row.attempts = n /\ row.result_text = old.result_text
  BY <1>2, StatusSets DEF Row
<1>6. p \in Process /\ p.pc = "load" /\ p.job = j /\ p.attempt = n
  BY <1>2 DEF Process, ReadPc
<1> HIDE DEF row, p
<1>7. Tracks(w, p, row)
  BY <1>5, <1>6 DEF Tracks
<1>8. Orderly(row, Texts(room', j))
  BY <1>1, <1>2, <1>5, WorkersAssumption DEF Orderly
<1>9. Edge(ai_bot_jobs[j].status, row.status)
  BY <1>2, <1>4, <1>5 DEF Edge, Pending
<1>10. Moves(w, j, p, row)
  BY <1>1, <1>3, <1>6, <1>7, <1>8, <1>9 DEF Moves
<1> QED
  BY <1>5, <1>6, <1>10 DEF SomeMove

LEMMA DatabaseErrorMoves ==
  ASSUME OneWorkerInv, NEW w \in Workers, DatabaseError(w)
  PROVE  SomeMove(w)
<1>1. worker[w].pc # "idle" /\ UNCHANGED <<ai_bot_jobs, room>> /\ PostInv
  BY DEF DatabaseError, OneWorkerInv
<1>2. PICK p \in Process : /\ SetProcess(w, p)
                           /\ \/ p.pc = "idle"
                              \/ p.pc = "fail" /\ p.job = worker[w].job
                                 /\ p.attempt = worker[w].attempt
  BY <1>1, IdleProcess, RaiseProcess DEF DatabaseError, Errors
<1>3. p.pc # "idle" => p.job = worker[w].job /\ Tracks(w, p, MyRow(w))
  BY <1>1, <1>2, BusyTracks DEF Tracks
<1> QED
  BY <1>1, <1>2, <1>3, StaysMoves

\* Every row stays orderly, and along an edge.
EdgesOnly ==
  \A j \in Jobs : \/ ai_bot_jobs'[j].status = ai_bot_jobs[j].status
                  \/ /\ Edge(ai_bot_jobs[j].status, ai_bot_jobs'[j].status)
                     /\ \A i \in Jobs : i # j => ai_bot_jobs'[i] = ai_bot_jobs[i]

\* A step of the only worker.
LEMMA MoveKeeps ==
  ASSUME OneWorker, OneWorkerInv, PostInv', NEW w \in Workers, SomeMove(w)
  PROVE  OneWorkerInv' /\ EdgesOnly
<1>1. PICK j \in Jobs, p \in Process, row \in Row : Moves(w, j, p, row)
  BY DEF SomeMove
<1>2. /\ ai_bot_jobs'[j] = row /\ worker'[w] = p
      /\ \A i \in Jobs : i # j => ai_bot_jobs'[i] = ai_bot_jobs[i]
  BY <1>1 DEF Moves, SetRow, SetProcess, OneWorkerInv, PostInv, TypeOK
<1>3. \A i \in Jobs : Orderly(ai_bot_jobs'[i], Texts(room', i))
  <2>1. \A i \in Jobs : i # j => /\ Orderly(ai_bot_jobs[i], Texts(room, i))
                                /\ Texts(room', i) = Texts(room, i)
    BY <1>1 DEF OneWorkerInv, Moves
  <2>2. Orderly(row, Texts(room', j))
    BY <1>1 DEF Moves
  <2> QED
    BY <1>2, <2>1, <2>2
<1>4. \A v \in Workers : (worker[v].pc # "idle" => Tracks(v, worker[v], MyRow(v)))'
  <2>1. \A v \in Workers : v = w
    BY DEF OneWorker
  <2>2. p.pc # "idle" => p.job = j /\ Tracks(w, p, row)
    BY <1>1 DEF Moves
  <2> QED
    BY <1>2, <2>1, <2>2 DEF MyRow
<1>5. EdgesOnly
  BY <1>1, <1>2 DEF EdgesOnly, Moves
<1> QED
  BY <1>3, <1>4, <1>5 DEF OneWorkerInv

\* A step of the API or the clock on row j.
LEMMA RowStepKeeps ==
  ASSUME OneWorkerInv, PostInv',
         NEW j \in Jobs, Enqueue(j) \/ BackoffElapses(j) \/ LeaseExpires(j)
  PROVE  OneWorkerInv' /\ EdgesOnly
<1>1. room' = room /\ worker' = worker
  BY DEF Enqueue, BackoffElapses, LeaseExpires
<1> DEFINE old == ai_bot_jobs[j]
<1>2. old \in Row /\ Orderly(old, Texts(room, j)) /\ old = ai_bot_jobs[j]
  BY DEF OneWorkerInv, PostInv, TypeOK
<1>3. \/ SetRow(j, [old EXCEPT !.status = "queued", !.due = TRUE]) /\ old.status = "absent"
      \/ SetRow(j, [old EXCEPT !.due = TRUE])
      \/ SetRow(j, [old EXCEPT !.lease = "expired"]) /\ old.lease = "live"
  BY DEF Enqueue, BackoffElapses, LeaseExpires
<1> HIDE DEF old
<1>4. PICK row : /\ SetRow(j, row)
                 /\ \/ row.status = old.status
                    \/ old.status = "absent" /\ row.status = "queued"
                 /\ (row.lease = "null") <=> (old.lease = "null")
                 /\ row.locked_by = old.locked_by /\ row.attempts = old.attempts
                 /\ row.result_text = old.result_text
  <2>1. CASE SetRow(j, [old EXCEPT !.status = "queued", !.due = TRUE]) /\ old.status = "absent"
    <3> DEFINE row == [old EXCEPT !.status = "queued", !.due = TRUE]
    <3>1. /\ row.status = "queued" /\ row.lease = old.lease /\ row.locked_by = old.locked_by
          /\ row.attempts = old.attempts /\ row.result_text = old.result_text
      BY <1>2 DEF Row
    <3> QED
      BY <2>1, <3>1
  <2>2. CASE SetRow(j, [old EXCEPT !.due = TRUE])
    <3> DEFINE row == [old EXCEPT !.due = TRUE]
    <3>1. /\ row.status = old.status /\ row.lease = old.lease /\ row.locked_by = old.locked_by
          /\ row.attempts = old.attempts /\ row.result_text = old.result_text
      BY <1>2 DEF Row
    <3> QED
      BY <2>2, <3>1
  <2>3. CASE SetRow(j, [old EXCEPT !.lease = "expired"]) /\ old.lease = "live"
    <3> DEFINE row == [old EXCEPT !.lease = "expired"]
    <3>1. /\ row.status = old.status /\ row.lease = "expired" /\ row.locked_by = old.locked_by
          /\ row.attempts = old.attempts /\ row.result_text = old.result_text
      BY <1>2 DEF Row
    <3> QED
      BY <2>3, <3>1
  <2> QED
    BY <1>3, <2>1, <2>2, <2>3
<1>5. /\ ai_bot_jobs'[j] = row
      /\ \A i \in Jobs : i # j => ai_bot_jobs'[i] = ai_bot_jobs[i]
  BY <1>4 DEF SetRow, OneWorkerInv, PostInv, TypeOK
<1>6. \A i \in Jobs : Orderly(ai_bot_jobs'[i], Texts(room', i))
  <2>1. Orderly(row, Texts(room, j))
    BY <1>2, <1>4 DEF Orderly
  <2> QED
    BY <1>1, <1>5, <2>1 DEF OneWorkerInv
<1>7. ASSUME NEW v \in Workers, worker'[v].pc # "idle"
      PROVE  Tracks(v, worker'[v], ai_bot_jobs'[worker'[v].job])
  <2>1. /\ worker[v].job \in Jobs
        /\ Tracks(v, worker[v], ai_bot_jobs[worker[v].job])
    BY <1>1, <1>7 DEF OneWorkerInv, PostInv, TypeOK, MyRow
  <2>2. CASE worker[v].job = j
    <3>1. Tracks(v, worker[v], row)
      BY <1>2, <1>4, <2>1, <2>2 DEF Tracks
    <3> QED
      BY <1>1, <1>5, <2>2, <3>1
  <2>3. CASE worker[v].job # j
    BY <1>1, <1>5, <2>1, <2>3
  <2> QED
    BY <2>2, <2>3
<1>8. EdgesOnly
  BY <1>2, <1>4, <1>5 DEF EdgesOnly, Edge
<1> QED
  BY <1>6, <1>7, <1>8 DEF OneWorkerInv, MyRow

LEMMA CrashKeeps ==
  ASSUME OneWorker, OneWorkerInv, PostInv', NEW w \in Workers, Crash(w)
  PROVE  OneWorkerInv' /\ EdgesOnly
<1> DEFINE Lost(row) == [row EXCEPT !.locked_by = Gone]
<1>1. \A row \in Row : /\ Lost(row).status = row.status /\ Lost(row).lease = row.lease
                       /\ Lost(row).locked_by = Gone /\ Lost(row).result_text = row.result_text
  BY DEF Row
<1>2. /\ room' = room /\ SetProcess(w, Idle)
      /\ ai_bot_jobs' = [j \in Jobs |-> IF ai_bot_jobs[j].locked_by = w
                                        THEN Lost(ai_bot_jobs[j]) ELSE ai_bot_jobs[j]]
  BY DEF Crash
<1> HIDE DEF Lost
<1>3. \A j \in Jobs : ai_bot_jobs[j] \in Row /\ Orderly(ai_bot_jobs[j], Texts(room, j))
  BY DEF OneWorkerInv, PostInv, TypeOK
<1>4. \A j \in Jobs : Orderly(ai_bot_jobs'[j], Texts(room', j))
  <2> SUFFICES ASSUME NEW j \in Jobs PROVE Orderly(ai_bot_jobs'[j], Texts(room, j))
    BY <1>2
  <2>1. CASE ai_bot_jobs[j].locked_by = w
    <3>1. Orderly(Lost(ai_bot_jobs[j]), Texts(room, j))
      BY <1>1, <1>3, <2>1, WorkersAssumption DEF Orderly
    <3> QED
      BY <1>2, <2>1, <3>1
  <2>2. CASE ai_bot_jobs[j].locked_by # w
    BY <1>2, <1>3, <2>2
  <2> QED
    BY <2>1, <2>2
<1>5. \A v \in Workers : worker'[v].pc = "idle"
  BY <1>2, IdleProcess DEF OneWorker, SetProcess, OneWorkerInv, PostInv, TypeOK
<1>6. EdgesOnly
  BY <1>1, <1>2, <1>3 DEF EdgesOnly
<1> QED
  BY <1>4, <1>5, <1>6 DEF OneWorkerInv

\* Every step keeps OneWorkerInv, and moves a job along an edge or not at all.
LEMMA NextOneWorker ==
  ASSUME OneWorker, OneWorkerInv, [Next]_vars
  PROVE  OneWorkerInv' /\ EdgesOnly
<1>1. PostInv'
  BY NextKeepsInv, StutteringKeepsInv DEF OneWorkerInv
<1>2. CASE UNCHANGED <<ai_bot_jobs, room, worker>>
  BY <1>1, <1>2 DEF OneWorkerInv, MyRow, EdgesOnly
<1>3. ASSUME NEW w \in Workers, WorkerStep(w) PROVE SomeMove(w)
  BY <1>3, LoadMoves, ChatMoves, ReadsMove, StoreCommitMoves, SendMoves, FinishCommitMoves,
     FailCommitMoves DEF WorkerStep
<1>4. ASSUME NEW w \in Workers, Claim(w) \/ WorkerStep(w) \/ SendHangs(w) \/ DatabaseError(w)
      PROVE  SomeMove(w)
  BY <1>3, <1>4, ClaimMoves, SendMoves, DatabaseErrorMoves
<1>5. ChatArrives \/ (\E w \in Workers : ServeChat(w)) => UNCHANGED <<ai_bot_jobs, room, worker>>
  BY DEF ChatArrives, ServeChat
<1> QED
  BY <1>1, <1>2, <1>4, <1>5, MoveKeeps, RowStepKeeps, CrashKeeps DEF Next, vars

LEMMA InitOneWorker == Init => OneWorkerInv
<1> SUFFICES ASSUME Init PROVE OneWorkerInv
  OBVIOUS
<1>1. \A j \in Jobs : ai_bot_jobs[j] = Absent /\ Texts(room, j) = {}
  BY DEF Init, Texts
<1>2. \A j \in Jobs : Orderly(ai_bot_jobs[j], Texts(room, j))
  BY <1>1 DEF Orderly, Absent
<1>3. \A w \in Workers : worker[w].pc = "idle"
  BY IdleProcess DEF Init
<1> QED
  BY <1>2, <1>3, InitEstablishes DEF OneWorkerInv

(* With one worker the lock columns are set exactly while a bot job runs, the
   process in process_bot_one is the one they name, and what it generates or
   sends agrees with the stored result_text. *)
THEOREM OneWorkerInvariant ==
  ASSUME OneWorker
  PROVE  Spec => []OneWorkerInv
<1>1. OneWorkerInv /\ [Next]_vars => OneWorkerInv'
  BY NextOneWorker
<1> QED
  BY <1>1, InitOneWorker, PTL DEF Spec

(* With one worker the event in the room says what result_text says, although
   the send lies outside of every transaction and attempts are cut off around
   it: a stored answer is never generated again (process_bot_one). *)
THEOREM RoomShowsResult ==
  ASSUME OneWorker
  PROVE  Spec => []PostedIsStored
<1>1. OneWorkerInv => PostedIsStored
  BY DEF OneWorkerInv, Orderly, PostedIsStored
<1> QED
  BY <1>1, OneWorkerInvariant, PTL

-----------------------------------------------------------------------------
(* Refinement: with one worker, a bot job moves along the edges of         *)
(* AiJobLifecycle.                                                         *)

\* Of the row, the lifecycle sees the status; the answer comes with "succeeded".
LEMMA EdgesRefine ==
  ASSUME TypeOK, TypeOK', EdgesOnly
  PROVE  [Lifecycle!Next]_(Lifecycle!vars)
<1> DEFINE st  == [i \in Jobs |-> ai_bot_jobs[i].status]
           nst == [i \in Jobs |-> ai_bot_jobs'[i].status]
           an  == [i \in Jobs |-> IF ai_bot_jobs[i].status = "succeeded" THEN 1 ELSE 0]
           nan == [i \in Jobs |-> IF ai_bot_jobs'[i].status = "succeeded" THEN 1 ELSE 0]
<1>1. CASE \A j \in Jobs : ai_bot_jobs'[j].status = ai_bot_jobs[j].status
  <2>1. nst = st /\ nan = an
    BY <1>1
  <2> QED
    BY <2>1 DEF Lifecycle!vars
<1>2. ASSUME NEW j \in Jobs, ai_bot_jobs'[j].status # ai_bot_jobs[j].status
      PROVE  Lifecycle!Next
  <2>1. /\ Edge(ai_bot_jobs[j].status, ai_bot_jobs'[j].status)
        /\ \A i \in Jobs : i # j => ai_bot_jobs'[i] = ai_bot_jobs[i]
    BY <1>2 DEF EdgesOnly
  <2>2. nst = [st EXCEPT ![j] = ai_bot_jobs'[j].status] /\ st[j] = ai_bot_jobs[j].status
    BY <2>1
  <2>3. CASE <<ai_bot_jobs[j].status, ai_bot_jobs'[j].status>> \in
               {<<"absent", "queued">>, <<"queued", "running">>, <<"running", "queued">>,
                <<"running", "failed">>}
    <3>1. nan = an
      BY <2>1, <2>3
    <3>2. \/ Lifecycle!Submit(j) \/ Lifecycle!Start(j) \/ Lifecycle!Retry(j) \/ Lifecycle!Fail(j)
      BY <2>2, <2>3, <3>1
      DEF Lifecycle!Submit, Lifecycle!Start, Lifecycle!Retry, Lifecycle!Fail, Lifecycle!Move,
          Lifecycle!Pending
    <3> QED
      BY <3>2 DEF Lifecycle!Next
  <2>4. CASE ai_bot_jobs[j].status = "running" /\ ai_bot_jobs'[j].status = "succeeded"
    <3>1. nan = [an EXCEPT ![j] = an[j] + 1]
      <4>1. an[j] + 1 = 1
        BY <2>4
      <4>2. nan = [an EXCEPT ![j] = 1]
        BY <2>1, <2>4
      <4> QED
        BY <4>1, <4>2
    <3>2. Lifecycle!Succeed(j)
      BY <2>2, <2>4, <3>1 DEF Lifecycle!Succeed, Lifecycle!Move
    <3> QED
      BY <3>2 DEF Lifecycle!Next
  <2> QED
    BY <1>2, <2>1, <2>3, <2>4 DEF Edge
<1> QED
  BY <1>1, <1>2

(* A bot job moves along the edges a chat job moves along, and "succeeded",
   "failed" are its last word: claims, stores, sends and lost workers stutter
   (process_bot_one and its helpers). *)
THEOREM BotJobsImplementLifecycle ==
  ASSUME OneWorker
  PROVE  Spec => ImplementsLifecycle
<1>1. Init => Lifecycle!Init
  BY DEF Init, Absent, Lifecycle!Init
<1>2. OneWorkerInv /\ [Next]_vars => [Lifecycle!Next]_(Lifecycle!vars)
  <2> SUFFICES ASSUME OneWorkerInv, [Next]_vars
               PROVE  [Lifecycle!Next]_(Lifecycle!vars)
    OBVIOUS
  <2>1. EdgesOnly /\ TypeOK /\ TypeOK'
    BY NextOneWorker DEF OneWorkerInv, PostInv
  <2> QED
    BY <2>1, EdgesRefine
<1> QED
  BY <1>1, <1>2, OneWorkerInvariant, PTL DEF Spec, ImplementsLifecycle, Lifecycle!Spec

=============================================================================
