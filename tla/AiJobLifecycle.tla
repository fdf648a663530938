--------------------------- MODULE AiJobLifecycle ---------------------------
(***************************************************************************)
(* What the AI job queue promises to the client of the HTTP API about each *)
(* chat job: the values of AiJobStatus a client may see in turn, and that  *)
(* one answer is stored exactly when the job succeeds.  How workers claim  *)
(* rows, keep leases and lose them is the business of AiJobQueue, which is *)
(* shown to implement this module.                                         *)
(***************************************************************************)
EXTENDS Naturals

CONSTANT Jobs       \* ids of the ai_jobs rows

VARIABLES
  status,           \* what GET /ai/jobs/{id} reports; "absent": no such row yet
  answers           \* number of assistant messages stored for the job

vars == <<status, answers>>

Pending  == {"queued", "running"}
Terminal == {"succeeded", "failed", "cancelled"}
Statuses == {"absent"} \cup Pending \cup Terminal

TypeOK ==
  /\ status \in [Jobs -> Statuses]
  /\ answers \in [Jobs -> Nat]

Init ==
  /\ status = [j \in Jobs |-> "absent"]
  /\ answers = [j \in Jobs |-> 0]

Move(j, from, to) ==
  /\ status[j] \in from
  /\ status' = [status EXCEPT ![j] = to]

\* POST /ai/conversations/{id}/messages was accepted.
Submit(j) == Move(j, {"absent"}, "queued") /\ UNCHANGED answers

\* A worker takes the job.
Start(j) == Move(j, {"queued"}, "running") /\ UNCHANGED answers

\* An attempt failed in a way that is worth another attempt.
Retry(j) == Move(j, {"running"}, "queued") /\ UNCHANGED answers

\* The answer and the final status appear together.
Succeed(j) ==
  /\ Move(j, {"running"}, "succeeded")
  /\ answers' = [answers EXCEPT ![j] = @ + 1]

Fail(j) == Move(j, {"running"}, "failed") /\ UNCHANGED answers

Cancel(j) == Move(j, Pending, "cancelled") /\ UNCHANGED answers

Next ==
  \E j \in Jobs : \/ Submit(j)
                  \/ Start(j)
                  \/ Retry(j)
                  \/ Succeed(j)
                  \/ Fail(j)
                  \/ Cancel(j)

Spec == Init /\ [][Next]_vars

=============================================================================
