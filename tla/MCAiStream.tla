----------------------------- MODULE MCAiStream -----------------------------
(* The queue with two workers; and the queue with what its rows say and    *)
(* the stream of a job, with fewer faults: the initial state chooses.      *)
EXTENDS AiStream

VARIABLE part

QueueOrStreamInit == StreamInit /\ part \in {"queue", "stream"}

QueueOrStream ==
  \/ part = "queue"  /\ Next /\ UNCHANGED streamVars
  \/ part = "stream" /\ StreamNext /\ faults' <= 1

QueueOrStreamSpec ==
  /\ QueueOrStreamInit
  /\ [][QueueOrStream /\ UNCHANGED part]_<<vars, streamVars, part>>
  /\ Fairness

=============================================================================
