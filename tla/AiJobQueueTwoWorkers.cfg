SPECIFICATION QueueOrStreamSpec
CONSTANTS
  MaxJobs = 1
  Workers = {w1, w2}
  NoWorker = NoWorker
  Gone = Gone
  MaxAttempts = 2
  MaxChunks = 1
  MaxFaults = 2
  Payloads = {pa, pb}
  Streamed = 1
INVARIANTS RunningIsReclaimable AnswersBoundedByAttempts TokensEndWithOutput
PROPERTIES EveryJobSettles CancelTakesEffect
CHECK_DEADLOCK FALSE
