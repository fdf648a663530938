SPECIFICATION Spec
CONSTANTS
  MaxJobs = 1
  Workers = {w1, w2}
  NoWorker = NoWorker
  Gone = Gone
  MaxAttempts = 2
  MaxChunks = 1
  MaxFaults = 2
CHECK_DEADLOCK FALSE
INVARIANT CancelledOnlyOnRequest
