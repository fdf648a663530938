SPECIFICATION Spec
CONSTANTS
  MaxJobs = 2
  Workers = {w1}
  NoWorker = NoWorker
  Gone = Gone
  MaxAttempts = 2
  MaxFaults = 2
CHECK_DEADLOCK FALSE
INVARIANT CutOffSendsAreRetried
