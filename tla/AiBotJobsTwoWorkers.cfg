SPECIFICATION FairSpec
CONSTANTS
  MaxJobs = 1
  Workers = {w1, w2}
  NoWorker = NoWorker
  Gone = Gone
  MaxAttempts = 2
  MaxFaults = 1
CHECK_DEADLOCK FALSE
INVARIANT AtMostOneEvent
PROPERTY EveryBotJobSettles
