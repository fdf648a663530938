SPECIFICATION Spec
CONSTANTS
  MaxJobs = 2
  Workers = {w1}
  NoWorker = NoWorker
  Gone = Gone
  MaxAttempts = 2
  MaxFaults = 2
INVARIANTS TypeOK PostedIsStored SucceededWasPosted
PROPERTY ImplementsLifecycle
CHECK_DEADLOCK FALSE
