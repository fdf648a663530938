SPECIFICATION FairSpec
CONSTANTS
  MaxJobs = 2
  Workers = {w1}
  NoWorker = NoWorker
  Gone = Gone
  MaxAttempts = 2
  MaxChunks = 1
  MaxFaults = 2
INVARIANTS TypeOK LockDiscipline OneAnswerPerSuccess CancelledOnlyOnRequest RetriesBounded
PROPERTIES TerminalIsFinal ImplementsLifecycle EveryJobSettles CancelTakesEffect
CHECK_DEADLOCK FALSE
