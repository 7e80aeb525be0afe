SPECIFICATION Spec
CONSTANTS
  w1 = w1
  w2 = w2
  Workers <- BothWorkers
  MaxJobs = 2
INVARIANTS RunsWhatWasLaunched
PROPERTIES ImplementsLauncher EveryCallReturns
CHECK_DEADLOCK FALSE
