\* Two workers, three jobs, two crashes.
SPECIFICATION Spec
CONSTANTS
  w1 = w1  w2 = w2
  NumJobs = 3
  Workers = {w1, w2}
  NoJob = 0
  MaxAttempts = 2
  Slow = {}
  MaxCrashes = 2
SYMMETRY WorkerSymmetry
INVARIANTS
  TypeOK
  OneWorkerPerJob
  SucceededIsIngested
  AttemptsAreBounded
PROPERTY SettledIsFinal
