\* The deployed worker dies once.
SPECIFICATION Spec
CONSTANTS
  w1 = w1  w2 = w2
  NumJobs = 2
  Workers = {w1}
  NoJob = 0
  MaxAttempts = 2
  Slow = {}
  MaxCrashes = 1
PROPERTY StartupRequeuesOrphans
