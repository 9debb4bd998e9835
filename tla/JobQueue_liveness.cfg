\* The deployed worker, and jobs that may outlast the stale timeout.
SPECIFICATION FairSpec
CONSTANTS
  w1 = w1  w2 = w2
  NumJobs = 3
  Workers = {w1}
  NoJob = 0
  MaxAttempts = 2
  Slow = {1}
  MaxCrashes = 2
PROPERTY QueuedIsSettled
