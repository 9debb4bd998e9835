\* A note whose update is delivered again after the bot died.
SPECIFICATION Spec
CONSTANTS
  w1 = w1
  NumUpdates = 2
  Notes = {1}
  Questions = {2}
  MaxBotCrashes = 1
  NumJobs = 2
  Workers = {w1}
  NoJob = 0
  MaxAttempts = 2
  Slow = {}
  MaxCrashes = 0
INVARIANT RedeliveryIsIdempotent
