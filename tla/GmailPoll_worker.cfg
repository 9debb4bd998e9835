\* Two polls of one message beside the worker, which dies once.
SPECIFICATION FairSpec
CONSTANTS
  p1 = p1  p2 = p2  w1 = w1
  Polls = {p1, p2}
  Messages = {1}
  Contents <- OneBody
  Listings <- TheMessage
  NoArtifact = NoArtifact
  NumJobs = 2
  Workers = {w1}
  NoJob = 0
  MaxAttempts = 2
  Slow = {}
  MaxCrashes = 1
INVARIANTS
  TypeOK
  SecondJobIsHarmless
  PendingHasFile
PROPERTY EnqueuedIsSettled
