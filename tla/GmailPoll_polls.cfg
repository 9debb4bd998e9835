\* Two polls of two messages, and no worker: what is enqueued stays queued.
SPECIFICATION FairSpec
CONSTANTS
  p1 = p1  p2 = p2  w1 = w1
  Polls = {p1, p2}
  Messages = {1, 2}
  Contents <- TwoMessages
  Listings <- EitherOrder
  NoArtifact = NoArtifact
  NumJobs = 6
  Workers = {}
  NoJob = 0
  MaxAttempts = 2
  Slow = {}
  MaxCrashes = 0
INVARIANTS
  ReportIsTrue
  DeadlockNeedsTwoOrders
PROPERTY PollsTerminate
CHECK_DEADLOCK FALSE
