\* A note, a question and another message; the bot and the worker each die once.
SPECIFICATION FairSpec
CONSTANTS
  w1 = w1
  NumUpdates = 3
  Notes = {1}
  Questions = {2}
  MaxBotCrashes = 1
  NumJobs = 2
  Workers = {w1}
  NoJob = 0
  MaxAttempts = 2
  Slow = {}
  MaxCrashes = 1
INVARIANTS
  TypeOK
  SavedIsEnqueued
  ForgottenIsAnswered
  SecondJobIsHarmless
PROPERTY EveryMessageAnswered
