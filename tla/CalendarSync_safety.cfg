SPECIFICATION FairSpec
CONSTANTS
  c1 = c1
  c2 = c2
  e1 = e1
  e2 = e2
  e3 = e3
  w1 = w1
  CalendarIds <- TwoCalendars
  Events = {e1, e2, e3}
  CalendarOf <- TwoAndOne
  FileName <- OwnName
  MaxResults = 1
  MaxRetries = 2
  MaxRevision <- OneEdit
  MaxSyncs = 2
  NoEvent = NoEvent
  NumJobs = 4
  Workers = {w1}
  NoJob = 0
  MaxAttempts = 1
  Slow = {}
  MaxCrashes = 1
INVARIANTS
  TypeOK
  SucceededIsAsSeen
PROPERTIES
  CompleteMeansAnswered
  SyncsTerminate
