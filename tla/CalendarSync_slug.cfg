SPECIFICATION FairSpec
CONSTANTS
  c1 = c1
  c2 = c2
  e1 = e1
  e2 = e2
  e3 = e3
  w1 = w1
  CalendarIds <- OneCalendar
  Events = {e1, e2}
  CalendarOf <- AllInOne
  FileName <- CommonSlug
  MaxResults = 2
  MaxRetries = 2
  MaxRevision <- OneEdit
  MaxSyncs = 2
  NoEvent = NoEvent
  NumJobs = 4
  Workers = {w1}
  NoJob = 0
  MaxAttempts = 2
  Slow = {}
  MaxCrashes = 0
INVARIANT EventHasOwnText
