-------------------------- MODULE CalendarSyncProofs --------------------------
(* Theorems about CalendarSync, for any number of calendars, events, revisions, *)
(* syncs and jobs.                                                              *)
EXTENDS CalendarSync, TLAPS

QueueProofs == INSTANCE JobQueueProofs

-----------------------------------------------------------------------------
(* The invariants *)

Names == {FileName[e] : e \in Events}

\* Where the sync is, and what it still holds there.
PhaseInv ==
  /\ spc \in {"idle", "request", "end"} => fetched = {}
  /\ spc = "write" => current \in Versions
  /\ spc # "write" => current = NoContent
  /\ spc = "idle" => failed = {} /\ skipped = {} /\ mine = <<>>
  /\ spc = "end" => calendar = Len(CalendarIds) + 1
  /\ spc \in {"request", "events", "write"} => calendar \in 1..Len(CalendarIds)

\* Every job that exists was enqueued for a version of an event.
JobsAreSeen == \A j \in Jobs : j <= submitted => seen[j] \in Versions

SyncInv ==
  /\ QueueProofs!TypeInv
  /\ TypeOK
  /\ PhaseInv
  /\ JobsAreSeen
  /\ revision \in [Events -> Nat]
  /\ file \in [Names -> Contents]

\* An event, in the revision that was returned, that the sync has dealt with.
Accounted(x) ==
  \/ x.event \in skipped
  \/ \E k \in DOMAIN mine : mine[k] = x

\* What the current calendar returned and the sync has not dealt with.
Coming == fetched \cup ({current} \ {NoContent})

\* A calendar that the sync has gone through.
Through(i) ==
  \/ CalendarIds[i] \in failed
  \/ \E page \in pages[i] : \A x \in page : Accounted(x)

CoverInv ==
  /\ spc # "idle" => \A i \in 1..calendar - 1 : Through(i)
  /\ spc \in {"events", "write"} =>
       \E page \in pages[calendar] : \A x \in page : Accounted(x) \/ x \in Coming

\* What the sync has promised of an event, in a job of its own or an earlier sync.
Promised == {seen[j] : j \in 1..submitted} \cup {mine[i] : i \in DOMAIN mine}

\* A content that serves a job: the version that was promised or a newer one, or
\* the file as it is while it is rewritten.
Serves(c, v) == c = Torn \/ (c.event = v.event /\ c.revision >= v.revision)

\* A file has been written after every promise it has to keep, because revisions
\* only grow and a sync asks for them after the promises of the syncs before it.
FileInv ==
  /\ \A v \in Promised \cup Coming : v.revision <= revision[v.event]
  /\ \A v \in Promised, x \in Coming : v.event = x.event => v.revision <= x.revision
  /\ \A x, y \in Coming : x.event = y.event => x.revision = y.revision
  /\ \A v \in Promised : Serves(file[FileName[v.event]], v)

\* What the worker has read serves every job that has succeeded, and its own.
ReadInv ==
  \A w \in Workers : wpc[w] = "pipeline" /\ read[w] # NoContent =>
    \A j \in Jobs :
      /\ status[j] = "succeeded" \/ j = job[w]
      /\ EventOf(j) = EventOf(job[w])
      => Serves(read[w], seen[j])

StoreInv ==
  /\ SucceededIsAsSeen
  /\ \A w \in Workers : wpc[w] = "mark_succeeded" =>
       Serves(stored[EventOf(job[w])], seen[job[w]])

-----------------------------------------------------------------------------
(* Contents *)

LEMMA VersionIs ==
  ASSUME NEW x \in Versions
  PROVE  /\ x.event \in Events /\ x.revision \in 1..MaxRevision[x.event]
         /\ x.revision \in Nat /\ x = [event |-> x.event, revision |-> x.revision]
         /\ x # NoContent /\ x # Torn
BY NoEventAssumption, MaxRevisionAssumption DEF Versions, NoContent, Torn

LEMMA IsVersion ==
  ASSUME NEW e \in Events, NEW r \in 1..MaxRevision[e]
  PROVE  [event |-> e, revision |-> r] \in Versions
<1>1. [event |-> e, revision |-> r] \in [event : {e}, revision : 1..MaxRevision[e]]
  OBVIOUS
<1> QED
  BY <1>1 DEF Versions

LEMMA NamesOfEvents == \A e \in Events : FileName[e] \in Names
BY DEF Names

-----------------------------------------------------------------------------
(* The jobs table under the syncs *)

LEMMA QueueConstants ==
  /\ NumJobs \in Nat \ {0} /\ NoJob \notin QueueProofs!Jobs
  /\ MaxAttempts \in Nat \ {0} /\ Slow \subseteq QueueProofs!Jobs /\ MaxCrashes \in Nat
BY QueueAssumption DEF QueueProofs!Jobs, Jobs

\* A sync that commits inserts all its jobs; every other step is one of JobQueue.
LEMMA NextIsQueueStep == [Next]_vars => EnqueueMine \/ [Queue!Next]_(Queue!vars)
<1> SUFFICES ASSUME [Next]_vars PROVE EnqueueMine \/ [Queue!Next]_(Queue!vars)
  OBVIOUS
<1>1. CASE UNCHANGED queueVars
  BY <1>1 DEF queueVars, Queue!vars, Queue!columns
<1>2. ASSUME NEW w \in Workers, Ingest(w) \/ IngestRaises(w) \/ WorkerRuns(w) \/ WorkerStops(w)
      PROVE  Queue!Next
  BY <1>2 DEF Ingest, IngestRaises, WorkerRuns, WorkerStops, Queue!Next, Queue!Works
<1>3. ASSUME NEW j \in Jobs, Clock(j) PROVE Queue!Next
  BY <1>3 DEF Clock, Queue!Next, Jobs, Queue!Jobs
<1>4. CASE Complete \/ CommitUnacknowledged
  BY <1>4 DEF Complete, CommitUnacknowledged
<1>5. ASSUME SyncRuns, ~Complete PROVE UNCHANGED queueVars
  BY <1>5 DEF SyncRuns, RequestSucceeds, RequestRetried, RequestFails, SkipEvent, OpenFile,
     StageAndInsert, CalendarDone, Degraded
<1> QED
  BY <1>1, <1>2, <1>3, <1>4, <1>5 DEF Next, Edit, Begin, Fail, ReadStaged, vars

\* JobQueue and the module of its theorems are instantiated alike.
LEMMA SameInit == Queue!Init => QueueProofs!Init
BY DEF Queue!Init, QueueProofs!Init, Queue!Jobs, QueueProofs!Jobs

LEMMA SameNext == [Queue!Next]_(Queue!vars) => [QueueProofs!Next]_(QueueProofs!vars)
<1> USE DEF Queue!vars, QueueProofs!vars, Queue!columns, QueueProofs!columns, Queue!Jobs,
      QueueProofs!Jobs, Queue!Goto, QueueProofs!Goto
<1>1. ASSUME NEW w \in Workers, Queue!Works(w) PROVE QueueProofs!Works(w)
  BY <1>1
     DEF Queue!Works, Queue!Start, Queue!Recover, Queue!Claim, Queue!PipelineCommits,
         Queue!PipelineRaises, Queue!MarkSucceeded, Queue!MarkSucceededRaises,
         Queue!MarkTerminal, Queue!MarkRetryable, Queue!Recoverable, Queue!Claimable,
         Queue!NextAttempt, Queue!Settle, Queue!Exhausted,
         QueueProofs!Works, QueueProofs!Start, QueueProofs!Recover, QueueProofs!Claim,
         QueueProofs!PipelineCommits, QueueProofs!PipelineRaises,
         QueueProofs!MarkSucceeded, QueueProofs!MarkSucceededRaises,
         QueueProofs!MarkTerminal, QueueProofs!MarkRetryable, QueueProofs!Recoverable,
         QueueProofs!Claimable, QueueProofs!NextAttempt, QueueProofs!Settle,
         QueueProofs!Exhausted
<1>2. ASSUME NEW w \in Workers, Queue!Idle(w) \/ Queue!Crash(w)
      PROVE  QueueProofs!Idle(w) \/ QueueProofs!Crash(w)
  BY <1>2 DEF Queue!Idle, Queue!Crash, Queue!Claimable,
     QueueProofs!Idle, QueueProofs!Crash, QueueProofs!Claimable
<1>3. ASSUME NEW j \in Queue!Jobs, Queue!BackoffElapses(j) \/ Queue!BecomesStale(j)
      PROVE  QueueProofs!BackoffElapses(j) \/ QueueProofs!BecomesStale(j)
  BY <1>3 DEF Queue!BackoffElapses, Queue!BecomesStale, Queue!Held,
     QueueProofs!BackoffElapses, QueueProofs!BecomesStale, QueueProofs!Held
<1>4. Queue!Submit => QueueProofs!Submit
  BY DEF Queue!Submit, QueueProofs!Submit
<1> QED
  BY <1>1, <1>2, <1>3, <1>4 DEF Queue!Next, QueueProofs!Next

LEMMA EnqueueMineType ==
  ASSUME QueueProofs!TypeInv, mine \in Seq(Versions), EnqueueMine
  PROVE  /\ QueueProofs!TypeInv'
         /\ submitted \in Nat /\ submitted' = submitted + Len(mine) /\ submitted' \in 0..NumJobs
<1> USE DEF Jobs, QueueProofs!Jobs
<1>1. submitted \in 0..NumJobs /\ Len(mine) \in Nat /\ NumJobs \in Nat
  BY QueueAssumption DEF QueueProofs!TypeInv, QueueProofs!TypeOK
<1>2. submitted' = submitted + Len(mine) /\ submitted' \in 0..NumJobs
  BY <1>1 DEF EnqueueMine
<1>3. \A j \in Jobs : status'[j] = IF j \in submitted + 1..submitted' THEN "queued" ELSE status[j]
  BY DEF EnqueueMine
<1>4. QueueProofs!TypeOK'
  BY <1>2, <1>3 DEF EnqueueMine, QueueProofs!TypeInv, QueueProofs!TypeOK
<1>5. QueueProofs!HoldsWhileWorking'
  BY DEF EnqueueMine, QueueProofs!TypeInv, QueueProofs!HoldsWhileWorking
<1>6. \A j \in Jobs : j \in Nat /\ (status[j] = "absent" <=> j > submitted)
  BY DEF QueueProofs!TypeInv, QueueProofs!ExistIffSubmitted
<1>7. \A j \in Jobs : status'[j] = "absent" <=> j > submitted'
  BY <1>1, <1>2, <1>3, <1>6
<1>8. \A w \in Workers : job'[w] # NoJob => job'[w] \in Jobs /\ status'[job'[w]] # "absent"
  BY <1>3 DEF EnqueueMine, QueueProofs!TypeInv, QueueProofs!TypeOK, QueueProofs!ExistIffSubmitted
<1>9. QueueProofs!ExistIffSubmitted'
  BY <1>7, <1>8 DEF QueueProofs!ExistIffSubmitted
<1> QED
  BY <1>1, <1>2, <1>4, <1>5, <1>9 DEF QueueProofs!TypeInv

LEMMA NextQueueInv ==
  ASSUME SyncInv, [Next]_vars
  PROVE  QueueProofs!TypeInv' /\ Queue!TypeOK'
<1>1. QueueProofs!TypeInv'
  BY NextIsQueueStep, SameNext, QueueConstants, QueueProofs!NextTypeInv, EnqueueMineType
     DEF SyncInv, TypeOK
<1> QED
  BY <1>1 DEF QueueProofs!TypeInv, QueueProofs!TypeOK, Queue!TypeOK, Queue!Jobs,
     QueueProofs!Jobs, Queue!WorkerPCs, QueueProofs!WorkerPCs

-----------------------------------------------------------------------------
(* Type correctness *)

LEMMA CalendarsAreListed ==
  /\ CalendarIds \in Seq(ToSet(CalendarIds)) /\ Len(CalendarIds) \in Nat
  /\ DOMAIN CalendarIds = 1..Len(CalendarIds)
  /\ \A i \in 1..Len(CalendarIds) : CalendarIds[i] \in ToSet(CalendarIds)
BY CalendarIdsAssumption

LEMMA NoPagesType == NoPages \in [DOMAIN CalendarIds -> SUBSET SUBSET Versions]
BY DEF NoPages

LEMMA InitSyncInv == Init => SyncInv
<1> SUFFICES ASSUME Init PROVE SyncInv
  OBVIOUS
<1>1. QueueProofs!TypeInv
  BY SameInit, QueueConstants, QueueProofs!InitTypeInv DEF Init
<1>2. Queue!TypeOK
  BY <1>1 DEF QueueProofs!TypeInv, QueueProofs!TypeOK, Queue!TypeOK, Queue!Jobs,
     QueueProofs!Jobs, Queue!WorkerPCs, QueueProofs!WorkerPCs
<1>3. \A e \in Events : revision[e] \in 1..MaxRevision[e]
  BY MaxRevisionAssumption DEF Init
<1>4. report \in Reports /\ mine \in Seq(Versions)
  BY DEF Init, Reports
<1>a. pages \in [DOMAIN CalendarIds -> SUBSET SUBSET Versions]
  BY NoPagesType DEF Init
<1>5. TypeOK
  BY <1>2, <1>3, <1>4, <1>a, CalendarsAreListed, MaxRetriesAssumption, MaxSyncsAssumption
     DEF Init, TypeOK, SyncPCs, Contents
<1>6. JobsAreSeen
  BY DEF Init, Queue!Init, JobsAreSeen, Jobs
<1> QED
  BY <1>1, <1>5, <1>6 DEF Init, SyncInv, PhaseInv, Names, Contents

\* What the requests and the events of a calendar leave alone.
LEMMA NextCalendarType ==
  ASSUME SyncInv, NextCalendar, calendar \in 1..Len(CalendarIds)
  PROVE  /\ spc' \in {"request", "end"} /\ calendar' \in 0..Len(CalendarIds) + 1
         /\ tries' \in 0..MaxRetries - 1
         /\ spc' = "end" => calendar' = Len(CalendarIds) + 1
         /\ spc' = "request" => calendar' \in 1..Len(CalendarIds)
<1>1. calendar' = calendar + 1 /\ tries' = 0
  BY DEF NextCalendar
<1>2. spc' = IF calendar = Len(CalendarIds) THEN "end" ELSE "request"
  BY DEF NextCalendar
<1>3. calendar \in Nat /\ calendar >= 1 /\ calendar <= Len(CalendarIds) /\ Len(CalendarIds) \in Nat
  BY CalendarsAreListed
<1>4. 0 \in 0..MaxRetries - 1
  BY MaxRetriesAssumption
<1>5. calendar' \in 0..Len(CalendarIds) + 1
  BY <1>1, <1>3
<1>6. spc' = "request" => calendar' \in 1..Len(CalendarIds)
  BY <1>1, <1>2, <1>3
<1>7. spc' = "end" => calendar' = Len(CalendarIds) + 1
  BY <1>1, <1>2
<1> QED
  BY <1>1, <1>2, <1>4, <1>5, <1>6, <1>7

LEMMA WriteType ==
  ASSUME SyncInv, NEW e \in Events, NEW c \in Contents, Write(e, c)
  PROVE  file' \in [Names -> Contents] /\ \A n \in DOMAIN file' : file'[n] \in Contents
BY NamesOfEvents DEF SyncInv, Write

LEMMA ReturnType ==
  ASSUME SyncInv, NEW kind \in {"complete", "degraded", "failed"}, Return(kind)
  PROVE  /\ spc' = "idle" /\ calendar' = 0 /\ tries' \in 0..MaxRetries - 1
         /\ report' \in Reports /\ mine' \in Seq(Versions)
         /\ pages' \in [DOMAIN CalendarIds -> SUBSET SUBSET Versions]
         /\ PhaseInv'
<1>1. mine \in Seq(Versions) /\ <<>> \in Seq(Versions)
  BY DEF SyncInv, TypeOK
<1>2. report' \in Reports
  BY <1>1 DEF Return, Reports
<1>3. PhaseInv'
  BY DEF Return, PhaseInv
<1> QED
  BY <1>1, <1>2, <1>3, NoPagesType, MaxRetriesAssumption DEF Return

LEMMA ReturnKeepsSyncInv ==
  ASSUME SyncInv, NEW kind \in {"complete", "degraded", "failed"}, Return(kind),
         QueueProofs!TypeInv', Queue!TypeOK', JobsAreSeen',
         seen' \in [Jobs -> Versions \cup {NoContent}]
  PROVE  SyncInv'
<1>1. /\ spc' = "idle" /\ fetched' = {} /\ current' = NoContent /\ failed' = {} /\ skipped' = {}
      /\ UNCHANGED <<revision, syncs, file, read, stored>>
  BY DEF Return, ingestVars
<1>2. /\ calendar' = 0 /\ tries' \in 0..MaxRetries - 1
      /\ report' \in Reports /\ mine' \in Seq(Versions)
      /\ pages' \in [DOMAIN CalendarIds -> SUBSET SUBSET Versions]
      /\ PhaseInv'
  BY ReturnType
<1>3. 0 \in 0..Len(CalendarIds) + 1
  BY CalendarsAreListed
<1>4. TypeOK'
  BY <1>1, <1>2, <1>3 DEF SyncInv, TypeOK, SyncPCs
<1> QED
  BY <1>1, <1>2, <1>4 DEF SyncInv

\* A sync that commits gives each of its events the next job.
LEMMA SeenStep ==
  ASSUME SyncInv, EnqueueMine
  PROVE  /\ seen' \in [Jobs -> Versions \cup {NoContent}]
         /\ \A j \in Jobs : j <= submitted => seen'[j] = seen[j]
         /\ \A j \in Jobs : j > submitted /\ j <= submitted' =>
              j - submitted \in DOMAIN mine /\ seen'[j] = mine[j - submitted]
         /\ \A i \in DOMAIN mine : submitted + i \in Jobs /\ seen'[submitted + i] = mine[i]
<1>1. /\ submitted \in Nat /\ submitted' = submitted + Len(mine) /\ submitted' \in 0..NumJobs
      /\ mine \in Seq(Versions)
  BY EnqueueMineType DEF SyncInv, TypeOK
<1>2. \A j \in Jobs : seen'[j] = IF j \in submitted + 1..submitted' THEN mine[j - submitted] ELSE seen[j]
  BY DEF EnqueueMine
<1>3. \A j \in Jobs : j \in submitted + 1..submitted' <=> j > submitted /\ j <= submitted'
  BY <1>1 DEF Jobs
<1>4. \A j \in Jobs : j > submitted /\ j <= submitted' => j - submitted \in 1..Len(mine)
  BY <1>1 DEF Jobs
<1>5. \A j \in Jobs : j <= submitted => ~(j > submitted)
  BY <1>1 DEF Jobs
<1>6. ASSUME NEW i \in DOMAIN mine
      PROVE  /\ submitted + i \in Jobs /\ submitted + i > submitted /\ submitted + i <= submitted'
             /\ (submitted + i) - submitted = i
  BY <1>1, QueueAssumption DEF Jobs
<1>7. seen' = [j \in Jobs |-> seen'[j]] /\ \A j \in Jobs : seen[j] \in Versions \cup {NoContent}
  BY DEF EnqueueMine, SyncInv, TypeOK
<1>8. \A j \in Jobs : seen'[j] \in Versions \cup {NoContent}
  BY <1>1, <1>2, <1>3, <1>4, <1>7
<1> QED
  BY <1>1, <1>2, <1>3, <1>4, <1>5, <1>6, <1>7, <1>8

\* Only the commit of a sync submits jobs.
LEMMA SubmitStep ==
  ASSUME SyncInv, [Next]_vars
  PROVE  EnqueueMine \/ UNCHANGED <<submitted, seen>>
<1>1. CASE Complete \/ CommitUnacknowledged
  BY <1>1 DEF Complete, CommitUnacknowledged
<1>2. ASSUME SyncRuns, ~Complete PROVE UNCHANGED <<queueVars, seen>>
  BY <1>2 DEF SyncRuns, RequestSucceeds, RequestRetried, RequestFails, SkipEvent, OpenFile,
     StageAndInsert, CalendarDone, Degraded
<1>3. ASSUME NEW w \in Workers, Ingest(w) \/ IngestRaises(w) \/ WorkerRuns(w) \/ WorkerStops(w)
      PROVE  UNCHANGED <<submitted, seen>>
  BY <1>3 DEF Ingest, IngestRaises, WorkerRuns, WorkerStops, Queue!Works,
     Queue!Start, Queue!Recover, Queue!Claim, Queue!PipelineCommits, Queue!PipelineRaises,
     Queue!MarkSucceeded, Queue!MarkSucceededRaises, Queue!MarkTerminal, Queue!MarkRetryable,
     Queue!Idle, Queue!vars, Queue!Crash
<1>4. ASSUME NEW j \in Jobs, Clock(j) PROVE UNCHANGED <<submitted, seen>>
  BY <1>4 DEF Clock, Queue!BackoffElapses, Queue!BecomesStale
<1> QED
  BY <1>1, <1>2, <1>3, <1>4 DEF Next, Edit, Begin, Fail, ReadStaged, vars, queueVars

LEMMA NextSeen == SyncInv /\ [Next]_vars => JobsAreSeen'
<1> SUFFICES ASSUME SyncInv, [Next]_vars PROVE JobsAreSeen'
  OBVIOUS
<1>1. CASE UNCHANGED <<submitted, seen>>
  BY <1>1 DEF SyncInv, JobsAreSeen
<1>2. CASE EnqueueMine
  <2>1. submitted \in Nat /\ mine \in Seq(Versions) /\ \A j \in Jobs : j \in Nat
    BY <1>2, EnqueueMineType DEF SyncInv, TypeOK, Jobs
  <2>2. \A j \in Jobs : j <= submitted \/ j > submitted
    BY <2>1
  <2>3. \A j \in Jobs : j <= submitted => seen'[j] \in Versions
    BY <1>2, SeenStep DEF SyncInv, JobsAreSeen
  <2>4. \A j \in Jobs : j > submitted /\ j <= submitted' => seen'[j] \in Versions
    BY <1>2, <2>1, SeenStep
  <2> QED
    BY <2>2, <2>3, <2>4 DEF JobsAreSeen
<1> QED
  BY <1>1, <1>2, SubmitStep

\* The job that a worker holds is one that a sync has enqueued.
LEMMA HeldIsSeen ==
  ASSUME SyncInv, NEW w \in Workers, wpc[w] \in {"pipeline", "mark_succeeded", "mark_failure"}
  PROVE  /\ job[w] \in Jobs /\ job[w] <= submitted /\ seen[job[w]] \in Versions
         /\ EventOf(job[w]) \in Events
<1>1. job[w] \in Jobs
  BY QueueConstants, QueueProofs!HeldIsJob DEF SyncInv, Jobs, QueueProofs!Jobs
<1>2. status[job[w]] # "absent"
  BY <1>1, QueueAssumption DEF SyncInv, QueueProofs!TypeInv, QueueProofs!ExistIffSubmitted
<1>3. job[w] <= submitted
  <2>1. submitted \in Nat /\ job[w] \in Nat
    BY <1>1, QueueAssumption DEF SyncInv, TypeOK, Queue!TypeOK, Jobs
  <2>2. ~(job[w] > submitted)
    BY <1>1, <1>2 DEF SyncInv, QueueProofs!TypeInv, QueueProofs!ExistIffSubmitted, Jobs, QueueProofs!Jobs
  <2> QED
    BY <2>1, <2>2
<1>4. seen[job[w]] \in Versions
  BY <1>1, <1>3 DEF SyncInv, JobsAreSeen
<1> QED
  BY <1>1, <1>3, <1>4, VersionIs DEF EventOf

LEMMA NextSyncInv == SyncInv /\ [Next]_vars => SyncInv'
<1> SUFFICES ASSUME SyncInv, [Next]_vars PROVE SyncInv'
  OBVIOUS
<1>0. QueueProofs!TypeInv' /\ Queue!TypeOK'
  BY NextQueueInv
<1>a. JobsAreSeen'
  BY NextSeen
<1>1. /\ MaxRetries \in Nat \ {0} /\ MaxSyncs \in Nat /\ NoContent \in Contents
      /\ Versions \subseteq Contents /\ Torn \in Contents /\ NoContent \notin Versions
  BY MaxRetriesAssumption, MaxSyncsAssumption, VersionIs DEF Contents
<1> USE <1>0, <1>a, CalendarsAreListed DEF SyncInv, TypeOK, PhaseInv, SyncPCs
<1>2. ASSUME NEW e \in Events, Edit(e) PROVE SyncInv'
  <2>1. \A f \in Events : revision[f] \in Nat /\ MaxRevision[f] \in Nat
    BY MaxRevisionAssumption
  <2>2. revision' \in [Events -> Nat] /\ \A f \in Events : revision'[f] \in 1..MaxRevision[f]
    BY <1>2, <2>1 DEF Edit
  <2> QED
    BY <1>2, <2>2 DEF Edit, syncVars, ingestVars
<1>3. CASE Begin
  <2>1. report' \in Reports
    BY <1>3 DEF Begin, Reports
  <2>2. syncs' \in 0..MaxSyncs
    BY <1>1, <1>3 DEF Begin
  <2>3. /\ spc' \in {"request", "end"} /\ calendar' = 1 /\ tries' = 0
        /\ spc' = "end" => Len(CalendarIds) = 0
        /\ spc' = "request" => 1 \in 1..Len(CalendarIds)
    BY <1>3 DEF Begin
  <2> QED
    BY <1>1, <1>3, <2>1, <2>2, <2>3 DEF Begin, ingestVars
<1>4. CASE RequestSucceeds
  <2>1. fetched' \subseteq Versions
    BY <1>4, IsVersion DEF RequestSucceeds
  <2>2. pages' \in [DOMAIN CalendarIds -> SUBSET SUBSET Versions]
    BY <1>4, <2>1 DEF RequestSucceeds
  <2> QED
    BY <1>4, <2>1, <2>2 DEF RequestSucceeds, ingestVars
<1>5. CASE RequestRetried
  <2>1. tries' \in 0..MaxRetries - 1
    BY <1>1, <1>5 DEF RequestRetried, LastTry
  <2> QED
    BY <1>5, <2>1 DEF RequestRetried, ingestVars
<1>6. CASE RequestFails
  <2>1. failed' \subseteq ToSet(CalendarIds) /\ NextCalendar
    BY <1>6 DEF RequestFails, CalendarFails
  <2> QED
    BY <1>6, <2>1, NextCalendarType DEF RequestFails, ingestVars
<1>7. CASE SkipEvent
  <2>1. fetched' \subseteq Versions /\ skipped' \subseteq Events
    BY <1>7, VersionIs DEF SkipEvent
  <2> QED
    BY <1>7, <2>1 DEF SkipEvent, ingestVars
<1>8. CASE OpenFile
  <2>1. PICK x \in fetched : fetched' = fetched \ {x} /\ current' = x /\ Write(x.event, Torn)
    BY <1>8 DEF OpenFile
  <2>2. x \in Versions /\ x.event \in Events
    BY VersionIs
  <2>3. file' \in [Names -> Contents] /\ \A n \in DOMAIN file' : file'[n] \in Contents
    BY <1>1, <2>1, <2>2, WriteType
  <2> QED
    BY <1>8, <2>1, <2>2, <2>3 DEF OpenFile, ingestVars
<1>9. CASE StageAndInsert
  <2>1. current \in Versions /\ current.event \in Events
    BY <1>9, VersionIs DEF StageAndInsert
  <2>2. file' \in [Names -> Contents] /\ \A n \in DOMAIN file' : file'[n] \in Contents
    BY <1>1, <1>9, <2>1, WriteType DEF StageAndInsert
  <2>3. mine' \in Seq(Versions)
    BY <1>9, <2>1 DEF StageAndInsert
  <2> QED
    BY <1>9, <2>2, <2>3 DEF StageAndInsert, ingestVars
<1>10. CASE CalendarDone
  BY <1>10, NextCalendarType DEF CalendarDone, ingestVars
<1>11. CASE Complete \/ CommitUnacknowledged
  <2>1. EnqueueMine /\ (Return("complete") \/ Return("failed"))
    BY <1>11 DEF Complete, CommitUnacknowledged
  <2>2. seen' \in [Jobs -> Versions \cup {NoContent}]
    BY <2>1, SeenStep
  <2> QED
    BY <2>1, <2>2, ReturnKeepsSyncInv
<1>12. CASE Degraded \/ Fail
  <2>1. Return("degraded") \/ Return("failed")
    BY <1>12 DEF Degraded, Fail
  <2>2. UNCHANGED seen
    BY <1>12 DEF Degraded, Fail
  <2> QED
    BY <2>1, <2>2, ReturnKeepsSyncInv
<1>13. ASSUME NEW w \in Workers, ReadStaged(w) PROVE SyncInv'
  <2>1. EventOf(job[w]) \in Events
    BY <1>13, HeldIsSeen DEF ReadStaged
  <2>2. read' \in [Workers -> Contents]
    BY <1>13, <2>1, NamesOfEvents DEF ReadStaged
  <2> QED
    BY <1>13, <2>2 DEF ReadStaged, syncVars
<1>14. ASSUME NEW w \in Workers, Ingest(w) \/ IngestRaises(w) PROVE SyncInv'
  <2>1. stored' \in [Events -> Contents]
    BY <1>14 DEF Ingest, IngestRaises, Store
  <2> QED
    BY <1>14, <2>1 DEF Ingest, IngestRaises, syncVars
<1>15. ASSUME NEW w \in Workers, WorkerRuns(w) \/ WorkerStops(w) PROVE SyncInv'
  <2>1. read' \in [Workers -> Contents]
    BY <1>1, <1>15 DEF WorkerRuns, WorkerStops, ingestVars
  <2> QED
    BY <1>15, <2>1 DEF WorkerRuns, WorkerStops, syncVars, ingestVars
<1>16. ASSUME NEW j \in Jobs, Clock(j) PROVE SyncInv'
  BY <1>16 DEF Clock, syncVars, ingestVars
<1>17. CASE UNCHANGED vars
  BY <1>17 DEF vars, syncVars, ingestVars
<1> QED
  BY <1>2, <1>3, <1>4, <1>5, <1>6, <1>7, <1>8, <1>9, <1>10, <1>11, <1>12, <1>13, <1>14, <1>15,
     <1>16, <1>17
     DEF Next, SyncRuns

\* The variables of the sync and of the worker always have their types: no calendar
\* is looked up beyond the list, no event is written without a name, and no job is
\* read before it was enqueued.
THEOREM TypeCorrect == Spec => []TypeOK
<1>1. SyncInv => TypeOK
  BY DEF SyncInv
<1> QED
  BY InitSyncInv, NextSyncInv, <1>1, PTL DEF Spec

-----------------------------------------------------------------------------
(* Complete means answered *)

\* Within a sync what is accounted for stays so, and so does a calendar.
LEMMA AccountedStays ==
  ASSUME SyncInv, NEW x \in Versions, Accounted(x),
         skipped \subseteq skipped',
         mine' = mine \/ (spc = "write" /\ mine' = Append(mine, current))
  PROVE  Accounted(x)'
<1>1. CASE x.event \in skipped
  BY <1>1 DEF Accounted
<1>2. ASSUME NEW k \in DOMAIN mine, mine[k] = x PROVE Accounted(x)'
  <2>1. mine \in Seq(Versions) /\ (spc = "write" => current \in Versions)
    BY DEF SyncInv, TypeOK, PhaseInv
  <2>2. spc = "write" /\ mine' = Append(mine, current) => k \in DOMAIN mine' /\ mine'[k] = mine[k]
    BY <1>2, <2>1
  <2>3. k \in DOMAIN mine' /\ mine'[k] = mine[k]
    BY <1>2, <2>2
  <2> QED
    BY <1>2, <2>3 DEF Accounted
<1> QED
  BY <1>1, <1>2 DEF Accounted

LEMMA ThroughStays ==
  ASSUME SyncInv, NEW i \in 1..Len(CalendarIds), Through(i),
         skipped \subseteq skipped', failed \subseteq failed', pages[i] \subseteq pages'[i],
         mine' = mine \/ (spc = "write" /\ mine' = Append(mine, current))
  PROVE  Through(i)'
<1>1. CASE CalendarIds[i] \in failed
  BY <1>1 DEF Through
<1>2. ASSUME NEW page \in pages[i], \A x \in page : Accounted(x) PROVE Through(i)'
  <2>1. page \subseteq Versions
    BY CalendarsAreListed DEF SyncInv, TypeOK
  <2>2. \A x \in page : Accounted(x)'
    BY <1>2, <2>1, AccountedStays
  <2> QED
    BY <2>2 DEF Through
<1> QED
  BY <1>1, <1>2 DEF Through

LEMMA NextCoverInv == SyncInv /\ CoverInv /\ [Next]_vars => CoverInv'
<1> SUFFICES ASSUME SyncInv, CoverInv, [Next]_vars PROVE CoverInv'
  OBVIOUS
<1>0. /\ calendar \in Nat /\ Len(CalendarIds) \in Nat /\ calendar <= Len(CalendarIds) + 1
      /\ pages \in [1..Len(CalendarIds) -> SUBSET SUBSET Versions]
      /\ spc \in {"request", "events", "write"} => calendar \in 1..Len(CalendarIds)
  BY CalendarsAreListed DEF SyncInv, TypeOK, PhaseInv
<1>1. CASE UNCHANGED syncVars
  BY <1>1 DEF syncVars, CoverInv, Through, Accounted, Coming
<1>2. CASE spc' = "idle"
  BY <1>2 DEF CoverInv
<1>3. CASE Begin
  BY <1>3 DEF Begin, CoverInv
<1>4. ASSUME spc # "idle", calendar' = calendar, skipped \subseteq skipped', failed' = failed,
             mine' = mine \/ (spc = "write" /\ mine' = Append(mine, current)),
             \A i \in 1..Len(CalendarIds) : pages[i] \subseteq pages'[i],
             spc' \in {"events", "write"} =>
               \E page \in pages'[calendar] : \A x \in page : Accounted(x)' \/ x \in Coming'
      PROVE  CoverInv'
  <2>1. \A i \in 1..calendar - 1 : i \in 1..Len(CalendarIds)
    BY <1>0
  <2>2. \A i \in 1..calendar' - 1 : Through(i)'
    BY <1>4, <2>1, ThroughStays DEF CoverInv
  <2> QED
    BY <1>4, <2>2 DEF CoverInv
<1>5. ASSUME spc \in {"request", "events"}, NextCalendar, failed \subseteq failed', UNCHANGED <<pages, mine, skipped>>,
             \A i \in 1..Len(CalendarIds) : i = calendar => Through(i)'
      PROVE  CoverInv'
  <2>1. calendar' = calendar + 1 /\ spc' \notin {"events", "write"}
    BY <1>5 DEF NextCalendar
  <2>2. \A i \in 1..calendar' - 1 : i \in 1..calendar - 1 \/ i = calendar
    BY <1>0, <2>1
  <2>3. \A i \in 1..calendar - 1 : i \in 1..Len(CalendarIds)
    BY <1>0
  <2>4. \A i \in 1..calendar - 1 : Through(i)'
    BY <1>5, <2>3, ThroughStays DEF CoverInv
  <2>5. \A i \in 1..calendar' - 1 : Through(i)'
    <3>1. calendar' - 1 = calendar /\ \A i \in 1..calendar : i \in 1..Len(CalendarIds)
      BY <1>0, <1>5, <2>1 DEF NextCalendar
    <3> QED
      BY <1>5, <2>2, <2>4, <3>1
  <2> QED
    BY <2>1, <2>5 DEF CoverInv
<1>6. CASE RequestSucceeds
  <2>1. /\ pages' = [pages EXCEPT ![calendar] = @ \cup {fetched'}] /\ spc = "request"
        /\ UNCHANGED <<calendar, current, failed, mine, skipped>>
    BY <1>6 DEF RequestSucceeds
  <2>2. calendar \in 1..Len(CalendarIds)
    BY <1>0, <2>1
  <2>3. fetched' \in pages'[calendar] /\ \A i \in 1..Len(CalendarIds) : pages[i] \subseteq pages'[i]
    BY <1>0, <2>1, <2>2
  <2>4. fetched' \subseteq Coming'
    BY DEF Coming
  <2> QED
    BY <1>4, <2>1, <2>3, <2>4
<1>7. CASE RequestRetried
  BY <1>4, <1>7 DEF RequestRetried
<1>8. CASE RequestFails
  <2>1. ASSUME NEW i \in 1..Len(CalendarIds), i = calendar PROVE Through(i)'
    BY <1>8, <2>1 DEF RequestFails, CalendarFails, Through
  <2> QED
    BY <1>5, <1>8, <2>1 DEF RequestFails, CalendarFails
<1>9. CASE SkipEvent
  <2>1. PICK x \in fetched : fetched' = fetched \ {x} /\ skipped' = skipped \cup {x.event}
    BY <1>9 DEF SkipEvent
  <2>2. UNCHANGED <<spc, calendar, pages, current, failed, mine>> /\ spc = "events"
    BY <1>9 DEF SkipEvent
  <2>3. PICK page \in pages[calendar] : \A y \in page : Accounted(y) \/ y \in Coming
    BY <2>2 DEF CoverInv
  <2>4. ASSUME NEW y \in page PROVE Accounted(y)' \/ y \in Coming'
    <3>1. y \in Versions
      BY <1>0, <2>2
    <3>2. CASE Accounted(y)
      BY <2>1, <2>2, <3>1, <3>2, AccountedStays
    <3>3. CASE y \in Coming
      BY <2>1, <2>2, <3>3 DEF Accounted, Coming
    <3> QED
      BY <2>3, <3>2, <3>3
  <2> QED
    BY <1>4, <2>1, <2>2, <2>4
<1>10. CASE OpenFile
  <2>1. PICK x \in fetched : fetched' = fetched \ {x} /\ current' = x
    BY <1>10 DEF OpenFile
  <2>2. spc = "events" /\ UNCHANGED <<calendar, pages, failed, mine, skipped>>
    BY <1>10 DEF OpenFile
  <2>3. x # NoContent /\ current = NoContent
    BY <2>2, VersionIs DEF SyncInv, TypeOK, PhaseInv
  <2>4. Coming' = Coming
    BY <2>1, <2>3 DEF Coming
  <2>5. ASSUME NEW y \in Versions PROVE Accounted(y)' <=> Accounted(y)
    BY <2>2 DEF Accounted
  <2>6. PICK page \in pages[calendar] : \A y \in page : Accounted(y) \/ y \in Coming
    BY <2>2 DEF CoverInv
  <2>7. page \subseteq Versions
    BY <1>0, <2>2
  <2>8. \A y \in page : Accounted(y)' \/ y \in Coming'
    BY <2>4, <2>5, <2>6, <2>7
  <2> QED
    BY <1>4, <2>2, <2>8
<1>11. CASE StageAndInsert
  <2>1. /\ spc = "write" /\ mine' = Append(mine, current) /\ current' = NoContent
        /\ UNCHANGED <<calendar, pages, fetched, failed, skipped>>
    BY <1>11 DEF StageAndInsert
  <2>2. PICK page \in pages[calendar] : \A y \in page : Accounted(y) \/ y \in Coming
    BY <2>1 DEF CoverInv
  <2>3. ASSUME NEW y \in page PROVE Accounted(y)' \/ y \in Coming'
    <3>0. y \in Versions
      BY <1>0, <2>1
    <3>1. CASE Accounted(y)
      BY <2>1, <3>0, <3>1, AccountedStays
    <3>2. CASE y = current
      <4>1. Len(mine) + 1 \in DOMAIN mine' /\ mine'[Len(mine) + 1] = current
        BY <2>1 DEF SyncInv, TypeOK, PhaseInv
      <4> QED
        BY <3>2, <4>1 DEF Accounted
    <3>3. CASE y \in fetched
      BY <2>1, <3>3 DEF Coming
    <3> QED
      BY <2>2, <3>1, <3>2, <3>3 DEF Coming
  <2> QED
    BY <1>4, <2>1, <2>3
<1>12. CASE CalendarDone
  <2>1. /\ spc = "events" /\ Coming = {} /\ NextCalendar
        /\ UNCHANGED <<pages, failed, mine, skipped>>
    BY <1>12 DEF CalendarDone, Coming, SyncInv, PhaseInv
  <2>2. PICK page \in pages[calendar] : \A x \in page : Accounted(x)
    BY <2>1 DEF CoverInv
  <2>3. \A x \in page : Accounted(x)'
    BY <2>1, <2>2 DEF Accounted
  <2>4. \A i \in 1..Len(CalendarIds) : i = calendar => Through(i)'
    BY <2>1, <2>3 DEF Through
  <2> QED
    BY <1>5, <2>1, <2>4
<1>13. CASE Complete \/ Degraded \/ Fail \/ CommitUnacknowledged
  BY <1>2, <1>13 DEF Complete, Degraded, Fail, CommitUnacknowledged, Return
<1>14. ASSUME NEW w \in Workers,
              ReadStaged(w) \/ Ingest(w) \/ IngestRaises(w) \/ WorkerRuns(w) \/ WorkerStops(w)
       PROVE  UNCHANGED syncVars
  BY <1>14 DEF ReadStaged, Ingest, IngestRaises, WorkerRuns, WorkerStops
<1>15. CASE (\E e \in Events : Edit(e)) \/ (\E j \in Jobs : Clock(j)) \/ UNCHANGED vars
  BY <1>1, <1>15 DEF Edit, Clock, vars
<1> QED
  BY <1>1, <1>3, <1>6, <1>7, <1>8, <1>9, <1>10, <1>11, <1>12, <1>13, <1>14, <1>15
     DEF Next, SyncRuns

\* Any event of any calendar can fail by itself: when the sync says it is complete,
\* every calendar has answered, and each event on its page has been refused by name
\* or has a job that was not there before, for the revision that was returned.
THEOREM CompleteSyncsAreAnswered == Spec => CompleteMeansAnswered
<1> DEFINE Answered == \A i \in DOMAIN CalendarIds : \E page \in pages[i] : \A x \in page :
      \/ x.event \in skipped
      \/ \E j \in Jobs : j > submitted /\ seen'[j] = x
<1>1. SyncInv /\ CoverInv /\ [Next]_vars
        => [report.kind # "complete" /\ report'.kind = "complete" => Answered]_vars
  <2> SUFFICES ASSUME SyncInv, CoverInv, Next,
                      report.kind # "complete", report'.kind = "complete"
               PROVE  Answered
    OBVIOUS
  <2>1. Complete
    <3>1. \A w \in Workers :
            ReadStaged(w) \/ Ingest(w) \/ IngestRaises(w) \/ WorkerRuns(w) \/ WorkerStops(w)
              => UNCHANGED report
      BY DEF ReadStaged, Ingest, IngestRaises, WorkerRuns, WorkerStops, syncVars
    <3>2. (\E e \in Events : Edit(e)) \/ (\E j \in Jobs : Clock(j)) => UNCHANGED report
      BY DEF Edit, Clock, syncVars
    <3>3. Begin \/ Degraded \/ Fail \/ CommitUnacknowledged => report'.kind # "complete"
      BY DEF Begin, Degraded, Fail, CommitUnacknowledged, Return
    <3> QED
      BY <3>1, <3>2, <3>3
         DEF Next, SyncRuns, RequestSucceeds, RequestRetried, RequestFails, SkipEvent, OpenFile,
             StageAndInsert, CalendarDone
  <2>2. spc = "end" /\ failed = {} /\ EnqueueMine
    BY <2>1 DEF Complete
  <2>3. SUFFICES ASSUME NEW i \in DOMAIN CalendarIds
                 PROVE  \E page \in pages[i] : \A x \in page :
                          \/ x.event \in skipped
                          \/ \E j \in Jobs : j > submitted /\ seen'[j] = x
    OBVIOUS
  <2>4. i \in 1..calendar - 1
    BY <2>2, CalendarsAreListed DEF SyncInv, PhaseInv
  <2>5. PICK page \in pages[i] : \A x \in page : Accounted(x)
    BY <2>2, <2>4 DEF CoverInv, Through
  <2>6. ASSUME NEW x, NEW k \in DOMAIN mine, mine[k] = x
        PROVE  \E j \in Jobs : j > submitted /\ seen'[j] = x
    <3>1. submitted + k \in Jobs /\ seen'[submitted + k] = mine[k]
      BY <2>2, SeenStep
    <3>2. submitted + k > submitted
      BY <2>2, EnqueueMineType DEF SyncInv, TypeOK
    <3> QED
      BY <2>6, <3>1, <3>2
  <2> QED
    BY <2>5, <2>6 DEF Accounted
<1>2. Init => CoverInv
  BY DEF Init, CoverInv
<1> QED
  BY InitSyncInv, NextSyncInv, NextCoverInv, <1>1, <1>2, PTL DEF Spec, CompleteMeansAnswered

-----------------------------------------------------------------------------
(* The files serve the jobs *)

LEMMA PromisedAreVersions ==
  ASSUME SyncInv
  PROVE  Promised \subseteq Versions /\ Coming \subseteq Versions
<1>1. \A j \in 1..submitted : j \in Jobs /\ j <= submitted
  BY QueueAssumption DEF SyncInv, TypeOK, Queue!TypeOK, Jobs
<1>2. \A i \in DOMAIN mine : mine[i] \in Versions
  BY DEF SyncInv, TypeOK
<1> QED
  BY <1>1, <1>2 DEF Promised, Coming, SyncInv, TypeOK, JobsAreSeen

LEMMA InitFileInv == Init => FileInv
<1> SUFFICES ASSUME Init PROVE FileInv
  OBVIOUS
<1>1. Promised = {} /\ Coming = {}
  BY DEF Init, Queue!Init, Promised, Coming
<1> QED
  BY <1>1 DEF FileInv

\* No promise is added and no file is touched.
LEMMA FewerPromises ==
  ASSUME FileInv, Promised' \subseteq Promised, Coming' \subseteq Coming,
         UNCHANGED <<revision, file>>
  PROVE  FileInv'
BY DEF FileInv

LEMMA CommitKeepsPromises ==
  ASSUME SyncInv, EnqueueMine, mine' = <<>>
  PROVE  Promised' \subseteq Promised
<1>1. /\ submitted \in Nat /\ submitted' \in 0..NumJobs
      /\ \A j \in 1..submitted' : j \in Jobs /\ j <= submitted'
  BY EnqueueMineType, QueueAssumption DEF SyncInv, TypeOK, Jobs
<1>2. ASSUME NEW j \in 1..submitted' PROVE seen'[j] \in Promised
  <2>1. CASE j <= submitted
    BY <1>1, <2>1, SeenStep DEF Promised
  <2>2. CASE j > submitted
    BY <1>1, <2>2, SeenStep DEF Promised
  <2> QED
    BY <1>1, <2>1, <2>2
<1>3. DOMAIN mine' = {}
  OBVIOUS
<1> QED
  BY <1>2, <1>3 DEF Promised

LEMMA NextFileInv ==
  ASSUME \A e, f \in Events : FileName[e] = FileName[f] => e = f
  PROVE  SyncInv /\ FileInv /\ [Next]_vars => FileInv'
<1> SUFFICES ASSUME SyncInv, FileInv, [Next]_vars PROVE FileInv'
  OBVIOUS
<1>0. /\ Promised \subseteq Versions /\ Coming \subseteq Versions
      /\ revision \in [Events -> Nat]
  BY PromisedAreVersions DEF SyncInv
<1>1. CASE UNCHANGED <<submitted, seen, mine, fetched, current, revision, file>>
  BY <1>1, FewerPromises DEF Promised, Coming
<1>2. ASSUME NEW e \in Events, Edit(e) PROVE FileInv'
  <2>1. UNCHANGED <<submitted, seen, mine, fetched, current, file>>
    BY <1>2 DEF Edit, queueVars, syncVars
  <2>2. Promised' = Promised /\ Coming' = Coming
    BY <2>1 DEF Promised, Coming
  <2>3. \A f \in Events : revision[f] <= revision'[f]
    BY <1>0, <1>2 DEF Edit
  <2>4. \A v \in Promised \cup Coming : v.revision <= revision'[v.event]
    <3>1. SUFFICES ASSUME NEW v \in Promised \cup Coming PROVE v.revision <= revision'[v.event]
      OBVIOUS
    <3>2. v.event \in Events /\ v.revision \in Nat
      BY <1>0, VersionIs
    <3>3. revision[v.event] \in Nat /\ revision'[v.event] \in Nat
      BY <1>0, <1>2, <3>2 DEF Edit
    <3>4. v.revision <= revision[v.event]
      BY DEF FileInv
    <3> QED
      BY <2>3, <3>2, <3>3, <3>4
  <2> QED
    BY <2>1, <2>2, <2>4 DEF FileInv
<1>3. CASE RequestSucceeds
  <2>1. UNCHANGED <<submitted, seen, mine, current, file, revision>>
    BY <1>3 DEF RequestSucceeds, queueVars
  <2>a. PICK page \in SUBSET {e \in Events : CalendarOf[e] = CalendarIds[calendar]} :
          fetched' = {[event |-> e, revision |-> revision[e]] : e \in page}
    BY <1>3 DEF RequestSucceeds
  <2>2. current = NoContent
    BY <1>3 DEF RequestSucceeds, SyncInv, PhaseInv
  <2>3. Promised' = Promised /\ Coming' = fetched'
    BY <2>1, <2>2, NoEventAssumption DEF Promised, Coming, NoContent
  <2>4. \A x \in fetched' : x.event \in Events /\ x.revision = revision[x.event]
    BY <2>a
  <2>5. \A x \in fetched' : x.revision <= revision[x.event]
    BY <1>0, <2>4
  <2>6. \A v \in Promised, x \in fetched' : v.event = x.event => v.revision <= x.revision
    BY <2>4 DEF FileInv
  <2> QED
    BY <2>1, <2>3, <2>4, <2>5, <2>6 DEF FileInv
<1>4. CASE SkipEvent
  BY <1>4, FewerPromises DEF SkipEvent, queueVars, Promised, Coming
<1>5. CASE OpenFile
  <2>1. PICK x \in fetched :
          /\ fetched' = fetched \ {x} /\ current' = x
          /\ file' = [file EXCEPT ![FileName[x.event]] = Torn]
    BY <1>5 DEF OpenFile, Write
  <2>2. UNCHANGED <<submitted, seen, mine, revision>> /\ spc = "events"
    BY <1>5 DEF OpenFile, queueVars
  <2>3. current = NoContent /\ x # NoContent
    BY <2>2, VersionIs DEF SyncInv, TypeOK, PhaseInv
  <2>4. Promised' = Promised /\ Coming' = Coming
    BY <2>1, <2>2, <2>3 DEF Promised, Coming
  <2>5. \A v \in Promised : file'[FileName[v.event]] \in {Torn, file[FileName[v.event]]}
    BY <1>0, <2>1, VersionIs, NamesOfEvents DEF SyncInv
  <2> QED
    BY <2>2, <2>4, <2>5 DEF FileInv, Serves
<1>6. CASE StageAndInsert
  <2>1. /\ UNCHANGED <<submitted, seen, fetched, revision>> /\ spc = "write"
        /\ mine' = Append(mine, current) /\ current' = NoContent
        /\ file' = [file EXCEPT ![FileName[current.event]] = current]
    BY <1>6 DEF StageAndInsert, Write, queueVars
  <2>2. current \in Coming /\ current \in Versions
    BY <2>1, VersionIs DEF Coming, SyncInv, PhaseInv
  <2>3. Coming' \subseteq Coming
    BY <2>1 DEF Coming
  <2>4. Promised' \subseteq Promised \cup {current}
    <3>1. \A i \in DOMAIN mine' : mine'[i] = current \/ (i \in DOMAIN mine /\ mine'[i] = mine[i])
      BY <2>1, <2>2 DEF SyncInv, TypeOK
    <3> QED
      BY <2>1, <3>1 DEF Promised
  <2>5. ASSUME NEW v \in Promised' PROVE Serves(file'[FileName[v.event]], v)
    <3>1. v \in Versions /\ v.event \in Events /\ current.event \in Events
          /\ current.revision \in Nat
      BY <1>0, <2>2, <2>4, VersionIs
    <3>2. CASE v.event = current.event
      <4>1. file'[FileName[v.event]] = current
        BY <2>1, <3>1, <3>2, NamesOfEvents DEF SyncInv
      <4>2. v.revision <= current.revision
        BY <2>2, <2>4, <3>1, <3>2 DEF FileInv
      <4>3. current.revision >= v.revision
        BY <3>1, <4>2, VersionIs
      <4> QED
        BY <3>2, <4>1, <4>3 DEF Serves
    <3>3. CASE v.event # current.event
      <4>1. file'[FileName[v.event]] = file[FileName[v.event]]
        BY <2>1, <3>1, <3>3, NamesOfEvents DEF SyncInv
      <4> QED
        BY <2>4, <3>3, <4>1 DEF FileInv
    <3> QED
      BY <3>2, <3>3
  <2>6. \A v \in Promised', x \in Coming' : v.event = x.event => v.revision <= x.revision
    <3>1. SUFFICES ASSUME NEW v \in Promised', NEW x \in Coming', v.event = x.event
                   PROVE  v.revision <= x.revision
      OBVIOUS
    <3>2. x.revision \in Nat
      BY <1>0, <2>3, VersionIs
    <3>3. v = current => v.revision = x.revision
      BY <2>2, <2>3, <3>1 DEF FileInv
    <3> QED
      BY <2>3, <2>4, <3>1, <3>2, <3>3 DEF FileInv
  <2> QED
    BY <2>1, <2>2, <2>3, <2>4, <2>5, <2>6 DEF FileInv
<1>7. CASE Complete \/ CommitUnacknowledged
  <2>1. EnqueueMine /\ mine' = <<>> /\ Coming' = {} /\ UNCHANGED <<revision, file>>
    BY <1>7 DEF Complete, CommitUnacknowledged, Return, Coming
  <2> QED
    BY <2>1, CommitKeepsPromises, FewerPromises
<1>8. CASE Degraded \/ Fail
  <2>1. mine' = <<>> /\ Coming' = {} /\ UNCHANGED <<revision, file, submitted, seen>>
    BY <1>8 DEF Degraded, Fail, Return, Coming, queueVars
  <2>2. Promised' \subseteq Promised
    BY <2>1 DEF Promised
  <2> QED
    BY <2>1, <2>2, FewerPromises
<1>9. ASSUME NEW w \in Workers,
             ReadStaged(w) \/ Ingest(w) \/ IngestRaises(w) \/ WorkerRuns(w) \/ WorkerStops(w)
      PROVE  FileInv'
  <2>1. UNCHANGED <<syncVars, seen, revision, file>>
    BY <1>9 DEF ReadStaged, Ingest, IngestRaises, WorkerRuns, WorkerStops
  <2>2. UNCHANGED submitted
    BY <1>9 DEF ReadStaged, Ingest, IngestRaises, WorkerRuns, WorkerStops, queueVars, Queue!Works,
       Queue!Start, Queue!Recover, Queue!Claim, Queue!PipelineCommits, Queue!PipelineRaises,
       Queue!MarkSucceeded, Queue!MarkSucceededRaises, Queue!MarkTerminal, Queue!MarkRetryable,
       Queue!Idle, Queue!vars, Queue!Crash
  <2> QED
    BY <1>1, <2>1, <2>2 DEF syncVars
<1>10. CASE (\E j \in Jobs : Clock(j)) \/ UNCHANGED vars
  BY <1>1, <1>10 DEF Clock, vars, queueVars, syncVars, Queue!BackoffElapses, Queue!BecomesStale
<1>11. CASE Begin \/ RequestRetried \/ RequestFails \/ CalendarDone
  BY <1>1, <1>11 DEF Begin, RequestRetried, RequestFails, CalendarDone, queueVars
<1> QED
  BY <1>2, <1>3, <1>4, <1>5, <1>6, <1>7, <1>8, <1>9, <1>10, <1>11 DEF Next, SyncRuns

-----------------------------------------------------------------------------
(* What succeeded is in the store *)

ServedInv == ReadInv /\ StoreInv

LEMMA SucceededIsServed ==
  SucceededIsAsSeen <=>
    \A j \in Jobs : status[j] = "succeeded" => Serves(stored[EventOf(j)], seen[j])
BY DEF SucceededIsAsSeen, Serves, EventOf

LEMMA InitServedInv == Init => ServedInv
BY DEF Init, Queue!Init, ServedInv, ReadInv, StoreInv, SucceededIsAsSeen, Jobs, Queue!Jobs

\* A job that has succeeded was submitted.
LEMMA SucceededIsSubmitted ==
  ASSUME SyncInv, NEW j \in Jobs, status[j] = "succeeded"
  PROVE  j <= submitted
<1>1. submitted \in Nat /\ j \in Nat
  BY QueueAssumption DEF SyncInv, TypeOK, Queue!TypeOK, Jobs
<1>2. ~(j > submitted)
  BY DEF SyncInv, QueueProofs!TypeInv, QueueProofs!ExistIffSubmitted, Jobs, QueueProofs!Jobs
<1> QED
  BY <1>1, <1>2

\* The steps of the user, the sync and the clock.
LEMMA OthersKeepServed ==
  ASSUME SyncInv, ServedInv,
         UNCHANGED <<wpc, job, read, stored>>,
         \A j \in Jobs : status'[j] = "succeeded" => status[j] = "succeeded",
         \A j \in Jobs : j <= submitted => seen'[j] = seen[j]
  PROVE  ServedInv'
<1>1. \A j \in Jobs : status'[j] = "succeeded" => status[j] = "succeeded" /\ seen'[j] = seen[j]
  BY SucceededIsSubmitted
<1>2. \A w \in Workers : wpc[w] \in {"pipeline", "mark_succeeded"} =>
        job[w] \in Jobs /\ seen'[job[w]] = seen[job[w]]
  BY HeldIsSeen
<1>3. SucceededIsAsSeen'
  BY <1>1 DEF ServedInv, StoreInv, SucceededIsAsSeen, EventOf
<1>4. StoreInv'
  BY <1>2, <1>3 DEF ServedInv, StoreInv, EventOf, Serves
<1>5. ReadInv'
  <2> SUFFICES ASSUME NEW w \in Workers, wpc'[w] = "pipeline" /\ read'[w] # NoContent,
                      NEW j \in Jobs, status'[j] = "succeeded" \/ j = job'[w],
                      EventOf(j)' = seen'[job'[w]].event
               PROVE  Serves(read'[w], seen'[j])
    BY DEF ReadInv, EventOf, Serves
  <2>1. seen'[j] = seen[j] /\ seen'[job[w]] = seen[job[w]]
    BY <1>1, <1>2
  <2> QED
    BY <1>1, <2>1 DEF ServedInv, ReadInv, EventOf
<1> QED
  BY <1>4, <1>5 DEF ServedInv

\* The worker stores what it has read for the event of its job.
LEMMA StoreServes ==
  ASSUME SyncInv, ServedInv, NEW w \in Workers, wpc[w] = "pipeline", read[w] # NoContent,
         Store(w), UNCHANGED <<status, seen>>
  PROVE  SucceededIsAsSeen' /\ Serves(stored'[EventOf(job[w])], seen[job[w]])
<1>1. job[w] \in Jobs /\ EventOf(job[w]) \in Events
  BY HeldIsSeen
<1>2. \A e \in Events : stored'[e] = IF e = EventOf(job[w]) THEN read[w] ELSE stored[e]
  BY <1>1 DEF Store, SyncInv, TypeOK
<1>3. ASSUME NEW j \in Jobs, status[j] = "succeeded"
      PROVE  Serves(stored'[EventOf(j)], seen[j])
  <2>1. EventOf(j) \in Events
    BY <1>3, SucceededIsSubmitted, VersionIs DEF SyncInv, JobsAreSeen, EventOf
  <2>2. CASE EventOf(j) = EventOf(job[w])
    BY <1>2, <1>3, <2>1, <2>2 DEF ServedInv, ReadInv
  <2>3. CASE EventOf(j) # EventOf(job[w])
    BY <1>2, <1>3, <2>1, <2>3, SucceededIsServed DEF ServedInv, StoreInv
  <2> QED
    BY <2>2, <2>3
<1>4. SucceededIsAsSeen'
  BY <1>3 DEF SucceededIsAsSeen, Serves, EventOf
<1>5. Serves(stored'[EventOf(job[w])], seen[job[w]])
  BY <1>1, <1>2 DEF ServedInv, ReadInv
<1> QED
  BY <1>4, <1>5

LEMMA NextServedInv ==
  ASSUME \A v, w \in Workers : v = w
  PROVE  SyncInv /\ FileInv /\ ServedInv /\ [Next]_vars => ServedInv'
<1> SUFFICES ASSUME SyncInv, FileInv, ServedInv, [Next]_vars PROVE ServedInv'
  OBVIOUS
<1>0. /\ wpc \in [Workers -> QueueProofs!WorkerPCs] /\ read \in [Workers -> Contents]
      /\ status \in [Jobs -> {"absent", "queued", "running", "succeeded", "failed"}]
  BY DEF SyncInv, TypeOK, Queue!TypeOK, Queue!WorkerPCs, QueueProofs!WorkerPCs, Jobs, Queue!Jobs
<1>1. CASE UNCHANGED <<wpc, job, read, stored, status, seen>>
  BY <1>1, OthersKeepServed
<1>2. CASE Complete \/ CommitUnacknowledged
  <2>1. EnqueueMine /\ UNCHANGED <<wpc, job, read, stored>>
    BY <1>2 DEF Complete, CommitUnacknowledged, EnqueueMine, Return, ingestVars
  <2>2. \A j \in Jobs : status'[j] = "succeeded" => status[j] = "succeeded"
    BY <2>1 DEF EnqueueMine
  <2> QED
    BY <2>1, <2>2, SeenStep, OthersKeepServed
<1>3. ASSUME SyncRuns, ~Complete
      PROVE  UNCHANGED <<wpc, job, read, stored, status, seen>>
  BY <1>3 DEF SyncRuns, RequestSucceeds, RequestRetried, RequestFails, SkipEvent, OpenFile,
     StageAndInsert, CalendarDone, Degraded, Return, ingestVars, queueVars
<1>4. ASSUME NEW w \in Workers, ReadStaged(w) PROVE ServedInv'
  <2>1. /\ wpc[w] = "pipeline" /\ read' = [read EXCEPT ![w] = file[FileName[EventOf(job[w])]]]
        /\ UNCHANGED <<wpc, job, status, submitted, seen, stored>>
    BY <1>4 DEF ReadStaged, queueVars
  <2>2. \A v \in Workers : v = w
    OBVIOUS
  <2>3. StoreInv'
    BY <2>1 DEF ServedInv, StoreInv, SucceededIsAsSeen, EventOf, Serves
  <2>4. ASSUME NEW j \in Jobs, status[j] = "succeeded" \/ j = job[w],
               EventOf(j) = EventOf(job[w])
        PROVE  Serves(file[FileName[EventOf(job[w])]], seen[j])
    <3>1. j <= submitted
      BY <2>1, <2>4, SucceededIsSubmitted, HeldIsSeen
    <3>2. j \in 1..submitted
      BY <3>1, QueueAssumption DEF Jobs, SyncInv, TypeOK, Queue!TypeOK
    <3>3. seen[j] \in Promised
      BY <3>2 DEF Promised
    <3> QED
      BY <2>4, <3>3 DEF FileInv, EventOf
  <2>5. read'[w] = file[FileName[EventOf(job[w])]]
    BY <1>0, <2>1
  <2>6. ReadInv'
    BY <2>1, <2>2, <2>4, <2>5 DEF ReadInv, EventOf, Serves
  <2> QED
    BY <2>3, <2>6 DEF ServedInv
<1>5. ASSUME NEW w \in Workers, Ingest(w) PROVE ServedInv'
  <2>1. /\ wpc[w] = "pipeline" /\ wpc' = [wpc EXCEPT ![w] = "mark_succeeded"]
        /\ read[w] # NoContent /\ Store(w)
        /\ UNCHANGED <<job, status, seen>>
    BY <1>5 DEF Ingest, Queue!PipelineCommits, Queue!Goto, Queue!columns
  <2>2. SucceededIsAsSeen' /\ Serves(stored'[EventOf(job[w])], seen[job[w]])
    BY <2>1, StoreServes
  <2>3. wpc'[w] = "mark_succeeded" /\ \A v \in Workers : v = w
    BY <1>0, <2>1
  <2> QED
    BY <2>1, <2>2, <2>3 DEF ServedInv, StoreInv, ReadInv, EventOf, Serves
<1>6. ASSUME NEW w \in Workers, IngestRaises(w) PROVE ServedInv'
  <2>1. /\ wpc[w] = "pipeline" /\ wpc' = [wpc EXCEPT ![w] = "mark_failure"]
        /\ UNCHANGED <<job, status, seen>>
        /\ UNCHANGED stored \/ (read[w] # NoContent /\ Store(w))
    BY <1>6 DEF IngestRaises, Queue!PipelineRaises, Queue!Goto, Queue!columns
  <2>2. SucceededIsAsSeen'
    <3>1. CASE UNCHANGED stored
      BY <2>1, <3>1 DEF ServedInv, StoreInv, SucceededIsAsSeen, EventOf
    <3> QED
      BY <2>1, <3>1, StoreServes
  <2>3. wpc'[w] = "mark_failure" /\ \A v \in Workers : v = w
    BY <1>0, <2>1
  <2> QED
    BY <2>2, <2>3 DEF ServedInv, StoreInv, ReadInv
<1>7. ASSUME NEW w \in Workers, WorkerRuns(w) PROVE ServedInv'
  <2>1. /\ wpc[w] # "pipeline" /\ Queue!Works(w) /\ UNCHANGED <<seen, stored>>
        /\ read' = [read EXCEPT ![w] = NoContent]
    BY <1>7 DEF WorkerRuns
  <2>2. /\ wpc'[w] # "mark_succeeded"
        /\ \A j \in Jobs : status'[j] = "succeeded" =>
             status[j] = "succeeded" \/ (wpc[w] = "mark_succeeded" /\ j = job[w])
    <3> USE <1>0 DEF Queue!Goto, Queue!columns, Jobs, Queue!Jobs
    <3>1. CASE Queue!Start(w) \/ Queue!Recover(w) \/ Queue!Claim(w)
      BY <3>1 DEF Queue!Start, Queue!Recover, Queue!Claim
    <3>2. CASE Queue!MarkSucceeded(w) \/ Queue!MarkSucceededRaises(w)
      BY <3>2 DEF Queue!MarkSucceeded, Queue!MarkSucceededRaises, Queue!Settle
    <3>3. CASE Queue!MarkTerminal(w) \/ Queue!MarkRetryable(w)
      BY <3>3 DEF Queue!MarkTerminal, Queue!MarkRetryable, Queue!Settle
    <3> QED
      BY <2>1, <3>1, <3>2, <3>3 DEF Queue!Works, Queue!PipelineCommits, Queue!PipelineRaises
  <2>3. \A v \in Workers : v = w
    OBVIOUS
  <2>4. read'[w] = NoContent
    BY <1>0, <2>1
  <2>5. ReadInv'
    BY <2>3, <2>4 DEF ReadInv
  <2>6. SucceededIsAsSeen'
    <3>1. \A j \in Jobs : status'[j] = "succeeded" => Serves(stored[EventOf(j)], seen[j])
      BY <2>2, SucceededIsServed DEF ServedInv, StoreInv
    <3> QED
      BY <2>1, <3>1 DEF SucceededIsAsSeen, Serves, EventOf
  <2> QED
    BY <2>2, <2>3, <2>5, <2>6 DEF ServedInv, StoreInv
<1>8. ASSUME NEW w \in Workers, WorkerStops(w) PROVE ServedInv'
  <2>1. CASE Queue!Idle(w)
    BY <1>1, <1>8, <2>1 DEF WorkerStops, Queue!Idle, Queue!vars, Queue!columns, ingestVars
  <2>2. CASE Queue!Crash(w)
    <3>1. wpc' = [wpc EXCEPT ![w] = "down"] /\ UNCHANGED <<status, seen, stored>>
      BY <1>8, <2>2 DEF WorkerStops, Queue!Crash, Queue!Goto, Queue!columns, ingestVars
    <3>2. wpc'[w] = "down" /\ \A v \in Workers : v = w
      BY <1>0, <3>1
    <3> QED
      BY <3>1, <3>2 DEF ServedInv, StoreInv, ReadInv, SucceededIsAsSeen, EventOf
  <2> QED
    BY <1>8, <2>1, <2>2 DEF WorkerStops
<1>9. CASE (\E j \in Jobs : Clock(j)) \/ (\E e \in Events : Edit(e)) \/ UNCHANGED vars
  BY <1>1, <1>9 DEF Clock, Edit, vars, queueVars, ingestVars, Queue!BackoffElapses,
     Queue!BecomesStale
<1>10. CASE Begin \/ Fail
  BY <1>1, <1>10 DEF Begin, Fail, Return, queueVars, ingestVars
<1> QED
  BY <1>1, <1>2, <1>3, <1>4, <1>5, <1>6, <1>7, <1>8, <1>9, <1>10 DEF Next

\* The file of an event is rewritten by every sync while jobs of the syncs before
\* it still wait: with one worker, and when no two events share a file name, a job
\* that succeeded brought its event into the store as its sync saw it or newer, or
\* found the file empty, however often syncs and the worker failed in between.
THEOREM SucceededAsSeen ==
  ASSUME \A v, w \in Workers : v = w,
         \A e, f \in Events : FileName[e] = FileName[f] => e = f
  PROVE  Spec => []SucceededIsAsSeen
<1>1. ServedInv => SucceededIsAsSeen
  BY DEF ServedInv, StoreInv
<1>2. SyncInv /\ FileInv /\ [Next]_vars => FileInv'
  BY NextFileInv
<1>3. SyncInv /\ FileInv /\ ServedInv /\ [Next]_vars => ServedInv'
  BY NextServedInv
<1> QED
  BY InitSyncInv, NextSyncInv, InitFileInv, InitServedInv, <1>1, <1>2, <1>3, PTL DEF Spec
=============================================================================
