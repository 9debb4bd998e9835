---------------------------- MODULE CalendarSync ----------------------------
(***************************************************************************)
(* `cos sync calendar` (src/cos/services/calendar.py,                      *)
(* connectors/calendar.py) beside the ingest worker of JobQueue.           *)
(*                                                                         *)
(* A sync asks for one page of each calendar after another, with retries,  *)
(* writes each event of it to the file that has its name, over what an     *)
(* earlier sync left there, and inserts a job for it.  The jobs are        *)
(* committed together when the sync ends, unless a calendar failed: the    *)
(* exception that says so leaves the connection block, which rolls them    *)
(* back.  The files are not part of the transaction: a job that an earlier *)
(* sync enqueued ingests what a later one has written.                     *)
(*                                                                         *)
(* One sync runs at a time.  Two revisions of an event have different      *)
(* texts, and the version that an ingest observes is CanonicalStore's.     *)
(***************************************************************************)
EXTENDS Naturals, Sequences, FiniteSets, SequencesExt

CONSTANTS
  CalendarIds,   \* calendar_ids, in the order of the configuration
  Events,
  CalendarOf,    \* the calendar of each event
  FileName,      \* of each event: the slugs of its calendar's id and of its own
  MaxResults,    \* max_results
  MaxRetries,    \* _MAX_RETRIES
  MaxRevision,   \* bound: how many revisions of each event there are
  MaxSyncs,      \* bound: how many syncs are run
  NoEvent,
  NumJobs, Workers, NoJob, MaxAttempts, Slow, MaxCrashes  \* those of JobQueue

ASSUME CalendarIdsAssumption == CalendarIds \in Seq(ToSet(CalendarIds))
ASSUME CalendarOfAssumption == CalendarOf \in [Events -> ToSet(CalendarIds)]
ASSUME MaxRevisionAssumption == \A e \in Events : MaxRevision[e] \in Nat \ {0}
ASSUME MaxResultsAssumption == MaxResults \in Nat \ {0}
ASSUME MaxRetriesAssumption == MaxRetries \in Nat \ {0}
ASSUME MaxSyncsAssumption == MaxSyncs \in Nat
\* Every sync may enqueue a page of every calendar: the bound on jobs is never felt.
ASSUME RoomForJobs == NumJobs >= MaxSyncs * Len(CalendarIds) * MaxResults
ASSUME NoEventAssumption == NoEvent \notin Events

VARIABLES
  submitted, status, attempts, available, stale, ingested,  \* those of JobQueue
  wpc, job, attempt, crashes,
  revision,   \* of each event in Google Calendar
  spc,        \* what the sync does next
  calendar,   \* the position of the current calendar
  tries,      \* the failed attempts at its request
  fetched,    \* its events that are not yet handled, as they were returned
  pages,      \* history: what the sync was answered for each calendar, {} before that
  current,    \* the event that is being written
  failed,     \* failed_calendars
  mine,       \* the events whose jobs are not yet committed
  skipped,    \* the events that normalise_event refused
  report,     \* what the last sync has printed
  syncs,
  file,       \* the content of each staged file
  seen,       \* of each job: the event and the revision that it was enqueued for
  read,       \* what each worker has read of its job's file
  stored      \* of each event: the content that was ingested last

queueVars  == <<submitted, status, attempts, available, stale, ingested,
                wpc, job, attempt, crashes>>
syncVars   == <<spc, calendar, tries, fetched, pages, current, failed, mine, skipped, report, syncs>>
ingestVars == <<read, stored>>
vars == <<queueVars, revision, syncVars, file, seen, ingestVars>>

Queue == INSTANCE JobQueue

Jobs == 1..NumJobs

\* What JobQueue assumes of its constants.
ASSUME QueueAssumption ==
  /\ NumJobs \in Nat \ {0} /\ NoJob \notin Jobs
  /\ MaxAttempts \in Nat \ {0} /\ Slow \subseteq Jobs /\ MaxCrashes \in Nat

NoContent == [event |-> NoEvent, revision |-> 0]
Versions  == UNION {[event : {e}, revision : 1..MaxRevision[e]] : e \in Events}
\* An empty file: it has been opened for writing.
Torn      == [event |-> NoEvent, revision |-> 1]
Contents  == Versions \cup {NoContent, Torn}

NoPages == [i \in DOMAIN CalendarIds |-> {}]

SyncPCs == {"idle", "request", "events", "write", "end"}
Reports == [kind : {"none", "complete", "degraded", "failed"}, jobs : Seq(Versions)]

TypeOK ==
  /\ Queue!TypeOK
  /\ \A e \in Events : revision[e] \in 1..MaxRevision[e]
  /\ spc \in SyncPCs
  /\ calendar \in 0..Len(CalendarIds) + 1
  /\ spc \in {"request", "events", "write"} => calendar \in DOMAIN CalendarIds
  /\ tries \in 0..MaxRetries - 1
  /\ pages \in [DOMAIN CalendarIds -> SUBSET SUBSET Versions]
  /\ fetched \subseteq Versions /\ current \in Versions \cup {NoContent}
  /\ failed \subseteq ToSet(CalendarIds) /\ skipped \subseteq Events
  /\ mine \in Seq(Versions)
  /\ report \in Reports
  /\ syncs \in 0..MaxSyncs
  /\ \A n \in DOMAIN file : file[n] \in Contents
  /\ seen \in [Jobs -> Versions \cup {NoContent}]
  /\ read \in [Workers -> Contents]
  /\ stored \in [Events -> Contents]

Init ==
  /\ Queue!Init
  /\ revision = [e \in Events |-> 1]
  /\ spc = "idle" /\ calendar = 0 /\ tries = 0
  /\ pages = NoPages /\ fetched = {} /\ current = NoContent
  /\ failed = {} /\ skipped = {} /\ mine = <<>>
  /\ report = [kind |-> "none", jobs |-> <<>>]
  /\ syncs = 0
  /\ file = [n \in {FileName[e] : e \in Events} |-> NoContent]
  /\ seen = [j \in Jobs |-> NoContent]
  /\ read = [w \in Workers |-> NoContent]
  /\ stored = [e \in Events |-> NoContent]

-----------------------------------------------------------------------------
(* The user edits an event *)

Edit(e) ==
  /\ revision[e] < MaxRevision[e]
  /\ revision' = [revision EXCEPT ![e] = @ + 1]
  /\ UNCHANGED <<queueVars, syncVars, file, seen, ingestVars>>

-----------------------------------------------------------------------------
(* The sync *)

Begin ==
  /\ spc = "idle"
  /\ syncs < MaxSyncs
  /\ syncs' = syncs + 1
  /\ spc' = IF CalendarIds = <<>> THEN "end" ELSE "request"
  /\ calendar' = 1 /\ tries' = 0
  /\ report' = [kind |-> "none", jobs |-> <<>>]
  /\ UNCHANGED <<queueVars, revision, fetched, pages, current, failed, mine, skipped, file, seen, ingestVars>>

\* The mutant looks whether there is a calendar left after it has taken one too many.
Mutant_NextCalendar ==
  /\ calendar' = calendar + 1
  /\ tries' = 0
  /\ spc' = IF calendar > Len(CalendarIds) THEN "end" ELSE "request"

NextCalendar ==
  /\ calendar' = calendar + 1
  /\ tries' = 0
  /\ spc' = IF calendar = Len(CalendarIds) THEN "end" ELSE "request"

\* list_events returns the items of one answer, at most max_results: those that start
\* first, which the user may change, among those in the time window, and perhaps
\* fewer.  The nextPageToken, which says that there are more, is not looked at.
RequestSucceeds ==
  /\ spc = "request"
  /\ \E page \in SUBSET {e \in Events : CalendarOf[e] = CalendarIds[calendar]} :
       /\ Cardinality(page) <= MaxResults
       /\ fetched' = {[event |-> e, revision |-> revision[e]] : e \in page}
  /\ pages' = [pages EXCEPT ![calendar] = @ \cup {fetched'}]
  /\ spc' = "events"
  /\ UNCHANGED <<queueVars, revision, calendar, tries, current, failed, mine, skipped, report, syncs,
                 file, seen, ingestVars>>

\* Attempts are counted from 0.  The mutant never gives up.
Mutant_LastTry == FALSE
LastTry == tries + 1 >= MaxRetries

\* failed_calendars.append.  The mutant only logs.
Mutant_CalendarFails == failed' = failed /\ NextCalendar
CalendarFails ==
  /\ failed' = failed \cup {CalendarIds[calendar]}
  /\ NextCalendar

\* A transient error before the last attempt: sleep and try again.
RequestRetried ==
  /\ spc = "request" /\ ~LastTry
  /\ tries' = (tries + 1) % MaxRetries
  /\ UNCHANGED <<queueVars, revision, spc, calendar, fetched, pages, current, failed, mine, skipped, report,
                 syncs, file, seen, ingestVars>>

\* A transient error at the last attempt, one that is not retryable, or an exception
\* that is not the API's.
RequestFails ==
  /\ spc = "request"
  /\ CalendarFails
  /\ UNCHANGED <<queueVars, revision, fetched, pages, current, mine, skipped, report, syncs,
                 file, seen, ingestVars>>

\* normalise_event raises: the event is logged and left out.
SkipEvent ==
  /\ spc = "events"
  /\ \E x \in fetched :
       /\ fetched' = fetched \ {x}
       /\ skipped' = skipped \cup {x.event}
  /\ UNCHANGED <<queueVars, revision, spc, calendar, tries, pages, current, failed, mine, report, syncs,
                 file, seen, ingestVars>>

Write(e, content) == file' = [file EXCEPT ![FileName[e]] = content]

\* The mutant keeps a file that is already there.
Mutant_OpenFile ==
  /\ spc = "events"
  /\ \E x \in fetched :
       /\ fetched' = fetched \ {x}
       /\ IF file[FileName[x.event]] = NoContent
            THEN current' = x /\ Write(x.event, Torn) /\ spc' = "write" /\ UNCHANGED mine
            ELSE mine' = Append(mine, x) /\ UNCHANGED <<current, file, spc>>
  /\ UNCHANGED <<queueVars, revision, calendar, tries, pages, failed, skipped, report, syncs,
                 seen, ingestVars>>

\* _stage_event: write_text empties the file,
OpenFile ==
  /\ spc = "events"
  /\ \E x \in fetched :
       /\ fetched' = fetched \ {x}
       /\ current' = x
       /\ Write(x.event, Torn)
  /\ spc' = "write"
  /\ UNCHANGED <<queueVars, revision, calendar, tries, pages, failed, mine, skipped, report, syncs,
                 seen, ingestVars>>

\* and writes the event; the INSERT is not yet visible.
StageAndInsert ==
  /\ spc = "write"
  /\ Write(current.event, current)
  /\ mine' = Append(mine, current)
  /\ current' = NoContent
  /\ spc' = "events"
  /\ UNCHANGED <<queueVars, revision, calendar, tries, fetched, pages, failed, skipped, report, syncs,
                 seen, ingestVars>>

CalendarDone ==
  /\ spc = "events" /\ fetched = {}
  /\ NextCalendar
  /\ UNCHANGED <<queueVars, revision, fetched, pages, current, failed, mine, skipped, report, syncs,
                 file, seen, ingestVars>>

\* The sync is over, with its result or with an exception.
Return(kind) ==
  /\ spc' = "idle" /\ calendar' = 0 /\ tries' = 0
  /\ fetched' = {} /\ pages' = NoPages /\ current' = NoContent /\ failed' = {} /\ skipped' = {} /\ mine' = <<>>
  /\ report' = [kind |-> kind, jobs |-> IF kind = "failed" THEN <<>> ELSE mine]
  /\ UNCHANGED <<revision, syncs, file, ingestVars>>

\* The INSERTs of the sync become visible together.
EnqueueMine ==
  /\ submitted + Len(mine) <= NumJobs
  /\ submitted' = submitted + Len(mine)
  /\ status' = [j \in Jobs |-> IF j \in submitted + 1..submitted' THEN "queued" ELSE status[j]]
  /\ seen' = [j \in Jobs |-> IF j \in submitted + 1..submitted' THEN mine[j - submitted] ELSE seen[j]]
  /\ UNCHANGED <<attempts, available, stale, ingested, wpc, job, attempt, crashes>>

\* The connection block of _do_sync_calendar exits.
Complete ==
  /\ spc = "end" /\ failed = {}
  /\ EnqueueMine
  /\ Return("complete")

\* CalendarSyncDegradedError: the jobs of the calendars that did not fail are
\* rolled back, and the command prints how many they were.
Degraded ==
  /\ spc = "end" /\ failed # {}
  /\ UNCHANGED <<queueVars, seen>>
  /\ Return("degraded")

\* AuthError, an error of the database or of the file system, or the process is
\* killed.
Fail ==
  /\ spc # "idle"
  /\ UNCHANGED <<queueVars, seen>>
  /\ Return("failed")

\* The connection is lost after PostgreSQL has committed.
CommitUnacknowledged ==
  /\ spc = "end" /\ failed = {}
  /\ EnqueueMine
  /\ Return("failed")

SyncRuns ==
  \/ RequestSucceeds \/ RequestRetried \/ RequestFails \/ SkipEvent \/ OpenFile
  \/ StageAndInsert \/ CalendarDone \/ Complete \/ Degraded

-----------------------------------------------------------------------------
(* The worker *)

EventOf(j) == seen[j].event

\* The pipeline of the job has read the staged file, not necessarily as it was
\* when the job was enqueued.
ReadStaged(w) ==
  /\ wpc[w] = "pipeline" /\ read[w] = NoContent
  /\ read' = [read EXCEPT ![w] = file[FileName[EventOf(job[w])]]]
  /\ UNCHANGED <<queueVars, revision, syncVars, file, seen, stored>>

Store(w) == stored' = [stored EXCEPT ![EventOf(job[w])] = read[w]]

Ingest(w) ==
  /\ Queue!PipelineCommits(w)
  /\ read[w] # NoContent
  /\ Store(w)
  /\ UNCHANGED <<revision, syncVars, file, seen, read>>

\* The error may be that of a commit that PostgreSQL has done.
IngestRaises(w) ==
  /\ Queue!PipelineRaises(w)
  /\ \/ ingested' = ingested /\ UNCHANGED stored
     \/ read[w] # NoContent /\ job[w] \in ingested' /\ Store(w)
  /\ UNCHANGED <<revision, syncVars, file, seen, read>>

\* The steps of JobQueue that are not the pipeline's.
WorkerRuns(w) ==
  /\ wpc[w] # "pipeline" /\ Queue!Works(w)
  /\ read' = [read EXCEPT ![w] = NoContent]
  /\ UNCHANGED <<revision, syncVars, file, seen, stored>>

WorkerStops(w) ==
  /\ Queue!Idle(w) \/ Queue!Crash(w)
  /\ UNCHANGED <<revision, syncVars, file, seen, ingestVars>>

Clock(j) ==
  /\ Queue!BackoffElapses(j) \/ Queue!BecomesStale(j)
  /\ UNCHANGED <<revision, syncVars, file, seen, ingestVars>>

Next ==
  \/ \E e \in Events : Edit(e)
  \/ Begin \/ SyncRuns \/ Fail \/ CommitUnacknowledged
  \/ \E w \in Workers :
       ReadStaged(w) \/ Ingest(w) \/ IngestRaises(w) \/ WorkerRuns(w) \/ WorkerStops(w)
  \/ \E j \in Jobs : Clock(j)

Spec == Init /\ [][Next]_vars

\* A sync that has begun goes on; every attempt at a request may fail.
FairSpec == Spec /\ WF_vars(SyncRuns)

-----------------------------------------------------------------------------
(* Properties *)

\* The jobs that a report counts are in the table.
Enqueued(x) == \E j \in Jobs : seen[j] = x

\* A sync that says it is complete was answered for every calendar, and has committed
\* a job for every event that it was told of, in the revision that it was told,
\* although each calendar and each event may fail by itself and the others are gone
\* on with.  What no answer had on its page is not among them (UpcomingAreStaged).
CompleteMeansAnswered ==
  [][report.kind # "complete" /\ report'.kind = "complete" =>
       \A i \in DOMAIN CalendarIds : \E page \in pages[i] : \A x \in page :
         \/ x.event \in skipped
         \/ \E j \in Jobs : j > submitted /\ seen'[j] = x]_vars

\* A job that succeeded has brought its event into the store, as it was when the
\* sync saw it or newer: never another event, never an older revision, whichever
\* sync has rewritten the file since.  A worker that reads while the file is
\* rewritten finds it empty.
SucceededIsAsSeen ==
  \A j \in Jobs : status[j] = "succeeded" =>
    LET s == stored[EventOf(j)] IN
    \/ s = Torn
    \/ s.event = EventOf(j) /\ s.revision >= seen[j].revision

\* A sync ends even when every request fails every time.
SyncsTerminate == spc # "idle" ~> spc = "idle"

\* "Partial results: ... jobs enqueued": what a sync reports as enqueued is in the
\* jobs table.
ReportedJobsExist == \A i \in DOMAIN report.jobs : Enqueued(report.jobs[i])

\* "The Calendar connector fetches upcoming events and stages them as background
\* ingest jobs": a complete sync leaves no event without a job, but for those that it
\* has refused.
UpcomingAreStaged ==
  [][report.kind # "complete" /\ report'.kind = "complete" => \A e \in Events :
       \/ e \in skipped
       \/ \E j \in Jobs : j > submitted /\ EventOf(j)' = e]_vars

\* "Stage files with unique filenames that include calendar and event identity":
\* an event is never ingested with the text of another.
EventHasOwnText ==
  \A e \in Events : stored[e] \in Versions => stored[e].event = e
=============================================================================
