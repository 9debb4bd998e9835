# Chief of Staff in TLA+

TLA+ models of the concurrent core of *chief-of-staff*, a single-user knowledge
base: connectors bring documents in, a worker ingests them into PostgreSQL, a
retrieval service answers questions about them. The modules are translated from
the Python sources (`src/cos/...`), TLC checks them on small instances, and TLAPS
proves every invariant and every action property that the passing runs check, for
every value of the constants (some under a condition that section 4 names).

## 1. The system

### Components, state and operations

| component | state it keeps | operations | properties that make it correct |
|---|---|---|---|
| canonical store (`store/db.py`, migrations) | tables `content_blobs`, `sources`, `documents`, `document_versions`, `source_versions`, `chunks`, `embeddings` | find, link a source to known bytes, store a new version | one document per path, versions numbered without gap, exactly the current version's chunks, no blob without version, no success without provenance |
| ingest pipeline (`ingestion/pipeline.py`, `identity.py`, `extractor.py`, `chunker.py`, `embedder.py`) | one open transaction per call; files in `originals_dir` and `markdown_dir` | hash, decide one of four outcomes, extract, chunk, embed, store | the outcome is what happened, the chunks are those of the hashed bytes, originals survive |
| job queue (`store/db.py`, `services/jobs.py`) | table `jobs`: status, attempts, `available_at`, `started_at` | enqueue, claim, mark, requeue stale | one worker per job, no false success, bounded attempts, settled jobs stay settled, nothing stays queued for ever |
| worker (`worker.py`) | the claimed record | recover once at start, then claim and process in a loop | survives a death at any point |
| Telegram bot (`connectors/telegram_bot.py`) | offset in memory, current batch | poll, answer a question, capture a note | no message lost, "Note saved." is true, redelivery is harmless |
| Gmail poll (`services/gmail.py`, `connectors/gmail.py`) | one transaction per poll, staged files | list, fetch, look up, stage, enqueue each message body and attachment | one pending job per artifact under concurrent polls; polls end; a pending job has its file |
| calendar sync (`services/calendar.py`, `connectors/calendar.py`) | one transaction per sync, staged files with fixed names | request one page with retries, stage and enqueue every event of it | a complete sync was answered for every calendar and has a job for every event it was told of; a job ingests its own event, as seen or newer |
| MCP server and tools, note ingest, near-duplicate warning (`mcp_server/`, `services/ingestion.py`, `retrieval/near_duplicate.py`) | connection pool | start-up checks; ingest a note inside the request | a warning lookup must not undo an ingest |
| retrieval (`services/retrieval.py`, `retrieval/`) | none; several snapshots per call | hybrid search, strategy, lineage, evidence, context windows, synthesis, one log record | evidence from the best lineage, limits per source, context of the cited version, one record per call |
| LLM adapter, output router, channels (`llm/`, `output/`) | none | one request; dispatch that swallows errors | |
| migrations and backfill (`store/db.py`, `cli.py`) | schema, legacy rows | re-run every migration at start; canonicalise legacy rows in one transaction | what was found legacy is canonical afterwards, beside running ingests, and nobody waits for ever |
| CLI, health, configuration, role packs, Google auth, benchmark | none of its own | one command each | |

### How they interact

Connectors stage a file and `INSERT` a job in their own transaction. The worker
claims it in a second transaction, runs the pipeline in a third and marks it in a
fourth. `cos ingest` and the MCP note tool call the same pipeline without a job.
So ingests overlap although the deployment has one worker, and every component
meets the others only in PostgreSQL rows (READ COMMITTED) and in files.

### What is hard here

* Decisions are taken on one snapshot and acted upon seconds later (identity
  check, then extraction and embedding, then the store).
* `documents.source_path` has no UNIQUE constraint; uniqueness rests on row locks
  taken for another reason.
* A job spans several transactions; a process can die between any two, and a
  commit can succeed while its acknowledgement is lost.
* The bot's offset is in memory; updates are redelivered after a restart while the
  worker is busy with the jobs of the first delivery.
* Files (staged, originals) are outside every transaction: a calendar sync rewrites
  the file of a job that is queued, a Gmail poll deletes what it staged in vain.
* A poll, a sync and a backfill are one long transaction each. Their uncommitted
  rows make others wait, in orders that can form a cycle.
* Search, provenance and context of one answer are read in up to five snapshots.

`PROJECT.json` lists these hazards at their lines, with the properties for each.

## 2. The modules

    ProvenanceLedger        what the store promises (abstract)
        ^ refinement
    CanonicalStore          pipeline and store, concurrent transactions
        CanonicalStoreProofs    TLAPS
        MCCanonicalStore        TLC
    JobQueue                jobs table and workers
        JobQueueProofs          TLAPS
        MCJobQueue              TLC
    TelegramBot             the bot composed with JobQueue (INSTANCE)
        TelegramBotProofs       TLAPS, with JobQueueProofs (INSTANCE)
        MCTelegramBot           TLC
    GmailPoll               concurrent polls composed with JobQueue (INSTANCE)
        GmailPollProofs         TLAPS, with JobQueueProofs (INSTANCE)
        MCGmailPoll             TLC
    CalendarSync            the sync composed with JobQueue (INSTANCE)
        CalendarSyncProofs      TLAPS, with JobQueueProofs (INSTANCE)
        MCCalendarSync          TLC
    Backfill                `cos migrate` beside ingests
        BackfillProofs          TLAPS
        MCBackfill              TLC
    Retrieval               one call beside new versions and deletions
        RetrievalProofs         TLAPS
        MCRetrieval             TLC
    Chunker                 the windows of a text (operators only)
        ChunkerProofs           TLAPS

### CanonicalStore

A *run* is one call of `run_pipeline_from_source` in a transaction of its own.
`pc` names its next statement, one action per statement that another transaction
can observe or wait for:

| code | actions |
|---|---|
| `read_bytes`, sha256 | `Start` |
| `check_canonical_identity` | `FindBlob`, `FindSource`, `FindSourceVersion`, `FindSourceOfNew` |
| `link_new_source_to_existing_blob` | `FindCanonical`, `LinkUpsertSource`, `LinkCommit` |
| `extract`, `chunk` and `embed` | `Extract`, `Embed` |
| `store_document_canonical` | `StoreBlob`, `StoreSource`, `StoreDocument`, `StoreCommit` |
| exception, process death, rollback | `Fail` |
| calendar sync or note tool rewriting the staged file | `Rewrite` |

The tables hold committed rows. What a transaction has written is visible only
after its commit action; an uncommitted `INSERT ... ON CONFLICT` is a held lock
(`blobLock`, `sourceLock`), and waiting for it is a disabled action. Between the
`SELECT` on `documents` (`StoreDocument`) and the commit other transactions may
commit: that no document is duplicated is a theorem, not an assumption.

Abstractions: a content stands for the bytes and their hash, and for the text
extracted from them; the chunks of a version are one row, so a version with an
empty text (no chunk) is not distinguished; ids are named by the run that inserts
the row; no two sources share a locator; the store starts empty, so rows from
before migration 004 and their backfill do not occur.

### ProvenanceLedger

The promise without transactions: `observed`, the pairs of source and content, and
the version number of each source's own document. An ingest links known bytes, or
stores exactly the next version of the source's document, or does nothing.
`CanonicalStore!ImplementsLedger` maps the committed rows to it.

### JobQueue

The columns of `jobs` that decide anything, and for every worker the step it is at
and the record it claimed. `Claim`, the pipeline's commit and the three ways of
marking are separate transactions. `PipelineRaises` and `MarkSucceededRaises`
include the lost acknowledgement: PostgreSQL may have committed. Time is
abstracted to two environment steps: `BackoffElapses` (`available_at` has passed)
and `BecomesStale` (more than 300 seconds since the claim). `BecomesStale` is
possible for every orphan; for a job that a worker still holds it is possible only
if the job is in `Slow`. The pipeline is one step here, CanonicalStore being its
detail: an ingest that commits makes the job `ingested`.

### TelegramBot

`TelegramBot` has the variables of JobQueue and uses its actions through
`Queue == INSTANCE JobQueue`: the bot's commit is `Queue!Submit`, the worker's
steps are all of the others. The Telegram server is external and modelled from the
use that the code makes of it: it keeps an update until getUpdates is called with
a greater offset. `told` is what the bot has sent; the channel swallows errors, so
that delivery is unknown to it. `CommitUnacknowledged` is a commit whose
connection is lost: the bot deletes the staged file of a job that is queued.
A batch may hold any number of updates (the server's limit of 100 and its expiry
after 24 hours are left out), and messages that the bot ignores or answers with
guidance are one kind.

### GmailPoll

A poll (`ppc`) goes through `todo`, the artifacts of the messages it was told of.
`Fetch` or `MessageFails` begins a message, `AttachmentSkipped` drops an attachment
that `_check_skip` never sees; `LookUpProcessed` and `LookUpPending` are the two
lookups, each on the committed rows of that moment; `Insert`, `InsertConflicts` (the
UniqueViolation in its savepoint, which deletes the staged file) and
`InsertForced` (a transaction of its own) are `_submit_gmail_job`; `Commit`,
`CommitUnacknowledged` and `Fail` end the poll. `WaitsFor` is PostgreSQL's wait for
an uncommitted entry of the partial unique index of migration 005; a cycle is
resolved by `DeadlockDetected`, which the code treats as a failure of the poll.
The worker's steps are JobQueue's; `RetryCollides` is the UPDATE back to `queued`
that the index refuses, outside any try, so that the worker process dies.

### CalendarSync

`spc` and `tries` follow `sync_calendar` and `_execute_with_retry` over the
calendars. `OpenFile` and `StageAndInsert` are `write_text` and the INSERT: between
the two the file is empty, and the worker may read it (`ReadStaged`). `Complete`,
`Degraded` (the exception that rolls back), `Fail` and `CommitUnacknowledged` end
the sync. `Edit` is the user. A job remembers in `seen` the event and the revision it
was enqueued for; `stored` is what was ingested last. One sync runs at a time.

`list_events` makes one request for at most `max_results` events and does not look
at `nextPageToken`. `RequestSucceeds` therefore returns any set of at most
`MaxResults` events of the calendar: which of them start first, and which lie in the
time window, is left open. `pages` is a history variable, what the sync was answered
for each calendar; no action reads it, and `CompleteMeansAnswered` is stated with it.

### Backfill

The whole of `cos migrate` is one transaction, since the listing opens it and
`conn.transaction()` only makes savepoints: `List`, then for each legacy document
`InsertSource`, `ReadVersions`, `InsertBlob` per version, `UpdateChunks`, and
`CommitCommand`. Ingests are CanonicalStore's runs at the grain of the rows they
lock. `WaitsFor` distinguishes `DO NOTHING`, which waits only for a new row, from
`DO UPDATE` and `DELETE`. The counts that the command prints are left out.

### Retrieval

`rpc` is the next statement: `KeywordSearch`, `SemanticSearch`, `FindSources`,
`FindDocuments` (which also fuses, prunes, and applies the strategy), `Expand`,
`Synthesise`; `Raise` and `Cancel` end a call anywhere. `NewVersion` and `CleanUp`
commit between statements. The selection rules are operators with the names of the
functions they translate. A locator belongs to a version (`LocatorOf`), as the oldest
of its sources does in the code. A text is its set of words; what `ts_rank` and the
vector distance say is left open, so every order of the hits is examined. Scores are
the reciprocal ranks, in a unit that makes them whole numbers. The code's sorts and
maxima are `Sorted` and `Foremost`: the elements by rank under keys that are tuples
of numbers, compared from the left. The windows are merged by a fold from the left,
as the loop does it.

### Chunker

`Emitted`, `Start` and `End` describe the loop of `chunk`: which windows it emits
before it breaks off. There is no state; the definitions are proved about, and
evaluated by TLC with every run of MCCanonicalStore (`ShortTexts`).

## 3. The runs

| run | instance | what it shows |
|---|---|---|
| `store_concurrent` | 4 runs, 2 at a time, 2 sources, 2 contents, failures anywhere, one staged file rewritten | `OneDocumentPerPath`, `VersionsNumbered`, `ChunksOfCurrent`, `NoPartialIdentity`, `DoneIsObserved` |
| `store_ledger` | 3 runs, 2 at a time, fair | `ImplementsLedger`, `RunsTerminate` |
| `store_sequential` | 4 runs, one at a time | `OneVersionPerBlob`, `OutcomeIsTrue` |
| `store_shared` | 2 sources, one at a time | violates `LinkedContentSearchable`, a documented promise |
| `queue_safety` | 2 workers, 3 jobs, 2 attempts, 2 deaths | `OneWorkerPerJob`, `SucceededIsIngested`, `AttemptsAreBounded`, `SettledIsFinal` |
| `queue_liveness` | 1 worker, 3 jobs, one of them slow, 2 deaths, fair | `QueuedIsSettled` |
| `telegram` | 3 messages (note, question, other), bot and worker die once each, lost polls and commits, fair | `SavedIsEnqueued`, `ForgottenIsAnswered`, `SecondJobIsHarmless`, `EveryMessageAnswered` |
| `gmail_polls` | 2 polls, 2 messages in either order, 3 artifacts, forced or not, no worker, fair | `ReportIsTrue`, `DeadlockNeedsTwoOrders`, `PollsTerminate` |
| `gmail_worker` | 2 polls of one message, a worker that dies once, 2 attempts, fair | `SecondJobIsHarmless`, `PendingHasFile`, `EnqueuedIsSettled` |
| `calendar` | 2 syncs, 2 calendars, 3 events, pages of one, one event edited once, 2 tries, a worker that dies once, 1 attempt, fair | `SucceededIsAsSeen`, `CompleteMeansAnswered`, `SyncsTerminate` |
| `retrieval` | a file of three legacy chunks that gets two versions, the second with the message's locator, a message, 9 questions | `OneRecordPerCall`, `PerSourceLimit`, `DefaultIsBestLineage`, `ContextIsGrounded` |
| `backfill` | 3 paths (two versions, one, none), 2 contents, 2 ingests, the command twice, fair | `PromisedIsCanonical`, `ChunkIsOfItsVersion`, `EveryoneEnds` |

*Bounds.* Two overlapping transactions are what the locks can confuse: a third
would wait for a lock that one of the two holds. Four runs let a document reach
its third version while another run stores, links, fails or repeats bytes; two
sources and two contents give new, changed, known and unchanged. `RunsTerminate`
and the refinement have three runs because liveness excludes symmetry. Three jobs
with two attempts and two deaths let one job be retried, orphaned and recovered
while a second is claimed and a third waits. Bounds are constants of the modules:
`Runs`, `MaxActive`, `NumJobs`, `MaxCrashes`, `NumUpdates`, `MaxBotCrashes`,
`MaxSyncs`, `MaxRevision`, `MaxBackfills`; no table or counter is cut otherwise. In
TelegramBot and CalendarSync the jobs always suffice (`RoomForJobs`).
Two polls with three artifacts in either order make every cycle of two waits; a
third poll would wait behind one of them. With the worker one artifact is enough:
the index compares jobs of one artifact only. Two calendars let the second fail or
succeed after the first did, two syncs let the second rewrite the files of the first.
The first calendar has two events and a page (`MaxResults`) one, so that each answer
may leave out either of them. A job has one attempt there, and one
more when the worker dies on it: that is how a file is read again later.
The retrieval's limits (three results, two per source, a window of one, two chunks
of context) are each exceeded by the chunks that one call may meet. The backfill's contents
are shared between two legacy documents and with what is ingested, so that blobs,
sources and chunks are each waited for.

*Symmetry.* Runs and contents are permuted in the invariant runs of the store,
workers in `queue_safety`; nothing orders them. Runs with liveness properties use
none.

*Deadlock.* It is checked in the runs of the store, the queue, the bot, the sync
and `gmail_worker`. When every run has finished, CanonicalStore stutters by the
explicit step `Quiescent`; any other state without a step is an error. In
`gmail_polls`, `retrieval` and `backfill` everything ends, and the check is off; that
nobody stops before its end is `PollsTerminate` and `EveryoneEnds` there.

*Fairness.* CanonicalStore: weak fairness of the steps of a run that has begun
(PostgreSQL answers; extraction and embedding return or raise). Nothing obliges
anyone to begin a run. JobQueue: weak fairness of each worker (`restart:
on-failure` in `docker-compose.yml`, and a loop without exit) and of the two time
steps. TelegramBot: weak fairness of the bot's own steps, because retrieval is cut
off after 60 seconds and a failed poll is repeated after a bounded backoff; it
assumes that one poll succeeds some time. GmailPoll: a poll that has begun goes on,
PostgreSQL's deadlock detector is part of that; the worker and the clock as in
JobQueue. CalendarSync: the sync's own steps, whose requests may all fail. Backfill:
the command, each ingest and the deadlock detector. Nothing obliges anyone to begin
a poll, a sync or a command. Deaths are never fair and are bounded.

### What the violations say

`store_shared` is one of the project's runs. The other configurations here are not
among them and are run by hand; each checks one property and TLC finds it violated.

1. *Shared embeddings* (`store_shared`). `s1` and `s2` have the same bytes, `s2` is
   linked to the version of `s1`; then `s1` changes, and `DELETE FROM chunks WHERE
   document_id` removes the only embeddings of the bytes of `s2`. Later ingests of
   `s2` answer `unchanged`.
2. *Changed content* (`CanonicalStore_changed.cfg`, `ChangedBytesBecomeCurrent`).
   docs/setup.md:376 promises a new version for different bytes. The identity check
   asks for the bytes first: a file that goes back to earlier bytes is `unchanged`,
   and its document remains at the bytes in between.
3. *Rewritten staged file* (`CanonicalStore_rewritten.cfg`, `ChunksAreOfTheBlob`).
   The hash and the text are two reads of one path.
4. *Originals* (`CanonicalStore_originals.cfg`, `OriginalsPreserved`). README.md:17
   promises every file byte for byte; the copy is named by the base name.
5. *Orphans* (`JobQueue_orphans.cfg`, `StartupRequeuesOrphans`). Recovery runs once
   per start and skips jobs younger than 300 seconds.
6. *Redelivered note* (`TelegramBot_redelivery.cfg`, `RedeliveryIsIdempotent`).
   "Processed?" and "pending?" are two snapshots; the worker can finish in between.
   `SecondJobIsHarmless` shows the consequence to be a no-op ingest.
7. *Degraded sync* (`CalendarSync_degraded.cfg`, `ReportedJobsExist`).
   `CalendarSyncDegradedError` is raised inside the connection block, so that the
   jobs of the calendars that succeeded are rolled back, while the command prints
   their number as enqueued (cli.py:116).
8. *Common slug* (`CalendarSync_slug.cfg`, `EventHasOwnText`). A staged file is named
   by slugs of 80 characters; two long ids that begin alike share a file, and the
   first event is ingested with the text of the second.
9. *Qualified document dropped* (`Retrieval_bounded.cfg`, `QualifiedDocumentIsCited`).
   A bounded question ranks a document by the terms of all its chunks together,
   returns the single best chunk (citations.py:376, whose docstring at line 353
   promises all of them) and then asks of that chunk alone what the document had
   satisfied: a document with one term in each of two chunks wins and is dropped.
10. *Anchor without context* (`Retrieval_context.cfg`, `EvidenceInContext`). A version
   that is replaced between the search and the expansion leaves an answer that cites
   the anchor and was given no text.
11. *First page only* (`CalendarSync_page.cfg`, `UpcomingAreStaged`). docs/connectors.md:37
   says that upcoming events are fetched and staged. `list_events`
   (connectors/calendar.py:60-70) takes the items of one answer and ignores
   `nextPageToken`: a sync reports itself complete although events have neither a job
   nor a refusal, and a later sync with the same window leaves out the same ones.
   `max_results` is documented as a maximum per calendar (config.yaml.example:190);
   what is missing is any sign that it was reached. `list_message_ids`
   (connectors/gmail.py:53) reads one page of messages too, which is why GmailPoll
   speaks of the messages that a poll was told of.

Three smaller disagreements appeared while translating and have no run. Of the
prefixes that `_source_priority` (citations.py:162-172) looks for, only
`gmail://` begins a locator that an ingest writes: a file's locator is its plain
path, a note's begins `mcp_note://` or `telegram://`, an event's
`google-calendar://calendar/`. So files, notes and events all rank below
messages with as many terms (priority 4 beside 3), and the term that `local://`
adds is given to the fixtures of the benchmark alone; `Priority` is a constant
of the model, any function of the locator. A cancelled `answer` logs no record
although its docstring promises one for every call; and a legacy anchor whose
document gets a version mid-call is expanded with the new version's neighbours
(`ContextIsGrounded` leaves that case out). It also leaves out anchors of two
legacy documents that have one path. They are one lineage for the code, whose
context comes from the first one's document only; no ingest makes a second
document of a path (`PathsUnique`).

The opposite was found for one recorded worry: the project's deferred-work notes
say that two concurrent ingests of a path could make two `documents` rows.
`PathsUnique` proves that they cannot. What overlapping ingests can do is to store
the same bytes as two versions of two documents (`OneVersionPerBlob` fails when
`MaxActive` is 2).

## 4. The proofs

The assumptions are the `ASSUME`s of the modules, which TLC evaluates in every
run, and those in the theorems' statements, which this table repeats.

| module | theorem | states | assuming |
|---|---|---|---|
| `CanonicalStoreProofs` | `TypeCorrect` | `TypeOK` | |
| | `PathsUnique` | `OneDocumentPerPath` | |
| | `IdentityComplete`, `SuccessIsObserved` | `NoPartialIdentity`, `DoneIsObserved` | |
| | `NumbersAreDense`, `IndexIsCurrent` | `VersionsNumbered`, `ChunksOfCurrent` | |
| | `StoreImplementsLedger` | `ImplementsLedger` | |
| | `StoredOnce`, `OutcomesAreTrue` | `OneVersionPerBlob`, `OutcomeIsTrue` | `MaxActive = 1` |
| `JobQueueProofs` | `TypeCorrect`, `SuccessIsTrue`, `SettledStays` | `TypeOK`, `SucceededIsIngested`, `SettledIsFinal` | |
| | `WorkersAreExclusive`, `AttemptsBounded` | `OneWorkerPerJob`, `AttemptsAreBounded` | `Slow = {}` |
| `TelegramBotProofs` | `QueueIsKept` | `Queue!Spec` | |
| | `TypeCorrect`, `SavedNotesAreEnqueued`, `ForgottenMessagesAreAnswered` | `TypeOK`, `SavedIsEnqueued`, `ForgottenIsAnswered` | |
| | `SecondJobsAreHarmless` | `SecondJobIsHarmless` | `Slow = {}` |
| `GmailPollProofs` | `TypeCorrect`, `PendingFilesExist` | `TypeOK`, `PendingHasFile` | |
| | `SameOrderNeverDeadlocks`, `ReportsAreTrue` | `DeadlockNeedsTwoOrders`, `ReportIsTrue` | |
| | `SecondJobsAreHarmless` | `SecondJobIsHarmless` | `Slow = {}` |
| `CalendarSyncProofs` | `TypeCorrect`, `CompleteSyncsAreAnswered` | `TypeOK`, `CompleteMeansAnswered` | |
| | `SucceededAsSeen` | `SucceededIsAsSeen` | one worker, a file name for each event |
| `BackfillProofs` | `ChunksAreOfTheirVersion`, `PromisesAreKept` | `ChunkIsOfItsVersion`, `PromisedIsCanonical` | |
| | `TypeCorrect` | `TypeOK` | |
| `RetrievalProofs` | `TypeCorrect`, `LoggedOnce` | `TypeOK`, `OneRecordPerCall` | |
| | `SourcesAreLimited`, `AnswersFromBestLineage` | `PerSourceLimit`, `DefaultIsBestLineage` | |
| | `ContextsAreGrounded` | `ContextIsGrounded` | |
| `ChunkerProofs` | `NoTokenIsLost`, `NoChunkIsRepeated` | | |

What the conditions mean: `MaxActive = 1` is one ingest at a time, which the runs
that check the two properties have too; `Slow = {}` says that no job that a worker
holds outlasts the 300 seconds after which it counts as stale. `docker-compose.yml`
has one worker; two event ids that share a file name are violation 8 above.

`CanonicalStoreProofs` (only `Runs` finite):

* `TypeCorrect`, from `TypeInv`: `TypeOK`, and a run past `FindCanonical` has
  selected a version (`Selected`).
* `PathsUnique`. `OneDocumentPerPath` is not inductive: two runs might both have
  seen no document. `DocumentInv` adds that a run between `StoreSource` and its
  commit holds its source's row (`HoldsSource`); that what such a run has selected
  is still the document of its path (`SelectedCurrent`); and that a run that has
  not committed has inserted no document (`DocumentIds`). A commit at a path
  needs the row of that source, so `SelectedCurrent` survives other commits.
* `NumbersAreDense` and `IndexIsCurrent`, from `VersionInv` beside `DocumentInv`: the
  numbers of a document are 1 to its current one, each once (`Numbered`), and what a
  run has selected is current until it commits, so that its number is the next one;
  every version and every chunk has its document (`VersionIds`, `ChunkDocuments`), so
  that a new document begins with neither.
* `IdentityComplete` and `SuccessIsObserved`, from `IdentityInv`: a linking run has
  selected a version that holds its bytes (`LinksSelected`), which no step removes.
* `StoreImplementsLedger`: `MappedObserved` and `MappedHeads` are the ledger's
  variables. Two steps change them. `LinkCommit` adds a pair whose content has been
  observed, because a version with no link does not exist (`VersionObserved`);
  `StoreCommit` adds a pair and makes the head of its source's own document one
  more, because of `DocumentInv` and `VersionInv`. Every other step stutters.
* `StoredOnce`: the strengthening `StillUnknown` says that the bytes of a run that
  decided "new" are still unknown. `OutcomesAreTrue` adds what the decision of a run
  says about the sources table until it commits (`DecidedTruly`).

`JobQueueProofs`:

* `TypeCorrect` and `SuccessIsTrue`: a worker about to mark success has an ingested
  job. No assumption on workers, crashes or slow jobs.
* `SettledStays`: only a worker that holds a job changes a settled status.
* `WorkersAreExclusive` and `AttemptsBounded`. A held job is `running` (or already
  marked by its own worker) and not stale, hence neither claimable nor recoverable.
  For the attempts, an orphan is charged to a death.
* `NotPendingIsClosed`, `IngestedStays` and `ClosedStays` are the lemmas for the
  modules that compose JobQueue. A job is `Closed` when it is ingested or has
  failed with no worker on it; with `Slow = {}` a closed job stays closed.

`TelegramBotProofs`: `QueueIsKept` is the composition. Every step of the bot is
`Queue!Submit` or leaves the queue alone, so the invariants of `JobQueueProofs`
(`QueueProofs == INSTANCE JobQueueProofs`) are invariants here. `SavedInv` adds
that the note about to be called saved has a job. `AnsweredInv`: what is below the
bot's offset and no longer in its batch has been answered; the offset is sent only
with the next poll, when the batch is empty. `HarmlessInv`: between the last lookup and
the commit the note's jobs are closed, which `ClosedStays` keeps true whatever the
workers do.

`GmailPollProofs`: a commit inserts any number of jobs, which is not one step of
JobQueue; that it keeps the queue's invariants, and what it does to the jobs
(`CommitStep`), is proved here. All other steps are JobQueue's.

* `IndexInv` is the partial unique index with the rows of open transactions: what a
  poll has inserted has no other entry, and no two polls have inserted one artifact.
* `PendingFilesExist`, from `FileInv`: every job has its file, and so has every
  uncommitted row. A poll deletes a file only where it has inserted no job.
* `SecondJobsAreHarmless`, from `HarmlessInv` and `IndexInv`: the lookups are not
  used at all. What keeps a second job away is the index alone.
* `ReportsAreTrue` and `SameOrderNeverDeadlocks`, from `ProgressInv`: the work left
  is a suffix of the artifacts of the listing, everything before it is accounted
  for, and what the poll has inserted lies before it. Two polls with one listing
  that wait for each other would each be further than the other. Leaving out the
  rest of a message needs where its artifacts lie in the list (`FlattenLaysOut`,
  `MessageLies`).

`CalendarSyncProofs`:

* `CompleteSyncsAreAnswered`, from `CoverInv`: a calendar before the current one has
  failed, or has a page whose events are all refused or in `mine` (`Through`); those on
  the current calendar's page may also still be to come. The commit turns `mine` into
  jobs. Nothing is claimed of events that were on no page.
* `SucceededAsSeen`, from `FileInv`, `ReadInv` and `StoreInv`: the file of a promised
  event has its version or a newer one, since revisions only grow and a sync asks
  for them after the promises before it; so has what the worker has read, for its
  job and for all that have succeeded; so has the store.

`BackfillProofs`:

* `ChunksAreOfTheirVersion`, from `ChunkInv`: as long as a document has chunks
  without a version nobody has ingested it since the listing, so that the version
  listed, and the version assigned, is its last one.
* `PromisesAreKept`, from `PromiseInv`: at every statement each document that was
  promised is `Ready` or still listed, and the current one has had what the
  statements before owed it. `IngestOwesNothing`: an ingest takes nothing back, and
  the version that it adds has its blob, link and source already.
* `TypeCorrect` includes what is more than a type: links are to versions and sources
  that exist (`LinkInv`), and no row is written by two open transactions (`LockInv`).

`RetrievalProofs` (finitely many documents, question terms and versions; any
limits, weights and priorities):

* Sorting. A finite set under an order has a first element (`FirstExists`), the
  numbers of predecessors are different and leave no gap (`RankGrows`,
  `RankIsTaken`), and the keys are totally ordered when they are different
  (`KeyOrderIs`). Hence `Sorted` lists each element once, in order (`SortedIs`), and
  `Foremost` is what it says (`ForemostIs`). Every use then owes that its keys are
  different: each has a last part, a position or an index, that says so.
* `LoggedOnce`. `OneRecordPerCall` speaks of calls that have ended; `NothingLogged`
  adds what leads there: an active call has logged nothing, and there is evidence
  when the synthesis begins and not before.
* `RetrievalInv` is the strengthening for the other four. `SearchType`: the hits are
  chunks that existed, none twice. `Given`: the evidence keeps the limit
  per source, and that of a direct question is of the best lineage.
  `Grounded`: a concluded context is grounded. Before the expansion the anchors are
  known to be chunks of one lineage with different indices (`Anchoring`).
* `TypeCorrect` from `SearchType` and `Given`: that what is cited existed.
* `SourcesAreLimited`. `PrunedLimited`: the chunks of a source that pruning keeps
  have different numbers of predecessors, all below the limit. Every later
  selection takes some of the chunks it is given, each once (`Selects`), and
  `SelectionLimited` carries the limit through all of them.
* `AnswersFromBestLineage`. The first number of the rank key is the overlap, or one
  more for a `local://` locator; the greatest key has a first number no other exceeds
  (`ExceedsFirst`, `BestLineageIsBest`). A lineage's evidence has that lineage only
  (`LineageIs`, `OfLineageIs`).
* `ContextsAreGrounded`. `ExtendIs` and `FoldIs` go through the loop that merges
  windows: an index is in a merged window when it is in one of those merged, because
  they come in the order of their starts; so the rows are those within `Window` of
  an anchor (`WindowsAre`, `RowsAre`). `TrimmedIs` counts what is kept and compares
  its distances with what is not; `ExpandedIs` puts them together. That the anchors'
  version is still the one the context was read from needs `VersionKeeps`: a document
  that has left version 0 never returns to it.

`ChunkerProofs` (every text length, size and overlap that `chunk` accepts):

* `NoTokenIsLost`. The loop breaks off at the first window that the overlap of its
  predecessor covers; `LastChunkEnds` finds the window before it and shows that it
  reaches the end of the text. The window of a token is then its quotient by the
  step, or that last one.
* `NoChunkIsRepeated`: windows without a gap, overlapping by exactly the overlap,
  each ending after its predecessor.

*Induction.* The library states induction over the natural numbers with an operator
as a parameter, which the provers cannot instantiate. `LeastExists` takes its place:
a set of numbers has a least element, because the intervals up to its elements are
finite sets, whose strict inclusion the library proves well-founded. `AllNumbers`
follows, and with it what `FlattenSeq` returns, that `Min` and `Max` are what they
say, and that the functions exist by which the community modules define the sum over
a set (`SumExists`) and the fold over a sequence (`MergeExists`).

*Only model-checked:* the liveness properties `QueuedIsSettled`,
`EveryMessageAnswered`, `RunsTerminate`, `PollsTerminate`, `EnqueuedIsSettled`,
`SyncsTerminate` and `EveryoneEnds`. Liveness under fairness is out of the prover's
reach. Where a theorem has a condition (`MaxActive = 1`, `Slow = {}`, one worker, a
file name for each event), the runs that check its property have it too.

## 5. Not modelled, and the plan

`PROJECT.json` gives the status of each component. Not modelled, and why:

* The migrations: idempotent statements, each file one implicit transaction, all
  repeated at every start.
* Note ingest in the MCP server: CanonicalStore's run followed by a read; the
  failure of that read undoes the ingest, which is `Fail`.
* MCP tools, LLM adapter, output router, embedder: one request each, stateless; their
  failures are steps of the modules that call them. The embedder's swap of the
  global `voyageai.proxy` around an await is a hazard without a model.
* The benchmark, but for its deletion of documents and sources. That its deletion of
  unused blobs can take a version committed meanwhile with it (a hazard in
  `PROJECT.json`) would need CanonicalStore with cascades.
* Waiting for healthy containers, Google authentication, configuration, role packs,
  listings: sequential, input and output.
* Text classification and formatting, vector distances, model output: data. No
  property here depends on them.

What a reader might add: the cascades of the benchmark's clean-up in CanonicalStore,
beside an ingest that has decided but not committed; the note tool as a run of its
own, with the read that can undo it.

## 6. Running

    tlc -workers 2 -config JobQueue_safety.cfg MCJobQueue
    tlapm CanonicalStoreProofs.tla
