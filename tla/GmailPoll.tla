------------------------------ MODULE GmailPoll ------------------------------
(***************************************************************************)
(* Polls of Gmail (src/cos/services/gmail.py, connectors/gmail.py) beside  *)
(* the ingest worker of JobQueue, with which they share the jobs table.    *)
(*                                                                         *)
(* A poll lists the messages, fetches one after another, and looks each    *)
(* artifact, a body or an attachment, up in the store and among the        *)
(* pending jobs.  What neither has is staged and enqueued.  The lookups    *)
(* open a transaction that ends with the poll: its jobs are invisible      *)
(* until then, and a unique index over the pending jobs makes a second     *)
(* poll that inserts the same artifact wait for the first one's end.  A    *)
(* forced poll looks nothing up: each of its jobs is a transaction, and    *)
(* none is in the index.                                                   *)
(*                                                                         *)
(* A message never changes: the artifact stands for its locator and for    *)
(* its fingerprint.                                                        *)
(***************************************************************************)
EXTENDS Naturals, Sequences, SequencesExt

CONSTANTS
  Polls,        \* the runs of `cos sync gmail`
  Messages,
  Contents,     \* the artifacts of each message: its body, then its attachments
  Listings,     \* the orders in which the API may list the messages to each poll
  NoArtifact,
  NumJobs, Workers, NoJob, MaxAttempts, Slow, MaxCrashes  \* those of JobQueue

Artifacts == UNION {ToSet(Contents[m]) : m \in Messages}

ASSUME ListingsAssumption ==
  \A p \in Polls : \A l \in Listings[p] :
    l \in Seq(Messages) /\ IsInjective(l)
ASSUME ContentsAssumption ==
  \A m, n \in Messages :
    /\ Contents[m] \in Seq(ToSet(Contents[m]))
    /\ IsInjective(Contents[m]) /\ Contents[m] # <<>>
    /\ m # n => ToSet(Contents[m]) \cap ToSet(Contents[n]) = {}
ASSUME NoArtifactAssumption == NoArtifact \notin Artifacts \cup Polls

VARIABLES
  submitted, status, attempts, available, stale, ingested,  \* those of JobQueue
  wpc, job, attempt, crashes,
  ppc,         \* what each poll does next
  forced,      \* the polls with --force
  listing,     \* the messages each poll was told of
  todo,        \* the artifacts it has not come to, the current one first
  mine,        \* those it has inserted and not committed
  report,      \* what it counts each artifact as
  unlinked,    \* the staged files that have been deleted
  artifactOf,  \* of each job: the artifact, and
  stagedBy     \* the poll that staged its file

queueVars == <<submitted, status, attempts, available, stale, ingested,
               wpc, job, attempt, crashes>>
pollVars  == <<ppc, forced, listing, todo, mine, report>>
jobVars   == <<artifactOf, stagedBy>>
vars == <<queueVars, pollVars, unlinked, jobVars>>

Queue == INSTANCE JobQueue

Jobs == 1..NumJobs

\* What JobQueue assumes of its constants.
ASSUME QueueAssumption ==
  /\ NumJobs \in Nat \ {0} /\ NoJob \notin Jobs
  /\ MaxAttempts \in Nat \ {0} /\ Slow \subseteq Jobs /\ MaxCrashes \in Nat

PollPCs  == {"idle", "fetch", "processed", "pending", "insert", "commit", "done", "failed"}
Counters == {"none", "enqueued", "processed", "pending", "skipped"}

TypeOK ==
  /\ Queue!TypeOK
  /\ ppc \in [Polls -> PollPCs]
  /\ \A p \in Polls : listing[p] \in Seq(Messages) /\ todo[p] \in Seq(Artifacts)
  /\ mine \in [Polls -> SUBSET Artifacts]
  /\ forced \subseteq Polls
  /\ \A p \in forced : mine[p] = {}
  /\ report \in [Polls -> [Artifacts -> Counters]]
  /\ unlinked \subseteq Polls \X Artifacts
  /\ artifactOf \in [Jobs -> Artifacts \cup {NoArtifact}]
  /\ stagedBy \in [Jobs -> Polls \cup {NoArtifact}]

Init ==
  /\ Queue!Init
  /\ ppc = [p \in Polls |-> "idle"]
  /\ forced = {}
  /\ listing = [p \in Polls |-> <<>>]
  /\ todo = [p \in Polls |-> <<>>]
  /\ mine = [p \in Polls |-> {}]
  /\ report = [p \in Polls |-> [a \in Artifacts |-> "none"]]
  /\ unlinked = {}
  /\ artifactOf = [j \in Jobs |-> NoArtifact]
  /\ stagedBy = [j \in Jobs |-> NoArtifact]

-----------------------------------------------------------------------------
(* The jobs table *)

JobsOf(a) == {j \in Jobs : artifactOf[j] = a}

Pending(s) == s \in {"queued", "running"}

\* idx_jobs_ingest_gmail_pending_unique: the jobs in it.
Unforced(j) == stagedBy[j] \in Polls \ forced
Mutant_Indexed(j) == Unforced(j) /\ status[j] = "queued"
Indexed(j) == Unforced(j) /\ Pending(status[j])

\* has_processed_artifact and has_pending_job_for_locator; the second finds
\* forced jobs, too.
HasProcessed(a) == \E j \in JobsOf(a) : j \in ingested
HasPending(a) == \E j \in JobsOf(a) : Pending(status[j])

\* The jobs of the artifacts in rows, staged by p, become visible.  created_at is now() of
\* one transaction: the worker may take them in any order, the names are one.
Enqueue(p, rows) ==
  /\ submitted + Len(rows) <= NumJobs
  /\ submitted' = submitted + Len(rows)
  /\ status' = [j \in Jobs |-> IF j \in submitted + 1..submitted' THEN "queued" ELSE status[j]]
  /\ artifactOf' = [j \in Jobs |-> IF j \in submitted + 1..submitted'
                                     THEN rows[j - submitted] ELSE artifactOf[j]]
  /\ stagedBy' = [j \in Jobs |-> IF j \in submitted + 1..submitted' THEN p ELSE stagedBy[j]]
  /\ UNCHANGED <<attempts, available, stale, ingested, wpc, job, attempt, crashes>>

-----------------------------------------------------------------------------
(* A poll *)

Current(p) == Head(todo[p])
MessageOf(a) == CHOOSE m \in Messages : a \in ToSet(Contents[m])
IsBody(a) == a = Head(Contents[MessageOf(a)])

ArtifactsIn(l) == FlattenSeq([i \in DOMAIN l |-> Contents[l[i]]])

Goto(p, label) == ppc' = [ppc EXCEPT ![p] = label]

\* The poll turns to what is left of its list; with nothing left it returns, and
\* the connection block of _do_sync_gmail commits.
Continue(p, rest) ==
  /\ todo' = [todo EXCEPT ![p] = rest]
  /\ Goto(p, IF rest = <<>> THEN "commit" ELSE "fetch")

Count(p, c) == report' = [report EXCEPT ![p][Current(p)] = c]

\* poll_gmail resolves the label names and lists the messages.
List(p) ==
  /\ ppc[p] = "idle"
  /\ \E l \in Listings[p] :
       /\ listing' = [listing EXCEPT ![p] = l]
       /\ Continue(p, ArtifactsIn(l))
  /\ forced' \in {forced, forced \cup {p}}
  /\ UNCHANGED <<queueVars, mine, report, unlinked, jobVars>>

\* The message, or the bytes of the attachment, were fetched.
Fetch(p) ==
  /\ ppc[p] = "fetch"
  /\ Goto(p, IF p \in forced THEN "insert" ELSE "processed")
  /\ UNCHANGED <<queueVars, forced, listing, todo, mine, report, unlinked, jobVars>>

OfCurrentMessage(p, a) == MessageOf(a) = MessageOf(Current(p))
CurrentContents(p) == Contents[MessageOf(Current(p))]

\* What is left when a message cannot be fetched: the artifacts that come after its
\* own.  The mutant comes back to it at the end of the poll.
Mutant_WithoutMessage(p) ==
  SubSeq(todo[p], Len(CurrentContents(p)) + 1, Len(todo[p])) \o CurrentContents(p)
WithoutMessage(p) == SubSeq(todo[p], Len(CurrentContents(p)) + 1, Len(todo[p]))

\* fetch_message raises: the error is logged and none of the message's artifacts
\* is looked at.
MessageFails(p) ==
  /\ ppc[p] = "fetch"
  /\ IsBody(Current(p))
  /\ Continue(p, WithoutMessage(p))
  /\ report' = [report EXCEPT ![p] = [a \in Artifacts |->
                  IF OfCurrentMessage(p, a) THEN "skipped" ELSE @[a]]]
  /\ UNCHANGED <<queueVars, forced, listing, mine, unlinked, jobVars>>

\* The attachment has no supported suffix, no data, or cannot be fetched.
AttachmentSkipped(p) ==
  /\ ppc[p] = "fetch"
  /\ ~IsBody(Current(p))
  /\ Count(p, "skipped")
  /\ Continue(p, Tail(todo[p]))
  /\ UNCHANGED <<queueVars, forced, listing, mine, unlinked, jobVars>>

\* _check_skip, the first lookup.  It opens the transaction.
LookUpProcessed(p) ==
  /\ ppc[p] = "processed"
  /\ IF HasProcessed(Current(p))
       THEN Count(p, "processed") /\ Continue(p, Tail(todo[p]))
       ELSE Goto(p, "pending") /\ UNCHANGED <<todo, report>>
  /\ UNCHANGED <<queueVars, forced, listing, mine, unlinked, jobVars>>

\* _check_skip, the second lookup, on a later snapshot.
LookUpPending(p) ==
  /\ ppc[p] = "pending"
  /\ IF HasPending(Current(p))
       THEN Count(p, "pending") /\ Continue(p, Tail(todo[p]))
       ELSE Goto(p, "insert") /\ UNCHANGED <<todo, report>>
  /\ UNCHANGED <<queueVars, forced, listing, mine, unlinked, jobVars>>

\* _build_staged_path puts a token of this enqueue into the name.
StagedFile(p, a) == <<p, a>>

\* The artifact's index entry belongs to a transaction that has not ended: the
\* INSERT waits for it.
WaitsFor(p, q) ==
  /\ ppc[p] = "insert" /\ p \notin forced
  /\ q # p /\ Current(p) \in mine[q]

\* The INSERT finds the entry of a committed row.  The mutant does not wait to
\* see whether the row that it conflicts with is committed.
Mutant_Conflicts(p) ==
  /\ p \notin forced
  /\ \/ \E j \in JobsOf(Current(p)) : Indexed(j)
     \/ \E q \in Polls : WaitsFor(p, q)
Conflicts(p) ==
  /\ p \notin forced
  /\ \E j \in JobsOf(Current(p)) : Indexed(j)

\* _submit_gmail_job in the poll's transaction: the row stays invisible.
Insert(p) ==
  /\ ppc[p] = "insert" /\ p \notin forced
  /\ ~Conflicts(p) /\ ~\E q \in Polls : WaitsFor(p, q)
  /\ unlinked' = unlinked \ {StagedFile(p, Current(p))}
  /\ mine' = [mine EXCEPT ![p] = @ \cup {Current(p)}]
  /\ Count(p, "enqueued")
  /\ Continue(p, Tail(todo[p]))
  /\ UNCHANGED <<queueVars, forced, listing, jobVars>>

\* What is deleted on a conflict.  The mutant deletes all that is staged for the
\* artifact.
Mutant_Superfluous(p) == {StagedFile(q, Current(p)) : q \in Polls}
Superfluous(p) == {StagedFile(p, Current(p))}

\* UniqueViolation: back to the savepoint, and the staged file is deleted.
InsertConflicts(p) ==
  /\ ppc[p] = "insert"
  /\ Conflicts(p)
  /\ unlinked' = unlinked \cup Superfluous(p)
  /\ Count(p, "pending")
  /\ Continue(p, Tail(todo[p]))
  /\ UNCHANGED <<queueVars, forced, listing, mine, jobVars>>

\* The mutant is in the poll's transaction, as after a lookup.
Mutant_InsertForced(p) ==
  /\ ppc[p] = "insert" /\ p \in forced
  /\ mine' = [mine EXCEPT ![p] = @ \cup {Current(p)}]
  /\ Count(p, "enqueued")
  /\ Continue(p, Tail(todo[p]))
  /\ UNCHANGED <<queueVars, forced, listing, unlinked, jobVars>>

\* _submit_gmail_job of a forced poll: no statement came before, so that
\* conn.transaction() begins a transaction and commits it.
InsertForced(p) ==
  /\ ppc[p] = "insert" /\ p \in forced
  /\ unlinked' = unlinked \ {StagedFile(p, Current(p))}
  /\ Enqueue(p, <<Current(p)>>)
  /\ Count(p, "enqueued")
  /\ Continue(p, Tail(todo[p]))
  /\ UNCHANGED <<forced, listing, mine>>

\* The end of the poll's transaction.  The mutant leaves it open.
Mutant_EndTransaction(p) == UNCHANGED mine
EndTransaction(p) == mine' = [mine EXCEPT ![p] = {}]

\* poll_gmail raises: there is no report.
Raise(p) ==
  /\ Goto(p, "failed")
  /\ listing' = [listing EXCEPT ![p] = <<>>]
  /\ todo' = [todo EXCEPT ![p] = <<>>]
  /\ report' = [report EXCEPT ![p] = [a \in Artifacts |-> "none"]]

CommitJobs(p) ==
  /\ ppc[p] = "commit"
  /\ \E rows \in SetToSeqs(mine[p]) : Enqueue(p, rows)
  /\ EndTransaction(p)

Commit(p) ==
  /\ CommitJobs(p)
  /\ Goto(p, "done")
  /\ UNCHANGED <<forced, listing, todo, report, unlinked>>

\* The connection is lost after PostgreSQL has committed.
CommitUnacknowledged(p) == CommitJobs(p) /\ Raise(p) /\ UNCHANGED <<forced, unlinked>>

Abort(p) ==
  /\ EndTransaction(p)
  /\ Raise(p)
  /\ UNCHANGED <<queueVars, forced, unlinked, jobVars>>

\* The listing fails, a file cannot be written, the connection is lost, the
\* process is killed: what was inserted is rolled back, staged files are left.
Fail(p) ==
  /\ ppc[p] \notin {"done", "failed"}
  /\ Abort(p)

\* p is on a cycle of transactions that wait for each other.
Deadlocked(p) ==
  \E S \in SUBSET Polls :
    /\ p \in S
    /\ \A q \in S : \E r \in S : WaitsFor(q, r)
    /\ \A r \in S : \E q \in S : WaitsFor(q, r)

\* PostgreSQL ends the transaction of one of them, which poll_gmail does not catch.
DeadlockDetected(p) == Deadlocked(p) /\ Abort(p)

PollRuns(p) ==
  \/ List(p) \/ Fetch(p) \/ LookUpProcessed(p) \/ LookUpPending(p)
  \/ Insert(p) \/ InsertConflicts(p) \/ InsertForced(p)
  \/ Commit(p) \/ DeadlockDetected(p)

PollSuffers(p) == MessageFails(p) \/ AttachmentSkipped(p) \/ CommitUnacknowledged(p) \/ Fail(p)

-----------------------------------------------------------------------------
(* The worker *)

\* mark_job_retryable_failure brings back into the index a job whose success was
\* recorded but not acknowledged.
ReentersIndex(w) ==
  /\ wpc[w] = "mark_failure" /\ ~Queue!Exhausted(w)
  /\ Unforced(job[w]) /\ ~Indexed(job[w])

\* A newer job of its artifact is in the index, committed or not: the UPDATE waits
\* for the poll that inserted it, and then raises UniqueViolation.
IndexTaken(w) == \E j \in JobsOf(artifactOf[job[w]]) : Indexed(j)
IndexAwaited(w) == \E p \in Polls : artifactOf[job[w]] \in mine[p]

HasFile(j) == StagedFile(stagedBy[j], artifactOf[j]) \notin unlinked

\* Every step of JobQueue but Submit, which is the polls'.
WorkerRuns(w) ==
  /\ Queue!Works(w)
  /\ \A j \in ingested' \ ingested : HasFile(j)
  /\ ReentersIndex(w) => ~IndexTaken(w) /\ ~IndexAwaited(w)
  /\ UNCHANGED <<pollVars, unlinked, jobVars>>

\* The mutant tries the UPDATE again until it succeeds.
Mutant_RetryCollides(w) == ReentersIndex(w) /\ IndexTaken(w) /\ UNCHANGED vars

\* The UniqueViolation is raised in the except branch: the worker dies of it.
RetryCollides(w) ==
  /\ ReentersIndex(w) /\ IndexTaken(w)
  /\ job' = [job EXCEPT ![w] = NoJob]
  /\ wpc' = [wpc EXCEPT ![w] = "down"]
  /\ UNCHANGED <<submitted, status, attempts, available, stale, ingested, attempt, crashes,
                 pollVars, unlinked, jobVars>>

Clock(j) ==
  /\ Queue!BackoffElapses(j) \/ Queue!BecomesStale(j)
  /\ UNCHANGED <<pollVars, unlinked, jobVars>>

WorkerStops(w) ==
  /\ Queue!Idle(w) \/ Queue!Crash(w)
  /\ UNCHANGED <<pollVars, unlinked, jobVars>>

Next ==
  \/ \E p \in Polls : PollRuns(p) \/ PollSuffers(p)
  \/ \E w \in Workers : WorkerRuns(w) \/ RetryCollides(w) \/ WorkerStops(w)
  \/ \E j \in Jobs : Clock(j)

Spec == Init /\ [][Next]_vars

\* A poll that has begun goes on, and PostgreSQL looks for deadlocks.
FairSpec ==
  /\ Spec
  /\ \A p \in Polls : WF_vars(ppc[p] # "idle" /\ PollRuns(p))
  /\ \A w \in Workers : WF_vars(WorkerRuns(w) \/ RetryCollides(w))
  /\ \A j \in Jobs : WF_vars(Clock(j))

-----------------------------------------------------------------------------
(* Properties *)

\* A poll that ends has accounted for every artifact it was told of, and what it
\* counts as enqueued, queued or processed has a job in the table: an artifact
\* that another poll had inserted is not counted on before that poll commits.
ReportIsTrue ==
  \A p \in Polls : ppc[p] = "done" =>
    \A a \in ToSet(ArtifactsIn(listing[p])) :
      /\ report[p][a] # "none"
      /\ report[p][a] # "skipped" => JobsOf(a) # {}

\* A second job without --force is enqueued for an artifact only when the first
\* has been ingested, which makes it a no-op, or has failed, which makes it a
\* retry: the lookups may miss a job, the index does not.
SecondJobIsHarmless ==
  \A j, k \in Jobs :
    /\ j < k /\ Unforced(j) /\ Unforced(k)
    /\ artifactOf[j] = artifactOf[k]
    => j \in ingested \/ status[j] = "failed"

\* A job that the worker may still claim has its staged file, although a poll
\* that is told of a conflict deletes what it staged for the same artifact.
PendingHasFile ==
  \A j \in Jobs : Pending(status[j]) => HasFile(j)

\* Polls that list the messages in the same order never wait for each other in a
\* cycle, whichever messages and attachments each of them had to skip.
DeadlockNeedsTwoOrders ==
  \A p, q \in Polls \ forced : p # q =>
    (WaitsFor(p, q) /\ WaitsFor(q, p) => listing[p] # listing[q])

\* Every poll ends, however many wait for one another.
PollsTerminate ==
  \A p \in Polls : ppc[p] = "fetch" ~> ppc[p] \in {"done", "failed"}

\* Every job is settled in the end, or lost to a worker that was killed while it
\* processed it, although the index may refuse to let a job back into the queue.
EnqueuedIsSettled ==
  \A j \in Jobs : status[j] = "queued" ~> Queue!Final(j) \/ Queue!Orphan(j)
=============================================================================
