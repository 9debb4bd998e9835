----------------------------- MODULE TelegramBot -----------------------------
(***************************************************************************)
(* The Telegram bot (src/cos/connectors/telegram_bot.py) beside the ingest *)
(* worker of JobQueue, with which it shares the jobs table.                *)
(*                                                                         *)
(* The bot polls getUpdates with an offset that it keeps in memory and     *)
(* handles what it received one update after another.  A question is       *)
(* answered; a note is looked up in the store, then among the pending      *)
(* jobs, and is staged and enqueued when neither has it.  The two lookups  *)
(* and the INSERT are one transaction at READ COMMITTED: each sees what    *)
(* the worker has committed when it starts.                                *)
(*                                                                         *)
(* The server keeps an update until a request comes with a greater offset: *)
(* a bot that dies while it handles a batch gets the batch again.  The     *)
(* locator and the bytes of a note are functions of its message, so the    *)
(* update stands for both.  Whether a reply arrives is not known to the    *)
(* bot, whose channel swallows every error: told is what it has sent.      *)
(***************************************************************************)
EXTENDS Naturals, FiniteSets, FiniteSetsExt

CONSTANTS
  NumUpdates,     \* how many messages the user sends
  Notes,          \* the updates that are notes
  Questions,      \* the updates that are questions; the others are ignored
  MaxBotCrashes,  \* bound: how many times the bot dies
  NumJobs, Workers, NoJob, MaxAttempts, Slow, MaxCrashes  \* those of JobQueue

Updates == 1..NumUpdates

ASSUME NumUpdatesAssumption == NumUpdates \in Nat
ASSUME NotesAssumption == Notes \subseteq Updates
ASSUME QuestionsAssumption == Questions \subseteq Updates \ Notes
ASSUME MaxBotCrashesAssumption == MaxBotCrashes \in Nat
\* Every delivery of a note may be enqueued: the bound on jobs is never felt.
ASSUME RoomForJobs == NumJobs >= Cardinality(Notes) * (MaxBotCrashes + 1)

VARIABLES
  submitted, status, attempts, available, stale, ingested,  \* those of JobQueue
  wpc, job, attempt, crashes,
  sent,        \* how many messages the user has sent
  confirmed,   \* the least update that the server still keeps
  offset,      \* the bot's offset, and
  batch,       \* what it has received but not handled
  bpc,         \* what the bot does next
  told,        \* the replies sent about each update
  noteOf,      \* the note that each job ingests
  unlinked,    \* the jobs whose staged file the bot has deleted
  botCrashes

queueVars  == <<submitted, status, attempts, available, stale, ingested,
                wpc, job, attempt, crashes>>
serverVars == <<sent, confirmed>>
pollVars   == <<offset, batch>>
noteVars   == <<noteOf, unlinked>>
vars == <<queueVars, serverVars, pollVars, bpc, told, noteVars, botCrashes>>

Queue == INSTANCE JobQueue

Jobs == 1..NumJobs

\* What JobQueue assumes.
ASSUME QueueAssumption ==
  /\ NumJobs \in Nat \ {0} /\ NoJob \notin Jobs
  /\ MaxAttempts \in Nat \ {0} /\ Slow \subseteq Jobs /\ MaxCrashes \in Nat

BotPCs  == {"down", "loop", "answer", "processed", "pending", "insert", "commit",
            "saved", "not_saved"}
Replies == {"answer", "saved", "not_saved"}

TypeOK ==
  /\ Queue!TypeOK
  /\ sent \in 0..NumUpdates
  /\ confirmed \in 1..NumUpdates + 1
  /\ offset \in 0..NumUpdates + 1
  /\ batch \subseteq Updates
  /\ bpc \in BotPCs
  /\ told \in [Updates -> SUBSET Replies]
  /\ noteOf \in [Jobs -> Notes \cup {0}]
  /\ unlinked \subseteq Jobs
  /\ botCrashes \in 0..MaxBotCrashes

Init ==
  /\ Queue!Init
  /\ sent = 0 /\ confirmed = 1
  /\ offset = 0 /\ batch = {}
  /\ bpc = "down"
  /\ told = [u \in Updates |-> {}]
  /\ noteOf = [j \in Jobs |-> 0]
  /\ unlinked = {}
  /\ botCrashes = 0

-----------------------------------------------------------------------------
(* The user and the server *)

Send ==
  /\ sent < NumUpdates
  /\ sent' = sent + 1
  /\ UNCHANGED <<queueVars, confirmed, pollVars, bpc, told, noteVars, botCrashes>>

\* getUpdates forgets the updates below the offset it is called with.
Kept(o) == Max({confirmed, o})

Returned == {u \in Updates : Kept(offset) <= u /\ u <= sent}

-----------------------------------------------------------------------------
(* The polling loop *)

Start ==
  /\ bpc = "down"
  /\ bpc' = "loop"
  /\ offset' = 0 /\ batch' = {}
  /\ UNCHANGED <<queueVars, serverVars, told, noteVars, botCrashes>>

\* The mutant also steps over the update that comes next.
Mutant_NewOffset(updates) == Max({offset} \cup {u + 2 : u \in updates})
NewOffset(updates) == Max({offset} \cup {u + 1 : u \in updates})

\* _poll_once, called when the whole of the last batch has been handled.
Poll ==
  /\ bpc = "loop" /\ batch = {}
  /\ Returned # {}
  /\ confirmed' = Kept(offset)
  /\ offset' = NewOffset(Returned)
  /\ batch' = Returned
  /\ UNCHANGED <<queueVars, sent, bpc, told, noteVars, botCrashes>>

\* No update came before the timeout, or the request failed, or its response was
\* lost, and the bot tries again after a backoff: the offset stays.
PollReturnsNothing ==
  /\ bpc = "loop" /\ batch = {}
  /\ confirmed' \in {confirmed, Kept(offset)}
  /\ UNCHANGED <<queueVars, sent, pollVars, bpc, told, noteVars, botCrashes>>

-----------------------------------------------------------------------------
(* _handle_update *)

Current == Min(batch)

\* The handler returns, having sent r: the loop takes the next update.
Return(r) ==
  /\ told' = [told EXCEPT ![Current] = @ \cup r]
  /\ batch' = batch \ {Current}
  /\ bpc' = "loop"
  /\ UNCHANGED offset

Goto(label) == bpc' = label /\ UNCHANGED <<pollVars, told>>

\* _classify_inbound_text.  What comes from another chat, has no text or is
\* neither question nor note is answered with guidance at most.
Handle ==
  /\ bpc = "loop" /\ batch # {}
  /\ \/ Current \in Questions /\ Goto("answer")
     \/ Current \in Notes /\ Goto("processed")
     \/ Current \notin Questions \cup Notes /\ Return({})
  /\ UNCHANGED <<queueVars, serverVars, noteVars, botCrashes>>

\* The answer, or the recovery reply when retrieval raises or takes 60 seconds.
Answer ==
  /\ bpc = "answer"
  /\ Return({"answer"})
  /\ UNCHANGED <<queueVars, serverVars, noteVars, botCrashes>>

JobsOf(u) == {j \in Jobs : noteOf[j] = u}

\* has_processed_artifact: no two notes have one locator.
Processed(u) == \E j \in JobsOf(u) : j \in ingested

\* has_pending_job_for_locator.  The mutant misses the job that is running.
Mutant_Pending(u) == \E j \in JobsOf(u) : status[j] = "queued"
Pending(u) == \E j \in JobsOf(u) : status[j] \in {"queued", "running"}

HasProcessed ==
  /\ bpc = "processed"
  /\ Goto(IF Processed(Current) THEN "saved" ELSE "pending")
  /\ UNCHANGED <<queueVars, serverVars, noteVars, botCrashes>>

HasPending ==
  /\ bpc = "pending"
  /\ Goto(IF Pending(Current) THEN "saved" ELSE "insert")
  /\ UNCHANGED <<queueVars, serverVars, noteVars, botCrashes>>

\* _stage_telegram_note, then the INSERT, which is not yet visible.  The mutant
\* acknowledges here, before the connection block has exited.
Mutant_StageAndInsert ==
  /\ bpc = "insert"
  /\ Goto("saved")
  /\ UNCHANGED <<queueVars, serverVars, noteVars, botCrashes>>

StageAndInsert ==
  /\ bpc = "insert"
  /\ Goto("commit")
  /\ UNCHANGED <<queueVars, serverVars, noteVars, botCrashes>>

\* The connection block exits: the job is in the queue.
EnqueueCurrent ==
  /\ Queue!Submit
  /\ noteOf' = [noteOf EXCEPT ![submitted + 1] = Current]

Commit ==
  /\ bpc = "commit"
  /\ EnqueueCurrent
  /\ Goto("saved")
  /\ UNCHANGED <<serverVars, unlinked, botCrashes>>

\* The pool, a statement or the write of the file raises: what was inserted is
\* rolled back and the staged file is deleted.
NoteFails ==
  /\ bpc \in {"processed", "pending", "insert", "commit"}
  /\ Goto("not_saved")
  /\ UNCHANGED <<queueVars, serverVars, noteVars, botCrashes>>

\* The connection is lost after PostgreSQL has committed: for the bot the same
\* failure, and the file of a queued job is deleted.
CommitUnacknowledged ==
  /\ bpc = "commit"
  /\ EnqueueCurrent
  /\ unlinked' = unlinked \cup {submitted + 1}
  /\ Goto("not_saved")
  /\ UNCHANGED <<serverVars, botCrashes>>

Acknowledge ==
  /\ bpc \in {"saved", "not_saved"}
  /\ Return({bpc})
  /\ UNCHANGED <<queueVars, serverVars, noteVars, botCrashes>>

\* The process is killed; an open transaction is rolled back.
Crash ==
  /\ bpc # "down"
  /\ botCrashes < MaxBotCrashes
  /\ botCrashes' = botCrashes + 1
  /\ bpc' = "down"
  /\ UNCHANGED <<queueVars, serverVars, pollVars, told, noteVars>>

-----------------------------------------------------------------------------
(* The worker *)

\* Every step of JobQueue but Submit, which is the bot's.  A job whose staged
\* file is gone raises FileNotFoundError.
Worker ==
  /\ \/ \E j \in Jobs : Queue!BackoffElapses(j) \/ Queue!BecomesStale(j)
     \/ \E w \in Workers : Queue!Works(w) \/ Queue!Idle(w) \/ Queue!Crash(w)
  /\ (ingested' \ ingested) \cap unlinked = {}
  /\ UNCHANGED <<serverVars, pollVars, bpc, told, noteVars, botCrashes>>

BotRuns ==
  \/ Start \/ Poll \/ Handle \/ Answer
  \/ HasProcessed \/ HasPending \/ StageAndInsert \/ Commit \/ Acknowledge

Next ==
  \/ Send
  \/ BotRuns \/ PollReturnsNothing \/ NoteFails \/ CommitUnacknowledged \/ Crash
  \/ Worker

Spec == Init /\ [][Next]_vars

\* Docker restarts the bot, a poll is answered some time, and no handler hangs:
\* retrieval has a timeout.
FairSpec == Spec /\ WF_vars(BotRuns)

-----------------------------------------------------------------------------
(* Properties *)

\* "Note saved." is never said of a note that has no job: the reply is sent
\* after the commit, and a redelivered note is found by one of the lookups.
SavedIsEnqueued ==
  \A u \in Notes : "saved" \in told[u] => JobsOf(u) # {}

\* The server forgets a question or a note only after the bot has replied to
\* it, although the bot advances its offset before it handles the batch, loses
\* the offset when it dies, and the server may have seen a lost request.
ForgottenIsAnswered ==
  \A u \in Notes \cup Questions : u < confirmed => told[u] # {}

\* A note gets a second job only when its first has been ingested, which makes
\* the second a no-op, or has failed for good, which makes it a retry.
SecondJobIsHarmless ==
  \A j, k \in Jobs :
    noteOf[j] = noteOf[k] /\ noteOf[j] # 0 /\ j < k
      => j \in ingested \/ status[j] = "failed"

\* Every question and every note is replied to in the end, whatever crashes and
\* lost responses came before.
EveryMessageAnswered ==
  \A u \in Notes \cup Questions : u <= sent ~> told[u] # {}

\* "If the same message update is delivered again with the same locator and
\* fingerprint, the bot returns Note saved without creating a duplicate ingest
\* job": a note whose first job is not failed never gets another.
RedeliveryIsIdempotent ==
  \A j, k \in Jobs :
    noteOf[j] = noteOf[k] /\ noteOf[j] # 0 /\ j < k => status[j] = "failed"
=============================================================================
