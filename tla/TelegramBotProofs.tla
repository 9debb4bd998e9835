-------------------------- MODULE TelegramBotProofs --------------------------
(* Theorems about TelegramBot, for any number of messages, jobs and workers. *)
EXTENDS TelegramBot, FiniteSetTheorems, TLAPS

-----------------------------------------------------------------------------
(* The least and the greatest of a set of numbers *)

\* Of some numbers one is the least: the intervals up to them are finite sets, and
\* among finite sets strict inclusion is well-founded.
LEMMA LeastExists ==
  ASSUME NEW S \in SUBSET Nat, S # {}
  PROVE  \E x \in S : \A y \in S : x <= y
<1> DEFINE T == {0..n : n \in S}
<1>1. T \subseteq FiniteSubsetsOf(Nat)
  <2> SUFFICES ASSUME NEW n \in Nat PROVE 0..n \in FiniteSubsetsOf(Nat)
    OBVIOUS
  <2>1. IsFiniteSet(0..n)
    BY FS_Interval
  <2>2. 0..n \subseteq Nat
    OBVIOUS
  <2> QED
    BY <2>1, <2>2 DEF FiniteSubsetsOf
<1>2. T # {}
  OBVIOUS
<1>3. PICK X \in T : \A Y \in T : ~ (<<Y, X>> \in StrictSubsetOrdering(Nat))
  <2> HIDE DEF T
  <2> QED
    BY <1>1, <1>2, FS_StrictSubsetOrderingWellFounded, WFMin
<1>4. PICK x \in S : X = 0..x
  OBVIOUS
<1>5. ASSUME NEW y \in S, y < x PROVE FALSE
  <2>1. 0..y \in T
    OBVIOUS
  <2>2. 0..y \subseteq 0..x /\ 0..y # 0..x
    BY <1>5
  <2>3. <<0..y, 0..x>> \in StrictSubsetOrdering(Nat)
    BY <2>2 DEF StrictSubsetOrdering
  <2> QED
    BY <1>3, <1>4, <2>1, <2>3
<1>6. \A y \in S : x <= y
  BY <1>5
<1> QED
  BY <1>6

LEMMA MinIsLeast ==
  ASSUME NEW S \in SUBSET Nat, S # {}
  PROVE  Min(S) \in S /\ \A y \in S : Min(S) <= y
BY LeastExists DEF Min

LEMMA MaxIsGreatest ==
  ASSUME NEW S \in SUBSET Nat, S # {}, NEW n \in Nat, \A y \in S : y <= n
  PROVE  Max(S) \in S /\ \A y \in S : Max(S) >= y
<1> DEFINE T == {n - y : y \in S}
<1>1. T \in SUBSET Nat
  <2> SUFFICES ASSUME NEW y \in S PROVE n - y \in Nat
    OBVIOUS
  <2>1. y \in Nat /\ y <= n
    OBVIOUS
  <2> QED
    BY <2>1
<1>2. T # {}
  OBVIOUS
<1>3. PICK x \in T : \A y \in T : x <= y
  <2> HIDE DEF T
  <2> QED
    BY <1>1, <1>2, LeastExists
<1>4. PICK m \in S : x = n - m
  OBVIOUS
<1>5. ASSUME NEW y \in S PROVE m >= y
  <2>1. n - y \in T
    OBVIOUS
  <2>2. x <= n - y
    BY <1>3, <2>1
  <2>3. y \in Nat /\ m \in Nat
    OBVIOUS
  <2> QED
    BY <1>4, <2>2, <2>3
<1> QED
  BY <1>5 DEF Max

-----------------------------------------------------------------------------
(* The bot and the worker together are a JobQueue *)

\* The bot touches the jobs table only by submitting, so that a step of the
\* composition is a step of JobQueue or leaves its variables alone.
LEMMA NextIsQueueStep == [Next]_vars => [Queue!Next]_(Queue!vars)
<1> SUFFICES ASSUME [Next]_vars PROVE [Queue!Next]_(Queue!vars)
  OBVIOUS
<1>1. CASE UNCHANGED queueVars
  BY <1>1 DEF queueVars, Queue!vars, Queue!columns
<1>2. CASE Queue!Submit
  BY <1>2 DEF Queue!Next
<1>3. CASE Worker
  BY <1>3 DEF Worker, Queue!Next, Jobs, Queue!Jobs
<1>4. ASSUME BotRuns, ~Commit PROVE UNCHANGED queueVars
  BY <1>4 DEF BotRuns, Start, Poll, Handle, Answer, HasProcessed, HasPending, StageAndInsert,
     Acknowledge, Goto
<1>5. ASSUME Commit \/ CommitUnacknowledged PROVE Queue!Submit
  BY <1>5 DEF Commit, CommitUnacknowledged, EnqueueCurrent
<1> QED
  BY <1>1, <1>2, <1>3, <1>4, <1>5
     DEF Next, vars, Send, PollReturnsNothing, NoteFails, Crash

\* Beside the bot, whatever the bot does, the jobs table and its workers behave as
\* JobQueue says: what is proved of JobQueue holds here.
THEOREM QueueIsKept == Spec => Queue!Spec
<1>1. Init => Queue!Init
  BY DEF Init
<1> QED
  BY <1>1, NextIsQueueStep, PTL DEF Spec, Queue!Spec

QueueProofs == INSTANCE JobQueueProofs

\* The assumptions of JobQueue's theorems.
LEMMA QueueConstants ==
  /\ NumJobs \in Nat \ {0} /\ NoJob \notin QueueProofs!Jobs
  /\ MaxAttempts \in Nat \ {0} /\ Slow \subseteq QueueProofs!Jobs /\ MaxCrashes \in Nat
BY QueueAssumption DEF QueueProofs!Jobs, Jobs

\* JobQueue and the module of its theorems are instantiated alike.
LEMMA SameInit == Queue!Init => QueueProofs!Init
BY DEF Queue!Init, QueueProofs!Init, Queue!Jobs, QueueProofs!Jobs

LEMMA SameNext == [Queue!Next]_(Queue!vars) => [QueueProofs!Next]_(QueueProofs!vars)
<1> USE DEF Queue!vars, QueueProofs!vars, Queue!columns, QueueProofs!columns, Queue!Jobs,
      QueueProofs!Jobs, Queue!Goto, QueueProofs!Goto
<1>1. ASSUME NEW w \in Workers, Queue!Works(w) PROVE QueueProofs!Works(w)
  BY <1>1
     DEF Queue!Works, Queue!Start, Queue!Recover, Queue!Claim, Queue!PipelineCommits,
         Queue!PipelineRaises, Queue!MarkSucceeded, Queue!MarkSucceededRaises,
         Queue!MarkTerminal, Queue!MarkRetryable, Queue!Recoverable, Queue!Claimable,
         Queue!NextAttempt, Queue!Settle, Queue!Exhausted,
         QueueProofs!Works, QueueProofs!Start, QueueProofs!Recover, QueueProofs!Claim,
         QueueProofs!PipelineCommits, QueueProofs!PipelineRaises,
         QueueProofs!MarkSucceeded, QueueProofs!MarkSucceededRaises,
         QueueProofs!MarkTerminal, QueueProofs!MarkRetryable, QueueProofs!Recoverable,
         QueueProofs!Claimable, QueueProofs!NextAttempt, QueueProofs!Settle,
         QueueProofs!Exhausted
<1>2. ASSUME NEW w \in Workers, Queue!Idle(w) \/ Queue!Crash(w)
      PROVE  QueueProofs!Idle(w) \/ QueueProofs!Crash(w)
  BY <1>2 DEF Queue!Idle, Queue!Crash, Queue!Claimable,
     QueueProofs!Idle, QueueProofs!Crash, QueueProofs!Claimable
<1>3. ASSUME NEW j \in Queue!Jobs, Queue!BackoffElapses(j) \/ Queue!BecomesStale(j)
      PROVE  QueueProofs!BackoffElapses(j) \/ QueueProofs!BecomesStale(j)
  BY <1>3 DEF Queue!BackoffElapses, Queue!BecomesStale, Queue!Held,
     QueueProofs!BackoffElapses, QueueProofs!BecomesStale, QueueProofs!Held
<1>4. Queue!Submit => QueueProofs!Submit
  BY DEF Queue!Submit, QueueProofs!Submit
<1> QED
  BY <1>1, <1>2, <1>3, <1>4 DEF Queue!Next, QueueProofs!Next

QueueInv == QueueProofs!TypeInv /\ QueueProofs!IngestInv

LEMMA InitQueueInv == Init => QueueInv
BY SameInit, QueueConstants, QueueProofs!InitTypeInv, QueueProofs!InitIngestInv
   DEF Init, QueueInv

LEMMA NextQueueInv == QueueInv /\ [Next]_vars => QueueInv'
BY NextIsQueueStep, SameNext, QueueConstants, QueueProofs!NextTypeInv, QueueProofs!NextIngestInv
   DEF QueueInv

LEMMA QueueType == QueueInv => Queue!TypeOK
BY DEF QueueInv, QueueProofs!TypeInv, QueueProofs!TypeOK, Queue!TypeOK, Queue!Jobs,
   QueueProofs!Jobs, Queue!WorkerPCs, QueueProofs!WorkerPCs

-----------------------------------------------------------------------------
(* Type correctness of the bot *)

\* What the bot goes on with after a lookup it has begun is still in its batch.
NoteSteps == {"processed", "pending", "insert", "commit", "saved", "not_saved"}

BatchInv ==
  /\ bpc \in NoteSteps \cup {"answer"} => batch # {}
  /\ bpc \in NoteSteps => Current \in Notes

BotInv == QueueInv /\ TypeOK /\ BatchInv

LEMMA UpdatesAreNumbers == Updates \subseteq Nat /\ \A u \in Updates : 1 <= u /\ u <= NumUpdates
BY NumUpdatesAssumption DEF Updates

LEMMA CurrentIsFirst ==
  ASSUME TypeOK, batch # {}
  PROVE  Current \in batch /\ Current \in Updates
<1>1. batch \in SUBSET Nat
  BY UpdatesAreNumbers DEF TypeOK
<1> QED
  BY <1>1, MinIsLeast DEF Current, TypeOK

\* The server keeps what is above both numbers, and no request is lost on it.
LEMMA KeptIsGreater ==
  ASSUME TypeOK
  PROVE  /\ Kept(offset) \in {confirmed, offset} \cap 1..NumUpdates + 1
         /\ confirmed <= Kept(offset) /\ offset <= Kept(offset)
<1> DEFINE S == {confirmed, offset}
<1>1. /\ confirmed \in 1..NumUpdates + 1 /\ offset \in 0..NumUpdates + 1
      /\ NumUpdates + 1 \in Nat
  BY NumUpdatesAssumption DEF TypeOK
<1>2. S \in SUBSET Nat /\ S # {} /\ \A y \in S : y <= NumUpdates + 1
  BY <1>1
<1>3. Max(S) \in S /\ \A y \in S : Max(S) >= y
  <2> HIDE DEF S
  <2> QED
    BY <1>1, <1>2, MaxIsGreatest
<1> QED
  BY <1>1, <1>3 DEF Kept

LEMMA NewOffsetIsGreater ==
  ASSUME TypeOK, NEW U \in SUBSET Updates
  PROVE  /\ NewOffset(U) \in 0..NumUpdates + 1
         /\ NewOffset(U) \in {offset} \cup {u + 1 : u \in U}
         /\ offset <= NewOffset(U)
         /\ \A u \in U : u < NewOffset(U)
<1> DEFINE S == {offset} \cup {u + 1 : u \in U}
<1>1. offset \in 0..NumUpdates + 1 /\ NumUpdates + 1 \in Nat
  BY NumUpdatesAssumption DEF TypeOK
<1>2. \A u \in U : u \in Nat /\ u + 1 \in Nat /\ u + 1 <= NumUpdates + 1
  BY UpdatesAreNumbers, NumUpdatesAssumption
<1>3. S \in SUBSET Nat /\ S # {} /\ \A y \in S : y <= NumUpdates + 1
  BY <1>1, <1>2
<1>4. Max(S) \in S /\ \A y \in S : Max(S) >= y
  <2> HIDE DEF S
  <2> QED
    BY <1>1, <1>3, MaxIsGreatest
<1>5. NewOffset(U) = Max(S)
  BY DEF NewOffset
<1>6. Max(S) \in Nat /\ Max(S) <= NumUpdates + 1
  BY <1>3, <1>4
<1>7. \A u \in U : u + 1 <= Max(S)
  BY <1>2, <1>4, <1>6
<1>8. Max(S) \in {offset} \cup {u + 1 : u \in U} /\ offset <= Max(S)
  BY <1>1, <1>4, <1>6
<1>9. \A u \in U : u < Max(S)
  BY <1>2, <1>6, <1>7
<1>10. Max(S) \in 0..NumUpdates + 1
  BY <1>1, <1>6
<1> QED
  BY <1>5, <1>8, <1>9, <1>10

LEMMA InitBotInv == Init => BotInv
<1> SUFFICES ASSUME Init PROVE BotInv
  OBVIOUS
<1>1. QueueInv /\ Queue!TypeOK
  BY InitQueueInv, QueueType
<1>2. TypeOK
  BY <1>1, NumUpdatesAssumption, MaxBotCrashesAssumption DEF Init, TypeOK, BotPCs
<1> QED
  BY <1>1, <1>2 DEF Init, BotInv, BatchInv, NoteSteps

LEMMA ReturnType ==
  ASSUME BotInv, batch # {}, NEW r \in SUBSET Replies, Return(r)
  PROVE  /\ offset' = offset /\ batch' \subseteq Updates /\ bpc' \in BotPCs
         /\ told' \in [Updates -> SUBSET Replies]
         /\ BatchInv'
<1>1. Current \in Updates /\ told \in [Updates -> SUBSET Replies]
  BY CurrentIsFirst DEF BotInv, TypeOK
<1>2. told' = [told EXCEPT ![Current] = told[Current] \cup r]
  BY DEF Return
<1>3. told[Current] \cup r \in SUBSET Replies
  BY <1>1
<1>4. told' \in [Updates -> SUBSET Replies]
  BY <1>1, <1>2, <1>3
<1> QED
  BY <1>4 DEF BotInv, TypeOK, Return, BatchInv, NoteSteps, BotPCs

LEMMA NextBotInv == BotInv /\ [Next]_vars => BotInv'
<1> SUFFICES ASSUME BotInv, [Next]_vars PROVE BotInv'
  OBVIOUS
<1>1. QueueInv' /\ Queue!TypeOK'
  <2>1. QueueInv'
    BY NextQueueInv DEF BotInv
  <2> QED
    BY <2>1 DEF QueueInv, QueueProofs!TypeInv, QueueProofs!TypeOK, Queue!TypeOK, Queue!Jobs,
       QueueProofs!Jobs, Queue!WorkerPCs, QueueProofs!WorkerPCs
<1> USE <1>1 DEF BotInv, TypeOK, BatchInv, NoteSteps, BotPCs, pollVars, serverVars, noteVars
<1>2. CASE Send
  BY <1>2, NumUpdatesAssumption DEF Send, Current
<1>3. CASE Start
  BY <1>3, NumUpdatesAssumption DEF Start, Current
<1>4. CASE Poll
  <2>1. Returned \in SUBSET Updates
    BY DEF Returned
  <2>2. offset' \in 0..NumUpdates + 1
    BY <1>4, <2>1, NewOffsetIsGreater DEF Poll
  <2>3. confirmed' \in 1..NumUpdates + 1
    BY <1>4, KeptIsGreater DEF Poll
  <2> QED
    BY <1>4, <2>1, <2>2, <2>3 DEF Poll
<1>5. CASE PollReturnsNothing
  BY <1>5, KeptIsGreater DEF PollReturnsNothing
<1>6. CASE Handle
  <2>1. CASE Return({})
    BY <1>6, <2>1, ReturnType DEF Handle
  <2>2. CASE Goto("answer") \/ (Current \in Notes /\ Goto("processed"))
    BY <1>6, <2>2 DEF Handle, Goto, Current
  <2> QED
    BY <1>6, <2>1, <2>2 DEF Handle
<1>7. CASE Answer
  BY <1>7, ReturnType DEF Answer, Replies
<1>8. CASE HasProcessed \/ HasPending \/ StageAndInsert \/ NoteFails
  BY <1>8 DEF HasProcessed, HasPending, StageAndInsert, NoteFails, Goto, Current
<1>9. CASE Commit \/ CommitUnacknowledged
  <2>1. submitted + 1 \in Jobs /\ Queue!Submit
    BY <1>9, QueueAssumption
       DEF Commit, CommitUnacknowledged, EnqueueCurrent, Queue!Submit, Queue!TypeOK, Jobs
  <2>2. Current \in Notes
    BY <1>9 DEF Commit, CommitUnacknowledged
  <2>3. noteOf' \in [Jobs -> Notes \cup {0}]
    BY <1>9, <2>1, <2>2 DEF Commit, CommitUnacknowledged, EnqueueCurrent
  <2>4. unlinked' \subseteq Jobs
    BY <1>9, <2>1 DEF Commit, CommitUnacknowledged
  <2> QED
    BY <1>9, <2>2, <2>3, <2>4 DEF Commit, CommitUnacknowledged, Goto, Current
<1>10. CASE Acknowledge
  BY <1>10, ReturnType DEF Acknowledge, Replies
<1>11. CASE Crash
  BY <1>11, MaxBotCrashesAssumption DEF Crash
<1>12. CASE Worker
  BY <1>12 DEF Worker, Current
<1>13. CASE UNCHANGED vars
  BY <1>13 DEF vars, Current
<1> QED
  BY <1>2, <1>3, <1>4, <1>5, <1>6, <1>7, <1>8, <1>9, <1>10, <1>11, <1>12, <1>13
     DEF Next, BotRuns

\* The bot's variables always have their types, the offset and what the server
\* has forgotten never pass the last message, and the jobs table keeps its types
\* although the bot writes to it.
THEOREM TypeCorrect == Spec => []TypeOK
<1>1. BotInv => TypeOK
  BY DEF BotInv
<1> QED
  BY InitBotInv, NextBotInv, <1>1, PTL DEF Spec

-----------------------------------------------------------------------------
(* "Note saved." is true *)

\* How a step can change which jobs there are and whose they are.
LEMMA NoteOfStep ==
  ASSUME BotInv, [Next]_vars
  PROVE  \/ UNCHANGED <<submitted, noteOf>>
         \/ /\ bpc = "commit"
            /\ submitted + 1 \in Jobs /\ submitted' = submitted + 1
            /\ noteOf' = [noteOf EXCEPT ![submitted + 1] = Current]
            /\ UNCHANGED batch
<1>1. CASE Commit \/ CommitUnacknowledged
  <2>1. Queue!Submit /\ bpc = "commit"
    BY <1>1 DEF Commit, CommitUnacknowledged, EnqueueCurrent
  <2>2. submitted + 1 \in Jobs /\ submitted' = submitted + 1
    BY <2>1, QueueAssumption DEF BotInv, TypeOK, Queue!TypeOK, Queue!Submit, Jobs
  <2> QED
    BY <1>1, <2>1, <2>2 DEF Commit, CommitUnacknowledged, EnqueueCurrent, Goto, pollVars
<1>2. CASE Worker
  BY <1>2 DEF Worker, noteVars, Queue!BackoffElapses, Queue!BecomesStale, Queue!Works,
     Queue!Start, Queue!Recover, Queue!Claim, Queue!PipelineCommits, Queue!PipelineRaises,
     Queue!MarkSucceeded, Queue!MarkSucceededRaises, Queue!MarkTerminal, Queue!MarkRetryable,
     Queue!Idle, Queue!vars, Queue!Crash
<1>3. CASE UNCHANGED <<queueVars, noteVars>>
  BY <1>3 DEF queueVars, noteVars
<1>4. ASSUME BotRuns, ~Commit PROVE UNCHANGED <<queueVars, noteVars>>
  BY <1>4 DEF BotRuns, Start, Poll, Handle, Answer, HasProcessed, HasPending, StageAndInsert,
     Acknowledge
<1> QED
  BY <1>1, <1>2, <1>3, <1>4 DEF Next, vars, Send, PollReturnsNothing, NoteFails, Crash

\* What the bot is about to say, as what it has said, is said of a note with a job;
\* and no job has been given a note before it was submitted.
SavedInv ==
  /\ SavedIsEnqueued
  /\ \A j \in Jobs : j > submitted => noteOf[j] = 0
  /\ bpc = "saved" => JobsOf(Current) # {}

LEMMA NotesAreUpdates == \A u \in Notes : u \in Updates /\ u # 0
BY NotesAssumption, UpdatesAreNumbers

\* A note keeps the jobs that it has.
LEMMA JobsOfGrow ==
  ASSUME BotInv, SavedInv, [Next]_vars, NEW u \in Notes
  PROVE  \A j \in JobsOf(u) : noteOf'[j] = u
<1>1. submitted \in Nat
  BY QueueAssumption DEF BotInv, TypeOK, Queue!TypeOK
<1>2. ASSUME NEW j \in JobsOf(u) PROVE j \in Jobs /\ noteOf[j] = u /\ j # submitted + 1
  <2>1. j \in Jobs /\ noteOf[j] = u /\ u # 0
    BY NotesAreUpdates DEF JobsOf
  <2>2. j \in Nat
    BY <2>1 DEF Jobs
  <2> QED
    BY <1>1, <2>1, <2>2 DEF SavedInv
<1> QED
  BY <1>2, NoteOfStep DEF BotInv, TypeOK

LEMMA InitSavedInv == Init => SavedInv
BY NotesAreUpdates DEF Init, SavedInv, SavedIsEnqueued

LEMMA NextSavedInv == BotInv /\ SavedInv /\ [Next]_vars => SavedInv'
<1> SUFFICES ASSUME BotInv, SavedInv, [Next]_vars PROVE SavedInv'
  OBVIOUS
<1>1. \A j \in Jobs : j > submitted' => noteOf'[j] = 0
  <2>1. submitted \in Nat /\ noteOf \in [Jobs -> Notes \cup {0}] /\ \A j \in Jobs : j \in Nat
    BY QueueAssumption DEF BotInv, TypeOK, Queue!TypeOK, Jobs
  <2> QED
    BY <2>1, NoteOfStep DEF SavedInv
<1>2. \A u \in Notes : JobsOf(u) # {} => JobsOf(u)' # {}
  <2> SUFFICES ASSUME NEW u \in Notes, NEW j \in JobsOf(u) PROVE JobsOf(u)' # {}
    OBVIOUS
  <2> QED
    BY JobsOfGrow DEF JobsOf
<1>3. bpc \in NoteSteps => Current \in Notes
  BY DEF BotInv, BatchInv
<1>4. CASE UNCHANGED <<batch, bpc, told>>
  BY <1>1, <1>2, <1>3, <1>4 DEF SavedInv, SavedIsEnqueued, Current, NoteSteps
<1>5. CASE bpc' # "saved" /\ UNCHANGED told
  BY <1>1, <1>2, <1>5 DEF SavedInv, SavedIsEnqueued
<1>6. CASE HasProcessed \/ HasPending
  <2>1. UNCHANGED <<batch, told, noteOf>>
    BY <1>6 DEF HasProcessed, HasPending, Goto, pollVars, noteVars
  <2>2. bpc' = "saved" => JobsOf(Current) # {}
    BY <1>6 DEF HasProcessed, HasPending, Goto, Processed, Pending
  <2>3. Current' = Current /\ JobsOf(Current)' = JobsOf(Current)
    BY <2>1 DEF Current, JobsOf
  <2> QED
    BY <1>1, <1>2, <2>1, <2>2, <2>3 DEF SavedInv, SavedIsEnqueued
<1>7. CASE Commit
  <2>1. /\ submitted + 1 \in Jobs /\ noteOf' = [noteOf EXCEPT ![submitted + 1] = Current]
        /\ UNCHANGED <<batch, told>> /\ noteOf \in [Jobs -> Notes \cup {0}]
    BY <1>7, QueueAssumption
       DEF Commit, EnqueueCurrent, Queue!Submit, Goto, pollVars, BotInv, TypeOK, Queue!TypeOK, Jobs
  <2>2. submitted + 1 \in JobsOf(Current)'
    BY <2>1 DEF JobsOf, Current
  <2> QED
    BY <1>1, <1>2, <2>1, <2>2 DEF SavedInv, SavedIsEnqueued
<1>8. ASSUME NEW r \in SUBSET Replies, Return(r), batch # {},
             "saved" \in r /\ Current \in Notes => JobsOf(Current) # {}
      PROVE  SavedInv'
  <2>1. \A u \in Updates : told'[u] = IF u = Current THEN told[u] \cup r ELSE told[u]
    BY <1>8 DEF Return, BotInv, TypeOK
  <2>2. \A u \in Notes : "saved" \in told'[u] => JobsOf(u) # {}
    BY <1>8, <2>1, NotesAreUpdates DEF SavedInv, SavedIsEnqueued
  <2>3. bpc' = "loop"
    BY <1>8 DEF Return
  <2> QED
    BY <1>1, <1>2, <2>2, <2>3 DEF SavedInv, SavedIsEnqueued
<1>9. CASE Handle
  <2>1. CASE Return({})
    BY <1>8, <1>9, <2>1 DEF Handle
  <2> QED
    BY <1>5, <1>9, <2>1 DEF Handle, Goto
<1>10. CASE Answer
  BY <1>8, <1>10 DEF Answer, Replies, BotInv, BatchInv
<1>11. CASE Acknowledge
  BY <1>8, <1>11 DEF Acknowledge, Replies, BotInv, BatchInv, NoteSteps, SavedInv
<1>12. CASE Send \/ PollReturnsNothing \/ Worker \/ UNCHANGED vars
  BY <1>4, <1>12 DEF Send, PollReturnsNothing, Worker, vars, pollVars
<1>13. CASE Start \/ Poll \/ StageAndInsert \/ NoteFails \/ CommitUnacknowledged \/ Crash
  BY <1>5, <1>13 DEF Start, Poll, StageAndInsert, NoteFails, CommitUnacknowledged, Crash, Goto
<1> QED
  BY <1>6, <1>7, <1>9, <1>10, <1>11, <1>12, <1>13 DEF Next, BotRuns

\* Whatever crashes, redeliveries and lost acknowledgements there are, the user is
\* told that a note is saved only if a job for it is in the queue.
THEOREM SavedNotesAreEnqueued == Spec => []SavedIsEnqueued
<1>1. SavedInv => SavedIsEnqueued
  BY DEF SavedInv
<1> QED
  BY InitBotInv, NextBotInv, InitSavedInv, NextSavedInv, <1>1, PTL DEF Spec

-----------------------------------------------------------------------------
(* Nothing is forgotten unanswered *)

\* While it lives the bot has answered what is below its offset and no longer in its
\* batch: the offset, advanced before the batch is handled, is sent only after.
AnsweredInv ==
  /\ ForgottenIsAnswered
  /\ bpc # "down" => \A u \in Notes \cup Questions :
       u < offset /\ u \notin batch => told[u] # {}

LEMMA AskedAreUpdates == Notes \cup Questions \subseteq Updates
BY NotesAssumption, QuestionsAssumption

LEMMA InitAnsweredInv == Init => AnsweredInv
<1> SUFFICES ASSUME Init PROVE AnsweredInv
  OBVIOUS
<1>1. \A u \in Notes \cup Questions : u \in Nat /\ 1 <= u
  BY AskedAreUpdates, UpdatesAreNumbers
<1> QED
  BY <1>1 DEF Init, AnsweredInv, ForgottenIsAnswered

LEMMA NextAnsweredInv == BotInv /\ AnsweredInv /\ [Next]_vars => AnsweredInv'
<1> SUFFICES ASSUME BotInv, AnsweredInv, [Next]_vars PROVE AnsweredInv'
  OBVIOUS
<1> DEFINE Asked == Notes \cup Questions
<1>0. /\ \A u \in Asked : u \in Updates /\ u \in Nat /\ 1 <= u
      /\ offset \in Nat /\ confirmed \in Nat /\ sent \in Nat /\ batch \subseteq Updates
  <2>1. \A u \in Asked : u \in Updates /\ u \in Nat /\ 1 <= u
    BY AskedAreUpdates, UpdatesAreNumbers
  <2>2. /\ offset \in 0..NumUpdates + 1 /\ confirmed \in 1..NumUpdates + 1
        /\ sent \in 0..NumUpdates /\ batch \subseteq Updates
    BY DEF BotInv, TypeOK
  <2> QED
    BY <2>1, <2>2, NumUpdatesAssumption
<1>1. CASE UNCHANGED <<confirmed, offset, batch, told>> /\ (bpc # "down" \/ bpc' = "down")
  BY <1>1 DEF AnsweredInv, ForgottenIsAnswered
<1>2. CASE Start
  BY <1>0, <1>2 DEF Start, AnsweredInv, ForgottenIsAnswered, serverVars
<1>3. ASSUME bpc = "loop", batch = {}
      PROVE  \A u \in Asked : u < Kept(offset) => told[u] # {}
  BY <1>3, KeptIsGreater DEF AnsweredInv, ForgottenIsAnswered, BotInv
<1>4. CASE Poll
  <2>1. /\ bpc = "loop" /\ batch = {} /\ confirmed' = Kept(offset)
        /\ offset' = NewOffset(Returned) /\ batch' = Returned /\ UNCHANGED <<told, bpc>>
    BY <1>4 DEF Poll
  <2>2. ForgottenIsAnswered'
    BY <1>3, <2>1 DEF ForgottenIsAnswered
  <2>3. Returned \in SUBSET Updates /\ \A u \in Returned : u <= sent
    BY DEF Returned
  <2>4. offset' = offset \/ \E v \in Returned : offset' = v + 1
    BY <2>1, <2>3, NewOffsetIsGreater DEF BotInv
  <2>5. ASSUME NEW u \in Asked, u < offset', u \notin Returned PROVE told[u] # {}
    <3>1. u < offset \/ u <= sent
      <4>1. CASE offset' = offset
        BY <2>5, <4>1
      <4>2. ASSUME NEW v \in Returned, offset' = v + 1 PROVE u <= sent
        <5>1. v \in Nat /\ v <= sent
          BY <2>3, <1>0, UpdatesAreNumbers
        <5> QED
          BY <1>0, <2>5, <4>2, <5>1
      <4> QED
        BY <2>4, <4>1, <4>2
    <3>2. CASE u < offset
      BY <2>1, <3>2 DEF AnsweredInv
    <3>3. CASE u <= sent
      <4>1. u < Kept(offset)
        <5>1. ~ (Kept(offset) <= u)
          BY <1>0, <2>5, <3>3 DEF Returned
        <5>2. Kept(offset) \in Nat
          BY KeptIsGreater, <1>0 DEF BotInv
        <5> QED
          BY <1>0, <5>1, <5>2
      <4> QED
        BY <1>3, <2>1, <4>1
    <3> QED
      BY <3>1, <3>2, <3>3
  <2> QED
    BY <2>1, <2>2, <2>5 DEF AnsweredInv
<1>5. CASE PollReturnsNothing
  BY <1>3, <1>5 DEF PollReturnsNothing, pollVars, AnsweredInv, ForgottenIsAnswered
<1>6. ASSUME NEW r \in SUBSET Replies, Return(r), batch # {}, UNCHANGED confirmed, bpc # "down",
             Current \in Asked => r # {}
      PROVE  AnsweredInv'
  <2>1. \A u \in Asked : told'[u] = IF u = Current THEN told[u] \cup r ELSE told[u]
    BY <1>0, <1>6 DEF Return, BotInv, TypeOK
  <2>2. batch' = batch \ {Current} /\ offset' = offset
    BY <1>6 DEF Return
  <2>3. \A u \in Asked : told[u] # {} => told'[u] # {}
    BY <2>1
  <2>4. Current \in Asked => told'[Current] # {}
    BY <1>6, <2>1
  <2> QED
    BY <1>6, <2>2, <2>3, <2>4 DEF AnsweredInv, ForgottenIsAnswered
<1>7. CASE Handle
  <2>1. CASE Return({}) /\ Current \notin Asked
    BY <1>6, <1>7, <2>1 DEF Handle, serverVars
  <2>2. CASE Goto("answer") \/ Goto("processed")
    BY <1>1, <1>7, <2>2 DEF Handle, Goto, pollVars, serverVars
  <2> QED
    BY <1>7, <2>1, <2>2 DEF Handle
<1>8. CASE Answer
  BY <1>6, <1>8 DEF Answer, Replies, BotInv, BatchInv, serverVars
<1>9. CASE Acknowledge
  BY <1>6, <1>9 DEF Acknowledge, Replies, BotInv, BatchInv, NoteSteps, serverVars
<1>10. CASE Send \/ Worker \/ UNCHANGED vars
  BY <1>1, <1>10 DEF Send, Worker, vars, pollVars, serverVars, AnsweredInv, ForgottenIsAnswered
<1>11. CASE HasProcessed \/ HasPending \/ StageAndInsert \/ NoteFails \/ Commit
            \/ CommitUnacknowledged
  BY <1>1, <1>11 DEF HasProcessed, HasPending, StageAndInsert, NoteFails, Commit,
     CommitUnacknowledged, Goto, pollVars, serverVars
<1>12. CASE Crash
  BY <1>1, <1>12 DEF Crash, pollVars, serverVars
<1> QED
  BY <1>2, <1>4, <1>5, <1>7, <1>8, <1>9, <1>10, <1>11, <1>12 DEF Next, BotRuns

\* The bot keeps its offset in memory and moves it past a batch before it handles
\* the batch: the server nevertheless never forgets a message that has no reply.
THEOREM ForgottenMessagesAreAnswered == Spec => []ForgottenIsAnswered
<1>1. AnsweredInv => ForgottenIsAnswered
  BY DEF AnsweredInv
<1> QED
  BY InitBotInv, NextBotInv, InitAnsweredInv, NextAnsweredInv, <1>1, PTL DEF Spec

-----------------------------------------------------------------------------
(* A second job is harmless *)

\* Between the last lookup and the commit the note has only closed jobs.
HarmlessInv ==
  /\ SecondJobIsHarmless
  /\ bpc \in {"insert", "commit"} => \A j \in JobsOf(Current) : QueueProofs!Closed(j)

\* The single worker's invariants that keep a job closed.
ClosedInv == QueueInv /\ QueueProofs!OwnerInv

LEMMA ClosedJobStays ==
  ASSUME ClosedInv, [Next]_vars, NEW j \in Jobs, QueueProofs!Closed(j)
  PROVE  QueueProofs!Closed(j)'
BY NextIsQueueStep, SameNext, QueueConstants, QueueProofs!ClosedStays
   DEF ClosedInv, QueueInv, Jobs, QueueProofs!Jobs

LEMMA NextClosedInv == ASSUME Slow = {} PROVE ClosedInv /\ [Next]_vars => ClosedInv'
BY NextQueueInv, NextIsQueueStep, SameNext, QueueConstants, QueueProofs!NextOwnerInv
   DEF ClosedInv, QueueInv

LEMMA InitHarmlessInv == Init => ClosedInv /\ HarmlessInv
BY InitQueueInv, SameInit, QueueConstants, QueueProofs!InitOwnerInv
   DEF Init, ClosedInv, HarmlessInv, SecondJobIsHarmless

LEMMA NextHarmlessInv ==
  BotInv /\ SavedInv /\ ClosedInv /\ HarmlessInv /\ [Next]_vars => HarmlessInv'
<1> SUFFICES ASSUME BotInv, SavedInv, ClosedInv, HarmlessInv, [Next]_vars PROVE HarmlessInv'
  OBVIOUS
<1>0. /\ submitted \in Nat /\ noteOf \in [Jobs -> Notes \cup {0}]
      /\ \A j \in Jobs : j \in Nat
      /\ \A j \in Jobs : j > submitted => noteOf[j] = 0
  BY QueueAssumption DEF BotInv, TypeOK, Queue!TypeOK, Jobs, SavedInv
<1>1. SecondJobIsHarmless'
  <2>1. SUFFICES ASSUME NEW j \in Jobs, NEW k \in Jobs,
                        noteOf'[j] = noteOf'[k], noteOf'[j] # 0, j < k
                 PROVE  QueueProofs!Closed(j)'
    BY <2>1 DEF SecondJobIsHarmless, QueueProofs!Closed
  <2>2. QueueProofs!Closed(j)
    <3>1. CASE UNCHANGED noteOf
      BY <2>1, <3>1 DEF HarmlessInv, SecondJobIsHarmless, QueueProofs!Closed
    <3>2. CASE /\ bpc = "commit" /\ submitted + 1 \in Jobs
               /\ noteOf' = [noteOf EXCEPT ![submitted + 1] = Current]
      <4>1. j # submitted + 1
        BY <1>0, <2>1, <3>2
      <4>2. CASE k = submitted + 1
        <5>1. j \in JobsOf(Current)
          BY <1>0, <2>1, <3>2, <4>1, <4>2 DEF JobsOf
        <5> QED
          BY <3>2, <5>1 DEF HarmlessInv
      <4>3. CASE k # submitted + 1
        BY <1>0, <2>1, <3>2, <4>1, <4>3 DEF HarmlessInv, SecondJobIsHarmless, QueueProofs!Closed
      <4> QED
        BY <4>2, <4>3
    <3> QED
      BY <3>1, <3>2, NoteOfStep
  <2> QED
    BY <2>2, ClosedJobStays
<1>2. ASSUME UNCHANGED <<batch, noteOf>>, \A j \in JobsOf(Current) : QueueProofs!Closed(j)
      PROVE  HarmlessInv'
  <2>1. Current' = Current /\ JobsOf(Current)' = JobsOf(Current)
    BY <1>2 DEF Current, JobsOf
  <2>2. \A j \in JobsOf(Current) : QueueProofs!Closed(j)'
    BY <1>2, ClosedJobStays DEF JobsOf
  <2> QED
    BY <1>1, <2>1, <2>2 DEF HarmlessInv
<1>3. CASE bpc' \notin {"insert", "commit"}
  BY <1>1, <1>3 DEF HarmlessInv
<1>4. CASE HasPending
  <2>1. CASE Pending(Current)
    BY <1>3, <1>4, <2>1 DEF HasPending, Goto
  <2>2. CASE ~Pending(Current)
    <3>1. Current \in Notes /\ UNCHANGED <<batch, noteOf>>
      BY <1>4 DEF HasPending, Goto, pollVars, noteVars, BotInv, BatchInv, NoteSteps
    <3>2. ASSUME NEW j \in JobsOf(Current) PROVE QueueProofs!Closed(j)
      <4>1. j \in Jobs /\ noteOf[j] # 0 /\ status[j] \notin {"queued", "running"}
        BY <2>2, <3>1, <3>2, NotesAreUpdates DEF JobsOf, Pending
      <4>2. j \in QueueProofs!Jobs /\ status[j] # "absent"
        BY <1>0, <4>1
           DEF ClosedInv, QueueInv, QueueProofs!TypeInv, QueueProofs!ExistIffSubmitted, Jobs,
               QueueProofs!Jobs
      <4> QED
        BY <4>1, <4>2, QueueConstants, QueueProofs!NotPendingIsClosed DEF ClosedInv, QueueInv
    <3> QED
      BY <1>2, <3>1, <3>2
  <2> QED
    BY <2>1, <2>2
<1>5. CASE UNCHANGED <<batch, bpc, noteOf>>
  BY <1>2, <1>3, <1>5 DEF HarmlessInv
<1>6. CASE StageAndInsert
  BY <1>2, <1>6 DEF StageAndInsert, Goto, pollVars, noteVars, HarmlessInv
<1>7. CASE Handle \/ Answer \/ Acknowledge
  BY <1>3, <1>7 DEF Handle, Answer, Acknowledge, Goto, Return
<1>8. CASE HasProcessed \/ NoteFails \/ Commit \/ CommitUnacknowledged \/ Start \/ Crash
  BY <1>3, <1>8 DEF HasProcessed, NoteFails, Commit, CommitUnacknowledged, Start, Crash, Goto
<1>9. CASE Poll
  BY <1>3, <1>9 DEF Poll
<1>10. CASE Send \/ PollReturnsNothing \/ Worker \/ UNCHANGED vars
  BY <1>5, <1>10 DEF Send, PollReturnsNothing, Worker, vars, pollVars, noteVars
<1> QED
  BY <1>4, <1>6, <1>7, <1>8, <1>9, <1>10 DEF Next, BotRuns

\* The lookups and the INSERT race with the worker and each sees another state of
\* the jobs table: a second job of a note is a no-op or a retry all the same, for
\* any number of workers, when no job outlasts the stale timeout.
THEOREM SecondJobsAreHarmless == ASSUME Slow = {} PROVE Spec => []SecondJobIsHarmless
<1>1. HarmlessInv => SecondJobIsHarmless
  BY DEF HarmlessInv
<1>2. ClosedInv /\ [Next]_vars => ClosedInv'
  BY NextClosedInv
<1> QED
  BY InitBotInv, NextBotInv, InitSavedInv, NextSavedInv, InitHarmlessInv, NextHarmlessInv,
     <1>1, <1>2, PTL DEF Spec
=============================================================================
