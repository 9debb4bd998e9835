--------------------------- MODULE JobQueueProofs ---------------------------
(* Theorems about JobQueue, for any number of jobs, workers and crashes. *)
EXTENDS JobQueue, TLAPS

-----------------------------------------------------------------------------
(* Type correctness, and which worker is where *)

\* A worker has a job exactly between its claim and its last UPDATE.
HoldsWhileWorking ==
  \A w \in Workers : job[w] # NoJob <=> wpc[w] \in {"pipeline", "mark_succeeded", "mark_failure"}

\* The jobs that exist are the first ones, and a held job exists.
ExistIffSubmitted ==
  /\ \A j \in Jobs : status[j] = "absent" <=> j > submitted
  /\ \A w \in Workers : job[w] # NoJob => status[job[w]] # "absent"

TypeInv == TypeOK /\ HoldsWhileWorking /\ ExistIffSubmitted

LEMMA InitTypeInv == Init => TypeInv
BY NumJobsAssumption, MaxCrashesAssumption
   DEF Init, TypeInv, TypeOK, WorkerPCs, HoldsWhileWorking, ExistIffSubmitted, Jobs

\* The record of a worker that is working names a job.
LEMMA HeldIsJob ==
  ASSUME TypeInv, NEW w \in Workers,
         wpc[w] \in {"pipeline", "mark_succeeded", "mark_failure"}
  PROVE  job[w] \in Jobs
BY DEF TypeInv, TypeOK, HoldsWhileWorking

\* The final UPDATE of a job and the end of its processing.
LEMMA SettleType ==
  ASSUME TypeInv, NEW w \in Workers, NEW s \in {"queued", "succeeded", "failed"},
         wpc[w] \in {"pipeline", "mark_succeeded", "mark_failure"},
         Settle(w, s),
         available' \in [Jobs -> BOOLEAN],
         UNCHANGED <<submitted, attempts, stale, ingested, attempt, crashes>>
  PROVE  TypeInv'
<1>1. job[w] \in Jobs
  BY HeldIsJob
<1> USE DEF TypeInv, Settle, Goto
<1>2. TypeOK'
  BY <1>1 DEF TypeOK, WorkerPCs
<1>3. HoldsWhileWorking'
  BY DEF TypeOK, HoldsWhileWorking
<1>4. ExistIffSubmitted'
  BY <1>1, NoJobAssumption DEF TypeOK, ExistIffSubmitted
<1> QED
  BY <1>2, <1>3, <1>4

LEMMA NextTypeInv == TypeInv /\ [Next]_vars => TypeInv'
<1> SUFFICES ASSUME TypeInv, [Next]_vars PROVE TypeInv'
  OBVIOUS
<1> USE DEF TypeInv, TypeOK, HoldsWhileWorking, ExistIffSubmitted, Goto, columns, WorkerPCs
<1>1. CASE Submit
  <2>1. submitted + 1 \in Jobs /\ submitted \in Nat
    BY <1>1, NumJobsAssumption DEF Submit, Jobs
  <2>2. /\ status' = [status EXCEPT ![submitted + 1] = "queued"]
        /\ submitted' = submitted + 1 /\ submitted' \in 0..NumJobs
        /\ UNCHANGED <<attempts, available, stale, ingested, wpc, job, attempt, crashes>>
    BY <1>1, NumJobsAssumption DEF Submit
  <2>3. \A j \in Jobs : j \in Nat
    BY DEF Jobs
  <2>4. \A j \in Jobs : status'[j] = "absent" <=> j > submitted'
    BY <2>1, <2>2, <2>3
  <2> QED
    BY <2>1, <2>2, <2>4
<1>2. ASSUME NEW j \in Jobs, BackoffElapses(j) PROVE TypeInv'
  BY <1>2 DEF BackoffElapses
<1>3. ASSUME NEW j \in Jobs, BecomesStale(j) PROVE TypeInv'
  BY <1>3 DEF BecomesStale
<1>4. ASSUME NEW w \in Workers, Start(w) PROVE TypeInv'
  BY <1>4 DEF Start
<1>5. ASSUME NEW w \in Workers, Recover(w) PROVE TypeInv'
  BY <1>5 DEF Recover, Recoverable
<1>6. ASSUME NEW w \in Workers, Claim(w) PROVE TypeInv'
  <2>1. PICK j \in Claimable :
          /\ status' = [status EXCEPT ![j] = "running"]
          /\ attempts' = [attempts EXCEPT ![j] = NextAttempt(j)]
          /\ stale' = [stale EXCEPT ![j] = FALSE]
          /\ job' = [job EXCEPT ![w] = j]
          /\ attempt' = [attempt EXCEPT ![w] = NextAttempt(j)]
    BY <1>6 DEF Claim
  <2>2. j \in Jobs /\ status[j] = "queued" /\ NextAttempt(j) \in Nat
    BY DEF Claimable, NextAttempt
  <2>3. TypeOK'
    BY <1>6, <2>1, <2>2 DEF Claim
  <2>4. HoldsWhileWorking'
    BY <1>6, <2>1, <2>2, NoJobAssumption DEF Claim
  <2>5. ExistIffSubmitted'
    BY <1>6, <2>1, <2>2 DEF Claim
  <2> QED
    BY <2>3, <2>4, <2>5
<1>7. ASSUME NEW w \in Workers, PipelineCommits(w) \/ PipelineRaises(w) PROVE TypeInv'
  BY <1>7, HeldIsJob DEF PipelineCommits, PipelineRaises
<1>8. ASSUME NEW w \in Workers, MarkSucceeded(w) PROVE TypeInv'
  BY <1>8, SettleType DEF MarkSucceeded
<1>9. ASSUME NEW w \in Workers, MarkSucceededRaises(w) PROVE TypeInv'
  BY <1>9, HeldIsJob DEF MarkSucceededRaises
<1>10. ASSUME NEW w \in Workers, MarkTerminal(w) PROVE TypeInv'
  BY <1>10, SettleType DEF MarkTerminal
<1>11. ASSUME NEW w \in Workers, MarkRetryable(w) PROVE TypeInv'
  BY <1>11, SettleType, HeldIsJob DEF MarkRetryable
<1>12. ASSUME NEW w \in Workers, Crash(w) PROVE TypeInv'
  BY <1>12, MaxCrashesAssumption DEF Crash
<1>13. CASE UNCHANGED vars
  BY <1>13 DEF vars
<1> QED
  BY <1>1, <1>2, <1>3, <1>4, <1>5, <1>6, <1>7, <1>8, <1>9, <1>10, <1>11, <1>12, <1>13
     DEF Next, Works, Idle

\* The columns of jobs and the variables of the workers always have their types.
THEOREM TypeCorrect == Spec => []TypeOK
<1>1. TypeInv => TypeOK
  BY DEF TypeInv
<1> QED
  BY InitTypeInv, NextTypeInv, <1>1, PTL DEF Spec

-----------------------------------------------------------------------------
(* Succeeded means ingested *)

IngestInv ==
  /\ SucceededIsIngested
  /\ \A w \in Workers : wpc[w] = "mark_succeeded" => job[w] \in ingested

LEMMA InitIngestInv == Init => IngestInv
BY DEF Init, IngestInv, SucceededIsIngested

LEMMA NextIngestInv == TypeInv /\ IngestInv /\ [Next]_vars => IngestInv'
<1> SUFFICES ASSUME TypeInv, IngestInv, [Next]_vars PROVE IngestInv'
  OBVIOUS
<1> USE DEF IngestInv, SucceededIsIngested, TypeInv, TypeOK, Goto, columns
<1>1. CASE Submit
  BY <1>1 DEF Submit
<1>2. ASSUME NEW j \in Jobs, BackoffElapses(j) \/ BecomesStale(j) PROVE IngestInv'
  BY <1>2 DEF BackoffElapses, BecomesStale
<1>3. ASSUME NEW w \in Workers, Start(w) \/ Recover(w) \/ Crash(w) PROVE IngestInv'
  BY <1>3 DEF Start, Recover, Crash
<1>4. ASSUME NEW w \in Workers, Claim(w) PROVE IngestInv'
  BY <1>4 DEF Claim, Claimable
<1>5. ASSUME NEW w \in Workers, PipelineCommits(w) \/ PipelineRaises(w) PROVE IngestInv'
  BY <1>5 DEF PipelineCommits, PipelineRaises
<1>6. ASSUME NEW w \in Workers, MarkSucceeded(w) PROVE IngestInv'
  BY <1>6, HeldIsJob DEF MarkSucceeded, Settle
<1>7. ASSUME NEW w \in Workers, MarkSucceededRaises(w) PROVE IngestInv'
  BY <1>7, HeldIsJob DEF MarkSucceededRaises
<1>8. ASSUME NEW w \in Workers, MarkTerminal(w) \/ MarkRetryable(w) PROVE IngestInv'
  BY <1>8, HeldIsJob DEF MarkTerminal, MarkRetryable, Settle
<1>9. CASE UNCHANGED vars
  BY <1>9 DEF vars
<1> QED
  BY <1>1, <1>2, <1>3, <1>4, <1>5, <1>6, <1>7, <1>8, <1>9 DEF Next, Works, Idle

\* Whatever crashes, and whichever acknowledgements are lost between the three
\* transactions of a job, a job that is marked succeeded is in the store.
THEOREM SuccessIsTrue == Spec => []SucceededIsIngested
<1>1. IngestInv => SucceededIsIngested
  BY DEF IngestInv
<1> QED
  BY InitTypeInv, NextTypeInv, InitIngestInv, NextIngestInv, <1>1, PTL DEF Spec

-----------------------------------------------------------------------------
(* What is settled stays settled *)

\* The only statements that change a status select it by status, except the
\* UPDATEs by id, which are made by the worker that holds the job.
LEMMA SettledStep ==
  ASSUME TypeInv, [Next]_vars, NEW j \in Jobs, Final(j), ~Held(j)
  PROVE  status'[j] = status[j]
<1> USE DEF TypeInv, TypeOK, Final, columns
<1>1. CASE Submit
  <2>1. submitted + 1 \in Jobs /\ status[submitted + 1] = "absent"
    BY <1>1, NumJobsAssumption DEF Submit, Jobs, ExistIffSubmitted
  <2> QED
    BY <1>1, <2>1 DEF Submit
<1>2. ASSUME NEW w \in Workers, Recover(w) PROVE status'[j] = status[j]
  BY <1>2 DEF Recover, Recoverable
<1>3. ASSUME NEW w \in Workers, Claim(w) PROVE status'[j] = status[j]
  BY <1>3 DEF Claim, Claimable
<1>4. ASSUME NEW w \in Workers,
             MarkSucceeded(w) \/ MarkSucceededRaises(w) \/ MarkTerminal(w) \/ MarkRetryable(w)
      PROVE  status'[j] = status[j]
  BY <1>4 DEF MarkSucceeded, MarkSucceededRaises, MarkTerminal, MarkRetryable, Settle, Held
<1> QED
  BY <1>1, <1>2, <1>3, <1>4
     DEF Next, Works, BackoffElapses, BecomesStale, Start, Idle, PipelineCommits,
         PipelineRaises, Crash, vars

\* A succeeded or failed job that no worker holds is never touched again, for any
\* number of workers and also when jobs outlast the stale timeout.
THEOREM SettledStays == Spec => SettledIsFinal
<1>1. TypeInv /\ [Next]_vars => [\A j \in Jobs : Final(j) /\ ~Held(j) => status'[j] = status[j]]_vars
  BY SettledStep
<1> QED
  BY InitTypeInv, NextTypeInv, <1>1, PTL DEF Spec, SettledIsFinal

-----------------------------------------------------------------------------
(* One worker per job, and bounded attempts *)

\* When no job in progress grows stale, the jobs table knows enough: a held job
\* is running, or has just been marked by the worker that holds it.
OwnerInv ==
  /\ OneWorkerPerJob
  /\ \A w \in Workers : job[w] # NoJob =>
       /\ \/ status[job[w]] = "running"
          \/ status[job[w]] = "succeeded" /\ wpc[w] = "mark_failure"
       /\ ~stale[job[w]]
       /\ attempt[w] = attempts[job[w]]

\* An attempt beyond the limit can only be made on a job that a dead worker left.
BoundInv ==
  /\ AttemptsAreBounded
  /\ \A j \in Jobs :
       status[j] \in {"absent", "queued"} \/ Orphan(j) => attempts[j] < MaxAttempts + crashes

LEMMA InitOwnerInv == Init => OwnerInv /\ BoundInv
BY MaxAttemptsAssumption
   DEF Init, OwnerInv, OneWorkerPerJob, BoundInv, AttemptsAreBounded, Orphan

LEMMA NextOwnerInv ==
  ASSUME Slow = {}
  PROVE  TypeInv /\ OwnerInv /\ [Next]_vars => OwnerInv'
<1> SUFFICES ASSUME TypeInv, OwnerInv, [Next]_vars PROVE OwnerInv'
  OBVIOUS
<1> USE DEF OwnerInv, OneWorkerPerJob, TypeInv, TypeOK, Goto, columns
<1>1. CASE Submit
  <2>1. submitted + 1 \in Jobs /\ status[submitted + 1] = "absent"
    BY <1>1, NumJobsAssumption DEF Submit, Jobs, ExistIffSubmitted
  <2> QED
    BY <1>1, <2>1 DEF Submit
<1>2. ASSUME NEW j \in Jobs, BackoffElapses(j) PROVE OwnerInv'
  BY <1>2 DEF BackoffElapses
<1>3. ASSUME NEW j \in Jobs, BecomesStale(j) PROVE OwnerInv'
  BY <1>3 DEF BecomesStale, Held
<1>4. ASSUME NEW w \in Workers, Start(w) PROVE OwnerInv'
  BY <1>4 DEF Start, HoldsWhileWorking
<1>5. ASSUME NEW w \in Workers, Recover(w) PROVE OwnerInv'
  BY <1>5 DEF Recover, Recoverable, HoldsWhileWorking
<1>6. ASSUME NEW w \in Workers, Claim(w) PROVE OwnerInv'
  <2>1. PICK j \in Claimable :
          /\ status' = [status EXCEPT ![j] = "running"]
          /\ attempts' = [attempts EXCEPT ![j] = NextAttempt(j)]
          /\ stale' = [stale EXCEPT ![j] = FALSE]
          /\ job' = [job EXCEPT ![w] = j]
          /\ attempt' = [attempt EXCEPT ![w] = NextAttempt(j)]
    BY <1>6 DEF Claim
  <2>2. j \in Jobs /\ status[j] = "queued"
    BY DEF Claimable
  <2>3. wpc[w] = "loop" /\ wpc' = [wpc EXCEPT ![w] = "pipeline"]
    BY <1>6 DEF Claim
  <2>4. \A v \in Workers : job[v] # j
    BY <2>2, NoJobAssumption
  <2>5. \A v \in Workers : v # w =>
          job'[v] = job[v] /\ wpc'[v] = wpc[v] /\ attempt'[v] = attempt[v]
    BY <2>1, <2>3
  <2> QED
    BY <2>1, <2>2, <2>3, <2>4, <2>5
<1>7. ASSUME NEW w \in Workers, PipelineCommits(w) \/ PipelineRaises(w) PROVE OwnerInv'
  BY <1>7 DEF PipelineCommits, PipelineRaises
<1>8. ASSUME NEW w \in Workers,
             MarkSucceeded(w) \/ MarkTerminal(w) \/ MarkRetryable(w)
      PROVE  OwnerInv'
  BY <1>8, HeldIsJob DEF MarkSucceeded, MarkTerminal, MarkRetryable, Settle, HoldsWhileWorking
<1>9. ASSUME NEW w \in Workers, MarkSucceededRaises(w) PROVE OwnerInv'
  BY <1>9, HeldIsJob DEF MarkSucceededRaises, HoldsWhileWorking
<1>10. ASSUME NEW w \in Workers, Crash(w) PROVE OwnerInv'
  BY <1>10 DEF Crash
<1>11. CASE UNCHANGED vars
  BY <1>11 DEF vars
<1> QED
  BY <1>1, <1>2, <1>3, <1>4, <1>5, <1>6, <1>7, <1>8, <1>9, <1>10, <1>11
     DEF Next, Works, Idle

LEMMA NextBoundInv == TypeInv /\ OwnerInv /\ BoundInv /\ [Next]_vars => BoundInv'
<1> SUFFICES ASSUME TypeInv, OwnerInv, BoundInv, [Next]_vars PROVE BoundInv'
  OBVIOUS
<1>0. crashes \in Nat /\ MaxAttempts \in Nat /\ \A j \in Jobs : attempts[j] \in Nat
  BY MaxAttemptsAssumption, MaxCrashesAssumption DEF TypeInv, TypeOK
<1> USE <1>0 DEF BoundInv, AttemptsAreBounded, Orphan, TypeInv, TypeOK, Goto, columns
<1>1. CASE Submit
  <2>1. submitted + 1 \in Jobs /\ status[submitted + 1] = "absent"
    BY <1>1, NumJobsAssumption DEF Submit, Jobs, ExistIffSubmitted
  <2>2. /\ status' = [status EXCEPT ![submitted + 1] = "queued"]
        /\ UNCHANGED <<attempts, crashes, job>>
    BY <1>1 DEF Submit
  <2> QED
    BY <2>1, <2>2 DEF Held
<1>2. ASSUME NEW j \in Jobs, BackoffElapses(j) \/ BecomesStale(j) PROVE BoundInv'
  BY <1>2 DEF BackoffElapses, BecomesStale, Held
<1>3. ASSUME NEW w \in Workers, Start(w) PROVE BoundInv'
  BY <1>3 DEF Start, Held
<1>4. ASSUME NEW w \in Workers, Recover(w) PROVE BoundInv'
  <2>1. \A j \in Jobs : Recoverable(j) => Orphan(j)
    BY NoJobAssumption DEF Recoverable, OwnerInv, Held
  <2> QED
    BY <1>4, <2>1 DEF Recover, Held
<1>5. ASSUME NEW w \in Workers, Claim(w) PROVE BoundInv'
  <2>1. PICK j \in Claimable :
          /\ status' = [status EXCEPT ![j] = "running"]
          /\ attempts' = [attempts EXCEPT ![j] = NextAttempt(j)]
          /\ job' = [job EXCEPT ![w] = j]
    BY <1>5 DEF Claim
  <2>2. j \in Jobs /\ status[j] = "queued" /\ NextAttempt(j) = attempts[j] + 1
    BY DEF Claimable, NextAttempt
  <2>3. wpc[w] = "loop" /\ crashes' = crashes
    BY <1>5 DEF Claim
  <2>4. job[w] = NoJob
    BY <2>3 DEF HoldsWhileWorking
  <2>5. \A k \in Jobs : k # j => (Held(k)' <=> Held(k))
    BY <2>1, <2>4, NoJobAssumption DEF Held
  <2>6. Held(j)'
    BY <2>1 DEF Held
  <2> QED
    BY <2>1, <2>2, <2>3, <2>5, <2>6
<1>6. ASSUME NEW w \in Workers, PipelineCommits(w) \/ PipelineRaises(w) PROVE BoundInv'
  BY <1>6 DEF PipelineCommits, PipelineRaises, Held
<1>7. ASSUME NEW w \in Workers,
             MarkSucceeded(w) \/ MarkTerminal(w) \/ MarkRetryable(w)
      PROVE  BoundInv'
  <2>1. job[w] \in Jobs /\ attempt[w] = attempts[job[w]]
    BY <1>7, HeldIsJob, NoJobAssumption DEF MarkSucceeded, MarkTerminal, MarkRetryable, OwnerInv
  <2>2. \A k \in Jobs : k # job[w] => (Held(k)' <=> Held(k))
    BY <1>7, NoJobAssumption DEF MarkSucceeded, MarkTerminal, MarkRetryable, Settle, Held
  <2>3. UNCHANGED <<attempts, crashes>>
    BY <1>7 DEF MarkSucceeded, MarkTerminal, MarkRetryable
  <2>4. \A k \in Jobs : k # job[w] => status'[k] = status[k]
    BY <1>7, <2>1 DEF MarkSucceeded, MarkTerminal, MarkRetryable, Settle
  <2>5. \/ status'[job[w]] = "succeeded"
        \/ status'[job[w]] = "failed" /\ attempts[job[w]] >= MaxAttempts
        \/ status'[job[w]] = "queued" /\ attempts[job[w]] < MaxAttempts
    BY <1>7, <2>1 DEF MarkSucceeded, MarkTerminal, MarkRetryable, Settle, Exhausted
  <2> QED
    BY <2>1, <2>2, <2>3, <2>4, <2>5
<1>8. ASSUME NEW w \in Workers, MarkSucceededRaises(w) PROVE BoundInv'
  <2>1. UNCHANGED <<attempts, crashes, job>>
    BY <1>8 DEF MarkSucceededRaises
  <2>2. \A k \in Jobs : status'[k] = status[k] \/ status'[k] = "succeeded"
    BY <1>8 DEF MarkSucceededRaises
  <2> QED
    BY <2>1, <2>2 DEF Held
<1>9. ASSUME NEW w \in Workers, Crash(w) PROVE BoundInv'
  <2>1. crashes' = crashes + 1 /\ UNCHANGED <<status, attempts>>
    BY <1>9 DEF Crash
  <2> QED
    BY <2>1
<1>10. CASE UNCHANGED vars
  BY <1>10 DEF vars, Held
<1> QED
  BY <1>1, <1>2, <1>3, <1>4, <1>5, <1>6, <1>7, <1>8, <1>9, <1>10 DEF Next, Works, Idle

\* When no job outlasts the stale timeout, any number of workers may be started,
\* stopped and restarted: no two of them ever process one job.
THEOREM WorkersAreExclusive == ASSUME Slow = {} PROVE Spec => []OneWorkerPerJob
<1>1. OwnerInv => OneWorkerPerJob
  BY DEF OwnerInv
<1>2. TypeInv /\ OwnerInv /\ [Next]_vars => OwnerInv'
  BY NextOwnerInv
<1>3. Init => OwnerInv
  BY InitOwnerInv
<1> QED
  BY InitTypeInv, NextTypeInv, <1>1, <1>2, <1>3, PTL DEF Spec

\* Under the same condition a job is claimed at most max_attempts times, and once
\* more for each death of a worker; and it is given up no earlier than that limit.
THEOREM AttemptsBounded == ASSUME Slow = {} PROVE Spec => []AttemptsAreBounded
<1>1. BoundInv => AttemptsAreBounded
  BY DEF BoundInv
<1>2. TypeInv /\ OwnerInv /\ [Next]_vars => OwnerInv'
  BY NextOwnerInv
<1>3. Init => OwnerInv /\ BoundInv
  BY InitOwnerInv
<1> QED
  BY InitTypeInv, NextTypeInv, NextBoundInv, <1>1, <1>2, <1>3, PTL DEF Spec

-----------------------------------------------------------------------------
(* What the connectors rely on when they look a job up *)

\* An ingest of the same thing again is a no-op, or is the retry that is wanted.
Closed(j) == j \in ingested \/ status[j] = "failed"

\* A job that is in the table and no longer pending is closed.
LEMMA NotPendingIsClosed ==
  ASSUME TypeInv, IngestInv, NEW j \in Jobs, status[j] \notin {"absent", "queued", "running"}
  PROVE  Closed(j)
BY DEF Closed, TypeInv, TypeOK, IngestInv, SucceededIsIngested

\* Nothing is ever taken out of the store.
LEMMA IngestedStays ==
  ASSUME [Next]_vars
  PROVE  ingested \subseteq ingested'
BY DEF Next, Works, vars, Submit, BackoffElapses, BecomesStale, Start, Recover, Claim, Idle,
   PipelineCommits, PipelineRaises, MarkSucceeded, MarkSucceededRaises, MarkTerminal,
   MarkRetryable, Crash

\* A closed job stays closed: a failed job is held by nobody who could requeue it.
LEMMA ClosedStays ==
  ASSUME TypeInv, OwnerInv, [Next]_vars, NEW j \in Jobs, Closed(j)
  PROVE  Closed(j)'
<1>1. CASE j \in ingested
  BY <1>1, IngestedStays DEF Closed
<1>2. CASE status[j] = "failed"
  <2>1. ~Held(j)
    BY <1>2, NoJobAssumption DEF OwnerInv, Held
  <2> QED
    BY <1>2, <2>1, SettledStep DEF Closed, Final
<1> QED
  BY <1>1, <1>2 DEF Closed
=============================================================================
