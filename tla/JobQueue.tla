------------------------------ MODULE JobQueue ------------------------------
(***************************************************************************)
(* The jobs table and the ingest workers that drain it (src/cos/worker.py, *)
(* services/jobs.py, store/db.py).                                         *)
(*                                                                         *)
(* A worker requeues stale jobs when it starts, then claims one job after  *)
(* another: the claim, the pipeline and the final status are written on    *)
(* three connections, hence in three transactions, and the worker or any   *)
(* of the connections may be lost between or during them.  The pipeline's  *)
(* transaction is CanonicalStore's; here a job is ingested when that has   *)
(* committed.                                                              *)
(*                                                                         *)
(* Jobs are named in the order of created_at.  Time is not counted: a job  *)
(* becomes available some time after its backoff was set, and stale some   *)
(* time after it was claimed.                                              *)
(***************************************************************************)
EXTENDS Naturals

CONSTANTS
  NumJobs,      \* how many jobs the connectors submit
  Workers,      \* the worker processes
  NoJob,        \* no row was claimed
  MaxAttempts,  \* max_attempts of a job
  Slow,         \* the jobs whose processing can outlast the stale timeout
  MaxCrashes    \* bound: how many times workers die

Jobs == 1..NumJobs

ASSUME NumJobsAssumption == NumJobs \in Nat \ {0}
ASSUME NoJobAssumption == NoJob \notin Jobs
ASSUME MaxAttemptsAssumption == MaxAttempts \in Nat \ {0}
ASSUME SlowAssumption == Slow \subseteq Jobs
ASSUME MaxCrashesAssumption == MaxCrashes \in Nat

VARIABLES
  submitted,    \* how many jobs there are
  status,       \* the columns of jobs: status,
  attempts,     \* attempt_count,
  available,    \* whether available_at has passed,
  stale,        \* whether started_at is older than the timeout
  ingested,     \* the jobs whose pipeline has committed
  wpc,          \* what each worker does next
  job,          \* the JobRecord a worker has claimed
  attempt,      \* attempt_count in that record
  crashes

columns == <<status, attempts, available, stale>>
vars    == <<submitted, columns, ingested, wpc, job, attempt, crashes>>

WorkerPCs == {"down", "recover", "loop", "pipeline", "mark_succeeded", "mark_failure"}

TypeOK ==
  /\ submitted \in 0..NumJobs
  /\ status \in [Jobs -> {"absent", "queued", "running", "succeeded", "failed"}]
  /\ attempts \in [Jobs -> Nat]
  /\ available \in [Jobs -> BOOLEAN]
  /\ stale \in [Jobs -> BOOLEAN]
  /\ ingested \subseteq Jobs
  /\ wpc \in [Workers -> WorkerPCs]
  /\ job \in [Workers -> Jobs \cup {NoJob}]
  /\ attempt \in [Workers -> Nat]
  /\ crashes \in 0..MaxCrashes

Init ==
  /\ submitted = 0
  /\ status = [j \in Jobs |-> "absent"]
  /\ attempts = [j \in Jobs |-> 0]
  /\ available = [j \in Jobs |-> TRUE]
  /\ stale = [j \in Jobs |-> FALSE]
  /\ ingested = {}
  /\ wpc = [w \in Workers |-> "down"]
  /\ job = [w \in Workers |-> NoJob]
  /\ attempt = [w \in Workers |-> 0]
  /\ crashes = 0

Final(j) == status[j] \in {"succeeded", "failed"}
Held(j)  == \E w \in Workers : job[w] = j
Orphan(j) == status[j] = "running" /\ ~Held(j)

-----------------------------------------------------------------------------
(* The connectors and the clock *)

\* submit_ingest_job, in the transaction of a connector.
Submit ==
  /\ submitted < NumJobs
  /\ submitted' = submitted + 1
  /\ status' = [status EXCEPT ![submitted + 1] = "queued"]
  /\ UNCHANGED <<attempts, available, stale, ingested, wpc, job, attempt, crashes>>

\* backoff_seconds have passed.
BackoffElapses(j) ==
  /\ status[j] = "queued" /\ ~available[j]
  /\ available' = [available EXCEPT ![j] = TRUE]
  /\ UNCHANGED <<submitted, status, attempts, stale, ingested, wpc, job, attempt, crashes>>

\* _STALE_JOB_TIMEOUT_SECONDS have passed since the claim.
BecomesStale(j) ==
  /\ status[j] = "running" /\ ~stale[j]
  /\ Held(j) => j \in Slow
  /\ stale' = [stale EXCEPT ![j] = TRUE]
  /\ UNCHANGED <<submitted, status, attempts, available, ingested, wpc, job, attempt, crashes>>

-----------------------------------------------------------------------------
(* The worker *)

Goto(w, label) == wpc' = [wpc EXCEPT ![w] = label]

\* The container is started, or restarted on-failure.
Start(w) ==
  /\ wpc[w] = "down"
  /\ Goto(w, "recover")
  /\ UNCHANGED <<submitted, columns, ingested, job, attempt, crashes>>

\* The mutant forgets the age condition.
Mutant_Recoverable(j) == status[j] = "running"
Recoverable(j) == status[j] = "running" /\ stale[j]

\* recover_stale_jobs: once, before the loop.  attempt_count is kept, started_at is
\* set to NULL.
Recover(w) ==
  /\ wpc[w] = "recover"
  /\ status' = [j \in Jobs |-> IF Recoverable(j) THEN "queued" ELSE status[j]]
  /\ stale' = [j \in Jobs |-> stale[j] /\ ~Recoverable(j)]
  /\ Goto(w, "loop")
  /\ UNCHANGED <<submitted, attempts, available, ingested, job, attempt, crashes>>

\* The mutant excludes only the jobs that are being processed.
Mutant_Claimable == {j \in Jobs : status[j] \notin {"absent", "running"} /\ available[j]}
Claimable == {j \in Jobs : status[j] = "queued" /\ available[j]}

Mutant_NextAttempt(j) == attempts[j]
NextAttempt(j) == attempts[j] + 1

\* claim_next_job: the oldest, with SKIP LOCKED one statement for all workers.
Claim(w) ==
  /\ wpc[w] = "loop"
  /\ \E j \in Claimable :
       /\ \A k \in Claimable : j <= k
       /\ status' = [status EXCEPT ![j] = "running"]
       /\ attempts' = [attempts EXCEPT ![j] = NextAttempt(j)]
       /\ stale' = [stale EXCEPT ![j] = FALSE]
       /\ job' = [job EXCEPT ![w] = j]
       /\ attempt' = [attempt EXCEPT ![w] = NextAttempt(j)]
  /\ Goto(w, "pipeline")
  /\ UNCHANGED <<submitted, available, ingested, crashes>>

\* No job: sleep for _IDLE_SLEEP_SECONDS and look again.
Idle(w) ==
  /\ wpc[w] = "loop"
  /\ Claimable = {}
  /\ UNCHANGED vars

PipelineCommits(w) ==
  /\ wpc[w] = "pipeline"
  /\ ingested' = ingested \cup {job[w]}
  /\ Goto(w, "mark_succeeded")
  /\ UNCHANGED <<submitted, columns, job, attempt, crashes>>

\* A malformed payload, an error of the pipeline, or a connection lost at the
\* commit, which PostgreSQL may nevertheless have done.
PipelineRaises(w) ==
  /\ wpc[w] = "pipeline"
  /\ ingested' \in {ingested, ingested \cup {job[w]}}
  /\ Goto(w, "mark_failure")
  /\ UNCHANGED <<submitted, columns, job, attempt, crashes>>

\* The mutant writes a status that the CHECK constraint does not list.
Mutant_Settle(w, s) ==
  /\ status' = [status EXCEPT ![job[w]] = "retrying"]
  /\ job' = [job EXCEPT ![w] = NoJob]
  /\ Goto(w, "loop")

Settle(w, s) ==
  /\ status' = [status EXCEPT ![job[w]] = s]
  /\ job' = [job EXCEPT ![w] = NoJob]
  /\ Goto(w, "loop")

\* The mutant marks the job before its pipeline has committed.
Mutant_MarkSucceeded(w) ==
  /\ wpc[w] \in {"pipeline", "mark_succeeded"}
  /\ Settle(w, "succeeded")
  /\ UNCHANGED <<submitted, attempts, available, stale, ingested, attempt, crashes>>

MarkSucceeded(w) ==
  /\ wpc[w] = "mark_succeeded"
  /\ Settle(w, "succeeded")
  /\ UNCHANGED <<submitted, attempts, available, stale, ingested, attempt, crashes>>

\* mark_job_succeeded raises inside the try, before or after its commit: the job
\* is now handled like one whose pipeline failed.
MarkSucceededRaises(w) ==
  /\ wpc[w] = "mark_succeeded"
  /\ status' \in {status, [status EXCEPT ![job[w]] = "succeeded"]}
  /\ Goto(w, "mark_failure")
  /\ UNCHANGED <<submitted, attempts, available, stale, ingested, job, attempt, crashes>>

Mutant_Exhausted(w) == attempt[w] > MaxAttempts
Exhausted(w) == attempt[w] >= MaxAttempts

MarkTerminal(w) ==
  /\ wpc[w] = "mark_failure"
  /\ Exhausted(w)
  /\ Settle(w, "failed")
  /\ UNCHANGED <<submitted, attempts, available, stale, ingested, attempt, crashes>>

MarkRetryable(w) ==
  /\ wpc[w] = "mark_failure"
  /\ ~Exhausted(w)
  /\ Settle(w, "queued")
  /\ available' = [available EXCEPT ![job[w]] = FALSE]
  /\ UNCHANGED <<submitted, attempts, stale, ingested, attempt, crashes>>

\* The process dies: killed, or by an exception outside the try (of the claim,
\* of recovery, of the marking in the except branch).  A pipeline in progress is
\* rolled back; the row of the claimed job stays as it is.
Crash(w) ==
  /\ wpc[w] # "down"
  /\ crashes < MaxCrashes
  /\ crashes' = crashes + 1
  /\ job' = [job EXCEPT ![w] = NoJob]
  /\ Goto(w, "down")
  /\ UNCHANGED <<submitted, columns, ingested, attempt>>

Works(w) ==
  \/ Start(w) \/ Recover(w) \/ Claim(w)
  \/ PipelineCommits(w) \/ PipelineRaises(w)
  \/ MarkSucceeded(w) \/ MarkSucceededRaises(w) \/ MarkTerminal(w) \/ MarkRetryable(w)

Next ==
  \/ Submit
  \/ \E j \in Jobs : BackoffElapses(j) \/ BecomesStale(j)
  \/ \E w \in Workers : Works(w) \/ Idle(w) \/ Crash(w)

Spec == Init /\ [][Next]_vars

\* Docker restarts the worker, the worker's loop goes on, and time passes.
\* Nothing obliges a connector to submit or a worker to crash.
FairSpec ==
  /\ Spec
  /\ \A w \in Workers : WF_vars(Works(w))
  /\ \A j \in Jobs : WF_vars(BackoffElapses(j)) /\ WF_vars(BecomesStale(j))

-----------------------------------------------------------------------------
(* Properties *)

\* No two workers process one job at the same time, as long as no job that is
\* being processed grows stale.  It rests on SKIP LOCKED and on the age
\* condition of requeue_stale_jobs: neither knows which worker has the job.
OneWorkerPerJob ==
  \A v, w \in Workers : job[v] = job[w] /\ job[v] # NoJob => v = w

\* A job is reported succeeded only when its content is in the store, whatever
\* was lost between the three transactions.
SucceededIsIngested ==
  \A j \in Jobs : status[j] = "succeeded" => j \in ingested

\* A job is given up only after all its attempts, and every attempt beyond
\* max_attempts was preceded by the death of a worker: the retry loop itself
\* never exceeds the limit.
AttemptsAreBounded ==
  \A j \in Jobs :
    /\ attempts[j] <= MaxAttempts + crashes
    /\ status[j] = "failed" => attempts[j] >= MaxAttempts

\* What is settled stays settled: once no worker holds it, a succeeded or failed
\* job is never changed, although the UPDATEs that mark jobs test no status.
SettledIsFinal ==
  [][\A j \in Jobs : Final(j) /\ ~Held(j) => status'[j] = status[j]]_vars

\* Every queued job is eventually settled, or lost to a worker that died while
\* it processed it.
QueuedIsSettled ==
  \A j \in Jobs : status[j] = "queued" ~> Final(j) \/ Orphan(j)

\* "If the worker dies after marking a job running but before terminal update,
\* the next worker startup must return that work to the queue."  The code does so
\* only for jobs claimed more than 300 seconds ago, and only at startup.
StartupRequeuesOrphans ==
  [][\A w \in Workers : wpc[w] = "recover" /\ wpc'[w] = "loop" =>
       \A j \in Jobs : Orphan(j) => status'[j] = "queued"]_vars
=============================================================================
