--------------------------- MODULE GmailPollProofs ---------------------------
(* Theorems about GmailPoll, for any number of polls, messages, artifacts, jobs *)
(* and workers.                                                                 *)
EXTENDS GmailPoll, FiniteSetTheorems, SequenceTheorems, TLAPS

QueueProofs == INSTANCE JobQueueProofs

-----------------------------------------------------------------------------
(* The invariants *)

QueueInv == QueueProofs!TypeInv /\ QueueProofs!IngestInv

Working == {"fetch", "processed", "pending", "insert"}

\* Where each poll is, and what it holds there.
PollInv ==
  \A p \in Polls :
    /\ listing[p] = <<>> \/ listing[p] \in Listings[p]
    /\ ppc[p] \in Working => todo[p] # <<>>
    /\ ppc[p] \notin Working => todo[p] = <<>>
    /\ IsFiniteSet(mine[p])
    /\ ppc[p] \in {"idle", "done", "failed"} => mine[p] = {}

\* Every job that exists was staged by a poll for an artifact.
JobInv ==
  \A j \in Jobs :
    /\ j <= submitted => artifactOf[j] \in Artifacts /\ stagedBy[j] \in Polls
    /\ j > submitted => artifactOf[j] = NoArtifact /\ stagedBy[j] = NoArtifact

PollType ==
  /\ ppc \in [Polls -> PollPCs]
  /\ forced \subseteq Polls
  /\ listing \in [Polls -> Seq(Messages)]
  /\ todo \in [Polls -> Seq(Artifacts)]
  /\ mine \in [Polls -> SUBSET Artifacts]
  /\ \A p \in forced : mine[p] = {}
  /\ report \in [Polls -> [Artifacts -> Counters]]

JobType ==
  /\ unlinked \subseteq Polls \X Artifacts
  /\ artifactOf \in [Jobs -> Artifacts \cup {NoArtifact}]
  /\ stagedBy \in [Jobs -> Polls \cup {NoArtifact}]

TypeInv == QueueInv /\ PollType /\ JobType /\ PollInv /\ JobInv

\* The unique index, with the rows of the transactions that have not ended: what a
\* poll has inserted has no other entry, of a job or of another poll.
IndexInv ==
  /\ \A p \in Polls : \A a \in mine[p] : \A j \in JobsOf(a) : ~Indexed(j)
  /\ \A p, q \in Polls : p # q => mine[p] \cap mine[q] = {}

\* The files of all jobs, pending or not, and of the rows not yet committed.
FileInv ==
  /\ \A j \in Jobs : j <= submitted => HasFile(j)
  /\ \A p \in Polls : \A a \in mine[p] : StagedFile(p, a) \notin unlinked
  /\ \A p \in Polls \ forced : ppc[p] \notin {"done", "failed"} =>
       \A j \in Jobs : stagedBy[j] # p

HarmlessInv ==
  /\ SecondJobIsHarmless
  /\ \A p \in Polls : \A a \in mine[p] : \A j \in JobsOf(a) :
       Unforced(j) => QueueProofs!Closed(j)

\* A poll goes through its list from the front: it has accounted for what is gone
\* from todo, and what it has inserted is among that.
GoneThrough(all, rest, counted, inserted) ==
  \E n \in 0..Len(all) :
    /\ rest = SubSeq(all, n + 1, Len(all))
    /\ \A k \in 1..n : counted[all[k]] # "none"
    /\ \A a \in inserted : \E k \in 1..n : all[k] = a

Progress(p) == GoneThrough(ArtifactsIn(listing[p]), todo[p], report[p], mine[p])

ProgressInv == \A p \in Polls : Progress(p)

\* What a poll counts on has a job, or is going to have one if the poll commits.
CountInv ==
  \A p \in Polls : \A a \in Artifacts :
    report[p][a] \in {"enqueued", "processed", "pending"} => JobsOf(a) # {} \/ a \in mine[p]

-----------------------------------------------------------------------------
(* FlattenSeq *)

\* Of some numbers one is the least: the intervals up to them are finite sets, and
\* among finite sets strict inclusion is well-founded.
LEMMA LeastExists ==
  ASSUME NEW S \in SUBSET Nat, S # {}
  PROVE  \E x \in S : \A y \in S : x <= y
<1> DEFINE T == {0..n : n \in S}
<1>1. T \subseteq FiniteSubsetsOf(Nat)
  <2> SUFFICES ASSUME NEW n \in Nat PROVE 0..n \in FiniteSubsetsOf(Nat)
    OBVIOUS
  <2>1. IsFiniteSet(0..n)
    BY FS_Interval
  <2>2. 0..n \subseteq Nat
    OBVIOUS
  <2> QED
    BY <2>1, <2>2 DEF FiniteSubsetsOf
<1>2. T # {}
  OBVIOUS
<1>3. PICK X \in T : \A Y \in T : ~ (<<Y, X>> \in StrictSubsetOrdering(Nat))
  <2> HIDE DEF T
  <2> QED
    BY <1>1, <1>2, FS_StrictSubsetOrderingWellFounded, WFMin
<1>4. PICK x \in S : X = 0..x
  OBVIOUS
<1>5. ASSUME NEW y \in S, y < x PROVE FALSE
  <2>1. 0..y \in T
    OBVIOUS
  <2>2. 0..y \subseteq 0..x /\ 0..y # 0..x
    BY <1>5
  <2>3. <<0..y, 0..x>> \in StrictSubsetOrdering(Nat)
    BY <2>2 DEF StrictSubsetOrdering
  <2> QED
    BY <1>3, <1>4, <2>1, <2>3
<1>6. \A y \in S : x <= y
  BY <1>5
<1> QED
  BY <1>6

\* A set of numbers that has 0 and with a number the next has them all.
LEMMA AllNumbers ==
  ASSUME NEW S \in SUBSET Nat, 0 \in S, \A n \in S : n + 1 \in S
  PROVE  S = Nat
<1> SUFFICES ASSUME Nat \ S # {} PROVE FALSE
  OBVIOUS
<1>1. PICK x \in Nat \ S : \A y \in Nat \ S : x <= y
  BY LeastExists
<1>2. x # 0 /\ x - 1 \in Nat /\ ~(x <= x - 1)
  OBVIOUS
<1>3. x - 1 \in S
  BY <1>1, <1>2
<1> QED
  BY <1>2, <1>3

\* The first n of the sequences, one after another: f[n].
Flattens(f, ss, n) == f = [i \in 1..n |-> IF i = 1 THEN ss[i] ELSE f[i - 1] \o ss[i]]

LEMMA FlattenExists ==
  ASSUME NEW ss, NEW n \in Nat
  PROVE  \E f : Flattens(f, ss, n)
<1> DEFINE S == {m \in Nat : \E f : Flattens(f, ss, m)}
<1>1. 0 \in S
  <2> DEFINE f == [i \in 1..0 |-> IF i = 1 THEN ss[i] ELSE <<>>]
  <2>1. Flattens(f, ss, 0)
    BY DEF Flattens
  <2> QED
    BY <2>1
<1>2. ASSUME NEW m \in S PROVE m + 1 \in S
  <2>1. PICK f : Flattens(f, ss, m)
    OBVIOUS
  <2> DEFINE g == [i \in 1..m + 1 |-> IF i = m + 1
                                       THEN IF m = 0 THEN ss[i] ELSE f[m] \o ss[i]
                                       ELSE f[i]]
  <2>2. \A i \in 1..m : g[i] = f[i]
    OBVIOUS
  <2>3. ASSUME NEW i \in 1..m + 1
        PROVE  g[i] = IF i = 1 THEN ss[i] ELSE g[i - 1] \o ss[i]
    <3>1. CASE i = m + 1
      <4>1. m # 0 => m \in 1..m /\ i - 1 = m /\ i # 1
        BY <3>1
      <4> QED
        BY <2>2, <3>1, <4>1
    <3>2. CASE i # m + 1
      <4>1. i \in 1..m /\ (i # 1 => i - 1 \in 1..m)
        BY <3>2
      <4>2. f[i] = IF i = 1 THEN ss[i] ELSE f[i - 1] \o ss[i]
        BY <2>1, <4>1 DEF Flattens
      <4> QED
        BY <2>2, <4>1, <4>2
    <3> QED
      BY <3>1, <3>2
  <2>4. Flattens(g, ss, m + 1)
    BY <2>3 DEF Flattens
  <2> QED
    BY <2>4
<1> HIDE DEF S
<1>3. S = Nat
  <2>1. S \in SUBSET Nat
    BY DEF S
  <2> QED
    BY <1>1, <1>2, <2>1, AllNumbers
<1> QED
  BY <1>3 DEF S

LEMMA FlattenIs ==
  ASSUME NEW X, NEW ss \in Seq(Seq(X)), ss # <<>>
  PROVE  \E f : Flattens(f, ss, Len(ss)) /\ FlattenSeq(ss) = f[Len(ss)]
<1> DEFINE F == CHOOSE f : f = [i \in 1..Len(ss) |-> IF i = 1 THEN ss[i] ELSE f[i - 1] \o ss[i]]
<1>0. \E f : f = [i \in 1..Len(ss) |-> IF i = 1 THEN ss[i] ELSE f[i - 1] \o ss[i]]
  <2>1. Len(ss) \in Nat
    OBVIOUS
  <2> QED
    BY <2>1, FlattenExists DEF Flattens
<1>1. F = [i \in 1..Len(ss) |-> IF i = 1 THEN ss[i] ELSE F[i - 1] \o ss[i]]
  BY <1>0
<1>2. FlattenSeq(ss) = F[Len(ss)]
  BY DEF FlattenSeq
<1> QED
  BY <1>1, <1>2 DEF Flattens

\* Where the sequences lie in their concatenation r: the i-th begins after off[i].
LaidOut(r, ss, n, off) ==
  /\ off \in [1..n -> Nat]
  /\ \A i \in 1..n : \A t \in 1..Len(ss[i]) :
       off[i] + t \in 1..Len(r) /\ r[off[i] + t] = ss[i][t]
  /\ \A k \in 1..Len(r) : \E i \in 1..n : \E t \in 1..Len(ss[i]) : k = off[i] + t

LEMMA ConcatLaidOut ==
  ASSUME NEW X, NEW ss \in Seq(Seq(X)), NEW n \in Nat, n + 1 <= Len(ss),
         NEW r \in Seq(X), NEW off, LaidOut(r, ss, n, off)
  PROVE  \E o : LaidOut(r \o ss[n + 1], ss, n + 1, o)
<1> DEFINE s == ss[n + 1]
<1> DEFINE o == [i \in 1..n + 1 |-> IF i = n + 1 THEN Len(r) ELSE off[i]]
<1> DEFINE q == r \o s
<1>1. s \in Seq(X) /\ Len(r) \in Nat /\ Len(s) \in Nat
  OBVIOUS
<1>2. /\ Len(q) = Len(r) + Len(s)
      /\ \A k \in 1..Len(r) : q[k] = r[k]
      /\ \A t \in 1..Len(s) : q[Len(r) + t] = s[t]
  BY <1>1
<1>3. o \in [1..n + 1 -> Nat]
  BY <1>1 DEF LaidOut
<1>4. ASSUME NEW i \in 1..n + 1, NEW t \in 1..Len(ss[i])
      PROVE  o[i] + t \in 1..Len(q) /\ q[o[i] + t] = ss[i][t]
  <2>1. CASE i = n + 1
    BY <1>1, <1>2, <2>1
  <2>2. CASE i # n + 1
    <3>1. i \in 1..n /\ o[i] = off[i]
      BY <2>2
    <3>2. off[i] + t \in 1..Len(r) /\ r[off[i] + t] = ss[i][t]
      BY <3>1 DEF LaidOut
    <3> DEFINE k == off[i] + t
    <3>3. k \in 1..Len(r) /\ Len(q) = Len(r) + Len(s)
      BY <1>2, <3>2
    <3>4. q[k] = r[k]
      BY <1>2, <3>3
    <3> HIDE DEF q, s, k
    <3>5. k \in 1..Len(q)
      BY <1>1, <3>3
    <3> QED
      BY <3>1, <3>2, <3>4, <3>5 DEF k
  <2> QED
    BY <2>1, <2>2
<1>5. ASSUME NEW k \in 1..Len(q) PROVE \E i \in 1..n + 1 : \E t \in 1..Len(ss[i]) : k = o[i] + t
  <2>1. CASE k <= Len(r)
    <3>1. PICK i \in 1..n : \E t \in 1..Len(ss[i]) : k = off[i] + t
      BY <1>1, <2>1 DEF LaidOut
    <3>2. i \in 1..n + 1 /\ o[i] = off[i]
      OBVIOUS
    <3> QED
      BY <3>1, <3>2
  <2>2. CASE k > Len(r)
    <3>1. k - Len(r) \in 1..Len(ss[n + 1]) /\ k = Len(r) + (k - Len(r))
      BY <1>1, <1>2, <2>2
    <3>2. n + 1 \in 1..n + 1 /\ o[n + 1] = Len(r)
      OBVIOUS
    <3> QED
      BY <3>1, <3>2
  <2> QED
    BY <1>1, <1>2, <2>1, <2>2
<1>6. LaidOut(q, ss, n + 1, o)
  <2> HIDE DEF o, q
  <2> QED
    BY <1>3, <1>4, <1>5 DEF LaidOut
<1> QED
  BY <1>6

\* What FlattenSeq returns: a sequence in which each of the given ones lies, and
\* nothing else does.
LEMMA FlattenLaysOut ==
  ASSUME NEW X, NEW ss \in Seq(Seq(X))
  PROVE  FlattenSeq(ss) \in Seq(X) /\ \E off : LaidOut(FlattenSeq(ss), ss, Len(ss), off)
<1>1. CASE ss = <<>>
  <2>1. FlattenSeq(ss) = <<>>
    BY <1>1 DEF FlattenSeq
  <2> DEFINE off == [i \in 1..0 |-> 0]
  <2>2. LaidOut(<<>>, ss, 0, off)
    BY DEF LaidOut
  <2>3. Len(ss) = 0 /\ <<>> \in Seq(X)
    BY <1>1
  <2>4. \E o : LaidOut(<<>>, ss, 0, o)
    BY <2>2
  <2> QED
    BY <2>1, <2>3, <2>4
<1>2. CASE ss # <<>>
  <2>1. PICK f : Flattens(f, ss, Len(ss)) /\ FlattenSeq(ss) = f[Len(ss)]
    BY <1>2, FlattenIs
  <2> DEFINE S == {m \in Nat : m + 1 <= Len(ss) =>
                     f[m + 1] \in Seq(X) /\ \E off : LaidOut(f[m + 1], ss, m + 1, off)}
  <2>2. 0 \in S
    <3>1. 1 \in 1..Len(ss) /\ f[1] = ss[1] /\ ss[1] \in Seq(X)
      BY <1>2, <2>1 DEF Flattens
    <3> DEFINE off == [i \in 1..1 |-> 0]
    <3>2. LaidOut(f[1], ss, 1, off)
      BY <3>1 DEF LaidOut
    <3> QED
      BY <3>1, <3>2
  <2>3. ASSUME NEW m \in S PROVE m + 1 \in S
    <3> SUFFICES ASSUME (m + 1) + 1 <= Len(ss)
                 PROVE  f[(m + 1) + 1] \in Seq(X)
                        /\ \E off : LaidOut(f[(m + 1) + 1], ss, (m + 1) + 1, off)
      OBVIOUS
    <3>1. /\ f[m + 1] \in Seq(X) /\ m + 1 \in Nat /\ (m + 1) + 1 \in 1..Len(ss)
          /\ \E off : LaidOut(f[m + 1], ss, m + 1, off)
      OBVIOUS
    <3>2. f[(m + 1) + 1] = f[m + 1] \o ss[(m + 1) + 1]
      <4> DEFINE i == (m + 1) + 1
      <4>1. i \in 1..Len(ss) /\ i # 1 /\ i - 1 = m + 1
        BY <3>1
      <4>2. f[i] = IF i = 1 THEN ss[i] ELSE f[i - 1] \o ss[i]
        <5> HIDE DEF i
        <5> QED
          BY <2>1, <4>1 DEF Flattens
      <4> QED
        BY <4>1, <4>2
    <3>3. ss[(m + 1) + 1] \in Seq(X)
      BY <3>1
    <3> QED
      BY <3>1, <3>2, <3>3, ConcatLaidOut
  <2> HIDE DEF S
  <2>4. S = Nat
    <3>1. S \in SUBSET Nat
      BY DEF S
    <3> QED
      BY <2>2, <2>3, <3>1, AllNumbers
  <2>5. Len(ss) - 1 \in S /\ (Len(ss) - 1) + 1 = Len(ss)
    BY <1>2, <2>4
  <2> QED
    BY <2>1, <2>5 DEF S
<1> QED
  BY <1>1, <1>2

-----------------------------------------------------------------------------
(* The jobs table under the polls *)

LEMMA QueueConstants ==
  /\ NumJobs \in Nat \ {0} /\ NoJob \notin QueueProofs!Jobs
  /\ MaxAttempts \in Nat \ {0} /\ Slow \subseteq QueueProofs!Jobs /\ MaxCrashes \in Nat
BY QueueAssumption DEF QueueProofs!Jobs, Jobs

\* JobQueue and the module of its theorems are instantiated alike.
LEMMA SameInit == Queue!Init => QueueProofs!Init
BY DEF Queue!Init, QueueProofs!Init, Queue!Jobs, QueueProofs!Jobs

LEMMA SameNext == [Queue!Next]_(Queue!vars) => [QueueProofs!Next]_(QueueProofs!vars)
<1> USE DEF Queue!vars, QueueProofs!vars, Queue!columns, QueueProofs!columns, Queue!Jobs,
      QueueProofs!Jobs, Queue!Goto, QueueProofs!Goto
<1>1. ASSUME NEW w \in Workers, Queue!Works(w) PROVE QueueProofs!Works(w)
  BY <1>1
     DEF Queue!Works, Queue!Start, Queue!Recover, Queue!Claim, Queue!PipelineCommits,
         Queue!PipelineRaises, Queue!MarkSucceeded, Queue!MarkSucceededRaises,
         Queue!MarkTerminal, Queue!MarkRetryable, Queue!Recoverable, Queue!Claimable,
         Queue!NextAttempt, Queue!Settle, Queue!Exhausted,
         QueueProofs!Works, QueueProofs!Start, QueueProofs!Recover, QueueProofs!Claim,
         QueueProofs!PipelineCommits, QueueProofs!PipelineRaises,
         QueueProofs!MarkSucceeded, QueueProofs!MarkSucceededRaises,
         QueueProofs!MarkTerminal, QueueProofs!MarkRetryable, QueueProofs!Recoverable,
         QueueProofs!Claimable, QueueProofs!NextAttempt, QueueProofs!Settle,
         QueueProofs!Exhausted
<1>2. ASSUME NEW w \in Workers, Queue!Idle(w) \/ Queue!Crash(w)
      PROVE  QueueProofs!Idle(w) \/ QueueProofs!Crash(w)
  BY <1>2 DEF Queue!Idle, Queue!Crash, Queue!Claimable,
     QueueProofs!Idle, QueueProofs!Crash, QueueProofs!Claimable
<1>3. ASSUME NEW j \in Queue!Jobs, Queue!BackoffElapses(j) \/ Queue!BecomesStale(j)
      PROVE  QueueProofs!BackoffElapses(j) \/ QueueProofs!BecomesStale(j)
  BY <1>3 DEF Queue!BackoffElapses, Queue!BecomesStale, Queue!Held,
     QueueProofs!BackoffElapses, QueueProofs!BecomesStale, QueueProofs!Held
<1>4. Queue!Submit => QueueProofs!Submit
  BY DEF Queue!Submit, QueueProofs!Submit
<1> QED
  BY <1>1, <1>2, <1>3, <1>4 DEF Queue!Next, QueueProofs!Next

QueueType == Queue!TypeOK
LEMMA QueueTypeOK == QueueInv => QueueType
BY DEF QueueType, QueueInv, QueueProofs!TypeInv, QueueProofs!TypeOK, Queue!TypeOK, Queue!Jobs,
   QueueProofs!Jobs, Queue!WorkerPCs, QueueProofs!WorkerPCs

\* The steps of the worker and of time.
WorkerStep(w) == WorkerRuns(w) \/ WorkerStops(w)

LEMMA WorkerIsQueueStep ==
  ASSUME (\E w \in Workers : WorkerStep(w)) \/ (\E j \in Jobs : Clock(j))
  PROVE  Queue!Next /\ UNCHANGED <<submitted, pollVars, unlinked, jobVars>>
<1>1. ASSUME NEW w \in Workers, WorkerStep(w)
      PROVE  Queue!Next /\ UNCHANGED <<submitted, pollVars, unlinked, jobVars>>
  BY <1>1 DEF WorkerStep, WorkerRuns, WorkerStops, Queue!Next, Queue!Works,
     Queue!Start, Queue!Recover, Queue!Claim, Queue!PipelineCommits, Queue!PipelineRaises,
     Queue!MarkSucceeded, Queue!MarkSucceededRaises, Queue!MarkTerminal, Queue!MarkRetryable,
     Queue!Idle, Queue!vars, Queue!Crash
<1>2. ASSUME NEW j \in Jobs, Clock(j)
      PROVE  Queue!Next /\ UNCHANGED <<submitted, pollVars, unlinked, jobVars>>
  BY <1>2 DEF Clock, Queue!Next, Queue!BackoffElapses, Queue!BecomesStale, Jobs, Queue!Jobs
<1> QED
  BY <1>1, <1>2

\* Jobs are given the names that follow.
LEMMA EnqueueStep ==
  ASSUME QueueInv, NEW p, NEW rows \in Seq(Artifacts), Enqueue(p, rows)
  PROVE  /\ submitted \in Nat /\ submitted' = submitted + Len(rows) /\ submitted' \in 0..NumJobs
         /\ \A j \in Jobs : ~(j > submitted /\ j <= submitted') =>
              status'[j] = status[j] /\ artifactOf'[j] = artifactOf[j] /\ stagedBy'[j] = stagedBy[j]
         /\ \A j \in Jobs : j > submitted /\ j <= submitted' =>
              /\ j - submitted \in DOMAIN rows
              /\ status'[j] = "queued" /\ artifactOf'[j] = rows[j - submitted] /\ stagedBy'[j] = p
         /\ \A i \in DOMAIN rows : submitted + i \in Jobs /\ artifactOf'[submitted + i] = rows[i]
<1>1. submitted \in 0..NumJobs /\ NumJobs \in Nat /\ Len(rows) \in Nat
  <2>1. Len(rows) \in Nat
    OBVIOUS
  <2>2. NumJobs \in Nat
    BY QueueAssumption
  <2>3. submitted \in 0..NumJobs
    BY DEF QueueInv, QueueProofs!TypeInv, QueueProofs!TypeOK
  <2> QED
    BY <2>1, <2>2, <2>3
<1>2. submitted' = submitted + Len(rows) /\ submitted' \in 0..NumJobs
  <2>1. submitted' = submitted + Len(rows) /\ submitted + Len(rows) <= NumJobs
    BY DEF Enqueue
  <2> QED
    BY <1>1, <2>1
<1>3. \A j \in Jobs :
        /\ status'[j] = IF j \in submitted + 1..submitted' THEN "queued" ELSE status[j]
        /\ artifactOf'[j] = IF j \in submitted + 1..submitted' THEN rows[j - submitted] ELSE artifactOf[j]
        /\ stagedBy'[j] = IF j \in submitted + 1..submitted' THEN p ELSE stagedBy[j]
  BY DEF Enqueue
<1>4. \A j \in Jobs : j \in submitted + 1..submitted' <=> j > submitted /\ j <= submitted'
  BY <1>1, <1>2 DEF Jobs
<1>5. \A j \in Jobs : j > submitted /\ j <= submitted' => j - submitted \in 1..Len(rows)
  BY <1>1, <1>2 DEF Jobs
<1>6. DOMAIN rows = 1..Len(rows)
  OBVIOUS
<1>7. \A i \in 1..Len(rows) :
        /\ submitted + i \in Jobs /\ submitted + i \in submitted + 1..submitted'
        /\ (submitted + i) - submitted = i
  BY <1>1, <1>2 DEF Jobs
<1>8. \A i \in 1..Len(rows) : artifactOf'[submitted + i] = rows[i]
  BY <1>3, <1>7
<1> QED
  BY <1>1, <1>2, <1>3, <1>4, <1>5, <1>6, <1>7, <1>8

\* The invariants of JobQueue under a step that inserts several jobs.
LEMMA EnqueueKeepsQueue ==
  ASSUME QueueInv, NEW p, NEW rows \in Seq(Artifacts), Enqueue(p, rows)
  PROVE  QueueInv' /\ (QueueProofs!OwnerInv => QueueProofs!OwnerInv')
<1> USE DEF Jobs, QueueProofs!Jobs
<1>1. /\ submitted \in Nat /\ submitted' = submitted + Len(rows) /\ submitted' \in 0..NumJobs
      /\ \A j \in Jobs : ~(j > submitted /\ j <= submitted') => status'[j] = status[j]
      /\ \A j \in Jobs : j > submitted /\ j <= submitted' => status'[j] = "queued"
  BY EnqueueStep
<1>2. /\ status' = [j \in Jobs |-> status'[j]]
      /\ UNCHANGED <<attempts, available, stale, ingested, wpc, job, attempt, crashes>>
  BY DEF Enqueue
<1>3. \A j \in Jobs : j \in Nat /\ (status[j] = "absent" <=> j > submitted)
  BY DEF QueueInv, QueueProofs!TypeInv, QueueProofs!ExistIffSubmitted
<1>4. \A j \in Jobs : status'[j] = status[j] \/ (status[j] = "absent" /\ status'[j] = "queued")
  BY <1>1, <1>3
<1>5. QueueProofs!TypeOK'
  BY <1>1, <1>2, <1>4 DEF QueueInv, QueueProofs!TypeInv, QueueProofs!TypeOK
<1>6. QueueProofs!HoldsWhileWorking'
  BY <1>2 DEF QueueInv, QueueProofs!TypeInv, QueueProofs!HoldsWhileWorking
<1>7. \A j \in Jobs : status'[j] = "absent" <=> j > submitted'
  BY <1>1, <1>3
<1>8. \A w \in Workers : job[w] # NoJob => job[w] \in Jobs /\ status'[job[w]] = status[job[w]]
  BY <1>4 DEF QueueInv, QueueProofs!TypeInv, QueueProofs!TypeOK, QueueProofs!ExistIffSubmitted
<1>9. QueueProofs!ExistIffSubmitted'
  BY <1>2, <1>7, <1>8 DEF QueueInv, QueueProofs!TypeInv, QueueProofs!ExistIffSubmitted
<1>10. QueueProofs!IngestInv'
  BY <1>2, <1>4 DEF QueueInv, QueueProofs!IngestInv, QueueProofs!SucceededIsIngested
<1>11. QueueProofs!OwnerInv => QueueProofs!OwnerInv'
  BY <1>2, <1>8 DEF QueueProofs!OwnerInv, QueueProofs!OneWorkerPerJob
<1> QED
  BY <1>5, <1>6, <1>9, <1>10, <1>11 DEF QueueInv, QueueProofs!TypeInv

\* They survive the death of a worker that could not requeue its job.
LEMMA CollisionKeepsQueue ==
  ASSUME QueueInv, NEW w \in Workers, RetryCollides(w)
  PROVE  QueueInv' /\ (QueueProofs!OwnerInv => QueueProofs!OwnerInv')
<1>1. /\ job' = [job EXCEPT ![w] = NoJob] /\ wpc' = [wpc EXCEPT ![w] = "down"]
      /\ UNCHANGED <<submitted, status, attempts, available, stale, ingested, attempt, crashes>>
  BY DEF RetryCollides
<1>2. QueueProofs!TypeInv'
  BY <1>1 DEF QueueInv, QueueProofs!TypeInv, QueueProofs!TypeOK, QueueProofs!WorkerPCs,
     QueueProofs!HoldsWhileWorking, QueueProofs!ExistIffSubmitted
<1>3. QueueProofs!IngestInv'
  BY <1>1 DEF QueueInv, QueueProofs!TypeInv, QueueProofs!TypeOK, QueueProofs!IngestInv,
     QueueProofs!SucceededIsIngested
<1>4. QueueProofs!OwnerInv => QueueProofs!OwnerInv'
  BY <1>1 DEF QueueInv, QueueProofs!TypeInv, QueueProofs!TypeOK, QueueProofs!OwnerInv,
     QueueProofs!OneWorkerPerJob
<1> QED
  BY <1>2, <1>3, <1>4 DEF QueueInv

LEMMA QueueStepKeepsQueue ==
  ASSUME QueueInv, [Queue!Next]_(Queue!vars)
  PROVE  QueueInv'
BY SameNext, QueueConstants, QueueProofs!NextTypeInv, QueueProofs!NextIngestInv DEF QueueInv


-----------------------------------------------------------------------------
(* The lists of artifacts *)

\* SetToSeqs lists each member once.
LEMMA RowsOfSet ==
  ASSUME NEW S, IsFiniteSet(S), NEW rows \in SetToSeqs(S)
  PROVE  /\ rows \in Seq(S)
         /\ \A a \in S : \E i \in DOMAIN rows : rows[i] = a
         /\ \A i, j \in DOMAIN rows : rows[i] = rows[j] => i = j
<1> DEFINE n == Cardinality(S)
<1>1. n \in Nat
  BY FS_CardinalityType
<1>2. rows \in [1..n -> S] /\ \A i, j \in 1..n : i # j => rows[i] # rows[j]
  BY DEF SetToSeqs
<1> HIDE DEF n
<1>3. rows \in Seq(S) /\ DOMAIN rows = 1..n
  BY <1>1, <1>2
<1>4. rows \in Injection(1..n, S)
  BY <1>2 DEF Injection, IsInjective
<1>5. IsFiniteSet(1..n) /\ Cardinality(1..n) = n
  BY <1>1, FS_Interval
<1>6. rows \in Surjection(1..n, S)
  BY <1>4, <1>5, FS_Injection DEF n
<1>7. \A a \in S : \E i \in 1..n : rows[i] = a
  BY <1>6 DEF Surjection
<1> QED
  BY <1>2, <1>3, <1>7

\* The messages of a listing, as the artifacts of each.
Bundles(l) == [i \in DOMAIN l |-> Contents[l[i]]]

LEMMA BundlesType ==
  ASSUME NEW l \in Seq(Messages)
  PROVE  /\ Bundles(l) \in Seq(Seq(Artifacts)) /\ Len(Bundles(l)) = Len(l)
         /\ \A i \in 1..Len(l) : Bundles(l)[i] = Contents[l[i]]
<1>1. \A m \in Messages : Contents[m] \in Seq(Artifacts)
  <2> SUFFICES ASSUME NEW m \in Messages PROVE Contents[m] \in Seq(Artifacts)
    OBVIOUS
  <2>1. Contents[m] \in Seq(ToSet(Contents[m]))
    BY ContentsAssumption
  <2>2. ToSet(Contents[m]) \subseteq Artifacts
    BY DEF Artifacts
  <2> HIDE DEF Artifacts
  <2> DEFINE X == ToSet(Contents[m])
  <2>3. Contents[m] \in Seq(X) /\ X \subseteq Artifacts
    BY <2>1, <2>2
  <2> HIDE DEF X
  <2> QED
    BY <2>3
<1>2. DOMAIN l = 1..Len(l) /\ \A i \in 1..Len(l) : l[i] \in Messages
  OBVIOUS
<1> QED
  BY <1>1, <1>2 DEF Bundles

LEMMA ArtifactsInType ==
  ASSUME NEW l \in Seq(Messages)
  PROVE  /\ ArtifactsIn(l) \in Seq(Artifacts)
         /\ \E off : LaidOut(ArtifactsIn(l), Bundles(l), Len(l), off)
BY BundlesType, FlattenLaysOut DEF ArtifactsIn, Bundles

LEMMA NothingListed == ArtifactsIn(<<>>) = <<>>
BY DEF ArtifactsIn, FlattenSeq

\* An artifact belongs to one message.
LEMMA MessageOfIs ==
  ASSUME NEW m \in Messages, NEW a \in ToSet(Contents[m])
  PROVE  MessageOf(a) = m
<1>1. \A k \in Messages : a \in ToSet(Contents[k]) => k = m
  BY ContentsAssumption
<1> QED
  BY <1>1 DEF MessageOf

LEMMA MessageOfType ==
  ASSUME NEW a \in Artifacts
  PROVE  MessageOf(a) \in Messages /\ a \in ToSet(Contents[MessageOf(a)])
<1>1. \E m \in Messages : a \in ToSet(Contents[m])
  BY DEF Artifacts
<1> QED
  BY <1>1 DEF MessageOf

\* A poll that works has an artifact to go on with.
LEMMA CurrentIs ==
  ASSUME PollType, PollInv, NEW p \in Polls, ppc[p] \in Working
  PROVE  /\ todo[p] \in Seq(Artifacts) /\ todo[p] # <<>>
         /\ Current(p) \in Artifacts /\ Current(p) = todo[p][1]
         /\ Tail(todo[p]) \in Seq(Artifacts)
         /\ WithoutMessage(p) \in Seq(Artifacts)
         /\ Len(CurrentContents(p)) \in Nat
<1>1. todo[p] \in Seq(Artifacts) /\ todo[p] # <<>>
  BY DEF PollType, PollInv
<1>2. Current(p) \in Artifacts /\ Current(p) = todo[p][1] /\ Tail(todo[p]) \in Seq(Artifacts)
  BY <1>1 DEF Current
<1>3. Len(CurrentContents(p)) \in Nat
  <2>1. Contents[MessageOf(Current(p))] \in Seq(ToSet(Contents[MessageOf(Current(p))]))
    BY <1>2, MessageOfType, ContentsAssumption
  <2> DEFINE X == ToSet(CurrentContents(p))
  <2>2. CurrentContents(p) \in Seq(X)
    BY <2>1 DEF CurrentContents
  <2> HIDE DEF X
  <2> QED
    BY <2>2
<1>4. WithoutMessage(p) \in Seq(Artifacts)
  <2> DEFINE n == Len(CurrentContents(p))
  <2>1. \A i \in n + 1..Len(todo[p]) : todo[p][i] \in Artifacts
    BY <1>1, <1>3
  <2>2. n + 1 \in Int /\ Len(todo[p]) \in Int
    BY <1>1, <1>3
  <2>3. SubSeq(todo[p], n + 1, Len(todo[p])) \in Seq(Artifacts)
    BY <2>1, <2>2, SubSeqProperties
  <2> QED
    BY <2>3 DEF WithoutMessage
<1> QED
  BY <1>1, <1>2, <1>3, <1>4

-----------------------------------------------------------------------------
(* Type correctness *)

\* What every step of p does to the program counter and to the list: rest is left.
LEMMA ContinueIs ==
  ASSUME PollType, PollInv, NEW p \in Polls, NEW rest \in Seq(Artifacts), Continue(p, rest)
  PROVE  /\ ppc' \in [Polls -> PollPCs] /\ todo' \in [Polls -> Seq(Artifacts)]
         /\ todo'[p] = rest /\ ppc'[p] = IF rest = <<>> THEN "commit" ELSE "fetch"
         /\ \A q \in Polls \ {p} : ppc'[q] = ppc[q] /\ todo'[q] = todo[q]
BY DEF Continue, Goto, PollType, PollPCs

LEMMA CountIs ==
  ASSUME PollType, PollInv, NEW p \in Polls, ppc[p] \in Working, NEW c \in Counters, Count(p, c)
  PROVE  /\ report' \in [Polls -> [Artifacts -> Counters]]
         /\ \A a \in Artifacts : report'[p][a] = IF a = Current(p) THEN c ELSE report[p][a]
         /\ \A q \in Polls \ {p} : report'[q] = report[q]
<1>1. Current(p) \in Artifacts
  BY CurrentIs
<1> QED
  BY <1>1 DEF Count, PollType

LEMMA RaiseIs ==
  ASSUME PollType, PollInv, NEW p \in Polls, Raise(p), EndTransaction(p)
  PROVE  /\ ppc' \in [Polls -> PollPCs] /\ todo' \in [Polls -> Seq(Artifacts)]
         /\ listing' \in [Polls -> Seq(Messages)] /\ mine' \in [Polls -> SUBSET Artifacts]
         /\ report' \in [Polls -> [Artifacts -> Counters]]
         /\ ppc'[p] = "failed" /\ todo'[p] = <<>> /\ listing'[p] = <<>> /\ mine'[p] = {}
         /\ \A a \in Artifacts : report'[p][a] = "none"
         /\ \A q \in Polls \ {p} : /\ ppc'[q] = ppc[q] /\ todo'[q] = todo[q] /\ mine'[q] = mine[q]
                                   /\ listing'[q] = listing[q] /\ report'[q] = report[q]
<1>1. ppc' \in [Polls -> PollPCs] /\ ppc'[p] = "failed" /\ \A q \in Polls \ {p} : ppc'[q] = ppc[q]
  BY DEF Raise, Goto, PollType, PollPCs
<1>2. <<>> \in Seq(Artifacts) /\ <<>> \in Seq(Messages)
  OBVIOUS
<1>3. todo' \in [Polls -> Seq(Artifacts)] /\ todo'[p] = <<>> /\ \A q \in Polls \ {p} : todo'[q] = todo[q]
  BY <1>2 DEF Raise, PollType
<1>4. listing' \in [Polls -> Seq(Messages)] /\ listing'[p] = <<>> /\ \A q \in Polls \ {p} : listing'[q] = listing[q]
  BY <1>2 DEF Raise, PollType
<1>5. mine' \in [Polls -> SUBSET Artifacts] /\ mine'[p] = {} /\ \A q \in Polls \ {p} : mine'[q] = mine[q]
  BY DEF EndTransaction, PollType
<1>6. /\ report' \in [Polls -> [Artifacts -> Counters]]
      /\ \A a \in Artifacts : report'[p][a] = "none"
      /\ \A q \in Polls \ {p} : report'[q] = report[q]
  BY DEF Raise, PollType, Counters
<1> QED
  BY <1>1, <1>3, <1>4, <1>5, <1>6

\* PollType and PollInv after a step of p.
Kept(p) ==
  /\ PollType'
  /\ listing'[p] = <<>> \/ listing'[p] \in Listings[p]
  /\ ppc'[p] \in Working => todo'[p] # <<>>
  /\ ppc'[p] \notin Working => todo'[p] = <<>>
  /\ IsFiniteSet(mine'[p])
  /\ ppc'[p] \in {"idle", "done", "failed"} => mine'[p] = {}
  /\ \A q \in Polls \ {p} : /\ ppc'[q] = ppc[q] /\ todo'[q] = todo[q] /\ mine'[q] = mine[q]
                            /\ listing'[q] = listing[q]

LEMMA KeptKeeps ==
  ASSUME PollInv, NEW p \in Polls, Kept(p)
  PROVE  PollType' /\ PollInv'
<1>1. PollType'
  BY DEF Kept
<1>2. ASSUME NEW q \in Polls
      PROVE  /\ listing'[q] = <<>> \/ listing'[q] \in Listings[q]
             /\ ppc'[q] \in Working => todo'[q] # <<>>
             /\ ppc'[q] \notin Working => todo'[q] = <<>>
             /\ IsFiniteSet(mine'[q])
             /\ ppc'[q] \in {"idle", "done", "failed"} => mine'[q] = {}
  <2>1. CASE q = p
    BY <2>1 DEF Kept
  <2>2. CASE q # p
    BY <2>2 DEF Kept, PollInv
  <2> QED
    BY <2>1, <2>2
<1> QED
  BY <1>1, <1>2 DEF PollInv

LEMMA ListKeeps ==
  ASSUME PollType, PollInv, NEW p \in Polls, List(p)
  PROVE  Kept(p)
<1>1. PICK l \in Listings[p] : listing' = [listing EXCEPT ![p] = l] /\ Continue(p, ArtifactsIn(l))
  BY DEF List
<1>2. l \in Seq(Messages) /\ ArtifactsIn(l) \in Seq(Artifacts)
  BY ListingsAssumption, ArtifactsInType
<1> HIDE DEF ArtifactsIn
<1>3. /\ ppc' \in [Polls -> PollPCs] /\ todo' \in [Polls -> Seq(Artifacts)]
      /\ todo'[p] = ArtifactsIn(l)
      /\ ppc'[p] = IF ArtifactsIn(l) = <<>> THEN "commit" ELSE "fetch"
      /\ \A q \in Polls \ {p} : ppc'[q] = ppc[q] /\ todo'[q] = todo[q]
  BY <1>1, <1>2, ContinueIs
<1>4. listing' \in [Polls -> Seq(Messages)] /\ listing'[p] = l
      /\ \A q \in Polls \ {p} : listing'[q] = listing[q]
  BY <1>1, <1>2 DEF PollType
<1>5. mine' = mine /\ report' = report /\ mine[p] = {} /\ forced' \subseteq forced \cup {p}
  BY DEF List, PollInv
<1>6. PollType'
  BY <1>3, <1>4, <1>5 DEF PollType
<1> QED
  BY <1>3, <1>4, <1>5, <1>6 DEF Kept, Working, PollInv

\* A poll that counts an artifact, or a message, and goes on.
LEMMA AdvanceKeeps ==
  ASSUME PollType, PollInv, NEW p \in Polls, ppc[p] \in Working,
         NEW rest \in Seq(Artifacts), Continue(p, rest),
         report' \in [Polls -> [Artifacts -> Counters]],
         UNCHANGED <<forced, listing>>,
         \/ UNCHANGED mine
         \/ p \notin forced /\ mine' = [mine EXCEPT ![p] = @ \cup {Current(p)}]
  PROVE  Kept(p)
<1>1. /\ ppc' \in [Polls -> PollPCs] /\ todo' \in [Polls -> Seq(Artifacts)]
      /\ todo'[p] = rest /\ ppc'[p] = IF rest = <<>> THEN "commit" ELSE "fetch"
      /\ \A q \in Polls \ {p} : ppc'[q] = ppc[q] /\ todo'[q] = todo[q]
  BY ContinueIs
<1>2. /\ mine' \in [Polls -> SUBSET Artifacts] /\ \A q \in forced : mine'[q] = {}
      /\ IsFiniteSet(mine'[p]) /\ \A q \in Polls \ {p} : mine'[q] = mine[q]
  <2>1. CASE UNCHANGED mine
    BY <2>1 DEF PollType, PollInv
  <2>2. CASE p \notin forced /\ mine' = [mine EXCEPT ![p] = @ \cup {Current(p)}]
    <3>1. Current(p) \in Artifacts
      BY CurrentIs
    <3>2. IsFiniteSet(mine[p] \cup {Current(p)})
      BY FS_AddElement DEF PollInv
    <3> QED
      BY <2>2, <3>1, <3>2 DEF PollType
  <2> QED
    BY <2>1, <2>2
<1>3. PollType'
  BY <1>1, <1>2 DEF PollType
<1> QED
  BY <1>1, <1>2, <1>3 DEF Kept, Working, PollInv

\* A poll that goes to the next call for the same artifact.
LEMMA GotoKeeps ==
  ASSUME PollType, PollInv, NEW p \in Polls, ppc[p] \in Working,
         NEW label \in Working, Goto(p, label),
         UNCHANGED <<forced, listing, todo, mine, report>>
  PROVE  Kept(p)
<1>1. ppc' \in [Polls -> PollPCs] /\ ppc'[p] = label /\ \A q \in Polls \ {p} : ppc'[q] = ppc[q]
  BY DEF Goto, PollType, PollPCs, Working
<1>2. PollType'
  BY <1>1 DEF PollType
<1> QED
  BY <1>1, <1>2 DEF Kept, Working, PollInv

LEMMA AbortKeeps ==
  ASSUME PollType, PollInv, NEW p \in Polls, Raise(p), EndTransaction(p), UNCHANGED forced
  PROVE  Kept(p)
<1>1. /\ ppc' \in [Polls -> PollPCs] /\ todo' \in [Polls -> Seq(Artifacts)]
      /\ listing' \in [Polls -> Seq(Messages)] /\ mine' \in [Polls -> SUBSET Artifacts]
      /\ report' \in [Polls -> [Artifacts -> Counters]]
      /\ ppc'[p] = "failed" /\ todo'[p] = <<>> /\ listing'[p] = <<>> /\ mine'[p] = {}
      /\ \A q \in Polls \ {p} : /\ ppc'[q] = ppc[q] /\ todo'[q] = todo[q] /\ mine'[q] = mine[q]
                                /\ listing'[q] = listing[q]
  BY RaiseIs
<1>2. PollType'
  BY <1>1 DEF PollType
<1>3. IsFiniteSet({})
  BY FS_EmptySet
<1> QED
  BY <1>1, <1>2, <1>3 DEF Kept, Working

LEMMA CommitKeeps ==
  ASSUME PollType, PollInv, NEW p \in Polls, Commit(p)
  PROVE  Kept(p)
<1>1. /\ ppc[p] = "commit" /\ mine' = [mine EXCEPT ![p] = {}] /\ ppc' = [ppc EXCEPT ![p] = "done"]
      /\ UNCHANGED <<forced, listing, todo, report>>
  BY DEF Commit, CommitJobs, EndTransaction, Goto
<1>2. PollType'
  BY <1>1 DEF PollType, PollPCs
<1>3. IsFiniteSet({})
  BY FS_EmptySet
<1> QED
  BY <1>1, <1>2, <1>3 DEF Kept, Working, PollInv, PollType

PollStep(p) == PollRuns(p) \/ PollSuffers(p)

LEMMA PollStepKeeps ==
  ASSUME PollType, PollInv, NEW p \in Polls, PollStep(p)
  PROVE  Kept(p)
<1>0. ppc[p] \in Working =>
        /\ Current(p) \in Artifacts /\ Tail(todo[p]) \in Seq(Artifacts)
        /\ WithoutMessage(p) \in Seq(Artifacts)
  BY CurrentIs
<1>1. CASE List(p)
  BY <1>1, ListKeeps
<1>2. CASE Fetch(p)
  <2>1. \E label \in Working : Goto(p, label)
    BY <1>2 DEF Fetch, Working
  <2> QED
    BY <1>2, <2>1, GotoKeeps DEF Fetch, Working
<1>3. CASE LookUpProcessed(p)
  <2>1. ppc[p] \in Working /\ UNCHANGED <<forced, listing, mine>>
    BY <1>3 DEF LookUpProcessed, Working
  <2>2. CASE HasProcessed(Current(p))
    <3>1. Count(p, "processed") /\ Continue(p, Tail(todo[p]))
      BY <1>3, <2>2 DEF LookUpProcessed
    <3>2. report' \in [Polls -> [Artifacts -> Counters]]
      BY <2>1, <3>1, CountIs DEF Counters
    <3> QED
      BY <1>0, <2>1, <3>1, <3>2, AdvanceKeeps
  <2>3. CASE ~HasProcessed(Current(p))
    BY <1>3, <2>1, <2>3, GotoKeeps DEF LookUpProcessed, Working
  <2> QED
    BY <2>2, <2>3
<1>4. CASE LookUpPending(p)
  <2>1. ppc[p] \in Working /\ UNCHANGED <<forced, listing, mine>>
    BY <1>4 DEF LookUpPending, Working
  <2>2. CASE HasPending(Current(p))
    <3>1. Count(p, "pending") /\ Continue(p, Tail(todo[p]))
      BY <1>4, <2>2 DEF LookUpPending
    <3>2. report' \in [Polls -> [Artifacts -> Counters]]
      BY <2>1, <3>1, CountIs DEF Counters
    <3> QED
      BY <1>0, <2>1, <3>1, <3>2, AdvanceKeeps
  <2>3. CASE ~HasPending(Current(p))
    BY <1>4, <2>1, <2>3, GotoKeeps DEF LookUpPending, Working
  <2> QED
    BY <2>2, <2>3
<1>5. CASE Insert(p)
  <2>1. /\ ppc[p] \in Working /\ UNCHANGED <<forced, listing>> /\ p \notin forced
        /\ Count(p, "enqueued") /\ Continue(p, Tail(todo[p]))
        /\ mine' = [mine EXCEPT ![p] = @ \cup {Current(p)}]
    BY <1>5 DEF Insert, Working
  <2>2. report' \in [Polls -> [Artifacts -> Counters]]
    BY <2>1, CountIs DEF Counters
  <2> QED
    BY <1>0, <2>1, <2>2, AdvanceKeeps
<1>6. CASE InsertConflicts(p)
  <2>1. /\ ppc[p] \in Working /\ UNCHANGED <<forced, listing, mine>>
        /\ Count(p, "pending") /\ Continue(p, Tail(todo[p]))
    BY <1>6 DEF InsertConflicts, Working
  <2>2. report' \in [Polls -> [Artifacts -> Counters]]
    BY <2>1, CountIs DEF Counters
  <2> QED
    BY <1>0, <2>1, <2>2, AdvanceKeeps
<1>7. CASE InsertForced(p)
  <2>1. /\ ppc[p] \in Working /\ UNCHANGED <<forced, listing, mine>>
        /\ Count(p, "enqueued") /\ Continue(p, Tail(todo[p]))
    BY <1>7 DEF InsertForced, Working
  <2>2. report' \in [Polls -> [Artifacts -> Counters]]
    BY <2>1, CountIs DEF Counters
  <2> QED
    BY <1>0, <2>1, <2>2, AdvanceKeeps
<1>8. CASE Commit(p)
  BY <1>8, CommitKeeps
<1>9. CASE DeadlockDetected(p) \/ Fail(p)
  BY <1>9, AbortKeeps DEF DeadlockDetected, Fail, Abort
<1>10. CASE CommitUnacknowledged(p)
  BY <1>10, AbortKeeps DEF CommitUnacknowledged, CommitJobs
<1>11. CASE MessageFails(p)
  <2>1. /\ ppc[p] \in Working /\ UNCHANGED <<forced, listing, mine>> /\ Continue(p, WithoutMessage(p))
        /\ report' = [report EXCEPT ![p] = [a \in Artifacts |->
                        IF OfCurrentMessage(p, a) THEN "skipped" ELSE report[p][a]]]
    BY <1>11 DEF MessageFails, Working
  <2>2. report' \in [Polls -> [Artifacts -> Counters]]
    BY <2>1 DEF PollType, Counters
  <2> QED
    BY <1>0, <2>1, <2>2, AdvanceKeeps
<1>12. CASE AttachmentSkipped(p)
  <2>1. /\ ppc[p] \in Working /\ UNCHANGED <<forced, listing, mine>>
        /\ Count(p, "skipped") /\ Continue(p, Tail(todo[p]))
    BY <1>12 DEF AttachmentSkipped, Working
  <2>2. report' \in [Polls -> [Artifacts -> Counters]]
    BY <2>1, CountIs DEF Counters
  <2> QED
    BY <1>0, <2>1, <2>2, AdvanceKeeps
<1> QED
  BY <1>1, <1>2, <1>3, <1>4, <1>5, <1>6, <1>7, <1>8, <1>9, <1>10, <1>11, <1>12
     DEF PollStep, PollRuns, PollSuffers

\* A poll that ends its transaction has jobs for what it has inserted.
LEMMA CommittedRows ==
  ASSUME PollType, PollInv, NEW p \in Polls, CommitJobs(p)
  PROVE  \E rows \in Seq(Artifacts) :
           /\ Enqueue(p, rows)
           /\ \A i \in DOMAIN rows : rows[i] \in mine[p]
           /\ \A a \in mine[p] : \E i \in DOMAIN rows : rows[i] = a
           /\ \A i, j \in DOMAIN rows : rows[i] = rows[j] => i = j
<1> DEFINE S == mine[p]
<1>1. IsFiniteSet(S) /\ S \subseteq Artifacts
  BY DEF PollType, PollInv
<1>2. PICK rows \in SetToSeqs(S) : Enqueue(p, rows)
  BY DEF CommitJobs
<1> HIDE DEF S
<1>3. /\ rows \in Seq(S)
      /\ \A a \in S : \E i \in DOMAIN rows : rows[i] = a
      /\ \A i, j \in DOMAIN rows : rows[i] = rows[j] => i = j
  BY <1>1, RowsOfSet
<1>4. rows \in Seq(Artifacts) /\ \A i \in DOMAIN rows : rows[i] \in S
  BY <1>1, <1>3
<1> QED
  BY <1>2, <1>3, <1>4 DEF S

\* What a step of a poll does to the jobs table: nothing, or it inserts.
LEMMA PollStepOnJobs ==
  ASSUME PollType, PollInv, NEW p \in Polls, PollStep(p)
  PROVE  \/ UNCHANGED <<queueVars, jobVars>>
         \/ \E rows \in Seq(Artifacts) : Enqueue(p, rows)
<1>1. InsertForced(p) => \E rows \in Seq(Artifacts) : Enqueue(p, rows)
  <2> SUFFICES ASSUME InsertForced(p) PROVE \E rows \in Seq(Artifacts) : Enqueue(p, rows)
    OBVIOUS
  <2>1. Current(p) \in Artifacts
    BY CurrentIs DEF InsertForced, Working
  <2>2. <<Current(p)>> \in Seq(Artifacts)
    BY <2>1
  <2> QED
    BY <2>2 DEF InsertForced
<1>2. Commit(p) \/ CommitUnacknowledged(p) => \E rows \in Seq(Artifacts) : Enqueue(p, rows)
  BY CommittedRows DEF Commit, CommitUnacknowledged
<1> QED
  BY <1>1, <1>2 DEF PollStep, PollRuns, PollSuffers, List, Fetch, LookUpProcessed, LookUpPending,
     Insert, InsertConflicts, DeadlockDetected, MessageFails, AttachmentSkipped, Fail, Abort

LEMMA EnqueueKeepsJobs ==
  ASSUME QueueInv, JobType, JobInv, NEW p \in Polls, NEW rows \in Seq(Artifacts), Enqueue(p, rows)
  PROVE  /\ artifactOf' \in [Jobs -> Artifacts \cup {NoArtifact}]
         /\ stagedBy' \in [Jobs -> Polls \cup {NoArtifact}]
         /\ JobInv'
<1>1. /\ submitted \in Nat /\ submitted' = submitted + Len(rows) /\ submitted' \in 0..NumJobs
      /\ \A j \in Jobs : ~(j > submitted /\ j <= submitted') =>
           artifactOf'[j] = artifactOf[j] /\ stagedBy'[j] = stagedBy[j]
      /\ \A j \in Jobs : j > submitted /\ j <= submitted' =>
           j - submitted \in DOMAIN rows /\ artifactOf'[j] = rows[j - submitted] /\ stagedBy'[j] = p
  BY EnqueueStep
<1>2. \A i \in DOMAIN rows : rows[i] \in Artifacts
  OBVIOUS
<1>3. \A j \in Jobs : j > submitted /\ j <= submitted' => artifactOf'[j] \in Artifacts
  BY <1>1, <1>2
<1>4. artifactOf' = [j \in Jobs |-> artifactOf'[j]] /\ stagedBy' = [j \in Jobs |-> stagedBy'[j]]
  BY DEF Enqueue
<1>5. \A j \in Jobs : artifactOf'[j] \in Artifacts \cup {NoArtifact} /\ stagedBy'[j] \in Polls \cup {NoArtifact}
  BY <1>1, <1>3 DEF JobType
<1>6. artifactOf' \in [Jobs -> Artifacts \cup {NoArtifact}] /\ stagedBy' \in [Jobs -> Polls \cup {NoArtifact}]
  BY <1>4, <1>5
<1>7. ASSUME NEW j \in Jobs
      PROVE  /\ j <= submitted' => artifactOf'[j] \in Artifacts /\ stagedBy'[j] \in Polls
             /\ j > submitted' => artifactOf'[j] = NoArtifact /\ stagedBy'[j] = NoArtifact
  <2>1. j \in Nat /\ submitted' >= submitted /\ Len(rows) \in Nat
    <3>1. Len(rows) \in Nat
      OBVIOUS
    <3>2. j \in Nat
      BY DEF Jobs
    <3> QED
      BY <1>1, <3>1, <3>2
  <2>2. CASE j <= submitted
    BY <1>1, <2>1, <2>2 DEF JobInv
  <2>3. CASE j > submitted /\ j <= submitted'
    BY <1>1, <1>3, <2>1, <2>3
  <2>4. CASE j > submitted'
    BY <1>1, <2>1, <2>4 DEF JobInv
  <2> QED
    BY <1>1, <2>1, <2>2, <2>3, <2>4
<1>8. JobInv'
  BY <1>7 DEF JobInv
<1> QED
  BY <1>6, <1>8

\* A file of the artifact a poll has come to is deleted, or is written again.
LEMMA PollStepOnFiles ==
  ASSUME PollType, PollInv, NEW p \in Polls, PollStep(p)
  PROVE  \/ UNCHANGED unlinked
         \/ unlinked' = unlinked \ {StagedFile(p, Current(p))}
         \/ InsertConflicts(p) /\ unlinked' = unlinked \cup {StagedFile(p, Current(p))}
BY DEF PollStep, PollRuns, PollSuffers, List, Fetch, LookUpProcessed, LookUpPending,
   Insert, InsertConflicts, InsertForced, Commit, CommitUnacknowledged, DeadlockDetected,
   MessageFails, AttachmentSkipped, Fail, Abort, Superfluous

LEMMA InitTypeInv == Init => TypeInv
<1> SUFFICES ASSUME Init PROVE TypeInv
  OBVIOUS
<1>1. QueueInv
  BY SameInit, QueueConstants, QueueProofs!InitTypeInv, QueueProofs!InitIngestInv DEF Init, QueueInv
<1>2. PollType
  <2>1. <<>> \in Seq(Artifacts) /\ <<>> \in Seq(Messages)
    OBVIOUS
  <2> QED
    BY <2>1 DEF Init, PollType, PollPCs, Counters
<1>3. JobType
  BY DEF Init, JobType
<1>4. PollInv
  BY FS_EmptySet DEF Init, PollInv, Working
<1>5. JobInv
  <2>1. submitted = 0 /\ \A j \in Jobs : j \in Nat /\ ~(j <= submitted)
    BY DEF Init, Queue!Init, Jobs
  <2> QED
    BY <2>1 DEF Init, JobInv
<1> QED
  BY <1>1, <1>2, <1>3, <1>4, <1>5 DEF TypeInv

\* Next as four kinds of steps.
LEMMA StepKinds ==
  ASSUME [Next]_vars
  PROVE  \/ \E p \in Polls : PollStep(p)
         \/ (\E w \in Workers : WorkerStep(w)) \/ (\E j \in Jobs : Clock(j))
         \/ \E w \in Workers : RetryCollides(w)
         \/ UNCHANGED vars
BY DEF Next, PollStep, WorkerStep

LEMMA NextTypeInv == TypeInv /\ [Next]_vars => TypeInv'
<1> SUFFICES ASSUME TypeInv, [Next]_vars PROVE TypeInv'
  OBVIOUS
<1>0. QueueInv /\ PollType /\ JobType /\ PollInv /\ JobInv
  BY DEF TypeInv
<1>1. ASSUME NEW p \in Polls, PollStep(p) PROVE TypeInv'
  <2>1. PollType' /\ PollInv'
    BY <1>0, <1>1, PollStepKeeps, KeptKeeps
  <2>2. unlinked' \subseteq Polls \X Artifacts
    <3>1. InsertConflicts(p) => StagedFile(p, Current(p)) \in Polls \X Artifacts
      BY <1>0, CurrentIs DEF InsertConflicts, Working, StagedFile
    <3> QED
      BY <1>0, <1>1, <3>1, PollStepOnFiles DEF JobType
  <2>3. CASE UNCHANGED <<queueVars, jobVars>>
    <3>1. QueueInv'
      BY <1>0, <2>3, QueueStepKeepsQueue DEF queueVars, Queue!vars, Queue!columns
    <3>2. JobType' /\ JobInv'
      BY <1>0, <2>2, <2>3 DEF JobType, JobInv, queueVars, jobVars
    <3> QED
      BY <2>1, <3>1, <3>2 DEF TypeInv
  <2>4. ASSUME NEW rows \in Seq(Artifacts), Enqueue(p, rows) PROVE TypeInv'
    <3>1. QueueInv'
      BY <1>0, <2>4, EnqueueKeepsQueue
    <3>2. JobType' /\ JobInv'
      BY <1>0, <2>2, <2>4, EnqueueKeepsJobs DEF JobType
    <3> QED
      BY <2>1, <3>1, <3>2 DEF TypeInv
  <2> QED
    BY <1>0, <1>1, <2>3, <2>4, PollStepOnJobs
<1>2. ASSUME QueueInv', UNCHANGED <<submitted, pollVars, unlinked, jobVars>> PROVE TypeInv'
  <2>1. PollType' /\ PollInv'
    BY <1>0, <1>2 DEF pollVars, PollType, PollInv
  <2>2. JobType' /\ JobInv'
    BY <1>0, <1>2 DEF jobVars, JobType, JobInv
  <2> QED
    BY <1>2, <2>1, <2>2 DEF TypeInv
<1>3. CASE (\E w \in Workers : WorkerStep(w)) \/ (\E j \in Jobs : Clock(j))
  BY <1>0, <1>2, <1>3, WorkerIsQueueStep, QueueStepKeepsQueue
<1>4. ASSUME NEW w \in Workers, RetryCollides(w) PROVE TypeInv'
  <2>1. UNCHANGED <<submitted, pollVars, unlinked, jobVars>>
    BY <1>4 DEF RetryCollides
  <2> QED
    BY <1>0, <1>2, <1>4, <2>1, CollisionKeepsQueue
<1>5. CASE UNCHANGED vars
  <2>1. UNCHANGED <<submitted, pollVars, unlinked, jobVars>> /\ UNCHANGED Queue!vars
    BY <1>5 DEF vars, queueVars, Queue!vars, Queue!columns
  <2> QED
    BY <1>0, <1>2, <2>1, QueueStepKeepsQueue
<1> QED
  BY <1>1, <1>3, <1>4, <1>5, StepKinds

\* The variables have their types: the jobs that polls insert are those that the
\* worker's table has, and a forced poll has nothing in a transaction.
THEOREM TypeCorrect == Spec => []TypeOK
<1>1. TypeInv => TypeOK
  <2> SUFFICES ASSUME TypeInv PROVE TypeOK
    OBVIOUS
  <2>1. QueueType
    BY QueueTypeOK DEF TypeInv
  <2> QED
    BY <2>1 DEF TypeInv, TypeOK, PollType, JobType, QueueType
<1> QED
  BY InitTypeInv, NextTypeInv, <1>1, PTL DEF Spec

-----------------------------------------------------------------------------
(* What the steps do to the jobs *)

New(j) == j > submitted /\ j <= submitted'
Same(j) == status'[j] = status[j] /\ artifactOf'[j] = artifactOf[j] /\ stagedBy'[j] = stagedBy[j]

\* A commit makes one job of every artifact that the poll has inserted.
LEMMA CommitStep ==
  ASSUME TypeInv, NEW p \in Polls, Commit(p) \/ CommitUnacknowledged(p)
  PROVE  /\ \A j \in Jobs : ~New(j) => Same(j)
         /\ \A j \in Jobs : New(j) => artifactOf'[j] \in mine[p] /\ stagedBy'[j] = p
         /\ \A j, k \in Jobs : New(j) /\ New(k) /\ artifactOf'[j] = artifactOf'[k] => j = k
         /\ \A a \in mine[p] : \E j \in Jobs : New(j) /\ artifactOf'[j] = a
         /\ \A j \in Jobs : New(j) => status[j] = "absent"
         /\ \A j, k \in Jobs : New(j) /\ j < k /\ ~New(k) => k > submitted'
         /\ mine'[p] = {} /\ \A q \in Polls \ {p} : mine'[q] = mine[q]
         /\ UNCHANGED <<ingested, unlinked, forced>>
<1>0. QueueInv /\ PollType /\ PollInv /\ \A j \in Jobs : j \in Nat
  BY DEF TypeInv, Jobs
<1>1. PICK rows \in Seq(Artifacts) :
        /\ Enqueue(p, rows)
        /\ \A i \in DOMAIN rows : rows[i] \in mine[p]
        /\ \A a \in mine[p] : \E i \in DOMAIN rows : rows[i] = a
        /\ \A i, j \in DOMAIN rows : rows[i] = rows[j] => i = j
  BY <1>0, CommittedRows DEF Commit, CommitUnacknowledged
<1>2. /\ submitted \in Nat /\ submitted' = submitted + Len(rows) /\ submitted' \in 0..NumJobs
      /\ \A j \in Jobs : ~New(j) => Same(j)
      /\ \A j \in Jobs : New(j) =>
           /\ j - submitted \in DOMAIN rows
           /\ artifactOf'[j] = rows[j - submitted] /\ stagedBy'[j] = p
      /\ \A i \in DOMAIN rows : submitted + i \in Jobs /\ artifactOf'[submitted + i] = rows[i]
  BY <1>0, <1>1, EnqueueStep DEF New, Same
<1>3. DOMAIN rows = 1..Len(rows) /\ Len(rows) \in Nat
  OBVIOUS
<1>4. \A i \in DOMAIN rows : New(submitted + i)
  BY <1>2, <1>3 DEF New
<1>5. \A j, k \in Jobs : j - submitted = k - submitted => j = k
  BY <1>0, <1>2
<1>6. \A j, k \in Jobs : New(j) /\ New(k) /\ artifactOf'[j] = artifactOf'[k] => j = k
  BY <1>1, <1>2, <1>5
<1>7. \A a \in mine[p] : \E j \in Jobs : New(j) /\ artifactOf'[j] = a
  BY <1>1, <1>2, <1>4
<1>8. \A j \in Jobs : New(j) => status[j] = "absent"
  BY <1>0 DEF New, QueueInv, QueueProofs!TypeInv, QueueProofs!ExistIffSubmitted, Jobs, QueueProofs!Jobs
<1>9. \A j, k \in Jobs : New(j) /\ j < k /\ ~New(k) => k > submitted'
  <2>1. submitted' \in Nat
    BY <1>2, <1>3
  <2> QED
    BY <1>0, <1>2, <2>1 DEF New
<1>10. mine'[p] = {} /\ \A q \in Polls \ {p} : mine'[q] = mine[q]
  BY <1>0 DEF Commit, CommitUnacknowledged, CommitJobs, EndTransaction, PollType
<1>11. UNCHANGED <<ingested, unlinked, forced>>
  BY <1>1 DEF Commit, CommitUnacknowledged, Enqueue
<1> QED
  BY <1>1, <1>2, <1>6, <1>7, <1>8, <1>9, <1>10, <1>11

\* A forced poll makes a job at once, which is not in the index.
LEMMA ForcedStep ==
  ASSUME TypeInv, NEW p \in Polls, InsertForced(p)
  PROVE  /\ p \in forced /\ Current(p) \in Artifacts
         /\ \A j \in Jobs : ~New(j) => Same(j)
         /\ \A j \in Jobs : New(j) => artifactOf'[j] = Current(p) /\ stagedBy'[j] = p
         /\ \A j \in Jobs : New(j) => status[j] = "absent"
         /\ \E j \in Jobs : New(j)
         /\ UNCHANGED <<ingested, mine, forced>>
         /\ unlinked' = unlinked \ {StagedFile(p, Current(p))}
<1>0. QueueInv /\ PollType /\ PollInv /\ \A j \in Jobs : j \in Nat
  BY DEF TypeInv, Jobs
<1>1. Current(p) \in Artifacts
  BY <1>0, CurrentIs DEF InsertForced, Working
<1> DEFINE rows == <<Current(p)>>
<1>2. rows \in Seq(Artifacts) /\ DOMAIN rows = {1} /\ rows[1] = Current(p)
  BY <1>1
<1>3. Enqueue(p, rows)
  BY DEF InsertForced
<1> HIDE DEF rows
<1>4. /\ submitted \in Nat /\ submitted' = submitted + Len(rows)
      /\ \A j \in Jobs : ~New(j) => Same(j)
      /\ \A j \in Jobs : New(j) =>
           /\ j - submitted \in DOMAIN rows
           /\ artifactOf'[j] = rows[j - submitted] /\ stagedBy'[j] = p
      /\ \A i \in DOMAIN rows : submitted + i \in Jobs
  BY <1>0, <1>2, <1>3, EnqueueStep DEF New, Same
<1>5. \A j \in Jobs : New(j) => status[j] = "absent"
  BY <1>0 DEF New, QueueInv, QueueProofs!TypeInv, QueueProofs!ExistIffSubmitted, Jobs, QueueProofs!Jobs
<1>6. UNCHANGED <<ingested, mine, forced>> /\ p \in forced
      /\ unlinked' = unlinked \ {StagedFile(p, Current(p))}
  BY <1>3 DEF InsertForced, Enqueue
<1>7. \A j \in Jobs : New(j) => artifactOf'[j] = Current(p)
  BY <1>2, <1>4
<1>8. submitted + 1 \in Jobs /\ New(submitted + 1)
  <2>1. Len(rows) = 1
    BY DEF rows
  <2> QED
    BY <1>2, <1>4, <2>1 DEF New
<1> QED
  BY <1>1, <1>4, <1>5, <1>6, <1>7, <1>8

\* The other steps of a poll insert nothing.
Reads(p) == UNCHANGED <<queueVars, jobVars>>

LEMMA PollStepKinds ==
  ASSUME TypeInv, NEW p \in Polls, PollStep(p)
  PROVE  \/ Commit(p) \/ CommitUnacknowledged(p)
         \/ InsertForced(p)
         \/ Insert(p) /\ Reads(p)
         \/ /\ Reads(p)
            /\ UNCHANGED mine \/ EndTransaction(p)
            /\ forced \subseteq forced' /\ forced' \subseteq forced \cup {p}
            /\ forced' # forced => ppc[p] = "idle"
            /\ UNCHANGED unlinked \/ InsertConflicts(p)
BY DEF PollStep, PollRuns, PollSuffers, List, Fetch, LookUpProcessed, LookUpPending,
   Insert, InsertConflicts, DeadlockDetected, MessageFails, AttachmentSkipped, Fail, Abort, Reads

\* Only mark_job_retryable_failure makes a job pending that is in the table.
LEMMA NewlyPending ==
  ASSUME QueueInv, (\E w \in Workers : WorkerStep(w)) \/ (\E j \in Jobs : Clock(j)),
         NEW j \in Jobs, ~Pending(status[j]), Pending(status'[j])
  PROVE  \E w \in Workers : /\ WorkerRuns(w) /\ wpc[w] = "mark_failure" /\ ~Queue!Exhausted(w)
                            /\ job[w] = j
<1>0. QueueProofs!TypeInv
  BY DEF QueueInv
<1>1. ASSUME NEW k \in Jobs, Clock(k) PROVE FALSE
  BY <1>1 DEF Clock, Queue!BackoffElapses, Queue!BecomesStale
<1>2. ASSUME NEW w \in Workers, WorkerStops(w) PROVE FALSE
  BY <1>2 DEF WorkerStops, Queue!Idle, Queue!Crash, Queue!vars, Queue!columns
<1>3. ASSUME NEW w \in Workers, WorkerRuns(w)
      PROVE  Queue!MarkRetryable(w) /\ job[w] = j
  <2> USE DEF Pending, Queue!columns
  <2>1. Queue!Works(w)
    BY <1>3 DEF WorkerRuns
  <2>2. ~Queue!Start(w) /\ ~Queue!PipelineCommits(w) /\ ~Queue!PipelineRaises(w)
    BY DEF Queue!Start, Queue!PipelineCommits, Queue!PipelineRaises
  <2>3. ~Queue!Recover(w)
    BY DEF Queue!Recover, Queue!Recoverable, Jobs, Queue!Jobs
  <2>4. ~Queue!Claim(w)
    <3> SUFFICES ASSUME Queue!Claim(w) PROVE FALSE
      OBVIOUS
    <3>1. PICK k \in Queue!Claimable : status' = [status EXCEPT ![k] = "running"]
      BY DEF Queue!Claim
    <3>2. k \in Queue!Jobs /\ status[k] = "queued"
      BY DEF Queue!Claimable
    <3> QED
      BY <1>0, <3>1, <3>2 DEF QueueProofs!TypeInv, QueueProofs!TypeOK, Jobs, QueueProofs!Jobs
  <2>5. status \in [Jobs -> {"absent", "queued", "running", "succeeded", "failed"}]
    BY <1>0 DEF QueueProofs!TypeInv, QueueProofs!TypeOK, Jobs, QueueProofs!Jobs
  <2>6. ~Queue!MarkSucceeded(w) /\ ~Queue!MarkSucceededRaises(w) /\ ~Queue!MarkTerminal(w)
    BY <2>5 DEF Queue!MarkSucceeded, Queue!MarkSucceededRaises, Queue!MarkTerminal, Queue!Settle
  <2>7. Queue!MarkRetryable(w)
    BY <2>1, <2>2, <2>3, <2>4, <2>6 DEF Queue!Works
  <2>8. job[w] = j
    BY <2>5, <2>7 DEF Queue!MarkRetryable, Queue!Settle
  <2> QED
    BY <2>7, <2>8
<1> QED
  BY <1>1, <1>2, <1>3 DEF WorkerStep, Queue!MarkRetryable

-----------------------------------------------------------------------------
(* The index of pending jobs *)

\* Steps that bring nothing into the index and insert nothing.
LEMMA IndexFrame ==
  ASSUME IndexInv, \A j \in Jobs : Indexed(j)' => Indexed(j), UNCHANGED artifactOf,
         \A p \in Polls : mine'[p] \subseteq mine[p]
  PROVE  IndexInv'
BY DEF IndexInv, JobsOf

LEMMA NextIndexInv == TypeInv /\ IndexInv /\ [Next]_vars => IndexInv'
<1> SUFFICES ASSUME TypeInv, IndexInv, [Next]_vars PROVE IndexInv'
  OBVIOUS
<1>0. QueueInv /\ PollType /\ PollInv
  BY DEF TypeInv
<1>1. ASSUME NEW p \in Polls, Commit(p) \/ CommitUnacknowledged(p) PROVE IndexInv'
  <2>1. /\ \A j \in Jobs : ~New(j) => Same(j)
        /\ \A j \in Jobs : New(j) => artifactOf'[j] \in mine[p]
        /\ mine'[p] = {} /\ \A q \in Polls \ {p} : mine'[q] = mine[q]
        /\ forced' = forced
    BY <1>1, CommitStep
  <2>2. ASSUME NEW q \in Polls, NEW a \in mine'[q], NEW j \in Jobs, artifactOf'[j] = a
        PROVE  ~Indexed(j)'
    <3>1. q # p /\ a \in mine[q] /\ a \notin mine[p]
      BY <1>1, <2>1 DEF IndexInv
    <3>2. ~New(j)
      BY <2>1, <2>2, <3>1
    <3>3. Same(j)
      BY <2>1, <3>2
    <3>4. ~Indexed(j)
      BY <2>2, <3>1, <3>3 DEF IndexInv, JobsOf, Same
    <3> QED
      BY <2>1, <3>3, <3>4 DEF Same, Indexed, Unforced
  <2>3. \A q, r \in Polls : q # r => mine'[q] \cap mine'[r] = {}
    BY <1>1, <2>1 DEF IndexInv
  <2> QED
    BY <2>2, <2>3 DEF IndexInv, JobsOf
<1>2. ASSUME NEW p \in Polls, InsertForced(p) PROVE IndexInv'
  <2>1. /\ p \in forced
        /\ \A j \in Jobs : ~New(j) => Same(j)
        /\ \A j \in Jobs : New(j) => stagedBy'[j] = p
        /\ mine' = mine /\ forced' = forced
    BY <1>2, ForcedStep
  <2>2. ASSUME NEW q \in Polls, NEW a \in mine'[q], NEW j \in Jobs, artifactOf'[j] = a
        PROVE  ~Indexed(j)'
    <3>1. CASE New(j)
      BY <2>1, <3>1 DEF Indexed, Unforced
    <3>2. CASE ~New(j)
      <4>1. Same(j)
        BY <2>1, <3>2
      <4>2. ~Indexed(j)
        BY <2>1, <2>2, <4>1 DEF IndexInv, JobsOf, Same
      <4> QED
        BY <2>1, <4>1, <4>2 DEF Same, Indexed, Unforced
    <3> QED
      BY <3>1, <3>2
  <2>3. \A q, r \in Polls : q # r => mine'[q] \cap mine'[r] = {}
    BY <2>1 DEF IndexInv
  <2> QED
    BY <2>2, <2>3 DEF IndexInv, JobsOf
<1>3. ASSUME NEW p \in Polls, Insert(p), Reads(p) PROVE IndexInv'
  <2>1. /\ mine' = [mine EXCEPT ![p] = @ \cup {Current(p)}]
        /\ ~Conflicts(p) /\ ~(\E q \in Polls : WaitsFor(p, q))
        /\ p \notin forced /\ ppc[p] = "insert"
        /\ UNCHANGED <<forced, status, stagedBy, artifactOf>>
    BY <1>3 DEF Insert, Reads, queueVars, jobVars
  <2>2. \A q \in Polls : mine'[q] = IF q = p THEN mine[p] \cup {Current(p)} ELSE mine[q]
    BY <1>0, <2>1 DEF PollType
  <2>3. \A q \in Polls : q # p => Current(p) \notin mine[q]
    BY <2>1 DEF WaitsFor
  <2>4. \A j \in JobsOf(Current(p)) : ~Indexed(j)
    BY <2>1 DEF Conflicts
  <2>5. \A j \in Jobs : Indexed(j)' <=> Indexed(j)
    BY <2>1 DEF Indexed, Unforced
  <2>6. \A q \in Polls : \A a \in mine'[q] : \A j \in Jobs : artifactOf'[j] = a => ~Indexed(j)'
    BY <2>1, <2>2, <2>4, <2>5 DEF IndexInv, JobsOf
  <2>7. \A q, r \in Polls : q # r => mine'[q] \cap mine'[r] = {}
    BY <2>2, <2>3 DEF IndexInv
  <2> QED
    BY <2>6, <2>7 DEF IndexInv, JobsOf
<1>4. ASSUME NEW p \in Polls, Reads(p), UNCHANGED mine \/ EndTransaction(p),
             forced \subseteq forced'
      PROVE  IndexInv'
  <2>1. \A q \in Polls : mine'[q] \subseteq mine[q]
    BY <1>0, <1>4 DEF EndTransaction, PollType
  <2>2. \A j \in Jobs : Indexed(j)' => Indexed(j)
    BY <1>4 DEF Reads, queueVars, jobVars, Indexed, Unforced
  <2> QED
    BY <1>4, <2>1, <2>2, IndexFrame DEF Reads, jobVars
<1>5. ASSUME (\E w \in Workers : WorkerStep(w)) \/ (\E j \in Jobs : Clock(j)) PROVE IndexInv'
  <2>1. UNCHANGED <<mine, forced, artifactOf, stagedBy>>
    BY <1>5, WorkerIsQueueStep DEF pollVars, jobVars
  <2>2. ASSUME NEW q \in Polls, NEW a \in mine'[q], NEW j \in Jobs, artifactOf'[j] = a, Indexed(j)'
        PROVE  FALSE
    <3>1. ~Indexed(j) /\ Unforced(j) /\ ~Pending(status[j]) /\ Pending(status'[j])
      BY <2>1, <2>2 DEF IndexInv, JobsOf, Indexed, Unforced
    <3>2. PICK w \in Workers :
            /\ WorkerRuns(w) /\ wpc[w] = "mark_failure" /\ ~Queue!Exhausted(w) /\ job[w] = j
      BY <1>0, <1>5, <3>1, NewlyPending
    <3>3. ReentersIndex(w)
      BY <3>1, <3>2 DEF ReentersIndex
    <3>4. ~IndexAwaited(w)
      BY <3>2, <3>3 DEF WorkerRuns
    <3> QED
      BY <2>1, <2>2, <3>2, <3>4 DEF IndexAwaited
  <2> QED
    BY <2>1, <2>2 DEF IndexInv, JobsOf
<1>6. ASSUME UNCHANGED <<status, mine, forced, artifactOf, stagedBy>> PROVE IndexInv'
  BY <1>6, IndexFrame DEF Indexed, Unforced
<1>7. ASSUME NEW w \in Workers, RetryCollides(w) PROVE IndexInv'
  BY <1>6, <1>7 DEF RetryCollides, pollVars, jobVars
<1>8. CASE UNCHANGED vars
  BY <1>6, <1>8 DEF vars, queueVars, pollVars, jobVars
<1> QED
  BY <1>1, <1>2, <1>3, <1>4, <1>5, <1>7, <1>8, StepKinds, PollStepKinds

LEMMA InitIndexInv == Init => IndexInv
BY DEF Init, IndexInv

-----------------------------------------------------------------------------
(* The staged files *)

LEMMA InitFileInv == Init => FileInv
<1> SUFFICES ASSUME Init PROVE FileInv
  OBVIOUS
<1>1. \A j \in Jobs : ~(j <= submitted) /\ stagedBy[j] = NoArtifact
  BY DEF Init, Queue!Init, Jobs
<1> QED
  BY <1>1, NoArtifactAssumption DEF Init, FileInv

\* Steps that make no job, delete no file and insert nothing.
LEMMA FileFrame ==
  ASSUME FileInv, unlinked' \subseteq unlinked, UNCHANGED <<submitted, artifactOf, stagedBy>>,
         \A p \in Polls : mine'[p] \subseteq mine[p],
         \A p \in Polls \ forced' : ppc'[p] \notin {"done", "failed"} =>
           p \notin forced /\ ppc[p] \notin {"done", "failed"}
  PROVE  FileInv'
BY DEF FileInv, HasFile, StagedFile

LEMMA NextFileInv == TypeInv /\ IndexInv /\ FileInv /\ [Next]_vars => FileInv'
<1> SUFFICES ASSUME TypeInv, IndexInv, FileInv, [Next]_vars PROVE FileInv'
  OBVIOUS
<1>0. QueueInv /\ PollType /\ PollInv /\ JobInv /\ \A j \in Jobs : j \in Nat
  BY DEF TypeInv, Jobs
<1>1. submitted \in Nat
  <2>1. submitted \in 0..NumJobs
    BY <1>0 DEF QueueInv, QueueProofs!TypeInv, QueueProofs!TypeOK
  <2> QED
    BY <2>1
<1>2. \A j \in Jobs : j <= submitted' /\ ~New(j) => j <= submitted
  BY <1>0, <1>1 DEF New
<1>3. ASSUME NEW p \in Polls, Commit(p) \/ CommitUnacknowledged(p) PROVE FileInv'
  <2>1. /\ \A j \in Jobs : ~New(j) => Same(j)
        /\ \A j \in Jobs : New(j) => artifactOf'[j] \in mine[p] /\ stagedBy'[j] = p
        /\ mine'[p] = {} /\ \A q \in Polls \ {p} : mine'[q] = mine[q]
        /\ UNCHANGED <<unlinked, forced>>
    BY <1>3, CommitStep
  <2>2. \A j \in Jobs : j <= submitted' => HasFile(j)'
    BY <1>2, <2>1 DEF FileInv, HasFile, StagedFile, Same
  <2>3. \A q \in Polls : \A a \in mine'[q] : StagedFile(q, a) \notin unlinked'
    BY <2>1 DEF FileInv
  <2>4. ppc'[p] \in {"done", "failed"} /\ \A q \in Polls \ {p} : ppc'[q] = ppc[q]
    BY <1>0, <1>3 DEF Commit, CommitUnacknowledged, Raise, Goto, PollType
  <2>5. \A q \in Polls \ forced' : ppc'[q] \notin {"done", "failed"} => \A j \in Jobs : stagedBy'[j] # q
    BY <2>1, <2>4 DEF FileInv, Same
  <2> QED
    BY <2>2, <2>3, <2>5 DEF FileInv, StagedFile
<1>4. ASSUME NEW p \in Polls, InsertForced(p) PROVE FileInv'
  <2>1. /\ p \in forced
        /\ \A j \in Jobs : ~New(j) => Same(j)
        /\ \A j \in Jobs : New(j) => artifactOf'[j] = Current(p) /\ stagedBy'[j] = p
        /\ UNCHANGED <<mine, forced>> /\ unlinked' = unlinked \ {StagedFile(p, Current(p))}
    BY <1>4, ForcedStep
  <2>2. \A j \in Jobs : j <= submitted' => HasFile(j)'
    BY <1>2, <2>1 DEF FileInv, HasFile, StagedFile, Same
  <2>3. \A q \in Polls : \A a \in mine'[q] : StagedFile(q, a) \notin unlinked'
    BY <2>1 DEF FileInv
  <2>4. \A q \in Polls \ {p} : ppc'[q] = ppc[q]
    BY <1>0, <1>4 DEF InsertForced, Continue, Goto, PollType
  <2>5. \A q \in Polls \ forced' : ppc'[q] \notin {"done", "failed"} => \A j \in Jobs : stagedBy'[j] # q
    BY <2>1, <2>4 DEF FileInv, Same
  <2> QED
    BY <2>2, <2>3, <2>5 DEF FileInv, StagedFile
<1>5. ASSUME NEW p \in Polls, Insert(p), Reads(p) PROVE FileInv'
  <2>1. /\ mine' = [mine EXCEPT ![p] = @ \cup {Current(p)}]
        /\ unlinked' = unlinked \ {StagedFile(p, Current(p))}
        /\ ppc[p] = "insert"
        /\ UNCHANGED <<forced, submitted, stagedBy, artifactOf>>
    BY <1>5 DEF Insert, Reads, queueVars, jobVars
  <2>2. \A q \in Polls : mine'[q] = IF q = p THEN mine[p] \cup {Current(p)} ELSE mine[q]
    BY <1>0, <2>1 DEF PollType
  <2>3. \A q \in Polls \ {p} : ppc'[q] = ppc[q]
    BY <1>0, <1>5 DEF Insert, Continue, Goto, PollType
  <2>4. \A j \in Jobs : j <= submitted' => HasFile(j)'
    BY <2>1 DEF FileInv, HasFile, StagedFile
  <2>5. \A q \in Polls : \A a \in mine'[q] : StagedFile(q, a) \notin unlinked'
    <3> SUFFICES ASSUME NEW q \in Polls, NEW a \in mine'[q] PROVE StagedFile(q, a) \notin unlinked'
      OBVIOUS
    <3>1. StagedFile(q, a) \notin unlinked \/ (q = p /\ a = Current(p))
      BY <2>2 DEF FileInv
    <3> QED
      BY <2>1, <3>1
  <2>6. \A q \in Polls \ forced' : ppc'[q] \notin {"done", "failed"} => \A j \in Jobs : stagedBy'[j] # q
    BY <2>1, <2>3 DEF FileInv
  <2> QED
    BY <2>4, <2>5, <2>6 DEF FileInv, StagedFile
<1>6. ASSUME NEW p \in Polls, PollStep(p), InsertConflicts(p), Reads(p) PROVE FileInv'
  <2>1. /\ unlinked' = unlinked \cup {StagedFile(p, Current(p))}
        /\ ppc[p] = "insert" /\ p \notin forced /\ Conflicts(p)
        /\ UNCHANGED <<forced, mine, submitted, stagedBy, artifactOf>>
    BY <1>6 DEF InsertConflicts, Conflicts, Superfluous, Reads, queueVars, jobVars
  <2>2. Current(p) \notin mine[p]
    BY <2>1 DEF Conflicts, IndexInv
  <2>3. \A j \in Jobs : stagedBy[j] # p
    BY <2>1 DEF FileInv
  <2>4. \A q \in Polls \ {p} : ppc'[q] = ppc[q]
    BY <1>0, <1>6 DEF InsertConflicts, Continue, Goto, PollType
  <2>5. \A j \in Jobs : j <= submitted' => HasFile(j)'
    BY <2>1, <2>3 DEF FileInv, HasFile, StagedFile
  <2>6. \A q \in Polls : \A a \in mine'[q] : StagedFile(q, a) \notin unlinked'
    <3> SUFFICES ASSUME NEW q \in Polls, NEW a \in mine[q] PROVE StagedFile(q, a) \notin unlinked'
      BY <2>1
    <3>1. StagedFile(q, a) \notin unlinked
      BY DEF FileInv
    <3>2. StagedFile(q, a) # StagedFile(p, Current(p))
      BY <2>2 DEF StagedFile
    <3> QED
      BY <2>1, <3>1, <3>2
  <2>7. \A q \in Polls \ forced' : ppc'[q] \notin {"done", "failed"} => \A j \in Jobs : stagedBy'[j] # q
    BY <2>1, <2>4 DEF FileInv
  <2> QED
    BY <2>5, <2>6, <2>7 DEF FileInv, StagedFile
<1>7. ASSUME NEW p \in Polls, PollStep(p), Reads(p), UNCHANGED mine \/ EndTransaction(p),
             forced \subseteq forced', forced' # forced => ppc[p] = "idle", UNCHANGED unlinked
      PROVE  FileInv'
  <2>1. Kept(p)
    BY <1>0, <1>7, PollStepKeeps
  <2>2. \A q \in Polls : mine'[q] \subseteq mine[q]
    BY <1>0, <1>7 DEF EndTransaction, PollType
  <2>3. ppc[p] \notin {"done", "failed"}
    BY <1>0, <1>7, CurrentIs
       DEF PollStep, PollRuns, PollSuffers, List, Fetch, LookUpProcessed, LookUpPending, Insert,
           InsertConflicts, InsertForced, Commit, CommitJobs, DeadlockDetected, Deadlocked, WaitsFor,
           MessageFails, AttachmentSkipped, CommitUnacknowledged, Fail
  <2>4. \A q \in Polls \ {p} : ppc'[q] = ppc[q]
    BY <2>1 DEF Kept
  <2>5. \A q \in Polls \ forced' : ppc'[q] \notin {"done", "failed"} =>
           q \notin forced /\ ppc[q] \notin {"done", "failed"}
    BY <1>7, <2>3, <2>4
  <2> QED
    BY <1>7, <2>2, <2>5, FileFrame DEF Reads, queueVars, jobVars
<1>8. ASSUME UNCHANGED <<submitted, ppc, forced, mine, unlinked, artifactOf, stagedBy>> PROVE FileInv'
  BY <1>8, FileFrame
<1>9. CASE (\E w \in Workers : WorkerStep(w)) \/ (\E j \in Jobs : Clock(j))
  BY <1>8, <1>9, WorkerIsQueueStep DEF pollVars, jobVars
<1>10. ASSUME NEW w \in Workers, RetryCollides(w) PROVE FileInv'
  BY <1>8, <1>10 DEF RetryCollides, pollVars, jobVars
<1>11. CASE UNCHANGED vars
  BY <1>8, <1>11 DEF vars, queueVars, pollVars, jobVars
<1> QED
  BY <1>3, <1>4, <1>5, <1>6, <1>7, <1>9, <1>10, <1>11, StepKinds, PollStepKinds

\* A job that the worker may still claim has its staged file, whatever conflicts
\* the other polls met: a poll deletes only what it staged itself and did not insert.
THEOREM PendingFilesExist == Spec => []PendingHasFile
<1>1. TypeInv /\ FileInv => PendingHasFile
  <2> SUFFICES ASSUME TypeInv, FileInv, NEW j \in Jobs, Pending(status[j]) PROVE HasFile(j)
    BY DEF PendingHasFile
  <2>1. ~(j > submitted)
    BY DEF TypeInv, QueueInv, QueueProofs!TypeInv, QueueProofs!ExistIffSubmitted, Pending, Jobs,
       QueueProofs!Jobs
  <2>2. submitted \in 0..NumJobs /\ j \in Nat
    BY DEF TypeInv, QueueInv, QueueProofs!TypeInv, QueueProofs!TypeOK, Jobs
  <2>3. j <= submitted
    BY <2>1, <2>2
  <2> QED
    BY <2>3 DEF FileInv
<1> QED
  BY InitTypeInv, NextTypeInv, InitIndexInv, NextIndexInv, InitFileInv, NextFileInv, <1>1, PTL DEF Spec

-----------------------------------------------------------------------------
(* Second jobs *)

Closed(j) == QueueProofs!Closed(j)
OneOwner == QueueProofs!OwnerInv

HarmlessPair(j, k) ==
  j < k /\ Unforced(j) /\ Unforced(k) /\ artifactOf[j] = artifactOf[k] => Closed(j)

LEMMA HarmlessIs ==
  HarmlessInv <=>
    /\ \A j, k \in Jobs : HarmlessPair(j, k)
    /\ \A p \in Polls : \A a \in mine[p] : \A j \in Jobs : artifactOf[j] = a /\ Unforced(j) => Closed(j)
BY DEF HarmlessInv, SecondJobIsHarmless, HarmlessPair, Closed, QueueProofs!Closed, JobsOf

\* What the steps of the queue do to a closed job, when none outlasts the timeout.
LEMMA ClosedStays ==
  ASSUME Slow = {}, TypeInv, OneOwner, [Next]_vars, NEW j \in Jobs, Closed(j)
  PROVE  Closed(j)'
<1>0. QueueInv /\ PollType /\ PollInv
  BY DEF TypeInv
<1>1. ASSUME NEW p \in Polls, Commit(p) \/ CommitUnacknowledged(p) PROVE Closed(j)'
  BY <1>1, CommitStep DEF Closed, QueueProofs!Closed, Same
<1>2. ASSUME NEW p \in Polls, InsertForced(p) PROVE Closed(j)'
  BY <1>2, ForcedStep DEF Closed, QueueProofs!Closed, Same
<1>3. ASSUME UNCHANGED <<status, ingested>> PROVE Closed(j)'
  BY <1>3 DEF Closed, QueueProofs!Closed
<1>4. ASSUME NEW p \in Polls, Reads(p) PROVE Closed(j)'
  BY <1>3, <1>4 DEF Reads, queueVars
<1>5. CASE (\E w \in Workers : WorkerStep(w)) \/ (\E k \in Jobs : Clock(k))
  <2>1. [QueueProofs!Next]_(QueueProofs!vars)
    BY <1>5, WorkerIsQueueStep, SameNext
  <2> QED
    BY <1>0, <2>1, QueueConstants, QueueProofs!ClosedStays
       DEF Closed, OneOwner, QueueInv, Jobs, QueueProofs!Jobs
<1>6. ASSUME NEW w \in Workers, RetryCollides(w) PROVE Closed(j)'
  BY <1>3, <1>6 DEF RetryCollides
<1>7. CASE UNCHANGED vars
  BY <1>3, <1>7 DEF vars, queueVars
<1> QED
  BY <1>1, <1>2, <1>4, <1>5, <1>6, <1>7, StepKinds, PollStepKinds

LEMMA NextOneOwner ==
  ASSUME Slow = {}
  PROVE  TypeInv /\ OneOwner /\ [Next]_vars => OneOwner'
<1> SUFFICES ASSUME TypeInv, OneOwner, [Next]_vars PROVE OneOwner'
  OBVIOUS
<1>0. QueueInv /\ PollType /\ PollInv
  BY DEF TypeInv
<1>1. ASSUME [Queue!Next]_(Queue!vars) PROVE OneOwner'
  BY <1>0, <1>1, SameNext, QueueConstants, QueueProofs!NextOwnerInv DEF OneOwner, QueueInv
<1>2. ASSUME NEW p \in Polls, PollStep(p) PROVE OneOwner'
  <2>1. CASE UNCHANGED <<queueVars, jobVars>>
    BY <1>1, <2>1 DEF queueVars, Queue!vars, Queue!columns
  <2>2. ASSUME NEW rows \in Seq(Artifacts), Enqueue(p, rows) PROVE OneOwner'
    BY <1>0, <2>2, EnqueueKeepsQueue DEF OneOwner
  <2> QED
    BY <1>0, <1>2, <2>1, <2>2, PollStepOnJobs
<1>3. CASE (\E w \in Workers : WorkerStep(w)) \/ (\E j \in Jobs : Clock(j))
  BY <1>1, <1>3, WorkerIsQueueStep
<1>4. ASSUME NEW w \in Workers, RetryCollides(w) PROVE OneOwner'
  BY <1>0, <1>4, CollisionKeepsQueue DEF OneOwner
<1>5. CASE UNCHANGED vars
  BY <1>1, <1>5 DEF vars, queueVars, Queue!vars, Queue!columns
<1> QED
  BY <1>2, <1>3, <1>4, <1>5, StepKinds

LEMMA InitHarmlessInv == Init => OneOwner /\ HarmlessInv
<1> SUFFICES ASSUME Init PROVE OneOwner /\ HarmlessInv
  OBVIOUS
<1>1. OneOwner
  BY SameInit, QueueConstants, QueueProofs!InitOwnerInv DEF Init, OneOwner
<1>2. \A j \in Jobs : ~Unforced(j)
  BY NoArtifactAssumption DEF Init, Unforced
<1>3. \A p \in Polls : mine[p] = {}
  BY DEF Init
<1> QED
  BY <1>1, <1>2, <1>3, HarmlessIs DEF HarmlessPair

\* Steps that add nothing to the jobs and to what is inserted.
LEMMA HarmlessFrame ==
  ASSUME HarmlessInv, \A j \in Jobs : Closed(j) => Closed(j)', UNCHANGED <<artifactOf, stagedBy>>,
         forced \subseteq forced', \A p \in Polls : mine'[p] \subseteq mine[p]
  PROVE  HarmlessInv'
<1>1. \A j \in Jobs : Unforced(j)' => Unforced(j)
  BY DEF Unforced
<1>2. \A j, k \in Jobs : HarmlessPair(j, k)'
  BY <1>1, HarmlessIs DEF HarmlessPair
<1>3. \A p \in Polls : \A a \in mine'[p] : \A j \in Jobs :
        artifactOf'[j] = a /\ Unforced(j)' => Closed(j)'
  BY <1>1, HarmlessIs
<1> QED
  BY <1>2, <1>3 DEF HarmlessInv, SecondJobIsHarmless, HarmlessPair, Closed, QueueProofs!Closed, JobsOf

LEMMA NextHarmlessInv ==
  ASSUME Slow = {}
  PROVE  TypeInv /\ IndexInv /\ OneOwner /\ HarmlessInv /\ [Next]_vars => HarmlessInv'
<1> SUFFICES ASSUME TypeInv, IndexInv, OneOwner, HarmlessInv, [Next]_vars PROVE HarmlessInv'
  OBVIOUS
<1>0. QueueInv /\ PollType /\ PollInv /\ JobInv /\ \A j \in Jobs : Closed(j) => Closed(j)'
  BY ClosedStays DEF TypeInv
<1>1. ASSUME \A j, k \in Jobs : HarmlessPair(j, k)',
             \A p \in Polls : \A a \in mine'[p] : \A j \in Jobs :
               artifactOf'[j] = a /\ Unforced(j)' => Closed(j)'
      PROVE  HarmlessInv'
  BY <1>1 DEF HarmlessInv, SecondJobIsHarmless, HarmlessPair, Closed, QueueProofs!Closed, JobsOf
<1>2. ASSUME NEW p \in Polls, Commit(p) \/ CommitUnacknowledged(p) PROVE HarmlessInv'
  <2>1. /\ \A j \in Jobs : ~New(j) => Same(j)
        /\ \A j \in Jobs : New(j) => artifactOf'[j] \in mine[p] /\ stagedBy'[j] = p
        /\ \A j, k \in Jobs : New(j) /\ New(k) /\ artifactOf'[j] = artifactOf'[k] => j = k
        /\ \A j, k \in Jobs : New(j) /\ j < k /\ ~New(k) => k > submitted'
        /\ mine'[p] = {} /\ \A q \in Polls \ {p} : mine'[q] = mine[q]
        /\ forced' = forced
    BY <1>2, CommitStep
  <2>2. TypeInv'
    BY NextTypeInv
  <2>3. \A j \in Jobs : j > submitted' => ~Unforced(j)'
    BY <2>2, NoArtifactAssumption DEF TypeInv, JobInv, Unforced
  <2>4. \A j \in Jobs : ~New(j) /\ Unforced(j)' => Unforced(j)
    BY <2>1 DEF Same, Unforced
  <2>5. ASSUME NEW j \in Jobs, NEW k \in Jobs, j < k, Unforced(j)', Unforced(k)',
               artifactOf'[j] = artifactOf'[k]
        PROVE  Closed(j)'
    <3>0. ~(k < j) /\ j # k
      BY <2>5 DEF Jobs
    <3>1. ~New(j)
      BY <2>1, <2>3, <2>5, <3>0
    <3>2. Unforced(j) /\ Same(j)
      BY <2>1, <2>4, <2>5, <3>1
    <3>3. CASE New(k)
      BY <1>0, <2>1, <2>5, <3>2, <3>3, HarmlessIs DEF Same
    <3>4. CASE ~New(k)
      BY <1>0, <2>1, <2>4, <2>5, <3>2, <3>4, HarmlessIs DEF Same, HarmlessPair
    <3> QED
      BY <3>3, <3>4
  <2>6. ASSUME NEW q \in Polls, NEW a \in mine'[q], NEW j \in Jobs, artifactOf'[j] = a, Unforced(j)'
        PROVE  Closed(j)'
    <3>1. q # p /\ a \in mine[q] /\ a \notin mine[p]
      BY <2>1, <2>6 DEF IndexInv
    <3>2. ~New(j)
      BY <2>1, <2>6, <3>1
    <3> QED
      BY <1>0, <2>1, <2>4, <2>6, <3>1, <3>2, HarmlessIs DEF Same
  <2> QED
    BY <1>1, <2>5, <2>6 DEF HarmlessPair
<1>3. ASSUME NEW p \in Polls, InsertForced(p) PROVE HarmlessInv'
  <2>1. /\ p \in forced
        /\ \A j \in Jobs : ~New(j) => Same(j)
        /\ \A j \in Jobs : New(j) => stagedBy'[j] = p
        /\ UNCHANGED <<mine, forced>>
    BY <1>3, ForcedStep
  <2>2. \A j \in Jobs : Unforced(j)' => Unforced(j) /\ Same(j)
    BY <2>1 DEF Same, Unforced
  <2>3. \A j, k \in Jobs : HarmlessPair(j, k)'
    BY <1>0, <2>2, HarmlessIs DEF HarmlessPair, Same
  <2>4. \A q \in Polls : \A a \in mine'[q] : \A j \in Jobs :
          artifactOf'[j] = a /\ Unforced(j)' => Closed(j)'
    BY <1>0, <2>1, <2>2, HarmlessIs DEF Same
  <2> QED
    BY <1>1, <2>3, <2>4
<1>4. ASSUME NEW p \in Polls, Insert(p), Reads(p) PROVE HarmlessInv'
  <2>1. /\ mine' = [mine EXCEPT ![p] = @ \cup {Current(p)}]
        /\ ~Conflicts(p) /\ p \notin forced
        /\ UNCHANGED <<forced, stagedBy, artifactOf>>
    BY <1>4 DEF Insert, Reads, queueVars, jobVars
  <2>2. \A q \in Polls : mine'[q] = IF q = p THEN mine[p] \cup {Current(p)} ELSE mine[q]
    BY <1>0, <2>1 DEF PollType
  <2>3. ASSUME NEW j \in Jobs, artifactOf[j] = Current(p), Unforced(j)
        PROVE  Closed(j)
    <3>1. ~Pending(status[j])
      BY <2>1, <2>3 DEF Conflicts, Indexed, JobsOf
    <3>2. ~(j > submitted)
      BY <1>0, <2>3, NoArtifactAssumption DEF JobInv, Unforced
    <3>3. status[j] # "absent"
      BY <1>0, <3>2 DEF QueueInv, QueueProofs!TypeInv, QueueProofs!ExistIffSubmitted, Jobs, QueueProofs!Jobs
    <3>4. j \in QueueProofs!Jobs /\ status[j] \notin {"absent", "queued", "running"}
      BY <3>1, <3>3 DEF Pending, Jobs, QueueProofs!Jobs
    <3> QED
      BY <1>0, <3>4, QueueConstants, QueueProofs!NotPendingIsClosed DEF Closed, QueueInv
  <2>4. \A j \in Jobs : Unforced(j)' => Unforced(j)
    BY <2>1 DEF Unforced
  <2>5. \A j, k \in Jobs : HarmlessPair(j, k)'
    BY <1>0, <2>1, <2>4, HarmlessIs DEF HarmlessPair
  <2>6. \A q \in Polls : \A a \in mine'[q] : \A j \in Jobs :
          artifactOf'[j] = a /\ Unforced(j)' => Closed(j)'
    BY <1>0, <2>1, <2>2, <2>3, <2>4, HarmlessIs
  <2> QED
    BY <1>1, <2>5, <2>6
<1>5. ASSUME NEW p \in Polls, Reads(p), UNCHANGED mine \/ EndTransaction(p), forced \subseteq forced'
      PROVE  HarmlessInv'
  <2>1. \A q \in Polls : mine'[q] \subseteq mine[q]
    BY <1>0, <1>5 DEF EndTransaction, PollType
  <2> QED
    BY <1>0, <1>5, <2>1, HarmlessFrame DEF Reads, jobVars
<1>6. ASSUME UNCHANGED <<forced, mine, artifactOf, stagedBy>> PROVE HarmlessInv'
  BY <1>0, <1>6, HarmlessFrame
<1>7. CASE (\E w \in Workers : WorkerStep(w)) \/ (\E j \in Jobs : Clock(j))
  BY <1>6, <1>7, WorkerIsQueueStep DEF pollVars, jobVars
<1>8. ASSUME NEW w \in Workers, RetryCollides(w) PROVE HarmlessInv'
  BY <1>6, <1>8 DEF RetryCollides, pollVars, jobVars
<1>9. CASE UNCHANGED vars
  BY <1>6, <1>9 DEF vars, pollVars, jobVars
<1> QED
  BY <1>2, <1>3, <1>4, <1>5, <1>7, <1>8, <1>9, StepKinds, PollStepKinds

\* A second job without --force is made for an artifact only when the first has been
\* ingested or has failed, as long as no job in progress outlasts the stale timeout:
\* the lookups of a poll may miss a job, the unique index does not.
THEOREM SecondJobsAreHarmless ==
  ASSUME Slow = {}
  PROVE  Spec => []SecondJobIsHarmless
<1>1. HarmlessInv => SecondJobIsHarmless
  BY DEF HarmlessInv
<1>2. TypeInv /\ OneOwner /\ [Next]_vars => OneOwner'
  BY NextOneOwner
<1>3. TypeInv /\ IndexInv /\ OneOwner /\ HarmlessInv /\ [Next]_vars => HarmlessInv'
  BY NextHarmlessInv
<1> QED
  BY InitTypeInv, NextTypeInv, InitIndexInv, NextIndexInv, InitHarmlessInv, <1>1, <1>2, <1>3, PTL DEF Spec

-----------------------------------------------------------------------------
(* How far a poll is in its list *)

\* No artifact is listed twice.
LEMMA ListedOnce ==
  ASSUME NEW l \in Seq(Messages), IsInjective(l)
  PROVE  IsInjective(ArtifactsIn(l))
<1> DEFINE L == ArtifactsIn(l)
<1>1. PICK off : LaidOut(L, Bundles(l), Len(l), off)
  BY ArtifactsInType
<1>2. L \in Seq(Artifacts) /\ \A i \in 1..Len(l) : Bundles(l)[i] = Contents[l[i]]
  BY ArtifactsInType, BundlesType
<1>3. \A i \in 1..Len(l) : l[i] \in Messages
  OBVIOUS
<1> HIDE DEF L
<1>4. ASSUME NEW k \in 1..Len(L)
      PROVE  \E i \in 1..Len(l) : \E t \in DOMAIN Contents[l[i]] :
               k = off[i] + t /\ L[k] = Contents[l[i]][t]
  <2>1. PICK i \in 1..Len(l) : \E t \in 1..Len(Bundles(l)[i]) : k = off[i] + t
    BY <1>1 DEF LaidOut
  <2>2. PICK t \in 1..Len(Bundles(l)[i]) : k = off[i] + t
    BY <2>1
  <2>3. L[k] = Bundles(l)[i][t]
    BY <1>1, <2>2 DEF LaidOut
  <2>4. Contents[l[i]] \in Seq(ToSet(Contents[l[i]]))
    BY <1>3, ContentsAssumption
  <2>5. DOMAIN Contents[l[i]] = 1..Len(Contents[l[i]])
    BY <2>4, LenProperties
  <2> QED
    BY <1>2, <2>2, <2>3, <2>5
<1>5. ASSUME NEW j \in 1..Len(L), NEW k \in 1..Len(L), L[j] = L[k]
      PROVE  j = k
  <2>11. PICK i \in 1..Len(l) : \E t \in DOMAIN Contents[l[i]] : j = off[i] + t /\ L[j] = Contents[l[i]][t]
    BY <1>4
  <2>1. PICK t \in DOMAIN Contents[l[i]] : j = off[i] + t /\ L[j] = Contents[l[i]][t]
    BY <2>11
  <2>22. PICK h \in 1..Len(l) : \E u \in DOMAIN Contents[l[h]] : k = off[h] + u /\ L[k] = Contents[l[h]][u]
    BY <1>4
  <2>2. PICK u \in DOMAIN Contents[l[h]] : k = off[h] + u /\ L[k] = Contents[l[h]][u]
    BY <2>22
  <2>3. L[j] \in ToSet(Contents[l[i]]) /\ L[j] \in ToSet(Contents[l[h]])
    BY <1>5, <2>1, <2>2 DEF ToSet
  <2>4. l[i] = l[h]
    BY <1>3, <2>3, ContentsAssumption
  <2>5. i = h
    BY <2>4 DEF IsInjective
  <2>6. t = u
    BY <1>3, <1>5, <2>1, <2>2, <2>5, ContentsAssumption DEF IsInjective
  <2> QED
    BY <2>1, <2>2, <2>5, <2>6
<1>6. DOMAIN L = 1..Len(L)
  BY <1>2
<1> QED
  BY <1>5, <1>6 DEF IsInjective, L

\* A body in the list is followed by the attachments of its message.
LEMMA MessageLies ==
  ASSUME NEW l \in Seq(Messages), NEW k \in 1..Len(ArtifactsIn(l)), IsBody(ArtifactsIn(l)[k])
  PROVE  LET C == Contents[MessageOf(ArtifactsIn(l)[k])] IN
         /\ Len(C) \in Nat \ {0} /\ k + Len(C) - 1 <= Len(ArtifactsIn(l))
         /\ \A t \in 1..Len(C) : ArtifactsIn(l)[k + t - 1] = C[t]
<1> DEFINE L == ArtifactsIn(l)
<1>1. PICK off : LaidOut(L, Bundles(l), Len(l), off)
  BY ArtifactsInType
<1>2. L \in Seq(Artifacts) /\ \A i \in 1..Len(l) : Bundles(l)[i] = Contents[l[i]]
  BY ArtifactsInType, BundlesType
<1>3. k \in 1..Len(L) /\ IsBody(L[k]) /\ Len(L) \in Nat
  BY <1>2
<1> HIDE DEF L
<1>31. PICK i \in 1..Len(l) : \E t \in 1..Len(Bundles(l)[i]) : k = off[i] + t
  BY <1>1, <1>3 DEF LaidOut
<1>32. PICK t \in 1..Len(Bundles(l)[i]) : k = off[i] + t
  BY <1>31
<1>4. k = off[i] + t /\ L[k] = Bundles(l)[i][t]
  BY <1>1, <1>32 DEF LaidOut
<1> DEFINE m == l[i]
<1> DEFINE C == Contents[m]
<1>5. m \in Messages /\ Bundles(l)[i] = C
  BY <1>2
<1>6. C \in Seq(ToSet(C)) /\ C # <<>> /\ IsInjective(C)
  BY <1>5, ContentsAssumption
<1>7. Len(C) \in Nat \ {0} /\ DOMAIN C = 1..Len(C) /\ Head(C) = C[1]
  <2> DEFINE X == ToSet(C)
  <2>1. C \in Seq(X) /\ C # <<>>
    BY <1>6
  <2> HIDE DEF X, C
  <2> QED
    BY <2>1
<1> HIDE DEF m
<1>8. MessageOf(L[k]) = m
  <2>1. L[k] \in ToSet(C)
    BY <1>4, <1>5, <1>7 DEF ToSet
  <2> QED
    BY <1>5, <2>1, MessageOfIs
<1>9. t = 1
  <2>1. C[t] = C[1]
    BY <1>3, <1>4, <1>5, <1>7, <1>8 DEF IsBody
  <2>2. t \in DOMAIN C /\ 1 \in DOMAIN C
    BY <1>4, <1>5, <1>7
  <2> QED
    BY <1>6, <2>1, <2>2 DEF IsInjective
<1>10. \A u \in 1..Len(C) : off[i] + u \in 1..Len(L) /\ L[off[i] + u] = C[u]
  BY <1>1, <1>5 DEF LaidOut
<1>11. off[i] \in Nat /\ k = off[i] + 1
  BY <1>1, <1>4, <1>9 DEF LaidOut
<1>12. \A u \in 1..Len(C) : k + u - 1 = off[i] + u
  BY <1>7, <1>11
<1>13. Len(C) \in 1..Len(C) /\ k + Len(C) - 1 = off[i] + Len(C)
  BY <1>7, <1>11
<1>14. off[i] + Len(C) <= Len(L)
  BY <1>3, <1>10, <1>13
<1>15. k + Len(C) - 1 <= Len(L) /\ \A u \in 1..Len(C) : L[k + u - 1] = C[u]
  BY <1>10, <1>12, <1>13, <1>14
<1> QED
  BY <1>7, <1>8, <1>15 DEF L, C

\* What is left after the first k of a suffix.
LEMMA SuffixOfSuffix ==
  ASSUME NEW X, NEW s \in Seq(X), NEW n \in Nat, NEW k \in Nat, n + k <= Len(s)
  PROVE  SubSeq(SubSeq(s, n + 1, Len(s)), k + 1, Len(SubSeq(s, n + 1, Len(s)))) = SubSeq(s, n + k + 1, Len(s))
<1> DEFINE r == SubSeq(s, n + 1, Len(s))
<1>0. Len(s) \in Nat /\ \A i \in 1..Len(s) : s[i] \in X
  OBVIOUS
<1>1. \A i \in n + 1..Len(s) : i \in 1..Len(s)
  BY <1>0
<1>2. r \in Seq(X) /\ Len(r) = Len(s) - n /\ \A i \in 1..Len(s) - n : r[i] = s[n + i]
  <2>1. /\ r \in Seq(X) /\ Len(r) = IF n + 1 <= Len(s) THEN Len(s) - (n + 1) + 1 ELSE 0
        /\ \A i \in 1..Len(s) - (n + 1) + 1 : r[i] = s[(n + 1) + i - 1]
    BY <1>0, <1>1, SubSeqProperties
  <2>2. Len(s) - (n + 1) + 1 = Len(s) - n
    BY <1>0
  <2>3. Len(r) = Len(s) - n
    BY <1>0, <2>1
  <2>4. ASSUME NEW i \in 1..Len(s) - n PROVE r[i] = s[n + i]
    <3>1. (n + 1) + i - 1 = n + i
      BY <1>0
    <3> QED
      BY <2>1, <2>2, <3>1
  <2> QED
    BY <2>1, <2>3, <2>4
<1> DEFINE u == SubSeq(r, k + 1, Len(r))
<1> DEFINE v == SubSeq(s, n + k + 1, Len(s))
<1> HIDE DEF r
<1>3. /\ u \in Seq(X) /\ Len(u) = Len(s) - (n + k)
      /\ \A i \in 1..Len(s) - (n + k) : u[i] = s[n + k + i]
  <2>1. Len(r) \in Int /\ \A i \in k + 1..Len(r) : r[i] \in X
    BY <1>0, <1>2
  <2>2. /\ u \in Seq(X) /\ Len(u) = IF k + 1 <= Len(r) THEN Len(r) - (k + 1) + 1 ELSE 0
        /\ \A i \in 1..Len(r) - (k + 1) + 1 : u[i] = r[(k + 1) + i - 1]
    BY <2>1, SubSeqProperties
  <2>3. \A i \in 1..Len(s) - (n + k) : (k + 1) + i - 1 = k + i /\ k + i \in 1..Len(s) - n /\ n + (k + i) = n + k + i
    BY <1>0
  <2>4. Len(r) - (k + 1) + 1 = Len(s) - (n + k)
    BY <1>0, <1>2
  <2> QED
    BY <1>0, <1>2, <2>2, <2>3, <2>4
<1>4. /\ v \in Seq(X) /\ Len(v) = Len(s) - (n + k)
      /\ \A i \in 1..Len(s) - (n + k) : v[i] = s[n + k + i]
  <2>1. \A i \in n + k + 1..Len(s) : s[i] \in X
    BY <1>0
  <2>2. /\ v \in Seq(X) /\ Len(v) = IF n + k + 1 <= Len(s) THEN Len(s) - (n + k + 1) + 1 ELSE 0
        /\ \A i \in 1..Len(s) - (n + k + 1) + 1 : v[i] = s[(n + k + 1) + i - 1]
    BY <1>0, <2>1, SubSeqProperties
  <2>3. Len(s) - (n + k + 1) + 1 = Len(s) - (n + k)
    BY <1>0
  <2>4. Len(v) = Len(s) - (n + k)
    BY <1>0, <2>2
  <2>5. ASSUME NEW i \in 1..Len(s) - (n + k) PROVE v[i] = s[n + k + i]
    <3>1. (n + k + 1) + i - 1 = n + k + i
      BY <1>0
    <3> QED
      BY <2>2, <2>3, <3>1
  <2> QED
    BY <2>2, <2>4, <2>5
<1> HIDE DEF u, v
<1>5. Len(u) = Len(v) /\ \A i \in 1..Len(u) : u[i] = v[i]
  BY <1>3, <1>4
<1>6. u = v
  BY <1>3, <1>4, <1>5, SeqEqual
<1> QED
  BY <1>6 DEF r, u, v

\* A suffix that is not empty begins with the next one.
LEMMA SuffixIs ==
  ASSUME NEW X, NEW s \in Seq(X), NEW n \in 0..Len(s)
  PROVE  /\ SubSeq(s, n + 1, Len(s)) = <<>> <=> n = Len(s)
         /\ SubSeq(s, n + 1, Len(s)) # <<>> =>
              /\ Head(SubSeq(s, n + 1, Len(s))) = s[n + 1]
              /\ Tail(SubSeq(s, n + 1, Len(s))) = SubSeq(s, n + 2, Len(s))
<1> DEFINE r == SubSeq(s, n + 1, Len(s))
<1>0. Len(s) \in Nat /\ n \in Nat /\ n <= Len(s) /\ \A i \in n + 1..Len(s) : s[i] \in X
  OBVIOUS
<1>1. /\ r \in Seq(X) /\ Len(r) = IF n + 1 <= Len(s) THEN Len(s) - (n + 1) + 1 ELSE 0
      /\ \A i \in 1..Len(s) - (n + 1) + 1 : r[i] = s[(n + 1) + i - 1]
  BY <1>0, SubSeqProperties
<1>2. r = SubSeq(s, n + 1, Len(s))
  OBVIOUS
<1> HIDE DEF r
<1>3. r = <<>> <=> n = Len(s)
  BY <1>0, <1>1
<1>4. r # <<>> => Head(r) = s[n + 1]
  <2> SUFFICES ASSUME r # <<>> PROVE Head(r) = s[n + 1]
    OBVIOUS
  <2>1. Head(r) = r[1]
    BY <1>1
  <2>2. 1 \in 1..Len(s) - (n + 1) + 1 /\ (n + 1) + 1 - 1 = n + 1
    BY <1>0, <1>3
  <2> QED
    BY <1>1, <2>1, <2>2
<1>5. r # <<>> => Tail(r) = SubSeq(s, n + 2, Len(s))
  <2> SUFFICES ASSUME r # <<>> PROVE Tail(r) = SubSeq(s, n + 2, Len(s))
    OBVIOUS
  <2>1. n + 1 <= Len(s) /\ n + 1 + 1 = n + 2
    BY <1>0, <1>3
  <2>2. SubSeq(r, 1 + 1, Len(r)) = SubSeq(s, n + 1 + 1, Len(s))
    BY <1>0, <1>2, <2>1, SuffixOfSuffix
  <2>3. Tail(r) = SubSeq(r, 2, Len(r))
    BY <1>1, TailIsSubSeq
  <2> QED
    BY <2>1, <2>2, <2>3
<1> QED
  BY <1>3, <1>4, <1>5 DEF r

LEMMA OneFurther ==
  ASSUME NEW X, NEW all \in Seq(X), NEW rest, rest # <<>>, NEW counted, NEW inserted,
         GoneThrough(all, rest, counted, inserted),
         NEW now, \A x \in X : counted[x] # "none" => now[x] # "none", now[Head(rest)] # "none",
         NEW held, held \subseteq inserted \cup {Head(rest)}
  PROVE  GoneThrough(all, Tail(rest), now, held)
<1>1. PICK n \in 0..Len(all) :
        /\ rest = SubSeq(all, n + 1, Len(all))
        /\ \A k \in 1..n : counted[all[k]] # "none"
        /\ \A a \in inserted : \E k \in 1..n : all[k] = a
  BY DEF GoneThrough
<1>2. n # Len(all) /\ Head(rest) = all[n + 1] /\ Tail(rest) = SubSeq(all, n + 2, Len(all))
  BY <1>1, SuffixIs
<1>3. Len(all) \in Nat
  OBVIOUS
<1>4. n + 1 \in 0..Len(all) /\ (n + 1) + 1 = n + 2 /\ \A k \in 1..n + 1 : k \in 1..n \/ k = n + 1
  BY <1>2, <1>3
<1>5. \A k \in 1..n : all[k] \in X /\ k \in 1..n + 1
  BY <1>3
<1>6. \A k \in 1..n + 1 : now[all[k]] # "none"
  BY <1>1, <1>2, <1>4, <1>5
<1>7. \A a \in held : \E k \in 1..n + 1 : all[k] = a
  <2> SUFFICES ASSUME NEW a \in held PROVE \E k \in 1..n + 1 : all[k] = a
    OBVIOUS
  <2>1. CASE a \in inserted
    BY <1>1, <1>5, <2>1
  <2>2. CASE a = Head(rest)
    <3>1. n + 1 \in 1..n + 1
      BY <1>3
    <3> QED
      BY <1>2, <2>2, <3>1
  <2> QED
    BY <2>1, <2>2
<1> QED
  BY <1>2, <1>4, <1>6, <1>7 DEF GoneThrough

\* A message that is skipped takes its artifacts from the front.
LEMMA MessageFurther ==
  ASSUME NEW l \in Seq(Messages), NEW rest, rest # <<>>, IsBody(Head(rest)), NEW counted, NEW inserted,
         GoneThrough(ArtifactsIn(l), rest, counted, inserted),
         NEW now, \A a \in Artifacts : counted[a] # "none" => now[a] # "none",
         \A a \in Artifacts : MessageOf(a) = MessageOf(Head(rest)) => now[a] # "none",
         NEW held, held \subseteq inserted
  PROVE  GoneThrough(ArtifactsIn(l),
           SubSeq(rest, Len(Contents[MessageOf(Head(rest))]) + 1, Len(rest)), now, held)
<1> DEFINE L == ArtifactsIn(l)
<1> DEFINE C == Contents[MessageOf(Head(rest))]
<1>0. L \in Seq(Artifacts)
  BY ArtifactsInType
<1>1. PICK n \in 0..Len(L) :
        /\ rest = SubSeq(L, n + 1, Len(L))
        /\ \A k \in 1..n : counted[L[k]] # "none"
        /\ \A a \in inserted : \E k \in 1..n : L[k] = a
  BY DEF GoneThrough
<1>2. n # Len(L) /\ Head(rest) = L[n + 1] /\ Len(L) \in Nat /\ n \in Nat
  <2> HIDE DEF L
  <2> QED
    BY <1>0, <1>1, SuffixIs
<1>3. n + 1 \in 1..Len(L)
  BY <1>2
<1>4. /\ Len(C) \in Nat \ {0} /\ (n + 1) + Len(C) - 1 <= Len(L)
      /\ \A t \in 1..Len(C) : L[(n + 1) + t - 1] = C[t]
  <2>1. IsBody(L[n + 1]) /\ C = Contents[MessageOf(L[n + 1])]
    BY <1>2
  <2> HIDE DEF C
  <2> QED
    BY <1>3, <2>1, MessageLies
<1>5. Head(rest) \in Artifacts
  <2> HIDE DEF L
  <2> QED
    BY <1>0, <1>2, <1>3
<1>6. MessageOf(Head(rest)) \in Messages
  BY <1>5, MessageOfType
<1>7. DOMAIN C = 1..Len(C)
  <2>1. C \in Seq(ToSet(C))
    BY <1>6, ContentsAssumption
  <2> QED
    BY <2>1, LenProperties
<1>8. \A t \in 1..Len(C) : C[t] \in Artifacts /\ now[C[t]] # "none"
  <2> SUFFICES ASSUME NEW t \in 1..Len(C) PROVE C[t] \in Artifacts /\ now[C[t]] # "none"
    OBVIOUS
  <2>1. C[t] \in ToSet(C)
    BY <1>7 DEF ToSet
  <2>2. C[t] \in Artifacts
    BY <1>6, <2>1 DEF Artifacts
  <2>3. MessageOf(C[t]) = MessageOf(Head(rest))
    BY <1>6, <2>1, MessageOfIs
  <2> QED
    BY <2>2, <2>3
<1> HIDE DEF C, L
<1> DEFINE N == n + Len(C)
<1>9. N \in 0..Len(L) /\ \A k \in 1..N : k \in 1..n \/ (k - n \in 1..Len(C) /\ (n + 1) + (k - n) - 1 = k)
  BY <1>2, <1>4
<1>10. SubSeq(rest, Len(C) + 1, Len(rest)) = SubSeq(L, N + 1, Len(L))
  <2>1. n \in Nat /\ Len(C) \in Nat /\ n + Len(C) <= Len(L)
    BY <1>2, <1>4
  <2>2. SubSeq(SubSeq(L, n + 1, Len(L)), Len(C) + 1, Len(SubSeq(L, n + 1, Len(L)))) = SubSeq(L, N + 1, Len(L))
    BY <1>0, <2>1, SuffixOfSuffix
  <2> QED
    BY <1>1, <2>2
<1>11. \A k \in 1..n : L[k] \in Artifacts
  BY <1>0, <1>2
<1>12. \A k \in 1..N : now[L[k]] # "none"
  <2> SUFFICES ASSUME NEW k \in 1..N PROVE now[L[k]] # "none"
    OBVIOUS
  <2>1. CASE k \in 1..n
    BY <1>1, <1>11, <2>1
  <2>2. CASE k - n \in 1..Len(C) /\ (n + 1) + (k - n) - 1 = k
    BY <1>4, <1>8, <2>2
  <2> QED
    BY <1>9, <2>1, <2>2
<1>13. \A k \in 1..n : k \in 1..N
  BY <1>2, <1>4
<1>14. \A a \in held : \E k \in 1..N : L[k] = a
  BY <1>1, <1>13
<1>15. GoneThrough(L, SubSeq(rest, Len(C) + 1, Len(rest)), now, held)
  <2> HIDE DEF N
  <2> QED
    BY <1>9, <1>10, <1>12, <1>14 DEF GoneThrough
<1> QED
  BY <1>15 DEF L, C

\* What a step of a poll does to its list and to its report.
LEMMA PollStepAccounts ==
  ASSUME PollType, PollInv, NEW p \in Polls, PollStep(p)
  PROVE  \/ List(p)
         \/ UNCHANGED <<listing, todo, report>> /\ mine'[p] \subseteq mine[p]
         \/ /\ ppc[p] \in Working /\ Continue(p, Tail(todo[p])) /\ UNCHANGED listing
            /\ \E c \in Counters \ {"none"} : Count(p, c)
            /\ mine'[p] \subseteq mine[p] \cup {Current(p)}
         \/ MessageFails(p)
         \/ Raise(p) /\ EndTransaction(p)
<1>1. CASE Fetch(p)
  BY <1>1 DEF Fetch
<1>2. CASE LookUpProcessed(p) \/ LookUpPending(p)
  BY <1>2 DEF LookUpProcessed, LookUpPending, Working, Counters
<1>3. CASE Insert(p)
  <2>1. mine'[p] = mine[p] \cup {Current(p)}
    BY <1>3 DEF Insert, PollType
  <2> QED
    BY <1>3, <2>1 DEF Insert, Working, Counters
<1>4. CASE InsertConflicts(p) \/ InsertForced(p) \/ AttachmentSkipped(p)
  BY <1>4 DEF InsertConflicts, InsertForced, AttachmentSkipped, Working, Counters
<1>5. CASE Commit(p)
  BY <1>5 DEF Commit, CommitJobs, EndTransaction, PollType
<1>6. CASE DeadlockDetected(p) \/ CommitUnacknowledged(p) \/ Fail(p)
  BY <1>6 DEF DeadlockDetected, CommitUnacknowledged, CommitJobs, Fail, Abort
<1> QED
  BY <1>1, <1>2, <1>3, <1>4, <1>5, <1>6 DEF PollStep, PollRuns, PollSuffers

\* The reports of the other polls.
LEMMA OthersCount ==
  ASSUME PollType, PollInv, NEW p \in Polls, PollStep(p), NEW q \in Polls, q # p
  PROVE  report'[q] = report[q]
<1>1. CASE List(p)
  BY <1>1 DEF List
<1>2. CASE MessageFails(p)
  BY <1>2 DEF MessageFails, PollType
<1>3. CASE Raise(p) /\ EndTransaction(p)
  BY <1>3, RaiseIs
<1>4. ASSUME ppc[p] \in Working, NEW c \in Counters, Count(p, c) PROVE report'[q] = report[q]
  BY <1>4, CountIs
<1> QED
  BY <1>1, <1>2, <1>3, <1>4, PollStepAccounts

LEMMA FailedMessageIs ==
  ASSUME PollType, PollInv, NEW p \in Polls, MessageFails(p)
  PROVE  /\ ppc[p] \in Working /\ IsBody(Current(p)) /\ Continue(p, WithoutMessage(p))
         /\ UNCHANGED <<listing, mine>>
         /\ \A a \in Artifacts : report'[p][a] =
              IF MessageOf(a) = MessageOf(Current(p)) THEN "skipped" ELSE report[p][a]
<1>1. report' = [report EXCEPT ![p] = [a \in Artifacts |->
                   IF OfCurrentMessage(p, a) THEN "skipped" ELSE report[p][a]]]
  BY DEF MessageFails
<1>2. report'[p] = [a \in Artifacts |-> IF OfCurrentMessage(p, a) THEN "skipped" ELSE report[p][a]]
  BY <1>1 DEF PollType
<1> QED
  BY <1>2 DEF MessageFails, Working, OfCurrentMessage

LEMMA InitProgressInv == Init => ProgressInv
<1> SUFFICES ASSUME Init, NEW p \in Polls PROVE Progress(p)
  BY DEF ProgressInv
<1>1. /\ listing[p] = <<>> /\ todo[p] = <<>> /\ mine[p] = {}
  BY DEF Init
<1>2. GoneThrough(<<>>, <<>>, report[p], {})
  BY DEF GoneThrough
<1> QED
  BY <1>1, <1>2, NothingListed DEF Progress

LEMMA NextProgressInv == TypeInv /\ ProgressInv /\ [Next]_vars => ProgressInv'
<1> SUFFICES ASSUME TypeInv, ProgressInv, [Next]_vars PROVE ProgressInv'
  OBVIOUS
<1>0. PollType /\ PollInv /\ \A p \in Polls : Progress(p)
  BY DEF TypeInv, ProgressInv
<1>1. ASSUME NEW p \in Polls, PollStep(p) PROVE ProgressInv'
  <2>0. Kept(p)
    BY <1>0, <1>1, PollStepKeeps
  <2>1. ASSUME NEW q \in Polls, q # p PROVE Progress(q)'
    <3>1. listing'[q] = listing[q] /\ todo'[q] = todo[q] /\ mine'[q] = mine[q]
      BY <2>0, <2>1 DEF Kept
    <3>2. report'[q] = report[q]
      BY <1>0, <1>1, <2>1, OthersCount
    <3>3. Progress(q)
      BY <1>0
    <3> QED
      BY <3>1, <3>2, <3>3 DEF Progress
  <2>2. GoneThrough(ArtifactsIn(listing[p]), todo[p], report[p], mine[p])
    BY <1>0 DEF Progress
  <2>3. listing[p] \in Seq(Messages) /\ ArtifactsIn(listing[p]) \in Seq(Artifacts)
    BY <1>0, ArtifactsInType DEF PollType
  <2>4. ASSUME List(p) PROVE Progress(p)'
    <3>1. PICK l \in Listings[p] : listing' = [listing EXCEPT ![p] = l] /\ Continue(p, ArtifactsIn(l))
      BY <2>4 DEF List
    <3>2. ArtifactsIn(l) \in Seq(Artifacts)
      BY ListingsAssumption, ArtifactsInType
    <3>3. todo'[p] = ArtifactsIn(l)
      BY <1>0, <3>1, <3>2, ContinueIs
    <3>4. listing'[p] = l /\ mine'[p] = {}
      BY <1>0, <2>4, <3>1 DEF PollType, PollInv, List
    <3>5. GoneThrough(ArtifactsIn(l), ArtifactsIn(l), report'[p], {})
      <4> DEFINE L == ArtifactsIn(l)
      <4> HIDE DEF L
      <4>1. L \in Seq(Artifacts)
        BY <3>2 DEF L
      <4>2. L = SubSeq(L, 1, Len(L)) /\ 0 \in 0..Len(L) /\ 0 + 1 = 1
        BY <4>1
      <4>3. GoneThrough(L, L, report'[p], {})
        BY <4>2 DEF GoneThrough
      <4> QED
        BY <4>3 DEF L
    <3> QED
      BY <3>3, <3>4, <3>5 DEF Progress
  <2>5. ASSUME UNCHANGED <<listing, todo, report>> /\ mine'[p] \subseteq mine[p] PROVE Progress(p)'
    <3>1. GoneThrough(ArtifactsIn(listing[p]), todo[p], report[p], mine'[p])
      BY <2>2, <2>5 DEF GoneThrough
    <3> QED
      BY <2>5, <3>1 DEF Progress
  <2>6. ASSUME ppc[p] \in Working, Continue(p, Tail(todo[p])), UNCHANGED listing,
               NEW c \in Counters \ {"none"}, Count(p, c),
               mine'[p] \subseteq mine[p] \cup {Current(p)}
        PROVE  Progress(p)'
    <3>1. /\ todo[p] # <<>> /\ Current(p) = Head(todo[p]) /\ Current(p) \in Artifacts
          /\ Tail(todo[p]) \in Seq(Artifacts)
      BY <1>0, <2>6, CurrentIs DEF Current
    <3>2. todo'[p] = Tail(todo[p])
      BY <1>0, <2>6, <3>1, ContinueIs
    <3>3. \A a \in Artifacts : report'[p][a] = IF a = Current(p) THEN c ELSE report[p][a]
      BY <1>0, <2>6, CountIs
    <3>4. GoneThrough(ArtifactsIn(listing[p]), Tail(todo[p]), report'[p], mine'[p])
      <4>1. \A a \in Artifacts : report[p][a] # "none" => report'[p][a] # "none"
        BY <2>6, <3>3
      <4>2. report'[p][Head(todo[p])] # "none"
        BY <2>6, <3>1, <3>3
      <4>3. mine'[p] \subseteq mine[p] \cup {Head(todo[p])}
        BY <2>6, <3>1
      <4> DEFINE now == report'[p]
      <4> DEFINE held == mine'[p]
      <4>4. /\ \A a \in Artifacts : report[p][a] # "none" => now[a] # "none"
            /\ now[Head(todo[p])] # "none" /\ held \subseteq mine[p] \cup {Head(todo[p])}
        BY <4>1, <4>2, <4>3
      <4> HIDE DEF now, held
      <4>5. GoneThrough(ArtifactsIn(listing[p]), Tail(todo[p]), now, held)
        BY <2>2, <2>3, <3>1, <4>4, OneFurther
      <4> QED
        BY <4>5 DEF now, held
    <3> QED
      BY <2>6, <3>2, <3>4 DEF Progress
  <2>7. ASSUME MessageFails(p) PROVE Progress(p)'
    <3>1. /\ ppc[p] \in Working /\ IsBody(Current(p)) /\ Continue(p, WithoutMessage(p))
          /\ UNCHANGED <<listing, mine>>
          /\ \A a \in Artifacts : report'[p][a] =
               IF MessageOf(a) = MessageOf(Current(p)) THEN "skipped" ELSE report[p][a]
      BY <1>0, <2>7, FailedMessageIs
    <3>2. /\ todo[p] # <<>> /\ Current(p) = Head(todo[p]) /\ WithoutMessage(p) \in Seq(Artifacts)
      BY <1>0, <3>1, CurrentIs DEF Current
    <3>3. todo'[p] = WithoutMessage(p)
      BY <1>0, <3>1, <3>2, ContinueIs
    <3> DEFINE now == report'[p]
    <3>4. /\ \A a \in Artifacts : report[p][a] # "none" => now[a] # "none"
          /\ \A a \in Artifacts : MessageOf(a) = MessageOf(Head(todo[p])) => now[a] # "none"
      BY <3>1, <3>2
    <3> HIDE DEF now
    <3>5. GoneThrough(ArtifactsIn(listing[p]),
            SubSeq(todo[p], Len(Contents[MessageOf(Head(todo[p]))]) + 1, Len(todo[p])), now, mine[p])
      BY <2>2, <2>3, <3>1, <3>2, <3>4, MessageFurther
    <3>6. GoneThrough(ArtifactsIn(listing[p]), WithoutMessage(p), now, mine[p])
      BY <3>5 DEF WithoutMessage, CurrentContents, Current
    <3> QED
      BY <3>1, <3>3, <3>6 DEF Progress, now
  <2>8. ASSUME Raise(p) /\ EndTransaction(p) PROVE Progress(p)'
    <3>1. todo'[p] = <<>> /\ listing'[p] = <<>> /\ mine'[p] = {}
      BY <1>0, <2>8, RaiseIs
    <3>2. GoneThrough(<<>>, <<>>, report'[p], {})
      BY DEF GoneThrough
    <3> QED
      BY <3>1, <3>2, NothingListed DEF Progress
  <2>9. Progress(p)'
    BY <1>0, <1>1, <2>4, <2>5, <2>6, <2>7, <2>8, PollStepAccounts
  <2> QED
    BY <2>1, <2>9 DEF ProgressInv
<1>2. ASSUME UNCHANGED pollVars PROVE ProgressInv'
  BY <1>0, <1>2 DEF ProgressInv, Progress, pollVars
<1>3. CASE (\E w \in Workers : WorkerStep(w)) \/ (\E j \in Jobs : Clock(j))
  BY <1>2, <1>3, WorkerIsQueueStep
<1>4. ASSUME NEW w \in Workers, RetryCollides(w) PROVE ProgressInv'
  BY <1>2, <1>4 DEF RetryCollides
<1>5. CASE UNCHANGED vars
  BY <1>2, <1>5 DEF vars
<1> QED
  BY <1>1, <1>3, <1>4, <1>5, StepKinds

\* Polls that list the messages in the same order never wait for each other in a
\* cycle: of two that do, each would have gone further in the list than the other.
THEOREM SameOrderNeverDeadlocks == Spec => []DeadlockNeedsTwoOrders
<1>1. TypeInv /\ ProgressInv => DeadlockNeedsTwoOrders
  <2> SUFFICES ASSUME TypeInv, ProgressInv, NEW p \in Polls, NEW q \in Polls, p # q,
                      WaitsFor(p, q), WaitsFor(q, p), listing[p] = listing[q]
               PROVE  FALSE
    BY DEF DeadlockNeedsTwoOrders
  <2>0. PollType /\ PollInv
    BY DEF TypeInv
  <2> DEFINE L == ArtifactsIn(listing[p])
  <2>1. L \in Seq(Artifacts) /\ IsInjective(L)
    <3>1. listing[p] \in Seq(Messages)
      BY <2>0 DEF PollType
    <3>2. IsInjective(listing[p])
      BY <2>0, ListingsAssumption DEF PollInv, IsInjective
    <3> QED
      BY <3>1, <3>2, ArtifactsInType, ListedOnce
  <2>2. GoneThrough(L, todo[p], report[p], mine[p]) /\ GoneThrough(L, todo[q], report[q], mine[q])
    BY DEF ProgressInv, Progress
  <2>3. /\ todo[p] # <<>> /\ todo[q] # <<>>
        /\ Current(p) = Head(todo[p]) /\ Current(q) = Head(todo[q])
        /\ Current(p) \in mine[q] /\ Current(q) \in mine[p]
    BY <2>0, CurrentIs DEF WaitsFor, Working, Current
  <2> HIDE DEF L
  <2>4. PICK m \in 0..Len(L) : /\ todo[p] = SubSeq(L, m + 1, Len(L))
                               /\ \A a \in mine[p] : \E k \in 1..m : L[k] = a
    BY <2>2 DEF GoneThrough
  <2>5. PICK n \in 0..Len(L) : /\ todo[q] = SubSeq(L, n + 1, Len(L))
                               /\ \A a \in mine[q] : \E k \in 1..n : L[k] = a
    BY <2>2 DEF GoneThrough
  <2>6. m # Len(L) /\ Current(p) = L[m + 1]
    BY <2>1, <2>3, <2>4, SuffixIs
  <2>7. n # Len(L) /\ Current(q) = L[n + 1]
    BY <2>1, <2>3, <2>5, SuffixIs
  <2>8. PICK k \in 1..n : L[k] = L[m + 1]
    BY <2>3, <2>5, <2>6
  <2>9. PICK h \in 1..m : L[h] = L[n + 1]
    BY <2>3, <2>4, <2>7
  <2>10. Len(L) \in Nat /\ DOMAIN L = 1..Len(L)
    BY <2>1
  <2>11. k \in DOMAIN L /\ m + 1 \in DOMAIN L /\ h \in DOMAIN L /\ n + 1 \in DOMAIN L
    <3>1. m # Len(L) /\ n # Len(L)
      BY <2>6, <2>7
    <3> DEFINE len == Len(L)
    <3>3. len \in Nat /\ m \in 0..len /\ n \in 0..len /\ m # len /\ n # len
      BY <2>10, <3>1
    <3> HIDE DEF len
    <3>4. m \in Nat /\ m < len /\ n \in Nat /\ n < len
      BY <3>3
    <3>5. m + 1 \in 1..len /\ n + 1 \in 1..len
      BY <3>3, <3>4
    <3>6. k \in 1..len
      BY <3>3
    <3>7. h \in 1..len
      BY <3>3
    <3>2. k \in 1..Len(L) /\ m + 1 \in 1..Len(L) /\ h \in 1..Len(L) /\ n + 1 \in 1..Len(L)
      BY <3>5, <3>6, <3>7 DEF len
    <3> QED
      BY <2>10, <3>2
  <2>12. k = m + 1 /\ h = n + 1
    BY <2>1, <2>8, <2>9, <2>11 DEF IsInjective
  <2> QED
    BY <2>12
<1> QED
  BY InitTypeInv, NextTypeInv, InitProgressInv, NextProgressInv, <1>1, PTL DEF Spec

-----------------------------------------------------------------------------
(* What a poll reports *)

\* A job keeps its artifact.
LEMMA JobsStay ==
  ASSUME TypeInv, [Next]_vars, NEW a \in Artifacts, JobsOf(a) # {}
  PROVE  JobsOf(a)' # {}
<1>0. JobInv
  BY DEF TypeInv
<1>1. PICK j \in Jobs : artifactOf[j] = a
  BY DEF JobsOf
<1>2. ~(j > submitted)
  BY <1>0, <1>1, NoArtifactAssumption DEF JobInv
<1>3. ~New(j)
  BY <1>2 DEF New
<1>4. ASSUME artifactOf'[j] = artifactOf[j] PROVE JobsOf(a)' # {}
  BY <1>1, <1>4 DEF JobsOf
<1>5. ASSUME NEW p \in Polls, Commit(p) \/ CommitUnacknowledged(p) PROVE JobsOf(a)' # {}
  BY <1>3, <1>4, <1>5, CommitStep DEF Same
<1>6. ASSUME NEW p \in Polls, InsertForced(p) PROVE JobsOf(a)' # {}
  BY <1>3, <1>4, <1>6, ForcedStep DEF Same
<1>7. ASSUME UNCHANGED jobVars PROVE JobsOf(a)' # {}
  BY <1>4, <1>7 DEF jobVars
<1>8. CASE (\E w \in Workers : WorkerStep(w)) \/ (\E k \in Jobs : Clock(k))
  BY <1>7, <1>8, WorkerIsQueueStep
<1>9. ASSUME NEW w \in Workers, RetryCollides(w) PROVE JobsOf(a)' # {}
  BY <1>7, <1>9 DEF RetryCollides
<1>10. CASE UNCHANGED vars
  BY <1>7, <1>10 DEF vars
<1> QED
  BY <1>5, <1>6, <1>7, <1>8, <1>9, <1>10, StepKinds, PollStepKinds DEF Reads

\* What a poll has counted on stays inserted, or becomes a job, or the poll fails.
LEMMA InsertedStays ==
  ASSUME TypeInv, NEW p \in Polls, PollStep(p), NEW a \in mine[p]
  PROVE  \/ a \in mine'[p] \/ JobsOf(a)' # {}
         \/ Raise(p) /\ EndTransaction(p)
<1>0. PollType /\ PollInv
  BY DEF TypeInv
<1>1. CASE Commit(p) \/ CommitUnacknowledged(p)
  BY <1>1, CommitStep DEF JobsOf
<1>2. CASE InsertForced(p)
  BY <1>2, ForcedStep
<1>3. CASE Insert(p)
  BY <1>0, <1>3 DEF Insert, PollType
<1>4. CASE UNCHANGED mine
  BY <1>4
<1> QED
  BY <1>1, <1>2, <1>3, <1>4 DEF PollStep, PollRuns, PollSuffers, List, Fetch, LookUpProcessed,
     LookUpPending, InsertConflicts, DeadlockDetected, MessageFails, AttachmentSkipped, Fail, Abort

Counted == {"enqueued", "processed", "pending"}

\* A poll counts an artifact when it has a job, or has just been inserted.
LEMMA CountsOn ==
  ASSUME TypeInv, NEW p \in Polls, PollStep(p), NEW a \in Artifacts, report'[p][a] \in Counted
  PROVE  report'[p][a] = report[p][a] \/ JobsOf(a) # {} \/ JobsOf(a)' # {} \/ a \in mine'[p]
<1>0. PollType /\ PollInv
  BY DEF TypeInv
<1> SUFFICES ASSUME JobsOf(a) = {} PROVE report'[p][a] = report[p][a] \/ JobsOf(a)' # {} \/ a \in mine'[p]
  OBVIOUS
<1>1. ASSUME NEW c \in Counters, Count(p, c), ppc[p] \in Working,
             a = Current(p) => c \notin Counted \/ JobsOf(a)' # {} \/ a \in mine'[p]
      PROVE  report'[p][a] = report[p][a] \/ JobsOf(a)' # {} \/ a \in mine'[p]
  BY <1>0, <1>1, CountIs
<1>2. CASE UNCHANGED report
  BY <1>2
<1>3. CASE Raise(p) /\ EndTransaction(p)
  BY <1>0, <1>3, RaiseIs DEF Counted
<1>4. CASE MessageFails(p)
  BY <1>0, <1>4, FailedMessageIs DEF Counted
<1>5. CASE LookUpProcessed(p)
  <2>1. UNCHANGED report \/ (Count(p, "processed") /\ a # Current(p) /\ ppc[p] \in Working)
    BY <1>5 DEF LookUpProcessed, HasProcessed, Working
  <2> QED
    BY <1>1, <1>2, <2>1 DEF Counters
<1>6. CASE LookUpPending(p)
  <2>1. UNCHANGED report \/ (Count(p, "pending") /\ a # Current(p) /\ ppc[p] \in Working)
    BY <1>6 DEF LookUpPending, HasPending, Working
  <2> QED
    BY <1>1, <1>2, <2>1 DEF Counters
<1>7. CASE InsertConflicts(p)
  <2>1. Count(p, "pending") /\ a # Current(p) /\ ppc[p] \in Working
    BY <1>7 DEF InsertConflicts, Conflicts, Working
  <2> QED
    BY <1>1, <2>1 DEF Counters
<1>8. CASE Insert(p)
  <2>1. Count(p, "enqueued") /\ ppc[p] \in Working /\ Current(p) \in mine'[p]
    BY <1>0, <1>8 DEF Insert, Working, PollType
  <2> QED
    BY <1>1, <2>1 DEF Counters
<1>9. CASE InsertForced(p)
  <2>1. Count(p, "enqueued") /\ ppc[p] \in Working
    BY <1>9 DEF InsertForced, Working
  <2>2. a = Current(p) => JobsOf(a)' # {}
    <3>1. \E j \in Jobs : artifactOf'[j] = Current(p)
      BY <1>9, ForcedStep
    <3> QED
      BY <3>1 DEF JobsOf
  <2> QED
    BY <1>1, <2>1, <2>2 DEF Counters
<1>10. CASE AttachmentSkipped(p)
  <2>1. Count(p, "skipped") /\ ppc[p] \in Working
    BY <1>10 DEF AttachmentSkipped, Working
  <2> QED
    BY <1>1, <2>1 DEF Counters, Counted
<1> QED
  BY <1>2, <1>3, <1>4, <1>5, <1>6, <1>7, <1>8, <1>9, <1>10
     DEF PollStep, PollRuns, PollSuffers, List, Fetch, Commit, CommitUnacknowledged, CommitJobs,
         DeadlockDetected, Fail, Abort

LEMMA NextCountInv == TypeInv /\ CountInv /\ [Next]_vars => CountInv'
<1> SUFFICES ASSUME TypeInv, CountInv, [Next]_vars,
                    NEW p \in Polls, NEW a \in Artifacts, report'[p][a] \in Counted
             PROVE  JobsOf(a)' # {} \/ a \in mine'[p]
  BY DEF CountInv, Counted
<1>0. PollType /\ PollInv
  BY DEF TypeInv
<1>1. ASSUME report'[p][a] = report[p][a], mine'[p] = mine[p] PROVE JobsOf(a)' # {} \/ a \in mine'[p]
  <2>1. JobsOf(a) # {} \/ a \in mine[p]
    BY <1>1 DEF CountInv, Counted
  <2> QED
    BY <1>1, <2>1, JobsStay
<1>2. CASE PollStep(p)
  <2>1. ~Raise(p) \/ ~EndTransaction(p)
    BY <1>0, RaiseIs DEF Counted
  <2>2. report'[p][a] = report[p][a] \/ JobsOf(a) # {} \/ JobsOf(a)' # {} \/ a \in mine'[p]
    BY <1>2, CountsOn
  <2>3. CASE report'[p][a] = report[p][a]
    <3>1. JobsOf(a) # {} \/ a \in mine[p]
      BY <2>3 DEF CountInv, Counted
    <3> QED
      BY <1>2, <2>1, <3>1, JobsStay, InsertedStays
  <2> QED
    BY <2>2, <2>3, JobsStay
<1>3. ASSUME NEW q \in Polls, PollStep(q), q # p PROVE JobsOf(a)' # {} \/ a \in mine'[p]
  <2>1. mine'[p] = mine[p]
    BY <1>0, <1>3, PollStepKeeps DEF Kept
  <2>2. report'[p] = report[p]
    BY <1>0, <1>3, OthersCount
  <2> QED
    BY <1>1, <2>1, <2>2
<1>4. ASSUME UNCHANGED pollVars PROVE JobsOf(a)' # {} \/ a \in mine'[p]
  BY <1>1, <1>4 DEF pollVars
<1>5. CASE (\E w \in Workers : WorkerStep(w)) \/ (\E j \in Jobs : Clock(j))
  BY <1>4, <1>5, WorkerIsQueueStep
<1>6. ASSUME NEW w \in Workers, RetryCollides(w) PROVE JobsOf(a)' # {} \/ a \in mine'[p]
  BY <1>4, <1>6 DEF RetryCollides
<1>7. CASE UNCHANGED vars
  BY <1>4, <1>7 DEF vars
<1> QED
  BY <1>2, <1>3, <1>5, <1>6, <1>7, StepKinds

LEMMA InitCountInv == Init => CountInv
BY DEF Init, CountInv

\* A poll that ends has accounted for every artifact it was told of, and what it
\* counts as enqueued, queued or processed has a job in the table.
THEOREM ReportsAreTrue == Spec => []ReportIsTrue
<1>1. TypeInv /\ ProgressInv /\ CountInv => ReportIsTrue
  <2> SUFFICES ASSUME TypeInv, ProgressInv, CountInv, NEW p \in Polls, ppc[p] = "done",
                      NEW a \in ToSet(ArtifactsIn(listing[p]))
               PROVE  report[p][a] # "none" /\ (report[p][a] # "skipped" => JobsOf(a) # {})
    BY DEF ReportIsTrue
  <2>0. PollType /\ PollInv
    BY DEF TypeInv
  <2> DEFINE L == ArtifactsIn(listing[p])
  <2>1. todo[p] = <<>> /\ mine[p] = {}
    BY <2>0 DEF PollInv, Working
  <2>2. L \in Seq(Artifacts)
    BY <2>0, ArtifactsInType DEF PollType
  <2>3. GoneThrough(L, todo[p], report[p], mine[p])
    BY DEF ProgressInv, Progress
  <2>4. a \in ToSet(L)
    OBVIOUS
  <2> HIDE DEF L
  <2>5. PICK n \in 0..Len(L) : /\ todo[p] = SubSeq(L, n + 1, Len(L))
                               /\ \A k \in 1..n : report[p][L[k]] # "none"
    BY <2>3 DEF GoneThrough
  <2>6. n = Len(L)
    BY <2>1, <2>2, <2>5, SuffixIs
  <2>7. PICK k \in 1..Len(L) : L[k] = a
    BY <2>2, <2>4 DEF ToSet
  <2>8. a \in Artifacts
    BY <2>2, <2>7
  <2>9. report[p][a] # "none"
    BY <2>5, <2>6, <2>7
  <2>10. report[p][a] \in Counters
    BY <2>0, <2>8 DEF PollType
  <2> QED
    BY <2>1, <2>8, <2>9, <2>10 DEF CountInv, Counters
<1> QED
  BY InitTypeInv, NextTypeInv, InitProgressInv, NextProgressInv, InitCountInv, NextCountInv, <1>1,
     PTL DEF Spec
=============================================================================
