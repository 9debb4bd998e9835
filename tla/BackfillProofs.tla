---------------------------- MODULE BackfillProofs ----------------------------
(* Theorems about Backfill, for any number of documents, versions and ingests. *)
EXTENDS Backfill, FiniteSetTheorems, SequenceTheorems, TLAPS

-----------------------------------------------------------------------------
(* The invariants *)

Version == [hash : Hashes, blob : BOOLEAN]

TypeInv ==
  /\ versions \in [Paths -> Seq(Version)]
  /\ chunks \subseteq [doc : Paths, text : Hashes, version : Nat]
  /\ sources \subseteq Paths /\ blobs \subseteq Hashes
  /\ links \subseteq [source : Paths, doc : Paths, version : Nat]
  /\ pc \in [Processes -> CommandPCs \cup RunPCs]
  /\ pc[Migrate] \in CommandPCs /\ \A r \in Runs : pc[r] \in RunPCs
  /\ held \in [Processes -> SUBSET Keys]
  /\ listed \in Seq([doc : Paths, current : Nat])
  /\ rows \in Seq(Nat)
  /\ given \subseteq [doc : Paths, version : Nat]
  /\ assigned \subseteq [doc : Paths, version : Nat]
  /\ backfills \in 0..MaxBackfills
  /\ promised \subseteq Paths
  /\ target \in [Runs -> [doc : Paths, hash : Hashes]]

\* Where the command is in its two lists.
CommandInv ==
  /\ pc[Migrate] \in {"source", "versions", "blob", "chunks"} => listed # <<>>
  /\ pc[Migrate] = "blob" => rows # <<>> /\ \A i \in DOMAIN rows : rows[i] \in DOMAIN versions[CurrentDoc]

\* A chunk without a version is of the last one, and keeps its document from being
\* ingested: the version that the listing has seen, or that has been assigned to
\* the chunk, is the last one still.
ChunkInv ==
  /\ \A c \in chunks :
       /\ versions[c.doc] # <<>>
       /\ c.version = NoVersion => c.text = Last(versions[c.doc]).hash
       /\ c.version # NoVersion => c.version \in DOMAIN versions[c.doc]
                                   /\ versions[c.doc][c.version].hash = c.text
  /\ \A i \in DOMAIN listed :
       listed[i].doc \in WithUnversioned => listed[i].current = Len(versions[listed[i].doc])
  /\ \A a \in assigned : a.doc \in WithUnversioned => a.version = Len(versions[a.doc])

\* What the command owes to a document: its source, a blob and a link for each of
\* its versions, a version for its chunks.
Linked(d, n) == \E l \in links : l.doc = d /\ l.version = n
HasSource(d) == d \in sources \/ <<"source", d>> \in held[Migrate]
VersionDone(d, n) ==
  (versions[d][n].blob /\ Linked(d, n)) \/ [doc |-> d, version |-> n] \in given
VersionsDone(d) == \A n \in DOMAIN versions[d] : VersionDone(d, n)
ChunksDone(d) == d \in WithUnversioned => \E a \in assigned : a.doc = d
Ready(d) == HasSource(d) /\ VersionsDone(d) /\ ChunksDone(d)

PromiseInv ==
  /\ pc[Migrate] \in {"source", "versions", "blob", "chunks"} =>
       \A d \in promised : Ready(d) \/ \E i \in DOMAIN listed : listed[i].doc = d
  /\ pc[Migrate] \in {"versions", "blob", "chunks"} => HasSource(CurrentDoc)
  /\ pc[Migrate] = "blob" => \A n \in DOMAIN versions[CurrentDoc] :
       VersionDone(CurrentDoc, n) \/ \E i \in DOMAIN rows : rows[i] = n
  /\ pc[Migrate] = "chunks" => VersionsDone(CurrentDoc)
  /\ pc[Migrate] = "commit" => \A d \in promised : Ready(d)
  /\ PromisedIsCanonical

\* What is linked exists, and what is about to be linked has its source.
LinkInv ==
  /\ \A l \in links : l.source \in sources /\ [doc |-> l.doc, version |-> l.version] \in Versions
  /\ \A v \in given : v \in Versions /\ HasSource(v.doc)

LockInv == \A p, q \in Processes : p # q => held[p] \cap held[q] = {}

-----------------------------------------------------------------------------
(* The types *)

LEMMA PathsFinite == IsFiniteSet(Paths)
<1>1. Docs \in Seq(Paths)
  BY DocsAssumption
<1> DEFINE D == 1..Len(Docs)
<1>2. Docs \in [D -> Paths] /\ DOMAIN Docs = D /\ Len(Docs) \in Nat
  BY <1>1, LenProperties
<1>3. IsFiniteSet(D)
  BY <1>2, FS_Interval
<1>4. \A d \in Paths : \E i \in D : Docs[i] = d
  BY <1>2 DEF Paths, ToSet
<1> HIDE DEF D
<1>5. Docs \in Surjection(D, Paths)
  BY <1>2, <1>4 DEF Surjection
<1> QED
  BY <1>3, <1>5, FS_Surjection

\* The listing, as the list of the command.
LEMMA ListingType ==
  ASSUME TypeInv, NEW docs \in SetToSeqs({d \in Paths : IsLegacy(d)})
  PROVE  /\ docs \in Seq(Paths)
         /\ [i \in DOMAIN docs |-> [doc |-> docs[i], current |-> Len(versions[docs[i]])]]
              \in Seq([doc : Paths, current : Nat])
<1> DEFINE S == {d \in Paths : IsLegacy(d)}
<1>1. IsFiniteSet(S) /\ S \subseteq Paths
  BY PathsFinite, FS_Subset
<1> HIDE DEF S
<1>2. Cardinality(S) \in Nat
  BY <1>1, FS_CardinalityType
<1>3. docs \in [1..Cardinality(S) -> S]
  BY DEF SetToSeqs, S
<1>4. docs \in Seq(Paths)
  BY <1>1, <1>2, <1>3
<1>5. Len(docs) \in Nat /\ DOMAIN docs = 1..Len(docs)
  BY <1>4
<1>6. \A d \in Paths : Len(versions[d]) \in Nat
  BY DEF TypeInv
<1>7. \A i \in DOMAIN docs : docs[i] \in Paths /\ Len(versions[docs[i]]) \in Nat
  BY <1>4, <1>6
<1> QED
  BY <1>4, <1>5, <1>7

\* The steps of a run leave alone what belongs to the command.
LEMMA CurrentIs ==
  ASSUME TypeInv, listed # <<>>
  PROVE  /\ CurrentDoc \in Paths /\ Head(listed) = listed[1] /\ listed[1] \in [doc : Paths, current : Nat]
         /\ Tail(listed) \in Seq([doc : Paths, current : Nat])
         /\ CurrentDoc = listed[1].doc
<1> DEFINE X == [doc : Paths, current : Nat]
<1>1. listed \in Seq(X)
  BY DEF TypeInv
<1> HIDE DEF X
<1>2. Head(listed) = listed[1] /\ listed[1] \in X /\ Tail(listed) \in Seq(X)
  BY <1>1
<1> QED
  BY <1>2 DEF X, CurrentDoc

LEMMA VersionsOfType ==
  ASSUME TypeInv, NEW d \in Paths
  PROVE  /\ VersionsOf(d) \in Seq(Nat) /\ DOMAIN VersionsOf(d) = DOMAIN versions[d]
         /\ DOMAIN versions[d] = 1..Len(versions[d]) /\ Len(versions[d]) \in Nat
         /\ \A n \in DOMAIN versions[d] : VersionsOf(d)[n] = n
<1>1. versions[d] \in Seq(Version)
  BY DEF TypeInv
<1>2. Len(versions[d]) \in Nat /\ DOMAIN versions[d] = 1..Len(versions[d])
  BY <1>1
<1>3. VersionsOf(d) = [n \in 1..Len(versions[d]) |-> n]
  BY <1>2 DEF VersionsOf
<1> QED
  BY <1>2, <1>3

LEMMA InitTypeInv == Init => TypeInv
<1> SUFFICES ASSUME Init PROVE TypeInv
  OBVIOUS
<1>1. versions \in [Paths -> Seq(Version)]
  <2>1. ASSUME NEW d \in Paths
        PROVE  [n \in DOMAIN Legacy[d] |-> [hash |-> Legacy[d][n], blob |-> FALSE]] \in Seq(Version)
    <3>1. Legacy[d] \in Seq(Hashes)
      BY LegacyAssumption
    <3>2. Len(Legacy[d]) \in Nat /\ DOMAIN Legacy[d] = 1..Len(Legacy[d])
          /\ \A n \in DOMAIN Legacy[d] : Legacy[d][n] \in Hashes
      BY <3>1
    <3> QED
      BY <3>2 DEF Version
  <2> QED
    BY <2>1 DEF Init
<1>2. chunks \subseteq [doc : Paths, text : Hashes, version : Nat]
  <2>1. ASSUME NEW d \in Paths, Legacy[d] # <<>> PROVE Last(Legacy[d]) \in Hashes
    <3>1. Legacy[d] \in Seq(Hashes)
      BY LegacyAssumption
    <3> QED
      BY <2>1, <3>1 DEF Last
  <2> QED
    BY <2>1 DEF Init, NoVersion
<1>3. backfills \in 0..MaxBackfills
  BY MaxBackfillsAssumption DEF Init
<1>4. pc \in [Processes -> CommandPCs \cup RunPCs] /\ pc[Migrate] \in CommandPCs
      /\ \A r \in Runs : pc[r] \in RunPCs
  BY MigrateAssumption DEF Init, Processes, CommandPCs, RunPCs
<1>5. held \in [Processes -> SUBSET Keys]
  BY DEF Init
<1>6. listed \in Seq([doc : Paths, current : Nat]) /\ rows \in Seq(Nat)
  BY DEF Init
<1> QED
  BY <1>1, <1>2, <1>3, <1>4, <1>5, <1>6 DEF Init, TypeInv

\* The program counter and the locks.
LEMMA GotoIs ==
  ASSUME TypeInv, NEW p \in Processes, NEW label, Goto(p, label),
         p = Migrate => label \in CommandPCs, p # Migrate => label \in RunPCs
  PROVE  /\ pc' \in [Processes -> CommandPCs \cup RunPCs]
         /\ pc'[Migrate] \in CommandPCs /\ \A r \in Runs : pc'[r] \in RunPCs
         /\ pc'[p] = label /\ \A q \in Processes \ {p} : pc'[q] = pc[q]
BY MigrateAssumption DEF TypeInv, Goto, Processes

LEMMA HoldIs ==
  ASSUME TypeInv, NEW p \in Processes, NEW k \in Keys, Hold(p, k)
  PROVE  /\ held' \in [Processes -> SUBSET Keys] /\ held'[p] = held[p] \cup {k}
         /\ \A q \in Processes \ {p} : held'[q] = held[q]
BY DEF TypeInv, Hold

LEMMA EndIs ==
  ASSUME TypeInv, NEW p \in Processes, held' = EndOf(p)
  PROVE  /\ held' \in [Processes -> SUBSET Keys] /\ held'[p] = {}
         /\ \A q \in Processes \ {p} : held'[q] = held[q]
BY DEF TypeInv, EndOf

LEMMA NextCases ==
  ASSUME Next
  PROVE  \/ List \/ InsertSource \/ ReadVersions \/ InsertBlob \/ UpdateChunks
         \/ CommitCommand \/ RollBackCommand
         \/ \E r \in Runs : \/ Check(r) \/ Link(r) \/ StoreBlob(r) \/ StoreSource(r)
                            \/ StoreDocument(r) \/ StoreCommit(r) \/ RollBack(r)
BY DEF Next, CommandRuns, IngestRuns, DeadlockDetected

LEMMA KeysOf ==
  /\ \A d \in Paths : <<"source", d>> \in Keys /\ <<"chunks", d>> \in Keys
  /\ \A h \in Hashes : <<"blob", h>> \in Keys
BY DEF Keys

LEMMA ProcessesAre == Migrate \in Processes /\ \A r \in Runs : r \in Processes /\ r # Migrate
BY MigrateAssumption DEF Processes

\* The version that the command is at.
LEMMA RowIs ==
  ASSUME TypeInv, CommandInv, pc[Migrate] = "blob"
  PROVE  /\ CurrentDoc \in Paths /\ listed # <<>> /\ rows # <<>>
         /\ Head(rows) = rows[1] /\ Head(rows) \in Nat /\ Head(rows) \in DOMAIN versions[CurrentDoc]
         /\ versions[CurrentDoc][Head(rows)] \in Version
         /\ HashOf(Head(rows)) \in Hashes
         /\ Tail(rows) \in Seq(Nat)
<1>1. listed # <<>> /\ rows # <<>>
  BY DEF CommandInv
<1>2. CurrentDoc \in Paths
  BY <1>1, CurrentIs
<1>3. rows \in Seq(Nat) /\ versions[CurrentDoc] \in Seq(Version)
  BY <1>2 DEF TypeInv
<1>4. Head(rows) = rows[1] /\ Head(rows) \in Nat /\ Tail(rows) \in Seq(Nat) /\ 1 \in DOMAIN rows
  BY <1>1, <1>3
<1>5. Head(rows) \in DOMAIN versions[CurrentDoc]
  BY <1>4 DEF CommandInv
<1>6. versions[CurrentDoc][Head(rows)] \in Version
  BY <1>3, <1>5
<1> QED
  BY <1>1, <1>2, <1>4, <1>5, <1>6 DEF HashOf, Version

LEMMA CommittedType ==
  ASSUME TypeInv, NEW d \in Paths, NEW S
  PROVE  LET new == [n \in DOMAIN versions[d] |->
                      [versions[d][n] EXCEPT !.blob = @ \/ [doc |-> d, version |-> n] \in S]] IN
         /\ new \in Seq(Version) /\ Len(new) = Len(versions[d]) /\ DOMAIN new = DOMAIN versions[d]
         /\ \A n \in DOMAIN versions[d] :
              /\ new[n].hash = versions[d][n].hash
              /\ new[n].blob = (versions[d][n].blob \/ [doc |-> d, version |-> n] \in S)
<1> DEFINE new == [n \in DOMAIN versions[d] |->
                      [versions[d][n] EXCEPT !.blob = @ \/ [doc |-> d, version |-> n] \in S]]
<1>1. versions[d] \in Seq(Version)
  BY DEF TypeInv
<1>2. Len(versions[d]) \in Nat /\ DOMAIN versions[d] = 1..Len(versions[d])
      /\ \A n \in DOMAIN versions[d] : versions[d][n] \in Version
  BY <1>1
<1>3. \A n \in DOMAIN versions[d] : 
        /\ new[n] = [versions[d][n] EXCEPT !.blob = @ \/ [doc |-> d, version |-> n] \in S]
        /\ versions[d][n] \in Version
  BY <1>2
<1>4. \A n \in DOMAIN versions[d] : 
        /\ new[n] \in Version
        /\ new[n].hash = versions[d][n].hash
        /\ new[n].blob = (versions[d][n].blob \/ [doc |-> d, version |-> n] \in S)
  <2> TAKE n \in DOMAIN versions[d]
  <2>1. versions[d][n] \in [hash : Hashes, blob : BOOLEAN]
    BY <1>3 DEF Version
  <2>2. new[n] = [versions[d][n] EXCEPT !.blob = versions[d][n].blob \/ [doc |-> d, version |-> n] \in S]
    BY <1>3
  <2> HIDE DEF new
  <2>3. new[n].hash = versions[d][n].hash
    BY <2>1, <2>2
  <2>4. new[n].blob = (versions[d][n].blob \/ [doc |-> d, version |-> n] \in S)
    BY <2>1, <2>2
  <2>5. new[n] \in Version
    BY <2>1, <2>2 DEF Version
  <2> QED
    BY <2>3, <2>4, <2>5
<1>5. DOMAIN new = 1..Len(versions[d])
  BY <1>2
<1> HIDE DEF new
<1>6. new \in Seq(Version) /\ Len(new) = Len(versions[d])
  <2>1. new \in [1..Len(versions[d]) -> Version]
    <3>1. new = [n \in 1..Len(versions[d]) |-> new[n]]
      BY <1>2 DEF new
    <3> QED
      BY <3>1, <1>2, <1>4
  <2> QED
    BY <2>1, <1>2
<1>7. DOMAIN new = DOMAIN versions[d]
  BY <1>2, <1>5
<1> QED
  BY <1>4, <1>6, <1>7 DEF new

\* What the end of the command writes.
LEMMA CommitTables ==
  ASSUME TypeInv, CommitCommand
  PROVE  /\ versions' \in [Paths -> Seq(Version)]
         /\ \A d \in Paths : /\ Len(versions'[d]) = Len(versions[d])
                             /\ DOMAIN versions'[d] = DOMAIN versions[d]
                             /\ \A n \in DOMAIN versions[d] :
                                  /\ versions'[d][n].hash = versions[d][n].hash
                                  /\ versions'[d][n].blob =
                                       (versions[d][n].blob \/ [doc |-> d, version |-> n] \in given)
         /\ chunks' \subseteq [doc : Paths, text : Hashes, version : Nat]
         /\ \A c \in chunks' : \E old \in chunks :
              /\ c.doc = old.doc /\ c.text = old.text
              /\ \/ c = old /\ (c.version = NoVersion => ~\E a \in assigned : a.doc = c.doc)
                 \/ old.version = NoVersion /\ \E a \in assigned : a.doc = c.doc /\ c.version = a.version
<1>1. versions' = [d \in Paths |-> [n \in DOMAIN versions[d] |->
                    [versions[d][n] EXCEPT !.blob = @ \/ [doc |-> d, version |-> n] \in given]]]
  BY DEF CommitCommand
<1>2. ASSUME NEW d \in Paths
      PROVE  /\ versions'[d] \in Seq(Version)
             /\ Len(versions'[d]) = Len(versions[d])
             /\ DOMAIN versions'[d] = DOMAIN versions[d]
             /\ \A n \in DOMAIN versions[d] :
                  /\ versions'[d][n].hash = versions[d][n].hash
                  /\ versions'[d][n].blob =
                       (versions[d][n].blob \/ [doc |-> d, version |-> n] \in given)
  <2>1. versions'[d] = [n \in DOMAIN versions[d] |->
                    [versions[d][n] EXCEPT !.blob = @ \/ [doc |-> d, version |-> n] \in given]]
    BY <1>1
  <2> QED
    BY <2>1, CommittedType
<1>3. ASSUME NEW c \in chunks'
      PROVE  /\ c \in [doc : Paths, text : Hashes, version : Nat]
             /\ \E old \in chunks :
                  /\ c.doc = old.doc /\ c.text = old.text
                  /\ \/ c = old /\ (c.version = NoVersion => ~\E a \in assigned : a.doc = c.doc)
                     \/ old.version = NoVersion /\ \E a \in assigned : a.doc = c.doc /\ c.version = a.version
  <2>1. PICK old \in chunks :
          c = IF old.version = NoVersion /\ \E a \in assigned : a.doc = old.doc
                THEN [old EXCEPT !.version = (CHOOSE a \in assigned : a.doc = old.doc).version]
                ELSE old
    BY DEF CommitCommand
  <2>2. old \in [doc : Paths, text : Hashes, version : Nat]
    BY DEF TypeInv
  <2>3. CASE old.version = NoVersion /\ \E a \in assigned : a.doc = old.doc
    <3> DEFINE a == CHOOSE x \in assigned : x.doc = old.doc
    <3>1. a \in assigned /\ a.doc = old.doc
      BY <2>3
    <3>2. c = [old EXCEPT !.version = a.version]
      BY <2>1, <2>3
    <3> HIDE DEF a
    <3>3. a.version \in Nat
      BY <3>1 DEF TypeInv
    <3>4. c.doc = old.doc /\ c.text = old.text /\ c.version = a.version
          /\ c \in [doc : Paths, text : Hashes, version : Nat]
      BY <2>2, <3>2, <3>3
    <3> QED
      BY <3>1, <3>4, <2>3
  <2>4. CASE ~(old.version = NoVersion /\ \E a \in assigned : a.doc = old.doc)
    <3>1. c = old
      BY <2>1, <2>4
    <3> QED
      BY <2>2, <2>4, <3>1
  <2> QED
    BY <2>3, <2>4
<1>4. versions' \in [Paths -> Seq(Version)]
  BY <1>1, <1>2
<1> QED
  BY <1>2, <1>3, <1>4

\* What a commit of an ingest writes.
LEMMA StoredIs ==
  ASSUME TypeInv, NEW r \in Runs, StoreCommit(r)
  PROVE  LET d == target[r].doc
             h == target[r].hash IN
         /\ d \in Paths /\ h \in Hashes
         /\ versions' \in [Paths -> Seq(Version)]
         /\ \A e \in Paths \ {d} : versions'[e] = versions[e]
         /\ Len(versions[d]) \in Nat /\ Len(versions'[d]) = Len(versions[d]) + 1
         /\ DOMAIN versions[d] = 1..Len(versions[d]) /\ DOMAIN versions'[d] = 1..(Len(versions[d]) + 1)
         /\ \A n \in DOMAIN versions[d] : versions'[d][n] = versions[d][n]
         /\ versions'[d][Len(versions[d]) + 1] = [hash |-> h, blob |-> TRUE]
<1> DEFINE d == target[r].doc
           h == target[r].hash
           new == [hash |-> h, blob |-> TRUE]
<1>1. d \in Paths /\ h \in Hashes
  BY DEF TypeInv
<1>2. versions' = [versions EXCEPT ![d] = Append(versions[d], new)]
  BY DEF StoreCommit
<1>3. new \in Version
  BY <1>1 DEF Version
<1>4. versions \in [Paths -> Seq(Version)]
  BY DEF TypeInv
<1> HIDE DEF d, h, new
<1>5. versions'[d] = Append(versions[d], new) /\ \A e \in Paths \ {d} : versions'[e] = versions[e]
  BY <1>1, <1>2, <1>4
<1>6. versions[d] \in Seq(Version)
  BY <1>1, <1>4
<1>7. /\ Append(versions[d], new) \in Seq(Version)
      /\ Len(versions[d]) \in Nat
      /\ Len(Append(versions[d], new)) = Len(versions[d]) + 1
      /\ DOMAIN versions[d] = 1..Len(versions[d])
      /\ DOMAIN Append(versions[d], new) = 1..(Len(versions[d]) + 1)
      /\ \A n \in DOMAIN versions[d] : Append(versions[d], new)[n] = versions[d][n]
      /\ Append(versions[d], new)[Len(versions[d]) + 1] = new
  BY <1>3, <1>6
<1>8. versions' \in [Paths -> Seq(Version)]
  BY <1>1, <1>2, <1>4, <1>7
<1>9. new = [hash |-> h, blob |-> TRUE]
  BY DEF new
<1> QED
  BY <1>1, <1>5, <1>7, <1>8, <1>9 DEF d, h

LEMMA NextTypeInv ==
  ASSUME TypeInv, CommandInv, [Next]_vars
  PROVE  TypeInv'
<1>1. CASE UNCHANGED vars
  BY <1>1 DEF vars, tables, command, TypeInv
<1>2. CASE List
  <2>1. PICK docs \in SetToSeqs({d \in Paths : IsLegacy(d)}) :
          /\ listed' = [i \in DOMAIN docs |-> [doc |-> docs[i], current |-> Len(versions[docs[i]])]]
          /\ promised' = ToSet(docs)
          /\ Goto(Migrate, IF docs = <<>> THEN "commit" ELSE "source")
    BY <1>2 DEF List
  <2>2. docs \in Seq(Paths) /\ listed' \in Seq([doc : Paths, current : Nat])
    BY <2>1, ListingType
  <2>3. promised' \subseteq Paths
    BY <2>1, <2>2 DEF ToSet
  <2>4. /\ pc' \in [Processes -> CommandPCs \cup RunPCs]
        /\ pc'[Migrate] \in CommandPCs /\ \A r \in Runs : pc'[r] \in RunPCs
    BY <2>1, GotoIs, ProcessesAre DEF CommandPCs
  <2>5. backfills' \in 0..MaxBackfills
    BY <1>2, MaxBackfillsAssumption DEF List, TypeInv
  <2> QED
    BY <1>2, <2>2, <2>3, <2>4, <2>5 DEF List, tables, TypeInv
<1>3. CASE InsertSource
  <2>1. /\ pc' \in [Processes -> CommandPCs \cup RunPCs]
        /\ pc'[Migrate] \in CommandPCs /\ \A r \in Runs : pc'[r] \in RunPCs
    BY <1>3, GotoIs, ProcessesAre DEF InsertSource, CommandPCs
  <2>2. <<"source", CurrentDoc>> \in Keys
    BY <1>3, CurrentIs, KeysOf DEF InsertSource, CommandInv
  <2>3. held' \in [Processes -> SUBSET Keys]
    BY <1>3, <2>2, HoldIs, ProcessesAre DEF InsertSource, TypeInv
  <2> QED
    BY <1>3, <2>1, <2>3 DEF InsertSource, tables, command, TypeInv
<1>4. CASE ReadVersions
  <2>1. /\ pc' \in [Processes -> CommandPCs \cup RunPCs]
        /\ pc'[Migrate] \in CommandPCs /\ \A r \in Runs : pc'[r] \in RunPCs
    BY <1>4, GotoIs, ProcessesAre DEF ReadVersions, CommandPCs
  <2>2. CurrentDoc \in Paths
    BY <1>4, CurrentIs DEF ReadVersions, CommandInv
  <2>3. rows' \in Seq(Nat)
    BY <1>4, <2>2, VersionsOfType DEF ReadVersions
  <2> QED
    BY <1>4, <2>1, <2>3 DEF ReadVersions, tables, TypeInv
<1>5. CASE InsertBlob
  <2>1. /\ pc' \in [Processes -> CommandPCs \cup RunPCs]
        /\ pc'[Migrate] \in CommandPCs /\ \A r \in Runs : pc'[r] \in RunPCs
    BY <1>5, GotoIs, ProcessesAre DEF InsertBlob, CommandPCs
  <2>2. pc[Migrate] = "blob"
    BY <1>5 DEF InsertBlob
  <2>3. CurrentDoc \in Paths /\ Head(rows) \in Nat /\ <<"blob", HashOf(Head(rows))>> \in Keys
        /\ Tail(rows) \in Seq(Nat)
    BY <2>2, RowIs, KeysOf
  <2>4. held' \in [Processes -> SUBSET Keys]
    BY <1>5, <2>3, HoldIs, ProcessesAre DEF InsertBlob, TypeInv
  <2>5. given' \subseteq [doc : Paths, version : Nat]
    BY <1>5, <2>3 DEF InsertBlob, TypeInv
  <2> QED
    BY <1>5, <2>1, <2>3, <2>4, <2>5 DEF InsertBlob, tables, TypeInv
<1>6. CASE UpdateChunks
  <2>1. /\ pc' \in [Processes -> CommandPCs \cup RunPCs]
        /\ pc'[Migrate] \in CommandPCs /\ \A r \in Runs : pc'[r] \in RunPCs
    BY <1>6, GotoIs, ProcessesAre DEF UpdateChunks, CommandPCs
  <2>2. /\ CurrentDoc \in Paths /\ VersionOfChunks \in Nat
        /\ Tail(listed) \in Seq([doc : Paths, current : Nat])
    BY <1>6, CurrentIs DEF UpdateChunks, CommandInv, VersionOfChunks
  <2>3. held' \in [Processes -> SUBSET Keys]
    BY <1>6, <2>2, KeysOf, HoldIs, ProcessesAre DEF UpdateChunks, TypeInv
  <2>4. assigned' \subseteq [doc : Paths, version : Nat]
    BY <1>6, <2>2 DEF UpdateChunks, TypeInv
  <2> QED
    BY <1>6, <2>1, <2>2, <2>3, <2>4 DEF UpdateChunks, tables, TypeInv
<1>7. CASE CommitCommand
  <2>1. /\ pc' \in [Processes -> CommandPCs \cup RunPCs]
        /\ pc'[Migrate] \in CommandPCs /\ \A r \in Runs : pc'[r] \in RunPCs
    BY <1>7, GotoIs, ProcessesAre DEF CommitCommand, EndCommand, CommandPCs
  <2>2. held' \in [Processes -> SUBSET Keys]
    BY <1>7, EndIs, ProcessesAre DEF CommitCommand, EndCommand
  <2>3. /\ versions' \in [Paths -> Seq(Version)]
        /\ chunks' \subseteq [doc : Paths, text : Hashes, version : Nat]
    BY <1>7, CommitTables
  <2>4. sources' \subseteq Paths /\ blobs' \subseteq Hashes
    BY <1>7 DEF CommitCommand, TypeInv
  <2>5. links' \subseteq [source : Paths, doc : Paths, version : Nat]
    BY <1>7 DEF CommitCommand, TypeInv
  <2>6. listed' \in Seq([doc : Paths, current : Nat]) /\ rows' \in Seq(Nat)
    BY <1>7 DEF CommitCommand, EndCommand
  <2>7. given' \subseteq [doc : Paths, version : Nat] /\ assigned' \subseteq [doc : Paths, version : Nat]
        /\ backfills' \in 0..MaxBackfills /\ promised' \subseteq Paths
        /\ target' \in [Runs -> [doc : Paths, hash : Hashes]]
    BY <1>7 DEF CommitCommand, EndCommand, TypeInv
  <2> QED
    BY <2>1, <2>2, <2>3, <2>4, <2>5, <2>6, <2>7 DEF TypeInv
<1>8. CASE RollBackCommand
  <2>1. /\ pc' \in [Processes -> CommandPCs \cup RunPCs]
        /\ pc'[Migrate] \in CommandPCs /\ \A r \in Runs : pc'[r] \in RunPCs
    BY <1>8, GotoIs, ProcessesAre DEF RollBackCommand, EndCommand, CommandPCs
  <2>2. held' \in [Processes -> SUBSET Keys]
    BY <1>8, EndIs, ProcessesAre DEF RollBackCommand, EndCommand
  <2>3. listed' \in Seq([doc : Paths, current : Nat]) /\ rows' \in Seq(Nat)
    BY <1>8 DEF RollBackCommand, EndCommand
  <2> QED
    BY <1>8, <2>1, <2>2, <2>3 DEF RollBackCommand, EndCommand, tables, TypeInv
<1>9. ASSUME NEW r \in Runs, Check(r) PROVE TypeInv'
  <2>1. /\ pc' \in [Processes -> CommandPCs \cup RunPCs]
        /\ pc'[Migrate] \in CommandPCs /\ \A q \in Runs : pc'[q] \in RunPCs
    BY <1>9, GotoIs, ProcessesAre DEF Check, RunPCs
  <2> QED
    BY <1>9, <2>1 DEF Check, tables, command, TypeInv
<1>10. ASSUME NEW r \in Runs, Link(r) PROVE TypeInv'
  <2>1. /\ pc' \in [Processes -> CommandPCs \cup RunPCs]
        /\ pc'[Migrate] \in CommandPCs /\ \A q \in Runs : pc'[q] \in RunPCs
    BY <1>10, GotoIs, ProcessesAre DEF Link, RunPCs
  <2>2. target[r].doc \in Paths
    BY DEF TypeInv
  <2>3. PICK v \in Versions :
          links' = links \cup {[source |-> target[r].doc, doc |-> v.doc, version |-> v.version]}
    BY <1>10 DEF Link
  <2>4. v.doc \in Paths /\ v.version \in Nat
    <3>1. PICK d \in Paths : \E n \in DOMAIN versions[d] : v = [doc |-> d, version |-> n]
      BY DEF Versions
    <3> QED
      BY <3>1, VersionsOfType
  <2>5. sources' \subseteq Paths /\ links' \subseteq [source : Paths, doc : Paths, version : Nat]
    BY <1>10, <2>2, <2>3, <2>4 DEF Link, TypeInv
  <2> QED
    BY <1>10, <2>1, <2>5 DEF Link, command, TypeInv
<1>11. ASSUME NEW r \in Runs, NEW label, NEW k \in Keys, NEW next \in RunPCs, Write(r, label, k, next)
       PROVE  TypeInv'
  <2>1. /\ pc' \in [Processes -> CommandPCs \cup RunPCs]
        /\ pc'[Migrate] \in CommandPCs /\ \A q \in Runs : pc'[q] \in RunPCs
    BY <1>11, GotoIs, ProcessesAre DEF Write
  <2>2. held' \in [Processes -> SUBSET Keys]
    BY <1>11, HoldIs, ProcessesAre DEF Write
  <2> QED
    BY <1>11, <2>1, <2>2 DEF Write, tables, command, TypeInv
<1>12. ASSUME NEW r \in Runs, StoreBlob(r) \/ StoreSource(r) \/ StoreDocument(r) PROVE TypeInv'
  <2>1. target[r].doc \in Paths /\ target[r].hash \in Hashes
    BY DEF TypeInv
  <2>2. <<"blob", target[r].hash>> \in Keys /\ <<"source", target[r].doc>> \in Keys
        /\ <<"chunks", target[r].doc>> \in Keys
    BY <2>1, KeysOf
  <2> QED
    BY <1>11, <1>12, <2>2 DEF StoreBlob, StoreSource, StoreDocument, RunPCs
<1>13. ASSUME NEW r \in Runs, StoreCommit(r) PROVE TypeInv'
  <2>1. /\ pc' \in [Processes -> CommandPCs \cup RunPCs]
        /\ pc'[Migrate] \in CommandPCs /\ \A q \in Runs : pc'[q] \in RunPCs
    BY <1>13, GotoIs, ProcessesAre DEF StoreCommit, RunPCs
  <2>2. held' \in [Processes -> SUBSET Keys]
    BY <1>13, EndIs, ProcessesAre DEF StoreCommit
  <2>3. /\ target[r].doc \in Paths /\ target[r].hash \in Hashes
        /\ versions' \in [Paths -> Seq(Version)]
        /\ Len(versions[target[r].doc]) \in Nat
    BY <1>13, StoredIs
  <2>4. chunks' \subseteq [doc : Paths, text : Hashes, version : Nat]
        /\ sources' \subseteq Paths /\ blobs' \subseteq Hashes
        /\ links' \subseteq [source : Paths, doc : Paths, version : Nat]
    BY <1>13, <2>3 DEF StoreCommit, TypeInv
  <2> QED
    BY <1>13, <2>1, <2>2, <2>3, <2>4 DEF StoreCommit, command, TypeInv
<1>14. ASSUME NEW r \in Runs, RollBack(r) PROVE TypeInv'
  <2>1. /\ pc' \in [Processes -> CommandPCs \cup RunPCs]
        /\ pc'[Migrate] \in CommandPCs /\ \A q \in Runs : pc'[q] \in RunPCs
    BY <1>14, GotoIs, ProcessesAre DEF RollBack, RunPCs
  <2>2. held' \in [Processes -> SUBSET Keys]
    BY <1>14, EndIs, ProcessesAre DEF RollBack
  <2> QED
    BY <1>14, <2>1, <2>2 DEF RollBack, tables, command, TypeInv
<1> QED
  BY <1>1, <1>2, <1>3, <1>4, <1>5, <1>6, <1>7, <1>8, <1>9, <1>10, <1>12, <1>13, <1>14, NextCases

LEMMA TailIs ==
  ASSUME NEW S, NEW s \in Seq(S), s # <<>>
  PROVE  /\ s[1] \in S /\ Head(s) = s[1] /\ Tail(s) \in Seq(S)
         /\ 1 \in DOMAIN s
         /\ Tail(s) = <<>> <=> Len(s) = 1
         /\ \A i \in DOMAIN Tail(s) : i + 1 \in DOMAIN s /\ Tail(s)[i] = s[i + 1]
         /\ \A i \in DOMAIN s : i # 1 => i - 1 \in DOMAIN Tail(s) /\ Tail(s)[i - 1] = s[i]
<1>1. /\ s[1] \in S /\ Head(s) = s[1] /\ Tail(s) \in Seq(S)
      /\ Len(s) \in Nat /\ Len(s) > 0 /\ DOMAIN s = 1..Len(s)
      /\ Len(Tail(s)) = Len(s) - 1 /\ DOMAIN Tail(s) = 1..(Len(s) - 1)
      /\ \A i \in 1..(Len(s) - 1) : Tail(s)[i] = s[i + 1]
  OBVIOUS
<1>2. Tail(s) = <<>> <=> Len(s) = 1
  <2> DEFINE t == Tail(s)
  <2>1. t \in Seq(S) /\ Len(t) = Len(s) - 1
    BY <1>1
  <2> HIDE DEF t
  <2>2. t = <<>> <=> Len(t) = 0
    BY <2>1, EmptySeq
  <2> QED
    BY <1>1, <2>1, <2>2 DEF t
<1>3. \A i \in DOMAIN Tail(s) : i + 1 \in DOMAIN s /\ Tail(s)[i] = s[i + 1]
  <2> TAKE i \in DOMAIN Tail(s)
  <2>1. i \in 1..(Len(s) - 1) /\ i + 1 \in 1..Len(s)
    BY <1>1
  <2> QED
    BY <1>1, <2>1
<1>4. \A i \in DOMAIN s : i # 1 => i - 1 \in DOMAIN Tail(s) /\ Tail(s)[i - 1] = s[i]
  <2> TAKE i \in DOMAIN s
  <2> SUFFICES ASSUME i # 1 PROVE i - 1 \in DOMAIN Tail(s) /\ Tail(s)[i - 1] = s[i]
    OBVIOUS
  <2>1. i - 1 \in 1..(Len(s) - 1) /\ (i - 1) + 1 = i
    BY <1>1
  <2> QED
    BY <1>1, <2>1
<1> QED
  BY <1>1, <1>2, <1>3, <1>4

-----------------------------------------------------------------------------
(* What an ingest does to the command *)

\* A step of an ingest takes no version, source or link away, and a version that it
\* adds is canonical.  The chunks of a document that gets a version have that one.
IngestEffect ==
  /\ UNCHANGED command /\ pc'[Migrate] = pc[Migrate] /\ held'[Migrate] = held[Migrate]
  /\ sources \subseteq sources' /\ links \subseteq links'
  /\ \A c \in chunks' :
       \/ c \in chunks /\ versions'[c.doc] = versions[c.doc]
       \/ /\ c.version # NoVersion /\ c.version \in DOMAIN versions'[c.doc]
          /\ versions'[c.doc][c.version].hash = c.text
  /\ \A d \in Paths :
       /\ \A n \in DOMAIN versions[d] : n \in DOMAIN versions'[d] /\ versions'[d][n] = versions[d][n]
       /\ \A n \in DOMAIN versions'[d] : n \in DOMAIN versions[d]
            \/ /\ versions'[d][n].blob /\ d \in sources'
               /\ \E l \in links' : l.doc = d /\ l.version = n

LEMMA IngestStep ==
  ASSUME TypeInv, NEW r \in Runs,
         \/ Check(r) \/ Link(r) \/ StoreBlob(r) \/ StoreSource(r)
         \/ StoreDocument(r) \/ StoreCommit(r) \/ RollBack(r)
  PROVE  IngestEffect
<1> USE ProcessesAre
<1>1. CASE Check(r)
  <2>1. pc'[Migrate] = pc[Migrate]
    BY <1>1, GotoIs DEF Check, RunPCs
  <2>2. UNCHANGED <<tables, held, command>>
    BY <1>1 DEF Check
  <2> QED
    BY <2>1, <2>2 DEF tables, command, IngestEffect
<1>2. CASE Link(r)
  <2>1. pc'[Migrate] = pc[Migrate]
    BY <1>2, GotoIs DEF Link, RunPCs
  <2>2. UNCHANGED <<versions, chunks, held, command>> /\ sources \subseteq sources' /\ links \subseteq links'
    BY <1>2 DEF Link
  <2> QED
    BY <2>1, <2>2 DEF command, IngestEffect
<1>3. ASSUME NEW label, NEW k \in Keys, NEW next \in RunPCs, Write(r, label, k, next)
      PROVE  IngestEffect
  <2>1. pc'[Migrate] = pc[Migrate] /\ held'[Migrate] = held[Migrate]
    BY <1>3, GotoIs, HoldIs DEF Write
  <2>2. UNCHANGED <<tables, command>>
    BY <1>3 DEF Write
  <2> QED
    BY <2>1, <2>2 DEF tables, command, IngestEffect
<1>4. CASE StoreBlob(r) \/ StoreSource(r) \/ StoreDocument(r)
  <2>1. target[r].doc \in Paths /\ target[r].hash \in Hashes
    BY DEF TypeInv
  <2>2. <<"blob", target[r].hash>> \in Keys /\ <<"source", target[r].doc>> \in Keys
        /\ <<"chunks", target[r].doc>> \in Keys
    BY <2>1, KeysOf
  <2> QED
    BY <1>3, <1>4, <2>2 DEF StoreBlob, StoreSource, StoreDocument, RunPCs
<1>5. CASE StoreCommit(r)
  <2> DEFINE d == target[r].doc
             h == target[r].hash
             m == Len(versions[d]) + 1
  <2>1. /\ d \in Paths /\ h \in Hashes
        /\ \A e \in Paths \ {d} : versions'[e] = versions[e]
        /\ Len(versions[d]) \in Nat
        /\ DOMAIN versions[d] = 1..Len(versions[d]) /\ DOMAIN versions'[d] = 1..m
        /\ \A n \in DOMAIN versions[d] : versions'[d][n] = versions[d][n]
        /\ versions'[d][m] = [hash |-> h, blob |-> TRUE]
    BY <1>5, StoredIs
  <2>2. /\ chunks' = {c \in chunks : c.doc # d} \cup {[doc |-> d, text |-> h, version |-> m]}
        /\ sources' = sources \cup {d}
        /\ links' = links \cup {[source |-> d, doc |-> d, version |-> m]}
    BY <1>5 DEF StoreCommit
  <2>3. UNCHANGED command /\ pc'[Migrate] = pc[Migrate] /\ held'[Migrate] = held[Migrate]
    BY <1>5, GotoIs, EndIs DEF StoreCommit, RunPCs
  <2> HIDE DEF d, h
  <2>4. \A c \in chunks' :
          \/ c \in chunks /\ versions'[c.doc] = versions[c.doc]
          \/ /\ c.version # NoVersion /\ c.version \in DOMAIN versions'[c.doc]
             /\ versions'[c.doc][c.version].hash = c.text
    <3> SUFFICES ASSUME NEW c \in chunks'
                 PROVE  \/ c \in chunks /\ versions'[c.doc] = versions[c.doc]
                        \/ /\ c.version # NoVersion /\ c.version \in DOMAIN versions'[c.doc]
                           /\ versions'[c.doc][c.version].hash = c.text
      OBVIOUS
    <3>1. CASE c \in chunks /\ c.doc # d
      BY <3>1, <2>1 DEF TypeInv
    <3>2. CASE c = [doc |-> d, text |-> h, version |-> m]
      <4>1. c.doc = d /\ c.text = h /\ c.version = m
        BY <3>2
      <4>2. m # 0 /\ m \in 1..m
        BY <2>1
      <4> QED
        BY <4>1, <4>2, <2>1 DEF NoVersion
    <3> QED
      BY <2>2, <3>1, <3>2
  <2>5. ASSUME NEW e \in Paths
        PROVE  /\ \A n \in DOMAIN versions[e] : n \in DOMAIN versions'[e] /\ versions'[e][n] = versions[e][n]
               /\ \A n \in DOMAIN versions'[e] : n \in DOMAIN versions[e]
                    \/ /\ versions'[e][n].blob /\ e \in sources'
                       /\ \E l \in links' : l.doc = e /\ l.version = n
    <3>1. CASE e # d
      BY <3>1, <2>1
    <3>2. CASE e = d
      <4>1. \A n \in DOMAIN versions[d] : n \in DOMAIN versions'[d] /\ versions'[d][n] = versions[d][n]
        BY <2>1
      <4>2. \A n \in DOMAIN versions'[d] : n \in DOMAIN versions[d] \/ n = m
        BY <2>1
      <4>3. versions'[d][m].blob /\ d \in sources'
        BY <2>1, <2>2
      <4>4. [source |-> d, doc |-> d, version |-> m] \in links'
        BY <2>2
      <4>5. \E l \in links' : l.doc = d /\ l.version = m
        BY <4>4
      <4> QED
        BY <3>2, <4>1, <4>2, <4>3, <4>5
    <3> QED
      BY <3>1, <3>2
  <2>6. sources \subseteq sources' /\ links \subseteq links'
    BY <2>2
  <2> QED
    BY <2>3, <2>4, <2>5, <2>6 DEF IngestEffect
<1>6. CASE RollBack(r)
  <2>1. pc'[Migrate] = pc[Migrate] /\ held'[Migrate] = held[Migrate]
    BY <1>6, GotoIs, EndIs DEF RollBack, RunPCs
  <2>2. UNCHANGED <<tables, command>>
    BY <1>6 DEF RollBack
  <2> QED
    BY <2>1, <2>2 DEF tables, command, IngestEffect
<1> QED
  BY <1>1, <1>2, <1>4, <1>5, <1>6

-----------------------------------------------------------------------------
(* The lists of the command *)

LEMMA InitCommandInv == Init => CommandInv
BY MigrateAssumption DEF Init, Processes, CommandInv

LEMMA NextCommandInv ==
  ASSUME TypeInv, CommandInv, [Next]_vars
  PROVE  CommandInv'
<1> DEFINE Doc == [doc : Paths, current : Nat]
<1>1. listed \in Seq(Doc) /\ rows \in Seq(Nat)
  BY DEF TypeInv
<1> HIDE DEF Doc
<1> USE ProcessesAre
<1>2. CASE UNCHANGED vars
  BY <1>2 DEF vars, tables, command, CommandInv, CurrentDoc
<1>3. CASE List
  <2>1. PICK docs \in SetToSeqs({d \in Paths : IsLegacy(d)}) :
          /\ listed' = [i \in DOMAIN docs |-> [doc |-> docs[i], current |-> Len(versions[docs[i]])]]
          /\ Goto(Migrate, IF docs = <<>> THEN "commit" ELSE "source")
    BY <1>3 DEF List
  <2>2. docs \in Seq(Paths)
    BY <2>1, ListingType
  <2>3. pc'[Migrate] = IF docs = <<>> THEN "commit" ELSE "source"
    BY <2>1, GotoIs DEF CommandPCs
  <2>4. ASSUME docs # <<>> PROVE listed' # <<>>
    BY <2>1, <2>2, <2>4
  <2> QED
    BY <2>3, <2>4 DEF CommandInv
<1>4. CASE InsertSource
  <2>1. pc'[Migrate] = "versions" /\ listed' = listed
    BY <1>4, GotoIs DEF InsertSource, command, CommandPCs
  <2> QED
    BY <1>4, <2>1 DEF InsertSource, CommandInv
<1>5. CASE ReadVersions
  <2>1. listed # <<>> /\ CurrentDoc \in Paths /\ CurrentDoc' = CurrentDoc /\ listed' = listed
        /\ versions' = versions /\ rows' = VersionsOf(CurrentDoc)
    BY <1>5, CurrentIs DEF ReadVersions, CommandInv, CurrentDoc, tables
  <2>2. pc'[Migrate] = IF rows' = <<>> THEN "chunks" ELSE "blob"
    BY <1>5, GotoIs DEF ReadVersions, CommandPCs
  <2>3. \A i \in DOMAIN rows' : rows'[i] \in DOMAIN versions'[CurrentDoc']
    BY <2>1, VersionsOfType
  <2> QED
    BY <2>1, <2>2, <2>3 DEF CommandInv
<1>6. CASE InsertBlob
  <2>1. pc[Migrate] = "blob" /\ listed # <<>> /\ CurrentDoc' = CurrentDoc /\ listed' = listed
        /\ versions' = versions /\ rows' = Tail(rows) /\ rows # <<>>
    BY <1>6 DEF InsertBlob, CommandInv, CurrentDoc, tables
  <2>2. pc'[Migrate] = IF Len(rows) = 1 THEN "chunks" ELSE "blob"
    BY <1>6, GotoIs DEF InsertBlob, CommandPCs
  <2>3. \A i \in DOMAIN rows' : rows'[i] \in DOMAIN versions'[CurrentDoc']
    BY <1>1, <2>1, TailIs DEF CommandInv
  <2> QED
    BY <1>1, <2>1, <2>2, <2>3, TailIs DEF CommandInv
<1>7. CASE UpdateChunks
  <2>1. listed # <<>> /\ listed' = Tail(listed)
    BY <1>7 DEF UpdateChunks, CommandInv
  <2>2. pc'[Migrate] = IF Len(listed) = 1 THEN "commit" ELSE "source"
    BY <1>7, GotoIs DEF UpdateChunks, CommandPCs
  <2> QED
    BY <1>1, <2>1, <2>2, TailIs DEF CommandInv
<1>8. CASE CommitCommand \/ RollBackCommand
  <2>1. pc'[Migrate] \in {"done", "failed"}
    BY <1>8, GotoIs DEF CommitCommand, RollBackCommand, EndCommand, CommandPCs
  <2> QED
    BY <2>1 DEF CommandInv
<1>9. ASSUME NEW r \in Runs,
             \/ Check(r) \/ Link(r) \/ StoreBlob(r) \/ StoreSource(r)
             \/ StoreDocument(r) \/ StoreCommit(r) \/ RollBack(r)
      PROVE  CommandInv'
  <2>1. IngestEffect
    BY <1>9, IngestStep
  <2>2. pc'[Migrate] = pc[Migrate] /\ listed' = listed /\ rows' = rows /\ CurrentDoc' = CurrentDoc
    BY <2>1 DEF IngestEffect, command, CurrentDoc
  <2>3. ASSUME listed # <<>>, NEW n \in DOMAIN versions[CurrentDoc] PROVE n \in DOMAIN versions'[CurrentDoc]
    BY <2>1, <2>3, CurrentIs DEF IngestEffect
  <2> QED
    BY <2>2, <2>3 DEF CommandInv
<1> QED
  BY <1>2, <1>3, <1>4, <1>5, <1>6, <1>7, <1>8, <1>9, NextCases

-----------------------------------------------------------------------------
(* The chunks *)

LEMMA LastIs ==
  ASSUME NEW S, NEW s \in Seq(S), s # <<>>
  PROVE  Last(s) = s[Len(s)] /\ Len(s) \in DOMAIN s /\ Len(s) # 0 /\ Len(s) \in Nat
BY DEF Last

LEMMA InitChunkInv == Init => ChunkInv
<1> SUFFICES ASSUME Init PROVE ChunkInv
  OBVIOUS
<1>1. ASSUME NEW c \in chunks
      PROVE  versions[c.doc] # <<>> /\ c.version = NoVersion /\ c.text = Last(versions[c.doc]).hash
  <2>1. PICK d \in {p \in Paths : Legacy[p] # <<>>} :
          c = [doc |-> d, text |-> Last(Legacy[d]), version |-> NoVersion]
    BY DEF Init
  <2>2. Legacy[d] \in Seq(Hashes) /\ Legacy[d] # <<>>
    BY LegacyAssumption
  <2>3. versions[d] = [n \in DOMAIN Legacy[d] |-> [hash |-> Legacy[d][n], blob |-> FALSE]]
    BY DEF Init
  <2>4. TypeInv
    BY InitTypeInv
  <2>5. versions[d] \in Seq(Version)
    BY <2>4 DEF TypeInv
  <2>6. DOMAIN versions[d] = DOMAIN Legacy[d]
    BY <2>3
  <2>7. versions[d] # <<>> /\ Len(versions[d]) = Len(Legacy[d])
    BY <2>2, <2>5, <2>6
  <2>8. Last(versions[d]).hash = Legacy[d][Len(Legacy[d])]
    BY <2>2, <2>3, <2>5, <2>7, LastIs
  <2>9. Last(Legacy[d]) = Legacy[d][Len(Legacy[d])]
    BY <2>2, LastIs
  <2> QED
    BY <2>1, <2>7, <2>8, <2>9
<1>2. listed = <<>> /\ assigned = {}
  BY DEF Init
<1> QED
  BY <1>1, <1>2 DEF ChunkInv

LEMMA NextChunkInv ==
  ASSUME TypeInv, CommandInv, ChunkInv, [Next]_vars
  PROVE  ChunkInv'
<1> DEFINE Doc == [doc : Paths, current : Nat]
<1>1. listed \in Seq(Doc)
  BY DEF TypeInv
<1> HIDE DEF Doc
<1>2. CASE UNCHANGED vars
  BY <1>2 DEF vars, tables, command, ChunkInv, WithUnversioned
\* The steps that leave the chunks and the versions alone.
<1>3. ASSUME UNCHANGED <<chunks, versions>>,
             \A i \in DOMAIN listed' : listed'[i].doc \in WithUnversioned =>
               listed'[i].current = Len(versions[listed'[i].doc]),
             \A a \in assigned' : a.doc \in WithUnversioned => a.version = Len(versions[a.doc])
      PROVE  ChunkInv'
  <2>1. WithUnversioned' = WithUnversioned
    BY <1>3 DEF WithUnversioned
  <2> QED
    BY <1>3, <2>1 DEF ChunkInv
<1>4. CASE List
  <2>1. PICK docs \in SetToSeqs({d \in Paths : IsLegacy(d)}) :
          listed' = [i \in DOMAIN docs |-> [doc |-> docs[i], current |-> Len(versions[docs[i]])]]
    BY <1>4 DEF List
  <2>2. UNCHANGED <<chunks, versions, assigned>>
    BY <1>4 DEF List, tables
  <2> QED
    BY <1>3, <2>1, <2>2 DEF ChunkInv
<1>5. CASE InsertSource \/ ReadVersions \/ InsertBlob
  BY <1>3, <1>5 DEF InsertSource, ReadVersions, InsertBlob, tables, command, ChunkInv
<1>6. CASE UpdateChunks
  <2>1. listed # <<>> /\ listed' = Tail(listed) /\ UNCHANGED <<chunks, versions>>
    BY <1>6 DEF UpdateChunks, CommandInv, tables
  <2>2. \A i \in DOMAIN listed' : i + 1 \in DOMAIN listed /\ listed'[i] = listed[i + 1]
    BY <1>1, <2>1, TailIs
  <2>3. 1 \in DOMAIN listed /\ Head(listed) = listed[1]
    BY <1>1, <2>1, TailIs
  <2>4. ASSUME NEW a \in assigned', a.doc \in WithUnversioned PROVE a.version = Len(versions[a.doc])
    <3>1. CASE a \in assigned
      BY <2>4, <3>1 DEF ChunkInv
    <3>2. CASE a = [doc |-> CurrentDoc, version |-> VersionOfChunks]
      BY <2>3, <2>4, <3>2 DEF CurrentDoc, VersionOfChunks, ChunkInv
    <3> QED
      BY <1>6, <3>1, <3>2 DEF UpdateChunks
  <2> QED
    BY <1>3, <2>1, <2>2, <2>4 DEF ChunkInv
<1>7. CASE CommitCommand
  <2>1. ASSUME NEW c \in chunks'
        PROVE  /\ versions'[c.doc] # <<>>
               /\ c.version = NoVersion => c.text = Last(versions'[c.doc]).hash
               /\ c.version # NoVersion => c.version \in DOMAIN versions'[c.doc]
                                           /\ versions'[c.doc][c.version].hash = c.text
    <3>1. PICK old \in chunks :
            /\ c.doc = old.doc /\ c.text = old.text
            /\ \/ c = old
               \/ old.version = NoVersion /\ \E a \in assigned : a.doc = c.doc /\ c.version = a.version
      BY <1>7, CommitTables
    <3>2. c.doc \in Paths /\ versions[c.doc] # <<>>
      BY <3>1 DEF TypeInv, ChunkInv
    <3>3. versions[c.doc] \in Seq(Version) /\ versions'[c.doc] \in Seq(Version)
          /\ Len(versions'[c.doc]) = Len(versions[c.doc])
          /\ DOMAIN versions'[c.doc] = DOMAIN versions[c.doc]
          /\ \A n \in DOMAIN versions[c.doc] : versions'[c.doc][n].hash = versions[c.doc][n].hash
      BY <1>7, <3>2, CommitTables DEF TypeInv
    <3>4. versions'[c.doc] # <<>>
      BY <3>2, <3>3
    <3>5. Last(versions'[c.doc]).hash = Last(versions[c.doc]).hash
          /\ Len(versions[c.doc]) \in DOMAIN versions[c.doc]
          /\ Len(versions[c.doc]) # NoVersion
          /\ Last(versions[c.doc]).hash = versions[c.doc][Len(versions[c.doc])].hash
      BY <3>2, <3>3, <3>4, LastIs DEF NoVersion
    <3>6. CASE c = old
      BY <3>3, <3>4, <3>5, <3>6 DEF ChunkInv
    <3>7. ASSUME old.version = NoVersion, NEW a \in assigned, a.doc = c.doc, c.version = a.version
          PROVE  c.version # NoVersion /\ c.version \in DOMAIN versions'[c.doc]
                 /\ versions'[c.doc][c.version].hash = c.text
      <4>1. c.doc \in WithUnversioned
        BY <3>1, <3>7 DEF WithUnversioned
      <4>2. c.version = Len(versions[c.doc])
        BY <3>7, <4>1 DEF ChunkInv
      <4>3. c.text = Last(versions[c.doc]).hash
        BY <3>1, <3>7 DEF ChunkInv
      <4> QED
        BY <3>3, <3>5, <4>2, <4>3
    <3> QED
      BY <3>1, <3>4, <3>6, <3>7
  <2>2. listed' = <<>> /\ assigned' = {}
    BY <1>7 DEF CommitCommand, EndCommand
  <2> QED
    BY <2>1, <2>2 DEF ChunkInv
<1>8. CASE RollBackCommand
  BY <1>3, <1>8 DEF RollBackCommand, EndCommand, tables
<1>9. ASSUME NEW r \in Runs,
             \/ Check(r) \/ Link(r) \/ StoreBlob(r) \/ StoreSource(r)
             \/ StoreDocument(r) \/ StoreCommit(r) \/ RollBack(r)
      PROVE  ChunkInv'
  <2>1. IngestEffect /\ TypeInv'
    <3>1. Next
      BY <1>9 DEF Next, IngestRuns
    <3> QED
      BY <1>9, <3>1, IngestStep, NextTypeInv
  <2>2. ASSUME NEW d \in WithUnversioned' PROVE d \in WithUnversioned /\ versions'[d] = versions[d]
    <3>1. PICK c \in chunks' : c.doc = d /\ c.version = NoVersion
      BY DEF WithUnversioned
    <3> QED
      BY <2>1, <3>1 DEF IngestEffect, WithUnversioned
  <2>3. ASSUME NEW c \in chunks'
        PROVE  /\ versions'[c.doc] # <<>>
               /\ c.version = NoVersion => c.text = Last(versions'[c.doc]).hash
               /\ c.version # NoVersion => c.version \in DOMAIN versions'[c.doc]
                                           /\ versions'[c.doc][c.version].hash = c.text
    <3>1. CASE c \in chunks /\ versions'[c.doc] = versions[c.doc]
      BY <3>1 DEF ChunkInv
    <3>2. CASE /\ c.version # NoVersion /\ c.version \in DOMAIN versions'[c.doc]
               /\ versions'[c.doc][c.version].hash = c.text
      <4>1. versions'[c.doc] # <<>>
        BY <3>2
      <4> QED
        BY <3>2, <4>1
    <3> QED
      BY <2>1, <3>1, <3>2 DEF IngestEffect
  <2>4. listed' = listed /\ assigned' = assigned
    BY <2>1 DEF IngestEffect, command
  <2> QED
    BY <2>2, <2>3, <2>4 DEF ChunkInv
<1> QED
  BY <1>2, <1>4, <1>5, <1>6, <1>7, <1>8, <1>9, NextCases

-----------------------------------------------------------------------------
\* A chunk is of its version, although the command has read which one is current
\* with the listing and gives it to the chunks later: from the listing to its end a
\* document whose chunks have no version has not been ingested again.
THEOREM ChunksAreOfTheirVersion == Spec => []ChunkIsOfItsVersion
<1> DEFINE Inv == TypeInv /\ CommandInv /\ ChunkInv
<1>1. Init => Inv
  BY InitTypeInv, InitCommandInv, InitChunkInv
<1>2. Inv /\ [Next]_vars => Inv'
  BY NextTypeInv, NextCommandInv, NextChunkInv
<1>3. Inv => ChunkIsOfItsVersion
  BY DEF ChunkInv, ChunkIsOfItsVersion
<1> QED
  BY <1>1, <1>2, <1>3, PTL DEF Spec

-----------------------------------------------------------------------------
(* What the command owes *)

\* The command takes back nothing before it ends.
LEMMA OwedStays ==
  ASSUME UNCHANGED <<versions, chunks, sources, links>>, NEW d,
         held[Migrate] \subseteq held'[Migrate], given \subseteq given', assigned \subseteq assigned'
  PROVE  /\ HasSource(d) => HasSource(d)'
         /\ \A n : VersionDone(d, n) => VersionDone(d, n)'
         /\ VersionsDone(d) => VersionsDone(d)'
         /\ Ready(d) => Ready(d)'
<1>1. HasSource(d) => HasSource(d)'
  BY DEF HasSource
<1>2. \A n : VersionDone(d, n) => VersionDone(d, n)'
  BY DEF VersionDone, Linked
<1>3. VersionsDone(d) => VersionsDone(d)'
  BY <1>2 DEF VersionsDone
<1>4. ChunksDone(d) => ChunksDone(d)'
  BY DEF ChunksDone, WithUnversioned
<1> QED
  BY <1>1, <1>2, <1>3, <1>4 DEF Ready

\* Neither does an ingest, and the version that it adds owes nothing.
LEMMA IngestOwesNothing ==
  ASSUME TypeInv, IngestEffect, NEW d \in Paths
  PROVE  /\ HasSource(d) => HasSource(d)'
         /\ \A n \in DOMAIN versions'[d] :
              (n \in DOMAIN versions[d] /\ VersionDone(d, n)) \/ n \notin DOMAIN versions[d]
                => VersionDone(d, n)'
         /\ VersionsDone(d) => VersionsDone(d)'
         /\ Ready(d) => Ready(d)'
         /\ d \in sources /\ ~IsLegacy(d) => ~IsLegacy(d)'
<1>1. HasSource(d) => HasSource(d)'
  BY DEF HasSource, IngestEffect
<1>2. given' = given /\ assigned' = assigned
  BY DEF IngestEffect, command
<1>3. ASSUME NEW n \in DOMAIN versions'[d], n \in DOMAIN versions[d]
      PROVE  versions'[d][n] = versions[d][n] /\ (Linked(d, n) => Linked(d, n)')
  BY <1>3 DEF IngestEffect, Linked
<1>4. ASSUME NEW n \in DOMAIN versions'[d], n \notin DOMAIN versions[d]
      PROVE  versions'[d][n].blob /\ Linked(d, n)'
  BY <1>4 DEF IngestEffect, Linked
<1>5. \A n \in DOMAIN versions'[d] :
        (n \in DOMAIN versions[d] /\ VersionDone(d, n)) \/ n \notin DOMAIN versions[d]
          => VersionDone(d, n)'
  BY <1>2, <1>3, <1>4 DEF VersionDone
<1>6. VersionsDone(d) => VersionsDone(d)'
  BY <1>5 DEF VersionsDone
<1>7. d \in WithUnversioned' => d \in WithUnversioned
  <2> SUFFICES ASSUME d \in WithUnversioned' PROVE d \in WithUnversioned
    OBVIOUS
  <2>1. PICK c \in chunks' : c.doc = d /\ c.version = NoVersion
    BY DEF WithUnversioned
  <2>2. c \in chunks
    BY <2>1 DEF IngestEffect
  <2> QED
    BY <2>1, <2>2 DEF WithUnversioned
<1>8. ChunksDone(d) => ChunksDone(d)'
  BY <1>2, <1>7 DEF ChunksDone
<1>9. ASSUME ~IsLegacy(d) PROVE ~IsLegacy(d)'
  <2>1. d \notin WithUnversioned'
    BY <1>7, <1>9 DEF IsLegacy
  <2>2. ASSUME NEW n \in DOMAIN versions'[d] PROVE versions'[d][n].blob /\ Linked(d, n)'
    <3>1. CASE n \in DOMAIN versions[d]
      <4>1. versions[d][n].blob /\ Linked(d, n)
        BY <1>9, <3>1 DEF IsLegacy, Linked
      <4> QED
        BY <1>3, <3>1, <4>1
    <3> QED
      BY <1>4, <3>1
  <2> QED
    BY <2>1, <2>2 DEF IsLegacy, Linked
<1> QED
  BY <1>1, <1>5, <1>6, <1>8, <1>9 DEF Ready

LEMMA InitPromiseInv == Init => PromiseInv
BY MigrateAssumption DEF Init, Processes, PromiseInv, PromisedIsCanonical

LEMMA NextPromiseInv ==
  ASSUME TypeInv, CommandInv, ChunkInv, PromiseInv, [Next]_vars
  PROVE  PromiseInv'
<1> DEFINE Doc == [doc : Paths, current : Nat]
<1>1. listed \in Seq(Doc) /\ rows \in Seq(Nat) /\ promised \subseteq Paths
  BY DEF TypeInv
<1> HIDE DEF Doc
<1> USE ProcessesAre
<1>2. CASE UNCHANGED vars
  <2>1. UNCHANGED <<versions, chunks, sources, links, blobs, pc, held, listed, rows, given, assigned, promised>>
    BY <1>2 DEF vars, tables, command
  <2> QED
    BY <2>1 DEF PromiseInv, PromisedIsCanonical, IsLegacy, Ready, HasSource, VersionsDone,
                VersionDone, Linked, ChunksDone, WithUnversioned, CurrentDoc
<1>3. CASE List
  <2>1. PICK docs \in SetToSeqs({d \in Paths : IsLegacy(d)}) :
          /\ listed' = [i \in DOMAIN docs |-> [doc |-> docs[i], current |-> Len(versions[docs[i]])]]
          /\ promised' = ToSet(docs)
          /\ Goto(Migrate, IF docs = <<>> THEN "commit" ELSE "source")
    BY <1>3 DEF List
  <2>2. docs \in Seq(Paths)
    BY <2>1, ListingType
  <2>3. pc'[Migrate] = IF docs = <<>> THEN "commit" ELSE "source"
    BY <2>1, GotoIs DEF CommandPCs
  <2>4. ASSUME NEW d \in promised' PROVE \E i \in DOMAIN listed' : listed'[i].doc = d
    BY <2>1, <2>4 DEF ToSet
  <2>5. docs = <<>> => promised' = {}
    BY <2>1 DEF ToSet
  <2> QED
    BY <2>3, <2>4, <2>5 DEF PromiseInv, PromisedIsCanonical
<1>4. CASE InsertSource
  <2>1. pc[Migrate] = "source" /\ pc'[Migrate] = "versions"
    BY <1>4, GotoIs DEF InsertSource, CommandPCs
  <2>2. UNCHANGED <<versions, chunks, sources, links, given, assigned, listed, promised>>
    BY <1>4 DEF InsertSource, tables, command
  <2>3. CurrentDoc \in Paths /\ CurrentDoc' = CurrentDoc
    BY <2>1, <2>2, CurrentIs DEF CommandInv, CurrentDoc
  <2>4. held[Migrate] \subseteq held'[Migrate]
        /\ (CurrentDoc \notin sources => <<"source", CurrentDoc>> \in held'[Migrate])
    <3>1. CASE CurrentDoc \in sources
      BY <1>4, <3>1 DEF InsertSource
    <3>2. CASE CurrentDoc \notin sources
      <4>1. Hold(Migrate, <<"source", CurrentDoc>>) /\ <<"source", CurrentDoc>> \in Keys
        BY <1>4, <2>3, <3>2, KeysOf DEF InsertSource
      <4>2. held'[Migrate] = held[Migrate] \cup {<<"source", CurrentDoc>>}
        BY <4>1, HoldIs
      <4> QED
        BY <4>2
    <3> QED
      BY <3>1, <3>2
  <2>5. \A d : Ready(d) => Ready(d)'
    BY <2>2, <2>4, OwedStays
  <2>6. CurrentDoc' \in sources' \/ <<"source", CurrentDoc'>> \in held'[Migrate]
    BY <2>2, <2>3, <2>4
  <2>7. HasSource(CurrentDoc)'
    BY <2>6 DEF HasSource
  <2> QED
    BY <2>1, <2>2, <2>5, <2>7 DEF PromiseInv, PromisedIsCanonical
<1>5. CASE ReadVersions
  <2>1. pc[Migrate] = "versions" /\ pc'[Migrate] = IF rows' = <<>> THEN "chunks" ELSE "blob"
    BY <1>5, GotoIs DEF ReadVersions, CommandPCs
  <2>2. UNCHANGED <<versions, chunks, sources, links, held, given, assigned, listed, promised>>
    BY <1>5 DEF ReadVersions, tables
  <2>3. CurrentDoc \in Paths /\ CurrentDoc' = CurrentDoc
    BY <2>1, <2>2, CurrentIs DEF CommandInv, CurrentDoc
  <2>4. \A d : (Ready(d) => Ready(d)') /\ (HasSource(d) => HasSource(d)')
    BY <2>2, OwedStays
  <2>5. HasSource(CurrentDoc)'
    <3>1. HasSource(CurrentDoc)
      BY <2>1 DEF PromiseInv
    <3> QED
      BY <2>2, <2>3, <3>1 DEF HasSource
  <2>6. \A n \in DOMAIN versions[CurrentDoc] : n \in DOMAIN rows' /\ rows'[n] = n
    BY <1>5, <2>3, VersionsOfType DEF ReadVersions
  <2>7. rows' = <<>> => VersionsDone(CurrentDoc)'
    <3> SUFFICES ASSUME rows' = <<>> PROVE DOMAIN versions'[CurrentDoc'] = {}
      BY DEF VersionsDone
    <3> QED
      BY <2>2, <2>3, <2>6
  <2>8. \A n \in DOMAIN versions'[CurrentDoc'] : \E i \in DOMAIN rows' : rows'[i] = n
    BY <2>2, <2>3, <2>6
  <2>9. (\A n \in DOMAIN versions[CurrentDoc] :
           VersionDone(CurrentDoc, n) \/ \E i \in DOMAIN rows : rows[i] = n)'
    BY <2>8
  <2> QED
    BY <2>1, <2>2, <2>4, <2>5, <2>7, <2>9 DEF PromiseInv, PromisedIsCanonical
<1>6. CASE InsertBlob
  <2>1. pc[Migrate] = "blob" /\ pc'[Migrate] = IF Len(rows) = 1 THEN "chunks" ELSE "blob"
    BY <1>6, GotoIs DEF InsertBlob, CommandPCs
  <2>2. UNCHANGED <<versions, chunks, sources, links, assigned, listed, promised>> /\ rows' = Tail(rows)
        /\ given' = given \cup {[doc |-> CurrentDoc, version |-> Head(rows)]}
    BY <1>6 DEF InsertBlob, tables
  <2>3. CurrentDoc \in Paths /\ CurrentDoc' = CurrentDoc /\ rows # <<>>
        /\ <<"blob", HashOf(Head(rows))>> \in Keys
    BY <2>1, <2>2, RowIs, KeysOf DEF CurrentDoc
  <2>4. held[Migrate] \subseteq held'[Migrate]
    BY <1>6, <2>3, HoldIs DEF InsertBlob
  <2>5. \A d : /\ Ready(d) => Ready(d)'
               /\ HasSource(d) => HasSource(d)'
               /\ \A n : VersionDone(d, n) => VersionDone(d, n)'
    BY <2>2, <2>4, OwedStays
  <2>6. HasSource(CurrentDoc)'
    <3>1. HasSource(CurrentDoc)
      BY <2>1 DEF PromiseInv
    <3> QED
      BY <2>2, <2>3, <2>4, <3>1 DEF HasSource
  <2> DEFINE d == CurrentDoc
  <2>7. ASSUME NEW n \in DOMAIN versions[d]
        PROVE  \/ versions'[d][n].blob /\ \E l \in links' : l.doc = d /\ l.version = n
               \/ [doc |-> d, version |-> n] \in given'
               \/ \E i \in DOMAIN rows' : rows'[i] = n
    <3>1. CASE VersionDone(CurrentDoc, n)
      BY <2>2, <3>1 DEF VersionDone, Linked
    <3>2. ASSUME NEW i \in DOMAIN rows, rows[i] = n
          PROVE  [doc |-> d, version |-> n] \in given' \/ \E j \in DOMAIN rows' : rows'[j] = n
      <4>1. CASE i = 1
        BY <1>1, <2>2, <2>3, <3>2, <4>1, TailIs
      <4>2. CASE i # 1
        <5>1. i - 1 \in DOMAIN rows' /\ rows'[i - 1] = rows[i]
          BY <1>1, <2>2, <2>3, <3>2, <4>2, TailIs
        <5> QED
          BY <3>2, <5>1
      <4> QED
        BY <4>1, <4>2
    <3> QED
      BY <2>1, <3>1, <3>2 DEF PromiseInv
  <2>8. (\A n \in DOMAIN versions[CurrentDoc] :
           VersionDone(CurrentDoc, n) \/ \E i \in DOMAIN rows : rows[i] = n)'
    BY <2>2, <2>3, <2>7 DEF VersionDone, Linked
  <2>9. Len(rows) = 1 => VersionsDone(CurrentDoc)'
    <3> SUFFICES ASSUME Len(rows) = 1 PROVE VersionsDone(CurrentDoc)'
      OBVIOUS
    <3>1. rows' = <<>>
      BY <1>1, <2>2, <2>3, TailIs
    <3>2. DOMAIN rows' = {}
      BY <3>1
    <3> QED
      BY <2>8, <3>2 DEF VersionsDone
  <2> QED
    BY <2>1, <2>2, <2>5, <2>6, <2>8, <2>9 DEF PromiseInv, PromisedIsCanonical
<1>7. CASE UpdateChunks
  <2>1. pc[Migrate] = "chunks" /\ pc'[Migrate] = IF Len(listed) = 1 THEN "commit" ELSE "source"
    BY <1>7, GotoIs DEF UpdateChunks, CommandPCs
  <2>2. UNCHANGED <<versions, chunks, sources, links, given, promised>> /\ listed' = Tail(listed)
    BY <1>7 DEF UpdateChunks, tables
  <2>3. CurrentDoc \in Paths /\ listed # <<>> /\ CurrentDoc = listed[1].doc
    BY <2>1, CurrentIs DEF CommandInv
  <2>4. held[Migrate] \subseteq held'[Migrate] /\ assigned \subseteq assigned'
    BY <1>7, <2>3, KeysOf, HoldIs DEF UpdateChunks
  <2>5. \A d : /\ Ready(d) => Ready(d)'
               /\ HasSource(d) => HasSource(d)'
               /\ VersionsDone(d) => VersionsDone(d)'
    BY <2>2, <2>4, OwedStays
  <2>6. ASSUME NEW d, d = CurrentDoc PROVE Ready(d)'
    <3>1. HasSource(d) /\ VersionsDone(d)
      BY <2>1, <2>6 DEF PromiseInv
    <3>2. ChunksDone(d)'
      <4> SUFFICES ASSUME d \in WithUnversioned' PROVE \E a \in assigned' : a.doc = d
        BY DEF ChunksDone
      <4>1. d \in WithUnversioned
        BY <2>2 DEF WithUnversioned
      <4>2. [doc |-> d, version |-> VersionOfChunks] \in assigned'
        BY <1>7, <2>6, <4>1 DEF UpdateChunks
      <4> QED
        BY <4>2
    <3> QED
      BY <2>5, <3>1, <3>2 DEF Ready
  <2>7. ASSUME NEW d \in promised PROVE Ready(d)' \/ \E i \in DOMAIN listed' : listed'[i].doc = d
    <3>1. CASE Ready(d)
      BY <2>5, <3>1
    <3>2. ASSUME NEW i \in DOMAIN listed, listed[i].doc = d
          PROVE  Ready(d)' \/ \E j \in DOMAIN listed' : listed'[j].doc = d
      <4>1. CASE i = 1
        BY <2>3, <2>6, <3>2, <4>1
      <4>2. CASE i # 1
        <5>1. i - 1 \in DOMAIN listed' /\ listed'[i - 1] = listed[i]
          BY <1>1, <2>2, <2>3, <3>2, <4>2, TailIs
        <5> QED
          BY <3>2, <5>1
      <4> QED
        BY <4>1, <4>2
    <3> QED
      BY <2>1, <3>1, <3>2 DEF PromiseInv
  <2>8. Len(listed) = 1 => DOMAIN listed' = {}
    <3> SUFFICES ASSUME Len(listed) = 1 PROVE DOMAIN listed' = {}
      OBVIOUS
    <3>1. listed' = <<>>
      BY <1>1, <2>2, <2>3, TailIs
    <3> QED
      BY <3>1
  <2> QED
    BY <2>1, <2>2, <2>7, <2>8 DEF PromiseInv, PromisedIsCanonical
<1>8. CASE CommitCommand
  <2>1. pc[Migrate] = "commit" /\ pc'[Migrate] = "done" /\ promised' = promised
    BY <1>8, GotoIs DEF CommitCommand, EndCommand, CommandPCs
  <2>2. /\ sources' = sources \cup {d \in Paths : <<"source", d>> \in held[Migrate]}
        /\ links' = links \cup {[source |-> v.doc, doc |-> v.doc, version |-> v.version] : v \in given}
    BY <1>8 DEF CommitCommand
  <2>3. ASSUME NEW d \in promised PROVE d \in sources' /\ ~IsLegacy(d)'
    <3>1. Ready(d) /\ d \in Paths
      BY <1>1, <2>1 DEF PromiseInv
    <3>2. d \in sources'
      BY <2>2, <3>1 DEF Ready, HasSource
    <3>3. ASSUME NEW n \in DOMAIN versions'[d] 
          PROVE  versions'[d][n].blob /\ \E l \in links' : l.doc = d /\ l.version = n
      <4>1. n \in DOMAIN versions[d] /\ versions'[d][n].blob =
                       (versions[d][n].blob \/ [doc |-> d, version |-> n] \in given)
        BY <1>8, <3>1, <3>3, CommitTables
      <4>2. VersionDone(d, n)
        BY <3>1, <4>1 DEF Ready, VersionsDone
      <4>3. CASE versions[d][n].blob /\ Linked(d, n)
        BY <2>2, <4>1, <4>3 DEF Linked
      <4>4. CASE [doc |-> d, version |-> n] \in given
        <5>1. [source |-> d, doc |-> d, version |-> n] \in links'
          BY <2>2, <4>4
        <5> QED
          BY <4>1, <4>4, <5>1
      <4> QED
        BY <4>2, <4>3, <4>4 DEF VersionDone
    <3>4. ASSUME d \in WithUnversioned' PROVE FALSE
      <4>1. PICK c \in chunks' : c.doc = d /\ c.version = NoVersion
        BY <3>4 DEF WithUnversioned
      <4>2. PICK old \in chunks :
              /\ c.doc = old.doc /\ c.text = old.text
              /\ \/ c = old /\ (c.version = NoVersion => ~\E a \in assigned : a.doc = c.doc)
                 \/ old.version = NoVersion /\ \E a \in assigned : a.doc = c.doc /\ c.version = a.version
        BY <1>8, CommitTables
      <4>3. d \in WithUnversioned
        BY <4>1, <4>2 DEF WithUnversioned
      <4>4. \E a \in assigned : a.doc = d
        BY <3>1, <4>3 DEF Ready, ChunksDone
      <4>5. PICK a \in assigned : a.doc = d /\ c.version = a.version
        BY <4>1, <4>2, <4>4
      <4>6. a.version = Len(versions[d]) /\ versions[d] # <<>>
        BY <4>1, <4>2, <4>3, <4>5 DEF ChunkInv
      <4>7. versions[d] \in Seq(Version)
        BY <3>1 DEF TypeInv
      <4> QED
        BY <4>1, <4>5, <4>6, <4>7, LastIs DEF NoVersion
    <3>5. ~IsLegacy(d)'
      BY <3>3, <3>4 DEF IsLegacy
    <3> QED
      BY <3>2, <3>5
  <2> QED
    BY <2>1, <2>3 DEF PromiseInv, PromisedIsCanonical
<1>9. CASE RollBackCommand
  <2>1. pc'[Migrate] = "failed"
    BY <1>9, GotoIs DEF RollBackCommand, EndCommand, CommandPCs
  <2> QED
    BY <2>1 DEF PromiseInv, PromisedIsCanonical
<1>10. ASSUME NEW r \in Runs,
             \/ Check(r) \/ Link(r) \/ StoreBlob(r) \/ StoreSource(r)
             \/ StoreDocument(r) \/ StoreCommit(r) \/ RollBack(r)
      PROVE  PromiseInv'
  <2>1. IngestEffect
    BY <1>10, IngestStep
  <2>2. pc'[Migrate] = pc[Migrate] /\ listed' = listed /\ rows' = rows /\ promised' = promised
    BY <2>1 DEF IngestEffect, command
  <2>3. \A d \in Paths : Ready(d) => Ready(d)'
    BY <2>1, IngestOwesNothing
  <2>4. ASSUME NEW d \in promised, pc[Migrate] = "done" PROVE ~IsLegacy(d)' /\ d \in sources'
    <3>1. ~IsLegacy(d) /\ d \in sources /\ d \in Paths
      BY <1>1, <2>4 DEF PromiseInv, PromisedIsCanonical
    <3> QED
      BY <2>1, <3>1, IngestOwesNothing DEF IngestEffect
  <2>5. pc[Migrate] \in {"versions", "blob", "chunks"} => CurrentDoc \in Paths
    BY CurrentIs DEF CommandInv
  <2>6. ASSUME NEW d \in Paths, d = CurrentDoc, pc[Migrate] \in {"versions", "blob", "chunks"}
        PROVE  /\ HasSource(d)'
               /\ pc[Migrate] = "blob" => \A n \in DOMAIN versions'[d] :
                    VersionDone(d, n)' \/ \E i \in DOMAIN rows : rows[i] = n
               /\ pc[Migrate] = "chunks" => VersionsDone(d)'
    <3>1. HasSource(d)'
      BY <2>1, <2>6, IngestOwesNothing DEF PromiseInv
    <3>2. pc[Migrate] = "chunks" => VersionsDone(d)'
      BY <2>1, <2>6, IngestOwesNothing DEF PromiseInv
    <3>3. ASSUME pc[Migrate] = "blob", NEW n \in DOMAIN versions'[d]
          PROVE  VersionDone(d, n)' \/ \E i \in DOMAIN rows : rows[i] = n
      <4>1. n \in DOMAIN versions[d] => VersionDone(d, n) \/ \E i \in DOMAIN rows : rows[i] = n
        BY <2>6, <3>3 DEF PromiseInv
      <4> QED
        BY <2>1, <3>3, <4>1, IngestOwesNothing
    <3> QED
      BY <3>1, <3>2, <3>3
  <2>7. CurrentDoc' = CurrentDoc
    BY <2>2 DEF CurrentDoc
  <2>8. pc'[Migrate] \in {"versions", "blob", "chunks"} => HasSource(CurrentDoc)'
    BY <2>2, <2>5, <2>6, <2>7 DEF HasSource
  <2>9. pc'[Migrate] = "blob" => \A n \in DOMAIN versions'[CurrentDoc'] :
          VersionDone(CurrentDoc, n)' \/ \E i \in DOMAIN rows' : rows'[i] = n
    BY <2>2, <2>5, <2>6, <2>7 DEF VersionDone, Linked
  <2>10. pc'[Migrate] = "chunks" => VersionsDone(CurrentDoc)'
    BY <2>2, <2>5, <2>6, <2>7 DEF VersionsDone, VersionDone, Linked
  <2> QED
    BY <1>1, <2>2, <2>3, <2>4, <2>8, <2>9, <2>10 DEF PromiseInv, PromisedIsCanonical
<1> QED
  BY <1>2, <1>3, <1>4, <1>5, <1>6, <1>7, <1>8, <1>9, <1>10, NextCases

-----------------------------------------------------------------------------
\* The documents that a command has found legacy are canonical when it has ended,
\* and stay so, whatever is ingested meanwhile and afterwards.
THEOREM PromisesAreKept == Spec => []PromisedIsCanonical
<1> DEFINE Inv == TypeInv /\ CommandInv /\ ChunkInv /\ PromiseInv
<1>1. Init => Inv
  BY InitTypeInv, InitCommandInv, InitChunkInv, InitPromiseInv
<1>2. Inv /\ [Next]_vars => Inv'
  BY NextTypeInv, NextCommandInv, NextChunkInv, NextPromiseInv
<1>3. Inv => PromisedIsCanonical
  BY DEF PromiseInv
<1> QED
  BY <1>1, <1>2, <1>3, PTL DEF Spec

-----------------------------------------------------------------------------
(* The links and the locks *)

LEMMA InVersions ==
  ASSUME NEW d \in Paths, NEW n
  PROVE  [doc |-> d, version |-> n] \in Versions <=> n \in DOMAIN versions[d]
<1>1. ASSUME n \in DOMAIN versions[d] PROVE [doc |-> d, version |-> n] \in Versions
  BY <1>1 DEF Versions
<1>2. ASSUME [doc |-> d, version |-> n] \in Versions PROVE n \in DOMAIN versions[d]
  <2>1. PICK e \in Paths : \E m \in DOMAIN versions[e] :
          [doc |-> d, version |-> n] = [doc |-> e, version |-> m]
    BY <1>2 DEF Versions
  <2> QED
    BY <2>1
<1> QED
  BY <1>1, <1>2

LEMMA VersionsStay ==
  ASSUME \A d \in Paths : \A n \in DOMAIN versions[d] : n \in DOMAIN versions'[d]
  PROVE  Versions \subseteq Versions'
BY DEF Versions

LEMMA InitLinkInv == Init => LinkInv /\ LockInv
BY DEF Init, LinkInv, LockInv

LEMMA NextLinkInv ==
  ASSUME TypeInv, CommandInv, PromiseInv, LinkInv, [Next]_vars
  PROVE  LinkInv'
<1> USE ProcessesAre
\* The steps that neither link nor take anything back.
<1>1. ASSUME sources \subseteq sources', links' = links, Versions \subseteq Versions',
             \A v \in given' : v \in Versions /\ (v \in given => HasSource(v.doc)') /\ HasSource(v.doc)'
      PROVE  LinkInv'
  BY <1>1 DEF LinkInv
<1>2. ASSUME UNCHANGED <<versions, chunks, sources, links>>, given' = given, assigned \subseteq assigned',
             held[Migrate] \subseteq held'[Migrate]
      PROVE  LinkInv'
  <2>1. \A v \in given' : v \in Versions /\ HasSource(v.doc)'
    BY <1>2, OwedStays DEF LinkInv
  <2>2. Versions \subseteq Versions'
    BY <1>2 DEF Versions
  <2> QED
    BY <1>1, <1>2, <2>1, <2>2
<1>3. CASE UNCHANGED vars
  BY <1>2, <1>3 DEF vars, tables, command
<1>4. CASE List
  BY <1>2, <1>4 DEF List, tables
<1>5. CASE InsertSource
  <2>1. CurrentDoc \in Paths
    BY <1>5, CurrentIs DEF InsertSource, CommandInv
  <2>2. held[Migrate] \subseteq held'[Migrate]
    <3>1. CASE CurrentDoc \in sources
      BY <1>5, <3>1 DEF InsertSource
    <3>2. CASE CurrentDoc \notin sources
      <4>1. Hold(Migrate, <<"source", CurrentDoc>>) /\ <<"source", CurrentDoc>> \in Keys
        BY <1>5, <2>1, <3>2, KeysOf DEF InsertSource
      <4> QED
        BY <4>1, HoldIs
    <3> QED
      BY <3>1, <3>2
  <2> QED
    BY <1>2, <1>5, <2>2 DEF InsertSource, tables, command
<1>6. CASE ReadVersions
  BY <1>2, <1>6 DEF ReadVersions, tables
<1>7. CASE InsertBlob
  <2>1. UNCHANGED <<versions, chunks, sources, links, assigned>> /\ pc[Migrate] = "blob"
        /\ given' = given \cup {[doc |-> CurrentDoc, version |-> Head(rows)]}
    BY <1>7 DEF InsertBlob, tables
  <2>2. CurrentDoc \in Paths /\ Head(rows) \in DOMAIN versions[CurrentDoc]
        /\ <<"blob", HashOf(Head(rows))>> \in Keys
    BY <2>1, RowIs, KeysOf
  <2>3. held[Migrate] \subseteq held'[Migrate]
    BY <1>7, <2>2, HoldIs DEF InsertBlob
  <2>4. \A d : HasSource(d) => HasSource(d)'
    BY <2>1, <2>3, OwedStays
  <2>5. [doc |-> CurrentDoc, version |-> Head(rows)] \in Versions
    BY <2>2, InVersions
  <2>6. HasSource(CurrentDoc)
    BY <2>1 DEF PromiseInv
  <2>7. \A v \in given' : v \in Versions /\ HasSource(v.doc)
    BY <2>1, <2>5, <2>6 DEF LinkInv
  <2>8. \A v \in given' : v \in Versions /\ HasSource(v.doc)'
    BY <2>4, <2>7
  <2>9. Versions \subseteq Versions'
    BY <2>1 DEF Versions
  <2> QED
    BY <1>1, <2>1, <2>8, <2>9
<1>8. CASE UpdateChunks
  <2>1. CurrentDoc \in Paths
    BY <1>8, CurrentIs DEF UpdateChunks, CommandInv
  <2>2. held[Migrate] \subseteq held'[Migrate] /\ assigned \subseteq assigned'
    BY <1>8, <2>1, KeysOf, HoldIs DEF UpdateChunks
  <2> QED
    BY <1>2, <1>8, <2>2 DEF UpdateChunks, tables
<1>9. CASE CommitCommand
  <2>1. /\ sources' = sources \cup {d \in Paths : <<"source", d>> \in held[Migrate]}
        /\ links' = links \cup {[source |-> v.doc, doc |-> v.doc, version |-> v.version] : v \in given}
        /\ given' = {}
    BY <1>9 DEF CommitCommand, EndCommand
  <2>2. Versions \subseteq Versions'
    BY <1>9, CommitTables, VersionsStay
  <2>3. ASSUME NEW v \in given
        PROVE  v.doc \in sources' /\ [doc |-> v.doc, version |-> v.version] \in Versions
    <3>1. v \in [doc : Paths, version : Nat] /\ v \in Versions /\ HasSource(v.doc)
      BY DEF TypeInv, LinkInv
    <3>2. v = [doc |-> v.doc, version |-> v.version] /\ v.doc \in Paths
      BY <3>1
    <3> QED
      BY <2>1, <3>1, <3>2 DEF HasSource
  <2>4. ASSUME NEW l \in links'
        PROVE  l.source \in sources' /\ [doc |-> l.doc, version |-> l.version] \in Versions
    <3>1. CASE l \in links
      BY <2>1, <3>1 DEF LinkInv
    <3>2. ASSUME NEW v \in given, l = [source |-> v.doc, doc |-> v.doc, version |-> v.version]
          PROVE  l.source \in sources' /\ [doc |-> l.doc, version |-> l.version] \in Versions
      BY <2>3, <3>2
    <3> QED
      BY <2>1, <3>1, <3>2
  <2> QED
    BY <2>1, <2>2, <2>4 DEF LinkInv
<1>10. CASE RollBackCommand
  <2>1. UNCHANGED <<versions, sources, links>> /\ given' = {}
    BY <1>10 DEF RollBackCommand, EndCommand, tables
  <2>2. Versions \subseteq Versions'
    BY <2>1 DEF Versions
  <2> QED
    BY <1>1, <2>1, <2>2
<1>11. ASSUME NEW r \in Runs,
             \/ Check(r) \/ Link(r) \/ StoreBlob(r) \/ StoreSource(r)
             \/ StoreDocument(r) \/ StoreCommit(r) \/ RollBack(r)
       PROVE  LinkInv'
  <2>1. IngestEffect
    BY <1>11, IngestStep
  <2>2. Versions \subseteq Versions'
    BY <2>1, VersionsStay DEF IngestEffect
  <2>3. \A v \in given' : v \in Versions' /\ HasSource(v.doc)'
    <3>1. given' = given
      BY <2>1 DEF IngestEffect, command
    <3>2. \A v \in given : v.doc \in Paths /\ v \in Versions /\ HasSource(v.doc)
      BY DEF TypeInv, LinkInv
    <3> QED
      BY <2>1, <2>2, <3>1, <3>2, IngestOwesNothing
  <2>4. ASSUME NEW l \in links', l \notin links
        PROVE  l.source \in sources' /\ [doc |-> l.doc, version |-> l.version] \in Versions'
    <3>1. CASE Link(r)
      <4>1. PICK v \in Versions :
              links' = links \cup {[source |-> target[r].doc, doc |-> v.doc, version |-> v.version]}
        BY <3>1 DEF Link
      <4>2. l = [source |-> target[r].doc, doc |-> v.doc, version |-> v.version]
        BY <2>4, <4>1
      <4>3. v = [doc |-> v.doc, version |-> v.version]
        BY DEF Versions
      <4>4. target[r].doc \in sources'
        BY <3>1 DEF Link
      <4> QED
        BY <2>2, <4>2, <4>3, <4>4
    <3>0. ASSUME NEW e \in Paths, NEW m \in DOMAIN versions'[e]
          PROVE  [doc |-> e, version |-> m] \in Versions'
      <4>1. [doc |-> e, version |-> m] \in {[doc |-> e, version |-> i] : i \in DOMAIN versions'[e]}
        OBVIOUS
      <4> QED
        BY <4>1 DEF Versions
    <3>2. CASE StoreCommit(r)
      <4> DEFINE d == target[r].doc
                 n == Len(versions[d]) + 1
      <4>1. d \in Paths /\ DOMAIN versions'[d] = 1..n /\ Len(versions[d]) \in Nat
        BY <3>2, StoredIs
      <4>2. links' = links \cup {[source |-> d, doc |-> d, version |-> n]} /\ sources' = sources \cup {d}
        BY <3>2 DEF StoreCommit
      <4>3. n \in DOMAIN versions'[d]
        BY <4>1
      <4> HIDE DEF n, d
      <4>4. [doc |-> d, version |-> n] \in Versions'
        BY <3>0, <4>1, <4>3
      <4> QED
        BY <2>4, <4>2, <4>4
    <3>3. CASE Check(r) \/ StoreBlob(r) \/ StoreSource(r) \/ StoreDocument(r) \/ RollBack(r)
      BY <2>4, <3>3 DEF Check, StoreBlob, StoreSource, StoreDocument, Write, RollBack, tables
    <3> QED
      BY <1>11, <3>1, <3>2, <3>3
  <2>5. \A l \in links' : l.source \in sources' /\ [doc |-> l.doc, version |-> l.version] \in Versions'
    BY <2>1, <2>2, <2>4 DEF LinkInv, IngestEffect
  <2> QED
    BY <2>3, <2>5 DEF LinkInv
<1> QED
  BY <1>3, <1>4, <1>5, <1>6, <1>7, <1>8, <1>9, <1>10, <1>11, NextCases

LEMMA NextLockInv ==
  ASSUME TypeInv, CommandInv, LockInv, [Next]_vars
  PROVE  LockInv'
<1> USE ProcessesAre
<1>1. ASSUME UNCHANGED held PROVE LockInv'
  BY <1>1 DEF LockInv
<1>2. ASSUME NEW p \in Processes, held' = EndOf(p) PROVE LockInv'
  BY <1>2, EndIs DEF LockInv
\* Who writes a row that nobody else has written.
<1>3. ASSUME NEW p \in Processes, NEW k \in Keys, Hold(p, k),
             \A q \in Processes : q # p => k \notin held[q]
      PROVE  LockInv'
  <2>1. held'[p] = held[p] \cup {k} /\ \A q \in Processes \ {p} : held'[q] = held[q]
    BY <1>3, HoldIs
  <2> QED
    BY <1>3, <2>1 DEF LockInv
<1>4. ASSUME NEW p \in Processes, Free(p), NEW k \in Wanted(p), p = Migrate => ~Committed(k)
      PROVE  \A q \in Processes : q # p => k \notin held[q]
  BY <1>4 DEF Free, WaitsFor
<1>5. CASE UNCHANGED vars
  BY <1>1, <1>5 DEF vars
<1>6. CASE List \/ ReadVersions
  BY <1>1, <1>6 DEF List, ReadVersions
<1>7. CASE InsertSource
  <2>1. CurrentDoc \in Paths /\ <<"source", CurrentDoc>> \in Keys
    BY <1>7, CurrentIs, KeysOf DEF InsertSource, CommandInv
  <2>2. CASE CurrentDoc \in sources
    BY <1>1, <1>7, <2>2 DEF InsertSource
  <2>3. CASE CurrentDoc \notin sources
    <3>1. ~Committed(<<"source", CurrentDoc>>)
      BY <2>3 DEF Committed
    <3>2. <<"source", CurrentDoc>> \in Wanted(Migrate)
      BY <1>7 DEF InsertSource, Wanted
    <3>3. Hold(Migrate, <<"source", CurrentDoc>>) /\ Free(Migrate)
      BY <1>7, <2>3 DEF InsertSource
    <3> QED
      BY <1>3, <1>4, <2>1, <3>1, <3>2, <3>3
  <2> QED
    BY <2>2, <2>3
<1>8. CASE InsertBlob
  <2> DEFINE b == <<"blob", HashOf(Head(rows))>>
  <2>1. b \in Keys
    BY <1>8, RowIs, KeysOf DEF InsertBlob
  <2>2. CASE versions[CurrentDoc][Head(rows)].blob \/ Committed(b)
    BY <1>1, <1>8, <2>2 DEF InsertBlob
  <2>3. CASE ~(versions[CurrentDoc][Head(rows)].blob \/ Committed(b))
    <3>1. Hold(Migrate, b) /\ Free(Migrate)
      BY <1>8, <2>3 DEF InsertBlob
    <3>2. b \in Wanted(Migrate)
      BY <1>8 DEF InsertBlob, Wanted
    <3> HIDE DEF b
    <3> QED
      BY <1>3, <1>4, <2>1, <2>3, <3>1, <3>2
  <2> QED
    BY <2>2, <2>3
<1>9. CASE UpdateChunks
  <2> DEFINE k == <<"chunks", CurrentDoc>>
  <2>1. k \in Keys
    BY <1>9, CurrentIs, KeysOf DEF UpdateChunks, CommandInv
  <2>2. CASE CurrentDoc \notin WithUnversioned
    BY <1>1, <1>9, <2>2 DEF UpdateChunks
  <2>3. CASE CurrentDoc \in WithUnversioned
    <3>1. Hold(Migrate, k) /\ Free(Migrate)
      BY <1>9, <2>3 DEF UpdateChunks
    <3>2. k \in Wanted(Migrate)
      BY <1>9, <2>3 DEF UpdateChunks, Wanted
    <3>3. ~Committed(k)
      BY DEF Committed
    <3> HIDE DEF k
    <3> QED
      BY <1>3, <1>4, <2>1, <3>1, <3>2, <3>3
  <2> QED
    BY <2>2, <2>3
<1>10. CASE CommitCommand \/ RollBackCommand
  BY <1>2, <1>10 DEF CommitCommand, RollBackCommand, EndCommand
<1>11. ASSUME NEW r \in Runs, Check(r) \/ Link(r) PROVE LockInv'
  BY <1>1, <1>11 DEF Check, Link
<1>12. ASSUME NEW r \in Runs, StoreCommit(r) \/ RollBack(r) PROVE LockInv'
  BY <1>2, <1>12 DEF StoreCommit, RollBack
<1>13. ASSUME NEW r \in Runs, NEW k \in Keys, Hold(r, k), Free(r), k \in Wanted(r) PROVE LockInv'
  BY <1>3, <1>4, <1>13
<1>14. ASSUME NEW r \in Runs, StoreBlob(r) \/ StoreSource(r) \/ StoreDocument(r) PROVE LockInv'
  <2>1. target[r].doc \in Paths /\ target[r].hash \in Hashes
    BY DEF TypeInv
  <2>2. <<"blob", target[r].hash>> \in Keys /\ <<"source", target[r].doc>> \in Keys
        /\ <<"chunks", target[r].doc>> \in Keys
    BY <2>1, KeysOf
  <2>3. CASE StoreBlob(r)
    BY <1>13, <2>2, <2>3 DEF StoreBlob, Write, Wanted
  <2>4. CASE StoreSource(r)
    BY <1>13, <2>2, <2>4 DEF StoreSource, Write, Wanted
  <2>5. CASE StoreDocument(r)
    BY <1>13, <2>2, <2>5 DEF StoreDocument, Write, Wanted
  <2> QED
    BY <1>14, <2>3, <2>4, <2>5
<1> QED
  BY <1>5, <1>6, <1>7, <1>8, <1>9, <1>10, <1>11, <1>12, <1>14, NextCases

-----------------------------------------------------------------------------
\* Whatever is linked is a version of a source that exists, and no two processes
\* have written the same row at the same time: who finds it waits.
THEOREM TypeCorrect == Spec => []TypeOK
<1> DEFINE Inv == TypeInv /\ CommandInv /\ ChunkInv /\ PromiseInv /\ LinkInv /\ LockInv
<1>1. Init => Inv
  BY InitTypeInv, InitCommandInv, InitChunkInv, InitPromiseInv, InitLinkInv
<1>2. Inv /\ [Next]_vars => Inv'
  BY NextTypeInv, NextCommandInv, NextChunkInv, NextPromiseInv, NextLinkInv, NextLockInv
<1>3. Inv => TypeOK
  <2> SUFFICES ASSUME Inv PROVE TypeOK
    OBVIOUS
  <2>1. \A c \in chunks : c.doc \in Paths /\ c.text \in Hashes
                          /\ c.version \in {NoVersion} \cup DOMAIN versions[c.doc]
    BY DEF TypeInv, ChunkInv
  <2> QED
    BY <2>1 DEF TypeOK, TypeInv, LinkInv, LockInv, Version
<1> QED
  BY <1>1, <1>2, <1>3, PTL DEF Spec
=============================================================================
