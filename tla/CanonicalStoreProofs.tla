------------------------ MODULE CanonicalStoreProofs ------------------------
(* Theorems about CanonicalStore, for any number of runs, sources and contents. *)
EXTENDS CanonicalStore, FiniteSetTheorems, TLAPS

USE DEF ActivePCs, Deciding, Preparing, Linking, Storing

-----------------------------------------------------------------------------
(* Type correctness *)

\* Releasing a run's rows leaves a lock table a lock table.
LEMMA ReleaseType ==
  ASSUME NEW D, NEW lock \in [D -> Runs \cup {NoRow}], NEW r
  PROVE  Release(r, lock) \in [D -> Runs \cup {NoRow}]
BY DEF Release

\* TypeOK is not inductive: that a link names a version and that a version has a
\* number depends on what the run has selected by the time it writes them.
Selected ==
  \A r \in Runs :
    /\ pc[r] \in {"link_upsert_source", "link_commit"} => found[r] \in Runs
    /\ pc[r] = "store_commit" => number[r] # 0

TypeInv == TypeOK /\ Selected

\* The initial state is well typed, and no run has selected anything yet.
LEMMA InitTypeInv == Init => TypeInv
BY DEF Init, TypeInv, Selected, TypeOK, Outcomes

\* Every step keeps the rows of all tables, the locks and the local variables
\* of the runs in their types, whatever the runs interleave.
LEMMA NextTypeInv == TypeInv /\ [Next]_vars => TypeInv'
<1> SUFFICES ASSUME TypeInv, [Next]_vars PROVE TypeInv'
  OBVIOUS
<1> USE DEF TypeInv, Selected, TypeOK, Goto, Decide, tables, locks, inputs, locals
<1>1. ASSUME NEW r \in Runs, Start(r) PROVE TypeInv'
  BY <1>1 DEF Start
<1>2. ASSUME NEW r \in Runs, FindBlob(r) PROVE TypeInv'
  BY <1>2 DEF FindBlob
<1>3. ASSUME NEW r \in Runs, FindSource(r) PROVE TypeInv'
  BY <1>3 DEF FindSource, Outcomes
<1>4. ASSUME NEW r \in Runs, FindSourceVersion(r) PROVE TypeInv'
  BY <1>4 DEF FindSourceVersion, Outcomes
<1>5. ASSUME NEW r \in Runs, FindSourceOfNew(r) PROVE TypeInv'
  BY <1>5 DEF FindSourceOfNew, OutcomeOfNew, Outcomes
<1>6. ASSUME NEW r \in Runs, FindCanonical(r) PROVE TypeInv'
  <2>1. PICK v \in versions : found' = [found EXCEPT ![r] = v.id]
    BY <1>6 DEF FindCanonical
  <2>2. v.id \in Runs
    BY <2>1 DEF VersionRow
  <2> QED
    BY <1>6, <2>1, <2>2 DEF FindCanonical
<1>7. ASSUME NEW r \in Runs, LinkUpsertSource(r) PROVE TypeInv'
  BY <1>7 DEF LinkUpsertSource
<1>8. ASSUME NEW r \in Runs, LinkCommit(r) PROVE TypeInv'
  <2>1. found[r] \in Runs /\ src[r] \in Sources /\ hash[r] \in Contents
    BY <1>8 DEF LinkCommit
  <2>2. links' \subseteq LinkRow
    BY <1>8, <2>1 DEF LinkCommit, LinkRow
  <2>3. sourceLock' \in [Sources -> Runs \cup {NoRow}]
    BY <1>8, ReleaseType DEF LinkCommit
  <2> QED
    BY <1>8, <2>1, <2>2, <2>3 DEF LinkCommit
<1>9. ASSUME NEW r \in Runs, Extract(r) \/ Embed(r) PROVE TypeInv'
  BY <1>9 DEF Extract, Embed
<1>10. ASSUME NEW r \in Runs, StoreBlob(r) PROVE TypeInv'
  BY <1>10 DEF StoreBlob
<1>11. ASSUME NEW r \in Runs, StoreSource(r) PROVE TypeInv'
  BY <1>11 DEF StoreSource
<1>12. ASSUME NEW r \in Runs, StoreDocument(r) PROVE TypeInv'
  BY <1>12 DEF StoreDocument, DocumentsAt, NextVersion, DocumentRow
<1>13. ASSUME NEW r \in Runs, StoreCommit(r) PROVE TypeInv'
  <2> DEFINE doc == DocumentOf(r)
  <2>1. doc \in Runs
    BY DEF DocumentOf
  <2>2. number[r] \in Nat \ {0}
    BY <1>13 DEF StoreCommit
  <2>3. documents' \subseteq DocumentRow
    BY <1>13, <2>1, <2>2 DEF StoreCommit, DocumentRow
  <2>4. versions' \subseteq VersionRow
    BY <1>13, <2>1, <2>2 DEF StoreCommit, VersionRow
  <2>5. links' \subseteq LinkRow /\ chunks' \subseteq ChunkRow
    BY <1>13, <2>1 DEF StoreCommit, LinkRow, ChunkRow, OtherChunks
  <2>6. /\ blobLock' \in [Contents -> Runs \cup {NoRow}]
        /\ sourceLock' \in [Sources -> Runs \cup {NoRow}]
    BY <1>13, ReleaseType DEF StoreCommit
  <2> QED
    BY <1>13, <2>3, <2>4, <2>5, <2>6 DEF StoreCommit
<1>14. ASSUME NEW r \in Runs, Fail(r) PROVE TypeInv'
  BY <1>14, ReleaseType DEF Fail
<1>15. ASSUME NEW r \in Runs, NEW c \in Contents, Rewrite(r, c) PROVE TypeInv'
  BY <1>15 DEF Rewrite
<1>16. CASE UNCHANGED vars
  BY <1>16 DEF vars
<1> QED
  BY <1>1, <1>2, <1>3, <1>4, <1>5, <1>6, <1>7, <1>8, <1>9, <1>10, <1>11, <1>12,
     <1>13, <1>14, <1>15, <1>16 DEF Next, Step, Quiescent

\* Rows, locks and local variables always have their types: in particular every
\* link names a version that a run inserted, and every version has a number.
THEOREM TypeCorrect == Spec => []TypeOK
<1>1. TypeInv => TypeOK
  BY DEF TypeInv
<1> QED
  BY InitTypeInv, NextTypeInv, <1>1, PTL DEF Spec

-----------------------------------------------------------------------------
(* One document per source path *)

\* Between the upsert of its source and its commit a run holds the source's row.
HoldsSource ==
  \A r \in Runs :
    pc[r] \in {"store_document", "store_commit"} => sourceLock[src[r]] = r

\* What the run has selected from documents is still so when it commits.
SelectedCurrent(r) ==
  \/ found[r] = NoRow /\ number[r] = 1 /\ DocumentsAt(src[r]) = {}
  \/ \E d \in DocumentsAt(src[r]) : d.id = found[r] /\ number[r] = d.current + 1

\* A document's id is that of a run which has committed.
DocumentIds ==
  /\ \A d \in documents : pc[d.id] = "done"
  /\ \A d, e \in documents : d.id = e.id => d = e

DocumentInv ==
  /\ TypeInv
  /\ OneDocumentPerPath
  /\ DocumentIds
  /\ HoldsSource
  /\ \A r \in Runs : pc[r] = "store_commit" => SelectedCurrent(r)

LEMMA InitDocumentInv == Init => DocumentInv
BY InitTypeInv DEF Init, DocumentInv, OneDocumentPerPath, DocumentIds, HoldsSource

\* A step that leaves documents alone, gives away only the locks of a run that
\* leaves the two protected labels, and is not the SELECT keeps the invariant.
LEMMA DocumentFrame ==
  ASSUME DocumentInv, TypeInv', NEW r \in Runs,
         UNCHANGED <<documents, src>>,
         \A q \in Runs \ {r} : pc'[q] = pc[q] /\ found'[q] = found[q] /\ number'[q] = number[q],
         \A s \in Sources : sourceLock[s] \in Runs \ {r} => sourceLock'[s] = sourceLock[s],
         pc[r] # "done",
         pc'[r] = "store_document" => sourceLock'[src[r]] = r,
         pc'[r] # "store_commit"
  PROVE  DocumentInv'
<1> USE DEF DocumentInv
<1>1. OneDocumentPerPath'
  BY DEF OneDocumentPerPath
<1>2. DocumentIds'
  <2>1. \A d \in documents : d.id \in Runs \ {r}
    BY DEF DocumentIds, TypeInv, TypeOK, DocumentRow
  <2> QED
    BY <2>1 DEF DocumentIds
<1>3. HoldsSource'
  BY DEF HoldsSource, TypeInv, TypeOK
<1>4. ASSUME NEW q \in Runs, pc'[q] = "store_commit" PROVE SelectedCurrent(q)'
  BY <1>4 DEF SelectedCurrent, DocumentsAt
<1> QED
  BY <1>1, <1>2, <1>3, <1>4

\* The SELECT of store_document_canonical: the run sees every committed row.
LEMMA StoreDocumentKeeps ==
  ASSUME DocumentInv, TypeInv', NEW r \in Runs, StoreDocument(r)
  PROVE  DocumentInv'
<1> USE DEF DocumentInv, StoreDocument, tables, locks, inputs, Goto
<1>1. OneDocumentPerPath'
  BY DEF OneDocumentPerPath
<1>2. DocumentIds'
  BY DEF DocumentIds, TypeInv, TypeOK, DocumentRow
<1>3. HoldsSource'
  BY DEF HoldsSource, TypeInv, TypeOK
<1>4. ASSUME NEW q \in Runs, pc'[q] = "store_commit" PROVE SelectedCurrent(q)'
  <2>1. CASE q = r
    BY <2>1 DEF SelectedCurrent, DocumentsAt, NextVersion, TypeInv, TypeOK
  <2>2. CASE q # r
    BY <1>4, <2>2 DEF SelectedCurrent, DocumentsAt, TypeInv, TypeOK
  <2> QED
    BY <2>1, <2>2
<1> QED
  BY <1>1, <1>2, <1>3, <1>4

\* The commit: the row written is the only one at its path, and no other run has
\* selected from that path, because it would hold the source's row.
LEMMA StoreCommitKeeps ==
  ASSUME DocumentInv, TypeInv', NEW r \in Runs, StoreCommit(r)
  PROVE  DocumentInv'
<1> USE DEF DocumentInv
<1> DEFINE row == [id |-> DocumentOf(r), path |-> src[r], current |-> number[r]]
<1>1. /\ pc[r] = "store_commit"
      /\ pc' = [pc EXCEPT ![r] = "done"]
      /\ documents' = {d \in documents : d.id # DocumentOf(r)} \cup {row}
      /\ sourceLock' = Release(r, sourceLock)
      /\ UNCHANGED <<src, found, number>>
  BY DEF StoreCommit, Goto, inputs, locals
<1>2. /\ SelectedCurrent(r)
      /\ sourceLock[src[r]] = r
  BY <1>1 DEF HoldsSource
<1>3. \A d \in documents : d.path = src[r] <=> d.id = DocumentOf(r)
  BY <1>1, <1>2, RunsAssumption
     DEF SelectedCurrent, DocumentOf, DocumentsAt, OneDocumentPerPath, DocumentIds,
         TypeInv, TypeOK, DocumentRow
<1>4. OneDocumentPerPath'
  BY <1>1, <1>3 DEF OneDocumentPerPath
<1>5. DocumentIds'
  <2>1. pc'[DocumentOf(r)] = "done"
    BY <1>1, <1>2, RunsAssumption
       DEF SelectedCurrent, DocumentOf, DocumentsAt, DocumentIds, TypeInv, TypeOK, DocumentRow
  <2>2. \A d \in documents : pc'[d.id] = "done"
    BY <1>1 DEF DocumentIds, TypeInv, TypeOK, DocumentRow
  <2> QED
    BY <1>1, <2>1, <2>2 DEF DocumentIds
<1>6. HoldsSource'
  BY <1>1 DEF HoldsSource, Release, TypeInv, TypeOK
<1>7. ASSUME NEW q \in Runs, pc'[q] = "store_commit" PROVE SelectedCurrent(q)'
  <2>1. q # r /\ pc[q] = "store_commit"
    BY <1>1, <1>7 DEF TypeInv, TypeOK
  <2>2. src[q] # src[r]
    BY <1>2, <2>1 DEF HoldsSource
  <2>3. DocumentsAt(src[q])' = DocumentsAt(src[q])
    BY <1>1, <1>3, <2>2 DEF DocumentsAt
  <2> QED
    BY <1>1, <2>1, <2>3 DEF SelectedCurrent
<1> QED
  BY <1>4, <1>5, <1>6, <1>7

LEMMA NextDocumentInv == DocumentInv /\ [Next]_vars => DocumentInv'
<1> SUFFICES ASSUME DocumentInv, [Next]_vars PROVE DocumentInv'
  OBVIOUS
<1>0. TypeInv'
  BY NextTypeInv DEF DocumentInv
<1> USE <1>0 DEF Goto, Decide, tables, locks, inputs, locals, DocumentInv, TypeInv, TypeOK
<1>1. ASSUME NEW r \in Runs, Start(r) PROVE DocumentInv'
  BY <1>1, DocumentFrame DEF Start
<1>2. ASSUME NEW r \in Runs,
             FindBlob(r) \/ FindSource(r) \/ FindSourceVersion(r) \/ FindSourceOfNew(r)
      PROVE  DocumentInv'
  BY <1>2, DocumentFrame DEF FindBlob, FindSource, FindSourceVersion, FindSourceOfNew
<1>3. ASSUME NEW r \in Runs, FindCanonical(r) PROVE DocumentInv'
  BY <1>3, DocumentFrame DEF FindCanonical
<1>4. ASSUME NEW r \in Runs, LinkUpsertSource(r) PROVE DocumentInv'
  BY <1>4, RunsAssumption, DocumentFrame DEF LinkUpsertSource, NotLocked
<1>5. ASSUME NEW r \in Runs, LinkCommit(r) PROVE DocumentInv'
  BY <1>5, DocumentFrame DEF LinkCommit, Release
<1>6. ASSUME NEW r \in Runs, Extract(r) \/ Embed(r) PROVE DocumentInv'
  BY <1>6, DocumentFrame DEF Extract, Embed
<1>7. ASSUME NEW r \in Runs, StoreBlob(r) PROVE DocumentInv'
  BY <1>7, DocumentFrame DEF StoreBlob
<1>8. ASSUME NEW r \in Runs, StoreSource(r) PROVE DocumentInv'
  BY <1>8, RunsAssumption, DocumentFrame DEF StoreSource, NotLocked
<1>9. ASSUME NEW r \in Runs, StoreDocument(r) PROVE DocumentInv'
  BY <1>9, StoreDocumentKeeps
<1>10. ASSUME NEW r \in Runs, StoreCommit(r) PROVE DocumentInv'
  BY <1>10, StoreCommitKeeps
<1>11. ASSUME NEW r \in Runs, Fail(r) PROVE DocumentInv'
  BY <1>11, DocumentFrame DEF Fail, Release
<1>12. ASSUME NEW r \in Runs, NEW c \in Contents, Rewrite(r, c) PROVE DocumentInv'
  BY <1>12 DEF Rewrite, OneDocumentPerPath, DocumentIds, HoldsSource, SelectedCurrent, DocumentsAt
<1>13. CASE UNCHANGED vars
  BY <1>13 DEF vars, OneDocumentPerPath, DocumentIds, HoldsSource, SelectedCurrent, DocumentsAt
<1> QED
  BY <1>1, <1>2, <1>3, <1>4, <1>5, <1>6, <1>7, <1>8, <1>9, <1>10, <1>11, <1>12, <1>13
     DEF Next, Step, Quiescent

\* However many processes ingest at once, and whatever they ingest, documents
\* never holds two rows with one source_path: store_document_canonical's SELECT
\* and INSERT are serialised by the row that upsert_source has locked.
THEOREM PathsUnique == Spec => []OneDocumentPerPath
<1>1. DocumentInv => OneDocumentPerPath
  BY DEF DocumentInv
<1> QED
  BY InitDocumentInv, NextDocumentInv, <1>1, PTL DEF Spec

-----------------------------------------------------------------------------
(* No partial identity, and success means observed *)

\* A run that links has selected a version of the bytes that it hashed.
LinksSelected ==
  \A r \in Runs : pc[r] \in {"link_upsert_source", "link_commit"} =>
    \E v \in versions : v.id = found[r] /\ v.blob = hash[r]

IdentityInv == NoPartialIdentity /\ DoneIsObserved /\ LinksSelected

LEMMA InitIdentityInv == Init => IdentityInv
BY DEF Init, IdentityInv, NoPartialIdentity, DoneIsObserved, LinksSelected

\* A step that writes no table, and after which its run has neither returned nor
\* selected a version.
LEMMA IdentityFrame ==
  ASSUME IdentityInv, TypeInv, NEW r \in Runs,
         UNCHANGED <<tables, src, hash>>,
         \A q \in Runs \ {r} : pc'[q] = pc[q] /\ found'[q] = found[q],
         pc'[r] \notin {"done", "link_upsert_source", "link_commit"}
  PROVE  IdentityInv'
BY DEF IdentityInv, NoPartialIdentity, DoneIsObserved, LinksSelected, tables

\* After a link is added its source has a link, and so has every other source
\* that had one.
LEMMA LinkSource ==
  ASSUME NEW s, NEW v, NEW c,
         \A x \in sources : \E l \in links : l.source = x,
         sources' = sources \cup {s},
         links' = links \cup {[source |-> s, version |-> v, blob |-> c]}
  PROVE  \A x \in sources' : \E l \in links' : l.source = x
<1>1. [source |-> s, version |-> v, blob |-> c] \in links'
  OBVIOUS
<1> QED
  BY <1>1

\* After a link is added its source is observed with its blob, and nothing that
\* was observed is forgotten.
LEMMA ObservedKept ==
  ASSUME NEW s, NEW v, NEW c,
         links' = links \cup {[source |-> s, version |-> v, blob |-> c]}
  PROVE  /\ \E l \in links' : l.source = s /\ l.blob = c
         /\ \A x, y : (\E l \in links : l.source = x /\ l.blob = y)
                      => \E l \in links' : l.source = x /\ l.blob = y
<1>1. [source |-> s, version |-> v, blob |-> c] \in links'
  OBVIOUS
<1> QED
  BY <1>1

\* A run that adds a link for its own source and bytes and returns has recorded
\* them, and so has every run that had returned.
LEMMA DoneIsObservedKept ==
  ASSUME TypeOK, DoneIsObserved, NEW r \in Runs, NEW v,
         pc' = [pc EXCEPT ![r] = "done"],
         links' = links \cup {[source |-> src[r], version |-> v, blob |-> hash[r]]},
         UNCHANGED inputs
  PROVE  DoneIsObserved'
<1>1. src' = src /\ hash' = hash
  BY DEF inputs
<1>2. /\ \E l \in links' : l.source = src[r] /\ l.blob = hash[r]
      /\ \A x, y : (\E l \in links : l.source = x /\ l.blob = y)
                   => \E l \in links' : l.source = x /\ l.blob = y
  BY ObservedKept
<1>3. ASSUME NEW q \in Runs, pc'[q] = "done"
      PROVE  \E l \in links' : l.source = src[q] /\ l.blob = hash[q]
  <2>1. CASE q = r
    BY <1>2, <2>1
  <2>2. CASE q # r
    <3>1. pc[q] = "done"
      BY <1>3, <2>2 DEF TypeOK
    <3>2. \E l \in links : l.source = src[q] /\ l.blob = hash[q]
      BY <3>1 DEF DoneIsObserved
    <3> QED
      BY <1>2, <3>2
  <2> QED
    BY <2>1, <2>2
<1> QED
  BY <1>1, <1>3 DEF DoneIsObserved

LEMMA NextIdentityInv == TypeInv /\ IdentityInv /\ [Next]_vars => IdentityInv'
<1> SUFFICES ASSUME TypeInv, IdentityInv, [Next]_vars PROVE IdentityInv'
  OBVIOUS
<1> USE DEF Goto, Decide, tables, locks, inputs, locals, TypeInv, TypeOK
<1>1. ASSUME NEW r \in Runs, Start(r) PROVE IdentityInv'
  BY <1>1, IdentityFrame DEF Start
<1>2. ASSUME NEW r \in Runs, FindBlob(r) \/ FindSource(r) \/ FindSourceOfNew(r)
      PROVE  IdentityInv'
  BY <1>2, IdentityFrame DEF FindBlob, FindSource, FindSourceOfNew
<1>3. ASSUME NEW r \in Runs, FindSourceVersion(r) PROVE IdentityInv'
  BY <1>3 DEF FindSourceVersion, Observed,
     IdentityInv, NoPartialIdentity, DoneIsObserved, LinksSelected
<1>4. ASSUME NEW r \in Runs, FindCanonical(r) PROVE IdentityInv'
  BY <1>4 DEF FindCanonical, VersionRow,
     IdentityInv, NoPartialIdentity, DoneIsObserved, LinksSelected
<1>5. ASSUME NEW r \in Runs, LinkUpsertSource(r) PROVE IdentityInv'
  BY <1>5 DEF LinkUpsertSource,
     IdentityInv, NoPartialIdentity, DoneIsObserved, LinksSelected
<1>6. ASSUME NEW r \in Runs, LinkCommit(r) PROVE IdentityInv'
  <2> DEFINE link == [source |-> src[r], version |-> found[r], blob |-> hash[r]]
  <2>1. /\ pc[r] = "link_commit"
        /\ pc' = [pc EXCEPT ![r] = "done"]
        /\ sources' = sources \cup {src[r]}
        /\ links' = links \cup {link}
        /\ UNCHANGED <<blobs, versions, src, hash, found>>
    BY <1>6 DEF LinkCommit
  <2>2. NoPartialIdentity'
    <3>1. \E v \in versions : v.id = link.version /\ v.blob = link.blob
      BY <2>1 DEF IdentityInv, LinksSelected
    <3>2. \A s \in sources' : \E l \in links' : l.source = s
      BY <2>1, LinkSource DEF IdentityInv, NoPartialIdentity
    <3> HIDE DEF link
    <3> QED
      BY <2>1, <3>1, <3>2 DEF IdentityInv, NoPartialIdentity
  <2>3. DoneIsObserved'
    BY <2>1, DoneIsObservedKept DEF IdentityInv
  <2>4. LinksSelected'
    BY <2>1 DEF IdentityInv, LinksSelected
  <2> QED
    BY <2>2, <2>3, <2>4 DEF IdentityInv
<1>7. ASSUME NEW r \in Runs,
             \/ Extract(r) \/ Embed(r)
             \/ StoreBlob(r) \/ StoreSource(r) \/ StoreDocument(r)
      PROVE  IdentityInv'
  BY <1>7, IdentityFrame DEF Extract, Embed, StoreBlob, StoreSource, StoreDocument
<1>8. ASSUME NEW r \in Runs, StoreCommit(r) PROVE IdentityInv'
  <2> DEFINE link == [source |-> src[r], version |-> r, blob |-> hash[r]]
             row  == [id |-> r, doc |-> DocumentOf(r), num |-> number[r], blob |-> hash[r]]
  <2>1. /\ pc[r] = "store_commit"
        /\ pc' = [pc EXCEPT ![r] = "done"]
        /\ blobs' = blobs \cup {hash[r]}
        /\ sources' = sources \cup {src[r]}
        /\ versions' = versions \cup {row}
        /\ links' = links \cup {link}
        /\ UNCHANGED <<src, hash, found>>
    BY <1>8 DEF StoreCommit
  <2>2. NoPartialIdentity'
    <3>1. row \in versions' /\ row.id = link.version /\ row.blob = link.blob /\ row.blob = hash[r]
      BY <2>1
    <3>2. \A s \in sources' : \E l \in links' : l.source = s
      BY <2>1, LinkSource DEF IdentityInv, NoPartialIdentity
    <3> HIDE DEF link, row
    <3> QED
      BY <2>1, <3>1, <3>2 DEF IdentityInv, NoPartialIdentity
  <2>3. DoneIsObserved'
    BY <2>1, DoneIsObservedKept DEF IdentityInv
  <2>4. LinksSelected'
    BY <2>1 DEF IdentityInv, LinksSelected
  <2> QED
    BY <2>2, <2>3, <2>4 DEF IdentityInv
<1>9. ASSUME NEW r \in Runs, Fail(r) PROVE IdentityInv'
  BY <1>9, IdentityFrame DEF Fail
<1>10. ASSUME NEW r \in Runs, NEW c \in Contents, Rewrite(r, c) PROVE IdentityInv'
  BY <1>10 DEF Rewrite,
     IdentityInv, NoPartialIdentity, DoneIsObserved, LinksSelected
<1>11. CASE UNCHANGED vars
  BY <1>11 DEF vars, IdentityInv, NoPartialIdentity, DoneIsObserved, LinksSelected
<1> QED
  BY <1>1, <1>2, <1>3, <1>4, <1>5, <1>6, <1>7, <1>8, <1>9, <1>10, <1>11
     DEF Next, Step, Quiescent

\* No reader ever sees a blob without a version, a source without a link, or a
\* link to a version of other bytes, although any run may die at any statement.
THEOREM IdentityComplete == Spec => []NoPartialIdentity
<1>1. IdentityInv => NoPartialIdentity
  BY DEF IdentityInv
<1> QED
  BY InitTypeInv, NextTypeInv, InitIdentityInv, NextIdentityInv, <1>1, PTL DEF Spec

\* A call of run_pipeline_from_source that returns has recorded its source with
\* its bytes, also when other runs committed between its decision and its writes.
THEOREM SuccessIsObserved == Spec => []DoneIsObserved
<1>1. IdentityInv => DoneIsObserved
  BY DEF IdentityInv
<1> QED
  BY InitTypeInv, NextTypeInv, InitIdentityInv, NextIdentityInv, <1>1, PTL DEF Spec

-----------------------------------------------------------------------------
(* One process: the same bytes are stored once *)

\* A run that found its bytes unknown is alone, so they still are.
StillUnknown ==
  \A r \in Runs :
    pc[r] \in {"find_source_of_new"} \cup Preparing \cup Storing => hash[r] \notin blobs

SequentialInv ==
  /\ \A q, r \in Active : q = r
  /\ StillUnknown
  /\ \A v \in versions : v.blob \in blobs
  /\ OneVersionPerBlob

LEMMA InitSequentialInv == Init => SequentialInv
BY DEF Init, SequentialInv, Active, StillUnknown, OneVersionPerBlob

\* A run starts only when none is active.
LEMMA StartsAlone ==
  ASSUME MaxActive = 1, NEW r \in Runs, Start(r)
  PROVE  Active = {}
<1>1. IsFiniteSet(Active)
  BY RunsAssumption, FS_Subset DEF Active
<1>2. Cardinality(Active) \in Nat /\ Cardinality(Active) < 1
  BY <1>1, FS_CardinalityType DEF Start
<1> QED
  BY <1>1, <1>2, FS_EmptySet

\* A step of an active run that writes no table.
LEMMA SequentialFrame ==
  ASSUME SequentialInv, TypeInv, NEW r \in Runs,
         UNCHANGED <<blobs, versions, hash>>,
         pc[r] \in ActivePCs,
         \A q \in Runs \ {r} : pc'[q] = pc[q],
         pc'[r] \in {"find_source_of_new"} \cup Preparing \cup Storing => hash[r] \notin blobs
  PROVE  SequentialInv'
BY DEF SequentialInv, Active, StillUnknown, OneVersionPerBlob

LEMMA NextSequentialInv ==
  ASSUME MaxActive = 1
  PROVE  TypeInv /\ SequentialInv /\ [Next]_vars => SequentialInv'
<1> SUFFICES ASSUME TypeInv, SequentialInv, [Next]_vars PROVE SequentialInv'
  OBVIOUS
<1> USE DEF Goto, Decide, tables, locks, inputs, locals, TypeInv, TypeOK
<1>1. ASSUME NEW r \in Runs, Start(r) PROVE SequentialInv'
  <2>1. /\ pc' = [pc EXCEPT ![r] = "find_blob"]
        /\ UNCHANGED <<blobs, versions, hash>>
    BY <1>1 DEF Start
  <2>2. \A q \in Runs : pc[q] \notin ActivePCs
    BY <1>1, StartsAlone DEF Active
  <2> QED
    BY <2>1, <2>2 DEF SequentialInv, Active, StillUnknown, OneVersionPerBlob
<1>2. ASSUME NEW r \in Runs, FindBlob(r) PROVE SequentialInv'
  BY <1>2, SequentialFrame DEF FindBlob, KnownBytes
<1>3. ASSUME NEW r \in Runs,
             \/ FindSource(r) \/ FindSourceVersion(r)
             \/ FindCanonical(r) \/ LinkUpsertSource(r) \/ LinkCommit(r) \/ Fail(r)
      PROVE  SequentialInv'
  BY <1>3, SequentialFrame
     DEF FindSource, FindSourceVersion, FindCanonical, LinkUpsertSource, LinkCommit, Fail
<1>4. ASSUME NEW r \in Runs,
             \/ FindSourceOfNew(r) \/ Extract(r) \/ Embed(r)
             \/ StoreBlob(r) \/ StoreSource(r) \/ StoreDocument(r)
      PROVE  SequentialInv'
  <2>1. hash[r] \notin blobs
    BY <1>4 DEF FindSourceOfNew, Extract, Embed, StoreBlob, StoreSource, StoreDocument,
       SequentialInv, StillUnknown
  <2> QED
    BY <1>4, <2>1, SequentialFrame
       DEF FindSourceOfNew, Extract, Embed, StoreBlob, StoreSource, StoreDocument
<1>5. ASSUME NEW r \in Runs, StoreCommit(r) PROVE SequentialInv'
  <2> DEFINE row == [id |-> r, doc |-> DocumentOf(r), num |-> number[r], blob |-> hash[r]]
  <2>1. /\ pc[r] = "store_commit"
        /\ pc' = [pc EXCEPT ![r] = "done"]
        /\ blobs' = blobs \cup {hash[r]}
        /\ versions' = versions \cup {row}
        /\ UNCHANGED hash
    BY <1>5 DEF StoreCommit
  <2>2. hash[r] \notin blobs
    BY <2>1 DEF SequentialInv, StillUnknown
  <2>3. \A q \in Runs : pc'[q] \notin ActivePCs
    BY <2>1 DEF SequentialInv, Active
  <2>4. OneVersionPerBlob'
    BY <2>1, <2>2 DEF SequentialInv, OneVersionPerBlob
  <2> QED
    BY <2>1, <2>3, <2>4 DEF SequentialInv, Active, StillUnknown
<1>6. ASSUME NEW r \in Runs, NEW c \in Contents, Rewrite(r, c) PROVE SequentialInv'
  BY <1>6 DEF Rewrite, SequentialInv, Active, StillUnknown, OneVersionPerBlob
<1>7. CASE UNCHANGED vars
  BY <1>7 DEF vars, SequentialInv, Active, StillUnknown, OneVersionPerBlob
<1> QED
  BY <1>1, <1>2, <1>3, <1>4, <1>5, <1>6, <1>7 DEF Next, Step, Quiescent

\* As long as one process ingests at a time, no bytes are ever given two versions:
\* chunking and embedding happen once for each content.
THEOREM StoredOnce == ASSUME MaxActive = 1 PROVE Spec => []OneVersionPerBlob
<1>1. SequentialInv => OneVersionPerBlob
  BY DEF SequentialInv
<1>2. TypeInv /\ SequentialInv /\ [Next]_vars => SequentialInv'
  BY NextSequentialInv
<1> QED
  BY InitTypeInv, NextTypeInv, InitSequentialInv, <1>1, <1>2, PTL DEF Spec

-----------------------------------------------------------------------------
(* Version numbers and chunks *)

\* A version's id is that of a run which has committed, and its document exists.
VersionIds ==
  /\ \A v \in versions : pc[v.id] = "done" /\ \E d \in documents : d.id = v.doc
  /\ \A v, w \in versions : v.id = w.id => v = w

Numbered(d) ==
  /\ IsFiniteSet(VersionsOf(d))
  /\ {v.num : v \in VersionsOf(d)} = 1..d.current
  /\ Cardinality(VersionsOf(d)) = d.current

ChunkDocuments == \A k \in chunks : \E d \in documents : d.id = k.doc

VersionInv ==
  /\ VersionIds
  /\ \A d \in documents : Numbered(d)
  /\ ChunkDocuments
  /\ ChunksOfCurrent

LEMMA InitVersionInv == Init => VersionInv
BY DEF Init, VersionInv, VersionIds, ChunkDocuments, ChunksOfCurrent

\* A step that writes none of the three tables, after which whoever had returned
\* still has.
LEMMA VersionFrame ==
  ASSUME VersionInv, TypeInv, UNCHANGED <<documents, versions, chunks>>,
         \A q \in Runs : pc[q] = "done" => pc'[q] = "done"
  PROVE  VersionInv'
<1>1. VersionIds'
  BY DEF VersionInv, VersionIds, TypeInv, TypeOK, VersionRow
<1>2. \A d \in documents' : Numbered(d)'
  BY DEF VersionInv, Numbered, VersionsOf
<1>3. ChunkDocuments' /\ ChunksOfCurrent'
  BY DEF VersionInv, ChunkDocuments, ChunksOfCurrent, CurrentVersions, VersionsOf
<1> QED
  BY <1>1, <1>2, <1>3 DEF VersionInv

\* n versions that are numbered 1 to n and one more numbered n+1 are numbered
\* 1 to n+1.
LEMMA OneMoreVersion ==
  ASSUME NEW V, NEW n \in Nat, NEW row,
         IsFiniteSet(V), {v.num : v \in V} = 1..n, Cardinality(V) = n,
         row \notin V, row.num = n + 1
  PROVE  /\ IsFiniteSet(V \cup {row})
         /\ {v.num : v \in V \cup {row}} = 1..(n + 1)
         /\ Cardinality(V \cup {row}) = n + 1
<1>1. IsFiniteSet(V \cup {row}) /\ Cardinality(V \cup {row}) = n + 1
  BY FS_AddElement
<1>2. {v.num : v \in V \cup {row}} = {v.num : v \in V} \cup {n + 1}
  OBVIOUS
<1>3. 1..(n + 1) = (1..n) \cup {n + 1}
  OBVIOUS
<1> QED
  BY <1>1, <1>2, <1>3

\* The commit of r: the versions of every other document are as they were, and
\* r's document has one more, its new current version.
LEMMA VersionsAfterCommit ==
  ASSUME DocumentInv, VersionInv, NEW r \in Runs, StoreCommit(r)
  PROVE  LET doc == DocumentOf(r)
             row == [id |-> r, doc |-> doc, num |-> number[r], blob |-> hash[r]]
             V   == {v \in versions : v.doc = doc}
         IN  /\ row \notin versions
             /\ number[r] \in Nat \ {0}
             /\ IsFiniteSet(V)
             /\ {v.num : v \in V} = 1..(number[r] - 1)
             /\ Cardinality(V) = number[r] - 1
<1> DEFINE doc == DocumentOf(r)
           row == [id |-> r, doc |-> doc, num |-> number[r], blob |-> hash[r]]
           V   == {v \in versions : v.doc = doc}
<1>1. pc[r] = "store_commit" /\ SelectedCurrent(r)
  BY DEF StoreCommit, DocumentInv
<1>2. \A v \in versions : v.id # r
  BY <1>1 DEF VersionInv, VersionIds
<1>3. row \notin versions
  BY <1>2
<1>4. number[r] \in Nat \ {0}
  BY <1>1 DEF DocumentInv, TypeInv, TypeOK, Selected
<1>5. CASE found[r] = NoRow /\ number[r] = 1
  <2>1. doc = r
    BY <1>5 DEF DocumentOf
  <2>2. \A d \in documents : d.id # r
    BY <1>1 DEF DocumentInv, DocumentIds
  <2>3. V = {}
    BY <2>1, <2>2 DEF VersionInv, VersionIds
  <2>4. {v.num : v \in V} = 1..0
    BY <2>3
  <2> HIDE DEF V
  <2>5. IsFiniteSet(V) /\ Cardinality(V) = 0
    BY <2>3, FS_EmptySet
  <2>6. number[r] - 1 = 0
    BY <1>5
  <2> QED
    BY <2>4, <2>5, <2>6, <1>3, <1>4 DEF V
<1>6. CASE \E d \in DocumentsAt(src[r]) : d.id = found[r] /\ number[r] = d.current + 1
  <2>1. PICK d \in documents : d.id = found[r] /\ number[r] = d.current + 1
    BY <1>6 DEF DocumentsAt
  <2>2. d.current \in Nat /\ d.id \in Runs
    BY DEF DocumentInv, TypeInv, TypeOK, DocumentRow
  <2>3. doc = d.id
    BY <2>1, <2>2, RunsAssumption DEF DocumentOf
  <2>4. Numbered(d)
    BY DEF VersionInv
  <2>5. V = VersionsOf(d)
    BY <2>3 DEF VersionsOf
  <2>6. number[r] - 1 = d.current
    BY <2>1, <2>2
  <2> HIDE DEF V
  <2> QED
    BY <2>4, <2>5, <2>6, <1>3, <1>4 DEF Numbered, V
<1> QED
  BY <1>1, <1>5, <1>6 DEF SelectedCurrent

LEMMA CommitKeepsVersions ==
  ASSUME DocumentInv, VersionInv, NEW r \in Runs, StoreCommit(r)
  PROVE  VersionInv'
<1> DEFINE doc   == DocumentOf(r)
           row   == [id |-> r, doc |-> doc, num |-> number[r], blob |-> hash[r]]
           V     == {v \in versions : v.doc = doc}
           drow  == [id |-> doc, path |-> src[r], current |-> number[r]]
           chunk == [doc |-> doc, version |-> r, text |-> text[r]]
           n     == number[r] - 1
<1>1. /\ pc' = [pc EXCEPT ![r] = "done"]
      /\ documents' = {d \in documents : d.id # doc} \cup {drow}
      /\ versions' = versions \cup {row}
      /\ chunks' = {k \in chunks : k.doc # doc} \cup {chunk}
      /\ pc[r] = "store_commit"
  BY DEF StoreCommit, Goto, OtherChunks
<1>2. /\ row \notin versions
      /\ number[r] \in Nat \ {0}
      /\ IsFiniteSet(V)
      /\ {v.num : v \in V} = 1..n
      /\ Cardinality(V) = n
  BY VersionsAfterCommit
<1>3. drow \in documents' /\ drow.id = doc /\ drow.current = number[r] /\ row.doc = doc
      /\ row.num = number[r] /\ row.id = r /\ chunk.doc = doc /\ chunk.version = r
  BY <1>1
<1>4. \A v \in versions : v.id # r
  BY <1>1 DEF VersionInv, VersionIds
<1>5. \A id : (\E d \in documents : d.id = id) => \E d \in documents' : d.id = id
  BY <1>1, <1>3
<1>6. \A q \in Runs : pc[q] = "done" => pc'[q] = "done"
  BY <1>1 DEF DocumentInv, TypeInv, TypeOK
<1>7. pc'[r] = "done"
  BY <1>1 DEF DocumentInv, TypeInv, TypeOK
<1>8. \A v \in versions : v.id \in Runs /\ v.num \in Nat
  BY DEF DocumentInv, TypeInv, TypeOK, VersionRow
<1> HIDE DEF row, drow, chunk
<1>9. VersionIds'
  BY <1>1, <1>3, <1>4, <1>5, <1>6, <1>7, <1>8 DEF VersionInv, VersionIds
<1>10. \A d : d.id = doc => VersionsOf(d)' = V \cup {row}
  BY <1>1, <1>3 DEF VersionsOf
<1>11. \A d \in documents : d.id # doc => VersionsOf(d)' = VersionsOf(d)
  BY <1>1, <1>3 DEF VersionsOf
<1>12. ASSUME NEW d \in documents' PROVE Numbered(d)'
  <2>1. CASE d = drow
    <3>1. n \in Nat /\ n + 1 = number[r] /\ row.num = n + 1 /\ row \notin V
      BY <1>2, <1>3
    <3> HIDE DEF V, n
    <3>2. /\ IsFiniteSet(V \cup {row})
          /\ {v.num : v \in V \cup {row}} = 1..(n + 1)
          /\ Cardinality(V \cup {row}) = n + 1
      BY <1>2, <3>1, OneMoreVersion
    <3> QED
      BY <1>3, <1>10, <2>1, <3>1, <3>2 DEF Numbered
  <2>2. CASE d # drow
    <3>1. d \in documents /\ d.id # doc
      BY <1>1, <2>2
    <3> QED
      BY <1>11, <3>1 DEF VersionInv, Numbered
  <2> QED
    BY <2>1, <2>2
<1>13. ChunkDocuments'
  BY <1>1, <1>3, <1>5 DEF VersionInv, ChunkDocuments
<1>14. ASSUME NEW d \in documents'
       PROVE  {k.version : k \in {x \in chunks' : x.doc = d.id}} = {v.id : v \in CurrentVersions(d)'}
  <2>1. CASE d = drow
    <3>1. {x \in chunks' : x.doc = d.id} = {chunk}
      BY <1>1, <1>3, <2>1
    <3>2. \A v \in V : v.num \in 1..n
      BY <1>2
    <3>3. \A v \in V : v.num # number[r]
      BY <1>2, <3>2
    <3>4. CurrentVersions(d)' = {row}
      BY <1>3, <1>10, <2>1, <3>3 DEF CurrentVersions
    <3> QED
      BY <1>3, <3>1, <3>4
  <2>2. CASE d # drow
    <3>1. d \in documents /\ d.id # doc
      BY <1>1, <2>2
    <3>2. {x \in chunks' : x.doc = d.id} = {x \in chunks : x.doc = d.id}
      BY <1>1, <1>3, <3>1
    <3>3. CurrentVersions(d)' = CurrentVersions(d)
      BY <1>11, <3>1 DEF CurrentVersions
    <3> QED
      BY <3>1, <3>2, <3>3 DEF VersionInv, ChunksOfCurrent
  <2> QED
    BY <2>1, <2>2
<1>15. ChunksOfCurrent'
  BY <1>14 DEF ChunksOfCurrent
<1> QED
  BY <1>9, <1>12, <1>13, <1>15 DEF VersionInv

LEMMA NextVersionInv == DocumentInv /\ VersionInv /\ [Next]_vars => VersionInv'
<1> SUFFICES ASSUME DocumentInv, VersionInv, [Next]_vars PROVE VersionInv'
  OBVIOUS
<1>0. TypeInv
  BY DEF DocumentInv
<1> USE <1>0 DEF Goto, Decide, tables, locks, inputs, locals, TypeInv, TypeOK
<1>1. ASSUME NEW r \in Runs, Start(r) PROVE VersionInv'
  BY <1>1, VersionFrame DEF Start
<1>2. ASSUME NEW r \in Runs, Fail(r) PROVE VersionInv'
  <2>1. pc[r] # "done" /\ pc' = [pc EXCEPT ![r] = "failed"]
    BY <1>2 DEF Fail
  <2>2. UNCHANGED <<documents, versions, chunks>>
    BY <1>2 DEF Fail
  <2> QED
    BY <2>1, <2>2, VersionFrame
<1>3. ASSUME NEW r \in Runs, NEW c \in Contents, Rewrite(r, c) PROVE VersionInv'
  BY <1>3, VersionFrame DEF Rewrite
<1>4. ASSUME NEW r \in Runs,
             FindBlob(r) \/ FindSource(r) \/ FindSourceVersion(r) \/ FindSourceOfNew(r)
      PROVE  VersionInv'
  BY <1>4, VersionFrame DEF FindBlob, FindSource, FindSourceVersion, FindSourceOfNew
<1>5. ASSUME NEW r \in Runs, FindCanonical(r) \/ LinkUpsertSource(r) \/ LinkCommit(r)
      PROVE  VersionInv'
  BY <1>5, VersionFrame DEF FindCanonical, LinkUpsertSource, LinkCommit
<1>6. ASSUME NEW r \in Runs,
             \/ Extract(r) \/ Embed(r)
             \/ StoreBlob(r) \/ StoreSource(r) \/ StoreDocument(r)
      PROVE  VersionInv'
  BY <1>6, VersionFrame DEF Extract, Embed, StoreBlob, StoreSource, StoreDocument
<1>7. ASSUME NEW r \in Runs, StoreCommit(r) PROVE VersionInv'
  BY <1>7, CommitKeepsVersions
<1>8. CASE UNCHANGED vars
  BY <1>8, VersionFrame DEF vars
<1> QED
  BY <1>1, <1>2, <1>3, <1>4, <1>5, <1>6, <1>7, <1>8 DEF Next, Step, Quiescent

\* However many processes ingest at once, the versions of a document are numbered
\* from 1 to its current_version without a gap or a repetition: new_version is
\* computed in one statement and written by later ones, but nobody comes between.
THEOREM NumbersAreDense == Spec => []VersionsNumbered
<1>1. VersionInv => VersionsNumbered
  BY DEF VersionInv, Numbered, VersionsNumbered
<1> QED
  BY InitDocumentInv, NextDocumentInv, InitVersionInv, NextVersionInv, <1>1, PTL DEF Spec

\* However many processes ingest at once, the chunks of a document are those of
\* its current version: the DELETE of one commit and the INSERTs of another never
\* leave the chunks of two versions, or of an older one.
THEOREM IndexIsCurrent == Spec => []ChunksOfCurrent
<1>1. VersionInv => ChunksOfCurrent
  BY DEF VersionInv
<1> QED
  BY InitDocumentInv, NextDocumentInv, InitVersionInv, NextVersionInv, <1>1, PTL DEF Spec

-----------------------------------------------------------------------------
(* The store implements the ledger *)

\* The bytes of every version have been observed: the commit that makes a version
\* makes its link too, so bytes that a linking run found are known to the ledger.
VersionObserved == \A v \in versions : \E l \in links : l.blob = v.blob

LEMMA InitVersionObserved == Init => VersionObserved
BY DEF Init, VersionObserved

LEMMA NextVersionObserved == VersionObserved /\ [Next]_vars => VersionObserved'
<1> SUFFICES ASSUME VersionObserved, [Next]_vars PROVE VersionObserved'
  OBVIOUS
<1> USE DEF tables, locks, inputs, locals
<1>1. ASSUME NEW r \in Runs, StoreCommit(r) PROVE VersionObserved'
  <2> DEFINE row  == [id |-> r, doc |-> DocumentOf(r), num |-> number[r], blob |-> hash[r]]
             link == [source |-> src[r], version |-> r, blob |-> hash[r]]
  <2>1. versions' = versions \cup {row} /\ links' = links \cup {link}
    BY <1>1 DEF StoreCommit
  <2>2. row.blob = link.blob
    OBVIOUS
  <2> HIDE DEF row, link
  <2> QED
    BY <2>1, <2>2 DEF VersionObserved
<1>2. ASSUME NEW r \in Runs, LinkCommit(r) PROVE VersionObserved'
  BY <1>2 DEF LinkCommit, VersionObserved
<1>3. CASE UNCHANGED <<versions, links>>
  BY <1>3 DEF VersionObserved
<1>4. ASSUME NEW r \in Runs, Start(r) \/ Fail(r) \/ \E c \in Contents : Rewrite(r, c)
      PROVE  UNCHANGED <<versions, links>>
  BY <1>4 DEF Start, Fail, Rewrite
<1>5. ASSUME NEW r \in Runs, Step(r), ~StoreCommit(r), ~LinkCommit(r)
      PROVE  UNCHANGED <<versions, links>>
  BY <1>5 DEF Step, FindBlob, FindSource, FindSourceVersion, FindSourceOfNew, FindCanonical,
     LinkUpsertSource, Extract, Embed, StoreBlob, StoreSource, StoreDocument
<1> QED
  BY <1>1, <1>2, <1>3, <1>4, <1>5 DEF Next, Quiescent, vars

\* The refinement mapping of CanonicalStore, by name.
MappedObserved == {<<l.source, l.blob>> : l \in links}
MappedHeads ==
  [s \in Sources |-> IF DocumentsAt(s) = {} THEN 0 ELSE CHOOSE n \in Head(s) : TRUE]

LEMMA LinkObserves ==
  ASSUME NEW s, NEW v, NEW c,
         links' = links \cup {[source |-> s, version |-> v, blob |-> c]}
  PROVE  MappedObserved' = MappedObserved \cup {<<s, c>>}
<1> DEFINE link == [source |-> s, version |-> v, blob |-> c]
<1>1. <<link.source, link.blob>> = <<s, c>>
  OBVIOUS
<1> HIDE DEF link
<1>2. MappedObserved' = {<<l.source, l.blob>> : l \in links \cup {link}}
  BY DEF MappedObserved, link
<1>3. {<<l.source, l.blob>> : l \in links \cup {link}}
        = {<<l.source, l.blob>> : l \in links} \cup {<<link.source, link.blob>>}
  OBVIOUS
<1> QED
  BY <1>1, <1>2, <1>3 DEF MappedObserved

\* The one document at a path determines the head of its source.
LEMMA HeadOfDocument ==
  ASSUME NEW s, NEW d, DocumentsAt(s) = {d}
  PROVE  DocumentsAt(s) # {} /\ (CHOOSE n \in Head(s) : TRUE) = d.current
<1>1. Head(s) = {d.current}
  BY DEF Head
<1> QED
  BY <1>1

\* Linking is a step of the ledger: the bytes are known.
LEMMA LinkCommitRefines ==
  ASSUME TypeInv, IdentityInv, VersionObserved, NEW r \in Runs, LinkCommit(r),
         NEW s, s = src[r], NEW c, c = hash[r]
  PROVE  Ledger!LinkKnown(s, c)
<1>1. /\ links' = links \cup {[source |-> src[r], version |-> found[r], blob |-> hash[r]]}
      /\ UNCHANGED documents
      /\ pc[r] = "link_commit"
  BY DEF LinkCommit
<1>2. PICK l \in links : l.blob = hash[r]
  BY <1>1 DEF IdentityInv, LinksSelected, VersionObserved
<1>3. l.source \in Sources
  BY DEF TypeInv, TypeOK, LinkRow
<1>4. <<l.source, hash[r]>> \in MappedObserved
  BY <1>2 DEF MappedObserved
<1>5. Ledger!Known(c)
  BY <1>3, <1>4 DEF Ledger!Known, MappedObserved
<1>6. MappedObserved' = MappedObserved \cup {<<s, c>>}
  BY <1>1, LinkObserves
<1>7. MappedHeads' = MappedHeads
  BY <1>1 DEF MappedHeads, DocumentsAt, Head
<1> QED
  BY <1>5, <1>6, <1>7 DEF Ledger!LinkKnown, MappedObserved, MappedHeads

\* Storing is a step of the ledger: the head of the run's source, and no other,
\* moves to exactly the next version.
LEMMA StoreCommitRefines ==
  ASSUME DocumentInv, NEW r \in Runs, StoreCommit(r),
         NEW s, s = src[r], NEW c, c = hash[r]
  PROVE  Ledger!StoreVersion(s, c)
<1> DEFINE row == [id |-> DocumentOf(r), path |-> src[r], current |-> number[r]]
<1>1. /\ links' = links \cup {[source |-> src[r], version |-> r, blob |-> hash[r]]}
      /\ documents' = {d \in documents : d.id # DocumentOf(r)} \cup {row}
      /\ pc[r] = "store_commit"
  BY DEF StoreCommit
<1>2. MappedObserved' = MappedObserved \cup {<<s, c>>}
  BY <1>1, LinkObserves
<1>3. \A d \in documents : d.path = src[r] <=> d.id = DocumentOf(r)
  BY <1>1, RunsAssumption
     DEF SelectedCurrent, DocumentOf, DocumentsAt, OneDocumentPerPath, DocumentIds,
         DocumentInv, TypeInv, TypeOK, DocumentRow
<1>4. SelectedCurrent(r) /\ s \in Sources
  BY <1>1 DEF DocumentInv, TypeInv, TypeOK
<1>5. MappedHeads[s] + 1 = number[r]
  <2>1. CASE found[r] = NoRow /\ number[r] = 1 /\ DocumentsAt(src[r]) = {}
    BY <1>4, <2>1 DEF MappedHeads
  <2>2. CASE \E d \in DocumentsAt(src[r]) : d.id = found[r] /\ number[r] = d.current + 1
    <3>1. PICK d \in DocumentsAt(src[r]) : number[r] = d.current + 1
      BY <2>2
    <3>2. DocumentsAt(s) = {d}
      BY <3>1 DEF DocumentsAt, DocumentInv, OneDocumentPerPath
    <3>3. MappedHeads[s] = d.current
      BY <1>4, <3>2, HeadOfDocument DEF MappedHeads
    <3> QED
      BY <3>1, <3>3
  <2> QED
    BY <1>4, <2>1, <2>2 DEF SelectedCurrent
<1>6. ASSUME NEW x \in Sources, x # s PROVE MappedHeads'[x] = MappedHeads[x]
  <2>1. DocumentsAt(x)' = DocumentsAt(x)
    BY <1>1, <1>3, <1>6 DEF DocumentsAt
  <2> QED
    BY <2>1 DEF MappedHeads, Head
<1>7. MappedHeads'[s] = number[r]
  <2>1. \A d \in documents' : d.path = s <=> d = row
    BY <1>1, <1>3
  <2>2. row \in documents' /\ row.current = number[r]
    BY <1>1
  <2> HIDE DEF row
  <2>3. {d \in documents' : d.path = s} = {row}
    BY <2>1, <2>2
  <2>4. DocumentsAt(s)' = {row}
    BY <2>3 DEF DocumentsAt
  <2>5. Head(s)' = {number[r]}
    BY <2>2, <2>4 DEF Head
  <2> QED
    BY <1>4, <2>4, <2>5 DEF MappedHeads
<1>8. MappedHeads' = [MappedHeads EXCEPT ![s] = @ + 1]
  BY <1>4, <1>5, <1>6, <1>7 DEF MappedHeads
<1> QED
  BY <1>2, <1>8 DEF Ledger!StoreVersion, MappedObserved, MappedHeads

\* The empty store is the empty ledger.
LEMMA InitRefines == Init => Ledger!LedgerInit
<1> SUFFICES ASSUME Init PROVE Ledger!LedgerInit
  OBVIOUS
<1>1. links = {} /\ \A s : DocumentsAt(s) = {}
  BY DEF Init, DocumentsAt
<1> QED
  BY <1>1 DEF Ledger!LedgerInit

\* Every step of the store is a step of the ledger or leaves it as it is.
LEMMA NextRefines ==
  DocumentInv /\ IdentityInv /\ VersionObserved /\ [Next]_vars
    => [Ledger!LedgerNext]_(Ledger!ledgerVars)
<1> SUFFICES ASSUME DocumentInv, IdentityInv, VersionObserved, [Next]_vars
             PROVE  [Ledger!LedgerNext]_(Ledger!ledgerVars)
  OBVIOUS
<1>0. TypeInv /\ \A r \in Runs : src[r] \in Sources /\ hash[r] \in Contents
  BY DEF DocumentInv, TypeInv, TypeOK
<1> USE DEF tables, locks, inputs, locals
<1>1. ASSUME NEW r \in Runs, StoreCommit(r) PROVE Ledger!LedgerNext
  <2>1. PICK s \in Sources, c \in Contents : s = src[r] /\ c = hash[r]
    BY <1>0
  <2>2. Ledger!StoreVersion(s, c)
    BY <1>0, <1>1, <2>1, StoreCommitRefines
  <2> QED
    BY <2>2 DEF Ledger!LedgerNext
<1>2. ASSUME NEW r \in Runs, LinkCommit(r) PROVE Ledger!LedgerNext
  <2>1. PICK s \in Sources, c \in Contents : s = src[r] /\ c = hash[r]
    BY <1>0
  <2>2. Ledger!LinkKnown(s, c)
    BY <1>0, <1>2, <2>1, LinkCommitRefines
  <2> QED
    BY <2>2 DEF Ledger!LedgerNext
<1>3. CASE UNCHANGED <<documents, links>>
  BY <1>3 DEF Ledger!ledgerVars, DocumentsAt, Head
<1>4. ASSUME NEW r \in Runs, Start(r) \/ Fail(r) \/ \E c \in Contents : Rewrite(r, c)
      PROVE  UNCHANGED <<documents, links>>
  BY <1>4 DEF Start, Fail, Rewrite
<1>5. ASSUME NEW r \in Runs, Step(r), ~StoreCommit(r), ~LinkCommit(r)
      PROVE  UNCHANGED <<documents, links>>
  BY <1>5 DEF Step, FindBlob, FindSource, FindSourceVersion, FindSourceOfNew, FindCanonical,
     LinkUpsertSource, Extract, Embed, StoreBlob, StoreSource, StoreDocument
<1> QED
  BY <1>1, <1>2, <1>3, <1>4, <1>5 DEF Next, Quiescent, vars

\* Whatever any number of processes do at once, committed rows change only as the
\* ledger allows: an ingest links known bytes, or makes exactly the next version
\* of its own source's document, in one step.
THEOREM StoreImplementsLedger == Spec => ImplementsLedger
<1>1. DocumentInv => TypeInv
  BY DEF DocumentInv
<1> QED
  BY InitDocumentInv, NextDocumentInv, InitIdentityInv, NextIdentityInv, InitVersionObserved,
     NextVersionObserved, InitRefines, NextRefines, <1>1, PTL
     DEF Spec, ImplementsLedger, Ledger!LedgerSpec

-----------------------------------------------------------------------------
(* One process: the reported outcome is what happened *)

\* What a run has decided agrees with the sources table until it commits.
DecidedTruly ==
  \A r \in Runs :
    /\ pc[r] \in {"idle"} \cup Deciding => outcome[r] = "none"
    /\ pc[r] \in Linking => outcome[r] = "new_source_known_content"
    /\ pc[r] \in Preparing \cup Storing =>
         /\ outcome[r] = "new_content" => src[r] \notin sources
         /\ outcome[r] = "changed_content" => src[r] \in sources

DocumentsHaveSources == \A d \in documents : d.path \in sources

OutcomeInv == DecidedTruly /\ DocumentsHaveSources /\ OutcomeIsTrue

LEMMA InitOutcomeInv == Init => OutcomeInv
BY DEF Init, OutcomeInv, DecidedTruly, DocumentsHaveSources, OutcomeIsTrue

\* A step that writes no table and after which no other run has returned.
LEMMA OutcomeFrame ==
  ASSUME OutcomeInv, TypeInv, NEW r \in Runs,
         UNCHANGED <<sources, documents, versions, links, src>>,
         \A q \in Runs \ {r} : pc'[q] = pc[q] /\ outcome'[q] = outcome[q],
         pc'[r] \in {"idle"} \cup Deciding => outcome'[r] = "none",
         pc'[r] \in Linking => outcome'[r] = "new_source_known_content",
         pc'[r] \in Preparing \cup Storing =>
           /\ outcome'[r] = "new_content" => src[r] \notin sources
           /\ outcome'[r] = "changed_content" => src[r] \in sources,
         pc'[r] = "done" => outcome'[r] = "unchanged"
  PROVE  OutcomeInv'
<1>1. DecidedTruly'
  BY DEF OutcomeInv, DecidedTruly
<1>2. DocumentsHaveSources'
  BY DEF OutcomeInv, DocumentsHaveSources
<1>3. OutcomeIsTrue'
  BY DEF OutcomeInv, OutcomeIsTrue
<1> QED
  BY <1>1, <1>2, <1>3 DEF OutcomeInv

\* Committing a link: nothing that was reported becomes false, and no run is
\* between its decision and its writes.
LEMMA LinkCommitOutcome ==
  ASSUME OutcomeInv, SequentialInv, TypeInv, NEW r \in Runs, LinkCommit(r)
  PROVE  OutcomeInv'
<1>1. /\ pc[r] = "link_commit"
      /\ pc' = [pc EXCEPT ![r] = "done"]
      /\ sources' = sources \cup {src[r]}
      /\ links \subseteq links'
      /\ UNCHANGED <<documents, versions, src, outcome>>
  BY DEF LinkCommit, Goto, inputs, locals
<1>2. \A q \in Runs \ {r} : pc[q] \notin ActivePCs
  BY <1>1 DEF SequentialInv, Active
<1>3. DecidedTruly'
  BY <1>1, <1>2 DEF OutcomeInv, DecidedTruly, TypeInv, TypeOK
<1>4. DocumentsHaveSources'
  BY <1>1 DEF OutcomeInv, DocumentsHaveSources
<1>5. outcome[r] = "new_source_known_content"
  BY <1>1 DEF OutcomeInv, DecidedTruly
<1>6. OutcomeIsTrue'
  BY <1>1, <1>5 DEF OutcomeInv, OutcomeIsTrue, TypeInv, TypeOK
<1> QED
  BY <1>3, <1>4, <1>6 DEF OutcomeInv

\* Committing a version: a source that was unknown has no document, so the version
\* is its first; a source that was known has a link, to the version of another run.
LEMMA StoreCommitOutcome ==
  ASSUME OutcomeInv, SequentialInv, DocumentInv, VersionInv, IdentityInv,
         NEW r \in Runs, StoreCommit(r)
  PROVE  OutcomeInv'
<1> DEFINE row  == [id |-> r, doc |-> DocumentOf(r), num |-> number[r], blob |-> hash[r]]
           drow == [id |-> DocumentOf(r), path |-> src[r], current |-> number[r]]
<1>1. /\ pc[r] = "store_commit"
      /\ pc' = [pc EXCEPT ![r] = "done"]
      /\ sources' = sources \cup {src[r]}
      /\ documents' = {d \in documents : d.id # DocumentOf(r)} \cup {drow}
      /\ versions' = versions \cup {row}
      /\ links \subseteq links'
      /\ UNCHANGED <<src, outcome>>
  BY DEF StoreCommit, Goto, inputs, locals
<1>2. \A q \in Runs \ {r} : pc[q] \notin ActivePCs
  BY <1>1 DEF SequentialInv, Active
<1>3. drow.path = src[r] /\ row.id = r /\ row.num = number[r] /\ row \in versions'
  BY <1>1
<1>4. TypeInv /\ SelectedCurrent(r)
  BY <1>1 DEF DocumentInv
<1> HIDE DEF row, drow
<1>5. DecidedTruly'
  BY <1>1, <1>2, <1>4 DEF OutcomeInv, DecidedTruly, TypeInv, TypeOK
<1>6. DocumentsHaveSources'
  BY <1>1, <1>3 DEF OutcomeInv, DocumentsHaveSources
<1>7. ASSUME outcome[r] = "new_content" PROVE \E v \in versions' : v.id = r /\ v.num = 1
  <2>1. src[r] \notin sources
    BY <1>1, <1>7 DEF OutcomeInv, DecidedTruly
  <2>2. DocumentsAt(src[r]) = {}
    BY <2>1 DEF OutcomeInv, DocumentsHaveSources, DocumentsAt
  <2>3. number[r] = 1
    BY <1>4, <2>2 DEF SelectedCurrent
  <2> QED
    BY <1>3, <2>3
<1>8. ASSUME outcome[r] = "changed_content"
      PROVE  \E l \in links' : l.source = src[r] /\ l.version # r
  <2>1. src[r] \in sources
    BY <1>1, <1>8 DEF OutcomeInv, DecidedTruly
  <2>2. PICK l \in links : l.source = src[r]
    BY <2>1 DEF IdentityInv, NoPartialIdentity
  <2>3. PICK v \in versions : v.id = l.version
    BY <2>2 DEF IdentityInv, NoPartialIdentity
  <2>4. pc[l.version] = "done"
    BY <2>3 DEF VersionInv, VersionIds
  <2>5. l.version # r
    BY <1>1, <2>4
  <2> QED
    BY <1>1, <2>2, <2>5
<1>9. OutcomeIsTrue'
  <2> SUFFICES ASSUME NEW q \in Runs, pc'[q] = "done"
               PROVE  /\ outcome'[q] = "new_content" => \E v \in versions' : v.id = q /\ v.num = 1
                      /\ outcome'[q] = "changed_content" =>
                           /\ \E v \in versions' : v.id = q
                           /\ \E l \in links' : l.source = src'[q] /\ l.version # q
    BY DEF OutcomeIsTrue
  <2>1. CASE q = r
    BY <1>1, <1>3, <1>7, <1>8, <2>1
  <2>2. CASE q # r
    <3>1. pc[q] = "done"
      BY <1>1, <1>4, <2>2 DEF TypeInv, TypeOK
    <3> QED
      BY <1>1, <3>1 DEF OutcomeInv, OutcomeIsTrue
  <2> QED
    BY <2>1, <2>2
<1> QED
  BY <1>5, <1>6, <1>9 DEF OutcomeInv

LEMMA NextOutcomeInv ==
  OutcomeInv /\ SequentialInv /\ DocumentInv /\ VersionInv /\ IdentityInv /\ [Next]_vars
    => OutcomeInv'
<1> SUFFICES ASSUME OutcomeInv, SequentialInv, DocumentInv, VersionInv, IdentityInv,
                    [Next]_vars
             PROVE  OutcomeInv'
  OBVIOUS
<1>0. TypeInv
  BY DEF DocumentInv
<1>01. TypeOK /\ DecidedTruly
  BY <1>0 DEF TypeInv, OutcomeInv
<1> USE <1>0, <1>01 DEF Goto, Decide, tables, locks, inputs, locals, TypeOK, DecidedTruly
<1>1. ASSUME NEW r \in Runs, Start(r) PROVE OutcomeInv'
  BY <1>1, OutcomeFrame DEF Start
<1>2. ASSUME NEW r \in Runs, FindBlob(r) PROVE OutcomeInv'
  BY <1>2, OutcomeFrame DEF FindBlob
<1>3. ASSUME NEW r \in Runs, FindSource(r) PROVE OutcomeInv'
  BY <1>3, OutcomeFrame DEF FindSource
<1>4. ASSUME NEW r \in Runs, FindSourceVersion(r) PROVE OutcomeInv'
  BY <1>4, OutcomeFrame DEF FindSourceVersion
<1>5. ASSUME NEW r \in Runs, FindSourceOfNew(r) PROVE OutcomeInv'
  BY <1>5, OutcomeFrame DEF FindSourceOfNew, OutcomeOfNew
<1>6. ASSUME NEW r \in Runs, FindCanonical(r) \/ LinkUpsertSource(r) PROVE OutcomeInv'
  BY <1>6, OutcomeFrame DEF FindCanonical, LinkUpsertSource
<1>7. ASSUME NEW r \in Runs, LinkCommit(r) PROVE OutcomeInv'
  BY <1>7, LinkCommitOutcome
<1>8. ASSUME NEW r \in Runs, Extract(r) \/ Embed(r) PROVE OutcomeInv'
  BY <1>8, OutcomeFrame DEF Extract, Embed
<1>9. ASSUME NEW r \in Runs, StoreBlob(r) \/ StoreSource(r) \/ StoreDocument(r)
      PROVE  OutcomeInv'
  BY <1>9, OutcomeFrame DEF StoreBlob, StoreSource, StoreDocument
<1>10. ASSUME NEW r \in Runs, StoreCommit(r) PROVE OutcomeInv'
  BY <1>10, StoreCommitOutcome
<1>11. ASSUME NEW r \in Runs, Fail(r) PROVE OutcomeInv'
  BY <1>11, OutcomeFrame DEF Fail
<1>12. CASE UNCHANGED <<sources, documents, versions, links, src, pc, outcome>>
  BY <1>12 DEF OutcomeInv, DecidedTruly, DocumentsHaveSources, OutcomeIsTrue
<1>13. ASSUME NEW r \in Runs, NEW c \in Contents, Rewrite(r, c)
       PROVE  UNCHANGED <<sources, documents, versions, links, src, pc, outcome>>
  BY <1>13 DEF Rewrite
<1> QED
  BY <1>1, <1>2, <1>3, <1>4, <1>5, <1>6, <1>7, <1>8, <1>9, <1>10, <1>11, <1>12, <1>13
     DEF Next, Step, Quiescent, vars

\* As long as one process ingests at a time, what an ingest of stored bytes reports
\* is what it did: new_content made a first version, changed_content a version of a
\* source that had been observed with another one.
THEOREM OutcomesAreTrue == ASSUME MaxActive = 1 PROVE Spec => []OutcomeIsTrue
<1>1. DocumentInv => TypeInv
  BY DEF DocumentInv
<1>2. OutcomeInv => OutcomeIsTrue
  BY DEF OutcomeInv
<1>3. TypeInv /\ SequentialInv /\ [Next]_vars => SequentialInv'
  BY NextSequentialInv
<1> QED
  BY InitDocumentInv, NextDocumentInv, InitSequentialInv, InitVersionInv, NextVersionInv,
     InitIdentityInv, NextIdentityInv, InitOutcomeInv, NextOutcomeInv, <1>1, <1>2, <1>3, PTL
     DEF Spec
=============================================================================
