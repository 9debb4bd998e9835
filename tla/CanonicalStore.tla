--------------------------- MODULE CanonicalStore ---------------------------
(***************************************************************************)
(* The canonical identity store and the ingest pipeline that writes it     *)
(* (src/cos/ingestion/pipeline.py, ingestion/identity.py, store/db.py).    *)
(*                                                                         *)
(* A run is one call of run_pipeline_from_source by any process: the       *)
(* worker, `cos ingest`, the MCP tool.  It has its own connection, hence   *)
(* one PostgreSQL transaction at READ COMMITTED: every statement sees what *)
(* is committed when the statement starts, the run's own writes become     *)
(* visible to others when its connection block exits (Commit), and INSERT  *)
(* ... ON CONFLICT holds its row until then.  Waiting for such a row is a  *)
(* disabled action.                                                        *)
(*                                                                         *)
(* Rows whose id is gen_random_uuid() are named by the run that inserts    *)
(* them: a run inserts at most one document and one version.  A content    *)
(* stands for the bytes and for their sha256; the chunk and embedding rows *)
(* of a version are one row, replaced together.                            *)
(***************************************************************************)
EXTENDS Naturals, FiniteSets

CONSTANTS
  Runs,        \* the calls of run_pipeline_from_source
  Sources,     \* the pairs (source_type, source_locator); no two share a locator
  Contents,    \* the byte strings ingested
  FileNames,   \* the base names of staged files
  FileName,    \* FileName[s]: the base name under which s is staged
  Rewritable,  \* sources staged under a fixed name, which the next sync rewrites
  MaxActive,   \* how many processes ingest at the same time
  NoRow        \* no row: SQL's empty result, a lock nobody holds, no file

ASSUME RunsAssumption == IsFiniteSet(Runs) /\ NoRow \notin Runs
ASSUME ContentsAssumption == NoRow \notin Contents
ASSUME FileNameAssumption == FileName \in [Sources -> FileNames]
ASSUME RewritableAssumption == Rewritable \subseteq Sources
ASSUME MaxActiveAssumption == MaxActive \in Nat \ {0}

VARIABLES
  blobs,       \* content_blobs, by sha256
  sources,     \* sources
  documents,   \* documents: [id, path, current]
  versions,    \* document_versions: [id, doc, num, blob]
  links,       \* source_versions: [source, version, blob]
  chunks,      \* chunks with their embeddings: [doc, version, text]
  originals,   \* originals_dir: the file under each base name
  blobLock,    \* the run that holds the content_blobs row
  sourceLock,  \* the run that holds the sources row
  pc,          \* the next statement of each run
  src,         \* the source a run ingests
  staged,      \* what the run's staged file holds now
  hash,        \* the content that the run hashed
  text,        \* the content that the run extracted and chunked
  found,       \* the id a run's last SELECT returned
  number,      \* new_version, computed from that SELECT
  outcome      \* the IngestOutcome of the run

tables == <<blobs, sources, documents, versions, links, chunks>>
locks  == <<blobLock, sourceLock>>
inputs == <<src, hash>>
locals == <<text, found, number, outcome>>
vars   == <<tables, originals, locks, pc, inputs, staged, locals>>

Outcomes == {"new_content", "changed_content", "new_source_known_content", "unchanged"}

\* The statements of a run between its first SELECT and its commit.
Deciding  == {"find_blob", "find_source", "find_source_version", "find_source_of_new"}
Preparing == {"extract", "embed"}
Linking   == {"find_canonical", "link_upsert_source", "link_commit"}
Storing   == {"store_blob", "store_source", "store_document", "store_commit"}
ActivePCs == Deciding \cup Preparing \cup Linking \cup Storing

Active   == {r \in Runs : pc[r] \in ActivePCs}
Finished(r) == pc[r] \in {"done", "failed"}

DocumentRow == [id : Runs, path : Sources, current : Nat \ {0}]
VersionRow  == [id : Runs, doc : Runs, num : Nat \ {0}, blob : Contents]
LinkRow     == [source : Sources, version : Runs, blob : Contents]
ChunkRow    == [doc : Runs, version : Runs, text : Contents]

TypeOK ==
  /\ blobs \subseteq Contents
  /\ sources \subseteq Sources
  /\ documents \subseteq DocumentRow
  /\ versions \subseteq VersionRow
  /\ links \subseteq LinkRow
  /\ chunks \subseteq ChunkRow
  /\ originals \in [FileNames -> Contents \cup {NoRow}]
  /\ blobLock \in [Contents -> Runs \cup {NoRow}]
  /\ sourceLock \in [Sources -> Runs \cup {NoRow}]
  /\ pc \in [Runs -> ActivePCs \cup {"idle", "done", "failed"}]
  /\ src \in [Runs -> Sources]
  /\ staged \in [Runs -> Contents]
  /\ hash \in [Runs -> Contents]
  /\ text \in [Runs -> Contents]
  /\ found \in [Runs -> Runs \cup {NoRow}]
  /\ number \in [Runs -> Nat]
  /\ outcome \in [Runs -> Outcomes \cup {"none"}]

\* What each run is called with is chosen at the start.
Init ==
  /\ blobs = {} /\ sources = {} /\ documents = {}
  /\ versions = {} /\ links = {} /\ chunks = {}
  /\ originals = [n \in FileNames |-> NoRow]
  /\ blobLock = [c \in Contents |-> NoRow]
  /\ sourceLock = [s \in Sources |-> NoRow]
  /\ pc = [r \in Runs |-> "idle"]
  /\ src \in [Runs -> Sources]
  /\ hash \in [Runs -> Contents]
  /\ staged = hash
  /\ text = hash
  /\ found = [r \in Runs |-> NoRow]
  /\ number = [r \in Runs |-> 0]
  /\ outcome = [r \in Runs |-> "none"]

Goto(r, label) == pc' = [pc EXCEPT ![r] = label]
Decide(r, o)   == outcome' = [outcome EXCEPT ![r] = o]

\* ON CONFLICT waits for the transaction that wrote the row.
Mutant_NoWait(lock, x) == TRUE
NotLocked(lock, x) == lock[x] = NoRow

Mutant_Release(r, lock) == lock
Release(r, lock) == [x \in DOMAIN lock |-> IF lock[x] = r THEN NoRow ELSE lock[x]]

-----------------------------------------------------------------------------
(* check_canonical_identity *)

\* read_bytes and sha256, before the first statement.
Start(r) ==
  /\ pc[r] = "idle"
  /\ Cardinality(Active) < MaxActive
  /\ Goto(r, "find_blob")
  /\ UNCHANGED <<tables, originals, locks, inputs, staged, locals>>

Mutant_Observed(s, c) == \E l \in links : l.source = s
Observed(s, c) == \E l \in links : l.source = s /\ l.blob = c

\* The mutant is the path-centric check that this one replaced.
Mutant_KnownBytes(r) == Observed(src[r], hash[r])
KnownBytes(r) == hash[r] \in blobs

FindBlob(r) ==
  /\ pc[r] = "find_blob"
  /\ Goto(r, IF KnownBytes(r) THEN "find_source" ELSE "find_source_of_new")
  /\ UNCHANGED <<tables, originals, locks, inputs, staged, locals>>

FindSource(r) ==
  /\ pc[r] = "find_source"
  /\ IF src[r] \in sources
     THEN Goto(r, "find_source_version") /\ UNCHANGED outcome
     ELSE Goto(r, "find_canonical") /\ Decide(r, "new_source_known_content")
  /\ UNCHANGED <<tables, originals, locks, inputs, staged, text, found, number>>

FindSourceVersion(r) ==
  /\ pc[r] = "find_source_version"
  /\ IF Observed(src[r], hash[r])
     THEN Goto(r, "done") /\ Decide(r, "unchanged")
     ELSE Goto(r, "find_canonical") /\ Decide(r, "new_source_known_content")
  /\ UNCHANGED <<tables, originals, locks, inputs, staged, text, found, number>>

Mutant_OutcomeOfNew(r) == IF src[r] \notin sources THEN "changed_content" ELSE "new_content"
OutcomeOfNew(r) == IF src[r] \in sources THEN "changed_content" ELSE "new_content"

FindSourceOfNew(r) ==
  /\ pc[r] = "find_source_of_new"
  /\ Decide(r, OutcomeOfNew(r))
  /\ Goto(r, "extract")
  /\ UNCHANGED <<tables, originals, locks, inputs, staged, text, found, number>>

-----------------------------------------------------------------------------
(* link_new_source_to_existing_blob *)

\* created_at is the start time of the inserting transaction, which says
\* nothing of the order of commits: any version of the blob may be the oldest.
\* Without one the code raises RuntimeError, which here leaves only Fail.
FindCanonical(r) ==
  /\ pc[r] = "find_canonical"
  /\ \E v \in versions :
       /\ v.blob = hash[r]
       /\ found' = [found EXCEPT ![r] = v.id]
  /\ Goto(r, "link_upsert_source")
  /\ UNCHANGED <<tables, originals, locks, inputs, staged, text, number, outcome>>

LinkUpsertSource(r) ==
  /\ pc[r] = "link_upsert_source"
  /\ NotLocked(sourceLock, src[r])
  /\ sourceLock' = [sourceLock EXCEPT ![src[r]] = r]
  /\ Goto(r, "link_commit")
  /\ UNCHANGED <<tables, originals, blobLock, inputs, staged, locals>>

\* ON CONFLICT DO NOTHING: a link that exists is not repeated.
LinkCommit(r) ==
  /\ pc[r] = "link_commit"
  /\ sources' = sources \cup {src[r]}
  /\ links' = links \cup {[source |-> src[r], version |-> found[r], blob |-> hash[r]]}
  /\ sourceLock' = Release(r, sourceLock)
  /\ Goto(r, "done")
  /\ UNCHANGED <<blobs, documents, versions, chunks, originals, blobLock,
                 inputs, staged, locals>>

-----------------------------------------------------------------------------
(* extract, chunk, embed, store_document_canonical *)

\* The staged file is read again, and copied under its base name.
Extract(r) ==
  /\ pc[r] = "extract"
  /\ originals' = [originals EXCEPT ![FileName[src[r]]] = staged[r]]
  /\ text' = [text EXCEPT ![r] = staged[r]]
  /\ Goto(r, "embed")
  /\ UNCHANGED <<tables, locks, inputs, staged, found, number, outcome>>

\* chunk and embed: the text is sent to the provider, no statement is executed.
Embed(r) ==
  /\ pc[r] = "embed"
  /\ Goto(r, "store_blob")
  /\ UNCHANGED <<tables, originals, locks, inputs, staged, locals>>

StoreBlob(r) ==
  /\ pc[r] = "store_blob"
  /\ NotLocked(blobLock, hash[r])
  /\ blobLock' = [blobLock EXCEPT ![hash[r]] = r]
  /\ Goto(r, "store_source")
  /\ UNCHANGED <<tables, originals, sourceLock, inputs, staged, locals>>

StoreSource(r) ==
  /\ pc[r] = "store_source"
  /\ NotLocked(sourceLock, src[r])
  /\ sourceLock' = [sourceLock EXCEPT ![src[r]] = r]
  /\ Goto(r, "store_document")
  /\ UNCHANGED <<tables, originals, blobLock, inputs, staged, locals>>

Mutant_NextVersion(d) == d.current
NextVersion(d) == d.current + 1

DocumentsAt(s) == {d \in documents : d.path = s}

\* SELECT id, current_version FROM documents WHERE source_path = ...
StoreDocument(r) ==
  /\ pc[r] = "store_document"
  /\ \/ /\ DocumentsAt(src[r]) = {}
        /\ found' = [found EXCEPT ![r] = NoRow]
        /\ number' = [number EXCEPT ![r] = 1]
     \/ \E d \in DocumentsAt(src[r]) :
          /\ found' = [found EXCEPT ![r] = d.id]
          /\ number' = [number EXCEPT ![r] = NextVersion(d)]
  /\ Goto(r, "store_commit")
  /\ UNCHANGED <<tables, originals, locks, inputs, staged, text, outcome>>

\* The INSERTs, the UPDATE and the DELETE that follow become visible together.
Mutant_DocumentOf(r) == found[r]
DocumentOf(r) == IF found[r] = NoRow THEN r ELSE found[r]

\* DELETE FROM chunks WHERE document_id = ...
Mutant_OtherChunks(doc) == chunks
OtherChunks(doc) == {k \in chunks : k.doc # doc}

StoreCommit(r) ==
  LET doc == DocumentOf(r) IN
  /\ pc[r] = "store_commit"
  /\ blobs' = blobs \cup {hash[r]}
  /\ sources' = sources \cup {src[r]}
  /\ documents' = {d \in documents : d.id # doc}
                    \cup {[id |-> doc, path |-> src[r], current |-> number[r]]}
  /\ versions' = versions \cup
       {[id |-> r, doc |-> doc, num |-> number[r], blob |-> hash[r]]}
  /\ links' = links \cup {[source |-> src[r], version |-> r, blob |-> hash[r]]}
  /\ chunks' = OtherChunks(doc) \cup {[doc |-> doc, version |-> r, text |-> text[r]]}
  /\ blobLock' = Release(r, blobLock)
  /\ sourceLock' = Release(r, sourceLock)
  /\ Goto(r, "done")
  /\ UNCHANGED <<originals, inputs, staged, locals>>

-----------------------------------------------------------------------------
(* What may happen to a run at any time *)

\* An exception of the extractor, the embedder or PostgreSQL, or the death of
\* the process: the transaction is rolled back and its rows are released.  The copy
\* in originals_dir stays.  The mutant is a connection in autocommit mode.
Mutant_Fail(r) ==
  /\ pc[r] \in ActivePCs
  /\ blobs' = blobs \cup {c \in Contents : blobLock[c] = r}
  /\ blobLock' = Release(r, blobLock)
  /\ sourceLock' = Release(r, sourceLock)
  /\ Goto(r, "failed")
  /\ UNCHANGED <<sources, documents, versions, links, chunks, originals, inputs,
                 staged, locals>>

Fail(r) ==
  /\ pc[r] \in ActivePCs
  /\ blobLock' = Release(r, blobLock)
  /\ sourceLock' = Release(r, sourceLock)
  /\ Goto(r, "failed")
  /\ UNCHANGED <<tables, originals, inputs, staged, locals>>

\* The next sync rewrites the file that the run was given.
Rewrite(r, c) ==
  /\ src[r] \in Rewritable
  /\ pc[r] \in Deciding \cup {"extract"}
  /\ staged' = [staged EXCEPT ![r] = c]
  /\ UNCHANGED <<tables, originals, locks, pc, inputs, locals>>

\* Every call has returned.
Quiescent ==
  /\ \A r \in Runs : Finished(r)
  /\ UNCHANGED vars

Step(r) ==
  \/ FindBlob(r) \/ FindSource(r) \/ FindSourceVersion(r) \/ FindSourceOfNew(r)
  \/ FindCanonical(r) \/ LinkUpsertSource(r) \/ LinkCommit(r)
  \/ Extract(r) \/ Embed(r) \/ StoreBlob(r) \/ StoreSource(r) \/ StoreDocument(r) \/ StoreCommit(r)

Next ==
  \/ \E r \in Runs : Start(r) \/ Step(r) \/ Fail(r) \/ \E c \in Contents : Rewrite(r, c)
  \/ Quiescent

Spec == Init /\ [][Next]_vars

\* A process that has begun a run goes on; nothing obliges anyone to begin one.
FairSpec == Spec /\ \A r \in Runs : WF_vars(Step(r))

-----------------------------------------------------------------------------
(* Safety *)

VersionsOf(d) == {v \in versions : v.doc = d.id}
CurrentVersions(d) == {v \in VersionsOf(d) : v.num = d.current}

\* No two documents have one source_path, although the table has no UNIQUE
\* constraint on it: the row that upsert_source holds until the commit makes
\* the SELECT and the INSERT of store_document_canonical one step.
OneDocumentPerPath ==
  \A d, e \in documents : d.path = e.path => d = e

\* The version numbers of a document are 1 to current_version, each used once:
\* new_version, read before the INSERT, is never stale when it is written.
VersionsNumbered ==
  \A d \in documents :
    /\ {v.num : v \in VersionsOf(d)} = 1..d.current
    /\ Cardinality(VersionsOf(d)) = d.current

\* What is searchable of a document is its current version and nothing else,
\* whichever runs replaced its chunks and in whatever order they committed.
ChunksOfCurrent ==
  \A d \in documents :
    {k.version : k \in {x \in chunks : x.doc = d.id}} = {v.id : v \in CurrentVersions(d)}

\* No partial identity is ever visible: a blob has a version that holds it, so
\* the RuntimeError of link_new_source_to_existing_blob is unreachable, and a
\* source has a link, whose version holds the linked bytes.
NoPartialIdentity ==
  /\ \A c \in blobs : \E v \in versions : v.blob = c
  /\ \A s \in sources : \E l \in links : l.source = s
  /\ \A l \in links : \E v \in versions : v.id = l.version /\ v.blob = l.blob

\* A run that reports success, whichever of the four outcomes it reports, has
\* left its source observed with the bytes that it hashed.
DoneIsObserved ==
  \A r \in Runs : pc[r] = "done" =>
    \E l \in links : l.source = src[r] /\ l.blob = hash[r]

\* The same bytes are stored once ("truly new bytes ... exactly once").  True
\* when ingests do not overlap, false when two of them do.
OneVersionPerBlob ==
  \A v, w \in versions : v.blob = w.blob => v = w

\* When ingests do not overlap the outcome reported for stored bytes is what
\* happened: new_content made a first version, changed_content made a later
\* version or the first document of a source that was only linked before.
OutcomeIsTrue ==
  \A r \in Runs : pc[r] = "done" =>
    /\ outcome[r] = "new_content" => \E v \in versions : v.id = r /\ v.num = 1
    /\ outcome[r] = "changed_content" =>
         /\ \E v \in versions : v.id = r
         /\ \E l \in links : l.source = src[r] /\ l.version # r

-----------------------------------------------------------------------------
(* Liveness and refinement *)

\* Runs that wait for each other's rows do not wait for ever: every call of
\* run_pipeline_from_source returns or raises.
RunsTerminate == \A r \in Runs : pc[r] \in ActivePCs ~> Finished(r)

Head(s) == {d.current : d \in DocumentsAt(s)}

Ledger == INSTANCE ProvenanceLedger WITH
  observed <- {<<l.source, l.blob>> : l \in links},
  heads    <- [s \in Sources |-> IF DocumentsAt(s) = {} THEN 0
                                 ELSE CHOOSE n \in Head(s) : TRUE]

\* Seen by a reader of committed rows, an ingest is one step of the ledger: it
\* links known bytes, or stores bytes as exactly the next version of the
\* source's own document, or does nothing.
ImplementsLedger == Ledger!LedgerSpec

-----------------------------------------------------------------------------
(* What the documents say, and the code does not do *)

\* A source that has only ever been seen with some bytes shares "one canonical
\* content record and embedding set" with the other sources of those bytes: the
\* version it is linked to is indexed.
LinkedContentSearchable ==
  \A l \in links :
    (\A m \in links : m.source = l.source => m = l)
      => \E k \in chunks : k.version = l.version

\* "Same source, different bytes: new document version created": when an ingest
\* of a source with a document returns, the document's current version holds
\* the bytes.
ChangedBytesBecomeCurrent ==
  [][\A r \in Runs : pc[r] # "done" /\ pc'[r] = "done" =>
       \A d \in documents' : d.path = src[r] =>
         \E v \in versions' : v.doc = d.id /\ v.num = d.current /\ v.blob = hash[r]]_vars

\* Chunks belong to a version and "the version points to the immutable" blob:
\* the indexed text is that of the version's blob.
ChunksAreOfTheBlob ==
  \A k \in chunks : \E v \in versions : v.id = k.version /\ v.blob = k.text

\* "Every ingested file is stored byte-for-byte" in originals_dir.
OriginalsPreserved ==
  \A c \in blobs : \E n \in FileNames : originals[n] = c
=============================================================================
