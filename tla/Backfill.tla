------------------------------ MODULE Backfill ------------------------------
(***************************************************************************)
(* `cos migrate`: backfill_legacy_documents (src/cos/store/db.py), which   *)
(* gives the documents from before the canonical model their source, blobs *)
(* and provenance, beside ingests of the same paths.                       *)
(*                                                                         *)
(* The listing opens the connection's transaction: conn.transaction() only *)
(* makes savepoints in it, and everything is committed when the command    *)
(* ends.  Until then the rows it has inserted make an ingest wait that     *)
(* inserts the same, and an ingest's make it wait.  ON CONFLICT DO NOTHING *)
(* locks nothing that is committed already: an ingest of a path whose      *)
(* source exists runs through the backfill of its document.                *)
(*                                                                         *)
(* All sources have the type 'file'.  A version's content is its hash, and *)
(* the text of a chunk the hash of the content that it is part of.         *)
(***************************************************************************)
EXTENDS Naturals, Sequences, FiniteSets, SequencesExt

CONSTANTS
  Docs,         \* the paths, in the order in which they were ingested at first
  Hashes,
  Legacy,       \* the content_hash of each version of each path's document
  Runs,         \* the ingests
  MaxBackfills, \* bound: how often the command is run
  Migrate       \* the process of the command

Paths     == ToSet(Docs)

ASSUME DocsAssumption == Docs \in Seq(Paths) /\ IsInjective(Docs)
ASSUME LegacyAssumption == \A d \in Paths : Legacy[d] \in Seq(Hashes)
ASSUME MaxBackfillsAssumption == MaxBackfills \in Nat
ASSUME MigrateAssumption == Migrate \notin Runs

Processes == Runs \cup {Migrate}
Keys == {<<"blob", h>> : h \in Hashes} \cup
        {<<k, d>> : k \in {"source", "chunks"}, d \in Paths}
NoVersion == 0

VARIABLES
  versions,   \* of each path's document: [hash, blob], blob when content_blob_id is set
  chunks,     \* [doc, text, version]
  sources,    \* the paths that have a source
  blobs,      \* the hashes that have a content_blob
  links,      \* source_versions: [source, doc, version]
  pc,
  held,       \* the rows each process has written and not committed
  listed,     \* the documents the command has still to do, with their current_version
  rows,       \* the versions of the current one it has still to do
  given,      \* the versions it has given a blob and a link, not committed
  assigned,   \* the version it has given the chunks of each document, not committed
  backfills,  \* how often the command was started
  promised,   \* the documents that the last command found legacy
  target      \* what each run ingests: [doc, hash]

tables   == <<versions, chunks, sources, blobs, links>>
command  == <<listed, rows, given, assigned, backfills, promised>>
vars     == <<tables, pc, held, command, target>>

CommandPCs == {"idle", "source", "versions", "blob", "chunks", "commit", "done", "failed"}
RunPCs     == {"check", "link", "blob", "source", "document", "commit", "done", "failed"}

Versions == UNION {{[doc |-> d, version |-> n] : n \in DOMAIN versions[d]} : d \in Paths}

TypeOK ==
  /\ \A d \in Paths : versions[d] \in Seq([hash : Hashes, blob : BOOLEAN])
  /\ \A c \in chunks : c.doc \in Paths /\ c.text \in Hashes
                       /\ c.version \in {NoVersion} \cup DOMAIN versions[c.doc]
  /\ sources \subseteq Paths /\ blobs \subseteq Hashes
  /\ \A l \in links : l.source \in sources /\ [doc |-> l.doc, version |-> l.version] \in Versions
  /\ pc[Migrate] \in CommandPCs /\ \A r \in Runs : pc[r] \in RunPCs
  /\ held \in [Processes -> SUBSET Keys]
  /\ \A p, q \in Processes : p # q => held[p] \cap held[q] = {}
  /\ given \subseteq Versions
  /\ backfills \in 0..MaxBackfills
  /\ promised \subseteq Paths

\* A legacy document has the chunks of its last version, which belong to none.
Init ==
  /\ versions = [d \in Paths |-> [n \in DOMAIN Legacy[d] |-> [hash |-> Legacy[d][n], blob |-> FALSE]]]
  /\ chunks = {[doc |-> d, text |-> Last(Legacy[d]), version |-> NoVersion] :
                 d \in {p \in Paths : Legacy[p] # <<>>}}
  /\ sources = {} /\ blobs = {} /\ links = {}
  /\ pc = [p \in Processes |-> IF p = Migrate THEN "idle" ELSE "check"]
  /\ held = [p \in Processes |-> {}]
  /\ listed = <<>> /\ rows = <<>> /\ given = {} /\ assigned = {}
  /\ backfills = 0 /\ promised = {}
  /\ target \in [Runs -> [doc : Paths, hash : Hashes]]

Goto(p, label) == pc' = [pc EXCEPT ![p] = label]
Hold(p, k) == held' = [held EXCEPT ![p] = @ \cup {k}]

\* The end of p's transaction.
EndOf(p) == [held EXCEPT ![p] = {}]

-----------------------------------------------------------------------------
(* Who waits for whom *)

Committed(k) ==
  CASE k[1] = "blob"   -> k[2] \in blobs
    [] k[1] = "source" -> k[2] \in sources
    [] k[1] = "chunks" -> FALSE

CurrentDoc == Head(listed).doc
HashOf(n)  == versions[CurrentDoc][n].hash
WithUnversioned == {c.doc : c \in {x \in chunks : x.version = NoVersion}}

\* The row that the next statement of each process writes.
Wanted(p) ==
  CASE p = Migrate /\ pc[p] = "source" -> {<<"source", CurrentDoc>>}
    [] p = Migrate /\ pc[p] = "blob"   -> {<<"blob", HashOf(Head(rows))>>}
    [] p = Migrate /\ pc[p] = "chunks" -> {<<"chunks", d>> : d \in {CurrentDoc} \cap WithUnversioned}
    [] p # Migrate /\ pc[p] = "blob"   -> {<<"blob", target[p].hash>>}
    [] p # Migrate /\ pc[p] \in {"source", "link"} -> {<<"source", target[p].doc>>}
    [] p # Migrate /\ pc[p] = "document" -> {<<"chunks", target[p].doc>>}
    [] OTHER -> {}

\* ON CONFLICT DO NOTHING waits for the row of a transaction that has not ended only
\* when there was none before; DO UPDATE, UPDATE and DELETE always wait.
WaitsFor(p, q) ==
  /\ p # q
  /\ \E k \in Wanted(p) \cap held[q] : p = Migrate => ~Committed(k)

Free(p) == ~\E q \in Processes : WaitsFor(p, q)

-----------------------------------------------------------------------------
(* backfill_legacy_documents *)

IsLegacy(d) ==
  \/ \E n \in DOMAIN versions[d] :
       ~versions[d][n].blob \/ ~\E l \in links : l.doc = d /\ l.version = n
  \/ d \in WithUnversioned

OldestFirst(docs) ==
  \A i, j \in DOMAIN docs : i < j =>
    \E m, n \in DOMAIN Docs : m < n /\ Docs[m] = docs[i] /\ Docs[n] = docs[j]

\* The listing, and with it the current_version of each document.
List ==
  /\ pc[Migrate] \in {"idle", "done", "failed"}
  /\ backfills < MaxBackfills
  /\ backfills' = backfills + 1
  /\ \E docs \in SetToSeqs({d \in Paths : IsLegacy(d)}) :
       /\ OldestFirst(docs)
       /\ listed' = [i \in DOMAIN docs |-> [doc |-> docs[i], current |-> Len(versions[docs[i]])]]
       /\ promised' = ToSet(docs)
       /\ Goto(Migrate, IF docs = <<>> THEN "commit" ELSE "source")
  /\ UNCHANGED <<tables, held, rows, given, assigned, target>>

InsertSource ==
  /\ pc[Migrate] = "source" /\ Free(Migrate)
  /\ IF CurrentDoc \in sources THEN UNCHANGED held ELSE Hold(Migrate, <<"source", CurrentDoc>>)
  /\ Goto(Migrate, "versions")
  /\ UNCHANGED <<tables, command, target>>

\* The versions that are gone through.  The mutant takes the current one.
Mutant_VersionsOf(d) == <<Len(versions[d])>>
VersionsOf(d) == [n \in DOMAIN versions[d] |-> n]

ReadVersions ==
  /\ pc[Migrate] = "versions"
  /\ rows' = VersionsOf(CurrentDoc)
  /\ Goto(Migrate, IF rows' = <<>> THEN "chunks" ELSE "blob")
  /\ UNCHANGED <<tables, held, listed, given, assigned, backfills, promised, target>>

\* The blob is inserted when the version has none, and looked up; the version gets
\* it and is linked.
InsertBlob ==
  /\ pc[Migrate] = "blob"
  /\ LET n == Head(rows)
         b == <<"blob", HashOf(n)>> IN
     /\ versions[CurrentDoc][n].blob \/ Free(Migrate)
     /\ IF versions[CurrentDoc][n].blob \/ Committed(b) THEN UNCHANGED held ELSE Hold(Migrate, b)
     /\ given' = given \cup {[doc |-> CurrentDoc, version |-> n]}
  /\ rows' = Tail(rows)
  /\ Goto(Migrate, IF Len(rows) = 1 THEN "chunks" ELSE "blob")
  /\ UNCHANGED <<tables, listed, assigned, backfills, promised, target>>

\* The version that the chunks without one are given: the one that was current when
\* the documents were listed.  The mutant takes the first.
Mutant_VersionOfChunks == 1
VersionOfChunks == Head(listed).current

UpdateChunks ==
  /\ pc[Migrate] = "chunks" /\ Free(Migrate)
  /\ IF CurrentDoc \in WithUnversioned
       THEN /\ assigned' = assigned \cup {[doc |-> CurrentDoc, version |-> VersionOfChunks]}
            /\ Hold(Migrate, <<"chunks", CurrentDoc>>)
       ELSE UNCHANGED <<assigned, held>>
  /\ listed' = Tail(listed)
  /\ Goto(Migrate, IF Len(listed) = 1 THEN "commit" ELSE "source")
  /\ UNCHANGED <<tables, rows, given, backfills, promised, target>>

EndCommand(label) ==
  /\ held' = EndOf(Migrate)
  /\ listed' = <<>> /\ rows' = <<>> /\ given' = {} /\ assigned' = {}
  /\ Goto(Migrate, label)
  /\ UNCHANGED <<backfills, target>>

\* The connection block of _run_migrate exits.
CommitCommand ==
  /\ pc[Migrate] = "commit"
  /\ sources' = sources \cup {d \in Paths : <<"source", d>> \in held[Migrate]}
  /\ blobs' = blobs \cup {h \in Hashes : <<"blob", h>> \in held[Migrate]}
  /\ versions' = [d \in Paths |-> [n \in DOMAIN versions[d] |->
                    [versions[d][n] EXCEPT !.blob = @ \/ [doc |-> d, version |-> n] \in given]]]
  /\ links' = links \cup {[source |-> v.doc, doc |-> v.doc, version |-> v.version] : v \in given}
  /\ chunks' = {IF c.version = NoVersion /\ \E a \in assigned : a.doc = c.doc
                  THEN [c EXCEPT !.version = (CHOOSE a \in assigned : a.doc = c.doc).version]
                  ELSE c : c \in chunks}
  /\ EndCommand("done")
  /\ UNCHANGED promised

RollBackCommand ==
  /\ pc[Migrate] \notin {"idle", "done", "failed"}
  /\ EndCommand("failed")
  /\ promised' = {}
  /\ UNCHANGED tables

-----------------------------------------------------------------------------
(* run_pipeline_from_source with the file's own locator *)

HasBlob(d, n, h) == versions[d][n] = [hash |-> h, blob |-> TRUE]

\* check_canonical_identity.
Check(r) ==
  /\ pc[r] = "check"
  /\ LET d == target[r].doc
         h == target[r].hash
         observed == \E l \in links : l.source = d /\ HasBlob(l.doc, l.version, h) IN
     Goto(r, CASE h \notin blobs -> "blob"
               [] h \in blobs /\ observed -> "done"
               [] h \in blobs /\ ~observed -> "link")
  /\ UNCHANGED <<tables, held, command, target>>

\* link_new_source_to_existing_blob: the version that had the bytes first.
Link(r) ==
  /\ pc[r] = "link" /\ Free(r)
  /\ \E v \in Versions :
       /\ HasBlob(v.doc, v.version, target[r].hash)
       /\ links' = links \cup {[source |-> target[r].doc, doc |-> v.doc, version |-> v.version]}
  /\ sources' = sources \cup {target[r].doc}
  /\ Goto(r, "done")
  /\ UNCHANGED <<versions, chunks, blobs, held, command, target>>

\* store_document_canonical: the blob, the source, and the document with its chunks.
Write(r, label, k, next) ==
  /\ pc[r] = label /\ Free(r)
  /\ Hold(r, k)
  /\ Goto(r, next)
  /\ UNCHANGED <<tables, command, target>>

StoreBlob(r)     == Write(r, "blob", <<"blob", target[r].hash>>, "source")
StoreSource(r)   == Write(r, "source", <<"source", target[r].doc>>, "document")
StoreDocument(r) == Write(r, "document", <<"chunks", target[r].doc>>, "commit")

StoreCommit(r) ==
  /\ pc[r] = "commit"
  /\ LET d == target[r].doc
         h == target[r].hash
         n == Len(versions[d]) + 1 IN
     /\ versions' = [versions EXCEPT ![d] = Append(@, [hash |-> h, blob |-> TRUE])]
     /\ chunks' = {c \in chunks : c.doc # d} \cup {[doc |-> d, text |-> h, version |-> n]}
     /\ sources' = sources \cup {d}
     /\ blobs' = blobs \cup {h}
     /\ links' = links \cup {[source |-> d, doc |-> d, version |-> n]}
  /\ held' = EndOf(r)
  /\ Goto(r, "done")
  /\ UNCHANGED <<command, target>>

\* The mutant does not end the transaction.
Mutant_RollBack(r) ==
  /\ pc[r] \notin {"done", "failed"}
  /\ Goto(r, "failed")
  /\ UNCHANGED <<tables, held, command, target>>

RollBack(r) ==
  /\ pc[r] \notin {"done", "failed"}
  /\ held' = EndOf(r)
  /\ Goto(r, "failed")
  /\ UNCHANGED <<tables, command, target>>

-----------------------------------------------------------------------------
Deadlocked(p) ==
  \E S \in SUBSET Processes :
    /\ p \in S
    /\ \A q \in S : \E x \in S : WaitsFor(q, x)
    /\ \A x \in S : \E q \in S : WaitsFor(q, x)

\* PostgreSQL rolls one of them back.
DeadlockDetected ==
  \/ Deadlocked(Migrate) /\ RollBackCommand
  \/ \E r \in Runs : Deadlocked(r) /\ RollBack(r)

CommandRuns ==
  InsertSource \/ ReadVersions \/ InsertBlob \/ UpdateChunks \/ CommitCommand
IngestRuns(r) ==
  Check(r) \/ Link(r) \/ StoreBlob(r) \/ StoreSource(r) \/ StoreDocument(r) \/ StoreCommit(r)

\* Every process may also fail by itself.
Next ==
  \/ List \/ CommandRuns \/ RollBackCommand
  \/ \E r \in Runs : IngestRuns(r) \/ RollBack(r)
  \/ DeadlockDetected

Spec == Init /\ [][Next]_vars

FairSpec ==
  /\ Spec
  /\ WF_vars(CommandRuns) /\ WF_vars(DeadlockDetected)
  /\ \A r \in Runs : WF_vars(IngestRuns(r))

-----------------------------------------------------------------------------
(* Properties *)

\* When the command has ended, the documents that it found legacy are canonical:
\* each version has its blob and its source, each chunk its version, whatever was
\* ingested meanwhile.  A second command has nothing to do for them.
PromisedIsCanonical ==
  pc[Migrate] = "done" => \A d \in promised : ~IsLegacy(d) /\ d \in sources

\* A chunk belongs to a version that has its text: although the version was read
\* with the listing, the chunks are those of that version or have been deleted.
ChunkIsOfItsVersion ==
  \A c \in chunks : c.version # NoVersion => versions[c.doc][c.version].hash = c.text

\* The command and the ingests end, however they wait for each other.
EveryoneEnds ==
  /\ pc[Migrate] = "source" ~> pc[Migrate] \in {"done", "failed"}
  /\ \A r \in Runs : pc[r] \in {"link", "blob"} ~> pc[r] \in {"done", "failed"}
=============================================================================
