----------------------------- MODULE Retrieval -----------------------------
(***************************************************************************)
(* RetrievalService (src/cos/services/retrieval.py) with the search,       *)
(* lineage, evidence and context modules of src/cos/retrieval, beside      *)
(* ingests that commit new versions of the documents and a clean-up that   *)
(* deletes some.                                                           *)
(*                                                                         *)
(* A retrieval is a sequence of statements on one connection, each with    *)
(* its own snapshot: keyword hits, semantic hits, the sources of the       *)
(* versions, the paths of the documents, and, for a bounded question, the  *)
(* neighbours of the anchor.  Between two of them a document may get a new *)
(* version, whose chunks replace all earlier ones, or disappear.           *)
(*                                                                         *)
(* A chunk's text is the set of words that it contains.  The words of a    *)
(* question are its terms, for the code, and its lexemes, for PostgreSQL:  *)
(* the two have different lists of stop words.  ts_rank and the cosine     *)
(* distance are left open: either search may return its chunks in any      *)
(* order.  A version 0 stands for a NULL document_version_id, the chunks   *)
(* from before there were versions.                                        *)
(***************************************************************************)
EXTENDS Integers, Sequences, FiniteSetsExt, SequencesExt, Functions

CONSTANTS
  Docs,         \* the documents
  Locator,      \* Locator[d][v + 1]: the source_locator of version v, that of the
                \* oldest source which observed it; of version 0, the document's path
  Priority,     \* _source_priority of each locator: 0 when it begins with local://
  Weight,       \* what retrieval_priorities multiply a locator's scores by
  Words,        \* Words[d][v + 1]: the query terms in each chunk of version v
  FirstVersion, \* the version that each document has at first
  Questions,    \* [terms, lexemes, strict, connector, strategy, synthesise]
  MinScore,     \* min_score, in the unit of the scores
  TopK,         \* top_k
  MaxPerSource, \* max_chunks_per_source
  Window,       \* _DEFAULT_WINDOW
  MaxExpanded   \* _DEFAULT_MAX_EXPANDED

ASSUME BoundsAssumption ==
  /\ TopK \in Nat \ {0} /\ MaxPerSource \in Nat \ {0}
  /\ Window \in Nat /\ MaxExpanded \in Nat \ {0}

Strategies == {"bounded", "multi_source", "default"}

ASSUME QuestionsAssumption ==
  \A q \in Questions :
    /\ q.strategy \in Strategies /\ {q.strict, q.connector, q.synthesise} \subseteq BOOLEAN
    /\ IsFiniteSet(q.terms)

Terms == UNION {q.terms \cup q.lexemes : q \in Questions}

Absent == -1

ASSUME CorpusAssumption ==
  /\ IsFiniteSet(Docs)
  /\ Words \in [Docs -> Seq(Seq(SUBSET Terms))]
  /\ FirstVersion \in [Docs -> Int]
  /\ \A d \in Docs : FirstVersion[d] \in Absent..Len(Words[d]) - 1

ASSUME ScoresAssumption ==
  /\ MinScore \in Int
  /\ \A d \in Docs : \A n \in DOMAIN Words[d] :
       Weight[Locator[d][n]] \in Int /\ Priority[Locator[d][n]] \in Int

ChunksOf(d, v) == IF v = Absent THEN {} ELSE
  {[doc |-> d, version |-> v, index |-> i - 1] : i \in DOMAIN Words[d][v + 1]}

\* A chunk, without what a retrieval says of it.
Chunk(c) == [doc |-> c.doc, version |-> c.version, index |-> c.index]

VARIABLES
  version,    \* the current version of each document, or Absent
  rpc,        \* what the retrieval does next
  question,   \* the question that is asked
  keyword,    \* keyword_hits, and
  semantic,   \* semantic_hits, best first
  sourced,    \* the versions whose source was found
  candidates, \* the result of the search
  anchors,    \* of a bounded question
  evidence,   \* the citations
  context,    \* synthesis_chunks
  records     \* the outcomes that were logged

found == <<keyword, semantic, sourced>>
vars  == <<version, rpc, question, found, candidates, anchors, evidence, context, records>>

PCs == {"keyword", "semantic", "sources", "documents", "expand", "synthesis",
        "returned", "raised", "cancelled"}
Outcomes == {"success", "no_content", "synthesis_degraded", "retrieval_failed"}

TypeOK ==
  /\ \A d \in Docs : version[d] \in Absent..Len(Words[d]) - 1
  /\ rpc \in PCs
  /\ question \in Questions
  /\ IsInjective(keyword) /\ IsInjective(semantic)
  /\ \A c \in ToSet(evidence) \cup ToSet(context) :
       Chunk(c) \in ChunksOf(c.doc, c.version)
  /\ IsInjective([i \in DOMAIN context |-> context[i].index]) \/ question.strategy # "bounded"
  /\ records \in Seq(Outcomes)

Init ==
  /\ version = FirstVersion
  /\ rpc = "keyword"
  /\ question \in Questions
  /\ keyword = <<>> /\ semantic = <<>> /\ sourced = {}
  /\ candidates = <<>> /\ anchors = <<>> /\ evidence = <<>> /\ context = <<>>
  /\ records = <<>>

-----------------------------------------------------------------------------
(* The store *)

Active == rpc \notin {"returned", "raised", "cancelled"}

Stored == UNION {ChunksOf(d, version[d]) : d \in Docs}

\* store_document_canonical commits: the chunks of earlier versions are gone, the
\* provenance of earlier versions stays.  What happens to a document after the call
\* has ended is left out.
NewVersion(d) ==
  /\ Active
  /\ version[d] # Absent /\ version[d] + 2 <= Len(Words[d])
  /\ version' = [version EXCEPT ![d] = @ + 1]
  /\ UNCHANGED <<rpc, question, found, candidates, anchors, evidence, context, records>>

\* _cleanup_fixtures: a document goes with its chunks and its source.
CleanUp(d) ==
  /\ Active
  /\ version[d] # Absent
  /\ version' = [version EXCEPT ![d] = Absent]
  /\ UNCHANGED <<rpc, question, found, candidates, anchors, evidence, context, records>>

-----------------------------------------------------------------------------
(* hybrid_search_with_trace *)

Goto(label) == rpc' = label

\* _candidate_limit
CandidateLimit == TopK * Max({2, MaxPerSource + 1})

\* What a search may return of its matches: as many as there may be.
Ranked(S) == {SubSeq(s, 1, Min({Cardinality(S), CandidateLimit})) : s \in SetToSeqs(S)}

WordsOf(c) == Words[c.doc][c.version + 1][c.index + 1]

\* websearch_to_tsquery: a chunk matches when it has every lexeme, and none matches
\* when there is none.
KeywordSearch ==
  /\ rpc = "keyword"
  /\ keyword' \in Ranked({c \in Stored : question.lexemes # {} /\ question.lexemes \subseteq WordsOf(c)})
  /\ Goto("semantic")
  /\ UNCHANGED <<version, question, semantic, sourced, candidates, anchors, evidence, context, records>>

\* Only hits with a positive similarity are kept: any of the chunks.
SemanticSearch ==
  /\ rpc = "semantic"
  /\ \E similar \in SUBSET Stored : semantic' \in Ranked(similar)
  /\ Goto("sources")
  /\ UNCHANGED <<version, question, keyword, sourced, candidates, anchors, evidence, context, records>>

\* The first source that observed each version.
FindSources ==
  /\ rpc = "sources"
  /\ sourced' = {<<c.doc, c.version>> : c \in {k \in ToSet(keyword) \cup ToSet(semantic) :
                    k.version > 0 /\ version[k.doc] # Absent}}
  /\ Goto("documents")
  /\ UNCHANGED <<version, question, keyword, semantic, candidates, anchors, evidence, context, records>>

\* 1 / (_RRF_K + rank), in units that make it a whole number for ranks up to 4.
Unit == 61 * 62 * 63 * 64
ReciprocalRank(s, c) ==
  IF c \in ToSet(s) THEN Unit \div (60 + CHOOSE i \in DOMAIN s : s[i] = c) ELSE 0

RawScore(c) == ReciprocalRank(keyword, c) + ReciprocalRank(semantic, c)

\* a and b are tuples of numbers: a comes before b when it is greater.
Exceeds(a, b) ==
  \E i \in DOMAIN a : a[i] > b[i] /\ \A k \in 1..i - 1 : a[k] = b[k]

\* sorted: the elements that key is about, those with the greatest keys first.  The
\* keys are different.
Sorted(key) ==
  [n \in 1..Cardinality(DOMAIN key) |->
     CHOOSE x \in DOMAIN key :
       Cardinality({y \in DOMAIN key : Exceeds(key[y], key[x])}) = n - 1]

\* max: the first of them.
Foremost(key) == CHOOSE x \in DOMAIN key : \A y \in DOMAIN key \ {x} : Exceeds(key[x], key[y])

\* The elements of s at the positions in I, in their order.
At(s, I) == LET p == Sorted([i \in I |-> <<-i>>]) IN [n \in DOMAIN p |-> s[p[n]]]

\* _result_sort_key; two documents of one source are told apart by CHOOSE.
DocNumber == CHOOSE f \in [Docs -> 1..Cardinality(Docs)] : IsInjective(f)
SortKey(c) == <<c.score, -DocNumber[c.doc], -c.index, -c.version>>

\* prune_citations.  The mutant counts by version.
Mutant_Pruned(s) ==
  At(s, {i \in DOMAIN s :
           Cardinality({k \in 1..i - 1 : s[k].doc = s[i].doc /\ s[k].version = s[i].version})
             < MaxPerSource})
Pruned(s) ==
  At(s, {i \in DOMAIN s :
           Cardinality({k \in 1..i - 1 : s[k].locator = s[i].locator}) < MaxPerSource})

LocatorOf(c) == Locator[c.doc][c.version + 1]

\* A CitedChunk.
Cited(c) ==
  [doc |-> c.doc, version |-> c.version, index |-> c.index, locator |-> LocatorOf(c),
   score |-> RawScore(c) * Weight[LocatorOf(c)]]

\* The hits that have a source or, failing that, a document; scored, sorted, pruned
\* and cut.
Results ==
  LET hits == {c \in ToSet(keyword) \cup ToSet(semantic) :
                 /\ <<c.doc, c.version>> \in sourced \/ version[c.doc] # Absent
                 /\ RawScore(c) >= MinScore}
      pruned == Pruned(Sorted([c \in {Cited(c) : c \in hits} |-> SortKey(c)]))
  IN SubSeq(pruned, 1, Min({TopK, Len(pruned)}))

-----------------------------------------------------------------------------
(* Lineages *)

\* _lineage_key
Lineage(c) == IF c.version # 0 THEN <<"version", c.doc, c.version>> ELSE <<"locator", c.locator>>
Lineages(s) == {Lineage(s[i]) : i \in DOMAIN s}
Positions(s, l) == {i \in DOMAIN s : Lineage(s[i]) = l}
OfLineage(s, l) == At(s, Positions(s, l))

Overlap(c) == Cardinality(question.terms \cap WordsOf(c))
TotalOverlap(s, l) ==
  Cardinality(question.terms \cap UNION {WordsOf(s[i]) : i \in Positions(s, l)})
BestOverlap(s, l) == Max({Overlap(s[i]) : i \in Positions(s, l)})
BestScore(s, l)   == Max({s[i].score : i \in Positions(s, l)})
TotalScore(s, l)  == SumFunctionOnSet([i \in DOMAIN s |-> s[i].score], Positions(s, l))
FirstRank(s, l)   == Min(Positions(s, l))

\* _minimum_match_count
MinimumMatch ==
  CASE ~question.strict \/ question.terms = {} -> 0
    [] question.strict /\ Cardinality(question.terms) \in 1..2 -> 1
    [] OTHER -> 2

Qualified(s) == {l \in Lineages(s) : TotalOverlap(s, l) >= MinimumMatch}

\* No lineage qualifies because none has any term: the question is then answered
\* from what the semantic search found.
SemanticOnly(s) == question.strict /\ \A l \in Lineages(s) : TotalOverlap(s, l) = 0

\* _lineage_rank_key.  The mutant puts the score before the overlap.
Mutant_RankKey(s, l, preferLocal) == <<BestScore(s, l), TotalOverlap(s, l), -FirstRank(s, l)>>
RankKey(s, l, preferLocal) ==
  LET priority    == Priority[s[FirstRank(s, l)].locator]
      unspecified == preferLocal /\ ~question.connector
      total       == TotalOverlap(s, l)
  IN <<IF unspecified /\ priority = 0 /\ total > 0 THEN total + 1 ELSE total,
       IF unspecified THEN -priority ELSE 0,
       total, BestOverlap(s, l), BestScore(s, l), TotalScore(s, l), -FirstRank(s, l)>>

\* _query_ranked_lineages: the first.
BestLineage(s, preferLocal) == Foremost([l \in Qualified(s) |-> RankKey(s, l, preferLocal)])

\* narrow_to_lineage
Narrowed(s) ==
  CASE Qualified(s) # {} -> OfLineage(s, BestLineage(s, TRUE))
    [] Qualified(s) = {} /\ SemanticOnly(s) -> OfLineage(s, Lineage(s[1]))
    [] OTHER -> <<>>

\* _best_ranked_chunk_for_query
BestChunk(s, l) ==
  s[Foremost([i \in Positions(s, l) |-> <<Overlap(s[i]), s[i].score, -i>>])]

\* _legacy_document_first_anchors
HighestScored(s) ==
  Foremost([l \in Lineages(s) |-> <<TotalScore(s, l), BestScore(s, l), -FirstRank(s, l)>>])

\* select_document_first_anchors
DocumentFirst(s) ==
  CASE Qualified(s) # {} -> <<BestChunk(s, BestLineage(s, FALSE))>>
    [] Qualified(s) = {} /\ SemanticOnly(s) -> OfLineage(s, HighestScored(s))
    [] OTHER -> <<>>

\* select_synthesis_evidence
Selected(s) ==
  LET kept == IF SemanticOnly(s) THEN s
              ELSE At(s, {i \in DOMAIN s : Lineage(s[i]) \in Qualified(s)})
  IN IF question.strategy = "multi_source" /\ Cardinality(Lineages(kept)) < 2 THEN <<>> ELSE kept

-----------------------------------------------------------------------------
(* Context expansion *)

\* _select_anchor_subset
AnchorSubset(s) ==
  LET deduped == At(s, {i \in DOMAIN s : \A k \in 1..i - 1 : s[k].index # s[i].index})
  IN SubSeq(deduped, 1, Min({MaxExpanded, Len(deduped)}))

\* _merge_windows: the windows around the indices in I, those that touch made one.
\* The mutant forgets that a window may reach beyond the one it is merged into.
Mutant_Extend(windows, w) ==
  IF windows # <<>> /\ w[1] <= Last(windows)[2] + 1 THEN windows ELSE Append(windows, w)
Extend(windows, w) ==
  IF windows # <<>> /\ w[1] <= Last(windows)[2] + 1
    THEN Append(Front(windows), <<Last(windows)[1], Max({Last(windows)[2], w[2]})>>)
    ELSE Append(windows, w)

MergedWindows(I) ==
  LET sorted == Sorted([i \in I |-> <<-i>>])
  IN FoldLeft(Extend, <<>>,
              [i \in DOMAIN sorted |-> <<Max({0, sorted[i] - Window}), sorted[i] + Window>>])

\* _fetch_window_rows: by version, or by document for a chunk that has none.  The
\* mutant takes it that every neighbour exists.
InWindows(i, windows) == \E k \in DOMAIN windows : windows[k][1] <= i /\ i <= windows[k][2]
Mutant_WindowRows(c, windows) ==
  {[doc |-> c.doc, version |-> c.version, index |-> i] : i \in {k \in 0..9 : InWindows(k, windows)}}
WindowRows(c, windows) ==
  {k \in ChunksOf(c.doc, version[c.doc]) :
     /\ c.version # 0 => k.version = c.version
     /\ InWindows(k.index, windows)}

Distance(i, I) == Min({IF i > k THEN i - k ELSE k - i : k \in I})

\* _trim_synthesis_chunks: the anchors, and of the others the nearest.
Trimmed(rows, I) ==
  LET neighbours == {k \in rows : k.index \notin I}
      nearest == Sorted([k \in neighbours |-> <<-Distance(k.index, I), -k.index>>])
      kept == IF Cardinality(rows) <= MaxExpanded THEN neighbours
              ELSE {nearest[i] : i \in 1..Max({0, MaxExpanded - Cardinality(I)}) \cap DOMAIN nearest}
  IN (rows \ neighbours) \cup kept

\* expand_bounded_context: the chunks in their order; an anchor is the one that was
\* retrieved, whatever the row says now.
Expanded(s) ==
  LET I    == {s[i].index : i \in DOMAIN s}
      rows == Trimmed(WindowRows(s[1], MergedWindows(I)), I)
      AsRetrieved(k) ==
        IF k.index \in I THEN Chunk(s[CHOOSE i \in DOMAIN s : s[i].index = k.index]) ELSE k
  IN Sorted([k \in {AsRetrieved(k) : k \in rows} |-> <<-k.index>>])

-----------------------------------------------------------------------------
(* RetrievalService *)

\* What is done with the evidence: without any there is no content; retrieve
\* returns it, answer goes on to synthesis.  The mutant logs the retrieval of an
\* answer by itself.
Mutant_Conclude(e, c) ==
  /\ evidence' = e
  /\ context' = IF e = <<>> THEN <<>> ELSE c
  /\ records' = Append(records, IF e = <<>> THEN "no_content" ELSE "success")
  /\ Goto(IF e # <<>> /\ question.synthesise THEN "synthesis" ELSE "returned")

Conclude(e, c) ==
  /\ evidence' = e
  /\ context' = IF e = <<>> THEN <<>> ELSE c
  /\ \/ e = <<>> /\ records' = Append(records, "no_content") /\ Goto("returned")
     \/ e # <<>> /\ ~question.synthesise /\ records' = Append(records, "success") /\ Goto("returned")
     \/ e # <<>> /\ question.synthesise /\ UNCHANGED records /\ Goto("synthesis")

\* The paths of the documents complete the search, whose hits are then forgotten.
\* The strategy decides what comes next.
FindDocuments ==
  /\ rpc = "documents"
  /\ candidates' = Results
  /\ keyword' = <<>> /\ semantic' = <<>> /\ sourced' = {}
  /\ \/ candidates' = <<>> /\ Conclude(<<>>, <<>>) /\ UNCHANGED anchors
     \/ candidates' # <<>> /\ question.strategy = "default"
        /\ LET e == Selected(Narrowed(candidates')) IN Conclude(e, e)
        /\ UNCHANGED anchors
     \/ candidates' # <<>> /\ question.strategy = "multi_source"
        /\ LET e == Selected(candidates') IN Conclude(e, e)
        /\ UNCHANGED anchors
     \/ candidates' # <<>> /\ question.strategy = "bounded"
        /\ anchors' = AnchorSubset(DocumentFirst(candidates'))
        /\ IF anchors' = <<>> THEN Conclude(<<>>, <<>>)
           ELSE Goto("expand") /\ UNCHANGED <<evidence, context, records>>
  /\ UNCHANGED <<version, question>>

Expand ==
  /\ rpc = "expand"
  /\ Conclude(Selected(anchors), Expanded(anchors))
  /\ UNCHANGED <<version, question, found, candidates, anchors>>

Log(outcome, label) ==
  /\ records' = Append(records, outcome)
  /\ Goto(label)
  /\ UNCHANGED <<version, question, found, candidates, anchors, evidence, context>>

\* The embedding of the question or a statement fails.
Raise ==
  /\ rpc \in {"keyword", "semantic", "sources", "documents", "expand"}
  /\ Log("retrieval_failed", "raised")

\* The adapter answers, or raises: the citations are returned without an answer.
Synthesise ==
  /\ rpc = "synthesis"
  /\ \E outcome \in {"success", "synthesis_degraded"} : Log(outcome, "returned")

\* The caller's timeout: CancelledError is not an Exception.
Cancel ==
  /\ Active
  /\ Goto("cancelled")
  /\ UNCHANGED <<version, question, found, candidates, anchors, evidence, context, records>>

Next ==
  \/ \E d \in Docs : NewVersion(d) \/ CleanUp(d)
  \/ KeywordSearch \/ SemanticSearch \/ FindSources \/ FindDocuments
  \/ Expand \/ Synthesise \/ Raise \/ Cancel

Spec == Init /\ [][Next]_vars

-----------------------------------------------------------------------------
(* Properties *)

Ended == rpc \in {"returned", "raised"}

\* Every call that returns or raises has logged one record, which says what it
\* returned; one that is cancelled has logged none.
OneRecordPerCall ==
  /\ rpc = "cancelled" => records = <<>>
  /\ Ended =>
       /\ Len(records) = 1
       /\ rpc = "raised" <=> records[1] = "retrieval_failed"
       /\ rpc = "returned" => (evidence = <<>> <=> records[1] = "no_content")

\* No source is cited more often than it may be, even when the two searches have
\* seen two versions of its document.
PerSourceLimit ==
  \A l \in {evidence[i].locator : i \in DOMAIN evidence} :
    Cardinality({i \in DOMAIN evidence : evidence[i].locator = l}) <= MaxPerSource

\* A direct question is answered from one lineage, and no candidate lineage has
\* more of the question's terms, but for the one that a lineage whose
\* locator begins with local:// may lack.
DefaultIsBestLineage ==
  question.strategy = "default" /\ evidence # <<>> =>
    \A l \in Lineages(candidates) :
      LET mine == Lineage(evidence[1])
          bonus == IF Priority[evidence[1].locator] = 0 /\ ~question.connector THEN 1 ELSE 0
      IN /\ Lineages(evidence) = {mine}
         /\ TotalOverlap(candidates, l) <= TotalOverlap(candidates, mine) + bonus

\* What the model is given is the evidence, or for a bounded question the evidence
\* with its nearest neighbours of the same version: none when that version has
\* been replaced, all of them when they fit, and never a part of the anchors.  Chunks
\* without a version are of one lineage when their documents have one path, which
\* the table allows: this is about evidence of one document.
ContextIsGrounded ==
  LET I == {evidence[i].index : i \in DOMAIN evidence}
      ofOne == \A i \in DOMAIN evidence : evidence[i].doc = evidence[1].doc
      given == {context[i].index : i \in DOMAIN context}
      near  == {c.index : c \in {k \in ChunksOf(evidence[1].doc, evidence[1].version) :
                                   Distance(k.index, I) <= Window}}
  IN /\ question.strategy # "bounded" => context = evidence
     /\ question.strategy = "bounded" /\ context # <<>> /\ ofOne
        /\ (evidence[1].version # 0 \/ version[evidence[1].doc] = 0) =>
          /\ \A i \in DOMAIN context :
               context[i].doc = evidence[1].doc /\ context[i].version = evidence[1].version
          /\ I \subseteq given /\ given \subseteq near
          /\ Cardinality(given) = Min({Cardinality(near), Max({MaxExpanded, Cardinality(I)})})
          /\ \A i \in given \ I, k \in near \ given : Distance(i, I) <= Distance(k, I)

\* "Every chunk that enters here becomes both the LLM context and the returned
\* citations."
EvidenceInContext ==
  \A i \in DOMAIN evidence : \E k \in DOMAIN context :
    context[k].version = evidence[i].version /\ context[k].index = evidence[i].index

\* "We want the winning document to be chosen based on the full set of retrieved
\* support": when a document qualifies, a bounded question has evidence.
QualifiedDocumentIsCited ==
  question.strategy = "bounded" /\ rpc = "returned" /\ Qualified(candidates) # {}
    => evidence # <<>>
=============================================================================
