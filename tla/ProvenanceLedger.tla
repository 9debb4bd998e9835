-------------------------- MODULE ProvenanceLedger --------------------------
(***************************************************************************)
(* What the canonical store promises to its callers, with neither          *)
(* transactions nor locks: an ingest either records that a source was      *)
(* observed with some content, or does nothing.  Bytes that are known can  *)
(* be recorded without a version; bytes that are not give the source's own *)
(* document exactly one more version.                                      *)
(*                                                                         *)
(* CanonicalStore implements this specification.                           *)
(***************************************************************************)
EXTENDS Naturals

CONSTANTS Sources, Contents

VARIABLES
  observed,   \* the pairs <<source, content>> recorded so far
  heads       \* heads[s]: the version number of s's document, 0 if it has none

ledgerVars == <<observed, heads>>

LedgerTypeOK ==
  /\ observed \subseteq Sources \X Contents
  /\ heads \in [Sources -> Nat]

LedgerInit ==
  /\ observed = {}
  /\ heads = [s \in Sources |-> 0]

Known(c) == \E s \in Sources : <<s, c>> \in observed

\* The bytes are known from some source: only the provenance is recorded.
LinkKnown(s, c) ==
  /\ Known(c)
  /\ observed' = observed \cup {<<s, c>>}
  /\ UNCHANGED heads

\* The bytes are recorded as the next version of the source's own document.
StoreVersion(s, c) ==
  /\ observed' = observed \cup {<<s, c>>}
  /\ heads' = [heads EXCEPT ![s] = @ + 1]

LedgerNext == \E s \in Sources, c \in Contents : LinkKnown(s, c) \/ StoreVersion(s, c)

LedgerSpec == LedgerInit /\ [][LedgerNext]_ledgerVars
=============================================================================
