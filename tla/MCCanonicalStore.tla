-------------------------- MODULE MCCanonicalStore --------------------------
(* Small instances of CanonicalStore for TLC. *)
EXTENDS CanonicalStore, TLC

CONSTANTS r1, r2, r3, r4, s1, s2

\* Every source is staged under a base name of its own, or all under one name.
OwnName  == [s \in Sources |-> s]
SameName == [s \in Sources |-> s1]

\* Sound for invariants: no definition distinguishes two runs or two contents.
Symmetry == Permutations(Runs) \cup Permutations(Contents)

\* The two theorems of ChunkerProofs, on short texts.
Windows == INSTANCE Chunker
ASSUME ShortTexts ==
  \A n \in 0..14, size \in 1..6, overlap \in 0..5 :
    Windows!Accepted(size, overlap) =>
      /\ Windows!EveryTokenInAChunk(n, size, overlap)
      /\ Windows!EveryChunkIsNew(n, size, overlap)
=============================================================================
