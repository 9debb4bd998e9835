----------------------------- MODULE MCJobQueue -----------------------------
(* Small instances of JobQueue for TLC. *)
EXTENDS JobQueue, TLC

CONSTANTS w1, w2

\* Sound for invariants and action properties: workers are interchangeable.
WorkerSymmetry == Permutations(Workers)
=============================================================================
