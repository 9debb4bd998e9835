----------------------------- MODULE MCBackfill -----------------------------
(* Small instances of Backfill for TLC. *)
EXTENDS Backfill, TLC

CONSTANTS r1, r2, twice, once, fresh, h1, h2

\* A path with two versions, one with the bytes of the first, and one that is new.
Before == (twice :> <<h1, h2>>) @@ (once :> <<h1>>) @@ (fresh :> <<>>)
InOrder == <<twice, once, fresh>>
=============================================================================
