------------------------------ MODULE Chunker ------------------------------
(***************************************************************************)
(* The windows of chunk (src/cos/ingestion/chunker.py), which cuts a text  *)
(* of n tokens into chunks of `size' tokens, each beginning `overlap'      *)
(* tokens before the end of the one before.  Tokens and chunks are counted *)
(* from 0; a chunk is the range of its tokens.                             *)
(***************************************************************************)
EXTENDS Integers

\* What the two ValueErrors leave.
Accepted(size, overlap) == size > 0 /\ overlap >= 0 /\ overlap < size

Step(size, overlap) == size - overlap

Start(k, size, overlap) == k * Step(size, overlap)

\* The loop gets to chunk k: it has not passed the end, and has not stopped at a
\* chunk up to k that the overlap of its predecessor would cover.
Emitted(k, n, size, overlap) ==
  /\ Start(k, size, overlap) < n
  /\ \A j \in 1..k : n - Start(j, size, overlap) > overlap

\* tokens[start : start + chunk_size], which a list cuts off at its end.
End(k, n, size, overlap) ==
  IF Start(k, size, overlap) + size < n THEN Start(k, size, overlap) + size ELSE n

HasToken(k, t, n, size, overlap) ==
  Emitted(k, n, size, overlap) /\ Start(k, size, overlap) <= t /\ t < End(k, n, size, overlap)

-----------------------------------------------------------------------------
\* The chunk at which the loop ends.
LastChunk(n, size, overlap) ==
  IF n > overlap THEN (n - overlap - 1) \div Step(size, overlap) ELSE 0

\* No token is lost.
EveryTokenInAChunk(n, size, overlap) ==
  \A t \in 0..n - 1 : \E k \in 0..LastChunk(n, size, overlap) : HasToken(k, t, n, size, overlap)

\* No chunk lies within its predecessor: each has a token that is new.
EveryChunkIsNew(n, size, overlap) ==
  \A k \in 0..n : Emitted(k + 1, n, size, overlap) =>
    /\ Emitted(k, n, size, overlap)
    /\ End(k, n, size, overlap) < End(k + 1, n, size, overlap)
    /\ End(k, n, size, overlap) = Start(k + 1, size, overlap) + overlap
=============================================================================
