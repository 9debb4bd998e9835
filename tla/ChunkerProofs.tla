--------------------------- MODULE ChunkerProofs ---------------------------
(* The windows of the chunker, for every text, size and overlap. *)
EXTENDS Chunker, TLAPS

\* A later chunk does not start earlier.
LEMMA StartsInOrder ==
  ASSUME NEW size \in Nat, NEW overlap \in Nat, Accepted(size, overlap),
         NEW j \in Nat, NEW k \in Nat, j <= k
  PROVE  /\ Start(j, size, overlap) \in Nat /\ Start(k, size, overlap) \in Nat
         /\ Start(j, size, overlap) <= Start(k, size, overlap)
         /\ Start(k + 1, size, overlap) = Start(k, size, overlap) + size - overlap
<1> DEFINE s == size - overlap
<1>1. s \in Nat /\ s > 0
  BY DEF Accepted
<1>2. ASSUME NEW x \in Nat, NEW y \in Nat
      PROVE  x * y \in Nat /\ (x + 1) * y = x * y + y
  OBVIOUS
<1>3. PICK d \in Nat : k = j + d
  <2>1. k - j \in Nat /\ k = j + (k - j)
    OBVIOUS
  <2> QED BY <2>1
<1>4. (j + d) * s = j * s + d * s
  BY <1>1, <1>3
<1>5. j * s \in Nat /\ d * s \in Nat /\ k * s \in Nat /\ (k + 1) * s = k * s + s
  BY <1>1, <1>2, <1>3
<1> HIDE DEF s
<1>6. j * s <= k * s
  BY <1>3, <1>4, <1>5
<1> QED BY <1>1, <1>5, <1>6 DEF Start, Step, s

\* The chunk at which the loop ends is emitted and reaches the end of the text.
LEMMA LastChunkEnds ==
  ASSUME NEW size \in Nat, NEW overlap \in Nat, Accepted(size, overlap),
         NEW n \in Nat, n > 0
  PROVE  /\ LastChunk(n, size, overlap) \in Nat
         /\ Emitted(LastChunk(n, size, overlap), n, size, overlap)
         /\ Start(LastChunk(n, size, overlap), size, overlap) + size >= n
<1> DEFINE K == LastChunk(n, size, overlap)
<1>1. CASE n <= overlap
  <2>1. K = 0 /\ Start(0, size, overlap) = 0
    BY <1>1 DEF LastChunk, Start, Step, Accepted
  <2>2. 1..0 = {}
    OBVIOUS
  <2> QED BY <1>1, <2>1, <2>2 DEF Emitted, Accepted
<1>2. CASE n > overlap
  <2> DEFINE s == size - overlap
             m == n - overlap - 1
  <2>1. s \in Nat /\ s > 0 /\ m \in Nat
    BY <1>2 DEF Accepted
  <2>2. K = m \div s
    BY <1>2 DEF LastChunk, Step
  <2>3. /\ m \div s \in Nat
        /\ s * (m \div s) <= m
        /\ m < s * (m \div s) + s
    <3> HIDE DEF s, m
    <3>1. m = s * (m \div s) + (m % s) /\ m % s \in 0..s - 1
      BY <2>1
    <3>2. m \div s \in Nat
      BY <2>1
    <3> QED BY <2>1, <3>1, <3>2
  <2>4. K \in Nat /\ Start(K, size, overlap) = s * (m \div s)
    BY <2>1, <2>2, <2>3 DEF Start, Step
  <2>5. Start(K, size, overlap) <= m /\ m < Start(K, size, overlap) + s
    BY <2>3, <2>4
  <2>6. ASSUME NEW j \in 1..K PROVE n - Start(j, size, overlap) > overlap
    <3>1. Start(j, size, overlap) \in Nat /\ Start(j, size, overlap) <= Start(K, size, overlap)
      BY <2>4, StartsInOrder
    <3>2. Start(K, size, overlap) \in Nat
      BY <2>4, StartsInOrder
    <3> QED BY <2>5, <3>1, <3>2
  <2>7. Start(K, size, overlap) \in Nat
    BY <2>4, StartsInOrder
  <2>8. Start(K, size, overlap) < n /\ Start(K, size, overlap) + size >= n
    BY <2>1, <2>5, <2>7
  <2> QED BY <2>4, <2>6, <2>8 DEF Emitted
<1> QED BY <1>1, <1>2

\* Every token of a text is in one of its chunks: where the loop breaks off, the
\* last chunk has reached the end.
THEOREM NoTokenIsLost ==
  ASSUME NEW size \in Nat, NEW overlap \in Nat, Accepted(size, overlap), NEW n \in Nat
  PROVE  EveryTokenInAChunk(n, size, overlap)
<1> DEFINE K == LastChunk(n, size, overlap)
           s == size - overlap
<1> SUFFICES ASSUME NEW t \in 0..n - 1
             PROVE  \E k \in 0..K : HasToken(k, t, n, size, overlap)
  BY DEF EveryTokenInAChunk
<1>1. n > 0 /\ t \in Nat /\ t < n /\ s \in Nat /\ s > 0
  BY DEF Accepted
<1>2. /\ K \in Nat
      /\ Emitted(K, n, size, overlap)
      /\ Start(K, size, overlap) + size >= n
      /\ Start(K, size, overlap) \in Nat
  BY <1>1, LastChunkEnds, StartsInOrder
<1>3. CASE Start(K, size, overlap) <= t
  <2>1. HasToken(K, t, n, size, overlap)
    BY <1>1, <1>2, <1>3 DEF HasToken, End
  <2> QED BY <1>2, <2>1
<1>4. CASE t < Start(K, size, overlap)
  <2> DEFINE k == t \div s
  <2>1. /\ k \in Nat
        /\ s * k <= t
        /\ t < s * k + s
    <3> HIDE DEF s
    <3>1. t = s * k + (t % s) /\ t % s \in 0..s - 1 /\ k \in Nat
      BY <1>1
    <3> QED BY <1>1, <3>1
  <2>2. Start(k, size, overlap) = s * k
    BY <1>1, <2>1 DEF Start, Step
  <2> HIDE DEF k
  <2>3. k <= K
    <3>1. CASE K <= k
      BY <1>2, <1>4, <2>1, <2>2, <3>1, StartsInOrder
    <3> QED BY <1>2, <2>1, <3>1
  <2>4. Emitted(k, n, size, overlap)
    BY <1>1, <1>2, <2>1, <2>2, <2>3 DEF Emitted
  <2>5. HasToken(k, t, n, size, overlap)
    <3>1. Start(k, size, overlap) \in Nat
      BY <2>1, StartsInOrder
    <3>2. t < Start(k, size, overlap) + size
      BY <1>1, <2>1, <2>2, <3>1 DEF Accepted
    <3> QED BY <1>1, <2>1, <2>2, <2>4, <3>1, <3>2 DEF HasToken, End
  <2> QED BY <1>2, <2>1, <2>3, <2>5
<1> QED BY <1>1, <1>2, <1>3, <1>4

\* The chunks follow each other without a gap, each begins as far before the end of
\* its predecessor as the overlap says, and each has a token that no other had.
THEOREM NoChunkIsRepeated ==
  ASSUME NEW size \in Nat, NEW overlap \in Nat, Accepted(size, overlap), NEW n \in Nat
  PROVE  EveryChunkIsNew(n, size, overlap)
<1> SUFFICES ASSUME NEW k \in 0..n, Emitted(k + 1, n, size, overlap)
             PROVE  /\ Emitted(k, n, size, overlap)
                    /\ End(k, n, size, overlap) < End(k + 1, n, size, overlap)
                    /\ End(k, n, size, overlap) = Start(k + 1, size, overlap) + overlap
  BY DEF EveryChunkIsNew
<1>1. /\ Start(k, size, overlap) \in Nat /\ Start(k + 1, size, overlap) \in Nat
      /\ Start(k, size, overlap) <= Start(k + 1, size, overlap)
      /\ Start(k + 1, size, overlap) = Start(k, size, overlap) + size - overlap
  BY StartsInOrder
<1>2. /\ Start(k + 1, size, overlap) < n
      /\ n - Start(k + 1, size, overlap) > overlap
      /\ \A j \in 1..k : n - Start(j, size, overlap) > overlap
  BY DEF Emitted
<1>3. Emitted(k, n, size, overlap)
  BY <1>1, <1>2 DEF Emitted
<1>4. End(k, n, size, overlap) = Start(k + 1, size, overlap) + overlap
  BY <1>1, <1>2 DEF End
<1>5. End(k, n, size, overlap) < End(k + 1, n, size, overlap)
  BY <1>1, <1>2, <1>4 DEF End, Accepted
<1> QED BY <1>3, <1>4, <1>5
=============================================================================
