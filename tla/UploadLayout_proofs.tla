------------------------ MODULE UploadLayout_proofs ------------------------
(* Proofs about the layout of a file, for every choice of the sizes *)
EXTENDS UploadLayout, TLAPS

\* -(-a // b) is the quotient a / b rounded up.
LEMMA CeilDivBounds ==
  ASSUME NEW a \in Nat, NEW b \in Nat \ {0}
  PROVE  /\ CeilDiv(a, b) \in Nat
         /\ b * CeilDiv(a, b) >= a
         /\ b * CeilDiv(a, b) < a + b
  <1> DEFINE q == (-a) \div b
  <1>1. q \in Int /\ b * q <= -a /\ -a < b * q + b
    BY Z3
  <1>2. b * (-q) = -(b * q)
    BY <1>1, Z3
  <1>3. -q >= 0
    BY <1>1, Z3
  <1> QED  BY <1>1, <1>2, <1>3, Z3 DEF CeilDiv

\* A common factor can be cancelled on both sides of a comparison.
LEMMA CancelFactor ==
  ASSUME NEW k \in Nat \ {0}, NEW x \in Int, NEW y \in Int, k * x < k * y
  PROVE  x < y
  <1>1. CASE x >= y
    <2>1. k * x >= k * y  BY <1>1, Z3
    <2> QED  BY <2>1, Z3
  <1> QED  BY <1>1, Z3

\* Multiples of the segment length are ordered like their factors.
LEMMA Steps ==
  ASSUME NEW c \in Nat \ {0}, NEW x \in Int, NEW y \in Int, x < y
  PROVE  x * c + c <= y * c
  BY Z3

\* The last segment begins before the last chunk and reaches it.
LEMMA LastSegmentBounds ==
  ASSUME NEW total \in Nat \ {0}
  PROVE  /\ total_segments(total) \in Nat \ {0}
         /\ total_chunks(total) \in Nat \ {0}
         /\ (total_segments(total) - 1) * SEGMENT_CHUNKS < total_chunks(total)
         /\ total_chunks(total) <= total_segments(total) * SEGMENT_CHUNKS
  <1> DEFINE C == SEGMENT_CHUNKS
             K == CHUNK_SIZE
             N == total_segments(total)
             M == total_chunks(total)
  <1>1. C \in Nat \ {0} /\ K \in Nat \ {0} /\ SEGMENT_SIZE = C * K
    BY LayoutAssumption DEF SEGMENT_SIZE
  <1>2. C * K \in Nat \ {0}
    BY <1>1, Z3
  <1>3. N \in Nat /\ (C * K) * N >= total /\ (C * K) * N < total + C * K
    BY <1>1, <1>2, CeilDivBounds DEF total_segments
  <1>4. M \in Nat /\ K * M >= total /\ K * M < total + K
    BY <1>1, CeilDivBounds DEF total_chunks
  <1>5. N # 0 /\ M # 0
    BY <1>1, <1>2, <1>3, <1>4, Z3
  <1>6. (N - 1) * C < M
    <2>1. K * ((N - 1) * C) = (C * K) * N - C * K
      BY <1>1, <1>3, Z3
    <2>2. K * ((N - 1) * C) < K * M
      BY <1>1, <1>3, <1>4, <2>1, Z3
    <2>3. (N - 1) * C \in Int
      BY <1>1, <1>3, Z3
    <2> HIDE DEF C, K, N, M
    <2> QED  BY <1>1, <1>4, <2>2, <2>3, CancelFactor
  <1>7. M - 1 < N * C
    <2>1. K * (M - 1) = K * M - K
      BY <1>1, <1>4, Z3
    <2>2. K * (N * C) = (C * K) * N
      BY <1>1, <1>3, Z3
    <2>3. K * (M - 1) < K * (N * C)
      BY <1>1, <1>3, <1>4, <2>1, <2>2, Z3
    <2>4. N * C \in Int /\ M - 1 \in Int
      BY <1>1, <1>3, <1>4, Z3
    <2> HIDE DEF C, K, N, M
    <2> QED  BY <1>1, <2>3, <2>4, CancelFactor
  <1>8. N * C \in Int
    BY <1>1, <1>3, Z3
  <1> QED  BY <1>3, <1>4, <1>5, <1>6, <1>7, <1>8

\* slice_segment's ranges cut the chunks of every file into consecutive
\* pieces, for every size of file, chunk and segment.
THEOREM Partitioned ==
  ASSUME NEW total \in Nat \ {0}
  PROVE  RangesPartition(total)
  <1> DEFINE C == SEGMENT_CHUNKS
             N == total_segments(total)
             M == total_chunks(total)
  <1>1. /\ C \in Nat \ {0} /\ N \in Nat \ {0} /\ M \in Nat \ {0}
        /\ (N - 1) * C < M /\ M <= N * C
    BY LayoutAssumption, LastSegmentBounds
  <1>2. \A s : SegmentChunks(total, s) =
                 s * C .. (IF s = N - 1 THEN M ELSE s * C + C) - 1
    BY <1>1 DEF SegmentChunks, seg_start, seg_end
  <1> HIDE DEF C, N, M
  <1>3. ASSUME NEW i \in 0 .. M - 1
        PROVE  \E s \in 0 .. N - 1 : i \in SegmentChunks(total, s)
    <2> DEFINE s == i \div C
    <2>1. s \in Nat /\ s * C <= i /\ i < s * C + C
      BY <1>1, Z3
    <2> HIDE DEF s
    <2>2. s < N
      <3> SUFFICES ASSUME s >= N PROVE FALSE
        BY <1>1, <2>1
      <3>1. s * C >= N * C  BY <1>1, <2>1, Z3
      <3>2. s * C \in Int /\ N * C \in Int  BY <1>1, <2>1, Z3
      <3> QED  BY <1>1, <2>1, <3>1, <3>2
    <2>3. s * C \in Int
      BY <1>1, <2>1, Z3
    <2>4. i \in SegmentChunks(total, s)
      BY <1>1, <1>2, <2>1, <2>2, <2>3
    <2> QED  BY <1>1, <2>1, <2>2, <2>4
  <1>4. ASSUME NEW s \in 0 .. N - 1
        PROVE  SegmentChunks(total, s) \subseteq 0 .. M - 1
    <2>1. s * C \in Nat /\ (N - 1) * C \in Int
      BY <1>1, Z3
    <2>2. CASE s = N - 1
      BY <1>1, <1>2, <2>1, <2>2
    <2>3. CASE s # N - 1
      <3>1. s * C + C <= (N - 1) * C
        BY <1>1, <2>3, Steps
      <3> QED  BY <1>1, <1>2, <2>1, <2>3, <3>1
    <2> QED  BY <2>2, <2>3
  <1>5. ASSUME NEW s \in 0 .. N - 1, NEW t \in 0 .. N - 1, s < t
        PROVE  SegmentChunks(total, s) \cap SegmentChunks(total, t) = {}
    <2>1. s * C \in Int /\ t * C \in Int
      BY <1>1, Z3
    <2>2. s * C + C <= t * C
      BY <1>1, <1>5, Steps
    <2>3. SegmentChunks(total, s) = s * C .. s * C + C - 1
      BY <1>1, <1>2, <1>5
    <2>4. \A i \in SegmentChunks(total, t) : i >= t * C
      BY <1>1, <1>2, <2>1
    <2> QED  BY <1>1, <2>1, <2>2, <2>3, <2>4
  <1>6. ASSUME NEW s \in 0 .. N - 1, NEW t \in 0 .. N - 1, s # t
        PROVE  SegmentChunks(total, s) \cap SegmentChunks(total, t) = {}
    <2>1. CASE s < t  BY <1>5, <2>1
    <2>2. CASE t < s  BY <1>5, <2>2
    <2> QED  BY <1>1, <1>6, <2>1, <2>2
  <1> QED  BY <1>3, <1>4, <1>6 DEF RangesPartition, C, N, M

\* When the browser's chunks are no larger than the runner's, as 65536 and
\* 65564 are, every chunk that a task waits for exists.
THEOREM NoTaskWaitsInVain ==
  ASSUME NEW total \in Nat, BROWSER_CHUNK <= CHUNK_SIZE
  PROVE  NothingAwaitedInVain(total)
  <1> DEFINE B == BROWSER_CHUNK
             K == CHUNK_SIZE
             M == total_chunks(total)
             L == browser_chunks(total)
  <1>1. B \in Nat \ {0} /\ K \in Nat \ {0} /\ B <= K
    BY LayoutAssumption
  <1>2. M \in Nat /\ K * M < total + K
    BY <1>1, CeilDivBounds DEF total_chunks
  <1>3. L \in Nat /\ B * L >= total
    BY <1>1, CeilDivBounds DEF browser_chunks
  <1> HIDE DEF B, K, M, L
  <1>4. K * (M - 1) < K * L
    <2>1. K * L >= B * L  BY <1>1, <1>3, Z3
    <2>2. K * (M - 1) = K * M - K  BY <1>1, <1>2, Z3
    <2>3. K * L \in Int /\ B * L \in Int /\ K * M \in Int
      BY <1>1, <1>2, <1>3, Z3
    <2> QED  BY <1>1, <1>2, <1>3, <2>1, <2>2, <2>3
  <1>5. M - 1 < L
    BY <1>1, <1>2, <1>3, <1>4, CancelFactor
  <1> QED  BY <1>2, <1>3, <1>5 DEF NothingAwaitedInVain, M, L

\* For such sizes the runner counts the browser's last chunk too exactly if the
\* file is longer than all the chunks before it would be at the runner's size.
\* With 65564 and 65536 bytes the last chunk needs more than 28 bytes for each
\* chunk before it, which no file of more than 2341 chunks (153 MB) has.
THEOREM WhenCountsAgree ==
  ASSUME NEW total \in Nat \ {0}, BROWSER_CHUNK <= CHUNK_SIZE
  PROVE  total_chunks(total) = browser_chunks(total)
           <=> CHUNK_SIZE * (browser_chunks(total) - 1) < total
  <1> DEFINE K == CHUNK_SIZE
             M == total_chunks(total)
             L == browser_chunks(total)
  <1>1. K \in Nat \ {0} /\ L \in Nat
    BY CeilDivBounds, LayoutAssumption DEF browser_chunks
  <1>2. M \in Nat /\ K * M >= total /\ K * M < total + K
    BY CeilDivBounds, LayoutAssumption DEF total_chunks
  <1>3. M <= L
    BY NoTaskWaitsInVain DEF NothingAwaitedInVain
  <1> HIDE DEF K, M, L
  <1>4. /\ K * (M - 1) = K * M - K /\ K * M \in Int
        /\ K * (L - 1) \in Int
    BY <1>1, <1>2, Z3
  <1>5. ASSUME M = L PROVE K * (L - 1) < total
    BY <1>1, <1>2, <1>4, <1>5
  <1>6. ASSUME K * (L - 1) < total PROVE M = L
    <2>1. K * (L - 1) < K * M
      BY <1>1, <1>2, <1>4, <1>6
    <2>2. L - 1 < M
      BY <1>1, <1>2, <2>1, CancelFactor
    <2> QED  BY <1>1, <1>2, <1>3, <2>2
  <1> QED  BY <1>5, <1>6 DEF K, M, L
=============================================================================
