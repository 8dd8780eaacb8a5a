------------------------ MODULE BitPipeOrder_proofs ------------------------
(***************************************************************************)
(* Facts about the pipeline topology and the order of passes, for every    *)
(* even number of devices and every number of microbatches the schedule    *)
(* accepts.                                                                *)
(***************************************************************************)
EXTENDS BitPipeOrder, SequenceTheorems, TLAPS

\* The devices split into two halves of at least two.
LEMMA HalfFacts == Half \in Nat /\ Half >= 2 /\ P = 2 * Half /\ P \in Nat
  BY PAssumption, PEvenAssumption DEF Half

\* num_microbatches is n_loop + 1 units of P.
LEMMA UnitFacts ==
  /\ NLoop \in Nat
  /\ N = (NLoop + 1) * P
  /\ N \in Nat
  /\ N >= P
<1> DEFINE q == N \div P
<1>1. q \in Int /\ N = (q * P) + (N % P)
  BY PAssumption, NAssumption DEF q
<1>2. N = q * P
  BY <1>1, NAssumption, PAssumption
<1>3. q >= 1
  BY <1>1, <1>2, NAssumption, PAssumption
<1>4. NLoop = q - 1
  BY DEF NLoop, q
<1>5. NLoop \in Nat /\ N = (NLoop + 1) * P
  BY <1>1, <1>2, <1>3, <1>4
<1>6. q * P >= P
  BY <1>1, <1>3, PAssumption
<1>7. QED BY <1>2, <1>5, <1>6, NAssumption

LEMMA HalfOfRank ==
  ASSUME NEW r \in Ranks
  PROVE  /\ IHalf(r) \in {0, 1}
         /\ NumInitial(r) \in 1 .. Half
<1>1. CASE r < Half
  <2>1. r \div Half = 0
    BY <1>1, HalfFacts DEF Ranks
  <2>2. QED BY <1>1, <2>1, HalfFacts DEF Ranks, IHalf, NumInitial
<1>2. CASE r >= Half
  <2>1. r \div Half = 1
    BY <1>2, HalfFacts DEF Ranks
  <2>2. QED BY <1>2, <2>1, HalfFacts DEF Ranks, IHalf, NumInitial
<1>3. QED BY <1>1, <1>2, HalfFacts DEF Ranks

\* The sequences of len microbatch ids.
IdSeq(len) == [1 .. len -> Nat]

LEMMA IdsType ==
  ASSUME NEW c \in Chunks, NEW j \in Nat, NEW start \in Nat, NEW len \in Nat
  PROVE  Ids(c, j, start, len) \in IdSeq(len)
<1>1. \A i \in 1 .. len : MicrobatchId01(c, j, start + i - 1) \in Nat
  <2> SUFFICES ASSUME NEW i \in 1 .. len PROVE MicrobatchId01(c, j, start + i - 1) \in Nat
    OBVIOUS
  <2>1. (c \div 2) \in Nat /\ (c % 2) \in Nat
    BY DEF Chunks
  <2>2. (c \div 2) * N \in Nat
    BY <2>1, NAssumption
  <2>3. j * P \in Nat
    BY PAssumption
  <2>4. (c % 2) * Half \in Nat
    BY <2>1, HalfFacts
  <2>5. QED BY <2>2, <2>3, <2>4 DEF MicrobatchId01
<1>2. QED BY <1>1 DEF Ids, IdSeq

LEMMA AlternateType ==
  ASSUME NEW len \in Nat, NEW s \in IdSeq(len), NEW t \in IdSeq(len)
  PROVE  Alternate(s, t) \in IdSeq(2 * len)
<1>1. Len(s) = len /\ s \in [1 .. len -> Nat] /\ t \in [1 .. len -> Nat]
  BY DEF IdSeq
<1>2. \A i \in 1 .. 2 * len :
        (IF i % 2 = 1 THEN s[(i + 1) \div 2] ELSE t[i \div 2]) \in Nat
  <2> SUFFICES ASSUME NEW i \in 1 .. 2 * len
               PROVE  (IF i % 2 = 1 THEN s[(i + 1) \div 2] ELSE t[i \div 2]) \in Nat
    OBVIOUS
  <2>1. i % 2 = 1 => (i + 1) \div 2 \in 1 .. len
    OBVIOUS
  <2>2. i % 2 # 1 => i \div 2 \in 1 .. len
    OBVIOUS
  <2>3. QED BY <1>1, <2>1, <2>2
<1>3. QED BY <1>1, <1>2 DEF Alternate, IdSeq

LEMMA ConcatType ==
  ASSUME NEW k \in Nat, NEW l \in Nat, NEW s \in IdSeq(k), NEW t \in IdSeq(l)
  PROVE  s \o t \in IdSeq(k + l)
<1>1. s \in Seq(Nat) /\ t \in Seq(Nat) /\ Len(s) = k /\ Len(t) = l
  BY DEF IdSeq
<1>2. s \o t \in Seq(Nat) /\ Len(s \o t) = k + l
  BY <1>1, ConcatProperties
<1>3. s \o t \in [1 .. Len(s \o t) -> Nat]
  BY <1>2, LenProperties
<1>4. QED BY <1>2, <1>3 DEF IdSeq

\* The shape the two blocks share.
LEMMA BlockShape ==
  ASSUME NEW a \in Chunks, NEW b \in Chunks, NEW c \in Chunks, NEW e \in Chunks,
         NEW j \in Nat, NEW n \in Nat, NEW d \in Nat
  PROVE  Ids(a, j, 0, n)
         \o Alternate(Ids(b, j, 0, d), Ids(a, j, n, d))
         \o Alternate(Ids(b, j, d, n), Ids(c, j, 0, n))
         \o Alternate(Ids(e, j, 0, d), Ids(c, j, n, d))
         \o Ids(e, j, d, n) \in IdSeq(4 * (n + d))
<1> DEFINE s == Ids(a, j, 0, n)
           t == Alternate(Ids(b, j, 0, d), Ids(a, j, n, d))
           u == Alternate(Ids(b, j, d, n), Ids(c, j, 0, n))
           v == Alternate(Ids(e, j, 0, d), Ids(c, j, n, d))
           w == Ids(e, j, d, n)
<1>1. s \in IdSeq(n) /\ w \in IdSeq(n)
  BY IdsType, 0 \in Nat
<1>2. t \in IdSeq(2 * d)
  BY IdsType, AlternateType, 0 \in Nat
<1>3. u \in IdSeq(2 * n)
  BY IdsType, AlternateType, 0 \in Nat
<1>4. v \in IdSeq(2 * d)
  BY IdsType, AlternateType, 0 \in Nat
<1> HIDE DEF s, t, u, v, w
<1>5. 2 * n \in Nat /\ 2 * d \in Nat /\ n + 2 * d \in Nat
      /\ (n + 2 * d) + 2 * n \in Nat /\ ((n + 2 * d) + 2 * n) + 2 * d \in Nat
  OBVIOUS
<1>6. s \o t \in IdSeq(n + 2 * d)
  BY <1>1, <1>2, <1>5, ConcatType, Zenon
<1>7. s \o t \o u \in IdSeq((n + 2 * d) + 2 * n)
  BY <1>3, <1>5, <1>6, ConcatType, Zenon
<1>8. s \o t \o u \o v \in IdSeq(((n + 2 * d) + 2 * n) + 2 * d)
  BY <1>4, <1>5, <1>7, ConcatType, Zenon
<1>9. s \o t \o u \o v \o w \in IdSeq((((n + 2 * d) + 2 * n) + 2 * d) + n)
  BY <1>1, <1>5, <1>8, ConcatType, Zenon
<1>10. (((n + 2 * d) + 2 * n) + 2 * d) + n = 4 * (n + d)
  OBVIOUS
<1>11. QED BY <1>9, <1>10, Zenon DEF s, t, u, v, w

\* Both blocks are 2P microbatch ids long.
LEMMA BlockType ==
  ASSUME NEW r \in Ranks, NEW j \in Nat
  PROVE  ForwardBlock(r, j) \in IdSeq(2 * P) /\ BackwardBlock(r, j) \in IdSeq(2 * P)
<1>1. /\ NumInitial(r) \in Nat
      /\ Half - NumInitial(r) \in Nat
      /\ 4 * (NumInitial(r) + (Half - NumInitial(r))) = 2 * P
  BY HalfOfRank, HalfFacts
<1>2. /\ IHalf(r) \in Chunks /\ 1 - IHalf(r) \in Chunks
      /\ 2 + IHalf(r) \in Chunks /\ 3 - IHalf(r) \in Chunks
  BY HalfOfRank DEF Chunks
<1>3. ForwardBlock(r, j) \in IdSeq(4 * (NumInitial(r) + (Half - NumInitial(r))))
  BY <1>1, <1>2, BlockShape, Zenon DEF ForwardBlock
<1>4. BackwardBlock(r, j) \in IdSeq(4 * (NumInitial(r) + (Half - NumInitial(r))))
  BY <1>1, <1>2, BlockShape, Zenon DEF BackwardBlock
<1>5. QED BY <1>1, <1>3, <1>4, Zenon

\* Every place below 2N of the two orders holds a microbatch id.
LEMMA OrderType ==
  ASSUME NEW r \in Ranks, NEW k \in 0 .. 2 * N - 1
  PROVE  MicrobatchIdx[r][k] \in Nat /\ BackwardIds[r][k] \in Nat
<1> DEFINE j == k \div (2 * P)
           i == (k % (2 * P)) + 1
<1>1. 2 * P \in Nat /\ 2 * P > 0 /\ k \in Nat
  BY HalfFacts, UnitFacts
<1>2. j \in Nat /\ i \in 1 .. 2 * P
  BY <1>1
<1>3. MicrobatchIdx[r][k] = ForwardBlock(r, j)[i] /\ BackwardIds[r][k] = BackwardBlock(r, j)[i]
  BY DEF MicrobatchIdx, BackwardIds
<1> HIDE DEF i, j
<1>4. ForwardBlock(r, j) \in IdSeq(2 * P) /\ BackwardBlock(r, j) \in IdSeq(2 * P)
  BY <1>2, BlockType
<1>5. ForwardBlock(r, j)[i] \in Nat /\ BackwardBlock(r, j)[i] \in Nat
  BY <1>2, <1>4 DEF IdSeq
<1>6. QED BY <1>3, <1>5

\* get_model_chunk_id maps a microbatch id to a chunk.
LEMMA ChunkOfId == ASSUME NEW m \in Nat PROVE GetModelChunkId(m) \in Chunks
<1>1. m % P \in 0 .. 2 * Half - 1
  BY HalfFacts
<1>2. \A x \in 0 .. 2 * Half - 1 : x \div Half \in {0, 1}
  BY HalfFacts
<1>3. QED BY <1>1, <1>2 DEF GetModelChunkId, Chunks, Sync

\* The chunk of every forward pass is one of the four.
LEMMA ForwardChunkType ==
  ASSUME NEW r \in Ranks, NEW k \in 0 .. 2 * N - 1
  PROVE  ForwardChunk(r, k) \in Chunks
BY OrderType, ChunkOfId DEF ForwardChunk

\* Where the synchronization markers are in the backward order.
FirstMarker(r) == IF IsMiddle(r) THEN 2 * N ELSE 2 * N - 1

\* The backward order has two markers, at FirstMarker and at its end, and
\* microbatch ids of one of the four chunks everywhere else.
THEOREM MarkerPlaces ==
  ASSUME NEW r \in Ranks, NEW k \in 0 .. 2 * N + 1
  PROVE  IF k \in {FirstMarker(r), 2 * N + 1}
         THEN BackwardChunk(r, k) = Sync
         ELSE BackwardChunk(r, k) \in Chunks
<1>1. k \in {FirstMarker(r), 2 * N + 1} => BkMicrobatchIdx[r][k] = Sync
  BY UnitFacts, HalfFacts DEF FirstMarker, BkMicrobatchIdx
<1>2. k \notin {FirstMarker(r), 2 * N + 1} => BkMicrobatchIdx[r][k] \in Nat
  <2> SUFFICES ASSUME k \notin {FirstMarker(r), 2 * N + 1} PROVE BkMicrobatchIdx[r][k] \in Nat
    OBVIOUS
  <2>1. 2 * N - 1 \in 0 .. 2 * N - 1 /\ N \in Nat
    BY UnitFacts, HalfFacts
  <2>2. k \in 0 .. 2 * N - 1 \/ k = 2 * N
    BY <2>1
  <2>3. CASE k \in 0 .. 2 * N - 1
    <3>1. BkMicrobatchIdx[r][k] = BackwardIds[r][k]
      BY <2>1, <2>3 DEF FirstMarker, BkMicrobatchIdx
    <3>2. QED BY <2>3, <3>1, OrderType
  <2>4. CASE k = 2 * N
    <3>1. BkMicrobatchIdx[r][k] = BackwardIds[r][2 * N - 1]
      BY <2>1, <2>4 DEF FirstMarker, BkMicrobatchIdx
    <3>2. QED BY <2>1, <3>1, OrderType
  <2>5. QED BY <2>2, <2>3, <2>4
<1>3. GetModelChunkId(Sync) = Sync
  BY DEF GetModelChunkId
<1>4. QED BY <1>1, <1>2, <1>3, ChunkOfId DEF BackwardChunk

----------------------------------------------------------------------------
\* Division with remainder, from the quotient and the remainder.
LEMMA DivMod ==
  ASSUME NEW m \in Nat, m > 0, NEW q \in Nat, NEW x \in 0 .. m - 1
  PROVE  (q * m + x) \div m = q /\ (q * m + x) % m = x
<1> DEFINE y == q * m + x
           a == y \div m
           b == y % m
<1>1. y \in Nat /\ q * m \in Nat
  OBVIOUS
<1>2. a \in Int /\ b \in 0 .. m - 1 /\ y = a * m + b
  BY <1>1
<1> HIDE DEF a, b
<1>3. (a - q) * m = x - b
  <2>1. (a - q) * m = a * m - q * m
    BY <1>2
  <2>2. QED BY <2>1, <1>2, <1>1
<1>4. a - q < 1
  <2>1. ASSUME a - q >= 1 PROVE FALSE
    <3>1. (a - q) * m >= m
      BY <2>1, <1>2
    <3>2. QED BY <3>1, <1>3, <1>2
  <2>2. QED BY <2>1, <1>2
<1>5. a - q > -1
  <2>1. ASSUME a - q <= -1 PROVE FALSE
    <3>1. (a - q) * m <= -m
      BY <2>1, <1>2
    <3>2. QED BY <3>1, <1>3, <1>2
  <2>2. QED BY <2>1, <1>2
<1>6. a = q
  BY <1>4, <1>5, <1>2
<1>7. QED BY <1>6, <1>2, <1>3 DEF a, b

(***************************************************************************)
(* The four chunks of a block play four roles, in the order in which they  *)
(* first appear.  In a block with n and d, RoleAt is the role of place x   *)
(* and RoleCount how many places before x have role q.                     *)
(***************************************************************************)
RoleAt(n, d, x) ==
  IF x < n THEN 0
  ELSE IF x < n + 2 * d THEN (IF (x - n) % 2 = 0 THEN 1 ELSE 0)
  ELSE IF x < 3 * n + 2 * d THEN (IF (x - n) % 2 = 0 THEN 1 ELSE 2)
  ELSE IF x < 3 * n + 4 * d THEN (IF (x - n) % 2 = 0 THEN 3 ELSE 2)
  ELSE 3

RoleCount(q, n, d, x) ==
  IF q = 0 THEN IF x <= n THEN x ELSE IF x <= n + 2 * d THEN n + ((x - n) \div 2) ELSE n + d
  ELSE IF q = 1
  THEN IF x <= n THEN 0 ELSE IF x <= 3 * n + 2 * d THEN (x - n + 1) \div 2 ELSE n + d
  ELSE IF q = 2
  THEN IF x <= n + 2 * d THEN 0
       ELSE IF x <= 3 * n + 4 * d THEN (x - n - 2 * d) \div 2 ELSE n + d
  ELSE IF x <= 3 * n + 2 * d THEN 0
       ELSE IF x <= 3 * n + 4 * d THEN (x - 3 * n - 2 * d + 1) \div 2
       ELSE x - 3 * n - 3 * d

LEMMA RoleSteps ==
  ASSUME NEW n \in Nat, NEW d \in Nat, NEW x \in 0 .. 4 * (n + d) - 1
  PROVE  /\ RoleAt(n, d, x) \in 0 .. 3
         /\ \A q \in 0 .. 3 :
              /\ RoleCount(q, n, d, x) \in Nat
              /\ RoleCount(q, n, d, 0) = 0
              /\ RoleCount(q, n, d, 4 * (n + d)) = n + d
              /\ RoleCount(q, n, d, x + 1) =
                   RoleCount(q, n, d, x) + (IF q = RoleAt(n, d, x) THEN 1 ELSE 0)
         /\ RoleCount(RoleAt(n, d, x), n, d, x) < n + d
<1>1. RoleAt(n, d, x) \in 0 .. 3
  BY DEF RoleAt
<1>2. ASSUME NEW q \in 0 .. 3
      PROVE  /\ RoleCount(q, n, d, x) \in Nat
             /\ RoleCount(q, n, d, 0) = 0
             /\ RoleCount(q, n, d, 4 * (n + d)) = n + d
             /\ RoleCount(q, n, d, x + 1) =
                  RoleCount(q, n, d, x) + (IF q = RoleAt(n, d, x) THEN 1 ELSE 0)
             /\ q = RoleAt(n, d, x) => RoleCount(q, n, d, x) < n + d
  <2>1. CASE q = 0
    <3>1. RoleCount(q, n, d, x) \in Nat
      BY <2>1 DEF RoleCount
    <3>2. RoleCount(q, n, d, 0) = 0
      BY <2>1 DEF RoleCount
    <3>3. RoleCount(q, n, d, 4 * (n + d)) = n + d
      BY <2>1 DEF RoleCount
    <3>4. RoleCount(q, n, d, x + 1) =
            RoleCount(q, n, d, x) + (IF q = RoleAt(n, d, x) THEN 1 ELSE 0)
      BY <2>1 DEF RoleCount, RoleAt
    <3>5. q = RoleAt(n, d, x) => RoleCount(q, n, d, x) < n + d
      BY <2>1 DEF RoleCount, RoleAt
    <3>6. QED BY <3>1, <3>2, <3>3, <3>4, <3>5
  <2>2. CASE q = 1
    <3>1. RoleCount(q, n, d, x) \in Nat
      BY <2>2 DEF RoleCount
    <3>2. RoleCount(q, n, d, 0) = 0
      BY <2>2 DEF RoleCount
    <3>3. RoleCount(q, n, d, 4 * (n + d)) = n + d
      BY <2>2 DEF RoleCount
    <3>4. RoleCount(q, n, d, x + 1) =
            RoleCount(q, n, d, x) + (IF q = RoleAt(n, d, x) THEN 1 ELSE 0)
      <4>1. CASE x < n
        BY <2>2, <4>1 DEF RoleCount, RoleAt
      <4>2. CASE n <= x /\ x < 3 * n + 2 * d
        <5>1. \A y \in Nat : (y + 2) \div 2 = (y + 1) \div 2 + (IF y % 2 = 0 THEN 1 ELSE 0)
          OBVIOUS
        <5>2. x - n \in Nat /\ (x - n) % 2 = (x - n) % 2
          BY <4>2
        <5>3. ((x - n) + 2) \div 2 =
                ((x - n) + 1) \div 2 + (IF (x - n) % 2 = 0 THEN 1 ELSE 0)
          BY <5>1, <5>2
        <5>4. RoleCount(q, n, d, x + 1) = ((x - n) + 2) \div 2
          <6>1. (x + 1) - n + 1 = (x - n) + 2
            OBVIOUS
          <6>2. RoleCount(q, n, d, x + 1) = ((x + 1) - n + 1) \div 2
            BY <2>2, <4>2 DEF RoleCount
          <6>3. QED BY <6>1, <6>2
        <5>5. RoleCount(q, n, d, x) = ((x - n) + 1) \div 2
          <6>1. CASE x = n
            BY <2>2, <6>1 DEF RoleCount
          <6>2. CASE x > n
            BY <2>2, <4>2, <6>2 DEF RoleCount
          <6>3. QED BY <4>2, <6>1, <6>2
        <5>6. q = RoleAt(n, d, x) <=> (x - n) % 2 = 0
          BY <2>2, <4>2 DEF RoleAt
        <5>7. QED BY <5>3, <5>4, <5>5, <5>6
      <4>3. CASE 3 * n + 2 * d <= x
        <5>1. RoleCount(q, n, d, x + 1) = n + d
          BY <2>2, <4>3 DEF RoleCount
        <5>2. (2 * (n + d) + 1) \div 2 = n + d
          OBVIOUS
        <5>3. RoleCount(q, n, d, x) = n + d
          BY <2>2, <4>3, <5>2 DEF RoleCount
        <5>4. q # RoleAt(n, d, x)
          BY <2>2, <4>3 DEF RoleAt
        <5>5. QED BY <5>1, <5>3, <5>4
      <4>4. QED BY <4>1, <4>2, <4>3
    <3>5. q = RoleAt(n, d, x) => RoleCount(q, n, d, x) < n + d
      BY <2>2 DEF RoleCount, RoleAt
    <3>6. QED BY <3>1, <3>2, <3>3, <3>4, <3>5
  <2>3. CASE q = 2
    <3>1. RoleCount(q, n, d, x) \in Nat
      BY <2>3 DEF RoleCount
    <3>2. RoleCount(q, n, d, 0) = 0
      BY <2>3 DEF RoleCount
    <3>3. RoleCount(q, n, d, 4 * (n + d)) = n + d
      BY <2>3 DEF RoleCount
    <3>4. RoleCount(q, n, d, x + 1) =
            RoleCount(q, n, d, x) + (IF q = RoleAt(n, d, x) THEN 1 ELSE 0)
      BY <2>3 DEF RoleCount, RoleAt
    <3>5. q = RoleAt(n, d, x) => RoleCount(q, n, d, x) < n + d
      BY <2>3 DEF RoleCount, RoleAt
    <3>6. QED BY <3>1, <3>2, <3>3, <3>4, <3>5
  <2>4. CASE q = 3
    <3>1. RoleCount(q, n, d, x) \in Nat
      BY <2>4 DEF RoleCount
    <3>2. RoleCount(q, n, d, 0) = 0
      BY <2>4 DEF RoleCount
    <3>3. RoleCount(q, n, d, 4 * (n + d)) = n + d
      BY <2>4 DEF RoleCount
    <3>4. RoleCount(q, n, d, x + 1) =
            RoleCount(q, n, d, x) + (IF q = RoleAt(n, d, x) THEN 1 ELSE 0)
      <4>1. CASE x < 3 * n + 2 * d
        BY <2>4, <4>1 DEF RoleCount, RoleAt
      <4>2. CASE 3 * n + 2 * d <= x /\ x < 3 * n + 4 * d
        <5>1. \A y \in Nat : (y + 2) \div 2 = (y + 1) \div 2 + (IF y % 2 = 0 THEN 1 ELSE 0)
          OBVIOUS
        <5>2. x - (3 * n + 2 * d) \in Nat /\ (x - (3 * n + 2 * d)) % 2 = (x - n) % 2
          BY <4>2
        <5>3. ((x - (3 * n + 2 * d)) + 2) \div 2 =
                ((x - (3 * n + 2 * d)) + 1) \div 2 + (IF (x - n) % 2 = 0 THEN 1 ELSE 0)
          BY <5>1, <5>2
        <5>4. RoleCount(q, n, d, x + 1) = ((x - (3 * n + 2 * d)) + 2) \div 2
          BY <2>4, <4>2 DEF RoleCount
        <5>5. RoleCount(q, n, d, x) = ((x - (3 * n + 2 * d)) + 1) \div 2
          BY <2>4, <4>2 DEF RoleCount
        <5>6. q = RoleAt(n, d, x) <=> (x - n) % 2 = 0
          BY <2>4, <4>2 DEF RoleAt
        <5>7. QED BY <5>3, <5>4, <5>5, <5>6
      <4>3. CASE 3 * n + 4 * d <= x
        BY <2>4, <4>3 DEF RoleCount, RoleAt
      <4>4. QED BY <4>1, <4>2, <4>3
    <3>5. q = RoleAt(n, d, x) => RoleCount(q, n, d, x) < n + d
      BY <2>4 DEF RoleCount, RoleAt
    <3>6. QED BY <3>1, <3>2, <3>3, <3>4, <3>5
  <2>5. QED BY <2>1, <2>2, <2>3, <2>4
<1>3. QED BY <1>1, <1>2

LEMMA ConcatPlace ==
  ASSUME NEW k \in Nat, NEW l \in Nat, NEW s \in IdSeq(k), NEW t \in IdSeq(l), NEW i \in 1 .. k + l
  PROVE  (s \o t)[i] = IF i <= k THEN s[i] ELSE t[i - k]
<1>1. s \in Seq(Nat) /\ t \in Seq(Nat) /\ Len(s) = k /\ Len(t) = l
  BY DEF IdSeq
<1>2. \A z \in 1 .. Len(s) + Len(t) :
        (s \o t)[z] = IF z <= Len(s) THEN s[z] ELSE t[z - Len(s)]
  BY <1>1, ConcatProperties
<1>3. QED BY <1>1, <1>2

\* A block whose roles are played by chunks a, b, c and e.
Block(a, b, c, e, j, n, d) ==
  Ids(a, j, 0, n)
  \o Alternate(Ids(b, j, 0, d), Ids(a, j, n, d))
  \o Alternate(Ids(b, j, d, n), Ids(c, j, 0, n))
  \o Alternate(Ids(e, j, 0, d), Ids(c, j, n, d))
  \o Ids(e, j, d, n)

\* The chunk of a role.
Player(q, a, b, c, e) == IF q = 0 THEN a ELSE IF q = 1 THEN b ELSE IF q = 2 THEN c ELSE e

\* What is at place x of a block: the next id of the chunk that plays its role.
LEMMA BlockPlace ==
  ASSUME NEW a \in Chunks, NEW b \in Chunks, NEW c \in Chunks, NEW e \in Chunks,
         NEW j \in Nat, NEW n \in Nat, NEW d \in Nat, NEW x \in 0 .. 4 * (n + d) - 1
  PROVE  Block(a, b, c, e, j, n, d)[x + 1] =
           MicrobatchId01(Player(RoleAt(n, d, x), a, b, c, e), j, RoleCount(RoleAt(n, d, x), n, d, x))
<1> DEFINE s == Ids(a, j, 0, n)
           t == Alternate(Ids(b, j, 0, d), Ids(a, j, n, d))
           u == Alternate(Ids(b, j, d, n), Ids(c, j, 0, n))
           v == Alternate(Ids(e, j, 0, d), Ids(c, j, n, d))
           w == Ids(e, j, d, n)
<1>1. s \in IdSeq(n) /\ w \in IdSeq(n)
  BY IdsType, 0 \in Nat
<1>2. t \in IdSeq(2 * d)
  BY IdsType, AlternateType, 0 \in Nat
<1>3. u \in IdSeq(2 * n)
  BY IdsType, AlternateType, 0 \in Nat
<1>4. v \in IdSeq(2 * d)
  BY IdsType, AlternateType, 0 \in Nat
<1>5. 2 * n \in Nat /\ 2 * d \in Nat /\ n + 2 * d \in Nat
      /\ (n + 2 * d) + 2 * n \in Nat /\ ((n + 2 * d) + 2 * n) + 2 * d \in Nat
  OBVIOUS
<1>a. \A y \in 1 .. n : s[y] = MicrobatchId01(a, j, y - 1) /\ w[y] = MicrobatchId01(e, j, d + y - 1)
  BY DEF Ids
<1>b. \A y \in 1 .. 2 * d : t[y] = IF y % 2 = 1 THEN MicrobatchId01(b, j, (y + 1) \div 2 - 1)
                                               ELSE MicrobatchId01(a, j, n + y \div 2 - 1)
  BY DEF Ids, Alternate
<1>c. \A y \in 1 .. 2 * n : u[y] = IF y % 2 = 1 THEN MicrobatchId01(b, j, d + (y + 1) \div 2 - 1)
                                               ELSE MicrobatchId01(c, j, y \div 2 - 1)
  BY DEF Ids, Alternate
<1>d. \A y \in 1 .. 2 * d : v[y] = IF y % 2 = 1 THEN MicrobatchId01(e, j, (y + 1) \div 2 - 1)
                                               ELSE MicrobatchId01(c, j, n + y \div 2 - 1)
  BY DEF Ids, Alternate
<1> HIDE DEF s, t, u, v, w
<1> DEFINE st == s \o t
           stu == st \o u
           stuv == stu \o v
           block == stuv \o w
           i == x + 1
<1>6. st \in IdSeq(n + 2 * d)
  BY <1>1, <1>2, <1>5, ConcatType, Zenon
<1>7. stu \in IdSeq((n + 2 * d) + 2 * n)
  BY <1>3, <1>5, <1>6, ConcatType, Zenon
<1>8. stuv \in IdSeq(((n + 2 * d) + 2 * n) + 2 * d)
  BY <1>4, <1>5, <1>7, ConcatType, Zenon
<1>9. /\ i \in 1 .. (((n + 2 * d) + 2 * n) + 2 * d) + n
      /\ x \in Nat /\ i = x + 1
      /\ i <= ((n + 2 * d) + 2 * n) + 2 * d => i \in 1 .. ((n + 2 * d) + 2 * n) + 2 * d
      /\ i <= (n + 2 * d) + 2 * n => i \in 1 .. (n + 2 * d) + 2 * n
      /\ i <= n + 2 * d => i \in 1 .. n + 2 * d
  OBVIOUS
<1> HIDE DEF i
<1>10. block[i] = IF i <= ((n + 2 * d) + 2 * n) + 2 * d THEN stuv[i]
                  ELSE w[i - (((n + 2 * d) + 2 * n) + 2 * d)]
  BY <1>1, <1>5, <1>8, <1>9, ConcatPlace, Zenon
<1>11. i <= ((n + 2 * d) + 2 * n) + 2 * d =>
         stuv[i] = IF i <= (n + 2 * d) + 2 * n THEN stu[i] ELSE v[i - ((n + 2 * d) + 2 * n)]
  BY <1>4, <1>5, <1>7, <1>9, ConcatPlace, Zenon
<1>12. i <= (n + 2 * d) + 2 * n =>
         stu[i] = IF i <= n + 2 * d THEN st[i] ELSE u[i - (n + 2 * d)]
  BY <1>3, <1>5, <1>6, <1>9, ConcatPlace, Zenon
<1>13. i <= n + 2 * d => st[i] = IF i <= n THEN s[i] ELSE t[i - n]
  BY <1>1, <1>2, <1>5, <1>9, ConcatPlace, Zenon
<1> HIDE DEF st, stu, stuv, block
<1> DEFINE q == RoleAt(n, d, x)
           goal == block[i] = MicrobatchId01(IF q = 0 THEN a ELSE IF q = 1 THEN b
                                             ELSE IF q = 2 THEN c ELSE e,
                                             j, RoleCount(q, n, d, x))
<1>14. ASSUME x < n PROVE goal
  <2>1. block[i] = s[i]
    BY <1>9, <1>10, <1>11, <1>12, <1>13, <1>14
  <2>2. s[i] = MicrobatchId01(a, j, x)
    BY <1>9, <1>a, <1>14
  <2>3. q = 0 /\ RoleCount(0, n, d, x) = x
    BY <1>9, <1>14 DEF RoleAt, RoleCount
  <2>4. QED BY <1>9, <2>1, <2>2, <2>3
<1>15. ASSUME n <= x /\ x < n + 2 * d PROVE goal
  <2> DEFINE y == i - n
  <2>1. block[i] = t[y] /\ y \in 1 .. 2 * d
    BY <1>9, <1>10, <1>11, <1>12, <1>13, <1>15
  <2>2. CASE y % 2 = 1
    <3>1. q = 1
      BY <1>9, <1>15, <2>2 DEF RoleAt
    <3>2. RoleCount(1, n, d, x) = (y + 1) \div 2 - 1
      BY <1>9, <1>15, <2>2 DEF RoleCount
    <3>3. t[y] = MicrobatchId01(b, j, (y + 1) \div 2 - 1)
      BY <1>b, <2>1, <2>2
    <3>4. QED BY <2>1, <3>1, <3>2, <3>3
  <2>3. CASE y % 2 # 1
    <3>1. q = 0
      BY <1>9, <1>15, <2>3 DEF RoleAt
    <3>2. RoleCount(0, n, d, x) = n + y \div 2 - 1
      BY <1>9, <1>15, <2>3 DEF RoleCount
    <3>3. t[y] = MicrobatchId01(a, j, n + y \div 2 - 1)
      BY <1>b, <2>1, <2>3
    <3>4. QED BY <2>1, <3>1, <3>2, <3>3
  <2>4. QED BY <1>9, <2>2, <2>3
<1>16. ASSUME n + 2 * d <= x /\ x < 3 * n + 2 * d PROVE goal
  <2> DEFINE y == i - (n + 2 * d)
  <2>1. block[i] = u[y] /\ y \in 1 .. 2 * n
    BY <1>9, <1>10, <1>11, <1>12, <1>13, <1>16
  <2>2. CASE y % 2 = 1
    <3>1. q = 1
      BY <1>9, <1>16, <2>2 DEF RoleAt
    <3>2. RoleCount(1, n, d, x) = d + (y + 1) \div 2 - 1
      BY <1>9, <1>16, <2>2 DEF RoleCount
    <3>3. u[y] = MicrobatchId01(b, j, d + (y + 1) \div 2 - 1)
      BY <1>c, <2>1, <2>2
    <3>4. QED BY <2>1, <3>1, <3>2, <3>3
  <2>3. CASE y % 2 # 1
    <3>1. q = 2
      BY <1>9, <1>16, <2>3 DEF RoleAt
    <3>2. RoleCount(2, n, d, x) = y \div 2 - 1
      BY <1>9, <1>16, <2>3 DEF RoleCount
    <3>3. u[y] = MicrobatchId01(c, j, y \div 2 - 1)
      BY <1>c, <2>1, <2>3
    <3>4. QED BY <2>1, <3>1, <3>2, <3>3
  <2>4. QED BY <1>9, <2>2, <2>3
<1>17. ASSUME 3 * n + 2 * d <= x /\ x < 3 * n + 4 * d PROVE goal
  <2> DEFINE y == i - ((n + 2 * d) + 2 * n)
  <2>1. block[i] = v[y] /\ y \in 1 .. 2 * d
    BY <1>9, <1>10, <1>11, <1>12, <1>13, <1>17
  <2>2. CASE y % 2 = 1
    <3>1. q = 3
      BY <1>9, <1>17, <2>2 DEF RoleAt
    <3>2. RoleCount(3, n, d, x) = (y + 1) \div 2 - 1
      BY <1>9, <1>17, <2>2 DEF RoleCount
    <3>3. v[y] = MicrobatchId01(e, j, (y + 1) \div 2 - 1)
      BY <1>d, <2>1, <2>2
    <3>4. QED BY <2>1, <3>1, <3>2, <3>3
  <2>3. CASE y % 2 # 1
    <3>1. q = 2
      BY <1>9, <1>17, <2>3 DEF RoleAt
    <3>2. RoleCount(2, n, d, x) = n + y \div 2 - 1
      BY <1>9, <1>17, <2>3 DEF RoleCount
    <3>3. v[y] = MicrobatchId01(c, j, n + y \div 2 - 1)
      BY <1>d, <2>1, <2>3
    <3>4. QED BY <2>1, <3>1, <3>2, <3>3
  <2>4. QED BY <1>9, <2>2, <2>3
<1>18. ASSUME 3 * n + 4 * d <= x PROVE goal
  <2> DEFINE y == i - (((n + 2 * d) + 2 * n) + 2 * d)
  <2>1. block[i] = w[y] /\ y \in 1 .. n
    BY <1>9, <1>10, <1>18
  <2>a. w[y] = MicrobatchId01(e, j, d + y - 1)
    BY <1>a, <2>1
  <2>2. q = 3 /\ RoleCount(3, n, d, x) = d + y - 1
    BY <1>9, <1>18 DEF RoleAt, RoleCount
  <2>3. QED BY <2>1, <2>2, <2>a
<1>19. goal
  <2>1. x < n \/ (n <= x /\ x < n + 2 * d) \/ (n + 2 * d <= x /\ x < 3 * n + 2 * d)
        \/ (3 * n + 2 * d <= x /\ x < 3 * n + 4 * d) \/ 3 * n + 4 * d <= x
    BY <1>9
  <2>2. QED BY <2>1, <1>14, <1>15, <1>16, <1>17, <1>18, Zenon
<1>20. QED BY <1>19, Zenon DEF Block, Player, s, t, u, v, w, st, stu, stuv, block, i

\* get_model_chunk_id finds the chunk an id was made for.
LEMMA ChunkOfMicrobatchId ==
  ASSUME NEW c \in Chunks, NEW j \in 0 .. NLoop, NEW i \in 0 .. Half - 1
  PROVE  GetModelChunkId(MicrobatchId01(c, j, i)) = c
<1> DEFINE x == (c % 2) * Half + i
           b == j * P + x
           m == MicrobatchId01(c, j, i)
<1>1. c % 2 \in {0, 1} /\ c \div 2 \in {0, 1} /\ c = (c % 2) + 2 * (c \div 2)
  BY DEF Chunks
<1>2. x \in 0 .. P - 1 /\ x \div Half = c % 2
  <2>1. x \div Half = c % 2
    <3>1. c % 2 \in Nat /\ Half \in Nat /\ Half > 0
      BY <1>1, HalfFacts
    <3>2. QED BY <3>1, DivMod, Zenon
  <2>2. \A y \in Nat : 0 * y = 0 /\ 1 * y = y
    OBVIOUS
  <2>3. x \in {i, Half + i}
    BY <1>1, <2>2, HalfFacts
  <2> HIDE DEF x
  <2>4. QED BY <2>1, <2>3, HalfFacts
<1> HIDE DEF x
<1>3. j * P \in Nat /\ b \in 0 .. N - 1
  <2>1. j \in Nat /\ NLoop \in Nat /\ NLoop - j >= 0 /\ P \in Nat
    BY UnitFacts, HalfFacts
  <2>2. (NLoop - j) * P >= 0
    BY <2>1
  <2>3. (NLoop - j) * P = NLoop * P - j * P /\ (NLoop + 1) * P = NLoop * P + P
    BY <2>1
  <2>4. j * P \in Nat /\ NLoop * P \in Nat
    BY <2>1
  <2>5. N = NLoop * P + P
    BY <2>3, UnitFacts
  <2>6. QED BY <1>2, <2>2, <2>3, <2>4, <2>5, HalfFacts
<1>4. m = (c \div 2) * N + b
  <2>1. m = (c \div 2) * N + j * P + (c % 2) * Half + i
    BY DEF MicrobatchId01
  <2>2. (c \div 2) * N \in Nat /\ (c % 2) * Half \in Nat
    <3>1. \A y \in Nat : 0 * y \in Nat /\ 1 * y \in Nat
      OBVIOUS
    <3>2. QED BY <1>1, <3>1, UnitFacts, HalfFacts
  <2>3. QED BY <1>3, <2>1, <2>2 DEF x
<1> HIDE DEF m
<1>5. m \in Nat /\ (m < N <=> c \div 2 = 0)
  <2>1. CASE c \div 2 = 0
    BY <1>3, <1>4, <2>1, UnitFacts
  <2>2. CASE c \div 2 = 1
    BY <1>3, <1>4, <2>2, UnitFacts
  <2>3. QED BY <1>1, <2>1, <2>2
<1>6. m % P = x
  <2> DEFINE q == IF c \div 2 = 0 THEN j ELSE (NLoop + 1) + j
  <2>1. q \in Nat
    BY UnitFacts
  <2>2. m = q * P + x
    <3>1. CASE c \div 2 = 0
      BY <1>3, <1>4, <3>1, UnitFacts
    <3>2. CASE c \div 2 = 1
      <4>1. q * P = (NLoop + 1) * P + j * P
        BY <3>2, UnitFacts, HalfFacts
      <4>2. QED BY <1>2, <1>3, <1>4, <3>2, <4>1, UnitFacts
    <3>3. QED BY <1>1, <3>1, <3>2
  <2>3. P \in Nat /\ P > 0
    BY HalfFacts
  <2> HIDE DEF q
  <2>4. QED BY <1>2, <2>1, <2>2, <2>3, DivMod
<1>7. m # Sync
  BY <1>5 DEF Sync
<1>8. GetModelChunkId(m) = c
  BY <1>1, <1>2, <1>5, <1>6, <1>7 DEF GetModelChunkId
<1>9. QED BY <1>8 DEF m

\* The role of a chunk in the blocks of the forward and of the backward order.
ForwardRole(r, c) ==
  IF c = IHalf(r) THEN 0 ELSE IF c = 1 - IHalf(r) THEN 1 ELSE IF c = 3 - IHalf(r) THEN 2 ELSE 3

BackwardRole(r, c) ==
  IF c = 2 + IHalf(r) THEN 0 ELSE IF c = 3 - IHalf(r) THEN 1 ELSE IF c = 1 - IHalf(r) THEN 2 ELSE 3

RoleOfPlace(r, k) == RoleAt(NumInitial(r), Half - NumInitial(r), k % (2 * P))

\* How many of the first k places are of the chunk with role q.
RoleDone(r, q, k) ==
  (k \div (2 * P)) * Half + RoleCount(q, NumInitial(r), Half - NumInitial(r), k % (2 * P))

\* How many forward passes of chunk c there are among the first k, and the same for backward
\* passes; the markers in the backward order are not counted.
ForwardDone(r, c, k) == RoleDone(r, ForwardRole(r, c), k)

BackwardPasses(r, k) ==
  IF k <= FirstMarker(r) THEN k ELSE IF k <= 2 * N + 1 THEN k - 1 ELSE k - 2

BackwardDone(r, c, k) == RoleDone(r, BackwardRole(r, c), BackwardPasses(r, k))

\* The place after k is in the same block, or the first one of the next.
LEMMA PlaceAfter ==
  ASSUME NEW m \in Nat, m > 0, NEW k \in Nat
  PROVE  /\ k \div m \in Nat /\ k % m \in 0 .. m - 1 /\ k = (k \div m) * m + (k % m)
         /\ \/ /\ (k % m) + 1 < m
               /\ (k + 1) \div m = k \div m /\ (k + 1) % m = (k % m) + 1
            \/ /\ (k % m) + 1 = m
               /\ (k + 1) \div m = k \div m + 1 /\ (k + 1) % m = 0
<1> DEFINE q == k \div m
           x == k % m
<1>1. q \in Nat /\ x \in 0 .. m - 1 /\ k = q * m + x
  OBVIOUS
<1> HIDE DEF q, x
<1>2. CASE x + 1 < m
  <2>1. k + 1 = q * m + (x + 1) /\ x + 1 \in 0 .. m - 1
    <3>1. q * m \in Nat
      BY <1>1
    <3>2. QED BY <1>1, <1>2, <3>1
  <2>2. (q * m + (x + 1)) \div m = q /\ (q * m + (x + 1)) % m = x + 1
    BY <1>1, <2>1, DivMod, Zenon
  <2>3. QED BY <1>1, <1>2, <2>1, <2>2 DEF q, x
<1>3. CASE x + 1 = m
  <2>1. k + 1 = (q + 1) * m + 0 /\ 0 \in 0 .. m - 1 /\ q + 1 \in Nat
    <3>1. (q + 1) * m = q * m + m /\ q * m \in Nat
      BY <1>1
    <3>2. QED BY <1>1, <1>3, <3>1
  <2>2. ((q + 1) * m + 0) \div m = q + 1 /\ ((q + 1) * m + 0) % m = 0
    BY <1>1, <2>1, DivMod, Zenon
  <2>3. QED BY <1>1, <1>3, <2>1, <2>2 DEF q, x
<1>4. QED BY <1>1, <1>2, <1>3

\* n and d of the blocks of device r.
LEMMA BlockSizes ==
  ASSUME NEW r \in Ranks
  PROVE  /\ NumInitial(r) \in 1 .. Half /\ NumInitial(r) \in Nat
         /\ Half - NumInitial(r) \in Nat
         /\ 2 * P = 4 * (NumInitial(r) + (Half - NumInitial(r)))
         /\ NumInitial(r) + (Half - NumInitial(r)) = Half
         /\ 2 * P \in Nat /\ 2 * P > 0 /\ Half \in Nat
BY HalfOfRank, HalfFacts

LEMMA DoneSteps ==
  ASSUME NEW r \in Ranks, NEW k \in Nat, NEW q \in 0 .. 3
  PROVE  /\ RoleOfPlace(r, k) \in 0 .. 3
         /\ RoleDone(r, q, k) \in Nat
         /\ RoleDone(r, q, 0) = 0
         /\ RoleDone(r, q, k + 1) = RoleDone(r, q, k) + (IF q = RoleOfPlace(r, k) THEN 1 ELSE 0)
<1> DEFINE n == NumInitial(r)
           d == Half - NumInitial(r)
           m == 2 * P
           b == k \div m
           x == k % m
           H == Half
<1>1. /\ n \in Nat /\ d \in Nat /\ m \in Nat /\ m > 0 /\ m = 4 * (n + d) /\ n + d = H /\ H \in Nat
  BY BlockSizes
<1>2. /\ b \in Nat /\ x \in 0 .. m - 1
      /\ \/ x + 1 < m /\ (k + 1) \div m = b /\ (k + 1) % m = x + 1
         \/ x + 1 = m /\ (k + 1) \div m = b + 1 /\ (k + 1) % m = 0
  BY <1>1, PlaceAfter
<1>3. /\ RoleDone(r, q, k) = b * H + RoleCount(q, n, d, x)
      /\ RoleDone(r, q, k + 1) = ((k + 1) \div m) * H + RoleCount(q, n, d, (k + 1) % m)
      /\ RoleOfPlace(r, k) = RoleAt(n, d, x)
  BY DEF RoleDone, RoleOfPlace
<1>a. RoleDone(r, q, 0) = (0 \div m) * H + RoleCount(q, n, d, 0 % m)
  BY DEF RoleDone
<1> HIDE DEF n, d, m, b, x, H
<1>5. /\ RoleAt(n, d, x) \in 0 .. 3
      /\ RoleCount(q, n, d, x) \in Nat
      /\ RoleCount(q, n, d, 0) = 0
      /\ RoleCount(q, n, d, 4 * (n + d)) = n + d
      /\ RoleCount(q, n, d, x + 1) =
           RoleCount(q, n, d, x) + (IF q = RoleAt(n, d, x) THEN 1 ELSE 0)
  <2>1. x \in 0 .. 4 * (n + d) - 1 /\ n \in Nat /\ d \in Nat
    BY <1>1, <1>2
  <2>2. QED BY <2>1, RoleSteps, ZenonT(60)
<1>4. RoleDone(r, q, 0) = RoleCount(q, n, d, 0)
  <2>1. 0 \div m = 0 /\ 0 % m = 0
    BY <1>1
  <2>2. 0 * H + 0 = 0
    BY <1>1
  <2>3. QED BY <1>a, <1>5, <2>1, <2>2, Zenon
<1>6. b * H \in Nat /\ (b + 1) * H = b * H + H
  BY <1>1, <1>2
<1>7. CASE x + 1 < m /\ (k + 1) \div m = b /\ (k + 1) % m = x + 1
  BY <1>3, <1>4, <1>5, <1>6, <1>7
<1>8. CASE x + 1 = m /\ (k + 1) \div m = b + 1 /\ (k + 1) % m = 0
  <2>1. RoleDone(r, q, k + 1) = (b + 1) * H + 0
    BY <1>3, <1>5, <1>8
  <2>2. RoleCount(q, n, d, x) + (IF q = RoleAt(n, d, x) THEN 1 ELSE 0) = H
    BY <1>1, <1>5, <1>8
  <2>3. RoleDone(r, q, k + 1) = b * H + H
    BY <1>1, <1>6, <2>1
  <2>4. QED BY <1>1, <1>3, <1>4, <1>5, <1>6, <2>2, <2>3
<1>9. QED BY <1>2, <1>7, <1>8

\* All 2N places: every role has as many of them as a pipeline has microbatches.
LEMMA DoneAtEnd ==
  ASSUME NEW r \in Ranks, NEW q \in 0 .. 3
  PROVE  RoleDone(r, q, 2 * N) = N \div 2 /\ N \div 2 = (NLoop + 1) * Half /\ N \div 2 \in Nat
<1>1. 2 * N = (NLoop + 1) * (2 * P) + 0 /\ NLoop + 1 \in Nat
  BY UnitFacts, HalfFacts
<1>2. (2 * N) \div (2 * P) = NLoop + 1 /\ (2 * N) % (2 * P) = 0
  <2>1. 2 * P \in Nat /\ 2 * P > 0 /\ 0 \in 0 .. 2 * P - 1
    BY BlockSizes
  <2>2. QED BY <1>1, <2>1, DivMod, Zenon
<1>4. RoleCount(q, NumInitial(r), Half - NumInitial(r), 0) = 0
  <2>1. 0 \in 0 .. 4 * (NumInitial(r) + (Half - NumInitial(r))) - 1
    BY BlockSizes
  <2>2. QED BY <2>1, BlockSizes, RoleSteps, Zenon
<1>5. RoleDone(r, q, 2 * N) = (NLoop + 1) * Half + 0
  BY <1>2, <1>4 DEF RoleDone
<1>6. (NLoop + 1) * Half \in Nat
  BY UnitFacts, HalfFacts
<1>7. N = 2 * ((NLoop + 1) * Half)
  BY UnitFacts, HalfFacts
<1>8. N \div 2 = (NLoop + 1) * Half
  BY <1>6, <1>7
<1>9. QED BY <1>5, <1>6, <1>8

LEMMA RolesOfChunks ==
  ASSUME NEW r \in Ranks, NEW c \in Chunks
  PROVE  ForwardRole(r, c) \in 0 .. 3 /\ BackwardRole(r, c) \in 0 .. 3
BY DEF ForwardRole, BackwardRole

\* Where place k below 2N is: in which block, and at which place of it.
LEMMA BlockOfPlace ==
  ASSUME NEW r \in Ranks, NEW k \in 0 .. 2 * N - 1
  PROVE  /\ k \in Nat
         /\ k \div (2 * P) \in 0 .. NLoop
         /\ k % (2 * P) \in 0 .. 2 * P - 1
<1> DEFINE q == k \div (2 * P)
<1>1. k \in Nat /\ 2 * P \in Nat /\ 2 * P > 0 /\ NLoop \in Nat /\ 2 * N = (NLoop + 1) * (2 * P)
  BY UnitFacts, HalfFacts
<1>2. q \in Nat /\ k % (2 * P) \in 0 .. 2 * P - 1 /\ k = q * (2 * P) + (k % (2 * P))
  BY <1>1, PlaceAfter
<1> HIDE DEF q
<1>3. q <= NLoop
  <2>1. ASSUME q >= NLoop + 1 PROVE FALSE
    <3>1. (q - (NLoop + 1)) * (2 * P) >= 0
      BY <1>1, <1>2, <2>1
    <3>2. (q - (NLoop + 1)) * (2 * P) = q * (2 * P) - (NLoop + 1) * (2 * P)
      BY <1>1, <1>2
    <3>3. k >= 2 * N
      BY <1>1, <1>2, <3>1, <3>2
    <3>4. QED BY <1>1, <3>3
  <2>2. QED BY <1>1, <1>2, <2>1
<1>4. QED BY <1>1, <1>2, <1>3 DEF q

\* The two blocks of a device of half h, by the chunks that play the roles.
LEMMA BlockPlaces ==
  ASSUME NEW h \in {0, 1}, NEW j \in Nat, NEW n \in Nat, NEW d \in Nat, NEW x \in 0 .. 4 * (n + d) - 1
  PROVE  /\ Block(h, 1 - h, 3 - h, 2 + h, j, n, d)[x + 1] =
              MicrobatchId01(Player(RoleAt(n, d, x), h, 1 - h, 3 - h, 2 + h),
                             j, RoleCount(RoleAt(n, d, x), n, d, x))
         /\ Block(2 + h, 3 - h, 1 - h, h, j, n, d)[x + 1] =
              MicrobatchId01(Player(RoleAt(n, d, x), 2 + h, 3 - h, 1 - h, h),
                             j, RoleCount(RoleAt(n, d, x), n, d, x))
<1>1. h \in Chunks /\ 1 - h \in Chunks /\ 3 - h \in Chunks /\ 2 + h \in Chunks
  BY DEF Chunks
<1>2. \A s, t, u, w \in Chunks :
        Block(s, t, u, w, j, n, d)[x + 1] =
          MicrobatchId01(Player(RoleAt(n, d, x), s, t, u, w), j, RoleCount(RoleAt(n, d, x), n, d, x))
  BY BlockPlace
<1>3. QED BY <1>1, <1>2

\* The chunk and the id at place k of the two orders.
LEMMA OrderRoles ==
  ASSUME NEW r \in Ranks, NEW k \in 0 .. 2 * N - 1
  PROVE  LET q == RoleOfPlace(r, k)
             j == k \div (2 * P)
             i == RoleCount(q, NumInitial(r), Half - NumInitial(r), k % (2 * P))
             c == CHOOSE x \in Chunks : ForwardRole(r, x) = q
             b == CHOOSE x \in Chunks : BackwardRole(r, x) = q
         IN  /\ q \in 0 .. 3 /\ j \in 0 .. NLoop /\ i \in 0 .. Half - 1
             /\ c \in Chunks /\ ForwardRole(r, c) = q
             /\ b \in Chunks /\ BackwardRole(r, b) = q
             /\ MicrobatchIdx[r][k] = MicrobatchId01(c, j, i)
             /\ BackwardIds[r][k] = MicrobatchId01(b, j, i)
<1> DEFINE n == NumInitial(r)
           d == Half - NumInitial(r)
           x == k % (2 * P)
           q == RoleOfPlace(r, k)
           j == k \div (2 * P)
           i == RoleCount(q, n, d, x)
           h == IHalf(r)
           c == CHOOSE y \in Chunks : ForwardRole(r, y) = q
           b == CHOOSE y \in Chunks : BackwardRole(r, y) = q
           f == IF q = 0 THEN h ELSE IF q = 1 THEN 1 - h ELSE IF q = 2 THEN 3 - h ELSE 2 + h
           g == IF q = 0 THEN 2 + h ELSE IF q = 1 THEN 3 - h ELSE IF q = 2 THEN 1 - h ELSE h
<1>1. n \in Nat /\ d \in Nat /\ 2 * P = 4 * (n + d) /\ n + d = Half
  BY BlockSizes
<1>2. j \in 0 .. NLoop /\ j \in Nat /\ x \in 0 .. 4 * (n + d) - 1
  BY <1>1, BlockOfPlace, UnitFacts
<1>3. q = RoleAt(n, d, x)
  BY DEF RoleOfPlace
<1>4. h \in {0, 1}
  BY HalfOfRank
<1>5. q \in 0 .. 3 /\ i \in Nat /\ i < n + d
  <2> HIDE DEF n, d, x
  <2>1. /\ RoleAt(n, d, x) \in 0 .. 3
        /\ \A z \in 0 .. 3 : RoleCount(z, n, d, x) \in Nat
        /\ RoleCount(RoleAt(n, d, x), n, d, x) < n + d
    BY <1>1, <1>2, RoleSteps
  <2>2. QED BY <1>3, <2>1
<1>6. h \in Chunks /\ 1 - h \in Chunks /\ 3 - h \in Chunks /\ 2 + h \in Chunks
  BY <1>4 DEF Chunks
<1>7. MicrobatchIdx[r][k] = ForwardBlock(r, j)[x + 1] /\ BackwardIds[r][k] = BackwardBlock(r, j)[x + 1]
  BY DEF MicrobatchIdx, BackwardIds
<1>8. ForwardBlock(r, j)[x + 1] = MicrobatchId01(f, j, i)
  <2>1. ForwardBlock(r, j) = Block(h, 1 - h, 3 - h, 2 + h, j, n, d)
    BY Zenon DEF ForwardBlock, Block
  <2>2. Player(RoleAt(n, d, x), h, 1 - h, 3 - h, 2 + h) = f
    BY <1>3, Zenon DEF Player
  <2>3. Block(h, 1 - h, 3 - h, 2 + h, j, n, d)[x + 1] =
          MicrobatchId01(Player(RoleAt(n, d, x), h, 1 - h, 3 - h, 2 + h), j, RoleCount(RoleAt(n, d, x), n, d, x))
    <3> HIDE DEF n, d, x, j, h
    <3>1. QED BY <1>1, <1>2, <1>4, BlockPlaces
  <2>4. QED BY <1>3, <2>1, <2>2, <2>3, Zenon
<1>9. BackwardBlock(r, j)[x + 1] = MicrobatchId01(g, j, i)
  <2>1. BackwardBlock(r, j) = Block(2 + h, 3 - h, 1 - h, h, j, n, d)
    BY Zenon DEF BackwardBlock, Block
  <2>2. Player(RoleAt(n, d, x), 2 + h, 3 - h, 1 - h, h) = g
    BY <1>3, Zenon DEF Player
  <2>3. Block(2 + h, 3 - h, 1 - h, h, j, n, d)[x + 1] =
          MicrobatchId01(Player(RoleAt(n, d, x), 2 + h, 3 - h, 1 - h, h), j, RoleCount(RoleAt(n, d, x), n, d, x))
    <3> HIDE DEF n, d, x, j, h
    <3>1. QED BY <1>1, <1>2, <1>4, BlockPlaces
  <2>4. QED BY <1>3, <2>1, <2>2, <2>3, Zenon
<1>10. \A y \in Chunks : (ForwardRole(r, y) = q <=> y = f) /\ (BackwardRole(r, y) = q <=> y = g)
  BY <1>4, <1>5 DEF ForwardRole, BackwardRole, Chunks
<1>11. f \in Chunks /\ g \in Chunks
  BY <1>6, <1>5
<1> HIDE DEF f, g, i, j, q
<1>12. c = f /\ b = g
  BY <1>10, <1>11
<1>13. i \in 0 .. Half - 1
  BY <1>1, <1>5
<1>14. QED BY <1>2, <1>5, <1>7, <1>8, <1>9, <1>10, <1>11, <1>12, <1>13, Zenon DEF i, j, q, n, d, x

\* The forward pass at place k is of the chunk that plays the place's role there.
LEMMA ForwardChunkRole ==
  ASSUME NEW r \in Ranks, NEW k \in 0 .. 2 * N - 1
  PROVE  /\ ForwardChunk(r, k) \in Chunks
         /\ ForwardRole(r, ForwardChunk(r, k)) = RoleOfPlace(r, k)
<1> DEFINE q == RoleOfPlace(r, k)
           c == CHOOSE x \in Chunks : ForwardRole(r, x) = q
           i == RoleCount(q, NumInitial(r), Half - NumInitial(r), k % (2 * P))
<1>1. /\ k \div (2 * P) \in 0 .. NLoop /\ i \in 0 .. Half - 1
      /\ c \in Chunks /\ ForwardRole(r, c) = q
      /\ MicrobatchIdx[r][k] = MicrobatchId01(c, k \div (2 * P), i)
  BY OrderRoles
<1> HIDE DEF c, i
<1>2. GetModelChunkId(MicrobatchIdx[r][k]) = c
  BY <1>1, ChunkOfMicrobatchId
<1>3. QED BY <1>1, <1>2 DEF ForwardChunk

\* Two chunks of a device have different roles.
LEMMA RolesDiffer ==
  ASSUME NEW r \in Ranks, NEW c \in Chunks, NEW d \in Chunks
  PROVE  /\ ForwardRole(r, c) = ForwardRole(r, d) <=> c = d
         /\ BackwardRole(r, c) = BackwardRole(r, d) <=> c = d
BY HalfOfRank DEF ForwardRole, BackwardRole, Chunks

\* Every forward pass of the order is the next one of its chunk, and every chunk
\* gets as many as a pipeline has microbatches.
THEOREM ForwardOrder ==
  ASSUME NEW r \in Ranks, NEW c \in Chunks
  PROVE  /\ ForwardDone(r, c, 0) = 0
         /\ ForwardDone(r, c, 2 * N) = N \div 2
         /\ \A k \in 0 .. 2 * N - 1 :
              /\ ForwardDone(r, c, k) \in Nat
              /\ ForwardDone(r, c, k + 1) =
                   ForwardDone(r, c, k) + (IF c = ForwardChunk(r, k) THEN 1 ELSE 0)
<1>1. ForwardRole(r, c) \in 0 .. 3
  BY RolesOfChunks
<1>2. ForwardDone(r, c, 0) = 0 /\ ForwardDone(r, c, 2 * N) = N \div 2
  BY <1>1, DoneSteps, DoneAtEnd, 0 \in Nat DEF ForwardDone
<1>3. ASSUME NEW k \in 0 .. 2 * N - 1
      PROVE  /\ ForwardDone(r, c, k) \in Nat
             /\ ForwardDone(r, c, k + 1) =
                  ForwardDone(r, c, k) + (IF c = ForwardChunk(r, k) THEN 1 ELSE 0)
  <2>1. ForwardChunk(r, k) \in Chunks /\ ForwardRole(r, ForwardChunk(r, k)) = RoleOfPlace(r, k)
    BY ForwardChunkRole
  <2>2. c = ForwardChunk(r, k) <=> ForwardRole(r, c) = RoleOfPlace(r, k)
    BY <2>1, RolesDiffer
  <2>3. k \in Nat
    OBVIOUS
  <2>4. QED BY <1>1, <2>2, <2>3, DoneSteps DEF ForwardDone
<1>4. QED BY <1>2, <1>3

\* A place of the backward order that is not a marker is a place of BackwardIds.
LEMMA BackwardPlace ==
  ASSUME NEW r \in Ranks, NEW k \in 0 .. 2 * N + 1
  PROVE  IF k \in {FirstMarker(r), 2 * N + 1}
         THEN BackwardPasses(r, k + 1) = BackwardPasses(r, k) /\ BackwardPasses(r, k) \in 0 .. 2 * N
         ELSE /\ BackwardPasses(r, k) \in 0 .. 2 * N - 1
              /\ BackwardPasses(r, k + 1) = BackwardPasses(r, k) + 1
              /\ BkMicrobatchIdx[r][k] = BackwardIds[r][BackwardPasses(r, k)]
<1>1. N \in Nat /\ N >= 1 /\ k \in Nat
  BY UnitFacts, HalfFacts
<1>2. CASE IsMiddle(r)
  BY <1>1, <1>2 DEF BackwardPasses, BkMicrobatchIdx, FirstMarker
<1>3. CASE ~IsMiddle(r)
  BY <1>1, <1>3 DEF BackwardPasses, BkMicrobatchIdx, FirstMarker
<1>4. QED BY <1>2, <1>3

\* What is at a place of the backward order that is not a marker.
LEMMA BackwardChunkRole ==
  ASSUME NEW r \in Ranks, NEW k \in 0 .. 2 * N + 1, k \notin {FirstMarker(r), 2 * N + 1}
  PROVE  LET c == BackwardChunk(r, k)
             p == BackwardPasses(r, k)
         IN  /\ c \in Chunks
             /\ BackwardRole(r, c) = RoleOfPlace(r, p)
             /\ p \div (2 * P) \in 0 .. NLoop
             /\ RoleCount(BackwardRole(r, c), NumInitial(r), Half - NumInitial(r), p % (2 * P))
                  \in 0 .. Half - 1
             /\ BkMicrobatchIdx[r][k] =
                  MicrobatchId01(c, p \div (2 * P),
                                 RoleCount(BackwardRole(r, c), NumInitial(r),
                                           Half - NumInitial(r), p % (2 * P)))
<1> DEFINE p == BackwardPasses(r, k)
           q == RoleOfPlace(r, p)
           b == CHOOSE x \in Chunks : BackwardRole(r, x) = q
           i == RoleCount(q, NumInitial(r), Half - NumInitial(r), p % (2 * P))
<1>1. p \in 0 .. 2 * N - 1 /\ BkMicrobatchIdx[r][k] = BackwardIds[r][p]
  BY BackwardPlace
<1> HIDE DEF p
<1>2. /\ p \div (2 * P) \in 0 .. NLoop /\ i \in 0 .. Half - 1
      /\ b \in Chunks /\ BackwardRole(r, b) = q
      /\ BackwardIds[r][p] = MicrobatchId01(b, p \div (2 * P), i)
  BY <1>1, OrderRoles
<1> HIDE DEF b, i
<1>3. GetModelChunkId(BkMicrobatchIdx[r][k]) = b
  BY <1>1, <1>2, ChunkOfMicrobatchId
<1>4. BackwardChunk(r, k) = b
  BY <1>3 DEF BackwardChunk
<1>5. QED BY <1>1, <1>2, <1>4, Zenon DEF p, i

\* Every backward pass of the order is the next one of its chunk, and every chunk
\* gets as many as a pipeline has microbatches.
THEOREM BackwardOrder ==
  ASSUME NEW r \in Ranks, NEW c \in Chunks
  PROVE  /\ BackwardDone(r, c, 0) = 0
         /\ BackwardDone(r, c, 2 * N + 1) = N \div 2
         /\ BackwardDone(r, c, 2 * N + 2) = N \div 2
         /\ \A k \in 0 .. 2 * N + 1 :
              /\ BackwardDone(r, c, k) \in Nat
              /\ BackwardDone(r, c, k + 1) =
                   BackwardDone(r, c, k) + (IF c = BackwardChunk(r, k) THEN 1 ELSE 0)
<1>1. BackwardRole(r, c) \in 0 .. 3
  BY RolesOfChunks
<1>2. BackwardPasses(r, 0) = 0 /\ BackwardPasses(r, 2 * N + 1) = 2 * N
      /\ BackwardPasses(r, 2 * N + 2) = 2 * N
  BY UnitFacts, HalfFacts DEF BackwardPasses, FirstMarker
<1>3. ASSUME NEW k \in 0 .. 2 * N + 1
      PROVE  /\ BackwardDone(r, c, k) \in Nat
             /\ BackwardDone(r, c, k + 1) =
                  BackwardDone(r, c, k) + (IF c = BackwardChunk(r, k) THEN 1 ELSE 0)
  <2> DEFINE p == BackwardPasses(r, k)
  <2>1. BackwardDone(r, c, k) = RoleDone(r, BackwardRole(r, c), p)
    BY DEF BackwardDone
  <2>2. BackwardDone(r, c, k + 1) = RoleDone(r, BackwardRole(r, c), BackwardPasses(r, k + 1))
    BY DEF BackwardDone
  <2> HIDE DEF p
  <2>3. CASE k \in {FirstMarker(r), 2 * N + 1}
    <3>1. BackwardChunk(r, k) = Sync
      BY <2>3, MarkerPlaces
    <3>2. c # BackwardChunk(r, k)
      BY <3>1 DEF Sync, Chunks
    <3>3. BackwardPasses(r, k + 1) = p /\ p \in Nat
      BY <2>3, BackwardPlace, UnitFacts DEF p
    <3>4. BackwardDone(r, c, k) \in Nat
      BY <1>1, <2>1, <3>3, DoneSteps
    <3>5. QED BY <2>1, <2>2, <3>2, <3>3, <3>4
  <2>4. CASE k \notin {FirstMarker(r), 2 * N + 1}
    <3>1. BackwardChunk(r, k) \in Chunks /\ BackwardRole(r, BackwardChunk(r, k)) = RoleOfPlace(r, p)
      BY <2>4, BackwardChunkRole DEF p
    <3>2. c = BackwardChunk(r, k) <=> BackwardRole(r, c) = RoleOfPlace(r, p)
      BY <3>1, RolesDiffer
    <3>3. BackwardPasses(r, k + 1) = p + 1 /\ p \in Nat
      BY <2>4, BackwardPlace, UnitFacts DEF p
    <3>4. /\ RoleDone(r, BackwardRole(r, c), p) \in Nat
          /\ RoleDone(r, BackwardRole(r, c), p + 1) = RoleDone(r, BackwardRole(r, c), p)
               + (IF BackwardRole(r, c) = RoleOfPlace(r, p) THEN 1 ELSE 0)
      BY <1>1, <3>3, DoneSteps
    <3>5. QED BY <2>1, <2>2, <3>2, <3>3, <3>4
  <2>5. QED BY <2>3, <2>4
<1>4. QED BY <1>1, <1>2, <1>3, DoneSteps, DoneAtEnd, 0 \in Nat DEF BackwardDone

\* is_last_microbatch_for_model_chunk: after the pass of such an id, the chunk has
\* had all of its backward passes.
THEOREM LastIsLast ==
  ASSUME NEW r \in Ranks, NEW k \in 0 .. 2 * N + 1,
         IsLastMicrobatchForModelChunk(BkMicrobatchIdx[r][k])
  PROVE  /\ BackwardChunk(r, k) \in Chunks
         /\ BackwardDone(r, BackwardChunk(r, k), k) + 1 = N \div 2
<1> DEFINE p == BackwardPasses(r, k)
           c == BackwardChunk(r, k)
           j == p \div (2 * P)
           i == RoleCount(BackwardRole(r, c), NumInitial(r), Half - NumInitial(r), p % (2 * P))
<1>1. PICK b \in {0, 1} : BkMicrobatchIdx[r][k] = MicrobatchId01(b, N \div P - 1, Half - 1)
  BY DEF IsLastMicrobatchForModelChunk
<1>2. /\ NLoop = N \div P - 1 /\ NLoop \in Nat /\ NLoop \in 0 .. NLoop /\ P \in Nat /\ Half \in Nat
      /\ Half - 1 \in 0 .. Half - 1 /\ b \in Chunks
  BY UnitFacts, HalfFacts DEF NLoop, Chunks
<1>3. c = b
  BY <1>1, <1>2, ChunkOfMicrobatchId DEF BackwardChunk
<1>4. k \notin {FirstMarker(r), 2 * N + 1}
  BY <1>3, MarkerPlaces DEF Sync
<1>5. /\ c \in Chunks /\ j \in 0 .. NLoop /\ i \in 0 .. Half - 1
      /\ BkMicrobatchIdx[r][k] = MicrobatchId01(c, j, i)
      /\ BackwardDone(r, c, k) = j * Half + i
  BY <1>4, BackwardChunkRole DEF BackwardDone, RoleDone
<1> HIDE DEF c, i, j
<1>6. j = NLoop /\ i = Half - 1
  <2>1. j * P \in Nat /\ NLoop * P \in Nat /\ (b % 2) * Half \in Nat /\ (b \div 2) * N \in Nat
    <3>1. b % 2 \in Nat /\ b \div 2 \in Nat
      BY <1>1
    <3>2. QED BY <1>2, <1>5, <3>1, UnitFacts
  <2>2. MicrobatchId01(b, j, i) = (b \div 2) * N + j * P + (b % 2) * Half + i
        /\ MicrobatchId01(b, NLoop, Half - 1) = (b \div 2) * N + NLoop * P + (b % 2) * Half + (Half - 1)
    BY DEF MicrobatchId01
  <2>3. j * P + i = NLoop * P + (Half - 1)
    BY <1>1, <1>2, <1>3, <1>5, <2>1, <2>2
  <2>4. i \in 0 .. P - 1 /\ Half - 1 \in 0 .. P - 1 /\ P > 0
    BY <1>5, HalfFacts
  <2>5. (j * P + i) \div P = j /\ (j * P + i) % P = i
    BY <1>2, <1>5, <2>4, DivMod, j \in Nat
  <2>6. (NLoop * P + (Half - 1)) \div P = NLoop /\ (NLoop * P + (Half - 1)) % P = Half - 1
    BY <1>2, <2>4, DivMod
  <2>7. QED BY <2>3, <2>5, <2>6
<1>7. BackwardDone(r, c, k) + 1 = NLoop * Half + Half
  BY <1>2, <1>5, <1>6
<1>8. N \div 2 = (NLoop + 1) * Half
  BY DoneAtEnd, 0 \in 0 .. 3
<1>9. (NLoop + 1) * Half = NLoop * Half + Half
  BY <1>2
<1>10. QED BY <1>5, <1>7, <1>8, <1>9 DEF c

\* The two devices in the middle have done every backward pass at their first marker;
\* the others have one left, of the chunk they began the forward passes with.
THEOREM LastBackwardPass ==
  ASSUME NEW r \in Ranks, ~IsMiddle(r)
  PROVE  BackwardChunk(r, 2 * N) = IHalf(r)
<1>1. 2 * N \in 0 .. 2 * N + 1 /\ 2 * N \notin {FirstMarker(r), 2 * N + 1}
      /\ BackwardPasses(r, 2 * N) = 2 * N - 1
  BY UnitFacts, HalfFacts DEF FirstMarker, BackwardPasses
<1>2. /\ BackwardChunk(r, 2 * N) \in Chunks
      /\ BackwardRole(r, BackwardChunk(r, 2 * N)) = RoleOfPlace(r, 2 * N - 1)
  BY <1>1, BackwardChunkRole
<1>3. (2 * N - 1) % (2 * P) = 2 * P - 1
  <2>1. 2 * N - 1 = NLoop * (2 * P) + (2 * P - 1)
    BY UnitFacts, HalfFacts
  <2>2. 2 * P - 1 \in 0 .. 2 * P - 1 /\ 2 * P \in Nat /\ 2 * P > 0 /\ NLoop \in Nat
    BY HalfFacts, UnitFacts
  <2>3. (NLoop * (2 * P) + (2 * P - 1)) % (2 * P) = 2 * P - 1
    BY <2>2, DivMod
  <2>4. QED BY <2>1, <2>3
<1>4. RoleOfPlace(r, 2 * N - 1) = 3
  BY <1>3, BlockSizes DEF RoleOfPlace, RoleAt
<1>5. QED BY <1>2, <1>4, HalfOfRank DEF BackwardRole, Chunks

----------------------------------------------------------------------------
\* The next and the previous device are mutual, in both directions of travel.
THEOREM RingInverse ==
  ASSUME NEW r \in Ranks, NEW v \in Chunks
  PROVE  /\ NextRank(r, v) \in Ranks /\ PrevRank(r, v) \in Ranks
         /\ PrevRank(NextRank(r, v), v) = r
         /\ NextRank(PrevRank(r, v), v) = r
<1>1. \A x \in -1 .. P : x % P = IF x = -1 THEN P - 1 ELSE IF x = P THEN 0 ELSE x
  BY PAssumption
<1>2. QED BY <1>1, PAssumption DEF NextRank, PrevRank, Ranks

\* Sending an activation to "next" moves it one stage down the path of its
\* pipeline: to the next device's same chunk, or, where the path turns, to the
\* other chunk of the pipeline on this device.
THEOREM NextStage ==
  ASSUME NEW r \in Ranks, NEW c \in Chunks
  PROVE  \/ StageOf(NextRank(r, c), c) = StageOf(r, c) + 1
         \/ IsLastStage(r, c)
         \/ c < 2 /\ StageOf(r, c + 2) = StageOf(r, c) + 1
<1>1. \A x \in -1 .. P : x % P = IF x = -1 THEN P - 1 ELSE IF x = P THEN 0 ELSE x
  BY PAssumption
<1>2. CASE c = 0
  BY <1>1, <1>2, PAssumption DEF NextRank, Ranks, StageOf
<1>3. CASE c = 1
  BY <1>1, <1>3, PAssumption DEF NextRank, Ranks, StageOf
<1>4. CASE c = 2
  BY <1>1, <1>4, PAssumption DEF NextRank, Ranks, StageOf, IsLastStage
<1>5. CASE c = 3
  BY <1>1, <1>5, PAssumption DEF NextRank, Ranks, StageOf, IsLastStage
<1>6. QED BY <1>2, <1>3, <1>4, <1>5 DEF Chunks

\* The members of a bidirectional group hold replicas of the same stages: chunk
\* 0 of one is chunk 1 of the other, and chunk 2 is chunk 3.
THEOREM PartnerReplicas ==
  ASSUME NEW r \in Ranks, NEW c \in Chunks
  PROVE  /\ BdPartner(r) \in Ranks /\ BdPartner(r) # r
         /\ BdPartner(BdPartner(r)) = r
         /\ \A d \in Chunks :
               StageOf(BdPartner(r), d) = StageOf(r, c) /\ Pipe(d) # Pipe(c)
                 <=> d = IF c % 2 = 0 THEN c + 1 ELSE c - 1
<1>1. BdPartner(r) \in Ranks /\ BdPartner(r) # r /\ BdPartner(BdPartner(r)) = r
  BY HalfFacts DEF BdPartner, Ranks
<1>2. ASSUME NEW d \in Chunks
      PROVE  StageOf(BdPartner(r), d) = StageOf(r, c) /\ Pipe(d) # Pipe(c)
               <=> d = IF c % 2 = 0 THEN c + 1 ELSE c - 1
  <2>1. r \in Int /\ 0 <= r /\ r < P /\ BdPartner(r) = P - 1 - r
    BY HalfFacts DEF Ranks, BdPartner
  <2>2. CASE c = 0
    BY <2>1, <2>2, HalfFacts DEF Chunks, StageOf, Pipe
  <2>3. CASE c = 1
    BY <2>1, <2>3, HalfFacts DEF Chunks, StageOf, Pipe
  <2>4. CASE c = 2
    BY <2>1, <2>4, HalfFacts DEF Chunks, StageOf, Pipe
  <2>5. CASE c = 3
    BY <2>1, <2>5, HalfFacts DEF Chunks, StageOf, Pipe
  <2>6. QED BY <2>2, <2>3, <2>4, <2>5 DEF Chunks
<1>3. QED BY <1>1, <1>2

\* The permutation of the group order is its own inverse: a process finds its
\* pipeline rank from its place in the group.
THEOREM PermutationInverse ==
  ASSUME NEW k \in Ranks
  PROVE  PipelineGlobalRank(k) \in Ranks /\ PipelineRank(PipelineGlobalRank(k)) = k
<1>1. CASE k % 2 = 0
  BY <1>1 DEF PipelineGlobalRank, PipelineRank
<1>2. CASE k % 2 # 0
  <2>1. (P - k) % 2 = 1 /\ P - k \in Ranks
    BY <1>2, HalfFacts DEF Ranks
  <2>2. QED BY <1>2, <2>1, HalfFacts DEF PipelineGlobalRank, PipelineRank, Ranks
<1>3. QED BY <1>1, <1>2 DEF PipelineGlobalRank
=============================================================================
