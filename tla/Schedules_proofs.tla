-------------------------- MODULE Schedules_proofs --------------------------
(***************************************************************************)
(* Proofs about Schedules, for every accepted configuration of all three   *)
(* schedules: what a device has done, keeps and has reduced is what its    *)
(* place in its program says, whatever the tensors it works on and         *)
(* however fast the other devices are.                                     *)
(***************************************************************************)
EXTENDS Schedules, FiniteSetTheorems, TLAPS

(***************************************************************************)
(* Arithmetic.  The passes of a device go through its v chunks in groups   *)
(* of p microbatches: pass n is in the group n \div (p * v), and there in  *)
(* the chunk (n % (p * v)) \div p.                                         *)
(***************************************************************************)
\* A product of positive numbers is positive.
LEMMA ProductPositive ==
  ASSUME NEW a \in Nat \ {0}, NEW b \in Nat \ {0}
  PROVE  a * b \in Nat \ {0}
OBVIOUS

\* A product of naturals is a natural.
LEMMA ProductNat ==
  ASSUME NEW a \in Nat, NEW b \in Nat
  PROVE  a * b \in Nat
OBVIOUS

\* Products are monotone.
LEMMA ProductMonotone ==
  ASSUME NEW a \in Nat, NEW b \in Nat, NEW p \in Nat, a <= b
  PROVE  a * p <= b * p
OBVIOUS

\* A product with the next number.
LEMMA ProductNext ==
  ASSUME NEW a \in Int, NEW p \in Nat
  PROVE  (a + 1) * p = a * p + p /\ (a - 1) * p = a * p - p
OBVIOUS

\* Quotient and remainder,
LEMMA DivMod ==
  ASSUME NEW n \in Nat, NEW g \in Nat \ {0}
  PROVE  /\ n \div g \in Nat /\ n % g \in 0 .. g - 1
         /\ n = (n \div g) * g + (n % g)
OBVIOUS

\* which are determined by that.
LEMMA DivModUnique ==
  ASSUME NEW n \in Nat, NEW g \in Nat \ {0}, NEW a \in Nat, NEW m \in 0 .. g - 1,
         n = a * g + m
  PROVE  n \div g = a /\ n % g = m
<1> DEFINE q == n \div g
           s == n % g
<1>1. q \in Nat /\ s \in 0 .. g - 1 /\ n = q * g + s
  BY DivMod
<1> HIDE DEF q, s
<1>2. CASE q < a
  <2>1. (q + 1) * g <= a * g /\ (q + 1) * g = q * g + g
    BY <1>1, <1>2, ProductMonotone, ProductNext
  <2>2. q * g \in Nat /\ a * g \in Nat
    BY <1>1, ProductNat
  <2>3. QED BY <1>1, <2>1, <2>2
<1>3. CASE a < q
  <2>1. (a + 1) * g <= q * g /\ (a + 1) * g = a * g + g
    BY <1>1, <1>3, ProductMonotone, ProductNext
  <2>2. q * g \in Nat /\ a * g \in Nat
    BY <1>1, ProductNat
  <2>3. QED BY <1>1, <2>1, <2>2
<1>4. CASE q = a
  BY <1>1, <1>4, ProductNat DEF q, s
<1>5. QED BY <1>1, <1>2, <1>3, <1>4

\* The chunk of pass n, counted from the first.
InChunk(n, p, v) == (n % (p * v)) \div p

Clamp(x, p) == IF x <= 0 THEN 0 ELSE IF x >= p THEN p ELSE x

\* How many of the first n passes are of chunk c.
Passes(n, c, p, v) == (n \div (p * v)) * p + Clamp((n % (p * v)) - c * p, p)

\* n is microbatch s of chunk q in group a.
Placed(n, a, q, s, p, v) ==
  /\ n = a * (p * v) + (q * p + s)
  /\ q * p + s \in 0 .. p * v - 1
  /\ n \div (p * v) = a /\ n % (p * v) = q * p + s
  /\ InChunk(n, p, v) = q
  /\ n % p = s

\* Every pass has a place,
LEMMA PassPlace ==
  ASSUME NEW n \in Nat, NEW p \in Nat \ {0}, NEW v \in Nat \ {0}
  PROVE  \E a \in Nat, q \in 0 .. v - 1, s \in 0 .. p - 1 : Placed(n, a, q, s, p, v)
<1> DEFINE g == p * v
           m == n % g
           a == n \div g
           q == m \div p
           s == m % p
<1>1. g \in Nat \ {0}
  BY ProductPositive
<1> HIDE DEF g
<1>2. a \in Nat /\ m \in 0 .. g - 1 /\ n = a * g + m
  BY <1>1, DivMod
<1>2a. n \div g = a /\ n % g = m
  OBVIOUS
<1> HIDE DEF m, a
<1>3. q \in Nat /\ s \in 0 .. p - 1 /\ m = q * p + s
  <2>1. m \in Nat
    BY <1>1, <1>2
  <2>2. QED BY <2>1, DivMod
<1>3a. m \div p = q
  OBVIOUS
<1> HIDE DEF q, s
<1>4. q <= v - 1
  <2>1. SUFFICES ASSUME v <= q PROVE FALSE
    BY <1>3
  <2>2. v * p <= q * p /\ v * p = g
    BY <1>3, <2>1, ProductMonotone DEF g
  <2>3. q * p \in Nat
    BY <1>3, ProductNat
  <2>4. QED BY <1>1, <1>2, <1>3, <2>2, <2>3
<1>5. n % p = s
  <2>1. a * g = (a * v) * p
    BY <1>2 DEF g
  <2>2. (a * v) * p + q * p = (a * v + q) * p /\ a * v \in Nat
    BY <1>2, <1>3
  <2>3. a * v + q \in Nat /\ n = (a * v + q) * p + s
    <3>1. (a * v) * p \in Nat /\ q * p \in Nat
      BY <1>3, <2>2, ProductNat
    <3>2. QED BY <1>2, <1>3, <2>1, <2>2, <3>1
  <2> DEFINE b == a * v + q
  <2> HIDE DEF b
  <2>4. b \in Nat /\ n = b * p + s
    BY <2>3 DEF b
  <2>5. QED BY <1>3, <2>4, DivModUnique
<1>6. InChunk(n, p, v) = q
  BY <1>2a, <1>3a DEF InChunk, g
<1>7. Placed(n, a, q, s, p, v)
  BY <1>2, <1>2a, <1>3, <1>5, <1>6 DEF Placed, g
<1>8. q \in 0 .. v - 1
  BY <1>3, <1>4
<1>9. QED BY <1>2, <1>3, <1>7, <1>8

\* and the place determines the pass.
Sums(n, a, q, s, p, v) == n = a * (p * v) + (q * p + s)

LEMMA PlaceOfSum ==
  ASSUME NEW n \in Nat, NEW p \in Nat \ {0}, NEW v \in Nat \ {0},
         NEW a \in Nat, NEW q \in 0 .. v - 1, NEW s \in 0 .. p - 1, Sums(n, a, q, s, p, v)
  PROVE  Placed(n, a, q, s, p, v)
<1> DEFINE g == p * v
           m == q * p + s
<1>1. g \in Nat \ {0} /\ q * p \in Nat
  BY ProductPositive, ProductNat
<1>2. m \in 0 .. g - 1
  <2>1. (q + 1) * p <= v * p /\ (q + 1) * p = q * p + p /\ v * p = g
    BY ProductMonotone, ProductNext
  <2>2. QED BY <1>1, <2>1
<1>3. n = a * g + m
  BY DEF Sums
<1>4. m \in Nat /\ m = q * p + s
  BY <1>1
<1>5. n \div g = a /\ n % g = m
  <2> HIDE DEF g, m
  <2>1. QED BY <1>1, <1>2, <1>3, DivModUnique
<1>6. m \div p = q
  <2>1. q \in Nat
    OBVIOUS
  <2> HIDE DEF m
  <2>2. QED BY <1>4, <2>1, DivModUnique
<1>7. n % p = s
  <2>1. a * g = (a * v) * p /\ (a * v) * p + q * p = (a * v + q) * p /\ a * v \in Nat
    OBVIOUS
  <2> DEFINE b == a * v + q
  <2>2. b \in Nat /\ n = b * p + s
    <3>1. (a * v) * p \in Nat
      BY <2>1, ProductNat
    <3>2. QED BY <1>1, <1>3, <1>4, <2>1, <3>1
  <2> HIDE DEF b
  <2>3. QED BY <2>2, DivModUnique
<1>8. InChunk(n, p, v) = q
  BY <1>5, <1>6 DEF InChunk
<1>9. QED BY <1>2, <1>3, <1>5, <1>7, <1>8 DEF Placed

\* Where an earlier chunk of the group ends, a later one has not begun.
LEMMA ChunkOrder ==
  ASSUME NEW q \in Nat, NEW c \in Nat, NEW p \in Nat \ {0}, NEW s \in 0 .. p - 1
  PROVE  /\ q < c => q * p + s + 1 - c * p <= 0
         /\ q = c => q * p + s - c * p = s
         /\ q > c => q * p + s - c * p >= p
         /\ q * p \in Nat /\ c * p \in Nat
<1>1. q * p \in Nat /\ c * p \in Nat
  BY ProductNat
<1>2. ASSUME q < c PROVE q * p + s + 1 - c * p <= 0
  <2>1. (q + 1) * p <= c * p /\ (q + 1) * p = q * p + p
    BY <1>2, ProductMonotone, ProductNext
  <2>2. QED BY <1>1, <2>1
<1>3. ASSUME q > c PROVE q * p + s - c * p >= p
  <2>1. (c + 1) * p <= q * p /\ (c + 1) * p = c * p + p
    BY <1>3, ProductMonotone, ProductNext
  <2>2. QED BY <1>1, <2>1
<1>4. QED BY <1>1, <1>2, <1>3

\* How many passes of chunk c are before pass n, by the place of n.
LEMMA PassesAt ==
  ASSUME NEW n \in Nat, NEW p \in Nat \ {0}, NEW v \in Nat \ {0}, NEW c \in 0 .. v - 1,
         NEW a \in Nat, NEW q \in 0 .. v - 1, NEW s \in 0 .. p - 1, Placed(n, a, q, s, p, v)
  PROVE  /\ q < c => Passes(n, c, p, v) = a * p
         /\ q = c => Passes(n, c, p, v) = a * p + s
         /\ q > c => Passes(n, c, p, v) = a * p + p
         /\ a * p \in Nat
<1> DEFINE x == q * p + s - c * p
<1>0. n \div (p * v) = a /\ (n % (p * v)) - c * p = x
  BY DEF Placed
<1>1. Passes(n, c, p, v) = a * p + Clamp(x, p)
  BY <1>0, Zenon DEF Passes
<1>2. q \in Nat /\ c \in Nat /\ a * p \in Nat
  BY ProductNat
<1>3. /\ q < c => x <= -1
      /\ q = c => x = s
      /\ q > c => x >= p
      /\ x \in Int
  BY <1>2, ChunkOrder
<1> HIDE DEF x
<1>4. /\ q < c => Clamp(x, p) = 0
      /\ q = c => Clamp(x, p) = s
      /\ q > c => Clamp(x, p) = p
  BY <1>3 DEF Clamp
<1>5. QED BY <1>1, <1>2, <1>4

\* The next pass adds one to its own chunk.
LEMMA PassesNext ==
  ASSUME NEW n \in Nat, NEW p \in Nat \ {0}, NEW v \in Nat \ {0}, NEW c \in 0 .. v - 1
  PROVE  /\ Passes(n, c, p, v) \in Nat
         /\ InChunk(n, p, v) \in 0 .. v - 1
         /\ InChunk(n, p, v) = c => Passes(n + 1, c, p, v) = Passes(n, c, p, v) + 1
         /\ InChunk(n, p, v) # c => Passes(n + 1, c, p, v) = Passes(n, c, p, v)
<1>1. PICK a \in Nat, q \in 0 .. v - 1, s \in 0 .. p - 1 : Placed(n, a, q, s, p, v)
  BY PassPlace
<1> DEFINE g == p * v
<1>2. /\ g \in Nat \ {0} /\ n = a * g + (q * p + s) /\ a * g \in Nat /\ q * p \in Nat
      /\ InChunk(n, p, v) = q
  BY <1>1, ProductPositive, ProductNat DEF Placed
<1>3. /\ q < c => Passes(n, c, p, v) = a * p
      /\ q = c => Passes(n, c, p, v) = a * p + s
      /\ q > c => Passes(n, c, p, v) = a * p + p
      /\ a * p \in Nat
  BY <1>1, PassesAt
<1> DEFINE N == n + 1
<1>3a. N \in Nat /\ N = n + 1
  OBVIOUS
<1> HIDE DEF N
<1>4. CASE s + 1 < p
  <2> DEFINE t == s + 1
  <2>1. t = s + 1
    OBVIOUS
  <2>1a. t \in 0 .. p - 1
    BY <1>4
  <2> HIDE DEF t
  <2>2. Sums(N, a, q, t, p, v)
    BY <1>2, <1>3a, <2>1 DEF Sums
  <2>3. Placed(N, a, q, t, p, v)
    BY <1>3a, <2>1a, <2>2, PlaceOfSum
  <2>4. /\ q < c => Passes(N, c, p, v) = a * p
        /\ q = c => Passes(N, c, p, v) = a * p + t
        /\ q > c => Passes(N, c, p, v) = a * p + p
    BY <1>3a, <2>1a, <2>3, PassesAt
  <2>5. QED BY <1>2, <1>3, <1>3a, <2>1, <2>4
<1>5. CASE s + 1 = p /\ q < v - 1
  <2> DEFINE t == q + 1
  <2>1. t \in 0 .. v - 1 /\ t = q + 1 /\ 0 \in 0 .. p - 1 /\ t * p = q * p + p
    BY <1>5, ProductNext
  <2> HIDE DEF t
  <2>2. Sums(N, a, t, 0, p, v)
    BY <1>2, <1>3a, <1>5, <2>1 DEF Sums
  <2>3. Placed(N, a, t, 0, p, v)
    BY <1>3a, <2>1, <2>2, PlaceOfSum
  <2>4. /\ t < c => Passes(N, c, p, v) = a * p
        /\ t = c => Passes(N, c, p, v) = a * p + 0
        /\ t > c => Passes(N, c, p, v) = a * p + p
    BY <1>3a, <2>1, <2>3, PassesAt
  <2>5. QED BY <1>2, <1>3, <1>3a, <1>5, <2>1, <2>4
<1>6. CASE s + 1 = p /\ q = v - 1
  <2> DEFINE b == a + 1
  <2>1. b \in Nat /\ b * p = a * p + p /\ b * g = a * g + g /\ 0 * p + 0 = 0
        /\ 0 \in 0 .. v - 1 /\ 0 \in 0 .. p - 1
    BY <1>2, ProductNext
  <2> HIDE DEF b
  <2>2. Sums(N, b, 0, 0, p, v)
    <3>1. (q + 1) * p = q * p + p /\ q + 1 = v /\ v * p = g
      BY <1>6, ProductNext
    <3>2. N = b * g + (0 * p + 0)
      BY <1>2, <1>3a, <1>6, <2>1, <3>1
    <3>3. QED BY <3>2 DEF Sums
  <2>3. Placed(N, b, 0, 0, p, v)
    BY <1>3a, <2>1, <2>2, PlaceOfSum
  <2>4. /\ 0 < c => Passes(N, c, p, v) = b * p
        /\ 0 = c => Passes(N, c, p, v) = b * p + 0
    BY <1>3a, <2>1, <2>3, PassesAt
  <2>5. QED BY <1>2, <1>3, <1>3a, <1>6, <2>1, <2>4
<1>7. QED BY <1>4, <1>5, <1>6

\* A lower bound of the passes of a chunk.
Reaches(n, a, c, t, p, v) == n >= a * (p * v) + (c * p + t)

LEMMA PassesAtLeast ==
  ASSUME NEW n \in Nat, NEW p \in Nat \ {0}, NEW v \in Nat \ {0}, NEW c \in 0 .. v - 1,
         NEW a \in Nat, NEW t \in 0 .. p, Reaches(n, a, c, t, p, v)
  PROVE  Passes(n, c, p, v) >= a * p + t
<1>1. PICK b \in Nat, q \in 0 .. v - 1, s \in 0 .. p - 1 : Placed(n, b, q, s, p, v)
  BY PassPlace
<1> DEFINE g == p * v
<1>2. g \in Nat \ {0} /\ n = b * g + (q * p + s) /\ b * g \in Nat /\ a * g \in Nat
      /\ n >= a * g + (c * p + t) /\ c * p \in Nat /\ a * p \in Nat /\ b * p \in Nat
      /\ q * p + s < g
  BY <1>1, ProductPositive, ProductNat DEF Placed, Reaches
<1>3. /\ q < c => Passes(n, c, p, v) = b * p
      /\ q = c => Passes(n, c, p, v) = b * p + s
      /\ q > c => Passes(n, c, p, v) = b * p + p
  BY <1>1, PassesAt
<1> HIDE DEF g
<1>5. CASE b < a
  <2>1. (b + 1) * g <= a * g /\ (b + 1) * g = b * g + g
    BY <1>2, <1>5, ProductMonotone, ProductNext
  <2>2. QED BY <1>2, <2>1
<1>6. CASE a < b
  <2>1. (a + 1) * p <= b * p /\ (a + 1) * p = a * p + p
    BY <1>6, ProductMonotone, ProductNext
  <2>2. QED BY <1>2, <1>3, <2>1
<1>7. CASE a = b
  <2>1. q * p + s >= c * p + t
    BY <1>2, <1>7, ProductNat
  <2>2. /\ q < c => q * p + s + 1 - c * p <= 0
        /\ q = c => q * p + s - c * p = s
        /\ q * p \in Nat
    BY ChunkOrder
  <2>3. QED BY <1>2, <1>3, <1>7, <2>1, <2>2
<1>8. QED BY <1>5, <1>6, <1>7

\* In m whole groups every chunk has m * p passes, and no more before their end.
LEMMA PassesWhole ==
  ASSUME NEW n \in Nat, NEW p \in Nat \ {0}, NEW v \in Nat \ {0}, NEW c \in 0 .. v - 1,
         NEW m \in Nat
  PROVE  /\ n <= m * (p * v) => Passes(n, c, p, v) <= m * p
         /\ n = m * (p * v) => Passes(n, c, p, v) = m * p
<1> SUFFICES ASSUME n <= m * (p * v)
             PROVE  /\ Passes(n, c, p, v) <= m * p
                    /\ n = m * (p * v) => Passes(n, c, p, v) = m * p
  BY ProductPositive, ProductNat
<1>1. PICK b \in Nat, q \in 0 .. v - 1, s \in 0 .. p - 1 : Placed(n, b, q, s, p, v)
  BY PassPlace
<1> DEFINE g == p * v
<1>2. g \in Nat \ {0} /\ n = b * g + (q * p + s) /\ b * g \in Nat /\ m * g \in Nat
      /\ n <= m * g /\ m * p \in Nat /\ b * p \in Nat /\ q * p \in Nat /\ q * p + s < g
  BY <1>1, ProductPositive, ProductNat DEF Placed
<1>3. /\ q < c => Passes(n, c, p, v) = b * p
      /\ q = c => Passes(n, c, p, v) = b * p + s
      /\ q > c => Passes(n, c, p, v) = b * p + p
  BY <1>1, PassesAt
<1> HIDE DEF g
<1>5. CASE b < m
  <2>1. (b + 1) * g <= m * g /\ (b + 1) * g = b * g + g
    BY <1>2, <1>5, ProductMonotone, ProductNext
  <2>2. (b + 1) * p <= m * p /\ (b + 1) * p = b * p + p
    BY <1>5, ProductMonotone, ProductNext
  <2>3. QED BY <1>2, <1>3, <2>1, <2>2 DEF g
<1>6. CASE m < b
  <2>1. (m + 1) * g <= b * g /\ (m + 1) * g = m * g + g
    BY <1>2, <1>6, ProductMonotone, ProductNext
  <2>2. QED BY <1>2, <2>1
<1>7. CASE b = m
  <2>1. s = 0 /\ q * p = 0
    BY <1>2, <1>7
  <2>2. q = 0
    <3>1. ASSUME 1 <= q PROVE FALSE
      <4>1. 1 * p <= q * p /\ 1 * p = p
        BY <3>1, ProductMonotone
      <4>2. QED BY <2>1, <4>1
    <3>2. QED BY <3>1
  <2>3. QED BY <1>2, <1>3, <1>7, <2>1, <2>2
<1>8. QED BY <1>5, <1>6, <1>7

----
(***************************************************************************)
(* A configuration cf: what the constants of a device are.                 *)
(***************************************************************************)
ChunkNumber(cf) == IF cf.V = 0 THEN 1 ELSE cf.V
ChunksOf(cf)    == 0 .. ChunkNumber(cf) - 1
Batch1(cf)      == cf.M * ChunkNumber(cf)

\* Forward and backward passes of chunk c among the first n.
Forwards(cf, n, c)  == Passes(n, c, cf.P, ChunkNumber(cf))
Backwards(cf, n, c) == Passes(n, ChunkNumber(cf) - c - 1, cf.P, ChunkNumber(cf))

\* The chunk of pass n.
ForwardChunk(cf, n)  == InChunk(n, cf.P, ChunkNumber(cf))
BackwardChunk(cf, n) == ChunkNumber(cf) - InChunk(n, cf.P, ChunkNumber(cf)) - 1

\* Types of an accepted configuration.
LEMMA ConfigType ==
  ASSUME NEW cf \in Configs
  PROVE  /\ cf.P \in Nat \ {0} /\ cf.V \in Nat /\ cf.M \in Nat \ {0}
         /\ ChunkNumber(cf) \in Nat \ {0} /\ Batch1(cf) \in Nat \ {0}
         /\ cf.forwardOnly \in BOOLEAN /\ cf.overlap \in BOOLEAN
         /\ cf.sync \in {"none", "torchDDP", "custom"} /\ cf.partial \in Int
         /\ cf.V > 0 => cf.V > 1 /\ cf.P > 2 /\ cf.M % cf.P = 0
<1>1. /\ cf.P \in Nat \ {0} /\ cf.V \in Nat /\ cf.M \in Nat
      /\ cf.forwardOnly \in BOOLEAN /\ cf.overlap \in BOOLEAN
      /\ cf.sync \in {"none", "torchDDP", "custom"} /\ cf.partial \in Int
      /\ Accepted(cf)
  BY ConfigsAssumption
<1>2. cf.M > 0 /\ (cf.V > 0 => cf.V > 1 /\ cf.P > 2 /\ cf.M % cf.P = 0)
  BY <1>1 DEF Accepted
<1>3. ChunkNumber(cf) \in Nat \ {0}
  BY <1>1 DEF ChunkNumber
<1>4. Batch1(cf) \in Nat \ {0}
  BY <1>1, <1>2, <1>3, ProductPositive DEF Batch1
<1>5. QED BY <1>1, <1>2, <1>3, <1>4

\* An interleaved schedule has whole groups.
LEMMA WholeGroups ==
  ASSUME NEW cf \in Configs, cf.V > 0
  PROVE  \E m \in Nat \ {0} : /\ cf.M = m * cf.P
                              /\ Batch1(cf) = m * (cf.P * ChunkNumber(cf))
<1> DEFINE m == cf.M \div cf.P
           p == cf.P
           v == ChunkNumber(cf)
<1>1. p \in Nat \ {0} /\ cf.M \in Nat \ {0} /\ v \in Nat \ {0} /\ cf.M % p = 0
  BY ConfigType
<1>2. m \in Nat /\ cf.M = m * p
  <2> DEFINE n == cf.M
  <2> HIDE DEF p
  <2>1. n \div p \in Nat /\ n = (n \div p) * p + (n % p)
    BY <1>1, DivMod
  <2>2. m = n \div p
    BY DEF p
  <2>3. m * p + 0 = m * p
    BY <1>1, <2>1, <2>2
  <2>4. QED BY <1>1, <2>1, <2>2, <2>3
<1> HIDE DEF m, p, v
<1>3. m # 0
  BY <1>1, <1>2
<1>4. Batch1(cf) = m * (p * v)
  <2>1. Batch1(cf) = cf.M * v
    BY DEF Batch1, v
  <2>2. (m * p) * v = m * (p * v)
    BY <1>1, <1>2
  <2>3. QED BY <1>2, <2>1, <2>2
<1>5. QED BY <1>2, <1>3, <1>4 DEF p, v

\* With one chunk the passes of the chunk are the passes.
LEMMA OneChunk ==
  ASSUME NEW cf \in Configs, ChunkNumber(cf) = 1, NEW n \in Nat
  PROVE  Passes(n, 0, cf.P, ChunkNumber(cf)) = n
<1> DEFINE p == cf.P
           v == ChunkNumber(cf)
<1>1. p \in Nat \ {0} /\ v \in Nat \ {0} /\ v = 1
  BY ConfigType
<1> HIDE DEF p, v
<1>2. PICK a \in Nat, q \in 0 .. v - 1, s \in 0 .. p - 1 : Placed(n, a, q, s, p, v)
  BY <1>1, PassPlace
<1>3. q = 0 /\ 0 \in 0 .. v - 1
  BY <1>1
<1>4. Passes(n, 0, p, v) = a * p + s /\ a * p \in Nat
  BY <1>1, <1>2, <1>3, PassesAt
<1>5. p * v = p /\ 0 * p = 0
  BY <1>1
<1>6. n = a * p + (0 + s)
  BY <1>2, <1>3, <1>5 DEF Placed
<1>7. QED BY <1>4, <1>6 DEF p, v

\* Forward passes of a chunk: numbers up to M, one more after a pass of the chunk.
LEMMA ForwardsNext ==
  ASSUME NEW cf \in Configs, NEW n \in Nat, NEW c \in ChunksOf(cf)
  PROVE  /\ Forwards(cf, n, c) \in Nat
         /\ ForwardChunk(cf, n) \in ChunksOf(cf)
         /\ ForwardChunk(cf, n) = c => Forwards(cf, n + 1, c) = Forwards(cf, n, c) + 1
         /\ ForwardChunk(cf, n) # c => Forwards(cf, n + 1, c) = Forwards(cf, n, c)
         /\ n <= Batch1(cf) => Forwards(cf, n, c) <= cf.M
         /\ n = Batch1(cf) => Forwards(cf, n, c) = cf.M
<1> DEFINE p == cf.P
           v == ChunkNumber(cf)
<1>1. p \in Nat \ {0} /\ v \in Nat \ {0} /\ cf.M \in Nat \ {0} /\ cf.V \in Nat
      /\ c \in 0 .. v - 1
  BY ConfigType DEF ChunksOf
<1>2. /\ Passes(n, c, p, v) \in Nat
      /\ InChunk(n, p, v) \in 0 .. v - 1
      /\ InChunk(n, p, v) = c => Passes(n + 1, c, p, v) = Passes(n, c, p, v) + 1
      /\ InChunk(n, p, v) # c => Passes(n + 1, c, p, v) = Passes(n, c, p, v)
  <2> HIDE DEF p, v
  <2>1. QED BY <1>1, PassesNext
<1>3. /\ n <= Batch1(cf) => Passes(n, c, p, v) <= cf.M
      /\ n = Batch1(cf) => Passes(n, c, p, v) = cf.M
  <2>1. CASE cf.V = 0
    <3>1. v = 1 /\ c = 0 /\ Batch1(cf) = cf.M
      BY <1>1, <2>1 DEF ChunkNumber, Batch1
    <3>2. Passes(n, 0, cf.P, ChunkNumber(cf)) = n
      BY <3>1, OneChunk
    <3>3. QED BY <3>1, <3>2
  <2>2. CASE cf.V > 0
    <3>1. PICK m \in Nat \ {0} : cf.M = m * cf.P /\ Batch1(cf) = m * (cf.P * ChunkNumber(cf))
      BY <2>2, WholeGroups
    <3>2. cf.M = m * p /\ Batch1(cf) = m * (p * v)
      BY <3>1
    <3> HIDE DEF p, v
    <3>3. /\ n <= m * (p * v) => Passes(n, c, p, v) <= m * p
          /\ n = m * (p * v) => Passes(n, c, p, v) = m * p
      BY <1>1, PassesWhole
    <3>4. QED BY <3>2, <3>3
  <2>3. QED BY <1>1, <2>1, <2>2
<1>4. QED BY <1>2, <1>3 DEF Forwards, ForwardChunk, ChunksOf

\* The same of its backward passes: the chunks come in the opposite order.
LEMMA BackwardsNext ==
  ASSUME NEW cf \in Configs, NEW n \in Nat, NEW c \in ChunksOf(cf)
  PROVE  /\ Backwards(cf, n, c) \in Nat
         /\ BackwardChunk(cf, n) \in ChunksOf(cf)
         /\ BackwardChunk(cf, n) = c => Backwards(cf, n + 1, c) = Backwards(cf, n, c) + 1
         /\ BackwardChunk(cf, n) # c => Backwards(cf, n + 1, c) = Backwards(cf, n, c)
         /\ n <= Batch1(cf) => Backwards(cf, n, c) <= cf.M
         /\ n = Batch1(cf) => Backwards(cf, n, c) = cf.M
<1> DEFINE o == ChunkNumber(cf) - c - 1
<1>1. ChunkNumber(cf) \in Nat \ {0} /\ o \in ChunksOf(cf) /\ c \in Int
  BY ConfigType DEF ChunksOf
<1>2. Backwards(cf, n, c) = Forwards(cf, n, o) /\ Backwards(cf, n + 1, c) = Forwards(cf, n + 1, o)
  BY DEF Backwards, Forwards
<1>3. BackwardChunk(cf, n) = ChunkNumber(cf) - ForwardChunk(cf, n) - 1
  BY DEF BackwardChunk, ForwardChunk
<1>4. o = ChunkNumber(cf) - c - 1
  OBVIOUS
<1> HIDE DEF o
<1>5. /\ Forwards(cf, n, o) \in Nat
      /\ ForwardChunk(cf, n) \in ChunksOf(cf)
      /\ ForwardChunk(cf, n) = o => Forwards(cf, n + 1, o) = Forwards(cf, n, o) + 1
      /\ ForwardChunk(cf, n) # o => Forwards(cf, n + 1, o) = Forwards(cf, n, o)
      /\ n <= Batch1(cf) => Forwards(cf, n, o) <= cf.M
      /\ n = Batch1(cf) => Forwards(cf, n, o) = cf.M
  BY <1>1, ForwardsNext
<1>6. ForwardChunk(cf, n) \in Int /\ BackwardChunk(cf, n) \in ChunksOf(cf)
  BY <1>1, <1>3, <1>5 DEF ChunksOf
<1>7. BackwardChunk(cf, n) = c <=> ForwardChunk(cf, n) = o
  BY <1>1, <1>3, <1>4, <1>6
<1>8. QED BY <1>2, <1>5, <1>6, <1>7

\* Nothing is done at the start.
LEMMA NonePassed ==
  ASSUME NEW cf \in Configs, NEW c \in ChunksOf(cf)
  PROVE  Forwards(cf, 0, c) = 0 /\ Backwards(cf, 0, c) = 0
<1> DEFINE p == cf.P
           v == ChunkNumber(cf)
<1>1. p \in Nat \ {0} /\ v \in Nat \ {0} /\ c \in 0 .. v - 1 /\ v - c - 1 \in 0 .. v - 1
  BY ConfigType DEF ChunksOf
<1>2. ASSUME NEW o \in 0 .. v - 1 PROVE Passes(0, o, p, v) = 0
  <2> HIDE DEF p, v
  <2>1. 0 <= 0 * (p * v) /\ 0 * p = 0
    <3>1. p * v \in Nat
      BY <1>1, ProductNat
    <3>2. QED BY <1>1, <3>1
  <2>2. Passes(0, o, p, v) <= 0 * p
    BY <1>1, <2>1, PassesWhole
  <2>3. Passes(0, o, p, v) \in Nat
    BY <1>1, PassesNext
  <2>4. QED BY <2>1, <2>2, <2>3
<1>3. QED BY <1>1, <1>2 DEF Forwards, Backwards

\* A device that is far enough ahead with its forward passes: it has done all, or one
\* more than all chunks but one have microbatches in a group.
FarAhead(cf, f, b) ==
  f = Batch1(cf) \/ f >= b + 1 + (ChunkNumber(cf) - 1) * cf.P

\* It has done the forward pass of its next backward pass.
LEMMA ForwardDone ==
  ASSUME NEW cf \in Configs, NEW b \in Nat, NEW f \in Nat, b < Batch1(cf), FarAhead(cf, f, b)
  PROVE  Backwards(cf, b, BackwardChunk(cf, b)) + 1 <= Forwards(cf, f, BackwardChunk(cf, b))
<1> DEFINE p == cf.P
           v == ChunkNumber(cf)
           c == BackwardChunk(cf, b)
<1>1. p \in Nat \ {0} /\ v \in Nat \ {0} /\ Batch1(cf) \in Nat
  BY ConfigType
<1>2. c \in ChunksOf(cf)
  <2>1. 0 \in ChunksOf(cf)
    BY <1>1 DEF ChunksOf
  <2>2. QED BY <2>1, BackwardsNext
<1>3. CASE f = Batch1(cf)
  <2> DEFINE n == b + 1
  <2> HIDE DEF c
  <2>1. Forwards(cf, f, c) = cf.M
    BY <1>2, <1>3, ForwardsNext
  <2>2. BackwardChunk(cf, b) = c => Backwards(cf, b + 1, c) = Backwards(cf, b, c) + 1
    BY <1>2, BackwardsNext
  <2>3. n \in Nat /\ n <= Batch1(cf)
    BY <1>1
  <2> HIDE DEF n
  <2>4. Backwards(cf, n, c) <= cf.M
    BY <1>2, <2>3, BackwardsNext
  <2>5. QED BY <2>1, <2>2, <2>4 DEF n, c
<1>4. CASE f >= b + 1 + (v - 1) * p
  <2>1. PICK a \in Nat, q \in 0 .. v - 1, s \in 0 .. p - 1 : Placed(b, a, q, s, p, v)
    <3> HIDE DEF p, v
    <3>1. QED BY <1>1, PassPlace
  <2>2. c = v - q - 1 /\ c \in 0 .. v - 1
    BY <1>2, <2>1 DEF BackwardChunk, Placed, ChunksOf
  <2>3. Backwards(cf, b, c) = Passes(b, q, p, v)
    <3>1. v - c - 1 = q
      BY <1>1, <2>2
    <3>2. Backwards(cf, b, c) = Passes(b, v - c - 1, p, v)
      BY DEF Backwards
    <3>3. QED BY <3>1, <3>2
  <2>4. Forwards(cf, f, c) = Passes(f, c, p, v)
    BY DEF Forwards
  <2>4a. f >= b + 1 + (v - 1) * p
    BY <1>4
  <2> HIDE DEF p, v, c
  <2>5. Passes(b, q, p, v) = a * p + s /\ a * p \in Nat
    BY <1>1, <2>1, PassesAt
  <2> DEFINE t == s + 1
  <2>6. t \in 0 .. p /\ t = s + 1
    BY <1>1
  <2> HIDE DEF t
  <2>7. Reaches(f, a, c, t, p, v)
    <3>1. b = a * (p * v) + (q * p + s) /\ q * p \in Nat /\ c * p \in Nat
          /\ a * (p * v) \in Nat /\ c \in Nat /\ q \in Nat
      BY <1>1, <2>1, <2>2, ProductNat DEF Placed
    <3>2. (v - 1) * p = c * p + q * p
      <4>1. v - 1 = c + q
        BY <1>1, <2>2, <3>1
      <4>2. (c + q) * p = c * p + q * p
        BY <1>1, <3>1
      <4>3. QED BY <4>1, <4>2
    <3>3. f >= a * (p * v) + (c * p + t)
      BY <2>4a, <2>6, <3>1, <3>2
    <3>4. QED BY <3>3 DEF Reaches
  <2>8. Passes(f, c, p, v) >= a * p + t
    BY <1>1, <2>2, <2>6, <2>7, PassesAtLeast
  <2>9. Backwards(cf, b, c) + 1 <= Forwards(cf, f, c)
    <3>1. Passes(f, c, p, v) \in Nat
      BY <1>1, <2>2, PassesNext
    <3>2. QED BY <2>3, <2>4, <2>5, <2>6, <2>8, <3>1
  <2>10. QED BY <2>9 DEF c
<1>5. QED BY <1>3, <1>4 DEF FarAhead

----
(***************************************************************************)
(* What the passes do to the lists and counters of a device d.             *)
(***************************************************************************)
AnyTensor == [kind : {"none", "wrong", "act"}, mb : Int, stage : Int]
Stored    == [tensor : AnyTensor, full : BOOLEAN]

Fields == {"inputs", "outputs", "grads", "computed", "inputGrad", "fed", "summed",
           "reduced", "params", "noSync", "losses"}

\* The parts of a device the counting is about have their types.
Shaped(cf, d) ==
  /\ DOMAIN d = Fields
  /\ d.fed \in [ChunksOf(cf) -> Nat]
  /\ d.summed \in [ChunksOf(cf) -> Nat]
  /\ d.outputs \in [ChunksOf(cf) -> Seq(Stored)]
  /\ d.reduced \in [ChunksOf(cf) -> Seq(Nat)]
  /\ d.noSync \in BOOLEAN

\* From d to e nothing is passed through a chunk,
SameWork(d, e) ==
  /\ DOMAIN e = DOMAIN d
  /\ e.fed = d.fed /\ e.summed = d.summed /\ e.outputs = d.outputs /\ e.params = d.params

\* and nothing synchronized.
SameSync(d, e) == e.reduced = d.reduced /\ e.noSync = d.noSync

\* A forward pass of chunk c; `full`: all its activations are recomputed.
ForwardDone1(cf, d, e, c, full) ==
  /\ DOMAIN e = DOMAIN d
  /\ e.fed = [d.fed EXCEPT ![c] = @ + 1]
  /\ cf.forwardOnly => e.outputs = [d.outputs EXCEPT ![c] = << >>]
  /\ ~cf.forwardOnly => \E x \in Stored : /\ x.full = full
                                          /\ e.outputs = [d.outputs EXCEPT ![c] = Append(@, x)]
  /\ e.summed = d.summed /\ e.reduced = d.reduced /\ e.noSync = d.noSync

\* A backward pass of chunk c.
BackwardDone1(d, e, c) ==
  /\ DOMAIN e = DOMAIN d
  /\ e.fed = d.fed /\ e.params = d.params
  /\ e.summed = [d.summed EXCEPT ![c] = @ + 1]
  /\ e.outputs = [d.outputs EXCEPT ![c] = Popped(@)]

\* forward_step feeds the next sample and stores an output.
LEMMA ForwardStepDoes ==
  ASSUME NEW cf \in Configs, NEW r \in Int, NEW d, Shaped(cf, d), NEW c \in ChunksOf(cf),
         NEW full \in BOOLEAN, cf.forwardOnly = config.forwardOnly, config.P \in Nat
  PROVE  /\ ForwardDone1(cf, d, Kept(ForwardStep(d, r, c, full), c), c, full)
         /\ Kept(ForwardStep(d, r, c, full), c).params = d.params
<1> DEFINE i == d.fed[c]
           input == Newest(d.inputs[c])
           right == input = IF IsFirstStage(r, c) THEN None ELSE Act(i, Stage(r, c) - 1)
           out == IF right THEN Act(i, Stage(r, c)) ELSE Wrong
           x == [tensor |-> out, full |-> full]
           e == ForwardStep(d, r, c, full)
           losses == StoreLoss(d, r, c, out)
<1>1. Stage(r, c) \in Int /\ i \in Nat
  <2>1. c \in Int /\ config.P \in Int
    BY DEF ChunksOf
  <2>2. QED BY <2>1 DEF Stage, P, Shaped
<1>2. out \in AnyTensor
  BY <1>1 DEF AnyTensor, Act, Wrong
<1> HIDE DEF right
<1>3. e = [d EXCEPT !.computed = out, !.fed[c] = @ + 1,
                    !.outputs[c] = Append(@, x), !.losses = losses]
  BY DEF ForwardStep, right
<1> HIDE DEF out, losses, e
<1>4. x \in Stored /\ x.full = full
  BY <1>2 DEF Stored
<1> HIDE DEF x
<1>5. /\ DOMAIN e = DOMAIN d
      /\ e.fed = [d.fed EXCEPT ![c] = @ + 1]
      /\ e.outputs = [d.outputs EXCEPT ![c] = Append(@, x)]
      /\ e.summed = d.summed /\ e.reduced = d.reduced /\ e.noSync = d.noSync
      /\ e.params = d.params
  BY <1>3 DEF Shaped, Fields
<1>6. CASE config.forwardOnly
  <2> DEFINE g == Kept(e, c)
  <2>1. g = [e EXCEPT !.inputs[c] = Front(@), !.outputs[c] = << >>]
    BY <1>6 DEF Kept
  <2> HIDE DEF g
  <2>2. /\ DOMAIN g = DOMAIN d /\ g.fed = e.fed
        /\ g.outputs = [e.outputs EXCEPT ![c] = << >>]
        /\ g.summed = e.summed /\ g.reduced = e.reduced /\ g.noSync = e.noSync
        /\ g.params = e.params
    BY <1>5, <2>1 DEF Shaped, Fields
  <2>3. g.outputs = [d.outputs EXCEPT ![c] = << >>]
    BY <1>5, <2>2
  <2>4. QED BY <1>5, <1>6, <2>2, <2>3 DEF ForwardDone1, g, e
<1>7. CASE ~config.forwardOnly
  <2>1. Kept(e, c) = e
    BY <1>7 DEF Kept
  <2>2. QED BY <1>4, <1>5, <1>7, <2>1 DEF ForwardDone1, e
<1>8. QED BY <1>6, <1>7

\* backward_step takes an output and adds to the gradient of its chunk, which is
\* reduced when no_sync is left.
LEMMA BackwardStepDoes ==
  ASSUME NEW cf, NEW r, NEW d, Shaped(cf, d), NEW c \in ChunksOf(cf)
  PROVE  LET e == BackwardStep(d, r, c)
         IN  /\ BackwardDone1(d, e, c) /\ e.noSync = d.noSync
             /\ e.reduced = IF config.sync # "none" /\ ~d.noSync
                            THEN [d.reduced EXCEPT ![c] = Append(@, d.summed[c] + 1)]
                            ELSE d.reduced
<1> DEFINE out == IF d.outputs[c] = << >> THEN Wrong ELSE Head(d.outputs[c]).tensor
           right == Oldest(d.grads[c]) =
                      IF IsLastStage(r, c) THEN None ELSE Grad(out.mb, Stage(r, c) + 1)
           ig == IF ~right THEN Wrong
                 ELSE IF IsFirstStage(r, c) THEN None ELSE Grad(out.mb, Stage(r, c))
           g == [d EXCEPT !.inputs[c] = Popped(@), !.outputs[c] = Popped(@),
                          !.grads[c] = Popped(@), !.summed[c] = @ + 1, !.inputGrad = ig]
           e == BackwardStep(d, r, c)
<1>1. e = IF config.sync # "none" /\ ~d.noSync THEN Reduce(g, c) ELSE g
  BY DEF BackwardStep
<1> HIDE DEF ig, e
<1>2. /\ BackwardDone1(d, g, c) /\ g.noSync = d.noSync /\ g.reduced = d.reduced
      /\ g.summed[c] = d.summed[c] + 1 /\ DOMAIN g = DOMAIN d
  BY DEF Shaped, Fields, BackwardDone1
<1> HIDE DEF g
<1>3. CASE config.sync # "none" /\ ~d.noSync
  <2>1. e = [g EXCEPT !.reduced[c] = Append(@, g.summed[c])]
    BY <1>1, <1>3 DEF Reduce
  <2>2. /\ BackwardDone1(d, e, c) /\ e.noSync = d.noSync
        /\ e.reduced = [d.reduced EXCEPT ![c] = Append(@, d.summed[c] + 1)]
    BY <1>2, <2>1 DEF Shaped, Fields, BackwardDone1
  <2>3. QED BY <1>3, <2>2 DEF e
<1>4. CASE ~(config.sync # "none" /\ ~d.noSync)
  <2>1. e = g
    BY <1>1, <1>4
  <2>2. QED BY <1>2, <1>4, <2>1 DEF e
<1>5. QED BY <1>3, <1>4

----
(***************************************************************************)
(* What a device holds after f forward and b backward passes.              *)
(***************************************************************************)
Held(cf, d) == {o \in ChunksOf(cf) \X (1 .. cf.M) : o[2] \in DOMAIN d.outputs[o[1]]}

Counts(cf, d, f, b) ==
  /\ Shaped(cf, d)
  /\ f \in 0 .. Batch1(cf) /\ b \in 0 .. f
  /\ \A c \in ChunksOf(cf) : d.fed[c] = Forwards(cf, f, c)
  /\ \A c \in ChunksOf(cf) : d.summed[c] = Backwards(cf, b, c)
  /\ cf.forwardOnly => b = 0 /\ \A c \in ChunksOf(cf) : d.outputs[c] = << >>
  /\ ~cf.forwardOnly => /\ \A c \in ChunksOf(cf) : Len(d.outputs[c]) = d.fed[c] - d.summed[c]
                        /\ IsFiniteSet(Held(cf, d)) /\ Cardinality(Held(cf, d)) = f - b

\* The members of Held.
LEMMA HeldPair ==
  ASSUME NEW cf \in Configs, NEW d, Shaped(cf, d)
  PROVE  /\ \A o \in Held(cf, d) : o = <<o[1], o[2]>>
         /\ \A q, i : <<q, i>> \in Held(cf, d) <=>
              q \in ChunksOf(cf) /\ i \in 1 .. cf.M /\ i \in 1 .. Len(d.outputs[q])
<1>1. ASSUME NEW q, NEW i
      PROVE  <<q, i>> \in Held(cf, d) <=>
               q \in ChunksOf(cf) /\ i \in 1 .. cf.M /\ i \in DOMAIN d.outputs[q]
  BY DEF Held
<1>2. \A q \in ChunksOf(cf) : DOMAIN d.outputs[q] = 1 .. Len(d.outputs[q])
  BY DEF Shaped
<1>3. \A o \in Held(cf, d) : o = <<o[1], o[2]>>
  BY DEF Held
<1>4. QED BY <1>1, <1>2, <1>3

\* Passing tensors around does not matter,
LEMMA CountsSame ==
  ASSUME NEW cf \in Configs, NEW d, NEW e, NEW f, NEW b, Counts(cf, d, f, b), SameWork(d, e),
         e.reduced \in [ChunksOf(cf) -> Seq(Nat)], e.noSync \in BOOLEAN
  PROVE  Counts(cf, e, f, b)
<1>1. Shaped(cf, e)
  BY DEF Counts, Shaped, SameWork
<1>2. Held(cf, e) = Held(cf, d)
  BY DEF Held, SameWork
<1>3. e.fed = d.fed /\ e.summed = d.summed /\ e.outputs = d.outputs
  BY DEF SameWork
<1>4. QED BY <1>1, <1>2, <1>3 DEF Counts

\* a forward pass adds one to its chunk and to what is kept,
LEMMA CountsForward ==
  ASSUME NEW cf \in Configs, NEW d, NEW e, NEW f, NEW b, Counts(cf, d, f, b),
         NEW full, NEW c, c = ForwardChunk(cf, f), f < Batch1(cf),
         ForwardDone1(cf, d, e, c, full)
  PROVE  Counts(cf, e, f + 1, b)
<1>1. f \in Nat /\ b \in Nat /\ Batch1(cf) \in Nat /\ f + 1 <= Batch1(cf) /\ b <= f
      /\ f + 1 \in 0 .. Batch1(cf) /\ b \in 0 .. f + 1
  BY ConfigType DEF Counts
<1>2. c \in ChunksOf(cf)
  <2>1. 0 \in ChunksOf(cf)
    BY ConfigType DEF ChunksOf
  <2>2. QED BY <1>1, <2>1, ForwardsNext
<1>3. Shaped(cf, d) /\ DOMAIN e = DOMAIN d /\ e.summed = d.summed /\ e.reduced = d.reduced
      /\ e.noSync = d.noSync /\ e.fed = [d.fed EXCEPT ![c] = @ + 1]
  BY DEF Counts, ForwardDone1
<1>4. \A x \in ChunksOf(cf) : e.fed[x] = Forwards(cf, f + 1, x) /\ e.fed[x] \in Nat
  <2> SUFFICES ASSUME NEW x \in ChunksOf(cf)
               PROVE  e.fed[x] = Forwards(cf, f + 1, x) /\ e.fed[x] \in Nat
    OBVIOUS
  <2>1. d.fed[x] = Forwards(cf, f, x) /\ d.fed \in [ChunksOf(cf) -> Nat]
    BY DEF Counts, Shaped
  <2>2. e.fed[x] = IF x = c THEN d.fed[x] + 1 ELSE d.fed[x]
    BY <1>3, <2>1
  <2>3. /\ ForwardChunk(cf, f) = x => Forwards(cf, f + 1, x) = Forwards(cf, f, x) + 1
        /\ ForwardChunk(cf, f) # x => Forwards(cf, f + 1, x) = Forwards(cf, f, x)
    BY <1>1, ForwardsNext
  <2>4. QED BY <2>1, <2>2, <2>3
<1>5. e.fed \in [ChunksOf(cf) -> Nat]
  BY <1>3, <1>4 DEF Shaped
<1>6. CASE cf.forwardOnly
  <2>1. e.outputs = [d.outputs EXCEPT ![c] = << >>]
    BY <1>6 DEF ForwardDone1
  <2>2. e.outputs \in [ChunksOf(cf) -> Seq(Stored)]
        /\ \A x \in ChunksOf(cf) : e.outputs[x] = << >>
    <3>1. d.outputs \in [ChunksOf(cf) -> Seq(Stored)]
      BY <1>3 DEF Shaped
    <3>2. \A x \in ChunksOf(cf) : d.outputs[x] = << >>
      BY <1>6 DEF Counts
    <3>3. << >> \in Seq(Stored)
      OBVIOUS
    <3>4. e.outputs \in [ChunksOf(cf) -> Seq(Stored)]
      BY <2>1, <3>1, <3>3
    <3>5. \A x \in ChunksOf(cf) : e.outputs[x] = << >>
      BY <2>1, <3>1, <3>2
    <3>6. QED BY <3>4, <3>5
  <2>3. Shaped(cf, e)
    BY <1>3, <1>5, <2>2 DEF Shaped
  <2>4. b = 0
    BY <1>6 DEF Counts
  <2>5. QED BY <1>1, <1>3, <1>4, <1>6, <2>2, <2>3, <2>4 DEF Counts
<1>7. CASE ~cf.forwardOnly
  <2>1. PICK x \in Stored : e.outputs = [d.outputs EXCEPT ![c] = Append(@, x)]
    BY <1>7 DEF ForwardDone1
  <2>2. d.outputs \in [ChunksOf(cf) -> Seq(Stored)]
    BY <1>3 DEF Shaped
  <2>3. e.outputs \in [ChunksOf(cf) -> Seq(Stored)]
    <3>1. Append(d.outputs[c], x) \in Seq(Stored)
      BY <1>2, <2>2
    <3>2. QED BY <2>1, <2>2, <3>1
  <2>4. Shaped(cf, e)
    BY <1>3, <1>5, <2>3 DEF Shaped
  <2> DEFINE n == Len(d.outputs[c])
  <2>5. n \in Nat /\ Len(e.outputs[c]) = n + 1
        /\ \A q \in ChunksOf(cf) : q # c => e.outputs[q] = d.outputs[q]
    BY <1>2, <2>1, <2>2
  <2>6. n = d.fed[c] - d.summed[c] /\ d.fed[c] = Forwards(cf, f, c)
        /\ d.fed[c] \in Nat /\ d.summed[c] \in Nat
    BY <1>2, <1>3, <1>7 DEF Counts, Shaped
  <2>7. n + 1 <= cf.M
    <3> DEFINE g == f + 1
    <3>1. g \in Nat /\ g <= Batch1(cf)
      BY <1>1
    <3>2. e.fed[c] = Forwards(cf, g, c)
      BY <1>2, <1>4
    <3> HIDE DEF g
    <3>3. Forwards(cf, g, c) <= cf.M
      BY <1>2, <3>1, ForwardsNext
    <3>4. e.fed[c] = d.fed[c] + 1
      BY <1>2, <1>3 DEF Shaped
    <3>5. cf.M \in Nat
      BY ConfigType
    <3>6. QED BY <2>5, <2>6, <3>2, <3>3, <3>4, <3>5
  <2>8. cf.M \in Nat
    BY ConfigType
  <2>9. \A q \in ChunksOf(cf) : Len(e.outputs[q]) = e.fed[q] - e.summed[q]
    <3> SUFFICES ASSUME NEW q \in ChunksOf(cf)
                 PROVE  Len(e.outputs[q]) = e.fed[q] - e.summed[q]
      OBVIOUS
    <3>1. Len(d.outputs[q]) = d.fed[q] - d.summed[q]
      BY <1>7 DEF Counts
    <3>2. d.fed[q] \in Nat /\ d.summed[q] \in Nat
      BY <1>3 DEF Shaped
    <3>3. e.fed[q] = IF q = c THEN d.fed[q] + 1 ELSE d.fed[q]
      BY <1>3 DEF Shaped
    <3> HIDE DEF n
    <3>4. CASE q = c
      BY <1>3, <2>5, <2>6, <3>2, <3>3, <3>4
    <3>5. CASE q # c
      BY <1>3, <2>5, <3>1, <3>3, <3>5
    <3>6. QED BY <3>4, <3>5
  <2>10. Held(cf, e) = Held(cf, d) \cup {<<c, n + 1>>} /\ <<c, n + 1>> \notin Held(cf, d)
    <3>1. /\ \A o \in Held(cf, d) : o = <<o[1], o[2]>>
          /\ \A q, i : <<q, i>> \in Held(cf, d) <=>
               q \in ChunksOf(cf) /\ i \in 1 .. cf.M /\ i \in 1 .. Len(d.outputs[q])
      BY <1>3, HeldPair
    <3>2. /\ \A o \in Held(cf, e) : o = <<o[1], o[2]>>
          /\ \A q, i : <<q, i>> \in Held(cf, e) <=>
               q \in ChunksOf(cf) /\ i \in 1 .. cf.M /\ i \in 1 .. Len(e.outputs[q])
      BY <2>4, HeldPair
    <3>3. Len(d.outputs[c]) = n
      OBVIOUS
    <3> HIDE DEF n
    <3>4. ASSUME NEW q, NEW i
          PROVE  <<q, i>> \in Held(cf, e) <=> <<q, i>> \in Held(cf, d) \cup {<<c, n + 1>>}
      <4>1. CASE q = c
        BY <1>2, <2>5, <2>7, <2>8, <3>1, <3>2, <3>3, <4>1
      <4>2. CASE q # c
        BY <2>5, <3>1, <3>2, <4>2
      <4>3. QED BY <4>1, <4>2
    <3>5. <<c, n + 1>> \notin Held(cf, d)
      BY <2>5, <3>1, <3>3
    <3>6. QED BY <3>1, <3>2, <3>4, <3>5
  <2>11. IsFiniteSet(Held(cf, d)) /\ Cardinality(Held(cf, d)) = f - b
    BY <1>7 DEF Counts
  <2> HIDE DEF n
  <2>12. IsFiniteSet(Held(cf, e)) /\ Cardinality(Held(cf, e)) = f - b + 1
    <3> DEFINE s == Held(cf, d)
               y == <<c, n + 1>>
    <3>1. Held(cf, e) = s \cup {y} /\ y \notin s
      BY <2>10
    <3>2. IsFiniteSet(s) /\ Cardinality(s) = f - b
      BY <2>11
    <3> HIDE DEF s, y
    <3>3. IsFiniteSet(s \cup {y}) /\ Cardinality(s \cup {y}) = Cardinality(s) + 1
      BY <3>1, <3>2, FS_AddElement
    <3>4. QED BY <3>1, <3>2, <3>3
  <2>13. f - b + 1 = f + 1 - b
    BY <1>1
  <2>14. \A q \in ChunksOf(cf) : e.summed[q] = Backwards(cf, b, q)
    BY <1>3 DEF Counts
  <2>15. QED BY <1>1, <1>4, <1>7, <2>4, <2>9, <2>12, <2>13, <2>14 DEF Counts
<1>8. QED BY <1>6, <1>7

\* and a backward pass takes from it what its forward pass added.
LEMMA CountsBackward ==
  ASSUME NEW cf \in Configs, NEW d, NEW e, NEW f, NEW b, Counts(cf, d, f, b),
         ~cf.forwardOnly, NEW c, c = BackwardChunk(cf, b), b < Batch1(cf), FarAhead(cf, f, b),
         BackwardDone1(d, e, c), e.reduced \in [ChunksOf(cf) -> Seq(Nat)], e.noSync \in BOOLEAN
  PROVE  Counts(cf, e, f, b + 1) /\ d.outputs[c] # << >>
<1>1. f \in Nat /\ b \in Nat /\ Batch1(cf) \in Nat /\ b <= f /\ f \in 0 .. Batch1(cf)
      /\ b + 1 \in Nat
  BY ConfigType DEF Counts
<1>2. c \in ChunksOf(cf)
  <2>1. 0 \in ChunksOf(cf)
    BY ConfigType DEF ChunksOf
  <2>2. QED BY <1>1, <2>1, BackwardsNext
<1>3. Shaped(cf, d) /\ DOMAIN e = DOMAIN d /\ e.fed = d.fed
      /\ e.summed = [d.summed EXCEPT ![c] = @ + 1]
      /\ e.outputs = [d.outputs EXCEPT ![c] = Popped(@)]
  BY DEF Counts, BackwardDone1
<1>4. \A x \in ChunksOf(cf) : e.summed[x] = Backwards(cf, b + 1, x) /\ e.summed[x] \in Nat
  <2> SUFFICES ASSUME NEW x \in ChunksOf(cf)
               PROVE  e.summed[x] = Backwards(cf, b + 1, x) /\ e.summed[x] \in Nat
    OBVIOUS
  <2>1. d.summed[x] = Backwards(cf, b, x) /\ d.summed \in [ChunksOf(cf) -> Nat]
    BY DEF Counts, Shaped
  <2>2. e.summed[x] = IF x = c THEN d.summed[x] + 1 ELSE d.summed[x]
    BY <1>3, <2>1
  <2>3. /\ BackwardChunk(cf, b) = x => Backwards(cf, b + 1, x) = Backwards(cf, b, x) + 1
        /\ BackwardChunk(cf, b) # x => Backwards(cf, b + 1, x) = Backwards(cf, b, x)
    BY <1>1, BackwardsNext
  <2>4. QED BY <2>1, <2>2, <2>3
<1>5. e.summed \in [ChunksOf(cf) -> Nat]
  BY <1>3, <1>4 DEF Shaped
<1> DEFINE n == Len(d.outputs[c])
<1>6. d.outputs \in [ChunksOf(cf) -> Seq(Stored)] /\ n \in Nat
  BY <1>2, <1>3 DEF Shaped
<1>7. n = d.fed[c] - d.summed[c] /\ d.fed[c] \in Nat /\ d.summed[c] \in Nat
      /\ d.fed[c] = Forwards(cf, f, c) /\ d.summed[c] = Backwards(cf, b, c)
  BY <1>2, <1>3 DEF Counts, Shaped
<1>8. n >= 1
  BY <1>1, <1>7, ForwardDone
<1>9. d.outputs[c] # << >> /\ e.outputs = [d.outputs EXCEPT ![c] = Tail(@)]
  <2>1. d.outputs[c] \in Seq(Stored) /\ d.outputs[c] # << >>
    BY <1>2, <1>6, <1>8
  <2>2. Popped(d.outputs[c]) = Tail(d.outputs[c])
    BY <2>1 DEF Popped
  <2>3. QED BY <1>3, <2>1, <2>2
<1>10. e.outputs \in [ChunksOf(cf) -> Seq(Stored)] /\ Len(e.outputs[c]) = n - 1
       /\ \A q \in ChunksOf(cf) : q # c => e.outputs[q] = d.outputs[q]
  BY <1>2, <1>6, <1>9
<1>11. Shaped(cf, e)
  BY <1>3, <1>5, <1>10 DEF Shaped
<1>12. \A q \in ChunksOf(cf) : Len(e.outputs[q]) = e.fed[q] - e.summed[q]
  <2> SUFFICES ASSUME NEW q \in ChunksOf(cf)
               PROVE  Len(e.outputs[q]) = e.fed[q] - e.summed[q]
    OBVIOUS
  <2>1. Len(d.outputs[q]) = d.fed[q] - d.summed[q]
    BY DEF Counts
  <2>2. d.fed[q] \in Nat /\ d.summed[q] \in Nat
    BY <1>3 DEF Shaped
  <2>3. e.summed[q] = IF q = c THEN d.summed[q] + 1 ELSE d.summed[q]
    BY <1>3 DEF Shaped
  <2> HIDE DEF n
  <2>4. CASE q = c
    BY <1>3, <1>7, <1>10, <2>2, <2>3, <2>4
  <2>5. CASE q # c
    BY <1>3, <1>10, <2>1, <2>3, <2>5
  <2>6. QED BY <2>4, <2>5
<1>13. n <= cf.M /\ cf.M \in Nat
  <2>1. Forwards(cf, f, c) <= cf.M
    <3>1. f \in Nat /\ f <= Batch1(cf)
      BY <1>1
    <3> HIDE DEF n
    <3>2. QED BY <1>2, <3>1, ForwardsNext
  <2>2. cf.M \in Nat
    BY ConfigType
  <2>3. QED BY <1>7, <2>1, <2>2
<1>14. Held(cf, e) = Held(cf, d) \ {<<c, n>>} /\ <<c, n>> \in Held(cf, d)
  <2>1. /\ \A o \in Held(cf, d) : o = <<o[1], o[2]>>
        /\ \A q, i : <<q, i>> \in Held(cf, d) <=>
             q \in ChunksOf(cf) /\ i \in 1 .. cf.M /\ i \in 1 .. Len(d.outputs[q])
    BY <1>3, HeldPair
  <2>2. /\ \A o \in Held(cf, e) : o = <<o[1], o[2]>>
        /\ \A q, i : <<q, i>> \in Held(cf, e) <=>
             q \in ChunksOf(cf) /\ i \in 1 .. cf.M /\ i \in 1 .. Len(e.outputs[q])
    BY <1>11, HeldPair
  <2>3. Len(d.outputs[c]) = n
    OBVIOUS
  <2> HIDE DEF n
  <2>4. ASSUME NEW q, NEW i
        PROVE  <<q, i>> \in Held(cf, e) <=> <<q, i>> \in Held(cf, d) \ {<<c, n>>}
    <3>1. CASE q = c
      BY <1>2, <1>6, <1>8, <1>10, <1>13, <2>1, <2>2, <2>3, <3>1
    <3>2. CASE q # c
      BY <1>10, <2>1, <2>2, <3>2
    <3>3. QED BY <3>1, <3>2
  <2>5. <<c, n>> \in Held(cf, d)
    BY <1>2, <1>6, <1>8, <1>13, <2>1, <2>3
  <2>6. QED BY <2>1, <2>2, <2>4, <2>5
<1>15. IsFiniteSet(Held(cf, d)) /\ Cardinality(Held(cf, d)) = f - b
  BY DEF Counts
<1> HIDE DEF n
<1>16. IsFiniteSet(Held(cf, e)) /\ Cardinality(Held(cf, e)) = f - b - 1
  BY <1>14, <1>15, FS_RemoveElement
<1>17. f - b - 1 = f - (b + 1)
  BY <1>1
<1>18. b + 1 \in 0 .. f
  <2>1. CASE f = Batch1(cf)
    BY <1>1, <2>1
  <2>2. CASE f >= b + 1 + (ChunkNumber(cf) - 1) * cf.P
    <3>1. (ChunkNumber(cf) - 1) * cf.P \in Nat
      <4>1. ChunkNumber(cf) - 1 \in Nat /\ cf.P \in Nat
        BY ConfigType
      <4>2. QED BY <4>1, ProductNat
    <3>2. QED BY <1>1, <2>2, <3>1
  <2>3. QED BY <2>1, <2>2 DEF FarAhead
<1>19. \A q \in ChunksOf(cf) : e.fed[q] = Forwards(cf, f, q)
  BY <1>3 DEF Counts
<1>20. QED BY <1>1, <1>4, <1>9, <1>11, <1>12, <1>16, <1>17, <1>18, <1>19 DEF Counts

----
(***************************************************************************)
(* The warmup of a device, and how far the forward passes are ahead.       *)
(***************************************************************************)
Devices(cf) == 0 .. cf.P - 1

WarmupOf(cf, r) ==
  IF cf.V = 0 THEN SmallerOf(cf.P - r - 1, cf.M)
  ELSE IF cf.forwardOnly \/ cf.M = cf.P THEN Batch1(cf)
  ELSE SmallerOf((cf.P - r - 1) * 2 + (cf.V - 1) * cf.P, Batch1(cf))

RemainingOf(cf, r) == Batch1(cf) - WarmupOf(cf, r)

\* These are the schedule's.
LEMMA WarmupIs ==
  ASSUME config \in Configs, NEW r
  PROVE  /\ NumWarmup(r) = WarmupOf(config, r) /\ Remaining(r) = RemainingOf(config, r)
         /\ Total = Batch1(config) /\ NumModelChunks = ChunkNumber(config)
         /\ Chunks = ChunksOf(config) /\ Ranks = Devices(config)
         /\ P = config.P /\ V = config.V /\ M = config.M
<1>1. P = config.P /\ V = config.V /\ M = config.M
  BY DEF P, V, M
<1>2. NumModelChunks = ChunkNumber(config)
  BY <1>1 DEF NumModelChunks, ChunkNumber
<1>3. Total = Batch1(config) /\ Chunks = ChunksOf(config) /\ Ranks = Devices(config)
  BY <1>1, <1>2 DEF Total, Batch1, Chunks, ChunksOf, Ranks, Devices
<1>4. config.V \in Nat
  BY ConfigType
<1>5. NumWarmup(r) = WarmupOf(config, r)
  <2> DEFINE a == SmallerOf(P - r - 1, M)
             b == SmallerOf((P - r - 1) * 2 + (V - 1) * P, Total)
  <2>1. WarmupOf(config, r) = IF V = 0 THEN a
                              ELSE IF config.forwardOnly \/ M = P THEN Total ELSE b
    BY <1>1, <1>3 DEF WarmupOf
  <2>2. NumWarmup(r) = CASE V = 0 -> a
                         [] V > 0 /\ (config.forwardOnly \/ AllWarmup) -> Total
                         [] OTHER -> b
    BY DEF NumWarmup
  <2> HIDE DEF a, b
  <2>3. CASE V = 0
    BY <1>1, <2>1, <2>2, <2>3
  <2>4. CASE V > 0 /\ (config.forwardOnly \/ M = P)
    BY <1>1, <1>4, <2>1, <2>2, <2>4 DEF AllWarmup
  <2>5. CASE V > 0 /\ ~(config.forwardOnly \/ M = P)
    BY <1>1, <1>4, <2>1, <2>2, <2>5 DEF AllWarmup
  <2>6. QED BY <1>1, <1>4, <2>3, <2>4, <2>5
<1>6. QED BY <1>1, <1>2, <1>3, <1>5 DEF Remaining, RemainingOf

\* Its bounds.
LEMMA WarmupType ==
  ASSUME NEW cf \in Configs, NEW r \in Devices(cf)
  PROVE  /\ WarmupOf(cf, r) \in 0 .. Batch1(cf) /\ RemainingOf(cf, r) \in 0 .. Batch1(cf)
         /\ WarmupOf(cf, r) + RemainingOf(cf, r) = Batch1(cf)
         /\ RemainingOf(cf, r) > 0 => WarmupOf(cf, r) >= (ChunkNumber(cf) - 1) * cf.P
         /\ (ChunkNumber(cf) - 1) * cf.P \in Nat
<1>1. cf.P \in Nat \ {0} /\ cf.M \in Nat \ {0} /\ Batch1(cf) \in Nat \ {0}
      /\ cf.V \in Nat /\ ChunkNumber(cf) \in Nat \ {0} /\ r \in 0 .. cf.P - 1
  BY ConfigType DEF Devices
<1>2. (ChunkNumber(cf) - 1) * cf.P \in Nat
  <2>1. ChunkNumber(cf) - 1 \in Nat
    BY <1>1
  <2>2. QED BY <1>1, <2>1, ProductNat
<1>3. CASE cf.V = 0
  <2>1. ChunkNumber(cf) = 1 /\ Batch1(cf) = cf.M
    BY <1>1, <1>3 DEF ChunkNumber, Batch1
  <2>2. (ChunkNumber(cf) - 1) * cf.P = 0
    BY <1>1, <2>1
  <2>3. WarmupOf(cf, r) \in 0 .. Batch1(cf)
    BY <1>1, <1>3, <2>1 DEF WarmupOf, SmallerOf
  <2>4. QED BY <1>1, <1>2, <2>2, <2>3 DEF RemainingOf
<1>4. CASE cf.V > 0
  <2>1. ChunkNumber(cf) = cf.V
    BY <1>1, <1>4 DEF ChunkNumber
  <2>2. CASE cf.forwardOnly \/ cf.M = cf.P
    <3>1. WarmupOf(cf, r) = Batch1(cf)
      BY <1>1, <1>4, <2>2 DEF WarmupOf
    <3>2. QED BY <1>1, <1>2, <3>1 DEF RemainingOf
  <2>3. CASE ~(cf.forwardOnly \/ cf.M = cf.P)
    <3> DEFINE x == (cf.V - 1) * cf.P
               y == (cf.P - r - 1) * 2
    <3>1. WarmupOf(cf, r) = SmallerOf(y + x, Batch1(cf))
      BY <1>1, <1>4, <2>3 DEF WarmupOf
    <3>2. x \in Nat /\ y \in Nat /\ x = (ChunkNumber(cf) - 1) * cf.P
      BY <1>1, <1>2, <2>1
    <3> HIDE DEF x, y
    <3>3. QED BY <1>1, <1>2, <3>1, <3>2 DEF SmallerOf, RemainingOf
  <2>4. QED BY <2>2, <2>3
<1>5. QED BY <1>1, <1>3, <1>4

\* One pass into the steady state a device is far enough ahead.
LEMMA SteadyAhead ==
  ASSUME NEW cf \in Configs, NEW r \in Devices(cf), NEW k \in 0 .. RemainingOf(cf, r) - 1
  PROVE  FarAhead(cf, WarmupOf(cf, r) + k + 1, k)
<1> DEFINE w == WarmupOf(cf, r)
           x == (ChunkNumber(cf) - 1) * cf.P
<1>1. w \in Nat /\ RemainingOf(cf, r) \in Nat /\ x \in Nat
      /\ (RemainingOf(cf, r) > 0 => w >= x)
  BY WarmupType, ConfigType
<1> HIDE DEF w, x
<1>2. w + k + 1 >= k + 1 + x
  BY <1>1
<1>3. QED BY <1>2 DEF FarAhead, w, x

----
(***************************************************************************)
(* Partial checkpoints of activations, in the 1F1B schedule.               *)
(***************************************************************************)
FullAt(cf, r, n) == cf.partial >= 0 /\ n % (WarmupOf(cf, r) + 1) >= cf.partial

\* Output i of a device is that of microbatch summed + i - 1, and is kept as
\* CheckpointMicrobatch says.
PartialOK(cf, r, d) ==
  cf.P > 1 /\ cf.V = 0 /\ cf.partial >= 0 =>
    \A i \in DOMAIN d.outputs[0] :
      ~d.outputs[0][i].full => (d.summed[0] + i - 1) % (WarmupOf(cf, r) + 1) < cf.partial

\* In one chunk the counters are the passes.
LEMMA OneChunkCounts ==
  ASSUME NEW cf \in Configs, cf.V = 0, NEW d, NEW f, NEW b, Counts(cf, d, f, b)
  PROVE  d.fed[0] = f /\ d.summed[0] = b /\ ChunksOf(cf) = {0} /\ f \in Nat /\ b \in Nat
<1>1. ChunkNumber(cf) = 1 /\ ChunksOf(cf) = {0}
  BY DEF ChunkNumber, ChunksOf
<1>2. f \in Nat /\ b \in Nat /\ d.fed[0] = Forwards(cf, f, 0) /\ d.summed[0] = Backwards(cf, b, 0)
  BY <1>1, ConfigType DEF Counts
<1>3. Forwards(cf, f, 0) = f
  BY <1>1, <1>2, OneChunk DEF Forwards
<1>4. Backwards(cf, b, 0) = b
  <2>1. ChunkNumber(cf) - 0 - 1 = 0
    BY <1>1
  <2>2. Passes(b, 0, cf.P, ChunkNumber(cf)) = b
    BY <1>1, <1>2, OneChunk
  <2>3. QED BY <2>1, <2>2 DEF Backwards
<1>5. QED BY <1>1, <1>2, <1>3, <1>4

\* A forward pass with the flag of its number,
LEMMA PartialForward ==
  ASSUME NEW cf \in Configs, NEW r \in Devices(cf), NEW d, NEW e, NEW f, NEW b,
         Counts(cf, d, f, b), PartialOK(cf, r, d), NEW full, NEW c \in ChunksOf(cf),
         ForwardDone1(cf, d, e, c, full),
         cf.P > 1 /\ cf.V = 0 => full = FullAt(cf, r, f)
  PROVE  PartialOK(cf, r, e)
<1> SUFFICES ASSUME cf.P > 1, cf.V = 0, cf.partial >= 0,
                    NEW i \in DOMAIN e.outputs[0], ~e.outputs[0][i].full
             PROVE  (e.summed[0] + i - 1) % (WarmupOf(cf, r) + 1) < cf.partial
  BY DEF PartialOK
<1>1. d.fed[0] = f /\ d.summed[0] = b /\ c = 0 /\ f \in Nat /\ b \in Nat
  BY OneChunkCounts
<1>2. e.summed = d.summed /\ d.outputs \in [ChunksOf(cf) -> Seq(Stored)]
  BY DEF ForwardDone1, Counts, Shaped
<1>3. CASE cf.forwardOnly
  BY <1>1, <1>2, <1>3 DEF ForwardDone1
<1>4. CASE ~cf.forwardOnly
  <2>1. PICK x \in Stored : x.full = full /\ e.outputs = [d.outputs EXCEPT ![c] = Append(@, x)]
    BY <1>4 DEF ForwardDone1
  <2> DEFINE s == d.outputs[0]
  <2>2. s \in Seq(Stored) /\ e.outputs[0] = Append(s, x)
    BY <1>1, <1>2, <2>1
  <2>3. Len(s) = f - b
    BY <1>1, <1>4 DEF Counts
  <2>4. \A j \in 1 .. Len(s) : ~s[j].full => (b + j - 1) % (WarmupOf(cf, r) + 1) < cf.partial
    <3>1. DOMAIN s = 1 .. Len(s)
      BY <2>2
    <3>2. QED BY <1>1, <3>1 DEF PartialOK
  <2> HIDE DEF s
  <2>5. i \in 1 .. Len(s) + 1 /\ Len(s) \in Nat
    BY <2>2
  <2>6. CASE i \in 1 .. Len(s)
    <3>1. e.outputs[0][i] = s[i]
      BY <2>2, <2>6
    <3>2. QED BY <1>1, <1>2, <2>4, <2>6, <3>1
  <2>7. CASE i = Len(s) + 1
    <3>1. e.outputs[0][i] = x
      BY <2>2, <2>7
    <3>2. ~FullAt(cf, r, f)
      BY <2>1, <3>1
    <3>3. b + i - 1 = f
      BY <1>1, <2>3, <2>5, <2>7
    <3>4. WarmupOf(cf, r) + 1 \in Nat \ {0} /\ cf.partial \in Int
      BY WarmupType, ConfigType
    <3>5. f % (WarmupOf(cf, r) + 1) < cf.partial
      <4> DEFINE g == WarmupOf(cf, r) + 1
      <4>1. ~(f % g >= cf.partial) /\ g \in Nat \ {0}
        BY <3>2, <3>4 DEF FullAt
      <4> HIDE DEF g
      <4>2. f % g \in Int
        BY <1>1, <4>1, DivMod
      <4>3. f % g < cf.partial
        BY <3>4, <4>1, <4>2
      <4>4. QED BY <4>3 DEF g
    <3>6. QED BY <1>1, <1>2, <3>3, <3>5
  <2>8. QED BY <2>5, <2>6, <2>7
<1>5. QED BY <1>3, <1>4

\* and a backward pass, which takes the oldest, keep to that.
LEMMA PartialBackward ==
  ASSUME NEW cf \in Configs, NEW r \in Devices(cf), NEW d, NEW e, NEW f, NEW b,
         Counts(cf, d, f, b), PartialOK(cf, r, d), NEW c \in ChunksOf(cf),
         BackwardDone1(d, e, c), d.outputs[c] # << >>
  PROVE  PartialOK(cf, r, e)
<1> SUFFICES ASSUME cf.P > 1, cf.V = 0, cf.partial >= 0,
                    NEW i \in DOMAIN e.outputs[0], ~e.outputs[0][i].full
             PROVE  (e.summed[0] + i - 1) % (WarmupOf(cf, r) + 1) < cf.partial
  BY DEF PartialOK
<1>1. d.summed[0] = b /\ c = 0 /\ b \in Nat
  BY OneChunkCounts
<1>2. d.outputs \in [ChunksOf(cf) -> Seq(Stored)] /\ d.summed \in [ChunksOf(cf) -> Nat]
  BY DEF Counts, Shaped
<1> DEFINE s == d.outputs[0]
<1>3. s \in Seq(Stored) /\ s # << >> /\ e.outputs[0] = Tail(s)
  <2>1. s \in Seq(Stored) /\ s # << >>
    BY <1>1, <1>2
  <2>2. e.outputs[0] = Popped(s)
    BY <1>1, <1>2 DEF BackwardDone1
  <2>3. QED BY <2>1, <2>2 DEF Popped
<1>4. e.summed[0] = b + 1
  BY <1>1, <1>2 DEF BackwardDone1
<1>5. \A j \in 1 .. Len(s) : ~s[j].full => (b + j - 1) % (WarmupOf(cf, r) + 1) < cf.partial
  <2>1. DOMAIN s = 1 .. Len(s)
    BY <1>3
  <2>2. QED BY <1>1, <2>1 DEF PartialOK
<1> HIDE DEF s
<1>6. i \in Nat /\ i + 1 \in 1 .. Len(s) /\ e.outputs[0][i] = s[i + 1]
  BY <1>3
<1>7. (b + (i + 1) - 1) % (WarmupOf(cf, r) + 1) < cf.partial
  BY <1>5, <1>6
<1>8. b + (i + 1) - 1 = (b + 1) + i - 1
  BY <1>1, <1>6
<1>9. QED BY <1>4, <1>7, <1>8

\* Numbers less than g apart have different remainders.
LEMMA ModApart ==
  ASSUME NEW g \in Nat \ {0}, NEW x \in Nat, NEW y \in Nat, x % g = y % g,
         x < y + g, y < x + g
  PROVE  x = y
<1> DEFINE a == x \div g
           b == y \div g
           m == x % g
<1>1. a \in Nat /\ b \in Nat /\ m \in 0 .. g - 1 /\ x = a * g + m /\ y = b * g + m
  BY DivMod
<1> HIDE DEF a, b, m
<1>2. ASSUME a < b PROVE FALSE
  <2>1. (a + 1) * g <= b * g /\ (a + 1) * g = a * g + g
    BY <1>1, <1>2, ProductMonotone, ProductNext
  <2>2. a * g \in Nat /\ b * g \in Nat
    BY <1>1, ProductNat
  <2>3. QED BY <1>1, <2>1, <2>2
<1>3. ASSUME b < a PROVE FALSE
  <2>1. (b + 1) * g <= a * g /\ (b + 1) * g = b * g + g
    BY <1>1, <1>3, ProductMonotone, ProductNext
  <2>2. a * g \in Nat /\ b * g \in Nat
    BY <1>1, ProductNat
  <2>3. QED BY <1>1, <2>1, <2>2
<1>4. a = b
  BY <1>1, <1>2, <1>3
<1>5. QED BY <1>1, <1>4

NotFull(cf, d) == {o \in Held(cf, d) : ~d.outputs[o[1]][o[2]].full}

\* Of a window of warmup plus one microbatches no more than `partial` are kept in full.
LEMMA PartialBound ==
  ASSUME NEW cf \in Configs, NEW r \in Devices(cf), NEW d, NEW f, NEW b,
         Counts(cf, d, f, b), PartialOK(cf, r, d), cf.P > 1, cf.V = 0, cf.partial >= 0,
         cf.forwardOnly \/ f - b <= WarmupOf(cf, r) + 1
  PROVE  Cardinality(NotFull(cf, d)) <= cf.partial
<1> DEFINE g == WarmupOf(cf, r) + 1
           n == cf.partial
           S == NotFull(cf, d)
           h == [o \in S |-> (b + o[2] - 1) % g]
<1>1. g \in Nat \ {0} /\ n \in Nat
  BY WarmupType, ConfigType
<1>2. d.summed[0] = b /\ d.fed[0] = f /\ ChunksOf(cf) = {0} /\ b \in Nat /\ f \in Nat
  BY OneChunkCounts
<1>3. Shaped(cf, d)
  BY DEF Counts
<1>4. CASE cf.forwardOnly
  <2>1. d.outputs[0] = << >>
    BY <1>2, <1>4 DEF Counts
  <2>2. S = {}
    BY <1>2, <2>1 DEF NotFull, Held
  <2>3. Cardinality({}) = 0
    BY FS_EmptySet
  <2>4. QED BY <1>1, <2>2, <2>3
<1>5. CASE ~cf.forwardOnly
  <2>1. Len(d.outputs[0]) = f - b /\ f - b <= g
    BY <1>2, <1>5 DEF Counts
  <2>2. \A o \in S : /\ o = <<0, o[2]>> /\ o[2] \in 1 .. f - b
                     /\ o[2] \in DOMAIN d.outputs[0] /\ ~d.outputs[0][o[2]].full
    <3> SUFFICES ASSUME NEW o \in S
                 PROVE  /\ o = <<0, o[2]>> /\ o[2] \in 1 .. f - b
                        /\ o[2] \in DOMAIN d.outputs[0] /\ ~d.outputs[0][o[2]].full
      OBVIOUS
    <3>1. o \in ChunksOf(cf) \X (1 .. cf.M) /\ o[2] \in DOMAIN d.outputs[o[1]]
          /\ ~d.outputs[o[1]][o[2]].full
      BY DEF NotFull, Held
    <3>2. o[1] = 0 /\ o = <<o[1], o[2]>>
      BY <1>2, <3>1
    <3>3. DOMAIN d.outputs[0] = 1 .. Len(d.outputs[0])
      BY <1>2, <1>3 DEF Shaped
    <3>4. QED BY <2>1, <3>1, <3>2, <3>3
  <2>3. \A i \in DOMAIN d.outputs[0] : ~d.outputs[0][i].full => (b + i - 1) % g < n
    BY <1>2 DEF PartialOK
  <2> HIDE DEF g, n, S
  <2>4. \A o \in S : (b + o[2] - 1) % g \in 0 .. n - 1 /\ b + o[2] - 1 \in Nat
    <3> SUFFICES ASSUME NEW o \in S
                 PROVE  (b + o[2] - 1) % g \in 0 .. n - 1 /\ b + o[2] - 1 \in Nat
      OBVIOUS
    <3> DEFINE x == b + o[2] - 1
    <3>1. x \in Nat /\ x % g < n
      BY <1>2, <2>2, <2>3
    <3> HIDE DEF x
    <3>2. x % g \in Nat
      BY <1>1, <3>1, DivMod
    <3>3. x % g \in 0 .. n - 1
      BY <1>1, <3>1, <3>2
    <3>4. QED BY <3>1, <3>3 DEF x
  <2>5. \A o, p \in S : h[o] = h[p] => o = p
    <3> SUFFICES ASSUME NEW o \in S, NEW p \in S, h[o] = h[p]
                 PROVE  o = p
      OBVIOUS
    <3> DEFINE x == b + o[2] - 1
               y == b + p[2] - 1
    <3>1. x % g = y % g /\ x \in Nat /\ y \in Nat
      BY <2>4
    <3>2. x < y + g /\ y < x + g
      <4> DEFINE i == o[2]
                 j == p[2]
      <4>1. i \in 1 .. f - b /\ j \in 1 .. f - b
        BY <2>2
      <4>2. x = b + i - 1 /\ y = b + j - 1
        OBVIOUS
      <4> HIDE DEF i, j, x, y
      <4>3. QED BY <1>1, <1>2, <2>1, <4>1, <4>2
    <3> HIDE DEF x, y
    <3>3. x = y
      BY <1>1, <3>1, <3>2, ModApart
    <3>4. o[2] = p[2]
      BY <1>2, <2>2, <3>3 DEF x, y
    <3>5. QED BY <2>2, <3>4
  <2>6. h \in Injection(S, 0 .. n - 1)
    <3>1. h \in [S -> 0 .. n - 1]
      BY <2>4
    <3> HIDE DEF h
    <3>2. QED BY <2>5, <3>1 DEF Injection, IsInjective
  <2> HIDE DEF h
  <2>7. IsFiniteSet(0 .. n - 1) /\ Cardinality(0 .. n - 1) = n
    <3>1. 0 \in Int /\ n - 1 \in Int
      BY <1>1
    <3>2. Cardinality(0 .. n - 1) = IF 0 > n - 1 THEN 0 ELSE n - 1 - 0 + 1
      BY <3>1, FS_Interval
    <3>3. QED BY <1>1, <3>1, <3>2, FS_Interval
  <2>8. Cardinality(S) <= n
    BY <2>6, <2>7, FS_Injection
  <2>9. QED BY <2>8 DEF S, n
<1>6. QED BY <1>4, <1>5

----
(***************************************************************************)
(* The program of a device: how many passes its place says it has done.    *)
(***************************************************************************)
LoopsOf(cf) ==
  IF cf.P = 1 THEN <<"plain", "done">>
  ELSE IF cf.V = 0 THEN <<"warmup", "first", "steady", "cooldown", "finish", "done">>
  ELSE <<"first", "warmup", "steady", "flush", "cooldown", "finish", "done">>

TurnsOf(cf, r, loop) ==
  CASE loop = "plain"    -> cf.M
    [] loop = "warmup"   -> WarmupOf(cf, r)
    [] loop = "first"    -> IF cf.V > 0 \/ RemainingOf(cf, r) > 0 THEN 1 ELSE 0
    [] loop = "steady"   -> RemainingOf(cf, r)
    [] loop = "flush"    -> IF cf.V > 0 /\ ~cf.forwardOnly /\ cf.M = cf.P THEN 1 ELSE 0
    [] loop = "cooldown" -> IF cf.forwardOnly THEN 0 ELSE WarmupOf(cf, r)
    [] OTHER             -> 1

ForwardsIn(cf, r, loop, k, half) ==
  IF loop \in {"plain", "warmup"} THEN k
  ELSE IF loop = "first" THEN (IF cf.V = 0 THEN WarmupOf(cf, r) ELSE 0)
  ELSE IF loop = "steady" THEN WarmupOf(cf, r) + k + half
  ELSE Batch1(cf)

BackwardsIn(cf, r, loop, k) ==
  IF cf.forwardOnly \/ loop \in {"warmup", "first"} THEN 0
  ELSE IF loop \in {"plain", "steady"} THEN k
  ELSE IF loop = "flush" THEN RemainingOf(cf, r)
  ELSE IF loop = "cooldown" THEN RemainingOf(cf, r) + k
  ELSE Batch1(cf)

LoopAt(cf, p) == LoopsOf(cf)[p.loop]

ForwardsAt(cf, r, p)  == ForwardsIn(cf, r, LoopAt(cf, p), p.k, p.half)
BackwardsAt(cf, r, p) == BackwardsIn(cf, r, LoopAt(cf, p), p.k)

\* How many inputs, and how many gradients, a place of the program has asked for.
One(b) == IF b THEN 1 ELSE 0

AllAhead(cf) == cf.V > 0 /\ ~cf.forwardOnly /\ cf.M = cf.P

InputsIn(cf, r, loop, k, half) ==
  IF loop = "plain" THEN k
  ELSE IF loop = "first" THEN (IF cf.V = 0 THEN WarmupOf(cf, r) + k ELSE k)
  ELSE IF loop = "warmup" THEN (IF cf.V = 0 THEN k + half ELSE SmallerOf(k + 1, Batch1(cf)))
  ELSE IF loop = "steady"
  THEN SmallerOf(WarmupOf(cf, r) + (k + (IF cf.V = 0 THEN 1 ELSE half + 1)), Batch1(cf))
  ELSE Batch1(cf)

GradsIn(cf, r, loop, k, half) ==
  IF cf.forwardOnly \/ loop = "first" THEN 0
  ELSE IF loop = "plain" THEN k
  ELSE IF loop = "warmup" THEN One(cf.V > 0 /\ ~AllAhead(cf) /\ k = WarmupOf(cf, r))
  ELSE IF loop = "steady"
  THEN k + (IF cf.V = 0 THEN half ELSE One(~AllAhead(cf)))
  ELSE IF loop = "flush" THEN (IF AllAhead(cf) THEN k ELSE RemainingOf(cf, r) + 1)
  ELSE IF loop = "cooldown"
  THEN (IF cf.V = 0 THEN RemainingOf(cf, r) + (k + half)
        ELSE SmallerOf(RemainingOf(cf, r) + (k + 1), Batch1(cf)))
  ELSE Batch1(cf)

InputsAt(cf, r, p) == InputsIn(cf, r, LoopAt(cf, p), p.k, p.half)
GradsAt(cf, r, p)  == GradsIn(cf, r, LoopAt(cf, p), p.k, p.half)

PlaceOK(cf, r, p) ==
  /\ p \in [loop : DOMAIN LoopsOf(cf), k : Nat, half : {0, 1}]
  /\ p.k < TurnsOf(cf, r, LoopAt(cf, p))

\* These are the module's.
LEMMA ProgramIs ==
  ASSUME config \in Configs, NEW r
  PROVE  Loops = LoopsOf(config) /\ \A loop : Turns(r, loop) = TurnsOf(config, r, loop)
<1>1. /\ NumWarmup(r) = WarmupOf(config, r) /\ Remaining(r) = RemainingOf(config, r)
      /\ P = config.P /\ V = config.V /\ M = config.M
  BY WarmupIs
<1>2. config.P \in Nat \ {0} /\ config.V \in Nat
  BY ConfigType
<1>3. Loops = LoopsOf(config)
  <2>1. CASE P = 1
    BY <1>1, <2>1 DEF Loops, LoopsOf
  <2>2. CASE P > 1 /\ V = 0
    BY <1>1, <1>2, <2>2 DEF Loops, LoopsOf
  <2>3. CASE P > 1 /\ V # 0
    BY <1>1, <1>2, <2>3 DEF Loops, LoopsOf
  <2>4. QED BY <1>1, <1>2, <2>1, <2>2, <2>3
<1>4. AllWarmup <=> config.V > 0 /\ ~config.forwardOnly /\ config.M = config.P
  BY <1>1 DEF AllWarmup
<1>5. ASSUME NEW loop PROVE Turns(r, loop) = TurnsOf(config, r, loop)
  BY <1>1, <1>4 DEF Turns, TurnsOf
<1>6. QED BY <1>3, <1>5

\* The loops of the three programs.
LEMMA LoopsAre ==
  ASSUME NEW cf \in Configs
  PROVE  LET n == Len(LoopsOf(cf))
             s == LoopsOf(cf)
         IN  /\ n \in Nat /\ DOMAIN s = 1 .. n
             /\ cf.P = 1 => n = 2 /\ s[1] = "plain" /\ s[2] = "done" /\ cf.V = 0
             /\ cf.P # 1 /\ cf.V = 0 =>
                  /\ n = 6 /\ s[1] = "warmup" /\ s[2] = "first" /\ s[3] = "steady"
                  /\ s[4] = "cooldown" /\ s[5] = "finish" /\ s[6] = "done"
             /\ cf.P # 1 /\ cf.V # 0 =>
                  /\ n = 7 /\ s[1] = "first" /\ s[2] = "warmup" /\ s[3] = "steady"
                  /\ s[4] = "flush" /\ s[5] = "cooldown" /\ s[6] = "finish" /\ s[7] = "done"
<1> DEFINE s == LoopsOf(cf)
<1>1. cf.P = 1 => cf.V = 0
  BY ConfigType
<1>2. CASE cf.P = 1
  <2>1. s = <<"plain", "done">>
    BY <1>2 DEF LoopsOf
  <2> HIDE DEF s
  <2>2. Len(s) = 2 /\ DOMAIN s = 1 .. 2 /\ s[1] = "plain" /\ s[2] = "done"
    BY <2>1
  <2>3. QED BY <1>1, <1>2, <2>2 DEF s
<1>3. CASE cf.P # 1 /\ cf.V = 0
  <2>1. s = <<"warmup", "first", "steady", "cooldown", "finish", "done">>
    BY <1>3 DEF LoopsOf
  <2> HIDE DEF s
  <2>2. Len(s) = 6 /\ DOMAIN s = 1 .. 6
    BY <2>1
  <2>3. s[1] = "warmup" /\ s[2] = "first" /\ s[3] = "steady" /\ s[4] = "cooldown"
        /\ s[5] = "finish" /\ s[6] = "done"
    BY <2>1
  <2>4. QED BY <1>3, <2>2, <2>3 DEF s
<1>4. CASE cf.P # 1 /\ cf.V # 0
  <2>1. s = <<"first", "warmup", "steady", "flush", "cooldown", "finish", "done">>
    BY <1>4 DEF LoopsOf
  <2> HIDE DEF s
  <2>2. Len(s) = 7 /\ DOMAIN s = 1 .. 7
    BY <2>1
  <2>3. s[1] = "first" /\ s[2] = "warmup" /\ s[3] = "steady" /\ s[4] = "flush"
        /\ s[5] = "cooldown" /\ s[6] = "finish" /\ s[7] = "done"
    BY <2>1
  <2>4. QED BY <1>4, <2>2, <2>3 DEF s
<1>5. QED BY <1>2, <1>3, <1>4

\* A loop ends with as many passes as the next one starts with.
LEMMA LoopEnds ==
  ASSUME NEW cf \in Configs, NEW r \in Devices(cf), NEW l \in 1 .. Len(LoopsOf(cf)) - 1
  PROVE  LET a == LoopsOf(cf)[l]
             b == LoopsOf(cf)[l + 1]
         IN  /\ TurnsOf(cf, r, a) \in Nat
             /\ ForwardsIn(cf, r, a, TurnsOf(cf, r, a), 0) = ForwardsIn(cf, r, b, 0, 0)
             /\ BackwardsIn(cf, r, a, TurnsOf(cf, r, a)) = BackwardsIn(cf, r, b, 0)
             /\ InputsIn(cf, r, a, TurnsOf(cf, r, a), 0) = InputsIn(cf, r, b, 0, 0)
             /\ GradsIn(cf, r, a, TurnsOf(cf, r, a), 0) = GradsIn(cf, r, b, 0, 0)
<1> DEFINE s == LoopsOf(cf)
           a == s[l]
           b == s[l + 1]
           w == WarmupOf(cf, r)
           m == RemainingOf(cf, r)
           n == Batch1(cf)
<1>1. w \in Nat /\ m \in Nat /\ n \in Nat /\ w + m = n /\ cf.M \in Nat /\ cf.V \in Nat
      /\ cf.forwardOnly \in BOOLEAN
  BY WarmupType, ConfigType
<1>2. cf.V = 0 => n = cf.M
  BY <1>1 DEF Batch1, ChunkNumber
<1>3. cf.V # 0 /\ cf.forwardOnly => m = 0
  <2>1. cf.V # 0 /\ cf.forwardOnly => w = n
    BY <1>1 DEF WarmupOf
  <2>2. QED BY <1>1, <2>1
<1> HIDE DEF w, m, n
<1>4. /\ a = "plain" => b = "done" /\ cf.V = 0
      /\ a = "warmup" /\ cf.V = 0 => b = "first"
      /\ a = "warmup" /\ cf.V # 0 => b = "steady"
      /\ a = "first" /\ cf.V = 0 => b = "steady"
      /\ a = "first" /\ cf.V # 0 => b = "warmup"
      /\ a = "steady" /\ cf.V = 0 => b = "cooldown"
      /\ a = "steady" /\ cf.V # 0 => b = "flush"
      /\ a = "flush" => b = "cooldown" /\ cf.V # 0
      /\ a = "cooldown" => b = "finish"
      /\ a = "finish" => b = "done"
      /\ a \in {"plain", "warmup", "first", "steady", "flush", "cooldown", "finish"}
  <2> HIDE DEF s
  <2>0. l \in 1 .. Len(s) - 1 /\ s = LoopsOf(cf)
    BY DEF s
  <2>1. CASE cf.P = 1
    <3>1. Len(s) = 2 /\ s[1] = "plain" /\ s[2] = "done" /\ cf.V = 0
      BY <2>0, <2>1, LoopsAre
    <3>2. (l = 1 /\ l + 1 = 2)
      BY <2>0, <3>1
    <3>3. a = "plain" /\ b = "done"
      BY <3>1, <3>2
    <3>4. QED BY <3>1, <3>3
  <2>2. CASE cf.P # 1 /\ cf.V = 0
    <3>1. /\ Len(s) = 6 /\ s[1] = "warmup" /\ s[2] = "first" /\ s[3] = "steady"
          /\ s[4] = "cooldown" /\ s[5] = "finish" /\ s[6] = "done"
      BY <2>0, <2>2, LoopsAre
    <3>2. (l = 1 /\ l + 1 = 2) \/ (l = 2 /\ l + 1 = 3) \/ (l = 3 /\ l + 1 = 4)
          \/ (l = 4 /\ l + 1 = 5) \/ (l = 5 /\ l + 1 = 6)
      BY <2>0, <3>1
    <3>3. (a = "warmup" /\ b = "first") \/ (a = "first" /\ b = "steady")
          \/ (a = "steady" /\ b = "cooldown") \/ (a = "cooldown" /\ b = "finish")
          \/ (a = "finish" /\ b = "done")
      BY <3>1, <3>2
    <3> HIDE DEF a, b
    <3>4. QED BY <2>2, <3>3
  <2>3. CASE cf.P # 1 /\ cf.V # 0
    <3>1. /\ Len(s) = 7 /\ s[1] = "first" /\ s[2] = "warmup" /\ s[3] = "steady"
          /\ s[4] = "flush" /\ s[5] = "cooldown" /\ s[6] = "finish" /\ s[7] = "done"
      BY <2>0, <2>3, LoopsAre
    <3>2. (l = 1 /\ l + 1 = 2) \/ (l = 2 /\ l + 1 = 3) \/ (l = 3 /\ l + 1 = 4)
          \/ (l = 4 /\ l + 1 = 5) \/ (l = 5 /\ l + 1 = 6) \/ (l = 6 /\ l + 1 = 7)
      BY <2>0, <3>1
    <3>3. (a = "first" /\ b = "warmup") \/ (a = "warmup" /\ b = "steady")
          \/ (a = "steady" /\ b = "flush") \/ (a = "flush" /\ b = "cooldown")
          \/ (a = "cooldown" /\ b = "finish") \/ (a = "finish" /\ b = "done")
      BY <3>1, <3>2
    <3> HIDE DEF a, b
    <3>4. QED BY <2>3, <3>3
  <2>4. QED BY <2>1, <2>2, <2>3
<1> HIDE DEF a, b
<1>5. /\ TurnsOf(cf, r, a) \in Nat
      /\ ForwardsIn(cf, r, a, TurnsOf(cf, r, a), 0) = ForwardsIn(cf, r, b, 0, 0)
      /\ BackwardsIn(cf, r, a, TurnsOf(cf, r, a)) = BackwardsIn(cf, r, b, 0)
  <2>1. CASE a = "plain"
    BY <1>1, <1>2, <1>4, <2>1 DEF TurnsOf, ForwardsIn, BackwardsIn, n
  <2>2. CASE a = "warmup"
    BY <1>1, <1>4, <2>2 DEF TurnsOf, ForwardsIn, BackwardsIn, w
  <2>3. CASE a = "first"
    BY <1>1, <1>4, <2>3 DEF TurnsOf, ForwardsIn, BackwardsIn, w
  <2>4. CASE a = "steady"
    BY <1>1, <1>4, <2>4 DEF TurnsOf, ForwardsIn, BackwardsIn, w, m, n
  <2>5. CASE a = "flush"
    BY <1>1, <1>3, <1>4, <2>5 DEF TurnsOf, ForwardsIn, BackwardsIn, m, n
  <2>6. CASE a = "cooldown"
    BY <1>1, <1>4, <2>6 DEF TurnsOf, ForwardsIn, BackwardsIn, w, m, n
  <2>7. CASE a = "finish"
    BY <1>1, <1>4, <2>7 DEF TurnsOf, ForwardsIn, BackwardsIn, n
  <2>8. QED BY <1>4, <2>1, <2>2, <2>3, <2>4, <2>5, <2>6, <2>7
<1>6. n > 0 /\ (AllAhead(cf) => m = 0) /\ (cf.V # 0 => w > 0)
  <2>1. n > 0
    BY ConfigType DEF n
  <2>2. AllAhead(cf) => w = n
    BY <1>1 DEF AllAhead, WarmupOf, w, n
  <2>3. AllAhead(cf) => m = 0
    BY <1>1, <2>2
  <2>4. ASSUME cf.V # 0, w = 0 PROVE FALSE
    <3> DEFINE c == ChunkNumber(cf) - 1
    <3>1. c \in Nat \ {0} /\ cf.P \in Nat \ {0}
      BY <1>1, <2>4, ConfigType DEF ChunkNumber
    <3>2. m > 0 => w >= c * cf.P
      BY WarmupType DEF w, m
    <3> HIDE DEF c
    <3>3. c * cf.P \in Nat \ {0}
      BY <3>1, ProductPositive
    <3>4. m > 0
      BY <1>1, <2>1, <2>4
    <3>5. QED BY <2>4, <3>2, <3>3, <3>4
  <2>5. QED BY <1>1, <2>1, <2>3, <2>4
<1>7. /\ InputsIn(cf, r, a, TurnsOf(cf, r, a), 0) = InputsIn(cf, r, b, 0, 0)
      /\ GradsIn(cf, r, a, TurnsOf(cf, r, a), 0) = GradsIn(cf, r, b, 0, 0)
  <2>1. CASE a = "plain"
    BY <1>1, <1>2, <1>4, <2>1 DEF TurnsOf, InputsIn, GradsIn, n
  <2>2. CASE a = "warmup" /\ cf.V = 0
    BY <1>1, <1>4, <2>2 DEF TurnsOf, InputsIn, GradsIn, One, w
  <2>3. CASE a = "warmup" /\ cf.V # 0
    BY <1>1, <1>4, <1>6, <2>3 DEF TurnsOf, InputsIn, GradsIn, One, SmallerOf, w, n
  <2>4. CASE a = "first" /\ cf.V = 0
    BY <1>1, <1>4, <2>4 DEF TurnsOf, InputsIn, GradsIn, SmallerOf, w, m, n
  <2>5. CASE a = "first" /\ cf.V # 0
    BY <1>1, <1>4, <1>6, <2>5 DEF TurnsOf, InputsIn, GradsIn, One, SmallerOf, w, n
  <2>6. CASE a = "steady" /\ cf.V = 0
    BY <1>1, <1>4, <2>6 DEF TurnsOf, InputsIn, GradsIn, SmallerOf, w, m, n
  <2>7. CASE a = "steady" /\ cf.V # 0
    BY <1>1, <1>3, <1>4, <1>6, <2>7 DEF TurnsOf, InputsIn, GradsIn, One, SmallerOf, w, m, n
  <2>8. CASE a = "flush"
    BY <1>1, <1>3, <1>4, <1>6, <2>8 DEF TurnsOf, InputsIn, GradsIn, AllAhead, SmallerOf, w, m, n
  <2>9. CASE a = "cooldown"
    BY <1>1, <1>4, <2>9 DEF TurnsOf, InputsIn, GradsIn, SmallerOf, w, m, n
  <2>10. CASE a = "finish"
    BY <1>1, <1>4, <2>10 DEF TurnsOf, InputsIn, GradsIn, n
  <2>11. QED BY <1>4, <2>1, <2>2, <2>3, <2>4, <2>5, <2>6, <2>7, <2>8, <2>9, <2>10
<1>8. QED BY <1>5, <1>7 DEF a, b

\* m is the first loop from number n on that has a turn.
StartsAt(cf, r, n, m) ==
  /\ m \in n .. Len(LoopsOf(cf))
  /\ TurnsOf(cf, r, LoopsOf(cf)[m]) > 0
  /\ \A j \in n .. m - 1 : TurnsOf(cf, r, LoopsOf(cf)[j]) = 0

\* The passes done at the start of loops n and m.
SamePasses(cf, r, n, m) ==
  /\ ForwardsIn(cf, r, LoopsOf(cf)[n], 0, 0) = ForwardsIn(cf, r, LoopsOf(cf)[m], 0, 0)
  /\ BackwardsIn(cf, r, LoopsOf(cf)[n], 0) = BackwardsIn(cf, r, LoopsOf(cf)[m], 0)
  /\ InputsIn(cf, r, LoopsOf(cf)[n], 0, 0) = InputsIn(cf, r, LoopsOf(cf)[m], 0, 0)
  /\ GradsIn(cf, r, LoopsOf(cf)[n], 0, 0) = GradsIn(cf, r, LoopsOf(cf)[m], 0, 0)

StartsSo(cf, r, n) == \E m \in Nat : StartsAt(cf, r, n, m) /\ SamePasses(cf, r, n, m)

\* From every loop there is one to start, and loops without turns have no passes.
LEMMA StartExists ==
  ASSUME NEW cf \in Configs, NEW r \in Devices(cf)
  PROVE  \A n \in 1 .. Len(LoopsOf(cf)) : StartsSo(cf, r, n)
<1> DEFINE s == LoopsOf(cf)
           n == Len(s)
<1>1. n \in {2, 6, 7} /\ s[n] = "done"
  <2>1. CASE cf.P = 1
    BY <2>1, LoopsAre
  <2>2. CASE cf.P # 1 /\ cf.V = 0
    BY <2>2, LoopsAre
  <2>3. CASE cf.P # 1 /\ cf.V # 0
    BY <2>3, LoopsAre
  <2>4. QED BY <2>1, <2>2, <2>3
<1>2. StartsSo(cf, r, n)
  <2>1. TurnsOf(cf, r, s[n]) = 1
    BY <1>1 DEF TurnsOf
  <2>2. StartsAt(cf, r, n, n)
    BY <1>1, <2>1 DEF StartsAt
  <2>3. SamePasses(cf, r, n, n)
    BY DEF SamePasses
  <2>4. QED BY <1>1, <2>2, <2>3 DEF StartsSo
<1>3. ASSUME NEW l \in 1 .. n - 1, NEW h, h = l + 1, StartsSo(cf, r, h)
      PROVE  StartsSo(cf, r, l)
  <2>1. PICK m \in Nat : StartsAt(cf, r, h, m) /\ SamePasses(cf, r, h, m)
    BY <1>3 DEF StartsSo
  <2> DEFINE t == TurnsOf(cf, r, s[l])
  <2>2. /\ t \in Nat
        /\ ForwardsIn(cf, r, s[l], t, 0) = ForwardsIn(cf, r, s[h], 0, 0)
        /\ BackwardsIn(cf, r, s[l], t) = BackwardsIn(cf, r, s[h], 0)
        /\ InputsIn(cf, r, s[l], t, 0) = InputsIn(cf, r, s[h], 0, 0)
        /\ GradsIn(cf, r, s[l], t, 0) = GradsIn(cf, r, s[h], 0, 0)
    BY <1>3, LoopEnds
  <2>3. CASE t = 0
    <3>1. SamePasses(cf, r, l, m)
      BY <2>1, <2>2, <2>3 DEF SamePasses
    <3>2. StartsAt(cf, r, l, m)
      <4> HIDE DEF n
      <4>1. m \in h .. n /\ TurnsOf(cf, r, s[m]) > 0
            /\ \A j \in h .. m - 1 : TurnsOf(cf, r, s[j]) = 0
        BY <2>1 DEF StartsAt, n
      <4>2. m \in l .. n
        BY <1>1, <1>3, <4>1
      <4>3. ASSUME NEW j \in l .. m - 1 PROVE TurnsOf(cf, r, s[j]) = 0
        <5>1. j = l \/ j \in h .. m - 1
          BY <1>3
        <5>2. QED BY <2>3, <4>1, <5>1
      <4>4. QED BY <4>1, <4>2, <4>3 DEF StartsAt, n
    <3>3. QED BY <3>1, <3>2 DEF StartsSo
  <2>4. CASE t # 0
    <3>1. StartsAt(cf, r, l, l)
      BY <1>1, <2>2, <2>4 DEF StartsAt
    <3>2. SamePasses(cf, r, l, l)
      BY DEF SamePasses
    <3>3. QED BY <3>1, <3>2 DEF StartsSo
  <2>5. QED BY <2>3, <2>4
<1> HIDE DEF n
<1>4. ASSUME n = 2 PROVE \A l \in 1 .. n : StartsSo(cf, r, l)
  <2>1. StartsSo(cf, r, 2)
    BY <1>2, <1>4
  <2>2. StartsSo(cf, r, 1)
    BY <1>3, <1>4, <2>1
  <2>3. QED BY <1>4, <2>1, <2>2
<1>5. ASSUME n \in {6, 7} PROVE \A l \in 1 .. n : StartsSo(cf, r, l)
  <2>1. n = 7 => StartsSo(cf, r, 7)
    BY <1>2
  <2>2. StartsSo(cf, r, 6)
    BY <1>2, <1>3, <1>5, <2>1
  <2>3. StartsSo(cf, r, 5)
    BY <1>3, <1>5, <2>2
  <2>4. StartsSo(cf, r, 4)
    BY <1>3, <1>5, <2>3
  <2>5. StartsSo(cf, r, 3)
    BY <1>3, <1>5, <2>4
  <2>6. StartsSo(cf, r, 2)
    BY <1>3, <1>5, <2>5
  <2>7. StartsSo(cf, r, 1)
    BY <1>3, <1>5, <2>6
  <2>8. QED BY <1>5, <2>1, <2>2, <2>3, <2>4, <2>5, <2>6, <2>7
<1>6. QED BY <1>1, <1>4, <1>5 DEF n

\* There is only one to start.
LEMMA StartUnique ==
  ASSUME NEW cf \in Configs, NEW r \in Devices(cf), NEW n \in 1 .. Len(LoopsOf(cf)),
         NEW m \in Nat, NEW l \in Nat, StartsAt(cf, r, n, m), StartsAt(cf, r, n, l)
  PROVE  l = m
<1>1. m >= n /\ l >= n
  BY DEF StartsAt
<1>2. ASSUME l < m PROVE FALSE
  <2>1. l \in n .. m - 1
    BY <1>1, <1>2
  <2>2. TurnsOf(cf, r, LoopsOf(cf)[l]) = 0 /\ TurnsOf(cf, r, LoopsOf(cf)[l]) > 0
    BY <2>1 DEF StartsAt
  <2>3. QED BY <2>2
<1>3. ASSUME m < l PROVE FALSE
  <2>1. m \in n .. l - 1
    BY <1>1, <1>3
  <2>2. TurnsOf(cf, r, LoopsOf(cf)[m]) = 0 /\ TurnsOf(cf, r, LoopsOf(cf)[m]) > 0
    BY <2>1 DEF StartsAt
  <2>3. QED BY <2>2
<1>4. QED BY <1>2, <1>3

\* A place at the start of loop n or, if that has no turn, of a later one.
Started(cf, r, n, q) ==
  /\ PlaceOK(cf, r, q) /\ q.loop >= n /\ q.k = 0 /\ q.half = 0
  /\ ForwardsAt(cf, r, q) = ForwardsIn(cf, r, LoopsOf(cf)[n], 0, 0)
  /\ BackwardsAt(cf, r, q) = BackwardsIn(cf, r, LoopsOf(cf)[n], 0)
  /\ InputsAt(cf, r, q) = InputsIn(cf, r, LoopsOf(cf)[n], 0, 0)
  /\ GradsAt(cf, r, q) = GradsIn(cf, r, LoopsOf(cf)[n], 0, 0)

\* LoopFrom goes there.
LEMMA LoopFromStarts ==
  ASSUME config \in Configs, NEW r \in Devices(config),
         NEW n \in 1 .. Len(LoopsOf(config))
  PROVE  Started(config, r, n, LoopFrom(r, n))
<1> DEFINE Q(i) == Turns(r, Loops[i]) > 0 /\ \A j \in n .. i - 1 : Turns(r, Loops[j]) = 0
           l == CHOOSE i \in n .. Len(Loops) : Q(i)
           q == LoopFrom(r, n)
<1>1. Loops = LoopsOf(config) /\ \A loop : Turns(r, loop) = TurnsOf(config, r, loop)
  BY ProgramIs
<1>2. PICK m \in Nat : StartsAt(config, r, n, m) /\ SamePasses(config, r, n, m)
  BY StartExists DEF StartsSo
<1>3. m \in n .. Len(Loops) /\ Q(m)
  BY <1>1, <1>2 DEF StartsAt
<1>4. l \in n .. Len(Loops) /\ Q(l)
  <2> HIDE DEF Q
  <2>1. QED BY <1>3
<1>5. q = [loop |-> l, k |-> 0, half |-> 0]
  BY DEF LoopFrom
<1> HIDE DEF l, q
<1>6. l \in Nat /\ StartsAt(config, r, n, l)
  BY <1>1, <1>4, LoopsAre DEF StartsAt
<1>7. l = m
  BY <1>2, <1>6, StartUnique
<1>8. SamePasses(config, r, n, l) /\ TurnsOf(config, r, LoopsOf(config)[l]) > 0
  BY <1>2, <1>6, <1>7 DEF StartsAt
<1>9. q.loop = l /\ q.k = 0 /\ q.half = 0 /\ LoopAt(config, q) = LoopsOf(config)[l]
  BY <1>5 DEF LoopAt
<1>10. l \in DOMAIN LoopsOf(config) /\ l >= n
  BY <1>1, <1>4, LoopsAre
<1>11. PlaceOK(config, r, q)
  BY <1>5, <1>8, <1>9, <1>10 DEF PlaceOK
<1>12. ForwardsAt(config, r, q) = ForwardsIn(config, r, LoopsOf(config)[n], 0, 0)
       /\ BackwardsAt(config, r, q) = BackwardsIn(config, r, LoopsOf(config)[n], 0)
       /\ InputsAt(config, r, q) = InputsIn(config, r, LoopsOf(config)[n], 0, 0)
       /\ GradsAt(config, r, q) = GradsIn(config, r, LoopsOf(config)[n], 0, 0)
  BY <1>8, <1>9 DEF ForwardsAt, BackwardsAt, InputsAt, GradsAt, SamePasses
<1>13. QED BY <1>9, <1>10, <1>11, <1>12 DEF Started, q

\* From p, one turn of the loop is over.
TurnOver(cf, r, p, q) ==
  /\ PlaceOK(cf, r, q) /\ q.half = 0
  /\ ForwardsAt(cf, r, q) = ForwardsIn(cf, r, LoopAt(cf, p), p.k + 1, 0)
  /\ BackwardsAt(cf, r, q) = BackwardsIn(cf, r, LoopAt(cf, p), p.k + 1)
  /\ InputsAt(cf, r, q) = InputsIn(cf, r, LoopAt(cf, p), p.k + 1, 0)
  /\ GradsAt(cf, r, q) = GradsIn(cf, r, LoopAt(cf, p), p.k + 1, 0)
  /\ p.k + 1 < TurnsOf(cf, r, LoopAt(cf, p)) => q.loop = p.loop /\ q.k = p.k + 1
  /\ p.k + 1 = TurnsOf(cf, r, LoopAt(cf, p)) => q.loop > p.loop

\* Following goes there.
LEMMA FollowingIs ==
  ASSUME config \in Configs, NEW r \in Devices(config),
         PlaceOK(config, r, place[r]), LoopAt(config, place[r]) # "done"
  PROVE  TurnOver(config, r, place[r], Following(r))
<1> DEFINE p == place[r]
           l == p.loop
           k == p.k
           loop == LoopAt(config, p)
           t == TurnsOf(config, r, loop)
           q == Following(r)
<1>1. Loops = LoopsOf(config) /\ \A x : Turns(r, x) = TurnsOf(config, r, x)
  BY ProgramIs
<1>2. p \in [loop : DOMAIN LoopsOf(config), k : Nat, half : {0, 1}] /\ k < t
  BY DEF PlaceOK
<1>3. l \in 1 .. Len(LoopsOf(config)) - 1
  <2>1. CASE config.P = 1
    BY <1>2, <2>1, LoopsAre DEF LoopAt
  <2>2. CASE config.P # 1 /\ config.V = 0
    BY <1>2, <2>2, LoopsAre DEF LoopAt
  <2>3. CASE config.P # 1 /\ config.V # 0
    BY <1>2, <2>3, LoopsAre DEF LoopAt
  <2>4. QED BY <2>1, <2>2, <2>3
<1>4. l + 1 \in 1 .. Len(LoopsOf(config)) /\ l \in Nat
  BY <1>3, LoopsAre
<1>5. /\ t \in Nat
      /\ ForwardsIn(config, r, loop, t, 0) = ForwardsIn(config, r, LoopsOf(config)[l + 1], 0, 0)
      /\ BackwardsIn(config, r, loop, t) = BackwardsIn(config, r, LoopsOf(config)[l + 1], 0)
      /\ InputsIn(config, r, loop, t, 0) = InputsIn(config, r, LoopsOf(config)[l + 1], 0, 0)
      /\ GradsIn(config, r, loop, t, 0) = GradsIn(config, r, LoopsOf(config)[l + 1], 0, 0)
  BY <1>3, LoopEnds DEF LoopAt
<1>6. q = IF k + 1 < t THEN [p EXCEPT !.k = @ + 1, !.half = 0] ELSE LoopFrom(r, l + 1)
  BY <1>1 DEF Following, LoopAt
<1>7. CASE k + 1 < t
  <2>1. q = [p EXCEPT !.k = @ + 1, !.half = 0]
    BY <1>6, <1>7
  <2> DEFINE D == DOMAIN LoopsOf(config)
  <2>1a. p \in [loop : D, k : Nat, half : {0, 1}] /\ k + 1 \in Nat
    BY <1>2
  <2> HIDE DEF q, D, p
  <2>2a. q.loop = l /\ q.k = k + 1 /\ q.half = 0
         /\ q \in [loop : D, k : Nat, half : {0, 1}]
    BY <2>1, <2>1a
  <2> USE DEF D, p
  <2>2. q.loop = l /\ q.k = k + 1 /\ q.half = 0
        /\ q \in [loop : DOMAIN LoopsOf(config), k : Nat, half : {0, 1}]
    BY <2>2a
  <2>3. LoopAt(config, q) = loop
    BY <2>2 DEF LoopAt
  <2>4. PlaceOK(config, r, q)
    BY <1>7, <2>2, <2>3 DEF PlaceOK
  <2>5. ForwardsAt(config, r, q) = ForwardsIn(config, r, loop, k + 1, 0)
        /\ BackwardsAt(config, r, q) = BackwardsIn(config, r, loop, k + 1)
        /\ InputsAt(config, r, q) = InputsIn(config, r, loop, k + 1, 0)
        /\ GradsAt(config, r, q) = GradsIn(config, r, loop, k + 1, 0)
    BY <2>2, <2>3 DEF ForwardsAt, BackwardsAt, InputsAt, GradsAt
  <2>6. QED BY <1>2, <1>5, <1>7, <2>2, <2>4, <2>5 DEF TurnOver, q
<1>8. CASE ~(k + 1 < t)
  <2>1. q = LoopFrom(r, l + 1)
    BY <1>6, <1>8
  <2>2. k + 1 = t
    BY <1>2, <1>5, <1>8
  <2> DEFINE n == l + 1
  <2>3. n \in 1 .. Len(LoopsOf(config))
    BY <1>4
  <2> HIDE DEF n
  <2>4. Started(config, r, n, LoopFrom(r, n))
    BY <2>3, LoopFromStarts
  <2>5. Started(config, r, l + 1, q)
    BY <2>1, <2>4 DEF n
  <2> HIDE DEF q, t, k
  <2>6. PlaceOK(config, r, q) /\ q.half = 0 /\ q.loop >= l + 1
        /\ ForwardsAt(config, r, q) = ForwardsIn(config, r, loop, t, 0)
        /\ BackwardsAt(config, r, q) = BackwardsIn(config, r, loop, t)
        /\ InputsAt(config, r, q) = InputsIn(config, r, loop, t, 0)
        /\ GradsAt(config, r, q) = GradsIn(config, r, loop, t, 0)
    BY <1>5, <2>5 DEF Started
  <2>7. q.loop \in Nat
    BY <2>6, LoopsAre DEF PlaceOK
  <2>8. q.loop > l /\ t \in Nat /\ k \in Nat
    BY <1>2, <1>4, <1>5, <2>6, <2>7 DEF k
  <2>9. QED BY <2>2, <2>6, <2>8 DEF TurnOver, q, t, k
<1>9. QED BY <1>7, <1>8

----
(***************************************************************************)
(* The parameters of a chunk are launched before its first pass.           *)
(***************************************************************************)
ParamsOK(cf, r, d, f) ==
  cf.sync = "custom" =>
    \A c \in ChunksOf(cf) : c < 2 \/ f + r > (c - 1) * cf.P => c \in d.params

\* The chunks of passes, in the terms of a configuration.
LEMMA ChunkIs ==
  ASSUME config \in Configs, NEW k
  PROVE  /\ GetModelChunkId(k, TRUE) = ForwardChunk(config, k)
         /\ GetModelChunkId(k, FALSE) = BackwardChunk(config, k)
<1>1. P = config.P /\ NumModelChunks = ChunkNumber(config)
  BY WarmupIs
<1>2. QED BY <1>1 DEF GetModelChunkId, ForwardChunk, BackwardChunk, InChunk

\* The first pass of chunk c.
LEMMA FirstPass ==
  ASSUME NEW cf \in Configs, NEW c \in ChunksOf(cf), NEW n, n = c * cf.P
  PROVE  /\ n \in Nat /\ ForwardChunk(cf, n) = c /\ n % cf.P = 0
         /\ n < cf.P * ChunkNumber(cf) /\ (cf.V > 0 => n < Batch1(cf))
<1> DEFINE p == cf.P
           v == ChunkNumber(cf)
           g == p * v
<1>1. p \in Nat \ {0} /\ v \in Nat \ {0} /\ c \in 0 .. v - 1 /\ n = c * p /\ c \in Nat
  BY ConfigType DEF ChunksOf
<1>2. n \in Nat /\ n < g /\ g \in Nat
  <2> HIDE DEF p, v
  <2>1. (c + 1) * p <= v * p /\ (c + 1) * p = c * p + p
    BY <1>1, ProductMonotone, ProductNext
  <2>2. c * p \in Nat /\ v * p = g
    BY <1>1, ProductNat
  <2>3. QED BY <1>1, <2>1, <2>2
<1>3. ForwardChunk(cf, n) = c /\ n % p = 0
  <2>1. Sums(n, 0, c, 0, p, v)
    <3> HIDE DEF p, v
    <3>1. 0 * (p * v) = 0
      BY <1>1, ProductNat
    <3>2. n = 0 * (p * v) + (c * p + 0)
      BY <1>1, <1>2, <3>1
    <3>3. QED BY <3>2 DEF Sums
  <2>2. Placed(n, 0, c, 0, p, v)
    <3> HIDE DEF p, v
    <3>1. 0 \in 0 .. p - 1
      BY <1>1
    <3>2. QED BY <1>1, <1>2, <2>1, <3>1, PlaceOfSum
  <2>3. QED BY <2>2 DEF Placed, ForwardChunk
<1>4. cf.V > 0 => n < Batch1(cf)
  <2> SUFFICES ASSUME cf.V > 0 PROVE n < Batch1(cf)
    OBVIOUS
  <2>1. PICK m \in Nat \ {0} : Batch1(cf) = m * (cf.P * ChunkNumber(cf))
    BY WholeGroups
  <2>2. Batch1(cf) = m * g
    BY <2>1
  <2> HIDE DEF g
  <2>3. m * g >= 1 * g /\ 1 * g = g
    BY <1>2, <2>1, ProductMonotone
  <2>4. QED BY <1>2, <2>2, <2>3
<1>5. QED BY <1>2, <1>3, <1>4

\* ParamSync does so, r turns ahead.
LEMMA ParamSyncDoes ==
  ASSUME config \in Configs, config.V > 0, NEW r \in Devices(config), NEW d,
         Shaped(config, d), NEW k \in Nat, ParamsOK(config, r, d, k)
  PROVE  LET e == ParamSync(d, r, k)
         IN  /\ DOMAIN e = DOMAIN d /\ e.fed = d.fed /\ e.summed = d.summed
             /\ e.outputs = d.outputs /\ SameSync(d, e)
             /\ ParamsOK(config, r, e, k + 1)
<1> DEFINE e == ParamSync(d, r, k)
           n == k + r
           x == GetModelChunkId(n, TRUE) + 1
           now == /\ config.sync = "custom" /\ n < Total
                  /\ IsFirstMicrobatchForModelChunk(n) /\ 1 < x /\ x < V
<1>1. e = IF now THEN [d EXCEPT !.params = @ \cup {x}] ELSE d
  BY DEF ParamSync
<1>2. n \in Nat /\ r \in Nat
  BY DEF Devices
<1>3. Total = Batch1(config) /\ P = config.P /\ V = config.V
      /\ NumModelChunks = ChunkNumber(config) /\ ChunkNumber(config) = config.V
  BY WarmupIs, ConfigType DEF ChunkNumber
<1> HIDE DEF e
<1>4. DOMAIN e = DOMAIN d /\ e.fed = d.fed /\ e.summed = d.summed
      /\ e.outputs = d.outputs /\ SameSync(d, e)
  <2> HIDE DEF now, x
  <2>1. QED BY <1>1 DEF Shaped, Fields, SameSync
<1>5. d.params \subseteq e.params /\ (now => x \in e.params)
  <2> HIDE DEF now, x
  <2>1. QED BY <1>1 DEF Shaped, Fields
<1>6. ASSUME config.sync = "custom", NEW c \in ChunksOf(config),
             c < 2 \/ k + 1 + r > (c - 1) * config.P
      PROVE  c \in e.params
  <2> DEFINE y == (c - 1) * config.P
             q == c - 1
  <2>1. c \in Nat /\ c < config.V /\ config.P \in Nat
    BY <1>3, ConfigType DEF ChunksOf
  <2>2. CASE c < 2 \/ n > y
    BY <1>2, <1>5, <1>6, <2>2 DEF ParamsOK
  <2>3. CASE ~(c < 2 \/ n > y)
    <3>0. ~(c < 2)
      <4> HIDE DEF n, y
      <4>1. QED BY <2>3
    <3>1. q \in ChunksOf(config) /\ q \in Nat /\ c >= 2
      <4>1. ChunksOf(config) = 0 .. config.V - 1 /\ config.V \in Nat
        BY <1>3, ConfigType DEF ChunksOf
      <4> HIDE DEF n, y
      <4>2. QED BY <2>1, <3>0, <4>1
    <3>2. q * config.P \in Nat
      BY <2>1, <3>1, ProductNat
    <3>3. n = q * config.P
      BY <1>2, <1>6, <2>3, <3>2
    <3> HIDE DEF q, n
    <3>4. ForwardChunk(config, n) = q /\ n % config.P = 0
          /\ n < config.P * ChunkNumber(config) /\ n < Batch1(config)
      BY <3>1, <3>3, FirstPass
    <3>5. x = c
      <4>1. GetModelChunkId(n, TRUE) = q
        BY <3>4, ChunkIs
      <4>2. x = q + 1
        BY <4>1
      <4> HIDE DEF x
      <4>3. QED BY <2>1, <4>2 DEF q
    <3>6. now
      <4>1. IsFirstMicrobatchForModelChunk(n)
        BY <1>3, <3>4 DEF IsFirstMicrobatchForModelChunk
      <4>2. n < Total /\ 1 < x /\ x < V
        <5> HIDE DEF x
        <5>1. QED BY <1>3, <2>1, <3>1, <3>4, <3>5
      <4>3. QED BY <1>6, <4>1, <4>2
    <3>7. QED BY <1>5, <3>5, <3>6
  <2>4. QED BY <2>2, <2>3
<1>7. ParamsOK(config, r, e, k + 1)
  BY <1>6 DEF ParamsOK
<1>8. QED BY <1>4, <1>7 DEF e

\* A chunk that was passed through was launched.
LEMMA ParamsLaunched ==
  ASSUME NEW cf \in Configs, NEW r \in Devices(cf), NEW d, NEW f \in Nat,
         ParamsOK(cf, r, d, f), cf.sync = "custom", NEW c \in ChunksOf(cf),
         Forwards(cf, f, c) > 0
  PROVE  c \in d.params
<1> DEFINE p == cf.P
           v == ChunkNumber(cf)
<1>1. p \in Nat \ {0} /\ v \in Nat \ {0} /\ c \in 0 .. v - 1 /\ c \in Nat /\ r \in Nat
  BY ConfigType DEF ChunksOf, Devices
<1>2. f > (c - 1) * p
  <2>1. Passes(f, c, p, v) > 0
    BY DEF Forwards
  <2> HIDE DEF p, v
  <2>2. PICK a \in Nat, q \in 0 .. v - 1, s \in 0 .. p - 1 : Placed(f, a, q, s, p, v)
    BY <1>1, PassPlace
  <2>3. /\ q < c => Passes(f, c, p, v) = a * p
        /\ a * p \in Nat
    BY <1>1, <2>2, PassesAt
  <2>4. f = a * (p * v) + (q * p + s) /\ p * v \in Nat /\ a * (p * v) \in Nat
        /\ q * p \in Nat /\ c * p \in Nat /\ q \in Nat /\ (c - 1) * p = c * p - p
    BY <1>1, <2>2, ProductNat, ProductNext DEF Placed
  <2>5. CASE q >= c
    <3>1. c * p <= q * p
      BY <1>1, <2>4, <2>5, ProductMonotone
    <3>2. QED BY <1>1, <2>4, <3>1
  <2>6. CASE q < c
    <3>1. a >= 1
      <4>1. a = 0 => a * p = 0
        BY <1>1
      <4>2. QED BY <2>1, <2>2, <2>3, <2>6, <4>1
    <3>2. 1 * (p * v) <= a * (p * v) /\ 1 * (p * v) = p * v
      BY <2>2, <2>4, <3>1, ProductMonotone
    <3>3. c * p <= v * p /\ v * p = p * v
      <4>1. c <= v /\ v \in Nat /\ p \in Nat
        BY <1>1
      <4>2. QED BY <1>1, <4>1, ProductMonotone
    <3>4. QED BY <1>1, <2>4, <3>2, <3>3
  <2>7. QED BY <1>1, <2>4, <2>5, <2>6
<1>3. f + r > (c - 1) * cf.P
  <2>1. (c - 1) * p \in Int
    BY <1>1
  <2>2. QED BY <1>1, <1>2, <2>1
<1>4. QED BY <1>3 DEF ParamsOK

----
(***************************************************************************)
(* The gradients of a chunk are reduced after its last backward pass.      *)
(***************************************************************************)
\* IsLastMicrobatchForModelChunk
LastOf(cf, n) ==
  /\ n \div (cf.P * ChunkNumber(cf)) = (Batch1(cf) \div (cf.P * ChunkNumber(cf))) - 1
  /\ n % cf.P = cf.P - 1

LEMMA LastIs ==
  ASSUME config \in Configs, NEW n
  PROVE  IsLastMicrobatchForModelChunk(n) <=> LastOf(config, n)
<1>1. P = config.P /\ NumModelChunks = ChunkNumber(config) /\ Total = Batch1(config)
  BY WarmupIs
<1>2. QED BY <1>1 DEF IsLastMicrobatchForModelChunk, LastGroup, LastOf

\* After that pass the whole batch is in the gradient.
LEMMA LastPass ==
  ASSUME NEW cf \in Configs, cf.V > 0, NEW n \in Nat, LastOf(cf, n),
         NEW b \in n + 1 .. Batch1(cf)
  PROVE  BackwardChunk(cf, n) \in ChunksOf(cf) /\ Backwards(cf, b, BackwardChunk(cf, n)) = cf.M
<1> DEFINE p == cf.P
           v == ChunkNumber(cf)
           g == p * v
           c == BackwardChunk(cf, n)
<1>1. p \in Nat \ {0} /\ v \in Nat \ {0} /\ g \in Nat \ {0} /\ Batch1(cf) \in Nat
  BY ConfigType, ProductPositive
<1>2. PICK m \in Nat \ {0} : cf.M = m * p /\ Batch1(cf) = m * g
  BY WholeGroups
<1>3. n \div g = (Batch1(cf) \div g) - 1 /\ n % p = p - 1
  BY DEF LastOf
<1>4. b \in Nat /\ b >= n + 1 /\ b <= Batch1(cf)
  BY <1>1
<1>5. PICK a \in Nat, q \in 0 .. v - 1, s \in 0 .. p - 1 : Placed(n, a, q, s, p, v)
  <2> HIDE DEF p, v
  <2>1. QED BY <1>1, PassPlace
<1>6. n = a * g + (q * p + s) /\ n \div g = a /\ InChunk(n, p, v) = q /\ n % p = s
  BY <1>5 DEF Placed
<1>7. c = v - q - 1 /\ c \in ChunksOf(cf) /\ v - c - 1 = q
  BY <1>1, <1>5, <1>6 DEF BackwardChunk, ChunksOf
<1>8. Backwards(cf, b, c) = Passes(b, q, p, v)
  BY <1>7 DEF Backwards
<1> HIDE DEF p, v, g, c
<1>9. Batch1(cf) \div g = m
  <2> DEFINE t == Batch1(cf)
  <2>1. t \in Nat /\ t = m * g + 0 /\ 0 \in 0 .. g - 1
    BY <1>1, <1>2
  <2> HIDE DEF t
  <2>2. t \div g = m
    BY <1>1, <1>2, <2>1, DivModUnique
  <2>3. QED BY <2>2 DEF t
<1>10. a = m - 1 /\ s = p - 1
  BY <1>2, <1>3, <1>6, <1>9
<1>11. Reaches(b, a, q, p, p, v)
  <2>1. a * g \in Nat /\ q * p \in Nat
    BY <1>1, ProductNat
  <2>2. b >= a * g + (q * p + p)
    BY <1>1, <1>4, <1>6, <1>10, <2>1
  <2>3. QED BY <2>2 DEF Reaches, g
<1>12. Passes(b, q, p, v) >= a * p + p
  <2>1. p \in 0 .. p
    BY <1>1
  <2>2. QED BY <1>1, <1>4, <1>11, <2>1, PassesAtLeast
<1>13. a * p + p = cf.M /\ a * p \in Nat
  <2>1. (m - 1) * p = m * p - p
    BY <1>1, <1>2, ProductNext
  <2>2. m * p \in Nat
    BY <1>1, <1>2, ProductNat
  <2>3. a * p \in Nat
    BY <1>1, ProductNat
  <2>4. QED BY <1>1, <1>2, <1>10, <2>1, <2>2, <2>3
<1>14. Backwards(cf, b, c) <= cf.M /\ Backwards(cf, b, c) \in Nat
  BY <1>4, <1>7, BackwardsNext
<1>15. cf.M \in Nat
  BY ConfigType
<1>16. QED BY <1>7, <1>8, <1>12, <1>13, <1>14, <1>15 DEF c

\* grad_sync_func is called r turns late.
Shift(cf, r) == IF cf.sync = "custom" THEN r ELSE 0

\* Backward pass k, which leads from d to e, reduces the gradient of this chunk.
Reduces(cf, r, k) ==
  cf.sync # "none" /\ k - Shift(cf, r) >= 0 /\ LastOf(cf, k - Shift(cf, r))

BackwardReduced(cf, r, k, d, e) ==
  LET c == BackwardChunk(cf, k - Shift(cf, r))
  IN  /\ Reduces(cf, r, k) => e.reduced = [d.reduced EXCEPT ![c] = Append(@, e.summed[c])]
      /\ ~Reduces(cf, r, k) => e.reduced = d.reduced
      /\ e.noSync = (cf.sync # "none")

\* A chunk's gradient was not reduced, or the last pass of the chunk is over.
SyncV(cf, r, d, b) ==
  /\ d.noSync = (cf.sync # "none")
  /\ \A c \in ChunksOf(cf) : d.reduced[c] # << >> =>
       /\ d.reduced[c] = <<cf.M>> /\ cf.sync # "none" /\ b - Shift(cf, r) >= 0
       /\ Backwards(cf, b - Shift(cf, r), c) = cf.M

\* It stays like that.
LEMMA SyncVBackward ==
  ASSUME NEW cf \in Configs, cf.V > 0, NEW r \in Devices(cf), NEW d, NEW e,
         NEW f, NEW b, Counts(cf, d, f, b), Counts(cf, e, f, b + 1), ~cf.forwardOnly,
         SyncV(cf, r, d, b), BackwardReduced(cf, r, b, d, e)
  PROVE  SyncV(cf, r, e, b + 1)
<1> DEFINE n == b - Shift(cf, r)
           h == n + 1
           x == BackwardChunk(cf, n)
<1>1. b \in Nat /\ b + 1 <= Batch1(cf) /\ Batch1(cf) \in Nat /\ n \in Int
      /\ n <= b /\ (b + 1) - Shift(cf, r) = h /\ f \in Nat
  <2>1. b \in Nat /\ f \in Nat /\ b + 1 <= f /\ f <= Batch1(cf) /\ Batch1(cf) \in Nat
    BY ConfigType DEF Counts
  <2>2. Shift(cf, r) \in Nat
    BY DEF Shift, Devices
  <2>3. QED BY <2>1, <2>2
<1> HIDE DEF n
<1>2. d.reduced \in [ChunksOf(cf) -> Seq(Nat)] /\ e.reduced \in [ChunksOf(cf) -> Seq(Nat)]
  BY DEF Counts, Shaped
<1>3. /\ Reduces(cf, r, b) => e.reduced = [d.reduced EXCEPT ![x] = Append(@, e.summed[x])]
      /\ ~Reduces(cf, r, b) => e.reduced = d.reduced
      /\ e.noSync = (cf.sync # "none")
  BY DEF BackwardReduced, n
<1>4. Reduces(cf, r, b) <=> cf.sync # "none" /\ n >= 0 /\ LastOf(cf, n)
  BY DEF Reduces, n
<1>5. \A c \in ChunksOf(cf) : d.reduced[c] # << >> =>
        /\ d.reduced[c] = <<cf.M>> /\ cf.sync # "none" /\ n >= 0 /\ Backwards(cf, n, c) = cf.M
  BY DEF SyncV, n
<1>6. ASSUME NEW c \in ChunksOf(cf), d.reduced[c] # << >>
      PROVE  /\ d.reduced[c] = <<cf.M>> /\ cf.sync # "none" /\ h >= 0
             /\ Backwards(cf, h, c) = cf.M /\ n >= 0 /\ BackwardChunk(cf, n) # c
  <2>1. d.reduced[c] = <<cf.M>> /\ cf.sync # "none" /\ n \in Nat /\ Backwards(cf, n, c) = cf.M
    BY <1>1, <1>5, <1>6
  <2>2. /\ BackwardChunk(cf, n) = c => Backwards(cf, n + 1, c) = Backwards(cf, n, c) + 1
        /\ BackwardChunk(cf, n) # c => Backwards(cf, n + 1, c) = Backwards(cf, n, c)
    BY <2>1, BackwardsNext
  <2>3. h \in Nat /\ h <= Batch1(cf)
    BY <1>1, <2>1
  <2>4. cf.M \in Nat
    BY ConfigType
  <2>5. Backwards(cf, h, c) <= cf.M
    <3> HIDE DEF h
    <3>1. QED BY <2>3, BackwardsNext
  <2>6. QED BY <2>1, <2>2, <2>3, <2>4, <2>5
<1>7. ASSUME Reduces(cf, r, b)
      PROVE  /\ x \in ChunksOf(cf) /\ d.reduced[x] = << >> /\ e.reduced[x] = <<cf.M>>
             /\ Backwards(cf, h, x) = cf.M /\ h >= 0 /\ cf.sync # "none"
             /\ \A c \in ChunksOf(cf) : c # x => e.reduced[c] = d.reduced[c]
  <2> DEFINE i == b + 1
  <2>1. n \in Nat /\ LastOf(cf, n) /\ cf.sync # "none"
    BY <1>1, <1>4, <1>7
  <2>2. i \in n + 1 .. Batch1(cf) /\ h \in n + 1 .. Batch1(cf) /\ h >= 0
    BY <1>1, <2>1
  <2>3. \A c \in ChunksOf(cf) : e.summed[c] = Backwards(cf, i, c)
    BY DEF Counts
  <2> HIDE DEF i, h
  <2>4. x \in ChunksOf(cf) /\ Backwards(cf, i, x) = cf.M /\ Backwards(cf, h, x) = cf.M
    BY <2>1, <2>2, LastPass
  <2>5. d.reduced[x] = << >>
    BY <1>6, <2>4
  <2>6. e.reduced = [d.reduced EXCEPT ![x] = Append(@, e.summed[x])] /\ e.summed[x] = cf.M
    BY <1>3, <1>7, <2>3, <2>4
  <2> HIDE DEF x
  <2>7. e.reduced[x] = <<cf.M>> /\ \A c \in ChunksOf(cf) : c # x => e.reduced[c] = d.reduced[c]
    BY <1>2, <2>4, <2>5, <2>6
  <2>8. QED BY <2>1, <2>2, <2>4, <2>5, <2>7
<1>8. ASSUME NEW c \in ChunksOf(cf), e.reduced[c] # << >>
      PROVE  /\ e.reduced[c] = <<cf.M>> /\ cf.sync # "none" /\ h >= 0
             /\ Backwards(cf, h, c) = cf.M
  <2> HIDE DEF h, x
  <2>1. CASE Reduces(cf, r, b) /\ c = x
    BY <1>7, <2>1
  <2>2. CASE ~(Reduces(cf, r, b) /\ c = x)
    <3>1. e.reduced[c] = d.reduced[c]
      BY <1>3, <1>7, <2>2
    <3>2. QED BY <1>6, <1>8, <3>1
  <2>3. QED BY <2>1, <2>2
<1>9. (b + 1) - Shift(cf, r) = h
  BY <1>1
<1> HIDE DEF h, x
<1>10. QED BY <1>3, <1>8, <1>9 DEF SyncV

----
(***************************************************************************)
(* The passes of the interleaved schedule.                                 *)
(***************************************************************************)
LEMMA ForwardHelperDoes ==
  ASSUME config \in Configs, config.V > 0, NEW r \in Devices(config), NEW d,
         Shaped(config, d), NEW k \in Nat, ParamsOK(config, r, d, k)
  PROVE  LET e == ForwardStepHelper(d, r, k)
         IN  /\ \E full \in BOOLEAN : ForwardDone1(config, d, e, ForwardChunk(config, k), full)
             /\ ParamsOK(config, r, e, k + 1)
<1> DEFINE c == ForwardChunk(config, k)
           g == ParamSync(d, r, k)
           h == PaddedInputs(g, r, c)
           full == CheckpointMicrobatch(r, k)
           e == ForwardStepHelper(d, r, k)
<1>1. c \in ChunksOf(config)
  <2>1. 0 \in ChunksOf(config)
    BY ConfigType DEF ChunksOf
  <2>2. QED BY <2>1, ForwardsNext
<1>2. e = Kept(ForwardStep(h, r, c, full), c)
  BY ChunkIs DEF ForwardStepHelper
<1>3. /\ DOMAIN g = DOMAIN d /\ g.fed = d.fed /\ g.summed = d.summed
      /\ g.outputs = d.outputs /\ SameSync(d, g) /\ ParamsOK(config, r, g, k + 1)
  BY ParamSyncDoes
<1> HIDE DEF c, g, e
<1>4. /\ DOMAIN h = DOMAIN d /\ h.fed = d.fed /\ h.summed = d.summed
      /\ h.outputs = d.outputs /\ SameSync(d, h) /\ h.params = g.params
  BY <1>3 DEF PaddedInputs, Shaped, Fields, SameSync
<1> HIDE DEF h
<1>5. Shaped(config, h)
  BY <1>4 DEF Shaped, SameSync
<1>6. full \in BOOLEAN
  BY DEF CheckpointMicrobatch
<1>7. config.P \in Nat /\ r \in Int
  BY ConfigType DEF Devices
<1> HIDE DEF full
<1>8. ForwardDone1(config, h, e, c, full) /\ e.params = h.params
  BY <1>1, <1>2, <1>5, <1>6, <1>7, ForwardStepDoes
<1>9. ForwardDone1(config, d, e, c, full)
  BY <1>4, <1>8 DEF ForwardDone1, SameSync
<1>10. ParamsOK(config, r, e, k + 1)
  BY <1>3, <1>4, <1>8 DEF ParamsOK
<1>11. QED BY <1>6, <1>9, <1>10 DEF c, e

LEMMA BackwardHelperDoes ==
  ASSUME config \in Configs, config.V > 0, NEW r \in Devices(config), NEW d,
         Shaped(config, d), d.noSync = (config.sync # "none"), NEW k \in Nat
  PROVE  LET e == BackwardStepHelper(d, r, k)
         IN  /\ BackwardDone1(d, e, BackwardChunk(config, k))
             /\ BackwardReduced(config, r, k, d, e)
<1> DEFINE c == BackwardChunk(config, k)
           now == config.sync = "torchDDP" /\ IsLastMicrobatchForModelChunk(k)
           g == IF now THEN [d EXCEPT !.noSync = FALSE] ELSE d
           h == PaddedGrads(g, r, c)
           i == BackwardStep(h, r, c)
           j == IF config.sync = "custom" THEN GradSync(i, r, k) ELSE i
           e == BackwardStepHelper(d, r, k)
<1>1. c \in ChunksOf(config) /\ r \in Nat
  <2>1. 0 \in ChunksOf(config)
    BY ConfigType DEF ChunksOf
  <2>2. QED BY <2>1, BackwardsNext DEF Devices
<1>2. e = [j EXCEPT !.noSync = config.sync # "none"]
  BY ChunkIs DEF BackwardStepHelper
<1> HIDE DEF e, j, i, h, c, now
<1>3. /\ DOMAIN g = DOMAIN d /\ g.fed = d.fed /\ g.summed = d.summed
      /\ g.outputs = d.outputs /\ g.reduced = d.reduced /\ g.params = d.params
      /\ g.noSync = (d.noSync /\ ~now)
  BY DEF Shaped, Fields
<1> HIDE DEF g
<1>4. /\ DOMAIN h = DOMAIN d /\ h.fed = d.fed /\ h.summed = d.summed
      /\ h.outputs = d.outputs /\ h.reduced = d.reduced /\ h.params = d.params
      /\ h.noSync = (d.noSync /\ ~now)
  BY <1>3 DEF PaddedGrads, Shaped, Fields, h
<1>5. Shaped(config, h)
  BY <1>4 DEF Shaped
<1>6. /\ BackwardDone1(h, i, c) /\ i.noSync = h.noSync
      /\ i.reduced = IF config.sync # "none" /\ ~h.noSync
                     THEN [h.reduced EXCEPT ![c] = Append(@, h.summed[c] + 1)] ELSE h.reduced
  BY <1>1, <1>5, BackwardStepDoes DEF i
<1>7. BackwardDone1(d, i, c) /\ DOMAIN i = Fields
      /\ i.summed[c] = d.summed[c] + 1
  BY <1>1, <1>4, <1>6 DEF BackwardDone1, Shaped
<1>8. config.sync # "none" /\ ~h.noSync <=> now
  <2>1. now => config.sync # "none"
    BY DEF now
  <2>2. QED BY <1>4, <2>1
<1>9. CASE config.sync # "custom"
  <2>1. e = [i EXCEPT !.noSync = config.sync # "none"]
    BY <1>2, <1>9 DEF j
  <2>2. DOMAIN e = DOMAIN i /\ e.fed = i.fed /\ e.summed = i.summed /\ e.outputs = i.outputs
        /\ e.params = i.params /\ e.reduced = i.reduced /\ e.noSync = (config.sync # "none")
    BY <1>7, <2>1 DEF Fields
  <2>3. BackwardDone1(d, e, c)
    BY <1>7, <2>2 DEF BackwardDone1
  <2>4. Shift(config, r) = 0 /\ k - 0 = k /\ k - Shift(config, r) = k
    BY <1>9 DEF Shift
  <2>5. Reduces(config, r, k) <=> now
    <3>1. config.sync # "none" <=> config.sync = "torchDDP"
      BY <1>9, ConfigType
    <3>2. QED BY <2>4, <3>1, LastIs DEF Reduces, now
  <2>6. BackwardReduced(config, r, k, d, e)
    BY <1>4, <1>6, <1>7, <1>8, <2>2, <2>4, <2>5 DEF BackwardReduced, c
  <2>7. QED BY <2>3, <2>6 DEF e, c
<1>10. CASE config.sync = "custom"
  <2> DEFINE n == k - r
             x == BackwardChunk(config, n)
             late == n >= 0 /\ IsLastMicrobatchForModelChunk(n)
  <2>1. ~now /\ i.reduced = d.reduced
    BY <1>4, <1>6, <1>8, <1>10 DEF now
  <2>2. j = IF late THEN [i EXCEPT !.reduced[x] = Append(@, i.summed[x])] ELSE i
    BY <1>10, ChunkIs DEF j, GradSync, Reduce
  <2> HIDE DEF x, late
  <2>3. DOMAIN j = Fields /\ j.fed = i.fed /\ j.summed = i.summed /\ j.outputs = i.outputs
        /\ j.params = i.params
        /\ j.reduced = IF late THEN [i.reduced EXCEPT ![x] = Append(@, i.summed[x])]
                       ELSE i.reduced
    BY <1>7, <2>2 DEF Fields
  <2>4. DOMAIN e = Fields /\ e.fed = j.fed /\ e.summed = j.summed /\ e.outputs = j.outputs
        /\ e.params = j.params /\ e.reduced = j.reduced /\ e.noSync = (config.sync # "none")
    BY <1>2, <2>3 DEF Fields
  <2>5. BackwardDone1(d, e, c)
    BY <1>7, <2>3, <2>4 DEF BackwardDone1
  <2>6. k - Shift(config, r) = n
    BY <1>10 DEF Shift
  <2>7. Reduces(config, r, k) <=> late
    BY <1>10, <2>6, LastIs DEF Reduces, late
  <2>8. BackwardReduced(config, r, k, d, e)
    <3> HIDE DEF n
    <3>1. QED BY <2>1, <2>3, <2>4, <2>6, <2>7 DEF BackwardReduced, x
  <2>9. QED BY <2>5, <2>8 DEF e, c
<1>11. QED BY <1>9, <1>10

----
(***************************************************************************)
(* The inductive invariant: what a device d at place p of its program has. *)
(***************************************************************************)
Work(cf, r, d, f, b) == Counts(cf, d, f, b) /\ PartialOK(cf, r, d) /\ ParamsOK(cf, r, d, f)

\* Without interleaving: nothing is reduced before the last pass of the cooldown,
\* and then only by the device that left no_sync.
Sync1(cf, r, d, p) ==
  /\ LoopAt(cf, p) \in {"plain", "warmup", "first", "steady"} =>
       d.reduced[0] = << >> /\ (cf.sync # "none" => d.noSync)
  /\ LoopAt(cf, p) = "cooldown" =>
       /\ d.reduced[0] = << >>
       /\ cf.sync # "none" /\ ~d.noSync => p.k = WarmupOf(cf, r) - 1 /\ p.half = 1
  /\ LoopAt(cf, p) = "finish" /\ d.noSync => d.reduced[0] = << >>

Synced(cf, r, d, p, b) ==
  ~cf.forwardOnly =>
    /\ \A c \in ChunksOf(cf) : d.reduced[c] \in {<< >>, <<cf.M>>}
    /\ cf.V = 0 => Sync1(cf, r, d, p)
    /\ cf.V > 0 /\ LoopAt(cf, p) # "done" => SyncV(cf, r, d, b)

DeviceOK(cf, r, d, p) ==
  /\ PlaceOK(cf, r, p)
  /\ Work(cf, r, d, ForwardsAt(cf, r, p), BackwardsAt(cf, r, p))
  /\ Synced(cf, r, d, p, BackwardsAt(cf, r, p))

Inv ==
  /\ config \in Configs
  /\ DOMAIN dev = Devices(config) /\ DOMAIN place = Devices(config)
  /\ \A r \in Devices(config) : DeviceOK(config, r, dev[r], place[r])

----
\* How Work and Synced are kept.
LEMMA WorkSame ==
  ASSUME NEW cf \in Configs, NEW r, NEW d, NEW e, NEW f, NEW b, Work(cf, r, d, f, b),
         SameWork(d, e), e.reduced \in [ChunksOf(cf) -> Seq(Nat)], e.noSync \in BOOLEAN
  PROVE  Work(cf, r, e, f, b)
<1>1. Counts(cf, e, f, b)
  BY CountsSame DEF Work
<1>2. PartialOK(cf, r, e) /\ ParamsOK(cf, r, e, f)
  BY DEF Work, SameWork, PartialOK, ParamsOK
<1>3. QED BY <1>1, <1>2 DEF Work

LEMMA WorkSameSync ==
  ASSUME NEW cf \in Configs, NEW r, NEW d, NEW e, NEW f, NEW b, Work(cf, r, d, f, b),
         SameWork(d, e), SameSync(d, e)
  PROVE  Work(cf, r, e, f, b)
<1>1. e.reduced \in [ChunksOf(cf) -> Seq(Nat)] /\ e.noSync \in BOOLEAN
  BY DEF Work, Counts, Shaped, SameSync
<1>2. QED BY <1>1, WorkSame

LEMMA WorkForward ==
  ASSUME NEW cf \in Configs, NEW r \in Devices(cf), NEW d, NEW e, NEW f, NEW b,
         Work(cf, r, d, f, b), f < Batch1(cf), NEW full,
         ForwardDone1(cf, d, e, ForwardChunk(cf, f), full),
         cf.P > 1 /\ cf.V = 0 => full = FullAt(cf, r, f), ParamsOK(cf, r, e, f + 1)
  PROVE  Work(cf, r, e, f + 1, b)
<1> DEFINE c == ForwardChunk(cf, f)
<1>1. f \in Nat
  BY ConfigType DEF Work, Counts
<1>2. c \in ChunksOf(cf)
  <2>1. 0 \in ChunksOf(cf)
    BY ConfigType DEF ChunksOf
  <2>2. QED BY <1>1, <2>1, ForwardsNext
<1>3. c = ForwardChunk(cf, f) /\ ForwardDone1(cf, d, e, c, full)
  OBVIOUS
<1> HIDE DEF c
<1>4. Counts(cf, e, f + 1, b)
  BY <1>3, CountsForward DEF Work
<1>5. PartialOK(cf, r, e)
  BY <1>2, <1>3, PartialForward DEF Work
<1>6. QED BY <1>4, <1>5 DEF Work

LEMMA WorkBackward ==
  ASSUME NEW cf \in Configs, NEW r \in Devices(cf), NEW d, NEW e, NEW f, NEW b,
         Work(cf, r, d, f, b), ~cf.forwardOnly, b < Batch1(cf), FarAhead(cf, f, b),
         BackwardDone1(d, e, BackwardChunk(cf, b)),
         e.reduced \in [ChunksOf(cf) -> Seq(Nat)], e.noSync \in BOOLEAN
  PROVE  Work(cf, r, e, f, b + 1)
<1> DEFINE c == BackwardChunk(cf, b)
<1>1. b \in Nat
  BY ConfigType DEF Work, Counts
<1>2. c \in ChunksOf(cf)
  <2>1. 0 \in ChunksOf(cf)
    BY ConfigType DEF ChunksOf
  <2>2. QED BY <1>1, <2>1, BackwardsNext
<1>3. c = BackwardChunk(cf, b) /\ BackwardDone1(d, e, c)
  OBVIOUS
<1> HIDE DEF c
<1>4. Counts(cf, e, f, b + 1) /\ d.outputs[c] # << >>
  BY <1>3, CountsBackward DEF Work
<1>5. PartialOK(cf, r, e)
  BY <1>2, <1>3, <1>4, PartialBackward DEF Work
<1>6. ParamsOK(cf, r, e, f)
  BY <1>3 DEF Work, ParamsOK, BackwardDone1
<1>7. QED BY <1>4, <1>5, <1>6 DEF Work

\* With one chunk all parameters are there from the start.
LEMMA ParamsKept ==
  ASSUME NEW cf \in Configs, cf.V = 0, NEW r, NEW d, NEW e, NEW f, NEW g,
         ParamsOK(cf, r, d, f), e.params = d.params
  PROVE  ParamsOK(cf, r, e, g)
<1>1. ChunksOf(cf) = {0}
  BY DEF ChunksOf, ChunkNumber
<1>2. QED BY <1>1 DEF ParamsOK

LEMMA SyncedIdle ==
  ASSUME NEW cf \in Configs, cf.V = 0, NEW r, NEW d, NEW p, NEW b,
         d.reduced[0] = << >>, cf.sync # "none" => d.noSync
  PROVE  Synced(cf, r, d, p, b)
<1>1. ChunksOf(cf) = {0}
  BY DEF ChunksOf, ChunkNumber
<1>2. Sync1(cf, r, d, p)
  BY DEF Sync1
<1>3. QED BY <1>1, <1>2 DEF Synced

LEMMA SyncedDone ==
  ASSUME NEW cf \in Configs, cf.V = 0, NEW r, NEW d, NEW p, NEW b,
         d.reduced[0] \in {<< >>, <<cf.M>>}, LoopAt(cf, p) = "done"
  PROVE  Synced(cf, r, d, p, b)
<1>1. ChunksOf(cf) = {0}
  BY DEF ChunksOf, ChunkNumber
<1>2. Sync1(cf, r, d, p)
  BY DEF Sync1
<1>3. QED BY <1>1, <1>2 DEF Synced

LEMMA SyncedFinish ==
  ASSUME NEW cf \in Configs, cf.V = 0, NEW r, NEW d, NEW p, NEW b,
         d.reduced[0] \in {<< >>, <<cf.M>>}, LoopAt(cf, p) = "finish", ~d.noSync
  PROVE  Synced(cf, r, d, p, b)
<1>1. ChunksOf(cf) = {0}
  BY DEF ChunksOf, ChunkNumber
<1>2. Sync1(cf, r, d, p)
  BY DEF Sync1
<1>3. QED BY <1>1, <1>2 DEF Synced

LEMMA SyncedV ==
  ASSUME NEW cf \in Configs, cf.V > 0, NEW r, NEW d, NEW p, NEW b,
         cf.forwardOnly \/ SyncV(cf, r, d, b)
  PROVE  Synced(cf, r, d, p, b)
<1> SUFFICES ASSUME ~cf.forwardOnly
             PROVE  /\ \A c \in ChunksOf(cf) : d.reduced[c] \in {<< >>, <<cf.M>>}
                    /\ cf.V = 0 => Sync1(cf, r, d, p)
                    /\ cf.V > 0 /\ LoopAt(cf, p) # "done" => SyncV(cf, r, d, b)
  BY DEF Synced
<1>1. SyncV(cf, r, d, b) /\ cf.V # 0
  BY ConfigType
<1>2. \A c \in ChunksOf(cf) : d.reduced[c] \in {<< >>, <<cf.M>>}
  BY <1>1 DEF SyncV
<1>3. QED BY <1>1, <1>2

LEMMA SyncVSame ==
  ASSUME NEW cf, NEW r, NEW d, NEW e, NEW b, SyncV(cf, r, d, b), SameSync(d, e)
  PROVE  SyncV(cf, r, e, b)
BY DEF SyncV, SameSync

----
(***************************************************************************)
(* A step of device r.                                                     *)
(***************************************************************************)
\* Where it is, and what it has.
LEMMA Here ==
  ASSUME Inv, NEW r \in Devices(config), NEW loop, NEW half, In(r, loop, half)
  PROVE  LET p == place[r]
             b == BackwardsIn(config, r, loop, p.k)
         IN  /\ config \in Configs /\ LoopAt(config, p) = loop /\ p.half = half
             /\ PlaceOK(config, r, p) /\ p.k \in Nat /\ p.k < TurnsOf(config, r, loop)
             /\ Work(config, r, dev[r], ForwardsIn(config, r, loop, p.k, half), b)
             /\ Synced(config, r, dev[r], p, b)
<1>1. config \in Configs /\ DeviceOK(config, r, dev[r], place[r])
  BY DEF Inv
<1>2. LoopAt(config, place[r]) = loop /\ place[r].half = half
  BY <1>1, ProgramIs DEF In, LoopAt
<1>3. PlaceOK(config, r, place[r])
  BY <1>1 DEF DeviceOK
<1>4. place[r].k \in Nat /\ place[r].k < TurnsOf(config, r, loop)
  BY <1>2, <1>3 DEF PlaceOK
<1>5. QED BY <1>1, <1>2, <1>3, <1>4 DEF DeviceOK, ForwardsAt, BackwardsAt

\* A step that leaves it with d at place q.
Moved(r) ==
  \E d, q : /\ DeviceOK(config, r, d, q)
            /\ dev' = [dev EXCEPT ![r] = d] /\ place' = [place EXCEPT ![r] = q]
            /\ config' = config

\* It ends a turn,
LEMMA TurnMoves ==
  ASSUME Inv, NEW r \in Devices(config), NEW loop, NEW half, In(r, loop, half),
         loop # "done", NEW e, Becomes(r, e), Turn(r),
         Work(config, r, e, ForwardsIn(config, r, loop, place[r].k + 1, 0),
                            BackwardsIn(config, r, loop, place[r].k + 1)),
         Synced(config, r, e, Following(r), BackwardsIn(config, r, loop, place[r].k + 1))
  PROVE  Moved(r)
<1> DEFINE q == Following(r)
<1>1. config \in Configs /\ LoopAt(config, place[r]) = loop /\ PlaceOK(config, r, place[r])
  BY Here
<1>2. TurnOver(config, r, place[r], q)
  BY <1>1, FollowingIs
<1> HIDE DEF q
<1>3. /\ PlaceOK(config, r, q)
      /\ ForwardsAt(config, r, q) = ForwardsIn(config, r, loop, place[r].k + 1, 0)
      /\ BackwardsAt(config, r, q) = BackwardsIn(config, r, loop, place[r].k + 1)
  BY <1>1, <1>2 DEF TurnOver
<1>4. DeviceOK(config, r, e, q)
  BY <1>3 DEF DeviceOK, q
<1>5. QED BY <1>4 DEF Moved, Becomes, Turn, q

\* or stops in its middle.
LEMMA HalfMoves ==
  ASSUME Inv, NEW r \in Devices(config), NEW loop, In(r, loop, 0), NEW e, Becomes(r, e),
         HalfTurn(r),
         Work(config, r, e, ForwardsIn(config, r, loop, place[r].k, 1),
                            BackwardsIn(config, r, loop, place[r].k)),
         \A q : q = [place[r] EXCEPT !.half = 1] /\ LoopAt(config, q) = loop
                  /\ q.k = place[r].k /\ q.half = 1 =>
           Synced(config, r, e, q, BackwardsIn(config, r, loop, place[r].k))
  PROVE  Moved(r)
<1> DEFINE p == place[r]
           q == [p EXCEPT !.half = 1]
<1>1. config \in Configs /\ LoopAt(config, p) = loop /\ p.half = 0 /\ PlaceOK(config, r, p)
      /\ r \in DOMAIN place
  BY Here DEF Inv
<1>2. place' = [place EXCEPT ![r] = q]
  <2>1. place' = [place EXCEPT ![r].half = @ + 1]
    BY DEF HalfTurn
  <2>2. p.half + 1 = 1
    BY <1>1
  <2>3. QED BY <2>1, <2>2
<1>3. p \in [loop : DOMAIN LoopsOf(config), k : Nat, half : {0, 1}]
      /\ p.k < TurnsOf(config, r, loop)
  BY <1>1 DEF PlaceOK
<1> HIDE DEF p
<1>4. q.loop = p.loop /\ q.k = p.k /\ q.half = 1
      /\ q \in [loop : DOMAIN LoopsOf(config), k : Nat, half : {0, 1}]
  <2> DEFINE D == DOMAIN LoopsOf(config)
  <2>1. p \in [loop : D, k : Nat, half : {0, 1}]
    BY <1>3
  <2> HIDE DEF D
  <2>2. q.loop = p.loop /\ q.k = p.k /\ q.half = 1 /\ q \in [loop : D, k : Nat, half : {0, 1}]
    BY <2>1
  <2>3. QED BY <2>2 DEF D
<1> HIDE DEF q
<1>5. LoopAt(config, q) = loop
  BY <1>1, <1>4 DEF LoopAt
<1>6. PlaceOK(config, r, q)
  BY <1>3, <1>4, <1>5 DEF PlaceOK
<1>7. /\ ForwardsAt(config, r, q) = ForwardsIn(config, r, loop, p.k, 1)
      /\ BackwardsAt(config, r, q) = BackwardsIn(config, r, loop, p.k)
  BY <1>4, <1>5 DEF ForwardsAt, BackwardsAt
<1>8. Synced(config, r, e, q, BackwardsIn(config, r, loop, p.k))
  BY <1>4, <1>5 DEF p, q
<1>9. DeviceOK(config, r, e, q)
  BY <1>6, <1>7, <1>8 DEF DeviceOK, p
<1>10. QED BY <1>2, <1>9 DEF Moved, Becomes

----
(***************************************************************************)
(* Steps without interleaving.                                             *)
(***************************************************************************)
\* There is one chunk.
LEMMA Single ==
  ASSUME NEW cf \in Configs, cf.V = 0
  PROVE  /\ ChunkNumber(cf) = 1 /\ Batch1(cf) = cf.M /\ ChunksOf(cf) = {0}
         /\ \A n \in Nat : ForwardChunk(cf, n) = 0 /\ BackwardChunk(cf, n) = 0
         /\ \A f, b \in Nat : b < f => FarAhead(cf, f, b)
<1>1. cf.M \in Nat /\ cf.P \in Nat
  BY ConfigType
<1>2. ChunkNumber(cf) = 1 /\ Batch1(cf) = cf.M /\ ChunksOf(cf) = {0}
  BY <1>1 DEF ChunkNumber, Batch1, ChunksOf
<1>3. \A n \in Nat : ForwardChunk(cf, n) = 0 /\ BackwardChunk(cf, n) = 0
  BY <1>2, ForwardsNext, BackwardsNext
<1>4. ASSUME NEW f \in Nat, NEW b \in Nat, b < f PROVE FarAhead(cf, f, b)
  <2>1. (ChunkNumber(cf) - 1) * cf.P = 0
    BY <1>1, <1>2
  <2>2. QED BY <1>4, <2>1 DEF FarAhead
<1>5. QED BY <1>2, <1>3, <1>4

\* The loops after a loop that is over.
LEMMA LoopsAfter ==
  ASSUME NEW cf \in Configs, NEW r, NEW p, NEW q, PlaceOK(cf, r, p), TurnOver(cf, r, p, q),
         p.k + 1 = TurnsOf(cf, r, LoopAt(cf, p))
  PROVE  /\ LoopAt(cf, p) = "plain" => LoopAt(cf, q) = "done"
         /\ LoopAt(cf, p) = "finish" => LoopAt(cf, q) = "done"
         /\ cf.V = 0 /\ LoopAt(cf, p) = "cooldown" => LoopAt(cf, q) \in {"finish", "done"}
<1> DEFINE s == LoopsOf(cf)
           l == p.loop
           m == q.loop
<1>1. l \in 1 .. Len(s) /\ m \in 1 .. Len(s) /\ m > l /\ LoopAt(cf, p) = s[l]
      /\ LoopAt(cf, q) = s[m]
  BY LoopsAre DEF TurnOver, PlaceOK, LoopAt
<1> HIDE DEF s, l, m
<1>2. CASE cf.P = 1
  <2>1. Len(s) = 2 /\ s[1] = "plain" /\ s[2] = "done"
    BY <1>2, LoopsAre DEF s
  <2>2. l = 1 /\ m = 2
    BY <1>1, <2>1
  <2>3. QED BY <1>1, <2>1, <2>2
<1>3. CASE cf.P # 1 /\ cf.V = 0
  <2>1. /\ Len(s) = 6 /\ s[1] = "warmup" /\ s[2] = "first" /\ s[3] = "steady"
        /\ s[4] = "cooldown" /\ s[5] = "finish" /\ s[6] = "done"
    BY <1>3, LoopsAre DEF s
  <2>2. (l = 1) \/ (l = 2) \/ (l = 3) \/ (l = 4 /\ m = 5) \/ (l = 4 /\ m = 6)
        \/ (l = 5 /\ m = 6)
    BY <1>1, <2>1
  <2>3. QED BY <1>1, <2>1, <2>2
<1>4. CASE cf.P # 1 /\ cf.V # 0
  <2>1. /\ Len(s) = 7 /\ s[1] = "first" /\ s[2] = "warmup" /\ s[3] = "steady"
        /\ s[4] = "flush" /\ s[5] = "cooldown" /\ s[6] = "finish" /\ s[7] = "done"
    BY <1>4, LoopsAre DEF s
  <2>2. (l = 1) \/ (l = 2) \/ (l = 3) \/ (l = 4) \/ (l = 5) \/ (l = 6 /\ m = 7)
    BY <1>1, <2>1
  <2>3. QED BY <1>1, <1>4, <2>1, <2>2
<1>5. QED BY <1>2, <1>3, <1>4

\* Only one pipeline device runs without pipelining.
LEMMA PlainAlone ==
  ASSUME NEW cf \in Configs, NEW r, NEW p, PlaceOK(cf, r, p), LoopAt(cf, p) = "plain"
  PROVE  cf.P = 1 /\ cf.V = 0
<1> DEFINE s == LoopsOf(cf)
           l == p.loop
<1>1. l \in 1 .. Len(s) /\ s[l] = "plain"
  BY LoopsAre DEF PlaceOK, LoopAt
<1> HIDE DEF s, l
<1>2. CASE cf.P # 1 /\ cf.V = 0
  <2>1. /\ Len(s) = 6 /\ s[1] = "warmup" /\ s[2] = "first" /\ s[3] = "steady"
        /\ s[4] = "cooldown" /\ s[5] = "finish" /\ s[6] = "done"
    BY <1>2, LoopsAre DEF s
  <2>2. QED BY <1>1, <2>1
<1>3. CASE cf.P # 1 /\ cf.V # 0
  <2>1. /\ Len(s) = 7 /\ s[1] = "first" /\ s[2] = "warmup" /\ s[3] = "steady"
        /\ s[4] = "flush" /\ s[5] = "cooldown" /\ s[6] = "finish" /\ s[7] = "done"
    BY <1>3, LoopsAre DEF s
  <2>2. QED BY <1>1, <2>1
<1>4. CASE cf.P = 1
  BY <1>4, LoopsAre
<1>5. QED BY <1>2, <1>3, <1>4

\* A forward pass of the only chunk,
LEMMA SingleForward ==
  ASSUME config \in Configs, config.V = 0, NEW r \in Devices(config), NEW d, NEW f, NEW b,
         Work(config, r, d, f, b), f < Batch1(config), NEW full \in BOOLEAN,
         config.P > 1 => full = FullAt(config, r, f),
         NEW e, e = Kept(ForwardStep(d, r, 0, full), 0)
  PROVE  Work(config, r, e, f + 1, b) /\ SameSync(d, e) /\ e.summed = d.summed
<1>1. Shaped(config, d) /\ f \in Nat
  BY ConfigType DEF Work, Counts
<1>2. 0 \in ChunksOf(config) /\ ForwardChunk(config, f) = 0
  BY <1>1, Single
<1>3. config.P \in Nat /\ r \in Int
  BY ConfigType DEF Devices
<1>4. ForwardDone1(config, d, e, 0, full) /\ e.params = d.params
  BY <1>1, <1>2, <1>3, ForwardStepDoes
<1>5. ParamsOK(config, r, e, f + 1)
  BY <1>4, ParamsKept DEF Work
<1>6. ForwardDone1(config, d, e, ForwardChunk(config, f), full)
  BY <1>2, <1>4
<1>7. Work(config, r, e, f + 1, b)
  BY <1>5, <1>6, WorkForward
<1>8. SameSync(d, e) /\ e.summed = d.summed
  BY <1>4 DEF SameSync, ForwardDone1
<1>9. QED BY <1>7, <1>8

\* and a backward pass, the number n, which reduces when no_sync was left.
SinglyReduced(cf, d, e, n) ==
  LET now == cf.sync # "none" /\ ~d.noSync
  IN  /\ d.reduced \in [{0} -> Seq(Nat)] /\ e.noSync = d.noSync
      /\ now => e.reduced = [d.reduced EXCEPT ![0] = Append(@, n)]
      /\ ~now => e.reduced = d.reduced

LEMMA SingleBackward ==
  ASSUME config \in Configs, config.V = 0, NEW r \in Devices(config), NEW d, NEW f, NEW b,
         Work(config, r, d, f, b), ~config.forwardOnly, b < f, NEW e, e = BackwardStep(d, r, 0)
  PROVE  Work(config, r, e, f, b + 1) /\ SinglyReduced(config, d, e, b + 1)
<1> DEFINE now == config.sync # "none" /\ ~d.noSync
<1>1. Shaped(config, d) /\ f \in Nat /\ b \in Nat /\ f <= Batch1(config)
      /\ Batch1(config) \in Nat
  BY ConfigType DEF Work, Counts
<1>2. 0 \in ChunksOf(config) /\ ChunksOf(config) = {0} /\ BackwardChunk(config, b) = 0
      /\ FarAhead(config, f, b)
  BY <1>1, Single
<1>3. d.summed[0] = b
  BY OneChunkCounts DEF Work
<1>4. /\ BackwardDone1(d, e, 0) /\ e.noSync = d.noSync
      /\ e.reduced = IF now THEN [d.reduced EXCEPT ![0] = Append(@, d.summed[0] + 1)]
                     ELSE d.reduced
  BY <1>1, <1>2, BackwardStepDoes
<1>5. d.reduced \in [{0} -> Seq(Nat)] /\ d.noSync \in BOOLEAN
  BY <1>1, <1>2 DEF Shaped
<1>6. e.reduced \in [ChunksOf(config) -> Seq(Nat)] /\ e.noSync \in BOOLEAN
  <2>1. Append(d.reduced[0], b + 1) \in Seq(Nat)
    BY <1>1, <1>5
  <2>2. e.reduced \in [{0} -> Seq(Nat)]
    BY <1>3, <1>4, <1>5, <2>1
  <2>3. QED BY <1>2, <1>4, <1>5, <2>2
<1>7. BackwardDone1(d, e, BackwardChunk(config, b)) /\ b < Batch1(config)
  BY <1>1, <1>2, <1>4
<1>8. Work(config, r, e, f, b + 1)
  BY <1>2, <1>6, <1>7, WorkBackward
<1>9. QED BY <1>3, <1>4, <1>5, <1>8 DEF SinglyReduced

\* Before the cooldown nothing was synchronized.
LEMMA IdleKept ==
  ASSUME NEW cf \in Configs, cf.V = 0, NEW r, NEW d, NEW e, NEW p, NEW q, NEW b, NEW c,
         Synced(cf, r, d, p, b), LoopAt(cf, p) \in {"plain", "warmup", "first", "steady"},
         SameSync(d, e)
  PROVE  Synced(cf, r, e, q, c)
<1>1. CASE cf.forwardOnly
  BY <1>1 DEF Synced
<1>2. CASE ~cf.forwardOnly
  <2>1. d.reduced[0] = << >> /\ (cf.sync # "none" => d.noSync)
    BY <1>2 DEF Synced, Sync1
  <2>2. e.reduced[0] = << >> /\ (cf.sync # "none" => e.noSync)
    BY <2>1 DEF SameSync
  <2>3. QED BY <2>2, SyncedIdle
<1>3. QED BY <1>1, <1>2

LEMMA PlainMoves ==
  ASSUME Inv, NEW r \in Devices(config), Plain(r)
  PROVE  Moved(r)
<1> DEFINE p == place[r]
           k == p.k
           d == dev[r]
           lastOne == k = M - 1
           input == [d EXCEPT !.inputs[0] = Append(@, None), !.grads[0] = <<None>>,
                              !.noSync = @ /\ ~lastOne]
           forward == Kept(ForwardStep(input, r, 0, FALSE), 0)
           e == IF config.forwardOnly THEN forward ELSE BackwardStep(forward, r, 0)
           b == BackwardsIn(config, r, "plain", k)
           q == Following(r)
<1>1. In(r, "plain", 0) /\ Becomes(r, e) /\ Turn(r)
  BY DEF Plain, K
<1>2. /\ config \in Configs /\ LoopAt(config, p) = "plain" /\ PlaceOK(config, r, p)
      /\ k \in Nat /\ k < TurnsOf(config, r, "plain")
      /\ Work(config, r, d, ForwardsIn(config, r, "plain", k, 0), b)
      /\ Synced(config, r, d, p, b)
  BY <1>1, Here
<1>3. config.P = 1 /\ config.V = 0
  BY <1>2, PlainAlone
<1>4. config.M \in Nat /\ k < config.M /\ Batch1(config) = config.M /\ M = config.M
      /\ TurnsOf(config, r, "plain") = config.M
  BY <1>2, <1>3, Single, ConfigType DEF TurnsOf, M
<1>5. ForwardsIn(config, r, "plain", k, 0) = k
      /\ ForwardsIn(config, r, "plain", k + 1, 0) = k + 1
  BY DEF ForwardsIn
<1>6. b = (IF config.forwardOnly THEN 0 ELSE k)
      /\ BackwardsIn(config, r, "plain", k + 1) = (IF config.forwardOnly THEN 0 ELSE k + 1)
  BY DEF BackwardsIn
<1>7. Work(config, r, d, k, b) /\ Shaped(config, d)
  BY <1>2, <1>5 DEF Work, Counts
<1>8. TurnOver(config, r, p, q)
  BY <1>2, FollowingIs
<1> HIDE DEF b, q, e, lastOne
<1>9. /\ SameWork(d, input) /\ input.reduced = d.reduced
      /\ input.noSync = (d.noSync /\ ~lastOne)
  BY <1>7 DEF Shaped, Fields, SameWork
<1> HIDE DEF input
<1>10. Work(config, r, input, k, b)
  <2>1. input.reduced \in [ChunksOf(config) -> Seq(Nat)] /\ input.noSync \in BOOLEAN
    BY <1>7, <1>9 DEF Shaped
  <2>2. QED BY <1>2, <1>7, <1>9, <2>1, WorkSame
<1>11. Work(config, r, forward, k + 1, b) /\ SameSync(input, forward)
  <2> DEFINE full == FALSE
  <2>1. full \in BOOLEAN /\ forward = Kept(ForwardStep(input, r, 0, full), 0)
        /\ k < Batch1(config) /\ (config.P > 1 => full = FullAt(config, r, k))
    BY <1>2, <1>3, <1>4
  <2> HIDE DEF full, forward
  <2>2. QED BY <1>2, <1>3, <1>10, <2>1, SingleForward
<1> HIDE DEF forward
<1>12. CASE config.forwardOnly
  <2>1. e = forward
    BY <1>12 DEF e
  <2>2. Work(config, r, e, ForwardsIn(config, r, "plain", k + 1, 0),
                           BackwardsIn(config, r, "plain", k + 1))
    BY <1>5, <1>6, <1>11, <1>12, <2>1
  <2>3. Synced(config, r, e, Following(r), BackwardsIn(config, r, "plain", k + 1))
    BY <1>12 DEF Synced
  <2>4. QED BY <1>1, <2>2, <2>3, TurnMoves
<1>13. CASE ~config.forwardOnly
  <2> DEFINE now == config.sync # "none" /\ ~forward.noSync
             f == k + 1
  <2>1. e = BackwardStep(forward, r, 0)
    BY <1>13 DEF e
  <2>2. b = k /\ Work(config, r, forward, f, k) /\ k < f
    BY <1>2, <1>6, <1>11, <1>13
  <2> HIDE DEF f
  <2>3. Work(config, r, e, f, k + 1) /\ SinglyReduced(config, forward, e, k + 1)
    BY <1>2, <1>3, <1>13, <2>1, <2>2, SingleBackward
  <2>3a. /\ e.noSync = forward.noSync /\ forward.reduced \in [{0} -> Seq(Nat)]
         /\ now => e.reduced = [forward.reduced EXCEPT ![0] = Append(@, k + 1)]
         /\ ~now => e.reduced = forward.reduced
    BY <2>3 DEF SinglyReduced
  <2>4. Work(config, r, e, ForwardsIn(config, r, "plain", k + 1, 0),
                           BackwardsIn(config, r, "plain", k + 1))
    BY <1>5, <1>6, <1>13, <2>3 DEF f
  <2>5. d.reduced[0] = << >> /\ (config.sync # "none" => d.noSync)
    BY <1>2, <1>3, <1>13 DEF Synced, Sync1
  <2>6. forward.reduced[0] = << >> /\ forward.noSync = (d.noSync /\ ~lastOne)
    BY <1>9, <1>11, <2>5 DEF SameSync
  <2>7. Synced(config, r, e, q, BackwardsIn(config, r, "plain", k + 1))
    <3>1. CASE now
      <4>1. lastOne
        BY <2>5, <2>6, <3>1
      <4>2. k + 1 = config.M
        BY <1>2, <1>4, <4>1 DEF lastOne
      <4>3. LoopAt(config, q) = "done"
        BY <1>2, <1>4, <1>8, <4>2, LoopsAfter
      <4>4. e.reduced[0] = <<config.M>>
        BY <2>3a, <2>6, <3>1, <4>2
      <4>5. config \in Configs /\ e.reduced[0] \in {<< >>, <<config.M>>}
        BY <1>2, <4>4
      <4> DEFINE b1 == BackwardsIn(config, r, "plain", k + 1)
      <4> HIDE DEF b1
      <4>6. Synced(config, r, e, q, b1)
        BY <1>3, <4>3, <4>5, SyncedDone
      <4>7. QED BY <4>6 DEF b1
    <3>2. CASE ~now
      <4>1. e.reduced[0] = << >> /\ (config.sync # "none" => e.noSync)
        BY <2>3a, <2>6, <3>2
      <4>2. QED BY <1>2, <1>3, <4>1, SyncedIdle
    <3>3. QED BY <3>1, <3>2
  <2>8. QED BY <1>1, <2>4, <2>7, TurnMoves DEF q
<1>14. QED BY <1>12, <1>13

\* The 1F1B schedule: its numbers.
LEMMA OneF1BIs ==
  ASSUME config \in Configs, OneF1B, NEW r \in Devices(config)
  PROVE  /\ config.P > 1 /\ config.V = 0 /\ Batch1(config) = config.M
         /\ WarmupOf(config, r) \in Nat /\ RemainingOf(config, r) \in Nat
         /\ WarmupOf(config, r) + RemainingOf(config, r) = Batch1(config)
         /\ Batch1(config) \in Nat /\ config.forwardOnly \in BOOLEAN
         /\ NumWarmup(r) = WarmupOf(config, r) /\ Remaining(r) = RemainingOf(config, r)
         /\ ChunksOf(config) = {0}
<1>1. config.P > 1 /\ config.V = 0
  BY DEF OneF1B, P, V
<1>2. QED BY <1>1, Single, WarmupType, WarmupIs, ConfigType

\* The flag of a pass.
LEMMA FlagIs ==
  ASSUME config \in Configs, NEW r, NEW n, NEW full, full = CheckpointMicrobatch(r, n)
  PROVE  full \in BOOLEAN /\ full = FullAt(config, r, n)
<1>1. NumWarmup(r) = WarmupOf(config, r)
  BY WarmupIs
<1>2. QED BY <1>1 DEF CheckpointMicrobatch, FullAt

\* Tensors that arrive at once change no counts.
LEMMA GotDoes ==
  ASSUME NEW cf, NEW d, Shaped(cf, d), NEW r
  PROVE  /\ SameWork(d, GotInput(d, r)) /\ SameSync(d, GotInput(d, r))
         /\ SameWork(d, GotGrad(d, r)) /\ SameSync(d, GotGrad(d, r))
BY DEF Shaped, Fields, GotInput, GotGrad, SameWork, SameSync

LEMMA RecvForwardMoves ==
  ASSUME Inv, NEW r \in Devices(config), RecvForward(r)
  PROVE  Moved(r)
<1> DEFINE p == place[r]
           k == p.k
           d == dev[r]
           w == WarmupOf(config, r)
           e == GotInput(d, r)
<1>1. OneF1B /\ Becomes(r, e)
  BY DEF RecvForward
<1>2. config \in Configs
  BY DEF Inv
<1>3. config.V = 0 /\ w \in Nat /\ config.forwardOnly \in BOOLEAN
  BY <1>1, <1>2, OneF1BIs
<1>4. ASSUME NEW f, NEW b, Work(config, r, d, f, b)
      PROVE  Work(config, r, e, f, b) /\ SameSync(d, e)
  <2>1. Shaped(config, d)
    BY <1>4 DEF Work, Counts
  <2>2. SameWork(d, e) /\ SameSync(d, e)
    BY <2>1, GotDoes
  <2> HIDE DEF e
  <2>3. QED BY <1>2, <1>4, <2>2, WorkSameSync
<1> HIDE DEF e, w
<1>5. CASE In(r, "warmup", 0) /\ HalfTurn(r)
  <2> DEFINE b == BackwardsIn(config, r, "warmup", k)
             f == ForwardsIn(config, r, "warmup", k, 0)
  <2>1. LoopAt(config, p) = "warmup" /\ Work(config, r, d, f, b) /\ Synced(config, r, d, p, b)
    BY <1>5, Here
  <2>2. ForwardsIn(config, r, "warmup", k, 1) = f
    BY DEF ForwardsIn
  <2> HIDE DEF f, b
  <2>3. Work(config, r, e, f, b) /\ SameSync(d, e)
    BY <1>4, <2>1
  <2>4. \A q : Synced(config, r, e, q, b)
    BY <1>2, <1>3, <2>1, <2>3, IdleKept
  <2>5. QED BY <1>1, <1>5, <2>2, <2>3, <2>4, HalfMoves DEF b
<1>6. CASE In(r, "first", 0) /\ Turn(r)
  <2> DEFINE b == BackwardsIn(config, r, "first", k)
             f == ForwardsIn(config, r, "first", k, 0)
  <2>1. LoopAt(config, p) = "first" /\ Work(config, r, d, f, b) /\ Synced(config, r, d, p, b)
    BY <1>6, Here
  <2>2. ForwardsIn(config, r, "first", k + 1, 0) = f
        /\ BackwardsIn(config, r, "first", k + 1) = b
    BY DEF ForwardsIn, BackwardsIn
  <2> HIDE DEF f, b
  <2>3. Work(config, r, e, f, b) /\ SameSync(d, e)
    BY <1>4, <2>1
  <2>4. \A q : Synced(config, r, e, q, b)
    BY <1>2, <1>3, <2>1, <2>3, IdleKept
  <2>5. QED BY <1>1, <1>6, <2>2, <2>3, <2>4, TurnMoves
<1>7. CASE In(r, "steady", 1) /\ config.forwardOnly /\ Turn(r)
  <2> DEFINE b == BackwardsIn(config, r, "steady", k)
             f == ForwardsIn(config, r, "steady", k, 1)
  <2>1. LoopAt(config, p) = "steady" /\ Work(config, r, d, f, b) /\ Synced(config, r, d, p, b)
        /\ k \in Nat
    BY <1>7, Here
  <2>2. ForwardsIn(config, r, "steady", k + 1, 0) = f
        /\ BackwardsIn(config, r, "steady", k + 1) = b
    BY <1>3, <1>7, <2>1 DEF ForwardsIn, BackwardsIn, w
  <2> HIDE DEF f, b
  <2>3. Work(config, r, e, f, b) /\ SameSync(d, e)
    BY <1>4, <2>1
  <2>4. \A q : Synced(config, r, e, q, b)
    BY <1>2, <1>3, <2>1, <2>3, IdleKept
  <2>5. QED BY <1>1, <1>7, <2>2, <2>3, <2>4, TurnMoves
<1>8. QED BY <1>5, <1>6, <1>7 DEF RecvForward

LEMMA WarmupForwardMoves ==
  ASSUME Inv, NEW r \in Devices(config), WarmupForward(r)
  PROVE  Moved(r)
<1> DEFINE p == place[r]
           k == p.k
           d == dev[r]
           full == CheckpointMicrobatch(r, k)
           e == Kept(ForwardStep(d, r, 0, full), 0)
           b == BackwardsIn(config, r, "warmup", k)
<1>1. OneF1B /\ In(r, "warmup", 1) /\ Becomes(r, e) /\ Turn(r)
  BY DEF WarmupForward, K
<1>2. /\ config \in Configs /\ LoopAt(config, p) = "warmup" /\ k \in Nat
      /\ k < TurnsOf(config, r, "warmup")
      /\ Work(config, r, d, ForwardsIn(config, r, "warmup", k, 1), b)
      /\ Synced(config, r, d, p, b)
  BY <1>1, Here
<1>3. ForwardsIn(config, r, "warmup", k, 1) = k
      /\ ForwardsIn(config, r, "warmup", k + 1, 0) = k + 1
      /\ BackwardsIn(config, r, "warmup", k + 1) = b
  BY DEF ForwardsIn, BackwardsIn
<1>4. config.V = 0 /\ k < Batch1(config)
  <2>1. TurnsOf(config, r, "warmup") = WarmupOf(config, r)
    BY DEF TurnsOf
  <2>2. QED BY <1>1, <1>2, <2>1, OneF1BIs
<1>5. full \in BOOLEAN /\ full = FullAt(config, r, k)
  BY <1>2, FlagIs
<1>6. e = Kept(ForwardStep(d, r, 0, full), 0) /\ Work(config, r, d, k, b)
  BY <1>2, <1>3
<1> HIDE DEF full, e, b
<1>7. Work(config, r, e, k + 1, b) /\ SameSync(d, e)
  BY <1>2, <1>4, <1>5, <1>6, SingleForward
<1>8. Synced(config, r, e, Following(r), b)
  BY <1>2, <1>4, <1>7, IdleKept
<1>9. QED BY <1>1, <1>3, <1>7, <1>8, TurnMoves

LEMMA SteadyForwardMoves ==
  ASSUME Inv, NEW r \in Devices(config), SteadyForward(r)
  PROVE  Moved(r)
<1> DEFINE p == place[r]
           k == p.k
           d == dev[r]
           w == WarmupOf(config, r)
           n == k + NumWarmup(r)
           full == CheckpointMicrobatch(r, n)
           g == Kept(ForwardStep(d, r, 0, full), 0)
           e == IF config.forwardOnly THEN g ELSE GotGrad(g, r)
           b == BackwardsIn(config, r, "steady", k)
           lastOne == k = Remaining(r) - 1
<1>1. /\ OneF1B /\ In(r, "steady", 0) /\ Becomes(r, e)
      /\ IF config.forwardOnly /\ lastOne THEN Turn(r) ELSE HalfTurn(r)
  BY DEF SteadyForward, K
<1>2. /\ config \in Configs /\ LoopAt(config, p) = "steady" /\ k \in Nat
      /\ k < TurnsOf(config, r, "steady")
      /\ Work(config, r, d, ForwardsIn(config, r, "steady", k, 0), b)
      /\ Synced(config, r, d, p, b)
  BY <1>1, Here
<1>3. config.V = 0 /\ n < Batch1(config) /\ n \in Nat /\ n = k + w /\ w \in Nat
  <2>1. TurnsOf(config, r, "steady") = RemainingOf(config, r)
    BY DEF TurnsOf
  <2>2. QED BY <1>1, <1>2, <2>1, OneF1BIs
<1>4. ForwardsIn(config, r, "steady", k, 0) = n
      /\ ForwardsIn(config, r, "steady", k, 1) = n + 1
      /\ ForwardsIn(config, r, "steady", k + 1, 0) = n + 1
      /\ (config.forwardOnly => BackwardsIn(config, r, "steady", k + 1) = b)
  <2> HIDE DEF n
  <2>1. QED BY <1>2, <1>3 DEF ForwardsIn, BackwardsIn
<1>5. full \in BOOLEAN /\ full = FullAt(config, r, n)
  BY <1>2, FlagIs
<1>6. g = Kept(ForwardStep(d, r, 0, full), 0) /\ Work(config, r, d, n, b)
  BY <1>2, <1>4
<1> HIDE DEF full, g, b, n, lastOne
<1>7. Work(config, r, g, n + 1, b) /\ SameSync(d, g)
  BY <1>2, <1>3, <1>5, <1>6, SingleForward
<1>8. Work(config, r, e, n + 1, b) /\ SameSync(d, e)
  <2>1. CASE config.forwardOnly
    BY <1>7, <2>1
  <2>2. CASE ~config.forwardOnly
    <3>1. e = GotGrad(g, r) /\ Shaped(config, g)
      BY <1>7, <2>2 DEF Work, Counts
    <3>2. SameWork(g, e) /\ SameSync(g, e)
      BY <3>1, GotDoes
    <3> HIDE DEF e
    <3>3. Work(config, r, e, n + 1, b)
      BY <1>2, <1>7, <3>2, WorkSameSync
    <3>4. QED BY <1>7, <3>2, <3>3 DEF SameSync
  <2>3. QED BY <2>1, <2>2
<1> HIDE DEF e
<1>9. \A q : Synced(config, r, e, q, b)
  BY <1>2, <1>3, <1>8, IdleKept
<1>10. CASE config.forwardOnly /\ lastOne
  BY <1>1, <1>4, <1>8, <1>9, <1>10, TurnMoves
<1>11. CASE ~(config.forwardOnly /\ lastOne)
  BY <1>1, <1>4, <1>8, <1>9, <1>11, HalfMoves DEF b
<1>12. QED BY <1>10, <1>11

LEMMA SteadyBackwardMoves ==
  ASSUME Inv, NEW r \in Devices(config), SteadyBackward(r)
  PROVE  Moved(r)
<1> DEFINE p == place[r]
           k == p.k
           d == dev[r]
           w == WarmupOf(config, r)
           g == BackwardStep(d, r, 0)
           e == IF k = Remaining(r) - 1 THEN g ELSE GotInput(g, r)
           f == ForwardsIn(config, r, "steady", k, 1)
           b == BackwardsIn(config, r, "steady", k)
<1>1. OneF1B /\ In(r, "steady", 1) /\ Becomes(r, e) /\ Turn(r) /\ ~config.forwardOnly
  BY DEF SteadyBackward, K
<1>2. /\ config \in Configs /\ LoopAt(config, p) = "steady" /\ k \in Nat
      /\ Work(config, r, d, f, b) /\ Synced(config, r, d, p, b)
  BY <1>1, Here
<1>3. config.V = 0 /\ w \in Nat
  BY <1>1, <1>2, OneF1BIs
<1>4. b = k /\ f = w + k + 1 /\ k < f
      /\ ForwardsIn(config, r, "steady", k + 1, 0) = f
      /\ BackwardsIn(config, r, "steady", k + 1) = k + 1
  BY <1>1, <1>2, <1>3 DEF ForwardsIn, BackwardsIn
<1>5. g = BackwardStep(d, r, 0) /\ Work(config, r, d, f, k)
  BY <1>2, <1>4
<1> HIDE DEF f, b, g
<1>6. Work(config, r, g, f, k + 1) /\ SinglyReduced(config, d, g, k + 1)
  BY <1>1, <1>2, <1>3, <1>4, <1>5, SingleBackward
<1>7. SameSync(d, g)
  <2>1. config.sync # "none" => d.noSync
    BY <1>1, <1>2, <1>3 DEF Synced, Sync1
  <2>2. QED BY <1>6, <2>1 DEF SinglyReduced, SameSync
<1>8. Work(config, r, e, f, k + 1) /\ SameSync(d, e)
  <2>1. CASE k = Remaining(r) - 1
    BY <1>6, <1>7, <2>1
  <2>2. CASE k # Remaining(r) - 1
    <3>1. e = GotInput(g, r) /\ Shaped(config, g)
      BY <1>6, <2>2 DEF Work, Counts
    <3>2. SameWork(g, e) /\ SameSync(g, e)
      BY <3>1, GotDoes
    <3> HIDE DEF e
    <3>3. Work(config, r, e, f, k + 1)
      BY <1>2, <1>6, <3>2, WorkSameSync
    <3>4. QED BY <1>7, <3>2, <3>3 DEF SameSync
  <2>3. QED BY <2>1, <2>2
<1> HIDE DEF e
<1>9. \A q, x : Synced(config, r, e, q, x)
  BY <1>2, <1>3, <1>8, IdleKept
<1>10. QED BY <1>1, <1>4, <1>8, <1>9, TurnMoves

LEMMA CooldownRecvMoves ==
  ASSUME Inv, NEW r \in Devices(config), CooldownRecv(r)
  PROVE  Moved(r)
<1> DEFINE p == place[r]
           k == p.k
           d == dev[r]
           w == WarmupOf(config, r)
           enable == k = NumWarmup(r) - 1 /\ (config.sync # "custom" \/ r = 0)
           g == [d EXCEPT !.noSync = @ /\ ~enable]
           e == GotGrad(g, r)
           f == ForwardsIn(config, r, "cooldown", k, 0)
           b == BackwardsIn(config, r, "cooldown", k)
<1>1. OneF1B /\ In(r, "cooldown", 0) /\ Becomes(r, e) /\ HalfTurn(r)
  BY DEF CooldownRecv, K
<1>2. /\ config \in Configs /\ LoopAt(config, p) = "cooldown" /\ k \in Nat /\ p.half = 0
      /\ k < TurnsOf(config, r, "cooldown")
      /\ Work(config, r, d, f, b) /\ Synced(config, r, d, p, b)
  BY <1>1, Here
<1>3. config.V = 0 /\ ChunksOf(config) = {0} /\ NumWarmup(r) = w
  BY <1>1, <1>2, OneF1BIs
<1>4. ForwardsIn(config, r, "cooldown", k, 1) = f
  BY DEF ForwardsIn
<1>5. ~config.forwardOnly
  <2>1. config.forwardOnly => TurnsOf(config, r, "cooldown") = 0
    BY DEF TurnsOf
  <2>2. QED BY <1>2, <2>1
<1>6. Shaped(config, d)
  BY <1>2 DEF Work, Counts
<1> HIDE DEF f, b, enable
<1>7. SameWork(d, g) /\ g.reduced = d.reduced /\ g.noSync = (d.noSync /\ ~enable)
      /\ DOMAIN g = Fields
  BY <1>6 DEF Shaped, Fields, SameWork
<1> HIDE DEF g
<1>8. Work(config, r, g, f, b) /\ Shaped(config, g)
  <2>1. g.reduced \in [ChunksOf(config) -> Seq(Nat)] /\ g.noSync \in BOOLEAN
    BY <1>6, <1>7 DEF Shaped
  <2>2. Work(config, r, g, f, b)
    BY <1>2, <1>7, <2>1, WorkSame
  <2>3. QED BY <2>2 DEF Work, Counts
<1>9. SameWork(g, e) /\ SameSync(g, e)
  BY <1>8, GotDoes
<1> HIDE DEF e
<1>10. Work(config, r, e, f, b)
  BY <1>2, <1>8, <1>9, WorkSameSync
<1>11. d.reduced[0] = << >> /\ (config.sync # "none" => d.noSync)
  BY <1>2, <1>3, <1>5 DEF Synced, Sync1
<1>12. e.reduced[0] = << >> /\ (config.sync # "none" /\ ~e.noSync => k = w - 1)
  BY <1>3, <1>7, <1>9, <1>11 DEF SameSync, enable
<1>13. ASSUME NEW q, LoopAt(config, q) = "cooldown", q.k = k, q.half = 1
       PROVE  Synced(config, r, e, q, b)
  <2>1. Sync1(config, r, e, q)
    BY <1>12, <1>13 DEF Sync1
  <2>2. QED BY <1>3, <1>12, <2>1 DEF Synced
<1>14. QED BY <1>1, <1>4, <1>10, <1>13, HalfMoves DEF b

LEMMA CooldownBackwardMoves ==
  ASSUME Inv, NEW r \in Devices(config), CooldownBackward(r)
  PROVE  Moved(r)
<1> DEFINE p == place[r]
           k == p.k
           d == dev[r]
           w == WarmupOf(config, r)
           m == RemainingOf(config, r)
           e == BackwardStep(d, r, 0)
           f == ForwardsIn(config, r, "cooldown", k, 1)
           b == BackwardsIn(config, r, "cooldown", k)
           q == Following(r)
<1>1. OneF1B /\ In(r, "cooldown", 1) /\ Becomes(r, e) /\ Turn(r)
  BY DEF CooldownBackward
<1>2. /\ config \in Configs /\ LoopAt(config, p) = "cooldown" /\ k \in Nat
      /\ PlaceOK(config, r, p) /\ k < TurnsOf(config, r, "cooldown")
      /\ Work(config, r, d, f, b) /\ Synced(config, r, d, p, b)
  BY <1>1, Here
<1>3. config.V = 0 /\ ChunksOf(config) = {0} /\ w \in Nat /\ m \in Nat /\ w + m = config.M
      /\ Batch1(config) = config.M
  BY <1>1, <1>2, OneF1BIs
<1>4. ~config.forwardOnly /\ TurnsOf(config, r, "cooldown") = w
  <2>1. config.forwardOnly => TurnsOf(config, r, "cooldown") = 0
    BY DEF TurnsOf
  <2>2. ~config.forwardOnly => TurnsOf(config, r, "cooldown") = w
    BY DEF TurnsOf
  <2>3. QED BY <1>2, <2>1, <2>2
<1>5. b = m + k /\ f = config.M /\ b < f /\ b \in Nat
      /\ ForwardsIn(config, r, "cooldown", k + 1, 0) = f
      /\ BackwardsIn(config, r, "cooldown", k + 1) = b + 1
  BY <1>2, <1>3, <1>4 DEF ForwardsIn, BackwardsIn
<1>6. e = BackwardStep(d, r, 0)
  OBVIOUS
<1>7. TurnOver(config, r, p, q)
  BY <1>2, FollowingIs
<1> HIDE DEF f, b, e, q, w, m
<1>8. Work(config, r, e, f, b + 1) /\ SinglyReduced(config, d, e, b + 1)
  BY <1>2, <1>3, <1>4, <1>5, <1>6, SingleBackward
<1> DEFINE now == config.sync # "none" /\ ~d.noSync
<1>9. /\ d.reduced \in [{0} -> Seq(Nat)] /\ e.noSync = d.noSync
      /\ now => e.reduced = [d.reduced EXCEPT ![0] = Append(@, b + 1)]
      /\ ~now => e.reduced = d.reduced
  BY <1>8 DEF SinglyReduced
<1>10. d.reduced[0] = << >> /\ (now => k = w - 1)
  BY <1>2, <1>3, <1>4 DEF Synced, Sync1, w
<1> DEFINE b1 == BackwardsIn(config, r, "cooldown", k + 1)
<1> HIDE DEF b1
<1>11. Synced(config, r, e, q, b1)
  <2>1. CASE now
    <3>1. k + 1 = w /\ b + 1 = config.M
      BY <1>2, <1>3, <1>5, <1>10, <2>1
    <3>2. LoopAt(config, q) \in {"finish", "done"}
      BY <1>2, <1>3, <1>4, <1>7, <3>1, LoopsAfter
    <3>3. e.reduced[0] = <<config.M>>
      BY <1>9, <1>10, <2>1, <3>1
    <3>4. e.reduced[0] \in {<< >>, <<config.M>>} /\ ~e.noSync
      BY <1>9, <2>1, <3>3
    <3>5. CASE LoopAt(config, q) = "done"
      BY <1>2, <1>3, <3>4, <3>5, SyncedDone
    <3>6. CASE LoopAt(config, q) = "finish"
      BY <1>2, <1>3, <3>4, <3>6, SyncedFinish
    <3>7. QED BY <3>2, <3>5, <3>6
  <2>2. CASE ~now
    <3>1. e.reduced[0] = << >> /\ (config.sync # "none" => e.noSync)
      BY <1>9, <1>10, <2>2
    <3>2. QED BY <1>2, <1>3, <3>1, SyncedIdle
  <2>3. QED BY <2>1, <2>2
<1>12. QED BY <1>1, <1>5, <1>8, <1>11, TurnMoves DEF q, b1

LEMMA FinishMoves ==
  ASSUME Inv, NEW r \in Devices(config), Finish(r)
  PROVE  Moved(r)
<1> DEFINE p == place[r]
           k == p.k
           d == dev[r]
           now == config.sync = "custom" /\ d.noSync
           e == IF now THEN Reduce(d, 0) ELSE d
           f == ForwardsIn(config, r, "finish", k, 0)
           b == BackwardsIn(config, r, "finish", k)
           q == Following(r)
<1>1. OneF1B /\ In(r, "finish", 0) /\ Becomes(r, e) /\ Turn(r)
  BY DEF Finish
<1>2. /\ config \in Configs /\ LoopAt(config, p) = "finish" /\ k \in Nat
      /\ PlaceOK(config, r, p) /\ k < TurnsOf(config, r, "finish")
      /\ Work(config, r, d, f, b) /\ Synced(config, r, d, p, b)
  BY <1>1, Here
<1>3. config.V = 0 /\ ChunksOf(config) = {0} /\ Batch1(config) = config.M
  BY <1>1, <1>2, OneF1BIs
<1>4. ForwardsIn(config, r, "finish", k + 1, 0) = f /\ BackwardsIn(config, r, "finish", k + 1) = b
      /\ (~config.forwardOnly => b = config.M)
  BY <1>3 DEF ForwardsIn, BackwardsIn
<1>5. TurnOver(config, r, p, q) /\ k + 1 = TurnsOf(config, r, "finish")
  <2>1. TurnsOf(config, r, "finish") = 1
    BY DEF TurnsOf
  <2>2. QED BY <1>2, <2>1, FollowingIs
<1>6. LoopAt(config, q) = "done"
  BY <1>2, <1>5, LoopsAfter
<1>7. Shaped(config, d) /\ d.summed[0] = b /\ b \in Nat
  BY <1>2, <1>3, OneChunkCounts DEF Work, Counts
<1>8. d.reduced \in [{0} -> Seq(Nat)] /\ d.noSync \in BOOLEAN /\ DOMAIN d = Fields
  BY <1>3, <1>7 DEF Shaped
<1> HIDE DEF f, b, q, now
<1>9. /\ SameWork(d, e) /\ e.noSync = d.noSync
      /\ now => e.reduced = [d.reduced EXCEPT ![0] = Append(@, b)]
      /\ ~now => e.reduced = d.reduced
  BY <1>7, <1>8 DEF Reduce, SameWork, Fields
<1> HIDE DEF e
<1>10. e.reduced \in [{0} -> Seq(Nat)] /\ e.noSync \in BOOLEAN
  <2>1. Append(d.reduced[0], b) \in Seq(Nat)
    BY <1>7, <1>8
  <2>2. QED BY <1>8, <1>9, <2>1
<1>11. Work(config, r, e, f, b)
  BY <1>2, <1>3, <1>9, <1>10, WorkSame
<1>12. Synced(config, r, e, q, b)
  <2>1. CASE config.forwardOnly
    BY <2>1 DEF Synced
  <2>2. CASE ~config.forwardOnly
    <3>1. d.reduced[0] \in {<< >>, <<config.M>>} /\ (now => d.reduced[0] = << >>)
      BY <1>2, <1>3, <2>2 DEF Synced, Sync1, now
    <3>2. now => e.reduced[0] = <<config.M>>
      BY <1>4, <1>8, <1>9, <2>2, <3>1
    <3>3. e.reduced[0] \in {<< >>, <<config.M>>}
      BY <1>9, <3>1, <3>2
    <3>4. QED BY <1>2, <1>3, <1>6, <3>3, SyncedDone
  <2>3. QED BY <2>1, <2>2
<1>13. QED BY <1>1, <1>4, <1>11, <1>12, TurnMoves DEF q

----
(***************************************************************************)
(* Steps of the interleaved schedule.                                      *)
(***************************************************************************)
\* What it has to show: the passes, and what is synchronized.
WorkV(cf, r, d, f, b) == Work(cf, r, d, f, b) /\ (~cf.forwardOnly => SyncV(cf, r, d, b))

\* Its numbers.
LEMMA InterleavedIs ==
  ASSUME config \in Configs, Interleaved, NEW r \in Devices(config)
  PROVE  /\ config.V > 0 /\ V = config.V /\ config.V # 0
         /\ WarmupOf(config, r) \in Nat /\ RemainingOf(config, r) \in Nat
         /\ WarmupOf(config, r) + RemainingOf(config, r) = Batch1(config)
         /\ Batch1(config) \in Nat /\ config.forwardOnly \in BOOLEAN
         /\ NumWarmup(r) = WarmupOf(config, r) /\ Remaining(r) = RemainingOf(config, r)
         /\ config.forwardOnly => RemainingOf(config, r) = 0
<1>1. config.V > 0 /\ V = config.V /\ config.V # 0
  BY ConfigType DEF Interleaved, V
<1>2. /\ WarmupOf(config, r) \in Nat /\ RemainingOf(config, r) \in Nat
      /\ WarmupOf(config, r) + RemainingOf(config, r) = Batch1(config)
      /\ Batch1(config) \in Nat /\ config.forwardOnly \in BOOLEAN
  BY WarmupType, ConfigType
<1>3. NumWarmup(r) = WarmupOf(config, r) /\ Remaining(r) = RemainingOf(config, r)
  BY WarmupIs
<1>4. config.forwardOnly => WarmupOf(config, r) = Batch1(config)
  BY <1>1 DEF WarmupOf
<1>5. QED BY <1>1, <1>2, <1>3, <1>4

LEMMA HereV ==
  ASSUME Inv, Interleaved, NEW r \in Devices(config), NEW loop, NEW half,
         In(r, loop, half), loop # "done"
  PROVE  LET k == place[r].k
         IN  /\ config \in Configs /\ k \in Nat /\ k < TurnsOf(config, r, loop)
             /\ half \in {0, 1}
             /\ WorkV(config, r, dev[r], ForwardsIn(config, r, loop, k, half),
                                         BackwardsIn(config, r, loop, k))
<1> DEFINE p == place[r]
           k == p.k
           d == dev[r]
           f == ForwardsIn(config, r, loop, k, half)
           b == BackwardsIn(config, r, loop, k)
<1>1. /\ config \in Configs /\ LoopAt(config, p) = loop /\ p.half = half
      /\ PlaceOK(config, r, p) /\ k \in Nat /\ k < TurnsOf(config, r, loop)
      /\ Work(config, r, d, f, b) /\ Synced(config, r, d, p, b)
  BY Here
<1>2. config.V > 0
  BY <1>1, InterleavedIs
<1>3. half \in {0, 1}
  <2> DEFINE D == DOMAIN LoopsOf(config)
  <2>1. p \in [loop : D, k : Nat, half : {0, 1}]
    BY <1>1 DEF PlaceOK
  <2> HIDE DEF D, p
  <2>2. p.half \in {0, 1}
    BY <2>1
  <2>3. QED BY <1>1, <2>2
<1> HIDE DEF f, b
<1>4. ~config.forwardOnly => SyncV(config, r, d, b)
  BY <1>1, <1>2 DEF Synced
<1>5. WorkV(config, r, d, f, b)
  BY <1>1, <1>4 DEF WorkV
<1>6. QED BY <1>1, <1>3, <1>5 DEF f, b

LEMMA TurnMovesV ==
  ASSUME Inv, Interleaved, NEW r \in Devices(config), NEW loop, NEW half,
         In(r, loop, half), loop # "done", NEW e, Becomes(r, e), Turn(r),
         NEW f, NEW b, WorkV(config, r, e, f, b),
         f = ForwardsIn(config, r, loop, place[r].k + 1, 0),
         b = BackwardsIn(config, r, loop, place[r].k + 1)
  PROVE  Moved(r)
<1>1. config \in Configs
  BY DEF Inv
<1>2. config.V > 0
  BY <1>1, InterleavedIs
<1>3. Work(config, r, e, f, b)
  BY DEF WorkV
<1>4. config.forwardOnly \/ SyncV(config, r, e, b)
  BY DEF WorkV
<1> DEFINE q == Following(r)
<1> HIDE DEF q
<1>5. Synced(config, r, e, q, b)
  BY <1>1, <1>2, <1>4, SyncedV
<1>6. QED BY <1>3, <1>5, TurnMoves DEF q

\* A forward pass,
LEMMA ForwardV ==
  ASSUME config \in Configs, Interleaved, NEW r \in Devices(config), NEW d, NEW f, NEW b,
         WorkV(config, r, d, f, b), f < Batch1(config), NEW e, e = ForwardStepHelper(d, r, f)
  PROVE  WorkV(config, r, e, f + 1, b)
<1>1. Work(config, r, d, f, b) /\ Shaped(config, d) /\ f \in Nat /\ ParamsOK(config, r, d, f)
  BY ConfigType DEF WorkV, Work, Counts
<1>2. config.V > 0
  BY InterleavedIs
<1>3. /\ \E full \in BOOLEAN : ForwardDone1(config, d, e, ForwardChunk(config, f), full)
      /\ ParamsOK(config, r, e, f + 1)
  BY <1>1, <1>2, ForwardHelperDoes
<1>4. PICK full \in BOOLEAN : ForwardDone1(config, d, e, ForwardChunk(config, f), full)
  BY <1>3
<1>5. Work(config, r, e, f + 1, b)
  <2>1. config.P > 1 /\ config.V = 0 => full = FullAt(config, r, f)
    BY <1>2
  <2>2. QED BY <1>1, <1>3, <1>4, <2>1, WorkForward
<1>6. SameSync(d, e)
  BY <1>4 DEF ForwardDone1, SameSync
<1>7. ~config.forwardOnly => SyncV(config, r, e, b)
  BY <1>6, SyncVSame DEF WorkV
<1>8. QED BY <1>5, <1>7 DEF WorkV

\* a backward pass,
LEMMA BackwardV ==
  ASSUME config \in Configs, Interleaved, NEW r \in Devices(config), NEW d, NEW f, NEW b,
         WorkV(config, r, d, f, b), ~config.forwardOnly, b < Batch1(config),
         FarAhead(config, f, b), NEW e, e = BackwardStepHelper(d, r, b)
  PROVE  WorkV(config, r, e, f, b + 1)
<1>1. Work(config, r, d, f, b) /\ SyncV(config, r, d, b) /\ Counts(config, d, f, b)
      /\ Shaped(config, d) /\ b \in Nat /\ d.noSync = (config.sync # "none")
  BY ConfigType DEF WorkV, Work, Counts, SyncV
<1>2. config.V > 0 /\ r \in Nat
  BY InterleavedIs DEF Devices
<1>3. /\ BackwardDone1(d, e, BackwardChunk(config, b))
      /\ BackwardReduced(config, r, b, d, e)
  BY <1>1, <1>2, BackwardHelperDoes
<1>4. e.reduced \in [ChunksOf(config) -> Seq(Nat)] /\ e.noSync \in BOOLEAN
  <2> DEFINE n == b - Shift(config, r)
             x == BackwardChunk(config, n)
             C == ChunksOf(config)
             y == BackwardChunk(config, b)
  <2>1. /\ Reduces(config, r, b) => e.reduced = [d.reduced EXCEPT ![x] = Append(@, e.summed[x])]
        /\ ~Reduces(config, r, b) => e.reduced = d.reduced
        /\ e.noSync = (config.sync # "none")
    BY <1>3 DEF BackwardReduced
  <2>2. d.reduced \in [C -> Seq(Nat)] /\ d.summed \in [C -> Nat]
    BY <1>1 DEF Shaped
  <2>3. e.summed = [d.summed EXCEPT ![y] = @ + 1]
    BY <1>3 DEF BackwardDone1
  <2>4. Reduces(config, r, b) => x \in C
    <3>1. Shift(config, r) \in Nat
      BY <1>2 DEF Shift
    <3>2. Reduces(config, r, b) => n \in Nat
      BY <1>1, <3>1 DEF Reduces
    <3>3. 0 \in C
      BY ConfigType DEF ChunksOf
    <3> HIDE DEF n
    <3>4. QED BY <3>2, <3>3, BackwardsNext
  <2>4a. y \in C
    <3>1. 0 \in C
      BY ConfigType DEF ChunksOf
    <3>2. QED BY <1>1, <3>1, BackwardsNext
  <2> HIDE DEF x, C, y
  <2>5. e.summed \in [C -> Nat]
    <3>1. d.summed[y] + 1 \in Nat
      BY <2>2, <2>4a
    <3>2. QED BY <2>2, <2>3, <3>1
  <2>6. e.reduced \in [C -> Seq(Nat)]
    <3>1. CASE Reduces(config, r, b)
      <4>1. Append(d.reduced[x], e.summed[x]) \in Seq(Nat)
        BY <2>2, <2>4, <2>5, <3>1
      <4>2. QED BY <2>1, <2>2, <3>1, <4>1
    <3>2. CASE ~Reduces(config, r, b)
      BY <2>1, <2>2, <3>2
    <3>3. QED BY <3>1, <3>2
  <2>7. e.noSync \in BOOLEAN
    BY <2>1
  <2>8. QED BY <2>6, <2>7 DEF C
<1>5. Work(config, r, e, f, b + 1)
  BY <1>1, <1>3, <1>4, WorkBackward
<1>6. Counts(config, e, f, b + 1)
  BY <1>5 DEF Work
<1>7. SyncV(config, r, e, b + 1)
  BY <1>1, <1>2, <1>3, <1>6, SyncVBackward
<1>8. QED BY <1>5, <1>7 DEF WorkV

\* and what arrives at once.
LEMMA NothingV ==
  ASSUME config \in Configs, NEW r, NEW d, NEW f, NEW b, WorkV(config, r, d, f, b), NEW c
  PROVE  WorkV(config, r, NoInput(d, c), f, b) /\ WorkV(config, r, NoGrad(d, c), f, b)
<1>1. Work(config, r, d, f, b) /\ Shaped(config, d)
  BY DEF WorkV, Work, Counts
<1>2. ASSUME NEW e, SameWork(d, e), SameSync(d, e) PROVE WorkV(config, r, e, f, b)
  <2>1. Work(config, r, e, f, b)
    BY <1>1, <1>2, WorkSameSync
  <2>2. ~config.forwardOnly => SyncV(config, r, e, b)
    BY <1>2, SyncVSame DEF WorkV
  <2>3. QED BY <2>1, <2>2 DEF WorkV
<1> DEFINE g == NoInput(d, c)
           h == NoGrad(d, c)
<1>3. SameWork(d, g) /\ SameSync(d, g) /\ SameWork(d, h) /\ SameSync(d, h)
  BY <1>1 DEF Shaped, Fields, NoInput, NoGrad, SameWork, SameSync
<1> HIDE DEF g, h
<1>4. WorkV(config, r, g, f, b) /\ WorkV(config, r, h, f, b)
  BY <1>2, <1>3
<1>5. QED BY <1>4 DEF g, h

LEMMA InterleavedFirstMoves ==
  ASSUME Inv, NEW r \in Devices(config), InterleavedFirst(r)
  PROVE  Moved(r)
<1> DEFINE k == place[r].k
           d == dev[r]
           e == IF OnFirstDevice(r) THEN NoInput(d, 0) ELSE d
           f == ForwardsIn(config, r, "first", k, 0)
           b == BackwardsIn(config, r, "first", k)
<1>1. Interleaved /\ In(r, "first", 0) /\ Becomes(r, e) /\ Turn(r)
  BY DEF InterleavedFirst
<1>2. config \in Configs /\ WorkV(config, r, d, f, b)
  BY <1>1, HereV
<1>3. f = ForwardsIn(config, r, "first", k + 1, 0) /\ b = BackwardsIn(config, r, "first", k + 1)
  BY DEF ForwardsIn, BackwardsIn
<1> HIDE DEF f, b
<1>4. WorkV(config, r, e, f, b)
  <2> DEFINE z == 0
             g == NoInput(d, z)
  <2> HIDE DEF z
  <2>1. WorkV(config, r, g, f, b)
    BY <1>2, NothingV
  <2>2. e = g \/ e = d
    BY DEF z
  <2> HIDE DEF e, g
  <2>3. QED BY <1>2, <2>1, <2>2
<1> HIDE DEF e
<1>5. QED BY <1>1, <1>3, <1>4, TurnMovesV

LEMMA InterleavedWarmupMoves ==
  ASSUME Inv, NEW r \in Devices(config), InterleavedWarmup(r)
  PROVE  Moved(r)
<1> DEFINE k == place[r].k
           d == dev[r]
           next == GetModelChunkId(k + 1, TRUE)
           g == ForwardStepHelper(d, r, k)
           recvPrev == ~(OnFirstDevice(r) /\ next = 0) /\ k # Total - 1
           ahead == k = NumWarmup(r) - 1 /\ ~config.forwardOnly /\ ~AllWarmup
           h == IF recvPrev THEN g ELSE NoInput(g, next)
           e == IF ahead /\ OnLastDevice(r) THEN NoGrad(h, V - 1) ELSE h
           b == BackwardsIn(config, r, "warmup", k)
<1>1. Interleaved /\ In(r, "warmup", 0) /\ Becomes(r, e) /\ Turn(r)
  BY DEF InterleavedWarmup, K
<1>2. /\ config \in Configs /\ k \in Nat /\ k < TurnsOf(config, r, "warmup")
      /\ WorkV(config, r, d, ForwardsIn(config, r, "warmup", k, 0), b)
  BY <1>1, HereV
<1>3. ForwardsIn(config, r, "warmup", k, 0) = k
      /\ k + 1 = ForwardsIn(config, r, "warmup", k + 1, 0)
      /\ b = BackwardsIn(config, r, "warmup", k + 1)
  BY DEF ForwardsIn, BackwardsIn
<1>4. k < Batch1(config)
  <2>1. TurnsOf(config, r, "warmup") = WarmupOf(config, r)
    BY DEF TurnsOf
  <2>2. QED BY <1>1, <1>2, <2>1, InterleavedIs
<1>5. g = ForwardStepHelper(d, r, k) /\ WorkV(config, r, d, k, b)
  BY <1>2, <1>3
<1> HIDE DEF g, b, next, recvPrev, ahead
<1>6. WorkV(config, r, g, k + 1, b)
  BY <1>1, <1>2, <1>4, <1>5, ForwardV
<1> DEFINE f == k + 1
           last == V - 1
<1>6a. WorkV(config, r, g, f, b)
  BY <1>6
<1>6b. e = IF ahead /\ OnLastDevice(r) THEN NoGrad(h, last) ELSE h
  OBVIOUS
<1> HIDE DEF f, last, e
<1>7. WorkV(config, r, h, f, b)
  BY <1>2, <1>6a, NothingV
<1> HIDE DEF h
<1>8. WorkV(config, r, e, f, b)
  BY <1>2, <1>6b, <1>7, NothingV
<1>9. f = ForwardsIn(config, r, "warmup", k + 1, 0)
  BY <1>3 DEF f
<1>10. QED BY <1>1, <1>3, <1>8, <1>9, TurnMovesV

\* The passes of the steady state.
LEMMA SteadyIs ==
  ASSUME config \in Configs, Interleaved, NEW r \in Devices(config), NEW k \in Nat,
         k < TurnsOf(config, r, "steady")
  PROVE  LET fk == k + NumWarmup(r)
         IN  /\ ~config.forwardOnly /\ fk \in Nat /\ fk < Batch1(config)
             /\ k < Batch1(config) /\ FarAhead(config, fk + 1, k)
             /\ ForwardsIn(config, r, "steady", k, 0) = fk
             /\ ForwardsIn(config, r, "steady", k, 1) = fk + 1
             /\ ForwardsIn(config, r, "steady", k + 1, 0) = fk + 1
             /\ BackwardsIn(config, r, "steady", k) = k
             /\ BackwardsIn(config, r, "steady", k + 1) = k + 1
<1> DEFINE w == WarmupOf(config, r)
           m == RemainingOf(config, r)
           fk == k + NumWarmup(r)
<1>1. w \in Nat /\ m \in Nat /\ w + m = Batch1(config) /\ NumWarmup(r) = w
      /\ (config.forwardOnly => m = 0)
  BY InterleavedIs
<1>2. k < m
  BY DEF TurnsOf
<1>3. fk = w + k
  BY <1>1
<1>4. ~config.forwardOnly /\ fk \in Nat /\ fk < Batch1(config) /\ k < Batch1(config)
  <2> HIDE DEF w, m, fk
  <2>1. QED BY <1>1, <1>2, <1>3
<1>5. FarAhead(config, fk + 1, k)
  <2>1. k \in 0 .. m - 1
    BY <1>1, <1>2
  <2>2. FarAhead(config, w + k + 1, k)
    BY <2>1, SteadyAhead
  <2> HIDE DEF w, fk
  <2>3. w + k + 1 = fk + 1
    BY <1>1, <1>3
  <2>4. QED BY <2>2, <2>3
<1>6. /\ ForwardsIn(config, r, "steady", k, 0) = w + k + 0
      /\ ForwardsIn(config, r, "steady", k, 1) = w + k + 1
      /\ ForwardsIn(config, r, "steady", k + 1, 0) = w + (k + 1) + 0
  BY DEF ForwardsIn
<1>7. /\ BackwardsIn(config, r, "steady", k) = k
      /\ BackwardsIn(config, r, "steady", k + 1) = k + 1
  BY <1>4 DEF BackwardsIn
<1>8. w + k + 0 = fk /\ w + k + 1 = fk + 1 /\ w + (k + 1) + 0 = fk + 1
  <2> HIDE DEF w, fk
  <2>1. QED BY <1>1, <1>3
<1>9. QED BY <1>4, <1>5, <1>6, <1>7, <1>8

LEMMA InterleavedSteadyMoves ==
  ASSUME Inv, NEW r \in Devices(config), InterleavedSteady(r)
  PROVE  Moved(r)
<1> DEFINE k == place[r].k
           d == dev[r]
           fk == k + NumWarmup(r)
           n == fk + 1
           g == ForwardStepHelper(d, r, fk)
           e == BackwardStepHelper(g, r, k)
<1>1. Interleaved /\ In(r, "steady", 0) /\ Becomes(r, e) /\ Turn(r)
  BY DEF InterleavedSteady, K
<1>2. /\ config \in Configs /\ k \in Nat /\ k < TurnsOf(config, r, "steady")
      /\ WorkV(config, r, d, ForwardsIn(config, r, "steady", k, 0),
                             BackwardsIn(config, r, "steady", k))
  BY <1>1, HereV
<1>3. /\ ~config.forwardOnly /\ fk < Batch1(config) /\ k < Batch1(config)
      /\ FarAhead(config, n, k) /\ ForwardsIn(config, r, "steady", k, 0) = fk
      /\ n = ForwardsIn(config, r, "steady", k + 1, 0)
      /\ BackwardsIn(config, r, "steady", k) = k
      /\ k + 1 = BackwardsIn(config, r, "steady", k + 1)
  BY <1>1, <1>2, SteadyIs
<1>4. WorkV(config, r, d, fk, k) /\ g = ForwardStepHelper(d, r, fk)
      /\ e = BackwardStepHelper(g, r, k) /\ n = fk + 1
  BY <1>2, <1>3
<1> HIDE DEF fk, n, g, e
<1>5. WorkV(config, r, g, n, k)
  BY <1>1, <1>2, <1>3, <1>4, ForwardV
<1>6. WorkV(config, r, e, n, k + 1)
  BY <1>1, <1>2, <1>3, <1>4, <1>5, BackwardV
<1>7. QED BY <1>1, <1>3, <1>6, TurnMovesV

LEMMA OverlapForwardMoves ==
  ASSUME Inv, NEW r \in Devices(config), OverlapForward(r)
  PROVE  Moved(r)
<1> DEFINE k == place[r].k
           d == dev[r]
           fk == k + NumWarmup(r)
           n == fk + 1
           e == ForwardStepHelper(d, r, fk)
           b == BackwardsIn(config, r, "steady", k)
<1>1. Interleaved /\ In(r, "steady", 0) /\ Becomes(r, e) /\ HalfTurn(r)
  BY DEF OverlapForward, K
<1>2. /\ config \in Configs /\ k \in Nat /\ k < TurnsOf(config, r, "steady")
      /\ WorkV(config, r, d, ForwardsIn(config, r, "steady", k, 0), b)
  BY <1>1, HereV
<1>3. /\ fk < Batch1(config) /\ ForwardsIn(config, r, "steady", k, 0) = fk
      /\ ForwardsIn(config, r, "steady", k, 1) = n
  BY <1>1, <1>2, SteadyIs
<1>4. WorkV(config, r, d, fk, b) /\ e = ForwardStepHelper(d, r, fk) /\ n = fk + 1
  BY <1>2, <1>3
<1> HIDE DEF fk, n, e, b
<1>5. WorkV(config, r, e, n, b)
  BY <1>1, <1>2, <1>3, <1>4, ForwardV
<1>6. Work(config, r, e, n, b)
  BY <1>5 DEF WorkV
<1>7. config.V > 0 /\ (config.forwardOnly \/ SyncV(config, r, e, b))
  BY <1>1, <1>2, <1>5, InterleavedIs DEF WorkV
<1>8. \A q : Synced(config, r, e, q, b)
  BY <1>2, <1>7, SyncedV
<1>9. QED BY <1>1, <1>3, <1>6, <1>8, HalfMoves DEF b

LEMMA OverlapBackwardMoves ==
  ASSUME Inv, NEW r \in Devices(config), OverlapBackward(r)
  PROVE  Moved(r)
<1> DEFINE k == place[r].k
           d == dev[r]
           n == k + NumWarmup(r) + 1
           e == BackwardStepHelper(d, r, k)
<1>1. Interleaved /\ In(r, "steady", 1) /\ Becomes(r, e) /\ Turn(r)
  BY DEF OverlapBackward, K
<1>2. /\ config \in Configs /\ k \in Nat /\ k < TurnsOf(config, r, "steady")
      /\ WorkV(config, r, d, ForwardsIn(config, r, "steady", k, 1),
                             BackwardsIn(config, r, "steady", k))
  BY <1>1, HereV
<1>3. /\ ~config.forwardOnly /\ k < Batch1(config)
      /\ FarAhead(config, n, k) /\ ForwardsIn(config, r, "steady", k, 1) = n
      /\ n = ForwardsIn(config, r, "steady", k + 1, 0)
      /\ BackwardsIn(config, r, "steady", k) = k
      /\ k + 1 = BackwardsIn(config, r, "steady", k + 1)
  BY <1>1, <1>2, SteadyIs
<1>4. WorkV(config, r, d, n, k) /\ e = BackwardStepHelper(d, r, k)
  BY <1>2, <1>3
<1> HIDE DEF n, e
<1>5. WorkV(config, r, e, n, k + 1)
  BY <1>1, <1>2, <1>3, <1>4, BackwardV
<1>6. QED BY <1>1, <1>3, <1>5, TurnMovesV

LEMMA InterleavedFlushMoves ==
  ASSUME Inv, NEW r \in Devices(config), InterleavedFlush(r)
  PROVE  Moved(r)
<1> DEFINE k == place[r].k
           d == dev[r]
           e == IF OnLastDevice(r) THEN NoGrad(d, V - 1) ELSE d
           f == ForwardsIn(config, r, "flush", k, 0)
           b == BackwardsIn(config, r, "flush", k)
<1>1. Interleaved /\ In(r, "flush", 0) /\ Becomes(r, e) /\ Turn(r)
  BY DEF InterleavedFlush
<1>2. config \in Configs /\ WorkV(config, r, d, f, b)
  BY <1>1, HereV
<1>3. f = ForwardsIn(config, r, "flush", k + 1, 0) /\ b = BackwardsIn(config, r, "flush", k + 1)
  BY DEF ForwardsIn, BackwardsIn
<1> HIDE DEF f, b
<1>4. WorkV(config, r, e, f, b)
  <2> DEFINE z == V - 1
             g == NoGrad(d, z)
  <2>1. e = g \/ e = d
    OBVIOUS
  <2> HIDE DEF z, e
  <2>2. WorkV(config, r, g, f, b)
    BY <1>2, NothingV
  <2> HIDE DEF g
  <2>3. QED BY <1>2, <2>1, <2>2
<1> HIDE DEF e
<1>5. QED BY <1>1, <1>3, <1>4, TurnMovesV

LEMMA InterleavedCooldownMoves ==
  ASSUME Inv, NEW r \in Devices(config), InterleavedCooldown(r)
  PROVE  Moved(r)
<1> DEFINE k == place[r].k
           d == dev[r]
           n == Remaining(r) + k
           next == GetModelChunkId(n + 1, FALSE)
           g == BackwardStepHelper(d, r, n)
           recvNext == ~(OnLastDevice(r) /\ next = V - 1) /\ n # Total - 1
           e == IF recvNext THEN g ELSE NoGrad(g, next)
           f == ForwardsIn(config, r, "cooldown", k, 0)
           b == BackwardsIn(config, r, "cooldown", k)
           w == WarmupOf(config, r)
           m == RemainingOf(config, r)
<1>1. Interleaved /\ In(r, "cooldown", 0) /\ Becomes(r, e) /\ Turn(r)
  BY DEF InterleavedCooldown, K
<1>2. /\ config \in Configs /\ k \in Nat /\ k < TurnsOf(config, r, "cooldown")
      /\ WorkV(config, r, d, f, b)
  BY <1>1, HereV
<1>3. w \in Nat /\ m \in Nat /\ w + m = Batch1(config) /\ Remaining(r) = m
  BY <1>1, <1>2, InterleavedIs
<1>4. ~config.forwardOnly /\ TurnsOf(config, r, "cooldown") = w
  <2>1. config.forwardOnly => TurnsOf(config, r, "cooldown") = 0
    BY DEF TurnsOf
  <2>2. ~config.forwardOnly => TurnsOf(config, r, "cooldown") = w
    BY DEF TurnsOf
  <2>3. QED BY <1>2, <2>1, <2>2
<1>5. b = n /\ f = Batch1(config) /\ f = ForwardsIn(config, r, "cooldown", k + 1, 0)
      /\ BackwardsIn(config, r, "cooldown", k + 1) = m + (k + 1)
  BY <1>3, <1>4 DEF ForwardsIn, BackwardsIn
<1>6. n < Batch1(config) /\ m + (k + 1) = n + 1
  <2>1. n = m + k
    BY <1>3
  <2> HIDE DEF n, m, w
  <2>2. QED BY <1>2, <1>3, <1>4, <2>1
<1>7. g = BackwardStepHelper(d, r, n) /\ WorkV(config, r, d, f, n)
  BY <1>2, <1>5
<1> DEFINE h == n + 1
<1>8. h = BackwardsIn(config, r, "cooldown", k + 1)
  BY <1>5, <1>6
<1> HIDE DEF f, b, n, g, next, recvNext
<1>9. FarAhead(config, f, n)
  BY <1>5 DEF FarAhead
<1>11. WorkV(config, r, g, f, h)
  BY <1>1, <1>2, <1>4, <1>6, <1>7, <1>9, BackwardV
<1> HIDE DEF h
<1>12. WorkV(config, r, e, f, h)
  BY <1>2, <1>11, NothingV
<1> HIDE DEF e
<1>13. QED BY <1>1, <1>5, <1>8, <1>12, TurnMovesV

LEMMA InterleavedFinishMoves ==
  ASSUME Inv, NEW r \in Devices(config), InterleavedFinish(r)
  PROVE  Moved(r)
<1> DEFINE p == place[r]
           k == p.k
           d == dev[r]
           C == ChunksOf(config)
           now == config.sync = "custom"
           g == [c \in C |-> IF d.reduced[c] = << >> THEN <<d.summed[c]>> ELSE d.reduced[c]]
           e == IF now THEN [d EXCEPT !.reduced = g] ELSE d
           f == ForwardsIn(config, r, "finish", k, 0)
           b == BackwardsIn(config, r, "finish", k)
           q == Following(r)
<1>1. Interleaved /\ In(r, "finish", 0) /\ Turn(r)
  BY DEF InterleavedFinish
<1>2. /\ config \in Configs /\ LoopAt(config, p) = "finish" /\ k \in Nat
      /\ PlaceOK(config, r, p) /\ k < TurnsOf(config, r, "finish")
      /\ Work(config, r, d, f, b) /\ Synced(config, r, d, p, b)
  BY <1>1, Here
<1>3. Becomes(r, e)
  <2>1. Chunks = C
    BY <1>2, WarmupIs
  <2>2. Becomes(r, IF config.sync # "custom" THEN d
                   ELSE [d EXCEPT !.reduced = [c \in Chunks |->
                           IF d.reduced[c] = << >> THEN <<d.summed[c]>> ELSE d.reduced[c]]])
    BY DEF InterleavedFinish
  <2>3. Becomes(r, IF config.sync # "custom" THEN d ELSE [d EXCEPT !.reduced = g])
    BY <2>1, <2>2
  <2> HIDE DEF g
  <2>4. e = IF config.sync # "custom" THEN d ELSE [d EXCEPT !.reduced = g]
    OBVIOUS
  <2> HIDE DEF e
  <2>5. QED BY <2>3, <2>4
<1>4. f = ForwardsIn(config, r, "finish", k + 1, 0) /\ b = BackwardsIn(config, r, "finish", k + 1)
      /\ (~config.forwardOnly => b = Batch1(config))
  BY DEF ForwardsIn, BackwardsIn
<1>5. TurnOver(config, r, p, q) /\ k + 1 = TurnsOf(config, r, "finish")
  <2>1. TurnsOf(config, r, "finish") = 1
    BY DEF TurnsOf
  <2>2. QED BY <1>2, <2>1, FollowingIs
<1>6. LoopAt(config, q) = "done"
  BY <1>2, <1>5, LoopsAfter
<1>7. Shaped(config, d) /\ \A c \in C : d.summed[c] = Backwards(config, b, c)
  BY <1>2 DEF Work, Counts
<1>8. d.reduced \in [C -> Seq(Nat)] /\ d.summed \in [C -> Nat] /\ d.noSync \in BOOLEAN
      /\ DOMAIN d = Fields
  BY <1>7 DEF Shaped
<1> HIDE DEF f, b, q, C
<1>9. g \in [C -> Seq(Nat)]
  <2>1. \A c \in C : <<d.summed[c]>> \in Seq(Nat) /\ d.reduced[c] \in Seq(Nat)
    BY <1>8
  <2>2. QED BY <2>1
<1>10. \A c \in C : g[c] = IF d.reduced[c] = << >> THEN <<d.summed[c]>> ELSE d.reduced[c]
  OBVIOUS
<1> HIDE DEF g
<1>11. SameWork(d, e) /\ e.noSync = d.noSync /\ e.reduced \in [C -> Seq(Nat)]
       /\ (now => e.reduced = g) /\ (~now => e.reduced = d.reduced)
  <2>1. CASE now
    <3>1. e = [d EXCEPT !.reduced = g]
      BY <2>1
    <3> HIDE DEF e
    <3>2. QED BY <1>8, <1>9, <2>1, <3>1 DEF SameWork, Fields
  <2>2. CASE ~now
    <3>1. e = d
      BY <2>2
    <3> HIDE DEF e
    <3>2. QED BY <1>8, <2>2, <3>1 DEF SameWork, Fields
  <2>3. QED BY <2>1, <2>2
<1> HIDE DEF e
<1>12. Work(config, r, e, f, b)
  <2>1. e.reduced \in [ChunksOf(config) -> Seq(Nat)] /\ e.noSync \in BOOLEAN
    BY <1>8, <1>11 DEF C
  <2>2. QED BY <1>2, <1>11, <2>1, WorkSame
<1>13. config.V > 0 /\ config.V # 0
  BY <1>1, <1>2, InterleavedIs
<1>14. Synced(config, r, e, q, b)
  <2>1. ASSUME ~config.forwardOnly, NEW c \in C PROVE e.reduced[c] \in {<< >>, <<config.M>>}
    <3>1. d.reduced[c] \in {<< >>, <<config.M>>}
      BY <1>2, <2>1 DEF Synced, C
    <3>2. d.summed[c] = config.M
      <4>1. b \in Nat /\ b = Batch1(config)
        BY <1>2, <1>4, <2>1, ConfigType
      <4>2. Backwards(config, b, c) = config.M
        BY <1>2, <2>1, <4>1, BackwardsNext DEF C
      <4>3. QED BY <1>7, <2>1, <4>2
    <3>3. QED BY <1>10, <1>11, <2>1, <3>1, <3>2
  <2>2. QED BY <1>6, <1>13, <2>1 DEF Synced, C
<1>15. QED BY <1>1, <1>3, <1>4, <1>12, <1>14, TurnMoves DEF q

----
(***************************************************************************)
(* The invariant.                                                          *)
(***************************************************************************)
\* A device at the start.
LEMMA IdleOK ==
  ASSUME config \in Configs, NEW r \in Devices(config)
  PROVE  DeviceOK(config, r, Idle(r), LoopFrom(r, 1))
<1> DEFINE d == Idle(r)
           q == LoopFrom(r, 1)
           C == ChunksOf(config)
           one == 1
           none == 0
<1>1. /\ DOMAIN d = Fields /\ d.outputs = [c \in C |-> << >>] /\ d.fed = [c \in C |-> 0]
      /\ d.summed = [c \in C |-> 0] /\ d.reduced = [c \in C |-> << >>]
      /\ d.params = {c \in C : c < 2} /\ d.noSync = (config.sync # "none")
  <2>1. Chunks = C
    BY WarmupIs
  <2>2. QED BY <2>1 DEF Idle, Fields
<1>2. config.P \in Nat \ {0} /\ config.V \in Nat /\ config.M \in Nat /\ Batch1(config) \in Nat
      /\ r \in 0 .. config.P - 1
  BY ConfigType DEF Devices
<1>3. 0 \in C /\ \A c \in C : c \in Nat
  BY ConfigType DEF ChunksOf
<1>4. LoopsOf(config)[1] \in {"plain", "warmup", "first"}
      /\ (LoopsOf(config)[1] = "first" => config.V # 0) /\ one \in 1 .. Len(LoopsOf(config))
  <2>1. CASE config.P = 1
    BY <2>1, LoopsAre
  <2>2. CASE config.P # 1 /\ config.V = 0
    BY <2>2, LoopsAre
  <2>3. CASE config.P # 1 /\ config.V # 0
    BY <2>3, LoopsAre
  <2>4. QED BY <2>1, <2>2, <2>3
<1>5. one = 1 /\ none = 0
  OBVIOUS
<1> HIDE DEF one, none
<1>6. Started(config, r, one, LoopFrom(r, one))
  BY <1>4, LoopFromStarts
<1>7. /\ PlaceOK(config, r, q) /\ ForwardsAt(config, r, q) = none
      /\ BackwardsAt(config, r, q) = none
  <2>1. Started(config, r, 1, q)
    BY <1>5, <1>6
  <2> HIDE DEF q
  <2>2. ForwardsIn(config, r, LoopsOf(config)[1], 0, 0) = 0
        /\ BackwardsIn(config, r, LoopsOf(config)[1], 0) = 0
    BY <1>4 DEF ForwardsIn, BackwardsIn
  <2>3. QED BY <1>5, <2>1, <2>2 DEF Started
<1> HIDE DEF q, d
<1>8. Counts(config, d, none, none)
  <2>1. Shaped(config, d)
    BY <1>1 DEF Shaped, C
  <2>2. \A c \in C : d.fed[c] = 0 /\ d.summed[c] = 0 /\ d.outputs[c] = << >>
    BY <1>1
  <2>3. \A c \in C : Forwards(config, none, c) = 0 /\ Backwards(config, none, c) = 0
    BY <1>5, NonePassed DEF C
  <2>4. Held(config, d) = {}
    BY <2>2 DEF Held, C
  <2>5. IsFiniteSet(Held(config, d)) /\ Cardinality(Held(config, d)) = 0
    BY <2>4, FS_EmptySet
  <2>6. none \in 0 .. Batch1(config) /\ none \in 0 .. none /\ none - none = 0
    BY <1>2, <1>5
  <2>7. \A c \in C : Len(d.outputs[c]) = d.fed[c] - d.summed[c]
    BY <2>2
  <2>8. QED BY <1>5, <2>1, <2>2, <2>3, <2>5, <2>6, <2>7 DEF Counts, C
<1>9. PartialOK(config, r, d)
  BY <1>1, <1>3 DEF PartialOK
<1>10. ParamsOK(config, r, d, none)
  <2>1. ASSUME NEW c \in C, ~(c < 2), none + r > (c - 1) * config.P PROVE FALSE
    <3> DEFINE p == config.P
               h == c - 1
    <3>1. h \in Nat /\ 1 <= h /\ p \in Nat \ {0} /\ r <= p - 1 /\ r \in Nat /\ 1 \in Nat
      BY <1>2, <1>3, <2>1
    <3>2. none + r > h * p
      BY <2>1
    <3> HIDE DEF p, h
    <3>3. 1 * p <= h * p /\ 1 * p = p /\ h * p \in Nat
      BY <3>1, ProductMonotone, ProductNat
    <3>4. QED BY <1>5, <3>1, <3>2, <3>3
  <2>2. \A c \in C : c < 2 => c \in d.params
    BY <1>1
  <2>3. QED BY <2>1, <2>2 DEF ParamsOK, C
<1>11. Synced(config, r, d, q, none)
  <2>1. CASE config.V = 0
    <3>1. d.reduced[0] = << >> /\ (config.sync # "none" => d.noSync)
      BY <1>1, <1>3
    <3>2. QED BY <2>1, <3>1, SyncedIdle
  <2>2. CASE config.V # 0
    <3>1. \A c \in C : d.reduced[c] = << >>
      BY <1>1
    <3>2. SyncV(config, r, d, none)
      BY <1>1, <3>1 DEF SyncV, C
    <3>3. config.V > 0
      BY <1>2, <2>2
    <3>4. QED BY <3>2, <3>3, SyncedV
  <2>3. QED BY <2>1, <2>2
<1>12. Work(config, r, d, none, none)
  BY <1>8, <1>9, <1>10 DEF Work
<1>13. QED BY <1>7, <1>11, <1>12 DEF DeviceOK, d, q

LEMMA InitInv == Init => Inv
<1> SUFFICES ASSUME Init PROVE Inv
  OBVIOUS
<1>1. config \in Configs
  BY DEF Init
<1>2. Ranks = Devices(config)
  BY <1>1, WarmupIs
<1>3. place = [r \in Devices(config) |-> LoopFrom(r, 1)]
      /\ dev = [r \in Devices(config) |-> Idle(r)]
  BY <1>2 DEF Init
<1>4. ASSUME NEW r \in Devices(config) PROVE DeviceOK(config, r, dev[r], place[r])
  BY <1>1, <1>3, IdleOK
<1>5. QED BY <1>1, <1>3, <1>4 DEF Inv

\* A change of one device that leaves it with d at place q keeps it,
LEMMA OneChangeInv ==
  ASSUME Inv, NEW r \in Devices(config), NEW d, NEW q, DeviceOK(config, r, d, q),
         dev' = [dev EXCEPT ![r] = d], DOMAIN place' = DOMAIN place, place'[r] = q,
         \A x \in Devices(config) \ {r} : place'[x] = place[x], config' = config
  PROVE  Inv'
<1>1. /\ config \in Configs
      /\ DOMAIN dev = Devices(config) /\ DOMAIN place = Devices(config)
      /\ \A x \in Devices(config) : DeviceOK(config, x, dev[x], place[x])
  BY DEF Inv
<1>2. DOMAIN dev' = Devices(config) /\ DOMAIN place' = Devices(config)
  BY <1>1
<1>3. ASSUME NEW x \in Devices(config) PROVE DeviceOK(config, x, dev'[x], place'[x])
  <2>1. CASE x = r
    <3>1. dev'[x] = d /\ place'[x] = q
      BY <1>1, <2>1
    <3>2. QED BY <2>1, <3>1
  <2>2. CASE x # r
    <3>1. dev'[x] = dev[x] /\ place'[x] = place[x]
      BY <1>1, <2>2
    <3>2. QED BY <1>1, <3>1
  <2>3. QED BY <2>1, <2>2
<1>4. QED BY <1>1, <1>2, <1>3 DEF Inv

\* so does a step of a device,
LEMMA MovedInv ==
  ASSUME Inv, NEW r \in Devices(config), Moved(r)
  PROVE  Inv'
<1>1. PICK d, q : /\ DeviceOK(config, r, d, q)
                  /\ dev' = [dev EXCEPT ![r] = d] /\ place' = [place EXCEPT ![r] = q]
                  /\ config' = config
  BY DEF Moved
<1>2. DOMAIN place = Devices(config)
  BY DEF Inv
<1>3. DOMAIN place' = DOMAIN place /\ place'[r] = q
      /\ \A x \in Devices(config) \ {r} : place'[x] = place[x]
  BY <1>1, <1>2
<1>4. QED BY <1>1, <1>3, OneChangeInv

\* whichever it takes,
LEMMA StepMoves ==
  ASSUME Inv, NEW r \in Devices(config), Step(r)
  PROVE  Moved(r)
<1>1. CASE Plain(r)
  BY <1>1, PlainMoves
<1>2. CASE RecvForward(r)
  BY <1>2, RecvForwardMoves
<1>3. CASE WarmupForward(r)
  BY <1>3, WarmupForwardMoves
<1>4. CASE SteadyForward(r)
  BY <1>4, SteadyForwardMoves
<1>5. CASE SteadyBackward(r)
  BY <1>5, SteadyBackwardMoves
<1>6. CASE CooldownRecv(r)
  BY <1>6, CooldownRecvMoves
<1>7. CASE CooldownBackward(r)
  BY <1>7, CooldownBackwardMoves
<1>8. CASE Finish(r)
  BY <1>8, FinishMoves
<1>9. CASE InterleavedFirst(r)
  BY <1>9, InterleavedFirstMoves
<1>10. CASE InterleavedWarmup(r)
  BY <1>10, InterleavedWarmupMoves
<1>11. CASE InterleavedSteady(r)
  BY <1>11, InterleavedSteadyMoves
<1>12. CASE OverlapForward(r)
  BY <1>12, OverlapForwardMoves
<1>13. CASE OverlapBackward(r)
  BY <1>13, OverlapBackwardMoves
<1>14. CASE InterleavedFlush(r)
  BY <1>14, InterleavedFlushMoves
<1>15. CASE InterleavedCooldown(r)
  BY <1>15, InterleavedCooldownMoves
<1>16. CASE InterleavedFinish(r)
  BY <1>16, InterleavedFinishMoves
<1>17. QED BY <1>1, <1>2, <1>3, <1>4, <1>5, <1>6, <1>7, <1>8, <1>9, <1>10, <1>11, <1>12,
     <1>13, <1>14, <1>15, <1>16 DEF Step

\* and a tensor that arrives, of whatever content, changes no counts.
LEMMA TransferInv ==
  ASSUME Inv, Transfer
  PROVE  Inv'
<1>1. config \in Configs /\ Ranks = Devices(config) /\ config' = config /\ place' = place
  BY WarmupIs DEF Inv, Transfer
<1>2. PICK r \in Ranks : \E o, t : dev' = [dev EXCEPT ![r] = Deliver(@, o, t)]
  BY DEF Transfer
<1>3. PICK o, t : dev' = [dev EXCEPT ![r] = Deliver(@, o, t)]
  BY <1>2
<1>4. DOMAIN dev = Devices(config) /\ DOMAIN place = Devices(config)
      /\ \A x \in Devices(config) : DeviceOK(config, x, dev[x], place[x])
  BY DEF Inv
<1> DEFINE p == place[r]
           d == dev[r]
           e == Deliver(d, o, t)
           f == ForwardsAt(config, r, p)
           b == BackwardsAt(config, r, p)
<1>5. PlaceOK(config, r, p) /\ Work(config, r, d, f, b) /\ Synced(config, r, d, p, b)
  BY <1>1, <1>4 DEF DeviceOK
<1>6. dev' = [dev EXCEPT ![r] = e]
  BY <1>3
<1>7. SameWork(d, e) /\ SameSync(d, e)
  <2>1. DOMAIN d = Fields
    BY <1>5 DEF Work, Counts, Shaped
  <2> HIDE DEF d
  <2>2. \/ e = [d EXCEPT !.inputs[o.chunk] = Append(@, t)]
        \/ e = [d EXCEPT !.grads[o.chunk] = Append(@, t)]
        \/ e = d
    BY DEF Deliver
  <2> HIDE DEF e
  <2>3. QED BY <2>1, <2>2 DEF Fields, SameWork, SameSync
<1> HIDE DEF e, f, b
<1>8. Work(config, r, e, f, b)
  BY <1>1, <1>5, <1>7, WorkSameSync
<1>9. Synced(config, r, e, p, b)
  <2>1. e.reduced = d.reduced /\ e.noSync = d.noSync
    BY <1>7 DEF SameSync
  <2>2. Sync1(config, r, d, p) => Sync1(config, r, e, p)
    BY <2>1 DEF Sync1
  <2>3. SyncV(config, r, d, b) => SyncV(config, r, e, b)
    BY <1>7, SyncVSame
  <2>4. QED BY <1>5, <2>1, <2>2, <2>3 DEF Synced
<1>10. DeviceOK(config, r, e, p)
  BY <1>5, <1>8, <1>9 DEF DeviceOK, f, b
<1>11. QED BY <1>1, <1>6, <1>10, OneChangeInv

LEMMA NextInv == Inv /\ [Next]_vars => Inv'
<1> SUFFICES ASSUME Inv, [Next]_vars PROVE Inv'
  OBVIOUS
<1>1. CASE Transfer
  BY <1>1, TransferInv
<1>2. CASE \E r \in Ranks : Step(r)
  <2>1. PICK r \in Ranks : Step(r)
    BY <1>2
  <2>2. r \in Devices(config)
    BY WarmupIs DEF Inv
  <2>3. QED BY <2>1, <2>2, StepMoves, MovedInv
<1>3. CASE UNCHANGED vars
  BY <1>3 DEF vars, Inv
<1>4. QED BY <1>1, <1>2, <1>3 DEF Next

\* What a device has done, keeps, has reduced and has of the parameters is, in
\* every schedule, what its place in the program of its schedule says.
THEOREM PlaceTellsWork == Spec => []Inv
<1>1. Init => Inv
  BY InitInv
<1>2. Inv /\ [Next]_vars => Inv'
  BY NextInv
<1>3. QED BY <1>1, <1>2, PTL DEF Spec

----
(***************************************************************************)
(* The properties.                                                         *)
(***************************************************************************)
\* The forward passes of a device are at most its warmup and one more ahead of its
\* backward passes.
LEMMA AheadBound ==
  ASSUME NEW cf \in Configs, NEW r \in Devices(cf), NEW p, PlaceOK(cf, r, p),
         ~cf.forwardOnly
  PROVE  ForwardsAt(cf, r, p) - BackwardsAt(cf, r, p) <= WarmupOf(cf, r) + 1
<1> DEFINE loop == LoopAt(cf, p)
           k == p.k
           half == p.half
           w == WarmupOf(cf, r)
           m == RemainingOf(cf, r)
           n == Batch1(cf)
           f == ForwardsIn(cf, r, loop, k, half)
           b == BackwardsIn(cf, r, loop, k)
<1>1. k \in Nat /\ half \in {0, 1} /\ k < TurnsOf(cf, r, loop)
  <2> DEFINE D == DOMAIN LoopsOf(cf)
  <2>1. p \in [loop : D, k : Nat, half : {0, 1}] /\ k < TurnsOf(cf, r, loop)
    BY DEF PlaceOK
  <2> HIDE DEF D, loop
  <2>2. QED BY <2>1
<1>2. w \in Nat /\ m \in Nat /\ n \in Nat /\ w + m = n
  BY WarmupType, ConfigType
<1> HIDE DEF loop, k, half
<1>3. f - b <= w + 1
  <2>1. CASE loop = "plain"
    <3>1. f = k /\ b = k
      BY <2>1 DEF ForwardsIn, BackwardsIn
    <3> HIDE DEF f, b, w
    <3>2. QED BY <1>1, <1>2, <3>1
  <2>2. CASE loop = "warmup"
    <3>1. f = k /\ b = 0 /\ TurnsOf(cf, r, loop) = w
      BY <2>2 DEF ForwardsIn, BackwardsIn, TurnsOf
    <3> HIDE DEF f, b, w
    <3>2. QED BY <1>1, <1>2, <3>1
  <2>3. CASE loop = "first"
    <3>1. (f = w \/ f = 0) /\ b = 0
      BY <2>3 DEF ForwardsIn, BackwardsIn
    <3> HIDE DEF f, b, w
    <3>2. QED BY <1>2, <3>1
  <2>4. CASE loop = "steady"
    <3>1. f = w + k + half /\ b = k
      BY <2>4 DEF ForwardsIn, BackwardsIn
    <3> HIDE DEF f, b, w
    <3>2. QED BY <1>1, <1>2, <3>1
  <2>5. CASE loop = "flush"
    <3>1. f = n /\ b = m
      BY <2>5 DEF ForwardsIn, BackwardsIn
    <3> HIDE DEF f, b, w, m, n
    <3>2. QED BY <1>2, <3>1
  <2>6. CASE loop = "cooldown"
    <3>1. f = n /\ b = m + k
      BY <2>6 DEF ForwardsIn, BackwardsIn
    <3> HIDE DEF f, b, w, m, n
    <3>2. QED BY <1>1, <1>2, <3>1
  <2>7. CASE loop \notin {"plain", "warmup", "first", "steady", "flush", "cooldown"}
    <3>1. f = n /\ b = n
      BY <2>7 DEF ForwardsIn, BackwardsIn
    <3> HIDE DEF f, b, w, m, n
    <3>2. QED BY <1>2, <3>1
  <2>8. QED BY <2>1, <2>2, <2>3, <2>4, <2>5, <2>6, <2>7
<1>4. QED BY <1>3 DEF ForwardsAt, BackwardsAt, loop, k, half

\* The bounds of one device.
LEMMA DeviceBounded ==
  ASSUME Inv, NEW r \in Ranks
  PROVE  /\ Cardinality(Outstanding(r)) <= IF config.forwardOnly THEN 0 ELSE NumWarmup(r) + 1
         /\ OneF1B /\ config.partial >= 0 =>
              Cardinality({o \in Outstanding(r) : ~dev[r].outputs[o[1]][o[2]].full})
                <= config.partial
<1> DEFINE p == place[r]
           d == dev[r]
           f == ForwardsAt(config, r, p)
           b == BackwardsAt(config, r, p)
<1>1. /\ config \in Configs /\ r \in Devices(config) /\ NumWarmup(r) = WarmupOf(config, r)
      /\ Chunks = ChunksOf(config) /\ M = config.M /\ P = config.P /\ V = config.V
  BY WarmupIs DEF Inv
<1>2. PlaceOK(config, r, p) /\ Counts(config, d, f, b) /\ PartialOK(config, r, d)
  BY <1>1 DEF Inv, DeviceOK, Work
<1>3. Outstanding(r) = Held(config, d)
  BY <1>1 DEF Outstanding, Held
<1>4. ~config.forwardOnly => f - b <= WarmupOf(config, r) + 1
  BY <1>1, <1>2, AheadBound
<1>5. Cardinality(Outstanding(r)) <= IF config.forwardOnly THEN 0 ELSE NumWarmup(r) + 1
  <2>1. CASE config.forwardOnly
    <3>1. \A c \in ChunksOf(config) : d.outputs[c] = << >>
      BY <1>2, <2>1 DEF Counts
    <3>2. Held(config, d) = {}
      BY <3>1 DEF Held
    <3>3. Cardinality({}) = 0
      BY FS_EmptySet
    <3>4. QED BY <1>3, <2>1, <3>2, <3>3
  <2>2. CASE ~config.forwardOnly
    <3>1. Cardinality(Held(config, d)) = f - b
      BY <1>2, <2>2 DEF Counts
    <3> HIDE DEF f, b
    <3>2. QED BY <1>1, <1>3, <1>4, <2>2, <3>1
  <2>3. QED BY <2>1, <2>2
<1>6. ASSUME OneF1B, config.partial >= 0
      PROVE  Cardinality({o \in Outstanding(r) : ~d.outputs[o[1]][o[2]].full})
               <= config.partial
  <2>1. config.P > 1 /\ config.V = 0
    BY <1>1, <1>6 DEF OneF1B
  <2>2. {o \in Outstanding(r) : ~d.outputs[o[1]][o[2]].full} = NotFull(config, d)
    BY <1>3 DEF NotFull
  <2> HIDE DEF f, b, d
  <2>3. Cardinality(NotFull(config, d)) <= config.partial
    BY <1>1, <1>2, <1>4, <1>6, <2>1, PartialBound
  <2>4. QED BY <2>2, <2>3
<1>7. QED BY <1>5, <1>6

\* A device never keeps more activations than those of its warmup and of one more
\* pass, none when there is no backward pass, and in the 1F1B schedule no more of
\* them in full than num_microbatches_with_partial_activation_checkpoints.
THEOREM StorageStaysBounded == Spec => []StorageBounded
<1>1. Inv => StorageBounded
  BY DeviceBounded DEF StorageBounded, ActivationsBounded, PartialCheckpointBound
<1>2. QED BY <1>1, PlaceTellsWork, PTL

\* In every schedule and with every way to synchronize, the gradients of a chunk
\* are reduced at most once, with the backward passes of the whole batch in them,
\* and its parameters are launched before its first forward pass.
THEOREM SynchronizedInTime == Spec => []SyncInTime
<1>1. ASSUME Inv PROVE SyncInTime
  <2>1. config \in Configs /\ Chunks = ChunksOf(config) /\ Ranks = Devices(config)
        /\ M = config.M
    BY <1>1, WarmupIs DEF Inv
  <2>2. ASSUME NEW r \in Ranks, NEW c \in Chunks, ~config.forwardOnly
        PROVE  dev[r].reduced[c] \in {<< >>, <<M>>}
    BY <1>1, <2>1, <2>2 DEF Inv, DeviceOK, Synced
  <2>3. ASSUME NEW r \in Ranks, NEW c \in Chunks, config.sync = "custom", dev[r].fed[c] > 0
        PROVE  c \in dev[r].params
    <3> DEFINE d == dev[r]
               f == ForwardsAt(config, r, place[r])
               b == BackwardsAt(config, r, place[r])
    <3>1. Counts(config, d, f, b) /\ ParamsOK(config, r, d, f)
      BY <1>1, <2>1 DEF Inv, DeviceOK, Work
    <3> HIDE DEF f, b, d
    <3>2. f \in Nat /\ Forwards(config, f, c) > 0
      <4>1. d.fed[c] > 0
        BY <2>3 DEF d
      <4>2. QED BY <2>1, <3>1, <4>1, ConfigType DEF Counts
    <3>3. c \in d.params
      BY <2>1, <2>3, <3>1, <3>2, ParamsLaunched
    <3>4. QED BY <3>3 DEF d
  <2>4. QED BY <2>2, <2>3 DEF SyncInTime, ReducedWhole, ParamsBeforeUse
<1>2. QED BY <1>1, PlaceTellsWork, PTL

\* When a device is at the end of its program, every microbatch of the batch has
\* passed forward through each of its chunks once, backward once too if there is
\* a backward pass, and no activation is kept.
THEOREM EveryPassDone ==
  Spec => [](\A r \in Ranks : Done(r) =>
               \A c \in Chunks :
                 /\ dev[r].fed[c] = M
                 /\ dev[r].summed[c] = IF config.forwardOnly THEN 0 ELSE M
                 /\ dev[r].outputs[c] = << >>)
<1>1. ASSUME Inv, NEW r \in Ranks, Done(r), NEW c \in Chunks
      PROVE  /\ dev[r].fed[c] = M
             /\ dev[r].summed[c] = IF config.forwardOnly THEN 0 ELSE M
             /\ dev[r].outputs[c] = << >>
  <2> DEFINE d == dev[r]
             f == ForwardsAt(config, r, place[r])
             b == BackwardsAt(config, r, place[r])
  <2>1. config \in Configs /\ r \in Devices(config) /\ c \in ChunksOf(config)
        /\ M = config.M
    BY <1>1, WarmupIs DEF Inv
  <2>2. Counts(config, d, f, b)
    BY <1>1, <2>1 DEF Inv, DeviceOK, Work
  <2>3. LoopAt(config, place[r]) = "done"
    BY <1>1, <2>1, ProgramIs DEF Done, LoopAt
  <2>4. f = Batch1(config) /\ b = IF config.forwardOnly THEN 0 ELSE Batch1(config)
    BY <2>3 DEF ForwardsAt, BackwardsAt, ForwardsIn, BackwardsIn
  <2>5. Batch1(config) \in Nat /\ config.M \in Nat
    BY <2>1, ConfigType
  <2> HIDE DEF f, b, d
  <2>6. d.fed[c] = config.M
    <3>1. f \in Nat /\ Forwards(config, f, c) = config.M
      BY <2>1, <2>4, <2>5, ForwardsNext
    <3>2. QED BY <2>1, <2>2, <3>1 DEF Counts
  <2>7. CASE config.forwardOnly
    <3>1. d.outputs[c] = << >> /\ d.summed[c] = Backwards(config, b, c) /\ b = 0
      BY <2>1, <2>2, <2>7 DEF Counts
    <3>2. Backwards(config, b, c) = 0
      BY <2>1, <3>1, NonePassed
    <3>3. QED BY <2>1, <2>6, <2>7, <3>1, <3>2 DEF d
  <2>8. CASE ~config.forwardOnly
    <3>1. b \in Nat /\ Backwards(config, b, c) = config.M
      BY <2>1, <2>4, <2>5, <2>8, BackwardsNext
    <3>2. d.summed[c] = config.M /\ Len(d.outputs[c]) = d.fed[c] - d.summed[c]
      BY <2>1, <2>2, <2>8, <3>1 DEF Counts
    <3>3. Len(d.outputs[c]) = 0
      BY <2>5, <2>6, <3>2
    <3>4. d.outputs[c] \in Seq(Stored)
      BY <2>1, <2>2 DEF Counts, Shaped
    <3>5. d.outputs[c] = << >>
      <4> DEFINE s == d.outputs[c]
      <4>1. s \in Seq(Stored) /\ Len(s) = 0
        BY <3>3, <3>4
      <4> HIDE DEF s
      <4>2. s = << >>
        BY <4>1
      <4>3. QED BY <4>2 DEF s
    <3>6. QED BY <2>1, <2>6, <2>8, <3>2, <3>5 DEF d
  <2>9. QED BY <2>7, <2>8
<1>2. Inv => \A r \in Ranks : Done(r) =>
               \A c \in Chunks :
                 /\ dev[r].fed[c] = M
                 /\ dev[r].summed[c] = IF config.forwardOnly THEN 0 ELSE M
                 /\ dev[r].outputs[c] = << >>
  BY <1>1
<1>3. QED BY <1>2, PlaceTellsWork, PTL
=============================================================================
