------------------------ MODULE BitPipeLinks_proofs ------------------------
(***************************************************************************)
(* Which tensor is on which link of the pipeline, for every number of      *)
(* devices and microbatches: the order in which a device uses its two      *)
(* links is the order of its neighbours, so that a pass always gets the    *)
(* tensor that was meant for it; from this, what a step leaves behind and  *)
(* that the schedule implements PipelineFlow.                              *)
(***************************************************************************)
EXTENDS BitPipe4VR_proofs

----
(***************************************************************************)
(* The neighbour below a device on link e, and how many passes of the link *)
(* are behind the device.                                                  *)
(***************************************************************************)
Below(r, e) == IF e = 0 THEN r + 1 ELSE r - 1
Above(r, e) == IF e = 0 THEN r - 1 ELSE r + 1

LinkDone(r, e, p) ==
  Forwards(r, e, p) + Forwards(r, 3 - e, p) + Backwards(r, 2 + e, p) + Backwards(r, 1 - e, p)

LEMMA LinkRoles ==
  ASSUME NEW r \in Ranks, NEW e \in {0, 1}
  PROVE  \E q \in {0, 1} :
           /\ ForwardRole(r, e) = q /\ ForwardRole(r, 3 - e) = q + 2
           /\ BackwardRole(r, 2 + e) = q /\ BackwardRole(r, 1 - e) = q + 2
<1>1. IHalf(r) \in {0, 1}
  BY HalfOfRank
<1>2. CASE e = IHalf(r)
  BY <1>1, <1>2 DEF ForwardRole, BackwardRole
<1>3. CASE e = 1 - IHalf(r)
  BY <1>1, <1>3 DEF ForwardRole, BackwardRole
<1>4. QED BY <1>1, <1>2, <1>3

\* The passes of a link are on its path, wherever the device is in its program.
LEMMA OnPath ==
  ASSUME NEW r \in Ranks, NEW p, GoodPlace(r, p), NEW e \in {0, 1}
  PROVE  /\ LinkDone(r, e, p) \in Nat
         /\ PathShare(0, LinkDone(r, e, p)) = Forwards(r, e, p)
         /\ PathShare(1, LinkDone(r, e, p)) = Forwards(r, 3 - e, p)
         /\ PathShare(2, LinkDone(r, e, p)) = Backwards(r, 2 + e, p)
         /\ PathShare(3, LinkDone(r, e, p)) = Backwards(r, 1 - e, p)
<1>1. PICK q \in {0, 1} : /\ ForwardRole(r, e) = q /\ ForwardRole(r, 3 - e) = q + 2
                          /\ BackwardRole(r, 2 + e) = q /\ BackwardRole(r, 1 - e) = q + 2
  BY LinkRoles
<1>2. /\ Forwards(r, e, p) = RoleDone(r, q, FDone(r, p))
      /\ Forwards(r, 3 - e, p) = RoleDone(r, q + 2, FDone(r, p))
      /\ Backwards(r, 2 + e, p) = RoleDone(r, q, BackwardPasses(r, BDone(r, p)))
      /\ Backwards(r, 1 - e, p) = RoleDone(r, q + 2, BackwardPasses(r, BDone(r, p)))
  BY <1>1 DEF Forwards, Backwards, ForwardDone, BackwardDone
<1>3. q \in 0 .. 3 /\ q + 2 \in 0 .. 3 /\ Half \in Nat
  BY HalfFacts
<1>4. CASE ForwardOnly
  <2> DEFINE b == FDone(r, p) \div (2 * P)
             x == FDone(r, p) % (2 * P)
  <2>1. /\ FDone(r, p) \in Nat /\ 2 * P \in Nat /\ 2 * P > 0
        /\ BackwardPasses(r, BDone(r, p)) = 0
    <3>1. BDone(r, p) = 0
      BY <1>4 DEF GoodPlace, BDone
    <3>2. BackwardPasses(r, 0) = 0
      BY UnitFacts, HalfFacts DEF BackwardPasses, FirstMarker
    <3>3. QED BY <3>1, <3>2, PlaceDone, UnitFacts, BlockSizes
  <2>2. b \in Nat /\ x \in 0 .. 2 * P /\ FDone(r, p) = b * (2 * P) + x
    <3>1. b \in Nat /\ x \in 0 .. 2 * P - 1 /\ FDone(r, p) = b * (2 * P) + x
      BY <2>1, PlaceAfter
    <3> HIDE DEF b, x
    <3>2. QED BY <2>1, <3>1
  <2> HIDE DEF b, x
  <2>3. /\ RoleDone(r, q, FDone(r, p)) = b * Half + Part(r, q, x)
        /\ RoleDone(r, q + 2, FDone(r, p)) = b * Half + Part(r, q + 2, x)
    BY <1>3, <2>2, RoleDoneIn
  <2>4. RoleDone(r, q, 0) = 0 /\ RoleDone(r, q + 2, 0) = 0
    BY <1>3, DoneSteps, 0 \in Nat
  <2>5. Part(r, q, x) \in 0 .. Half /\ Part(r, q + 2, x) \in 0 .. Half
        /\ (Part(r, q + 2, x) > 0 => Part(r, q, x) = Half)
    <3>1. CASE q = 0
      BY <2>2, <3>1, Parts
    <3>2. CASE q = 1
      BY <2>2, <3>2, Parts
    <3>3. QED BY <3>1, <3>2
  <2>6. b * Half \in Nat
    BY <1>3, <2>2
  <2>7. LinkDone(r, e, p) = (b * Half + Part(r, q, x)) + (b * Half + Part(r, q + 2, x))
    BY <1>2, <1>3, <2>1, <2>3, <2>4, <2>5, <2>6 DEF LinkDone
  <2>8. PathKinds = 2
    BY <1>4 DEF PathKinds
  <2>9. QED BY <1>2, <2>1, <2>2, <2>3, <2>4, <2>5, <2>7, <2>8, PathSplitForwardOnly
<1>5. CASE ~ForwardOnly
  <2>1. PICK b \in Nat, c \in Nat : \E x \in 0 .. 2 * P, y \in 0 .. 2 * P :
               /\ FDone(r, p) = b * (2 * P) + x
               /\ BackwardPasses(r, BDone(r, p)) = c * (2 * P) + y
               /\ Apart(r, b, x, c, y)
    BY <1>5, Positions
  <2>2. PICK x \in 0 .. 2 * P, y \in 0 .. 2 * P :
               /\ FDone(r, p) = b * (2 * P) + x
               /\ BackwardPasses(r, BDone(r, p)) = c * (2 * P) + y
               /\ Apart(r, b, x, c, y)
    BY <2>1
  <2> DEFINE a0 == Part(r, q, x)
             a1 == Part(r, q + 2, x)
             a2 == Part(r, q, y)
             a3 == Part(r, q + 2, y)
             n == NumInitial(r)
             w == NumWarmupMicrobatches(r)
  <2>3. /\ Forwards(r, e, p) = b * Half + a0 /\ Forwards(r, 3 - e, p) = b * Half + a1
        /\ Backwards(r, 2 + e, p) = c * Half + a2 /\ Backwards(r, 1 - e, p) = c * Half + a3
    BY <1>2, <1>3, <2>2, RoleDoneIn
  <2>4. /\ a0 \in 0 .. Half /\ a1 \in 0 .. Half /\ a2 \in 0 .. Half /\ a3 \in 0 .. Half
        /\ a1 > 0 => a0 = Half
        /\ a3 > 0 => a2 = Half
        /\ y = 0 => a2 = 0 /\ a3 = 0
        /\ y = 2 * P => a2 = Half /\ a3 = Half
        /\ x = 2 * P => a0 = Half /\ a1 = Half
    <3>1. CASE q = 0
      BY <3>1, Parts
    <3>2. CASE q = 1
      BY <3>2, Parts
    <3>3. QED BY <3>1, <3>2
  <2>5. /\ q = 0 /\ x >= w => a1 = Half
        /\ q = 0 /\ y >= w => a2 = Half /\ a3 = Half
        /\ q = 1 /\ x <= n => a0 = 0 /\ a1 = 0
        /\ q = 1 /\ y <= n => a2 = 0 /\ a3 = 0
    <3>1. CASE q = 0
      BY <3>1, Parts
    <3>2. CASE q = 1
      BY <3>2, Parts
    <3>3. QED BY <3>1, <3>2
  <2>6. \/ b = c /\ (a2 > 0 => a1 = Half)
        \/ b = c + 1 /\ a2 = Half /\ a3 = Half
        \/ b = c + 1 /\ a0 = 0 /\ a1 = 0
    <3>1. \/ b = c /\ (y = 0 \/ x = 2 * P \/ (x >= w /\ y <= n))
          \/ b = c + 1 /\ (y = 2 * P \/ (y >= w /\ x <= n))
      BY <2>2 DEF Apart
    <3> HIDE DEF a0, a1, a2, a3, n, w
    <3>2. QED BY <2>4, <2>5, <3>1, HalfFacts
  <2>7. c * Half \in Nat /\ b * Half \in Nat /\ (c + 1) * Half = c * Half + Half
    BY <1>3
  <2>8. PathKinds = 4
    BY <1>5 DEF PathKinds
  <2>9. LinkDone(r, e, p) = (b * Half + a0) + (b * Half + a1) + (c * Half + a2) + (c * Half + a3)
    BY <2>3 DEF LinkDone
  <2>10. 0 \in 0 .. Half /\ Half \in 0 .. Half
    BY <1>3
  <2> HIDE DEF a0, a1, a2, a3, n, w
  <2> DEFINE m == LinkDone(r, e, p)
             Goal == /\ m \in Nat
                     /\ PathShare(0, m) = Forwards(r, e, p)
                     /\ PathShare(1, m) = Forwards(r, 3 - e, p)
                     /\ PathShare(2, m) = Backwards(r, 2 + e, p)
                     /\ PathShare(3, m) = Backwards(r, 1 - e, p)
  <2> HIDE DEF m
  <2>11. SUFFICES Goal
    BY DEF m
  <2>12. CASE b = c /\ (a2 > 0 => a1 = Half)
    <3>1. m = PathAt(b, a0, a1, a2, a3)
      BY <2>9, <2>12 DEF m, PathAt
    <3>2. InOrder(a0, a1, a2, a3)
      BY <2>4, <2>12 DEF InOrder
    <3>3. Shares(m, b * Half + a0, b * Half + a1, b * Half + a2, b * Half + a3)
      BY <2>8, <3>1, <3>2, PathSplit
    <3>4. QED BY <2>3, <2>12, <3>3 DEF Shares
  <2>13. CASE b = c + 1 /\ a2 = Half /\ a3 = Half
    <3>1. c * Half + a2 = b * Half + 0 /\ c * Half + a3 = b * Half + 0
      BY <2>7, <2>13, <1>3
    <3>2. m = PathAt(b, a0, a1, 0, 0)
      BY <2>9, <3>1 DEF m, PathAt
    <3>3. InOrder(a0, a1, 0, 0)
      BY <2>4, <2>10 DEF InOrder
    <3>4. Shares(m, b * Half + a0, b * Half + a1, b * Half + 0, b * Half + 0)
      BY <2>8, <3>2, <3>3, PathSplit
    <3>5. QED BY <2>3, <3>1, <3>4 DEF Shares
  <2>14. CASE b = c + 1 /\ a0 = 0 /\ a1 = 0
    <3>1. b * Half + a0 = c * Half + Half /\ b * Half + a1 = c * Half + Half
      BY <2>7, <2>14, <1>3
    <3>2. m = PathAt(c, Half, Half, a2, a3)
      BY <2>9, <3>1 DEF m, PathAt
    <3>3. InOrder(Half, Half, a2, a3)
      BY <2>4, <2>10 DEF InOrder
    <3>4. Shares(m, c * Half + Half, c * Half + Half, c * Half + a2, c * Half + a3)
      BY <2>8, <3>2, <3>3, PathSplit
    <3>5. QED BY <2>3, <3>1, <3>4 DEF Shares
  <2>15. QED BY <2>6, <2>12, <2>13, <2>14
<1>6. QED BY <1>4, <1>5

----
(***************************************************************************)
(* The pass at a place of a device: its chunk, the link it uses, the       *)
(* neighbours it gets a tensor from and sends one to (Nobody at an end of  *)
(* the devices), and these tensors.                                        *)
(***************************************************************************)
IsPass(r, p) == ForwardAt(p) \/ (TurnAt(p) /\ BackwardChunk(r, BackwardK(r, p)) # Sync)

PassChunk(r, p) ==
  IF ForwardAt(p) THEN ForwardChunk(r, ForwardK(r, p)) ELSE BackwardChunk(r, BackwardK(r, p))

ForwardLink(c)  == IF c \in {0, 3} THEN 0 ELSE 1
BackwardLink(c) == IF c \in {1, 2} THEN 0 ELSE 1

PassLink(r, p) ==
  IF ForwardAt(p) THEN ForwardLink(PassChunk(r, p)) ELSE BackwardLink(PassChunk(r, p))

OnLink(r, e, p) == IsPass(r, p) /\ PassLink(r, p) = e

Neighbour(q) == IF q \in Ranks THEN q ELSE Nobody

Source(r, p) == IF IsPass(r, p) THEN Neighbour(Above(r, PassLink(r, p))) ELSE Nobody
Target(r, p) == IF IsPass(r, p) THEN Neighbour(Below(r, PassLink(r, p))) ELSE Nobody

InputOf(r, c, i)  == IF IsFirstStage(r, c) THEN None ELSE Act(Pipe(c), i, StageOf(r, c))
OutputOf(r, c, i) == Act(Pipe(c), i, StageOf(r, c) + 1)
GradOf(r, c, i)   == Grad(Pipe(c), i, StageOf(r, c) + 1)

Made(r, p) ==
  LET c == PassChunk(r, p)
  IN  IF ForwardAt(p) THEN OutputOf(r, c, Forwards(r, c, p))
      ELSE Grad(Pipe(c), Backwards(r, c, p), StageOf(r, c))

Needed(r, p) ==
  LET c == PassChunk(r, p)
  IN  IF ForwardAt(p) THEN Act(Pipe(c), Forwards(r, c, p), StageOf(r, c))
      ELSE GradOf(r, c, Backwards(r, c, p))

\* The tensor that pass number m of link e of device r puts on the link.
LinkTensor(r, e, m) ==
  LET i == PathIndex(m)
  IN  IF PathKind(m) = 0 THEN Act(Pipe(e), i, StageOf(r, e) + 1)
      ELSE IF PathKind(m) = 1 THEN Act(Pipe(3 - e), i, StageOf(r, 3 - e) + 1)
      ELSE IF PathKind(m) = 2 THEN Grad(Pipe(2 + e), i, StageOf(r, 2 + e))
      ELSE Grad(Pipe(1 - e), i, StageOf(r, 1 - e))

LEMMA PassFacts ==
  ASSUME NEW r \in Ranks, NEW p, GoodPlace(r, p)
  PROVE  /\ IsPass(r, p) => PassChunk(r, p) \in Chunks
         /\ \A c \in Chunks : ForwardOf(r, c, p) <=> ForwardAt(p) /\ PassChunk(r, p) = c
         /\ \A c \in Chunks : BackwardOf(r, c, p) <=> IsPass(r, p) /\ ~ForwardAt(p) /\ PassChunk(r, p) = c
         /\ ForwardAt(p) => IsPass(r, p)
         /\ PassLink(r, p) \in {0, 1}
<1>1. /\ ForwardAt(p) => ForwardChunk(r, ForwardK(r, p)) \in Chunks
      /\ TurnAt(p) => BackwardChunk(r, BackwardK(r, p)) \in Chunks \cup {Sync}
  BY PassChunks
<1>2. ~(ForwardAt(p) /\ TurnAt(p))
  BY DEF ForwardAt, TurnAt
<1>3. \A c \in Chunks : c # Sync
  BY DEF Chunks, Sync
<1>4. PassLink(r, p) \in {0, 1}
  BY DEF PassLink, ForwardLink, BackwardLink
<1>5. QED BY <1>1, <1>2, <1>3, <1>4 DEF IsPass, PassChunk, ForwardOf, BackwardOf

\* The kind of pass that is next on a link.
LEMMA PassOnPath ==
  ASSUME NEW r \in Ranks, NEW p, GoodPlace(r, p), NEW e \in {0, 1}
  PROVE  /\ LinkDone(r, e, p) \in Nat
         /\ LinkDone(r, e, NextPlace(r, p)) = LinkDone(r, e, p) + (IF OnLink(r, e, p) THEN 1 ELSE 0)
         /\ OnLink(r, e, p) =>
              LET m == LinkDone(r, e, p)
                  c == PassChunk(r, p)
              IN  \/ PathKind(m) = 0 /\ ForwardAt(p) /\ c = e /\ PathIndex(m) = Forwards(r, c, p)
                  \/ PathKind(m) = 1 /\ ForwardAt(p) /\ c = 3 - e /\ PathIndex(m) = Forwards(r, c, p)
                  \/ PathKind(m) = 2 /\ ~ForwardAt(p) /\ c = 2 + e /\ PathIndex(m) = Backwards(r, c, p)
                  \/ PathKind(m) = 3 /\ ~ForwardAt(p) /\ c = 1 - e /\ PathIndex(m) = Backwards(r, c, p)
<1> DEFINE next == NextPlace(r, p)
           m == LinkDone(r, e, p)
           c == PassChunk(r, p)
<1>1. /\ e \in Chunks /\ 3 - e \in Chunks /\ 2 + e \in Chunks /\ 1 - e \in Chunks
      /\ e # 3 - e /\ 2 + e # 1 - e
  BY DEF Chunks
<1>2. GoodPlace(r, next)
  BY NextPlaceGood
<1>3. /\ m \in Nat
      /\ PathShare(0, m) = Forwards(r, e, p) /\ PathShare(1, m) = Forwards(r, 3 - e, p)
      /\ PathShare(2, m) = Backwards(r, 2 + e, p) /\ PathShare(3, m) = Backwards(r, 1 - e, p)
  BY OnPath
<1>4. /\ PathShare(0, LinkDone(r, e, next)) = Forwards(r, e, next)
      /\ PathShare(1, LinkDone(r, e, next)) = Forwards(r, 3 - e, next)
      /\ PathShare(2, LinkDone(r, e, next)) = Backwards(r, 2 + e, next)
      /\ PathShare(3, LinkDone(r, e, next)) = Backwards(r, 1 - e, next)
  BY <1>2, OnPath
<1>5. /\ Forwards(r, e, p) \in Nat /\ Forwards(r, 3 - e, p) \in Nat
      /\ Backwards(r, 2 + e, p) \in Nat /\ Backwards(r, 1 - e, p) \in Nat
      /\ Forwards(r, e, next) = Forwards(r, e, p) + (IF ForwardOf(r, e, p) THEN 1 ELSE 0)
      /\ Forwards(r, 3 - e, next) = Forwards(r, 3 - e, p) + (IF ForwardOf(r, 3 - e, p) THEN 1 ELSE 0)
      /\ Backwards(r, 2 + e, next) = Backwards(r, 2 + e, p) + (IF BackwardOf(r, 2 + e, p) THEN 1 ELSE 0)
      /\ Backwards(r, 1 - e, next) = Backwards(r, 1 - e, p) + (IF BackwardOf(r, 1 - e, p) THEN 1 ELSE 0)
  BY <1>1, CountsNext
<1>6. /\ ForwardOf(r, e, p) <=> ForwardAt(p) /\ c = e
      /\ ForwardOf(r, 3 - e, p) <=> ForwardAt(p) /\ c = 3 - e
      /\ BackwardOf(r, 2 + e, p) <=> IsPass(r, p) /\ ~ForwardAt(p) /\ c = 2 + e
      /\ BackwardOf(r, 1 - e, p) <=> IsPass(r, p) /\ ~ForwardAt(p) /\ c = 1 - e
      /\ ForwardAt(p) => IsPass(r, p)
      /\ IsPass(r, p) => c \in Chunks
  BY <1>1, PassFacts
<1>7. OnLink(r, e, p) <=> \/ ForwardAt(p) /\ (c = e \/ c = 3 - e)
                          \/ IsPass(r, p) /\ ~ForwardAt(p) /\ (c = 2 + e \/ c = 1 - e)
  <2> HIDE DEF c
  <2>1. CASE ForwardAt(p)
    BY <1>6, <2>1 DEF OnLink, PassLink, ForwardLink, Chunks, c
  <2>2. CASE ~ForwardAt(p)
    BY <1>6, <2>2 DEF OnLink, PassLink, BackwardLink, Chunks, c
  <2>3. QED BY <2>1, <2>2
<1>8. LinkDone(r, e, next) = m + (IF OnLink(r, e, p) THEN 1 ELSE 0)
  <2>1. LinkDone(r, e, next) = Forwards(r, e, next) + Forwards(r, 3 - e, next)
                                 + Backwards(r, 2 + e, next) + Backwards(r, 1 - e, next)
        /\ m = Forwards(r, e, p) + Forwards(r, 3 - e, p) + Backwards(r, 2 + e, p) + Backwards(r, 1 - e, p)
    BY DEF LinkDone
  <2> HIDE DEF c, m, next
  <2>2. QED BY <1>1, <1>5, <1>6, <1>7, <2>1
<1>9. /\ PathKind(m) \in 0 .. 3
      /\ \A t \in 0 .. 3 : PathShare(t, m) \in Nat
                           /\ PathShare(t, m + 1) = PathShare(t, m) + (IF t = PathKind(m) THEN 1 ELSE 0)
  <2>1. PathKinds \in {2, 4}
    BY PathFacts
  <2> HIDE DEF m
  <2>2. PathKind(m) \in 0 .. PathKinds - 1
    BY <1>3, PathStep
  <2>3. PathKind(m) \in 0 .. 3
    BY <2>1, <2>2
  <2>4. \A t \in 0 .. 3 : PathShare(t, m) \in Nat
                          /\ PathShare(t, m + 1) = PathShare(t, m) + (IF t = PathKind(m) THEN 1 ELSE 0)
    BY <1>3, PathStep
  <2>5. QED BY <2>3, <2>4
<1>10. ASSUME OnLink(r, e, p), NEW t \in 0 .. 3, PathShare(t, LinkDone(r, e, next)) = PathShare(t, m) + 1
       PROVE  PathKind(m) = t /\ PathIndex(m) = PathShare(t, m)
  <2> HIDE DEF m
  <2>1. PathShare(t, m + 1) = PathShare(t, m) + 1
    BY <1>8, <1>10
  <2>2. PathKind(m) = t
    BY <1>9, <2>1
  <2>3. QED BY <2>2 DEF PathIndex
<1> HIDE DEF c, m, next
<1>11. CASE ForwardAt(p) /\ c = e
  <2>1. OnLink(r, e, p) /\ PathShare(0, LinkDone(r, e, next)) = PathShare(0, m) + 1
    BY <1>3, <1>4, <1>5, <1>6, <1>7, <1>11
  <2>2. PathKind(m) = 0 /\ PathIndex(m) = Forwards(r, c, p)
    BY <1>3, <1>10, <1>11, <2>1
  <2>3. QED BY <1>3, <1>8, <1>11, <2>2 DEF c, m, next
<1>12. CASE ForwardAt(p) /\ c = 3 - e
  <2>1. OnLink(r, e, p) /\ PathShare(1, LinkDone(r, e, next)) = PathShare(1, m) + 1
    BY <1>3, <1>4, <1>5, <1>6, <1>7, <1>12
  <2>2. PathKind(m) = 1 /\ PathIndex(m) = Forwards(r, c, p)
    BY <1>3, <1>10, <1>12, <2>1
  <2>3. QED BY <1>3, <1>8, <1>12, <2>2 DEF c, m, next
<1>13. CASE IsPass(r, p) /\ ~ForwardAt(p) /\ c = 2 + e
  <2>1. OnLink(r, e, p) /\ PathShare(2, LinkDone(r, e, next)) = PathShare(2, m) + 1
    BY <1>3, <1>4, <1>5, <1>6, <1>7, <1>13
  <2>2. PathKind(m) = 2 /\ PathIndex(m) = Backwards(r, c, p)
    BY <1>3, <1>10, <1>13, <2>1
  <2>3. QED BY <1>3, <1>8, <1>13, <2>2 DEF c, m, next
<1>14. CASE IsPass(r, p) /\ ~ForwardAt(p) /\ c = 1 - e
  <2>1. OnLink(r, e, p) /\ PathShare(3, LinkDone(r, e, next)) = PathShare(3, m) + 1
    BY <1>3, <1>4, <1>5, <1>6, <1>7, <1>14
  <2>2. PathKind(m) = 3 /\ PathIndex(m) = Backwards(r, c, p)
    BY <1>3, <1>10, <1>14, <2>1
  <2>3. QED BY <1>3, <1>8, <1>14, <2>2 DEF c, m, next
<1>15. CASE ~OnLink(r, e, p)
  BY <1>3, <1>8, <1>15 DEF m, next
<1>16. QED BY <1>7, <1>11, <1>12, <1>13, <1>14, <1>15

\* What a pass makes is what its link carries next, and what it needs is what
\* the device above puts on the link at the same count.
LEMMA LinkTensors ==
  ASSUME NEW r \in Ranks, NEW p, GoodPlace(r, p), NEW e \in {0, 1}, OnLink(r, e, p)
  PROVE  /\ Made(r, p) = LinkTensor(r, e, LinkDone(r, e, p))
         /\ Needed(r, p) = LinkTensor(Above(r, e), e, LinkDone(r, e, p))
<1> DEFINE m == LinkDone(r, e, p)
           c == PassChunk(r, p)
           a == Above(r, e)
<1>1. \/ PathKind(m) = 0 /\ ForwardAt(p) /\ c = e /\ PathIndex(m) = Forwards(r, c, p)
      \/ PathKind(m) = 1 /\ ForwardAt(p) /\ c = 3 - e /\ PathIndex(m) = Forwards(r, c, p)
      \/ PathKind(m) = 2 /\ ~ForwardAt(p) /\ c = 2 + e /\ PathIndex(m) = Backwards(r, c, p)
      \/ PathKind(m) = 3 /\ ~ForwardAt(p) /\ c = 1 - e /\ PathIndex(m) = Backwards(r, c, p)
  BY PassOnPath
<1>2. /\ StageOf(r, e) = StageOf(a, e) + 1
      /\ StageOf(r, 3 - e) = StageOf(a, 3 - e) + 1
      /\ StageOf(r, 2 + e) + 1 = StageOf(a, 2 + e)
      /\ StageOf(r, 1 - e) + 1 = StageOf(a, 1 - e)
  <2>1. r \in Int /\ P \in Int
    BY HalfFacts DEF Ranks
  <2>2. CASE e = 0
    BY <2>1, <2>2 DEF StageOf, Above
  <2>3. CASE e = 1
    BY <2>1, <2>3 DEF StageOf, Above
  <2>4. QED BY <2>2, <2>3
<1> HIDE DEF m, c, a
<1>3. /\ Made(r, p) = IF ForwardAt(p) THEN Act(Pipe(c), Forwards(r, c, p), StageOf(r, c) + 1)
                      ELSE Grad(Pipe(c), Backwards(r, c, p), StageOf(r, c))
      /\ Needed(r, p) = IF ForwardAt(p) THEN Act(Pipe(c), Forwards(r, c, p), StageOf(r, c))
                        ELSE Grad(Pipe(c), Backwards(r, c, p), StageOf(r, c) + 1)
  BY DEF Made, Needed, OutputOf, GradOf, c
<1>4. CASE PathKind(m) = 0 /\ ForwardAt(p) /\ c = e /\ PathIndex(m) = Forwards(r, c, p)
  BY <1>2, <1>3, <1>4 DEF LinkTensor, m, a
<1>5. CASE PathKind(m) = 1 /\ ForwardAt(p) /\ c = 3 - e /\ PathIndex(m) = Forwards(r, c, p)
  BY <1>2, <1>3, <1>5 DEF LinkTensor, m, a
<1>6. CASE PathKind(m) = 2 /\ ~ForwardAt(p) /\ c = 2 + e /\ PathIndex(m) = Backwards(r, c, p)
  BY <1>2, <1>3, <1>6 DEF LinkTensor, m, a
<1>7. CASE PathKind(m) = 3 /\ ~ForwardAt(p) /\ c = 1 - e /\ PathIndex(m) = Backwards(r, c, p)
  BY <1>2, <1>3, <1>7 DEF LinkTensor, m, a
<1>8. QED BY <1>1, <1>4, <1>5, <1>6, <1>7

----
(***************************************************************************)
(* Roles and neighbours.  The chunks with roles 0 and 2 use one link of    *)
(* the device and those with roles 1 and 3 the other.  At an end of the    *)
(* devices role 0 gets its tensor from nowhere, role 1 hands its tensor    *)
(* over to role 2, and role 3 sends it nowhere.                            *)
(***************************************************************************)
End(r) == r \in {0, P - 1}

Opposite(q, s) == q \in {0, 2} <=> s \in {1, 3}

LEMMA RankArithmetic ==
  ASSUME NEW r \in Ranks
  PROVE  /\ r \in Int /\ P \in Int /\ 0 <= r /\ r < P /\ P > 2
         /\ (r + 1) % P = IF r = P - 1 THEN 0 ELSE r + 1
         /\ (r - 1) % P = IF r = 0 THEN P - 1 ELSE r - 1
         /\ IHalf(r) \in {0, 1}
         /\ r = 0 => IHalf(r) = 0 /\ NumInitial(r) = Half
         /\ r = P - 1 => IHalf(r) = 1 /\ NumInitial(r) = Half
<1>1. r \in Int /\ P \in Nat /\ 0 <= r /\ r < P /\ P > 2 /\ Half \in Nat /\ Half >= 2 /\ P = 2 * Half
  BY PAssumption, HalfFacts DEF Ranks
<1>2. \A x \in -1 .. P : x % P = IF x = -1 THEN P - 1 ELSE IF x = P THEN 0 ELSE x
  BY PAssumption
<1>3. /\ (r + 1) % P = IF r = P - 1 THEN 0 ELSE r + 1
      /\ (r - 1) % P = IF r = 0 THEN P - 1 ELSE r - 1
  BY <1>1, <1>2
<1>4. IHalf(r) \in {0, 1}
  BY HalfOfRank
<1>5. r = 0 => IHalf(r) = 0 /\ NumInitial(r) = Half
  BY <1>1 DEF IHalf, NumInitial
<1>6. r = P - 1 => IHalf(r) = 1 /\ NumInitial(r) = Half
  BY <1>1 DEF IHalf, NumInitial
<1>7. QED BY <1>1, <1>3, <1>4, <1>5, <1>6

LEMMA ForwardNeighbours ==
  ASSUME NEW r \in Ranks, NEW c \in Chunks
  PROVE  LET q == ForwardRole(r, c)
             e == ForwardLink(c)
         IN  /\ Neighbour(Below(r, e)) = IF End(r) /\ q \in {1, 3} THEN Nobody ELSE NextRank(r, c)
             /\ Neighbour(Above(r, e)) = IF End(r) /\ q \in {0, 2} THEN Nobody ELSE PrevRank(r, c)
             /\ IsFirstStage(r, c) <=> End(r) /\ q = 0
             /\ IsLastStage(r, c) <=> End(r) /\ q = 3
             /\ HandedOverForward(r, c) <=> End(r) /\ q = 2
             /\ e = IF q \in {0, 2} THEN IHalf(r) ELSE 1 - IHalf(r)
<1>1. /\ r \in Int /\ P \in Int /\ 0 <= r /\ r < P /\ P > 2
      /\ (r + 1) % P = IF r = P - 1 THEN 0 ELSE r + 1
      /\ (r - 1) % P = IF r = 0 THEN P - 1 ELSE r - 1
      /\ IHalf(r) \in {0, 1}
      /\ r = 0 => IHalf(r) = 0
      /\ r = P - 1 => IHalf(r) = 1
      /\ r + 1 \in Ranks <=> r # P - 1
      /\ r - 1 \in Ranks <=> r # 0
      /\ c \in {0, 1, 2, 3}
  BY RankArithmetic DEF Ranks, Chunks
<1>2. CASE IHalf(r) = 0
  <2>1. ForwardRole(r, c) = IF c = 0 THEN 0 ELSE IF c = 1 THEN 1 ELSE IF c = 3 THEN 2 ELSE 3
    BY <1>2 DEF ForwardRole
  <2>2. QED
    BY <1>1, <1>2, <2>1 DEF ForwardLink, Below, Above, End, Neighbour, Nobody, NextRank, PrevRank,
                            IsFirstStage, IsLastStage, HandedOverForward
<1>3. CASE IHalf(r) = 1
  <2>1. ForwardRole(r, c) = IF c = 1 THEN 0 ELSE IF c = 0 THEN 1 ELSE IF c = 2 THEN 2 ELSE 3
    BY <1>3 DEF ForwardRole
  <2>2. QED
    BY <1>1, <1>3, <2>1 DEF ForwardLink, Below, Above, End, Neighbour, Nobody, NextRank, PrevRank,
                            IsFirstStage, IsLastStage, HandedOverForward
<1>4. QED BY <1>1, <1>2, <1>3

LEMMA BackwardNeighbours ==
  ASSUME NEW r \in Ranks, NEW c \in Chunks
  PROVE  LET q == BackwardRole(r, c)
             e == BackwardLink(c)
         IN  /\ Neighbour(Below(r, e)) = IF End(r) /\ q \in {1, 3} THEN Nobody ELSE PrevRank(r, c)
             /\ Neighbour(Above(r, e)) = IF End(r) /\ q \in {0, 2} THEN Nobody ELSE NextRank(r, c)
             /\ IsLastStage(r, c) <=> End(r) /\ q = 0
             /\ IsFirstStage(r, c) <=> End(r) /\ q = 3
             /\ HandedOverBackward(r, c) <=> End(r) /\ q = 2
             /\ e = IF q \in {0, 2} THEN IHalf(r) ELSE 1 - IHalf(r)
<1>1. /\ r \in Int /\ P \in Int /\ 0 <= r /\ r < P /\ P > 2
      /\ (r + 1) % P = IF r = P - 1 THEN 0 ELSE r + 1
      /\ (r - 1) % P = IF r = 0 THEN P - 1 ELSE r - 1
      /\ IHalf(r) \in {0, 1}
      /\ r = 0 => IHalf(r) = 0
      /\ r = P - 1 => IHalf(r) = 1
      /\ r + 1 \in Ranks <=> r # P - 1
      /\ r - 1 \in Ranks <=> r # 0
      /\ c \in {0, 1, 2, 3}
  BY RankArithmetic DEF Ranks, Chunks
<1>2. CASE IHalf(r) = 0
  <2>1. BackwardRole(r, c) = IF c = 2 THEN 0 ELSE IF c = 3 THEN 1 ELSE IF c = 1 THEN 2 ELSE 3
    BY <1>2 DEF BackwardRole
  <2>2. QED
    BY <1>1, <1>2, <2>1 DEF BackwardLink, Below, Above, End, Neighbour, Nobody, NextRank, PrevRank,
                            IsFirstStage, IsLastStage, HandedOverBackward
<1>3. CASE IHalf(r) = 1
  <2>1. BackwardRole(r, c) = IF c = 3 THEN 0 ELSE IF c = 2 THEN 1 ELSE IF c = 0 THEN 2 ELSE 3
    BY <1>3 DEF BackwardRole
  <2>2. QED
    BY <1>1, <1>3, <2>1 DEF BackwardLink, Below, Above, End, Neighbour, Nobody, NextRank, PrevRank,
                            IsFirstStage, IsLastStage, HandedOverBackward
<1>4. QED BY <1>1, <1>2, <1>3

----
(***************************************************************************)
(* Which role follows which.                                               *)
(***************************************************************************)
LEMMA RoleSuccession ==
  ASSUME NEW n \in Nat, n >= 1, NEW d \in Nat, NEW x \in 0 .. 4 * (n + d) - 1
  PROVE  /\ x < n => RoleAt(n, d, x) = 0
         /\ x >= 3 * n + 4 * d => RoleAt(n, d, x) = 3
         /\ n - 1 <= x /\ x < 3 * n + 4 * d => Opposite(RoleAt(n, d, x), RoleAt(n, d, x + 1))
         /\ d = 0 /\ n <= x /\ x < 3 * n =>
              /\ RoleAt(n, d, x) \in {1, 2}
              /\ RoleAt(n, d, x) = 1 <=> RoleAt(n, d, x + 1) = 2
              /\ RoleAt(n, d, x) = 1 => RoleCount(1, n, d, x) = RoleCount(2, n, d, x)
<1>1. x \in Nat
  OBVIOUS
<1>2. (x < n => RoleAt(n, d, x) = 0) /\ (x >= 3 * n + 4 * d => RoleAt(n, d, x) = 3)
  BY <1>1 DEF RoleAt
<1>3. n - 1 <= x /\ x < 3 * n + 4 * d => Opposite(RoleAt(n, d, x), RoleAt(n, d, x + 1))
  <2>1. CASE x = n - 1
    BY <2>1 DEF RoleAt, Opposite
  <2>2. CASE n <= x /\ x < 3 * n + 4 * d
    <3> DEFINE y == x - n
    <3>1. y \in Nat /\ x = n + y /\ y < 2 * n + 4 * d
      BY <1>1, <2>2
    <3>2. y % 2 = 0 => (y + 1) % 2 = 1
      BY <3>1
    <3>3. y % 2 = 1 => (y + 1) % 2 = 0
      BY <3>1
    <3>4. y % 2 \in {0, 1}
      BY <3>1
    <3>5. /\ RoleAt(n, d, x) = IF y < 2 * d THEN (IF y % 2 = 0 THEN 1 ELSE 0)
                               ELSE IF y < 2 * n + 2 * d THEN (IF y % 2 = 0 THEN 1 ELSE 2)
                               ELSE IF y % 2 = 0 THEN 3 ELSE 2
          /\ RoleAt(n, d, x + 1) = IF y + 1 < 2 * d THEN (IF (y + 1) % 2 = 0 THEN 1 ELSE 0)
                                   ELSE IF y + 1 < 2 * n + 2 * d THEN (IF (y + 1) % 2 = 0 THEN 1 ELSE 2)
                                   ELSE IF y + 1 < 2 * n + 4 * d THEN (IF (y + 1) % 2 = 0 THEN 3 ELSE 2)
                                   ELSE 3
      <4>1. x - n = y /\ x + 1 - n = y + 1
        BY <3>1
      <4> HIDE DEF y
      <4>2. QED BY <1>1, <3>1, <4>1 DEF RoleAt
    <3>6. y + 1 = 2 * n + 4 * d => y % 2 = 1
      BY <3>1
    <3> HIDE DEF y
    <3>7. QED BY <3>1, <3>2, <3>3, <3>4, <3>5, <3>6 DEF Opposite
  <2>3. QED BY <1>1, <2>1, <2>2
<1>4. ASSUME d = 0, n <= x, x < 3 * n
      PROVE  /\ RoleAt(n, d, x) \in {1, 2}
             /\ RoleAt(n, d, x) = 1 <=> RoleAt(n, d, x + 1) = 2
             /\ RoleAt(n, d, x) = 1 => RoleCount(1, n, d, x) = RoleCount(2, n, d, x)
  <2> DEFINE y == x - n
  <2>1. y \in Nat /\ x = n + y /\ y < 2 * n /\ y % 2 \in {0, 1} /\ (y % 2 = 0 <=> (y + 1) % 2 = 1)
    BY <1>1, <1>4
  <2>2. /\ RoleAt(n, d, x) = IF y % 2 = 0 THEN 1 ELSE 2
        /\ RoleAt(n, d, x + 1) = IF y + 1 < 2 * n THEN (IF (y + 1) % 2 = 0 THEN 1 ELSE 2) ELSE 3
    <3>1. x - n = y /\ x + 1 - n = y + 1
      BY <2>1
    <3> HIDE DEF y
    <3>2. QED BY <1>1, <1>4, <2>1, <3>1 DEF RoleAt
  <2>3. y + 1 = 2 * n => y % 2 = 1
    BY <2>1
  <2>4. y % 2 = 0 => RoleCount(1, n, d, x) = RoleCount(2, n, d, x)
    BY <1>1, <1>4, <2>1 DEF RoleCount
  <2> HIDE DEF y
  <2>5. QED BY <2>1, <2>2, <2>3, <2>4
<1>5. QED BY <1>2, <1>3, <1>4

\* The role of a place, by where it is in its block.
LEMMA RoleIn ==
  ASSUME NEW r \in Ranks, NEW b \in Nat, NEW x \in 0 .. 2 * P - 1
  PROVE  /\ RoleOfPlace(r, b * (2 * P) + x) \in 0 .. 3
         /\ x < NumInitial(r) => RoleOfPlace(r, b * (2 * P) + x) = 0
         /\ x >= NumWarmupMicrobatches(r) => RoleOfPlace(r, b * (2 * P) + x) = 3
         /\ End(r) /\ x >= NumInitial(r) => RoleOfPlace(r, b * (2 * P) + x) # 0
<1> DEFINE n == NumInitial(r)
           d == Half - NumInitial(r)
           m == 2 * P
           q == RoleOfPlace(r, b * m + x)
<1>1. n \in Nat /\ n >= 1 /\ d \in Nat /\ m \in Nat /\ m > 0 /\ m = 4 * (n + d)
  BY BlockSizes
<1>2. NumWarmupMicrobatches(r) = 3 * n + 4 * d
  BY Sizes
<1>3. End(r) => d = 0
  BY RankArithmetic, HalfFacts DEF End
<1>4. x \in 0 .. m - 1
  OBVIOUS
<1> HIDE DEF m
<1>5. (b * m + x) % m = x
  BY <1>1, <1>4, DivMod, Zenon
<1>6. q = RoleAt(n, d, x)
  BY <1>5 DEF RoleOfPlace, m
<1> HIDE DEF n, d, q
<1>7. x \in 0 .. 4 * (n + d) - 1
  BY <1>1, <1>4
<1>8. RoleAt(n, d, x) \in 0 .. 3
  BY <1>1, <1>7, RoleSteps
<1>9. /\ x < n => RoleAt(n, d, x) = 0
      /\ x >= 3 * n + 4 * d => RoleAt(n, d, x) = 3
      /\ d = 0 /\ n <= x /\ x < 3 * n => RoleAt(n, d, x) \in {1, 2}
  BY <1>1, <1>7, RoleSuccession
<1>10. End(r) /\ x >= n => RoleAt(n, d, x) # 0
  BY <1>1, <1>3, <1>4, <1>9
<1>11. QED BY <1>2, <1>6, <1>8, <1>9, <1>10 DEF n, q, m

\* Two places that follow each other have the same role, 0 or 3, or roles of different links;
\* at an end role 2 follows exactly role 1, which has then been played as often.
LEMMA Succession ==
  ASSUME NEW r \in Ranks, NEW k \in Nat
  PROVE  LET q == RoleOfPlace(r, k)
             s == RoleOfPlace(r, k + 1)
         IN  /\ q \in 0 .. 3 /\ s \in 0 .. 3
             /\ (q = s /\ q \in {0, 3}) \/ Opposite(q, s)
             /\ q = 0 /\ s = 0 => (k + 1) % (2 * P) < NumInitial(r)
             /\ q = 3 /\ s = 3 => k % (2 * P) >= NumWarmupMicrobatches(r)
             /\ End(r) => (q = 1 <=> s = 2)
             /\ End(r) /\ q = 1 => RoleDone(r, 1, k) = RoleDone(r, 2, k)
<1> DEFINE n == NumInitial(r)
           d == Half - NumInitial(r)
           m == 2 * P
           x == k % m
           y == (k + 1) % m
           w == NumWarmupMicrobatches(r)
<1>1. n \in Nat /\ n >= 1 /\ d \in Nat /\ m \in Nat /\ m > 0 /\ m = 4 * (n + d)
  BY BlockSizes
<1>2. w = 3 * n + 4 * d
  BY Sizes
<1>3. End(r) => d = 0
  BY RankArithmetic, HalfFacts DEF End
<1>4. RoleOfPlace(r, k) = RoleAt(n, d, x) /\ RoleOfPlace(r, k + 1) = RoleAt(n, d, y)
  BY DEF RoleOfPlace
<1>5. RoleOfPlace(r, k) \in 0 .. 3 /\ RoleOfPlace(r, k + 1) \in 0 .. 3
  BY DoneSteps, 0 \in 0 .. 3, k + 1 \in Nat
<1>6. /\ RoleDone(r, 1, k) = (k \div m) * Half + RoleCount(1, n, d, x)
      /\ RoleDone(r, 2, k) = (k \div m) * Half + RoleCount(2, n, d, x)
  BY DEF RoleDone
<1>7. /\ x \in 0 .. m - 1
      /\ \/ x + 1 < m /\ y = x + 1
         \/ x + 1 = m /\ y = 0
  BY <1>1, PlaceAfter
<1> HIDE DEF n, d, m, x, y, w
<1>8. x \in 0 .. 4 * (n + d) - 1
  BY <1>1, <1>7
<1>9. /\ x < n => RoleAt(n, d, x) = 0
      /\ x >= 3 * n + 4 * d => RoleAt(n, d, x) = 3
      /\ n - 1 <= x /\ x < 3 * n + 4 * d => Opposite(RoleAt(n, d, x), RoleAt(n, d, x + 1))
      /\ d = 0 /\ n <= x /\ x < 3 * n =>
           /\ RoleAt(n, d, x) \in {1, 2}
           /\ RoleAt(n, d, x) = 1 <=> RoleAt(n, d, x + 1) = 2
           /\ RoleAt(n, d, x) = 1 => RoleCount(1, n, d, x) = RoleCount(2, n, d, x)
  BY <1>1, <1>8, RoleSuccession
<1>10. CASE x + 1 = m /\ y = 0
  <2>1. RoleAt(n, d, x) = 3
    BY <1>1, <1>8, <1>9, <1>10
  <2>2. RoleAt(n, d, y) = 0
    BY <1>1, <1>10 DEF RoleAt
  <2>3. Opposite(3, 0)
    BY DEF Opposite
  <2>5. QED BY <1>4, <1>5, <2>1, <2>2, <2>3 DEF n, y, m
<1>11. CASE x + 1 < m /\ y = x + 1
  <2>1. /\ x + 1 < n => RoleAt(n, d, x + 1) = 0
        /\ x + 1 >= 3 * n + 4 * d => RoleAt(n, d, x + 1) = 3
    <3>1. x + 1 \in 0 .. 4 * (n + d) - 1
      BY <1>1, <1>8, <1>11
    <3>2. QED BY <1>1, <3>1, RoleSuccession
  <2>2. \/ x + 1 < n
        \/ n - 1 <= x /\ x < 3 * n + 4 * d
        \/ x >= 3 * n + 4 * d
    BY <1>1, <1>8
  <2>3. CASE x + 1 < n
    <3>1. RoleAt(n, d, x) = 0 /\ RoleAt(n, d, y) = 0 /\ y < n
      BY <1>1, <1>8, <1>9, <1>11, <2>1, <2>3
    <3>2. QED BY <1>4, <1>5, <3>1 DEF n, y, m
  <2>4. CASE x >= 3 * n + 4 * d
    <3>1. RoleAt(n, d, x) = 3 /\ RoleAt(n, d, y) = 3 /\ x >= w
      BY <1>1, <1>2, <1>8, <1>9, <1>11, <2>1, <2>4
    <3>2. QED BY <1>4, <1>5, <3>1 DEF w, x, m
  <2>5. CASE n - 1 <= x /\ x < 3 * n + 4 * d
    <3>1. Opposite(RoleAt(n, d, x), RoleAt(n, d, y))
      BY <1>9, <1>11, <2>5
    <3>2. /\ ~(RoleAt(n, d, x) = 0 /\ RoleAt(n, d, y) = 0)
          /\ ~(RoleAt(n, d, x) = 3 /\ RoleAt(n, d, y) = 3)
      BY <3>1 DEF Opposite
    <3>3. CASE x < n
      <4>1. RoleAt(n, d, x) = 0
        BY <1>9, <3>3
      <4>2. RoleAt(n, d, y) # 2
        BY <3>1, <4>1 DEF Opposite
      <4>3. QED BY <1>4, <1>5, <3>1, <3>2, <4>1, <4>2
    <3>4. CASE n <= x /\ ~End(r)
      BY <1>4, <1>5, <3>1, <3>2, <3>4
    <3>5. CASE n <= x /\ End(r)
      <4>1. d = 0 /\ x < 3 * n
        BY <1>1, <1>3, <2>5, <3>5
      <4>2. RoleAt(n, d, x) = 1 <=> RoleAt(n, d, y) = 2
        BY <1>9, <1>11, <3>5, <4>1
      <4>3. RoleAt(n, d, x) = 1 => RoleCount(1, n, d, x) = RoleCount(2, n, d, x)
        BY <1>9, <3>5, <4>1
      <4>4. RoleAt(n, d, x) = 1 => RoleDone(r, 1, k) = RoleDone(r, 2, k)
        BY <1>6, <4>3
      <4>5. QED BY <1>4, <1>5, <3>1, <3>2, <4>2, <4>4
    <3>6. QED BY <1>1, <1>8, <3>3, <3>4, <3>5
  <2>6. QED BY <2>2, <2>3, <2>4, <2>5
<1>12. QED BY <1>7, <1>10, <1>11

----
(***************************************************************************)
(* The role of the pass at a place of a device, and what it says about the *)
(* neighbours of the pass.                                                 *)
(***************************************************************************)
Turned(r, p) == BackwardPasses(r, BDone(r, p))

Role(r, p) ==
  IF ForwardAt(p) THEN RoleOfPlace(r, FDone(r, p)) ELSE RoleOfPlace(r, Turned(r, p))

LEMMA PassRole ==
  ASSUME NEW r \in Ranks, NEW p, GoodPlace(r, p), IsPass(r, p)
  PROVE  LET c == PassChunk(r, p)
         IN  /\ c \in Chunks /\ Role(r, p) \in 0 .. 3
             /\ ForwardAt(p) => /\ FDone(r, p) \in 0 .. 2 * N - 1
                                /\ c = ForwardChunk(r, FDone(r, p))
                                /\ ForwardRole(r, c) = Role(r, p)
             /\ ~ForwardAt(p) => /\ TurnAt(p)
                                 /\ BDone(r, p) \in 0 .. 2 * N
                                 /\ BDone(r, p) # FirstMarker(r)
                                 /\ Turned(r, p) \in 0 .. 2 * N - 1
                                 /\ c = BackwardChunk(r, BDone(r, p))
                                 /\ BackwardRole(r, c) = Role(r, p)
<1>1. CASE ForwardAt(p)
  <2>1. ForwardK(r, p) = FDone(r, p) /\ FDone(r, p) \in 0 .. 2 * N - 1
    BY <1>1, PlaceDone, UnitFacts
  <2>2. /\ ForwardChunk(r, FDone(r, p)) \in Chunks
        /\ ForwardRole(r, ForwardChunk(r, FDone(r, p))) = RoleOfPlace(r, FDone(r, p))
    BY <2>1, ForwardChunkRole
  <2>3. RoleOfPlace(r, FDone(r, p)) \in 0 .. 3
    BY <2>1, DoneSteps, 0 \in 0 .. 3
  <2>4. QED BY <1>1, <2>1, <2>2, <2>3 DEF PassChunk, Role
<1>2. CASE ~ForwardAt(p)
  <2>1. TurnAt(p) /\ BackwardChunk(r, BackwardK(r, p)) # Sync
    BY <1>2 DEF IsPass
  <2>2. BackwardK(r, p) = BDone(r, p) /\ BDone(r, p) \in 0 .. 2 * N + 1
    BY <2>1, PlaceDone, UnitFacts
  <2>3. BDone(r, p) \notin {FirstMarker(r), 2 * N + 1}
    BY <2>1, <2>2, MarkerPlaces
  <2>4. Turned(r, p) \in 0 .. 2 * N - 1
    BY <2>2, <2>3, BackwardPlace DEF Turned
  <2>5. /\ BackwardChunk(r, BDone(r, p)) \in Chunks
        /\ BackwardRole(r, BackwardChunk(r, BDone(r, p))) = RoleOfPlace(r, Turned(r, p))
    BY <2>2, <2>3, BackwardChunkRole DEF Turned
  <2>6. RoleOfPlace(r, Turned(r, p)) \in 0 .. 3
    BY <2>4, DoneSteps, 0 \in 0 .. 3
  <2>7. BDone(r, p) \in 0 .. 2 * N
    BY <2>2, <2>3, UnitFacts
  <2>8. QED BY <1>2, <2>1, <2>2, <2>3, <2>4, <2>5, <2>6, <2>7 DEF PassChunk, Role
<1>3. QED BY <1>1, <1>2

LEMMA PassSides ==
  ASSUME NEW r \in Ranks, NEW p, GoodPlace(r, p), IsPass(r, p)
  PROVE  LET c == PassChunk(r, p)
             q == Role(r, p)
         IN  /\ PassLink(r, p) = IF q \in {0, 2} THEN IHalf(r) ELSE 1 - IHalf(r)
             /\ ForwardAt(p) =>
                  /\ Target(r, p) = IF End(r) /\ q \in {1, 3} THEN Nobody ELSE NextRank(r, c)
                  /\ Source(r, p) = IF End(r) /\ q \in {0, 2} THEN Nobody ELSE PrevRank(r, c)
                  /\ IsFirstStage(r, c) <=> End(r) /\ q = 0
                  /\ IsLastStage(r, c) <=> End(r) /\ q = 3
                  /\ HandedOverForward(r, c) <=> End(r) /\ q = 2
             /\ ~ForwardAt(p) =>
                  /\ Target(r, p) = IF End(r) /\ q \in {1, 3} THEN Nobody ELSE PrevRank(r, c)
                  /\ Source(r, p) = IF End(r) /\ q \in {0, 2} THEN Nobody ELSE NextRank(r, c)
                  /\ IsLastStage(r, c) <=> End(r) /\ q = 0
                  /\ IsFirstStage(r, c) <=> End(r) /\ q = 3
                  /\ HandedOverBackward(r, c) <=> End(r) /\ q = 2
<1>1. PassChunk(r, p) \in Chunks
  BY PassRole
<1>2. CASE ForwardAt(p)
  <2>1. ForwardRole(r, PassChunk(r, p)) = Role(r, p) /\ PassLink(r, p) = ForwardLink(PassChunk(r, p))
    BY <1>2, PassRole DEF PassLink
  <2>2. QED BY <1>1, <1>2, <2>1, ForwardNeighbours DEF Source, Target
<1>3. CASE ~ForwardAt(p)
  <2>1. BackwardRole(r, PassChunk(r, p)) = Role(r, p) /\ PassLink(r, p) = BackwardLink(PassChunk(r, p))
    BY <1>3, PassRole DEF PassLink
  <2>2. QED BY <1>1, <1>3, <2>1, BackwardNeighbours DEF Source, Target
<1>4. QED BY <1>2, <1>3

\* After a pass of one link, a pass of the other gets its tensor from the
\* device the first one sends its tensor to.
LEMMA Crossing ==
  ASSUME NEW r \in Ranks, NEW p, GoodPlace(r, p), IsPass(r, p),
         NEW p1, GoodPlace(r, p1), IsPass(r, p1), Opposite(Role(r, p), Role(r, p1))
  PROVE  Source(r, p1) = Target(r, p)
<1>1. /\ PassLink(r, p) = IF Role(r, p) \in {0, 2} THEN IHalf(r) ELSE 1 - IHalf(r)
      /\ PassLink(r, p1) = IF Role(r, p1) \in {0, 2} THEN IHalf(r) ELSE 1 - IHalf(r)
  BY PassSides
<1>2. IHalf(r) \in {0, 1} /\ Role(r, p) \in 0 .. 3 /\ Role(r, p1) \in 0 .. 3
  BY RankArithmetic, PassRole
<1>3. PassLink(r, p) \in {0, 1} /\ PassLink(r, p1) = 1 - PassLink(r, p)
  BY <1>1, <1>2 DEF Opposite
<1>4. Above(r, 1 - PassLink(r, p)) = Below(r, PassLink(r, p))
  BY <1>3 DEF Above, Below
<1>5. QED BY <1>3, <1>4 DEF Source, Target

\* What comes next, and which places of the two orders it uses.
LEMMA ComingNext ==
  ASSUME NEW r \in Ranks, NEW p, GoodPlace(r, p)
  PROVE  LET next == NextPlace(r, p)
         IN  /\ GoodPlace(r, next)
             /\ FDone(r, next) = FDone(r, p) + (IF ForwardAt(p) THEN 1 ELSE 0)
             /\ BDone(r, next) = BDone(r, p) + (IF TurnAt(p) THEN 1 ELSE 0)
             /\ p.phase = "recv" => ForwardAt(next) /\ next.phase = "warmup" /\ FDone(r, next) = 0
             /\ p.phase = "warmup" /\ ~(ForwardOnly /\ FDone(r, p) = 2 * N - 1) => ForwardAt(next)
             /\ p.phase = "warmup" /\ ForwardOnly /\ FDone(r, p) = 2 * N - 1 => next.phase = "finish"
             /\ p.phase = "mid4" => ForwardAt(next)
             /\ p.phase \in {"mid1", "mid3", "last"} /\ p.k % 2 = 0 =>
                  TurnAt(next) /\ next.phase = p.phase
             /\ p.phase = "mid3" /\ p.k % 2 = 1 => ForwardAt(next)
             /\ p.phase \in {"mid1", "last"} /\ p.k % 2 = 1 =>
                  IF p.k = 2 * UnitRemaining(r) - 1 THEN TurnAt(next) ELSE ForwardAt(next)
             /\ p.phase = "mid2" =>
                  IF p.k = NumWarmupMicrobatches(r) - UnitRemaining(r) THEN ForwardAt(next) ELSE TurnAt(next)
             /\ p.phase = "cooldown" =>
                  IF BDone(r, p) < 2 * N + 1 THEN TurnAt(next) /\ next.phase = "cooldown"
                                             ELSE next.phase = "finish"
             /\ p.phase \in {"finish", "done"} => next.phase = "done"
<1> DEFINE next == NextPlace(r, p)
           w == NumWarmupMicrobatches(r)
           u == UnitRemaining(r)
<1>1. /\ GoodPlace(r, next)
      /\ FDone(r, next) = FDone(r, p) + (IF ForwardAt(p) THEN 1 ELSE 0)
      /\ BDone(r, next) = BDone(r, p) + (IF TurnAt(p) THEN 1 ELSE 0)
  BY NextPlaceGood, NextDone
<1>2. /\ p.k \in Nat /\ p.phase \in Phases /\ p.k < PhaseLength(r, p.phase)
      /\ p.phase = "mid3" => u > 1
      /\ ForwardOnly => p.phase \in {"recv", "warmup", "finish", "done"}
  BY DEF GoodPlace, PC
<1>3. w \in P + Half .. 2 * P - 1 /\ u = 2 * P - w /\ u \in 1 .. Half
  BY WarmupFacts
<1>4. N \in Nat /\ P \in Nat /\ Half \in Nat /\ Half >= 2 /\ P = 2 * Half /\ P <= N
  BY HalfFacts, UnitFacts
<1>5. IF p.k + 1 < PhaseLength(r, p.phase)
      THEN next = [p EXCEPT !.k = @ + 1] /\ next.phase = p.phase /\ next.k = p.k + 1
      ELSE next = NextPhase(r, p) /\ p.k + 1 = PhaseLength(r, p.phase)
  <2>1. PhaseLength(r, p.phase) \in Nat
    BY <1>2, PhaseLengths
  <2>2. next = IF p.k + 1 < PhaseLength(r, p.phase) THEN [p EXCEPT !.k = @ + 1] ELSE NextPhase(r, p)
    BY DEF NextPlace
  <2>3. p \in PC
    BY DEF GoodPlace
  <2>4. [p EXCEPT !.k = @ + 1].phase = p.phase /\ [p EXCEPT !.k = @ + 1].k = p.k + 1
    BY <2>3 DEF PC
  <2> HIDE DEF next
  <2>5. QED BY <1>2, <2>1, <2>2, <2>4
<1>6. \A loop : LoopOrLast(loop).phase \in {"mid1", "last"} /\ LoopOrLast(loop).k = 0
  BY DEF LoopOrLast, At
<1>7. \A x \in {"mid1", "mid3", "last"} : x # "recv" /\ x # "warmup" /\ x # "mid4" /\ x # "mid2" /\ x # "cooldown"
  OBVIOUS
<1> HIDE DEF next, w, u
<1>8. CASE p.phase = "recv"
  <2>1. next = At("warmup", 0)
    BY <1>2, <1>5, <1>8 DEF PhaseLength, NextPhase
  <2>2. FDone(r, next) = 0
    BY <2>1 DEF FDone, At
  <2>3. QED BY <1>1, <1>8, <2>1, <2>2 DEF ForwardAt, At, next
<1>9. CASE p.phase = "warmup"
  <2>1. FDone(r, p) = p.k /\ PhaseLength(r, p.phase) = IF ForwardOnly THEN 2 * N ELSE w
    BY <1>9 DEF FDone, PhaseLength, TotalNumMicrobatches, w
  <2>2. NextPhase(r, p) = IF ForwardOnly THEN At("finish", 0) ELSE LoopOrLast(0)
    BY <1>9 DEF NextPhase
  <2>3. ForwardOnly /\ p.k = 2 * N - 1 => next.phase = "finish"
    BY <1>2, <1>4, <1>5, <2>1, <2>2 DEF At
  <2>4. ForwardOnly /\ p.k # 2 * N - 1 => next.phase = "warmup"
    BY <1>2, <1>4, <1>5, <1>9, <2>1
  <2>5. ~ForwardOnly => next.phase = "warmup" \/ (next.phase \in {"mid1", "last"} /\ next.k = 0)
    BY <1>5, <1>6, <1>9, <2>1, <2>2
  <2>6. QED BY <1>1, <1>9, <2>1, <2>3, <2>4, <2>5, <1>7, 0 % 2 = 0 DEF ForwardAt, next
<1>10. CASE p.phase = "mid4"
  <2>1. NextPhase(r, p) = LoopOrLast(p.loop + 1)
    BY <1>10 DEF NextPhase
  <2>2. next.phase = "mid4" \/ (next.phase \in {"mid1", "last"} /\ next.k = 0)
    BY <1>5, <1>6, <1>10, <2>1
  <2>3. QED BY <1>1, <1>7, <1>10, <2>2, 0 % 2 = 0 DEF ForwardAt, next
<1>11. CASE p.phase \in {"mid1", "last"}
  <2>1. PhaseLength(r, p.phase) = 2 * u
    BY <1>11 DEF PhaseLength, u
  <2>2. NextPhase(r, p).phase \in {"mid2", "cooldown"}
    BY <1>11 DEF NextPhase, At
  <2>3. p.k % 2 = 0 => next.phase = p.phase /\ next.k = p.k + 1 /\ next.k % 2 = 1
    BY <1>2, <1>3, <1>5, <2>1
  <2>4. p.k % 2 = 1 /\ p.k # 2 * u - 1 => next.phase = p.phase /\ next.k = p.k + 1 /\ next.k % 2 = 0
    BY <1>2, <1>3, <1>5, <2>1
  <2>5. p.k = 2 * u - 1 => next.phase \in {"mid2", "cooldown"}
    BY <1>3, <1>5, <2>1, <2>2
  <2>6. QED BY <1>1, <1>7, <1>11, <2>3, <2>4, <2>5 DEF ForwardAt, TurnAt, next, u
<1>12. CASE p.phase = "mid3"
  <2>1. PhaseLength(r, p.phase) = 2 * (u - 1)
    BY <1>12 DEF PhaseLength, u
  <2>2. NextPhase(r, p).phase = "mid4"
    BY <1>12 DEF NextPhase, At
  <2>3. p.k % 2 = 0 => next.phase = p.phase /\ next.k = p.k + 1 /\ next.k % 2 = 1
    BY <1>2, <1>3, <1>5, <1>12, <2>1
  <2>4. p.k % 2 = 1 => next.phase = "mid4" \/ (next.phase = p.phase /\ next.k = p.k + 1 /\ next.k % 2 = 0)
    BY <1>2, <1>3, <1>5, <2>1, <2>2
  <2>5. QED BY <1>1, <1>7, <1>12, <2>3, <2>4 DEF ForwardAt, TurnAt, next
<1>13. CASE p.phase = "mid2"
  <2>1. PhaseLength(r, p.phase) = w - u + 1
    BY <1>13 DEF PhaseLength, w, u
  <2>2. /\ NextPhase(r, p).phase = "mid4" \/ (NextPhase(r, p).phase = "mid3" /\ NextPhase(r, p).k = 0)
    BY <1>13 DEF NextPhase, At
  <2>3. p.k = w - u => next.phase = "mid4" \/ (next.phase = "mid3" /\ next.k = 0)
    BY <1>3, <1>4, <1>5, <2>1, <2>2
  <2>4. p.k # w - u => next.phase = "mid2"
    BY <1>2, <1>3, <1>4, <1>5, <1>13, <2>1
  <2>5. QED BY <1>1, <1>7, <1>13, <2>3, <2>4, 0 % 2 = 0 DEF ForwardAt, TurnAt, next, w, u
<1>14. CASE p.phase = "cooldown"
  <2>1. BackwardK(r, p) = BDone(r, p) /\ BDone(r, p) \in 0 .. 2 * N + 1
    BY <1>4, <1>14, PlaceDone DEF TurnAt
  <2>2. p.k + 1 < PhaseLength(r, p.phase) <=> BDone(r, p) < 2 * N + 1
    BY <1>14, <2>1, CooldownPlaces
  <2>3. NextPhase(r, p) = At("finish", 0)
    BY <1>14 DEF NextPhase
  <2>4. QED BY <1>1, <1>5, <1>14, <2>2, <2>3 DEF TurnAt, At, next
<1>15. CASE p.phase \in {"finish", "done"}
  <2>1. PhaseLength(r, p.phase) = 1 /\ NextPhase(r, p) = At("done", 0)
    BY <1>15 DEF PhaseLength, NextPhase
  <2>2. next.phase = "done"
    BY <1>2, <1>5, <2>1 DEF At
  <2>3. QED BY <1>1, <1>15, <2>2 DEF next
<1>16. QED BY <1>2, <1>8, <1>9, <1>10, <1>11, <1>12, <1>13, <1>14, <1>15 DEF Phases

----
(***************************************************************************)
(* Which roles the passes of each phase have, and which ones come next.    *)
(***************************************************************************)
\* Places that are neither in the first nor, with the one after, in the last part of a block.
LEMMA MiddlePlaces ==
  ASSUME NEW r \in Ranks, NEW b \in Nat, NEW x \in 0 .. 2 * P - 2,
         x + 1 >= NumInitial(r), x < NumWarmupMicrobatches(r)
  PROVE  Opposite(RoleOfPlace(r, b * (2 * P) + x), RoleOfPlace(r, b * (2 * P) + x + 1))
<1> DEFINE m == 2 * P
           k == b * m + x
<1>1. m \in Nat /\ m > 0
  BY BlockSizes
<1>2. x \in 0 .. m - 1 /\ x + 1 \in 0 .. m - 1 /\ x \in Nat
  BY <1>1
<1> HIDE DEF m
<1>3. b * m \in Nat
  BY <1>1
<1>4. k \in Nat /\ k + 1 = b * m + (x + 1)
  BY <1>2, <1>3
<1>5. (b * m + x) % m = x /\ (b * m + (x + 1)) % m = x + 1
  BY <1>1, <1>2, DivMod, Zenon
<1>6. k % m = x /\ (k + 1) % m = x + 1
  BY <1>4, <1>5
<1> HIDE DEF k
<1>7. LET q == RoleOfPlace(r, k)
          s == RoleOfPlace(r, k + 1)
      IN  /\ (q = s /\ q \in {0, 3}) \/ Opposite(q, s)
          /\ q = 0 /\ s = 0 => (k + 1) % (2 * P) < NumInitial(r)
          /\ q = 3 /\ s = 3 => k % (2 * P) >= NumWarmupMicrobatches(r)
  BY <1>4, Succession
<1>8. NumInitial(r) \in Int /\ NumWarmupMicrobatches(r) \in Int
  BY Sizes
<1>9. (k + 1) % (2 * P) = x + 1 /\ k % (2 * P) = x
  BY <1>6 DEF m
<1>10. Opposite(RoleOfPlace(r, k), RoleOfPlace(r, k + 1))
  BY <1>2, <1>7, <1>8, <1>9
<1>11. QED BY <1>10 DEF k, m

\* Before the first marker the backward passes behind a device are the places behind it.
LEMMA EarlyTurns ==
  ASSUME NEW r \in Ranks, NEW p, GoodPlace(r, p), p.phase \in {"mid1", "mid2", "mid3", "last"}, TurnAt(p)
  PROVE  Turned(r, p) = BDone(r, p) /\ BDone(r, p) = BackwardK(r, p) /\ BDone(r, p) \in 0 .. 2 * N - 3
         /\ BackwardPasses(r, BDone(r, p) + 1) = BDone(r, p) + 1
         /\ BackwardChunk(r, BDone(r, p)) # Sync
<1>1. BDone(r, p) = BackwardK(r, p) /\ BackwardK(r, p) \in 0 .. 2 * N - 3
  BY PlaceDone, BackwardPlaces
<1>2. FirstMarker(r) \in {2 * N - 1, 2 * N} /\ N \in Nat /\ N >= 2
  BY UnitFacts, HalfFacts DEF FirstMarker
<1>3. BackwardChunk(r, BDone(r, p)) \in Chunks
  BY <1>1, <1>2, EarlyBackwardChunk
<1>4. BackwardPasses(r, BDone(r, p)) = BDone(r, p) /\ BackwardPasses(r, BDone(r, p) + 1) = BDone(r, p) + 1
  BY <1>1, <1>2 DEF BackwardPasses
<1>5. \A c \in Chunks : c # Sync
  BY DEF Chunks, Sync
<1>6. QED BY <1>1, <1>3, <1>4, <1>5 DEF Turned

\* At an end the places between the first and the last part of a block have the roles 1 and 2.
LEMMA EndMiddle ==
  ASSUME NEW r \in Ranks, End(r), NEW b \in Nat, NEW x \in 0 .. 2 * P - 1,
         x >= NumInitial(r), x < NumWarmupMicrobatches(r)
  PROVE  RoleOfPlace(r, b * (2 * P) + x) \in {1, 2}
<1> DEFINE n == NumInitial(r)
           d == Half - NumInitial(r)
           m == 2 * P
<1>1. n \in Nat /\ n >= 1 /\ d \in Nat /\ m \in Nat /\ m > 0 /\ m = 4 * (n + d)
  BY BlockSizes
<1>2. d = 0 /\ NumWarmupMicrobatches(r) = 3 * n + 4 * d
  BY RankArithmetic, HalfFacts, Sizes DEF End
<1>3. x \in 0 .. m - 1
  OBVIOUS
<1> HIDE DEF m
<1>4. (b * m + x) % m = x
  BY <1>1, <1>3, DivMod, Zenon
<1>5. RoleOfPlace(r, b * (2 * P) + x) = RoleAt(n, d, x)
  BY <1>4 DEF RoleOfPlace, m
<1>6. n <= x /\ x < 3 * n
  BY <1>1, <1>2
<1> HIDE DEF n, d
<1>7. x \in 0 .. 4 * (n + d) - 1
  BY <1>1, <1>3
<1>8. RoleAt(n, d, x) \in {1, 2}
  BY <1>1, <1>2, <1>6, <1>7, RoleSuccession
<1>9. QED BY <1>5, <1>8

LEMMA PhaseRoles ==
  ASSUME NEW r \in Ranks, NEW p, GoodPlace(r, p)
  PROVE  LET f == FDone(r, p)
             t == Turned(r, p)
             final == p.k = 2 * UnitRemaining(r) - 1
             finalBackward == p.k = NumWarmupMicrobatches(r) - UnitRemaining(r)
         IN  /\ p.phase \in {"mid1", "last"} /\ p.k % 2 = 0 => RoleOfPlace(r, f) = 3
             /\ p.phase = "mid3" /\ p.k % 2 = 0 => RoleOfPlace(r, f) = 0
             /\ p.phase \in {"mid1", "last"} /\ p.k % 2 = 1 =>
                  /\ RoleOfPlace(r, t) = 0
                  /\ final => Opposite(RoleOfPlace(r, t), RoleOfPlace(r, t + 1))
             /\ p.phase = "mid3" /\ p.k % 2 = 1 => RoleOfPlace(r, t) = 3
             /\ p.phase = "mid2" =>
                  IF finalBackward THEN RoleOfPlace(r, t) = 3
                  ELSE Opposite(RoleOfPlace(r, t), RoleOfPlace(r, t + 1))
             /\ p.phase = "mid2" /\ End(r) => RoleOfPlace(r, t) # 0
             /\ p.phase = "mid2" /\ End(r) /\ ~finalBackward => RoleOfPlace(r, t) # 3
             /\ p.phase = "mid4" => Opposite(RoleOfPlace(r, f), RoleOfPlace(r, f + 1))
<1> DEFINE w == NumWarmupMicrobatches(r)
           u == UnitRemaining(r)
           n == NumInitial(r)
           l == p.loop
<1>1. /\ p.k \in Nat /\ p.phase \in Phases /\ p.k < PhaseLength(r, p.phase) /\ l \in Nat
      /\ p.phase = "mid3" => u > 1
  BY UnitFacts DEF GoodPlace, PC
<1>2. w \in P + Half .. 2 * P - 1 /\ u = 2 * P - w /\ u \in 1 .. Half /\ n = u
  BY WarmupFacts, Sizes
<1>3. P \in Nat /\ Half \in Nat /\ Half >= 2 /\ P = 2 * Half
  BY HalfFacts
<1>4. l * 2 * P = l * (2 * P) /\ l * 2 * P + 2 * P = (l + 1) * (2 * P) /\ l + 1 \in Nat /\ l * (2 * P) \in Nat
  BY <1>1, <1>3
<1>5. ASSUME NEW b \in Nat, NEW x \in 0 .. 2 * P - 1
      PROVE  /\ x < n => RoleOfPlace(r, b * (2 * P) + x) = 0
             /\ x >= w => RoleOfPlace(r, b * (2 * P) + x) = 3
             /\ End(r) /\ x >= n => RoleOfPlace(r, b * (2 * P) + x) # 0
  BY RoleIn
<1>6. ASSUME NEW b \in Nat, NEW x \in 0 .. 2 * P - 2, x + 1 >= n, x < w
      PROVE  Opposite(RoleOfPlace(r, b * (2 * P) + x), RoleOfPlace(r, b * (2 * P) + x + 1))
  BY <1>6, MiddlePlaces
<1> HIDE DEF w, u, n, l
<1>7. ASSUME p.phase \in {"mid1", "last"}, p.k % 2 = 0
      PROVE  RoleOfPlace(r, FDone(r, p)) = 3
  <2>1. FDone(r, p) = l * 2 * P + w + ((p.k + 1) \div 2) /\ PhaseLength(r, p.phase) = 2 * u
    BY <1>7 DEF FDone, PhaseLength, l, w, u
  <2> DEFINE h == (p.k + 1) \div 2
  <2>2. h \in 0 .. u - 1
    BY <1>1, <1>2, <1>3, <1>7, <2>1
  <2> HIDE DEF h
  <2>3. FDone(r, p) = l * (2 * P) + (w + h) /\ w + h \in 0 .. 2 * P - 1 /\ w + h >= w
    BY <1>2, <1>3, <1>4, <2>1, <2>2 DEF h
  <2>4. QED BY <1>1, <1>5, <2>3
<1>8. ASSUME p.phase = "mid3", p.k % 2 = 0
      PROVE  RoleOfPlace(r, FDone(r, p)) = 0
  <2>1. FDone(r, p) = l * 2 * P + 2 * P + ((p.k + 1) \div 2) /\ PhaseLength(r, p.phase) = 2 * (u - 1)
    BY <1>8 DEF FDone, PhaseLength, l, u
  <2> DEFINE h == (p.k + 1) \div 2
  <2>2. h \in 0 .. u - 2
    BY <1>1, <1>2, <1>3, <1>8, <2>1
  <2> HIDE DEF h
  <2>3. FDone(r, p) = (l + 1) * (2 * P) + h /\ h \in 0 .. 2 * P - 1 /\ h < n
    BY <1>2, <1>3, <1>4, <2>1, <2>2 DEF h
  <2>4. QED BY <1>4, <1>5, <2>3
<1>9. ASSUME p.phase \in {"mid1", "last"}, p.k % 2 = 1
      PROVE  /\ RoleOfPlace(r, Turned(r, p)) = 0
             /\ p.k = 2 * u - 1 => Opposite(RoleOfPlace(r, Turned(r, p)), RoleOfPlace(r, Turned(r, p) + 1))
  <2>1. BDone(r, p) = l * 2 * P + (p.k \div 2) /\ PhaseLength(r, p.phase) = 2 * u
    BY <1>9 DEF BDone, PhaseLength, l, u
  <2>2. Turned(r, p) = BDone(r, p)
    BY <1>9, EarlyTurns DEF TurnAt
  <2> DEFINE h == p.k \div 2
  <2>8. h \in Nat /\ p.k = 2 * h + 1
    BY <1>1, <1>9
  <2>3. h \in 0 .. u - 1 /\ (p.k = 2 * u - 1 => h + 1 = u)
    <3> HIDE DEF h
    <3>1. QED BY <1>1, <1>2, <1>3, <2>1, <2>8
  <2> HIDE DEF h
  <2>4. Turned(r, p) = l * (2 * P) + h /\ h \in 0 .. 2 * P - 1 /\ h < n /\ h \in 0 .. 2 * P - 2 /\ h < w
    BY <1>2, <1>3, <1>4, <2>1, <2>2, <2>3 DEF h
  <2>5. RoleOfPlace(r, Turned(r, p)) = 0
    BY <1>1, <1>5, <2>4
  <2>6. ASSUME p.k = 2 * u - 1
        PROVE  Opposite(RoleOfPlace(r, Turned(r, p)), RoleOfPlace(r, Turned(r, p) + 1))
    <3>1. h + 1 >= n
      BY <1>2, <2>3, <2>6
    <3>2. QED BY <1>1, <1>6, <2>4, <3>1
  <2>7. QED BY <2>5, <2>6
<1>10. ASSUME p.phase = "mid3", p.k % 2 = 1
       PROVE  RoleOfPlace(r, Turned(r, p)) = 3
  <2>1. BDone(r, p) = l * 2 * P + w + 1 + (p.k \div 2) /\ PhaseLength(r, p.phase) = 2 * (u - 1)
    BY <1>10 DEF BDone, PhaseLength, l, w, u
  <2>2. Turned(r, p) = BDone(r, p)
    BY <1>10, EarlyTurns DEF TurnAt
  <2> DEFINE h == p.k \div 2
  <2>3. h \in 0 .. u - 2
    BY <1>1, <1>2, <1>3, <1>10, <2>1
  <2> HIDE DEF h
  <2>4. /\ Turned(r, p) = l * (2 * P) + (w + 1 + h)
        /\ w + 1 + h \in 0 .. 2 * P - 1 /\ w + 1 + h >= w
    BY <1>2, <1>3, <1>4, <2>1, <2>2, <2>3 DEF h
  <2>5. QED BY <1>1, <1>5, <2>4
<1>11. ASSUME p.phase = "mid2"
       PROVE  /\ IF p.k = w - u THEN RoleOfPlace(r, Turned(r, p)) = 3
                 ELSE Opposite(RoleOfPlace(r, Turned(r, p)), RoleOfPlace(r, Turned(r, p) + 1))
              /\ End(r) => RoleOfPlace(r, Turned(r, p)) # 0
              /\ End(r) /\ p.k # w - u => RoleOfPlace(r, Turned(r, p)) # 3
  <2>1. BDone(r, p) = l * 2 * P + u + p.k /\ PhaseLength(r, p.phase) = w - u + 1
    BY <1>11 DEF BDone, PhaseLength, l, u, w
  <2>2. Turned(r, p) = BDone(r, p)
    BY <1>11, EarlyTurns DEF TurnAt
  <2>3. /\ Turned(r, p) = l * (2 * P) + (u + p.k)
        /\ u + p.k \in 0 .. 2 * P - 1 /\ u + p.k >= n
        /\ p.k = w - u => u + p.k >= w
        /\ p.k # w - u => u + p.k < w /\ u + p.k \in 0 .. 2 * P - 2 /\ (u + p.k) + 1 >= n
    BY <1>1, <1>2, <1>3, <1>4, <2>1, <2>2
  <2>4. End(r) => RoleOfPlace(r, Turned(r, p)) # 0
    BY <1>1, <1>5, <2>3
  <2>5. CASE p.k = w - u
    BY <1>1, <1>5, <2>3, <2>4, <2>5
  <2>6. CASE p.k # w - u
    <3>1. Opposite(RoleOfPlace(r, Turned(r, p)), RoleOfPlace(r, Turned(r, p) + 1))
      BY <1>1, <1>6, <2>3, <2>6
    <3>2. End(r) => RoleOfPlace(r, Turned(r, p)) \in {1, 2}
      <4>2. /\ RoleOfPlace(r, l * (2 * P) + (u + p.k)) \in {1, 2} \/ ~End(r)
        BY <1>1, <1>2, <1>3, <2>3, <2>6, EndMiddle DEF n, w
      <4>3. QED BY <2>3, <4>2
    <3>3. QED BY <2>4, <2>6, <3>1, <3>2
  <2>7. QED BY <2>5, <2>6
<1>12. ASSUME p.phase = "mid4"
       PROVE  Opposite(RoleOfPlace(r, FDone(r, p)), RoleOfPlace(r, FDone(r, p) + 1))
  <2>1. FDone(r, p) = l * 2 * P + 2 * P + u - 1 + p.k /\ PhaseLength(r, p.phase) = w - u + 1
    BY <1>12 DEF FDone, PhaseLength, l, u, w
  <2> DEFINE x == u - 1 + p.k
  <2>2. /\ FDone(r, p) = (l + 1) * (2 * P) + x
        /\ x < w /\ x \in 0 .. 2 * P - 2 /\ x + 1 >= n
    BY <1>1, <1>2, <1>3, <1>4, <2>1
  <2> HIDE DEF x
  <2>3. QED BY <1>4, <1>6, <2>2
<1>13. QED BY <1>7, <1>8, <1>9, <1>10, <1>11, <1>12 DEF w, u

\* What is handed over on a device at an end is what the next pass there needs.
LEMMA HandOvers ==
  ASSUME NEW r \in Ranks, End(r)
  PROVE  /\ \A c \in Chunks, d \in Chunks : ForwardRole(r, c) = 1 /\ ForwardRole(r, d) = 2 =>
              /\ Pipe(c) = Pipe(d) /\ StageOf(r, d) = StageOf(r, c) + 1 /\ ~IsFirstStage(r, d)
         /\ \A c \in Chunks, d \in Chunks : BackwardRole(r, c) = 1 /\ BackwardRole(r, d) = 2 =>
              /\ Pipe(c) = Pipe(d) /\ StageOf(r, d) + 1 = StageOf(r, c)
<1>1. IHalf(r) \in {0, 1} /\ P \in Int /\ P > 2
      /\ ((r = 0 /\ IHalf(r) = 0) \/ (r = P - 1 /\ IHalf(r) = 1))
  BY RankArithmetic DEF End
<1>2. CASE r = 0 /\ IHalf(r) = 0
  BY <1>1, <1>2 DEF ForwardRole, BackwardRole, Chunks, Pipe, StageOf, IsFirstStage
<1>3. CASE r = P - 1 /\ IHalf(r) = 1
  BY <1>1, <1>3 DEF ForwardRole, BackwardRole, Chunks, Pipe, StageOf, IsFirstStage
<1>4. QED BY <1>1, <1>2, <1>3

\* A forward pass after a forward pass.
LEMMA ForwardThenForward ==
  ASSUME NEW r \in Ranks, NEW p, GoodPlace(r, p), ForwardAt(p), ForwardAt(NextPlace(r, p))
  PROVE  LET next == NextPlace(r, p)
             q == Role(r, p)
             s == Role(r, next)
             c == PassChunk(r, p)
             d == PassChunk(r, next)
         IN  /\ IsPass(r, p) /\ IsPass(r, next) /\ GoodPlace(r, next)
             /\ c = ForwardChunk(r, FDone(r, p)) /\ d = ForwardChunk(r, FDone(r, p) + 1)
             /\ (q = s /\ q \in {0, 3} /\ c = d) \/ (Opposite(q, s) /\ c # d)
             /\ p.phase = "mid4" => Opposite(q, s)
             /\ End(r) => (q = 1 <=> s = 2)
             /\ End(r) /\ q = 1 => InputOf(r, d, Forwards(r, d, next)) = Made(r, p)
<1> DEFINE next == NextPlace(r, p)
           q == Role(r, p)
           s == Role(r, next)
           c == PassChunk(r, p)
           d == PassChunk(r, next)
           f == FDone(r, p)
<1>1. GoodPlace(r, next) /\ FDone(r, next) = FDone(r, p) + 1
  BY ComingNext
<1>2. IsPass(r, p) /\ IsPass(r, next)
  BY DEF IsPass
<1>3. /\ c \in Chunks /\ f \in 0 .. 2 * N - 1 /\ c = ForwardChunk(r, f) /\ ForwardRole(r, c) = q
  BY <1>2, PassRole
<1>4. /\ d \in Chunks /\ FDone(r, next) \in 0 .. 2 * N - 1
      /\ d = ForwardChunk(r, f + 1) /\ ForwardRole(r, d) = s
  BY <1>1, <1>2, PassRole
<1>5. q = RoleOfPlace(r, f) /\ s = RoleOfPlace(r, f + 1)
  BY <1>1 DEF Role
<1>6. f \in Nat
  BY <1>3, UnitFacts
<1>7. /\ q \in 0 .. 3 /\ s \in 0 .. 3
      /\ (q = s /\ q \in {0, 3}) \/ Opposite(q, s)
      /\ End(r) => (q = 1 <=> s = 2)
      /\ End(r) /\ q = 1 => RoleDone(r, 1, f) = RoleDone(r, 2, f)
  BY <1>5, <1>6, Succession
<1>8. q = s <=> c = d
  BY <1>3, <1>4, RolesDiffer
<1>9. p.phase = "mid4" => Opposite(q, s)
  BY <1>5, PhaseRoles
<1>10. ~Opposite(q, q)
  BY <1>7 DEF Opposite
<1>11. ASSUME End(r), q = 1
       PROVE  InputOf(r, d, Forwards(r, d, next)) = Made(r, p)
  <2>1. s = 2 /\ RoleDone(r, 1, f) = RoleDone(r, 2, f)
    BY <1>7, <1>11
  <2>2. Pipe(c) = Pipe(d) /\ StageOf(r, d) = StageOf(r, c) + 1 /\ ~IsFirstStage(r, d)
    BY <1>3, <1>4, <1>11, <2>1, HandOvers
  <2>3. Forwards(r, c, p) = RoleDone(r, 1, f) /\ Forwards(r, d, next) = RoleDone(r, 2, f + 1)
    BY <1>1, <1>3, <1>4, <1>11, <2>1 DEF Forwards, ForwardDone
  <2>4. RoleDone(r, 2, f + 1) = RoleDone(r, 2, f)
    <3>1. /\ RoleDone(r, 2, f) \in Nat
          /\ RoleDone(r, 2, f + 1) = RoleDone(r, 2, f) + (IF 2 = RoleOfPlace(r, f) THEN 1 ELSE 0)
      BY <1>6, DoneSteps, 2 \in 0 .. 3
    <3>2. 2 # RoleOfPlace(r, f)
      BY <1>5, <1>11
    <3>3. QED BY <3>1, <3>2
  <2>5. Made(r, p) = Act(Pipe(c), Forwards(r, c, p), StageOf(r, c) + 1)
    BY DEF Made, OutputOf
  <2>6. InputOf(r, d, Forwards(r, d, next)) = Act(Pipe(d), Forwards(r, d, next), StageOf(r, d))
    BY <2>2 DEF InputOf
  <2>7. QED BY <2>1, <2>2, <2>3, <2>4, <2>5, <2>6
<1>12. QED BY <1>1, <1>2, <1>3, <1>4, <1>7, <1>8, <1>9, <1>10, <1>11

\* A backward pass after a backward pass.
LEMMA BackwardThenBackward ==
  ASSUME NEW r \in Ranks, NEW p, GoodPlace(r, p), IsPass(r, p), TurnAt(p),
         TurnAt(NextPlace(r, p)), IsPass(r, NextPlace(r, p))
  PROVE  LET next == NextPlace(r, p)
             q == Role(r, p)
             s == Role(r, next)
             c == PassChunk(r, p)
             d == PassChunk(r, next)
         IN  /\ GoodPlace(r, next) /\ ~ForwardAt(p) /\ ~ForwardAt(next)
             /\ c = BackwardChunk(r, BDone(r, p)) /\ d = BackwardChunk(r, BDone(r, p) + 1)
             /\ q = RoleOfPlace(r, Turned(r, p)) /\ s = RoleOfPlace(r, Turned(r, p) + 1)
             /\ (q = s /\ q \in {0, 3} /\ c = d) \/ (Opposite(q, s) /\ c # d)
             /\ End(r) => (q = 1 <=> s = 2)
             /\ End(r) /\ q = 1 => GradOf(r, d, Backwards(r, d, next)) = Made(r, p)
<1> DEFINE next == NextPlace(r, p)
           q == Role(r, p)
           s == Role(r, next)
           c == PassChunk(r, p)
           d == PassChunk(r, next)
           t == Turned(r, p)
<1>1. GoodPlace(r, next) /\ BDone(r, next) = BDone(r, p) + 1
  BY ComingNext
<1>2. ~ForwardAt(p) /\ ~ForwardAt(next)
  BY DEF ForwardAt, TurnAt
<1>3. /\ c \in Chunks /\ BDone(r, p) \in 0 .. 2 * N /\ BDone(r, p) # FirstMarker(r)
      /\ t \in 0 .. 2 * N - 1
      /\ c = BackwardChunk(r, BDone(r, p)) /\ BackwardRole(r, c) = q
  BY <1>2, PassRole
<1>4. /\ d \in Chunks /\ d = BackwardChunk(r, BDone(r, p) + 1) /\ BackwardRole(r, d) = s
  BY <1>1, <1>2, PassRole
<1>5. Turned(r, next) = t + 1
  <2>1. BDone(r, p) \in 0 .. 2 * N + 1 /\ BDone(r, p) \notin {FirstMarker(r), 2 * N + 1}
    BY <1>3, UnitFacts
  <2>2. QED BY <1>1, <2>1, BackwardPlace DEF Turned
<1>6. q = RoleOfPlace(r, t) /\ s = RoleOfPlace(r, t + 1)
  BY <1>2, <1>5 DEF Role
<1>7. t \in Nat
  BY <1>3, UnitFacts
<1>8. /\ q \in 0 .. 3 /\ s \in 0 .. 3
      /\ (q = s /\ q \in {0, 3}) \/ Opposite(q, s)
      /\ End(r) => (q = 1 <=> s = 2)
      /\ End(r) /\ q = 1 => RoleDone(r, 1, t) = RoleDone(r, 2, t)
  BY <1>6, <1>7, Succession
<1>9. q = s <=> c = d
  BY <1>3, <1>4, RolesDiffer
<1>10. ~Opposite(q, q)
  BY <1>8 DEF Opposite
<1>11. ASSUME End(r), q = 1
       PROVE  GradOf(r, d, Backwards(r, d, next)) = Made(r, p)
  <2>1. s = 2 /\ RoleDone(r, 1, t) = RoleDone(r, 2, t)
    BY <1>8, <1>11
  <2>2. Pipe(c) = Pipe(d) /\ StageOf(r, d) + 1 = StageOf(r, c)
    BY <1>3, <1>4, <1>11, <2>1, HandOvers
  <2>3. Backwards(r, c, p) = RoleDone(r, 1, t) /\ Backwards(r, d, next) = RoleDone(r, 2, t + 1)
    BY <1>3, <1>4, <1>5, <1>11, <2>1 DEF Backwards, BackwardDone, Turned
  <2>4. RoleDone(r, 2, t + 1) = RoleDone(r, 2, t)
    <3>1. /\ RoleDone(r, 2, t) \in Nat
          /\ RoleDone(r, 2, t + 1) = RoleDone(r, 2, t) + (IF 2 = RoleOfPlace(r, t) THEN 1 ELSE 0)
      BY <1>7, DoneSteps, 2 \in 0 .. 3
    <3>2. 2 # RoleOfPlace(r, t)
      BY <1>6, <1>11
    <3>3. QED BY <3>1, <3>2
  <2>5. Made(r, p) = Grad(Pipe(c), Backwards(r, c, p), StageOf(r, c))
    BY <1>2 DEF Made
  <2>6. GradOf(r, d, Backwards(r, d, next)) = Grad(Pipe(d), Backwards(r, d, next), StageOf(r, d) + 1)
    BY DEF GradOf
  <2>7. QED BY <2>1, <2>2, <2>3, <2>4, <2>5, <2>6
<1>12. QED BY <1>1, <1>2, <1>3, <1>4, <1>6, <1>8, <1>9, <1>10, <1>11

\* The forward pass that comes after a backward pass of the middle part.
LEMMA ForwardAfterTurn ==
  ASSUME NEW r \in Ranks, NEW p, GoodPlace(r, p)
  PROVE  /\ p.phase \in {"mid1", "last"} /\ p.k % 2 = 1 /\ p.k # 2 * UnitRemaining(r) - 1 =>
              RoleOfPlace(r, FDone(r, p)) = 3
         /\ p.phase = "mid2" \/ (p.phase = "mid3" /\ p.k % 2 = 1) => RoleOfPlace(r, FDone(r, p)) = 0
<1> DEFINE w == NumWarmupMicrobatches(r)
           u == UnitRemaining(r)
           n == NumInitial(r)
           l == p.loop
<1>1. /\ p.k \in Nat /\ p.phase \in Phases /\ p.k < PhaseLength(r, p.phase) /\ l \in Nat
  BY UnitFacts DEF GoodPlace, PC
<1>2. w \in P + Half .. 2 * P - 1 /\ u = 2 * P - w /\ u \in 1 .. Half /\ n = u
  BY WarmupFacts, Sizes
<1>3. P \in Nat /\ Half \in Nat /\ Half >= 2 /\ P = 2 * Half
  BY HalfFacts
<1>4. l * 2 * P = l * (2 * P) /\ l * 2 * P + 2 * P = (l + 1) * (2 * P) /\ l + 1 \in Nat /\ l * (2 * P) \in Nat
  BY <1>1, <1>3
<1>5. ASSUME NEW b \in Nat, NEW x \in 0 .. 2 * P - 1
      PROVE  /\ x < n => RoleOfPlace(r, b * (2 * P) + x) = 0
             /\ x >= w => RoleOfPlace(r, b * (2 * P) + x) = 3
  BY RoleIn
<1> HIDE DEF w, u, n, l
<1> DEFINE h == (p.k + 1) \div 2
<1>6. ASSUME p.phase \in {"mid1", "last"}, p.k % 2 = 1, p.k # 2 * u - 1
      PROVE  RoleOfPlace(r, FDone(r, p)) = 3
  <2>1. FDone(r, p) = l * 2 * P + w + h /\ PhaseLength(r, p.phase) = 2 * u
    BY <1>6 DEF FDone, PhaseLength, l, w, u
  <2>2. h \in 0 .. u - 1
    BY <1>1, <1>2, <1>3, <1>6, <2>1
  <2> HIDE DEF h
  <2>3. FDone(r, p) = l * (2 * P) + (w + h) /\ w + h \in 0 .. 2 * P - 1 /\ w + h >= w
    BY <1>2, <1>3, <1>4, <2>1, <2>2
  <2>4. QED BY <1>1, <1>5, <2>3
<1>7. ASSUME p.phase = "mid2"
      PROVE  RoleOfPlace(r, FDone(r, p)) = 0
  <2>1. FDone(r, p) = l * 2 * P + 2 * P
    BY <1>7 DEF FDone, l
  <2>2. FDone(r, p) = (l + 1) * (2 * P) + 0 /\ 0 \in 0 .. 2 * P - 1 /\ 0 < n
    BY <1>2, <1>3, <1>4, <2>1
  <2>3. QED BY <1>4, <1>5, <2>2
<1>8. ASSUME p.phase = "mid3", p.k % 2 = 1
      PROVE  RoleOfPlace(r, FDone(r, p)) = 0
  <2>1. FDone(r, p) = l * 2 * P + 2 * P + h /\ PhaseLength(r, p.phase) = 2 * (u - 1)
    BY <1>8 DEF FDone, PhaseLength, l, u
  <2>2. h \in 0 .. u - 1
    BY <1>1, <1>2, <1>3, <1>8, <2>1
  <2> HIDE DEF h
  <2>3. FDone(r, p) = (l + 1) * (2 * P) + h /\ h \in 0 .. 2 * P - 1 /\ h < n
    BY <1>2, <1>3, <1>4, <2>1, <2>2
  <2>4. QED BY <1>4, <1>5, <2>3
<1>9. QED BY <1>6, <1>7, <1>8 DEF u

\* A backward pass after a forward pass, or the other way round: the links change.
LEMMA TurnOfPasses ==
  ASSUME NEW r \in Ranks, NEW p, GoodPlace(r, p), p.phase \in {"mid1", "mid2", "mid3", "last"},
         ForwardAt(NextPlace(r, p)) <=> ~ForwardAt(p)
  PROVE  LET next == NextPlace(r, p)
         IN  /\ IsPass(r, p) /\ IsPass(r, next) /\ GoodPlace(r, next)
             /\ Opposite(Role(r, p), Role(r, next))
             /\ Source(r, next) = Target(r, p)
             /\ Role(r, p) \in {0, 3} /\ Role(r, next) = 3 - Role(r, p)
             /\ ForwardAt(p) => /\ PassChunk(r, p) = ForwardChunk(r, FDone(r, p))
                                /\ PassChunk(r, next) = BackwardChunk(r, BDone(r, p))
             /\ ~ForwardAt(p) => /\ TurnAt(p)
                                 /\ PassChunk(r, p) = BackwardChunk(r, BDone(r, p))
                                 /\ PassChunk(r, next) = ForwardChunk(r, FDone(r, p))
             /\ p.phase = "mid3" => Role(r, p) = IF ForwardAt(p) THEN 0 ELSE 3
             /\ p.phase \in {"mid1", "last"} => Role(r, p) = IF ForwardAt(p) THEN 3 ELSE 0
             /\ p.phase = "mid2" => Role(r, p) = 3
<1> DEFINE next == NextPlace(r, p)
<1>1. /\ GoodPlace(r, next)
      /\ FDone(r, next) = FDone(r, p) + (IF ForwardAt(p) THEN 1 ELSE 0)
      /\ BDone(r, next) = BDone(r, p) + (IF TurnAt(p) THEN 1 ELSE 0)
      /\ p.phase \in {"mid1", "mid3", "last"} /\ p.k % 2 = 0 => TurnAt(next) /\ next.phase = p.phase
      /\ p.phase = "mid2" =>
           IF p.k = NumWarmupMicrobatches(r) - UnitRemaining(r) THEN ForwardAt(next) ELSE TurnAt(next)
      /\ p.phase \in {"mid1", "last"} /\ p.k % 2 = 1 =>
           IF p.k = 2 * UnitRemaining(r) - 1 THEN TurnAt(next) ELSE ForwardAt(next)
  BY ComingNext
<1>2. \A x : ~(ForwardAt(x) /\ TurnAt(x))
  BY DEF ForwardAt, TurnAt
<1>3. p.k % 2 \in {0, 1}
  BY DEF GoodPlace, PC
<1>4. FDone(r, p) \in Int /\ BDone(r, p) \in Int
  BY PlaceDone
<1> HIDE DEF next
<1>5. CASE p.phase \in {"mid1", "mid3", "last"} /\ p.k % 2 = 0
  <2>1. ForwardAt(p) /\ TurnAt(next) /\ next.phase = p.phase /\ IsPass(r, p)
    BY <1>1, <1>5 DEF ForwardAt, IsPass
  <2>2. ~ForwardAt(next) /\ ~TurnAt(p)
    BY <1>2, <2>1
  <2>3. /\ BackwardChunk(r, BDone(r, next)) # Sync /\ BDone(r, next) = BackwardK(r, next)
    BY <1>1, <1>5, <2>1, EarlyTurns
  <2>4. IsPass(r, next) /\ PassChunk(r, next) = BackwardChunk(r, BDone(r, p))
    BY <1>1, <1>4, <2>1, <2>2, <2>3 DEF IsPass, PassChunk
  <2>5. PassChunk(r, p) = ForwardChunk(r, FDone(r, p))
    BY <2>1, PassRole
  <2>6. next.k % 2 = 1
    BY <1>5, <2>1 DEF TurnAt
  <2>7. /\ Role(r, p) = RoleOfPlace(r, FDone(r, p))
        /\ Role(r, next) = RoleOfPlace(r, Turned(r, next))
    BY <2>1, <2>2 DEF Role
  <2>8. CASE p.phase = "mid3"
    <3>1. Role(r, p) = 0 /\ Role(r, next) = 3
      BY <1>1, <1>5, <2>1, <2>6, <2>7, <2>8, PhaseRoles
    <3>2. Opposite(Role(r, p), Role(r, next))
      BY <3>1 DEF Opposite
    <3>3. QED BY <1>1, <2>1, <2>4, <2>5, <2>8, <3>1, <3>2, Crossing DEF next
  <2>9. CASE p.phase \in {"mid1", "last"}
    <3>1. Role(r, p) = 3 /\ Role(r, next) = 0
      BY <1>1, <1>5, <2>1, <2>6, <2>7, <2>9, PhaseRoles
    <3>2. Opposite(Role(r, p), Role(r, next))
      BY <3>1 DEF Opposite
    <3>3. QED BY <1>1, <2>1, <2>4, <2>5, <2>9, <3>1, <3>2, Crossing DEF next
  <2>10. QED BY <1>5, <2>8, <2>9
<1>6. CASE p.phase = "mid2" \/ p.k % 2 = 1
  <2>1. TurnAt(p) /\ ~ForwardAt(p)
    BY <1>2, <1>6 DEF TurnAt
  <2>2. ForwardAt(next) /\ IsPass(r, next) /\ ~TurnAt(next)
    BY <1>2, <2>1 DEF next, IsPass
  <2>3. BackwardChunk(r, BDone(r, p)) # Sync /\ BDone(r, p) = BackwardK(r, p)
    BY <2>1, EarlyTurns
  <2>4. IsPass(r, p) /\ PassChunk(r, p) = BackwardChunk(r, BDone(r, p))
    BY <2>1, <2>3 DEF IsPass, PassChunk
  <2>5. FDone(r, next) = FDone(r, p) /\ PassChunk(r, next) = ForwardChunk(r, FDone(r, p))
    <3>1. PassChunk(r, next) = ForwardChunk(r, FDone(r, next))
      BY <1>1, <2>2, PassRole
    <3>2. QED BY <1>1, <1>4, <2>1, <3>1
  <2>6. /\ Role(r, p) = RoleOfPlace(r, Turned(r, p))
        /\ Role(r, next) = RoleOfPlace(r, FDone(r, next))
    BY <2>1, <2>2 DEF Role
  <2>7. Role(r, next) = RoleOfPlace(r, FDone(r, p))
    BY <2>5, <2>6
  <2>8. CASE p.phase \in {"mid1", "last"}
    <3>1. p.k % 2 = 1 /\ p.k # 2 * UnitRemaining(r) - 1
      BY <1>1, <1>2, <1>6, <2>2, <2>8
    <3>2. Role(r, p) = 0
      BY <2>6, <2>8, <3>1, PhaseRoles
    <3>3. Role(r, next) = 3
      BY <2>7, <2>8, <3>1, ForwardAfterTurn
    <3>4. Opposite(Role(r, p), Role(r, next))
      BY <3>2, <3>3 DEF Opposite
    <3>5. QED BY <1>1, <2>1, <2>2, <2>4, <2>5, <2>8, <3>2, <3>3, <3>4, Crossing DEF next
  <2>9. CASE p.phase \in {"mid2", "mid3"}
    <3>1. Role(r, p) = 3
      BY <1>1, <1>2, <1>6, <2>2, <2>6, <2>9, PhaseRoles
    <3>2. Role(r, next) = 0
      BY <1>6, <2>7, <2>9, ForwardAfterTurn
    <3>4. Opposite(Role(r, p), Role(r, next))
      BY <3>1, <3>2 DEF Opposite
    <3>5. QED BY <1>1, <2>1, <2>2, <2>4, <2>5, <2>9, <3>1, <3>2, <3>4, Crossing DEF next
  <2>10. QED BY <2>8, <2>9
<1>7. QED BY <1>3, <1>5, <1>6

----
(***************************************************************************)
(* What a device hands on after the pass at place p, and what it asks for: *)
(* op is what it posts, ti and tg what it adds at once to the inputs and   *)
(* the output gradients of chunk d.                                        *)
(***************************************************************************)
Posted(op, box, c) ==
  [to |-> op.to, tensor |-> op.tensor, from |-> op.from, box |-> box, chunk |-> c]

\* Nothing more is claimed of the inputs of a forward-only call once it is over.
Over(p) == ForwardOnly /\ p.phase \in {"finish", "done"}

\* The tensor of a pass as it is handed on: None at the end of a pipeline.
Sent(r, p) ==
  LET c == PassChunk(r, p)
  IN  IF (ForwardAt(p) /\ IsLastStage(r, c)) \/ (~ForwardAt(p) /\ IsFirstStage(r, c))
      THEN None ELSE Made(r, p)

Sends(r, p, op) == op.to = Target(r, p) /\ (op.to # Nobody => op.tensor = Made(r, p))

AsksFor(r, p1, op, d, ti, tg) ==
  LET e == PassChunk(r, p1)
  IN  /\ op.from = Source(r, p1)
      /\ op.from # Nobody =>
           /\ op.box = (IF ForwardAt(p1) THEN "in" ELSE "grad") /\ op.chunk = e
           /\ ti = << >> /\ tg = << >>
      /\ op.from = Nobody /\ ForwardAt(p1) =>
           /\ tg = << >>
           /\ \/ ti = << >> /\ IsFirstStage(r, e)
              \/ d = e /\ ti = <<InputOf(r, e, Forwards(r, e, p1))>>
      /\ op.from = Nobody /\ IsPass(r, p1) /\ ~ForwardAt(p1) =>
           /\ ti = << >>
           /\ IF IsLastStage(r, e) THEN tg = << >>
                                   ELSE d = e /\ tg = <<GradOf(r, e, Backwards(r, e, p1))>>
      /\ ~IsPass(r, p1) => tg = << >> /\ (Over(p1) \/ ti = << >>)

Handed(r, p, op, d, ti, tg) == Sends(r, p, op) /\ AsksFor(r, NextPlace(r, p), op, d, ti, tg)

LEMMA MadeSomething ==
  ASSUME NEW r, NEW p
  PROVE  Made(r, p) # None
BY DEF Made, OutputOf, Act, Grad, None

LEMMA RealNeighbours ==
  ASSUME NEW r \in Ranks, NEW c \in Chunks
  PROVE  NextRank(r, c) # Nobody /\ PrevRank(r, c) # Nobody
BY RingInverse, NoneType

LEMMA PostedFields ==
  ASSUME NEW to, NEW t, NEW from, NEW box, NEW c
  PROVE  LET op == Posted(Communicate(to, t, from), box, c)
         IN  /\ op.to = (IF t = None THEN Nobody ELSE to) /\ op.tensor = t /\ op.from = from
             /\ op.box = box /\ op.chunk = c
             /\ AtOnce(Communicate(to, t, from)) = IF from = Nobody THEN <<None>> ELSE << >>
BY DEF Posted, Communicate, AtOnce

\* A pass that is not handed over on the device sends its tensor to its neighbour.
LEMMA PassSends ==
  ASSUME NEW r \in Ranks, NEW p, GoodPlace(r, p), IsPass(r, p), ~(End(r) /\ Role(r, p) = 1),
         NEW from, NEW box, NEW d
  PROVE  LET c == PassChunk(r, p)
             to == IF ForwardAt(p) THEN NextRank(r, c) ELSE PrevRank(r, c)
         IN  Sends(r, p, Posted(Communicate(to, Sent(r, p), from), box, d))
<1> DEFINE c == PassChunk(r, p)
           to == IF ForwardAt(p) THEN NextRank(r, c) ELSE PrevRank(r, c)
           op == Posted(Communicate(to, Sent(r, p), from), box, d)
<1>1. op.to = (IF Sent(r, p) = None THEN Nobody ELSE to) /\ op.tensor = Sent(r, p)
  BY PostedFields
<1>2. Made(r, p) # None
  BY MadeSomething
<1>3. c \in Chunks
  BY PassRole
<1>4. to # Nobody
  BY <1>3, RealNeighbours
<1> HIDE DEF op
<1>5. CASE ForwardAt(p)
  <2>1. /\ Target(r, p) = IF End(r) /\ Role(r, p) \in {1, 3} THEN Nobody ELSE NextRank(r, c)
        /\ IsLastStage(r, c) <=> End(r) /\ Role(r, p) = 3
    BY <1>5, PassSides
  <2>2. Sent(r, p) = IF IsLastStage(r, c) THEN None ELSE Made(r, p)
    BY <1>5 DEF Sent
  <2>3. QED BY <1>1, <1>2, <1>4, <1>5, <2>1, <2>2 DEF Sends, op
<1>6. CASE ~ForwardAt(p)
  <2>1. /\ Target(r, p) = IF End(r) /\ Role(r, p) \in {1, 3} THEN Nobody ELSE PrevRank(r, c)
        /\ IsFirstStage(r, c) <=> End(r) /\ Role(r, p) = 3
    BY <1>6, PassSides
  <2>2. Sent(r, p) = IF IsFirstStage(r, c) THEN None ELSE Made(r, p)
    BY <1>6 DEF Sent
  <2>3. QED BY <1>1, <1>2, <1>4, <1>6, <2>1, <2>2 DEF Sends, op
<1>7. QED BY <1>5, <1>6

\* The exchanges after a forward pass that another forward pass follows.
LEMMA ForwardExchanges ==
  ASSUME NEW r \in Ranks, NEW p, GoodPlace(r, p), ForwardAt(p), ForwardAt(NextPlace(r, p))
  PROVE  LET c == PassChunk(r, p)
             d == PassChunk(r, NextPlace(r, p))
             same == SendForwardRecvForward(r, c, Sent(r, p), ~IsFirstStage(r, c))
             other == SendForwardRecvForwardBd0(r, c, Sent(r, p), ~IsLastStage(r, c))
         IN  /\ c = d => Handed(r, p, Posted(same, "in", d), d, AtOnce(same), << >>)
             /\ c # d /\ HandedOverForward(r, d) =>
                  \A op : op.to = Nobody /\ op.from = Nobody =>
                    Handed(r, p, op, d, <<Sent(r, p)>>, << >>)
             /\ c # d /\ ~HandedOverForward(r, d) =>
                  Handed(r, p, Posted(other, "in", d), d, AtOnce(other), << >>)
<1> DEFINE next == NextPlace(r, p)
           q == Role(r, p)
           s == Role(r, next)
           c == PassChunk(r, p)
           d == PassChunk(r, next)
           same == SendForwardRecvForward(r, c, Sent(r, p), ~IsFirstStage(r, c))
           other == SendForwardRecvForwardBd0(r, c, Sent(r, p), ~IsLastStage(r, c))
<1>1. /\ IsPass(r, p) /\ IsPass(r, next) /\ GoodPlace(r, next)
      /\ (q = s /\ q \in {0, 3} /\ c = d) \/ (Opposite(q, s) /\ c # d)
      /\ End(r) => (q = 1 <=> s = 2)
      /\ End(r) /\ q = 1 => InputOf(r, d, Forwards(r, d, next)) = Made(r, p)
  BY ForwardThenForward
<1>2. /\ c \in Chunks /\ d \in Chunks /\ q \in 0 .. 3 /\ s \in 0 .. 3
  BY <1>1, PassRole
<1>3. /\ Target(r, p) = IF End(r) /\ q \in {1, 3} THEN Nobody ELSE NextRank(r, c)
      /\ IsFirstStage(r, c) <=> End(r) /\ q = 0
      /\ IsLastStage(r, c) <=> End(r) /\ q = 3
  BY <1>1, PassSides
<1>4. /\ Source(r, next) = IF End(r) /\ s \in {0, 2} THEN Nobody ELSE PrevRank(r, d)
      /\ IsFirstStage(r, d) <=> End(r) /\ s = 0
      /\ HandedOverForward(r, d) <=> End(r) /\ s = 2
  BY <1>1, PassSides
<1>5. NextRank(r, c) # Nobody /\ PrevRank(r, c) # Nobody
  BY <1>2, RealNeighbours
<1>6. Sent(r, p) = IF IsLastStage(r, c) THEN None ELSE Made(r, p)
  BY DEF Sent
<1>7. IsFirstStage(r, d) => InputOf(r, d, Forwards(r, d, next)) = None
  BY DEF InputOf
<1>8. \A from, box, x :
         ~(End(r) /\ q = 1) => Sends(r, p, Posted(Communicate(NextRank(r, c), Sent(r, p), from), box, x))
  BY <1>1, PassSends
<1> HIDE DEF next, q, s, c, d
<1>9. ASSUME c = d
      PROVE  Handed(r, p, Posted(same, "in", d), d, AtOnce(same), << >>)
  <2> DEFINE from == IF ~IsFirstStage(r, c) THEN PrevRank(r, c) ELSE Nobody
  <2>1. same = Communicate(NextRank(r, c), Sent(r, p), from)
    BY DEF SendForwardRecvForward
  <2>2. q = s /\ q \in {0, 3}
    BY <1>1, <1>9
  <2>3. Sends(r, p, Posted(same, "in", d))
    BY <1>8, <2>1, <2>2
  <2>4. /\ Posted(same, "in", d).from = from /\ Posted(same, "in", d).box = "in"
        /\ Posted(same, "in", d).chunk = d
        /\ AtOnce(same) = IF from = Nobody THEN <<None>> ELSE << >>
    BY <2>1, PostedFields
  <2>5. from = Source(r, next) /\ (from = Nobody => IsFirstStage(r, d))
    BY <1>3, <1>4, <1>5, <1>9, <2>2
  <2> HIDE DEF from, same
  <2>6. AsksFor(r, next, Posted(same, "in", d), d, AtOnce(same), << >>)
    BY <1>1, <1>7, <2>4, <2>5 DEF AsksFor, d, next
  <2>7. QED BY <2>3, <2>6 DEF Handed, next
<1>10. ASSUME c # d, HandedOverForward(r, d), NEW op, op.to = Nobody, op.from = Nobody
       PROVE  Handed(r, p, op, d, <<Sent(r, p)>>, << >>)
  <2>1. End(r) /\ s = 2 /\ q = 1
    BY <1>1, <1>4, <1>10
  <2>2. Sends(r, p, op)
    BY <1>3, <1>10, <2>1 DEF Sends
  <2>3. Source(r, next) = Nobody /\ Sent(r, p) = InputOf(r, d, Forwards(r, d, next))
    BY <1>1, <1>3, <1>4, <1>6, <2>1
  <2>4. AsksFor(r, next, op, d, <<Sent(r, p)>>, << >>)
    BY <1>1, <1>10, <2>3 DEF AsksFor, d, next
  <2>5. QED BY <2>2, <2>4 DEF Handed, next
<1>11. ASSUME c # d, ~HandedOverForward(r, d)
       PROVE  Handed(r, p, Posted(other, "in", d), d, AtOnce(other), << >>)
  <2> DEFINE from == IF ~IsLastStage(r, c) THEN NextRank(r, c) ELSE Nobody
  <2>1. other = Communicate(NextRank(r, c), Sent(r, p), from)
    BY DEF SendForwardRecvForwardBd0
  <2>2. Opposite(q, s) /\ ~(End(r) /\ s = 2) /\ ~(End(r) /\ q = 1)
    BY <1>1, <1>4, <1>11
  <2>3. Sends(r, p, Posted(other, "in", d))
    BY <1>8, <2>1, <2>2
  <2>4. /\ Posted(other, "in", d).from = from /\ Posted(other, "in", d).box = "in"
        /\ Posted(other, "in", d).chunk = d
        /\ AtOnce(other) = IF from = Nobody THEN <<None>> ELSE << >>
    BY <2>1, PostedFields
  <2>5. Source(r, next) = Target(r, p)
    BY <1>1, <2>2, Crossing DEF q, s, next
  <2>6. from = Source(r, next)
    BY <1>3, <1>2, <2>2, <2>5
  <2>7. from = Nobody => IsFirstStage(r, d)
    BY <1>2, <1>3, <1>4, <1>5, <2>2 DEF Opposite
  <2> HIDE DEF from, other
  <2>8. AsksFor(r, next, Posted(other, "in", d), d, AtOnce(other), << >>)
    BY <1>1, <1>7, <2>4, <2>6, <2>7 DEF AsksFor, d, next
  <2>9. QED BY <2>3, <2>8 DEF Handed, next
<1>12. QED BY <1>9, <1>10, <1>11 DEF c, d, next

\* The exchanges after a backward pass that another backward pass follows.
LEMMA BackwardExchanges ==
  ASSUME NEW r \in Ranks, NEW p, GoodPlace(r, p), IsPass(r, p), TurnAt(p),
         TurnAt(NextPlace(r, p)), IsPass(r, NextPlace(r, p)),
         End(r) => Role(r, NextPlace(r, p)) # 0
  PROVE  LET c == PassChunk(r, p)
             d == PassChunk(r, NextPlace(r, p))
             same == SendBackwardRecvBackward(r, c, Sent(r, p), TRUE)
             other == SendBackwardRecvBackwardBd(r, c, Sent(r, p), ~IsFirstStage(r, c))
             final == SendBackwardRecvBackwardBd(r, c, Sent(r, p), TRUE)
         IN  /\ c = d => Handed(r, p, Posted(same, "grad", d), d, << >>, AtOnce(same))
             /\ c # d /\ HandedOverBackward(r, d) =>
                  \A op : op.to = Nobody /\ op.from = Nobody =>
                    Handed(r, p, op, d, << >>, <<Sent(r, p)>>)
             /\ c # d /\ ~HandedOverBackward(r, d) =>
                  Handed(r, p, Posted(other, "grad", d), d, << >>, AtOnce(other))
             /\ c # d /\ (End(r) => Role(r, p) = 0) =>
                  Handed(r, p, Posted(final, "grad", d), d, << >>, << >>)
<1> DEFINE next == NextPlace(r, p)
           q == Role(r, p)
           s == Role(r, next)
           c == PassChunk(r, p)
           d == PassChunk(r, next)
           same == SendBackwardRecvBackward(r, c, Sent(r, p), TRUE)
           other == SendBackwardRecvBackwardBd(r, c, Sent(r, p), ~IsFirstStage(r, c))
           final == SendBackwardRecvBackwardBd(r, c, Sent(r, p), TRUE)
<1>1. /\ GoodPlace(r, next) /\ ~ForwardAt(p) /\ ~ForwardAt(next) /\ IsPass(r, next)
      /\ (q = s /\ q \in {0, 3} /\ c = d) \/ (Opposite(q, s) /\ c # d)
      /\ End(r) => (q = 1 <=> s = 2)
      /\ End(r) /\ q = 1 => GradOf(r, d, Backwards(r, d, next)) = Made(r, p)
  BY BackwardThenBackward
<1>2. /\ c \in Chunks /\ d \in Chunks /\ q \in 0 .. 3 /\ s \in 0 .. 3
  BY <1>1, PassRole
<1>3. /\ Target(r, p) = IF End(r) /\ q \in {1, 3} THEN Nobody ELSE PrevRank(r, c)
      /\ IsFirstStage(r, c) <=> End(r) /\ q = 3
  BY <1>1, PassSides
<1>4. /\ Source(r, next) = IF End(r) /\ s \in {0, 2} THEN Nobody ELSE NextRank(r, d)
      /\ IsLastStage(r, d) <=> End(r) /\ s = 0
      /\ HandedOverBackward(r, d) <=> End(r) /\ s = 2
  BY <1>1, PassSides
<1>5. NextRank(r, c) # Nobody /\ PrevRank(r, c) # Nobody
  BY <1>2, RealNeighbours
<1>6. Sent(r, p) = IF IsFirstStage(r, c) THEN None ELSE Made(r, p)
  BY <1>1 DEF Sent
<1>7. \A from, box, x :
         ~(End(r) /\ q = 1) => Sends(r, p, Posted(Communicate(PrevRank(r, c), Sent(r, p), from), box, x))
  BY <1>1, PassSends
<1>8. Opposite(q, s) => Source(r, next) = Target(r, p)
  BY <1>1, Crossing
<1>9. End(r) => s # 0
  OBVIOUS
<1>10. ~IsLastStage(r, d)
  BY <1>4, <1>9
<1> HIDE DEF next, q, s, c, d
<1>11. ASSUME c = d
       PROVE  Handed(r, p, Posted(same, "grad", d), d, << >>, AtOnce(same))
  <2>1. same = Communicate(PrevRank(r, c), Sent(r, p), NextRank(r, c))
    BY DEF SendBackwardRecvBackward
  <2> HIDE DEF same
  <2>2. q = s /\ q \in {0, 3}
    BY <1>1, <1>11
  <2>3. Sends(r, p, Posted(same, "grad", d))
    BY <1>7, <2>1, <2>2
  <2>4. /\ Posted(same, "grad", d).from = NextRank(r, c) /\ Posted(same, "grad", d).box = "grad"
        /\ Posted(same, "grad", d).chunk = d
        /\ AtOnce(same) = << >>
    BY <1>5, <2>1, PostedFields
  <2>5. NextRank(r, c) = Source(r, next)
    BY <1>4, <1>9, <1>11, <2>2
  <2>6. AsksFor(r, next, Posted(same, "grad", d), d, << >>, AtOnce(same))
    BY <1>1, <1>5, <2>4, <2>5 DEF AsksFor, d, next
  <2>7. QED BY <2>3, <2>6 DEF Handed, next
<1>12. ASSUME c # d, HandedOverBackward(r, d), NEW op, op.to = Nobody, op.from = Nobody
       PROVE  Handed(r, p, op, d, << >>, <<Sent(r, p)>>)
  <2>1. End(r) /\ s = 2 /\ q = 1
    BY <1>1, <1>4, <1>12
  <2>2. Sends(r, p, op)
    BY <1>3, <1>12, <2>1 DEF Sends
  <2>3. Source(r, next) = Nobody /\ Sent(r, p) = GradOf(r, d, Backwards(r, d, next))
    BY <1>1, <1>3, <1>4, <1>6, <2>1
  <2>4. AsksFor(r, next, op, d, << >>, <<Sent(r, p)>>)
    BY <1>1, <1>10, <1>12, <2>3 DEF AsksFor, d, next
  <2>5. QED BY <2>2, <2>4 DEF Handed, next
<1>13. ASSUME c # d, ~HandedOverBackward(r, d)
       PROVE  Handed(r, p, Posted(other, "grad", d), d, << >>, AtOnce(other))
  <2>1. Opposite(q, s) /\ ~(End(r) /\ s = 2) /\ ~(End(r) /\ q = 1)
    BY <1>1, <1>4, <1>13
  <2>2. ~IsFirstStage(r, c)
    BY <1>2, <1>3, <1>9, <2>1 DEF Opposite
  <2>3. other = Communicate(PrevRank(r, c), Sent(r, p), PrevRank(r, c))
    BY <2>2 DEF SendBackwardRecvBackwardBd
  <2>4. Sends(r, p, Posted(other, "grad", d))
    BY <1>7, <2>1, <2>3
  <2>5. /\ Posted(other, "grad", d).from = PrevRank(r, c) /\ Posted(other, "grad", d).box = "grad"
        /\ Posted(other, "grad", d).chunk = d
        /\ AtOnce(other) = << >>
    BY <1>5, <2>3, PostedFields
  <2>6. PrevRank(r, c) = Source(r, next)
    BY <1>2, <1>3, <1>8, <2>1, <2>2
  <2> HIDE DEF other
  <2>7. AsksFor(r, next, Posted(other, "grad", d), d, << >>, AtOnce(other))
    BY <1>1, <1>5, <2>5, <2>6 DEF AsksFor, d, next
  <2>8. QED BY <2>4, <2>7 DEF Handed, next
<1>14. ASSUME c # d, End(r) => q = 0
       PROVE  Handed(r, p, Posted(final, "grad", d), d, << >>, << >>)
  <2>1. Opposite(q, s) /\ ~(End(r) /\ q \in {1, 3})
    BY <1>1, <1>14
  <2>2. final = Communicate(PrevRank(r, c), Sent(r, p), PrevRank(r, c))
    BY DEF SendBackwardRecvBackwardBd
  <2> HIDE DEF final
  <2>3. Sends(r, p, Posted(final, "grad", d))
    BY <1>7, <2>1, <2>2
  <2>4. /\ Posted(final, "grad", d).from = PrevRank(r, c) /\ Posted(final, "grad", d).box = "grad"
        /\ Posted(final, "grad", d).chunk = d
    BY <2>2, PostedFields
  <2>5. PrevRank(r, c) = Source(r, next)
    BY <1>3, <1>8, <2>1
  <2>6. AsksFor(r, next, Posted(final, "grad", d), d, << >>, << >>)
    BY <1>1, <1>5, <2>4, <2>5 DEF AsksFor, d, next
  <2>7. QED BY <2>3, <2>6 DEF Handed, next
<1>15. QED BY <1>11, <1>12, <1>13, <1>14 DEF q, c, d, next

\* The exchanges where the middle part goes from a forward to a backward pass or back.
LEMMA TurnExchanges ==
  ASSUME NEW r \in Ranks, NEW p, GoodPlace(r, p), p.phase \in {"mid1", "mid2", "mid3", "last"},
         ForwardAt(NextPlace(r, p)) <=> ~ForwardAt(p)
  PROVE  LET c == PassChunk(r, p)
             d == PassChunk(r, NextPlace(r, p))
             down == SendForwardRecvBackward(r, c, Sent(r, p))
             up == SendBackwardRecvForward(r, c, Sent(r, p))
         IN  /\ ForwardAt(p) /\ ~IsLastStage(r, c) =>
                  Handed(r, p, Posted(down, "grad", d), d, << >>, << >>)
             /\ ~ForwardAt(p) /\ ~IsFirstStage(r, c) =>
                  Handed(r, p, Posted(up, "in", d), d, << >>, << >>) /\ AtOnce(up) = << >>
             /\ (IF ForwardAt(p) THEN IsLastStage(r, c) ELSE IsFirstStage(r, c)) =>
                  \A op : op.to = Nobody /\ op.from = Nobody => Handed(r, p, op, d, << >>, << >>)
             /\ p.phase \in {"mid1", "last"} /\ ~ForwardAt(p) => ~IsFirstStage(r, c)
<1> DEFINE next == NextPlace(r, p)
           q == Role(r, p)
           s == Role(r, next)
           c == PassChunk(r, p)
           d == PassChunk(r, next)
           down == SendForwardRecvBackward(r, c, Sent(r, p))
           up == SendBackwardRecvForward(r, c, Sent(r, p))
<1>1. /\ IsPass(r, p) /\ IsPass(r, next) /\ GoodPlace(r, next)
      /\ Source(r, next) = Target(r, p)
      /\ q \in {0, 3} /\ s = 3 - q
      /\ p.phase \in {"mid1", "last"} => q = IF ForwardAt(p) THEN 3 ELSE 0
  BY TurnOfPasses
<1>2. c \in Chunks /\ d \in Chunks
  BY <1>1, PassRole
<1>3. IF ForwardAt(p)
      THEN /\ Target(r, p) = IF End(r) /\ q \in {1, 3} THEN Nobody ELSE NextRank(r, c)
           /\ IsLastStage(r, c) <=> End(r) /\ q = 3
      ELSE /\ Target(r, p) = IF End(r) /\ q \in {1, 3} THEN Nobody ELSE PrevRank(r, c)
           /\ IsFirstStage(r, c) <=> End(r) /\ q = 3
  BY <1>1, PassSides
<1>4. IF ForwardAt(next) THEN IsFirstStage(r, d) <=> End(r) /\ s = 0
                         ELSE IsLastStage(r, d) <=> End(r) /\ s = 0
  BY <1>1, PassSides
<1>5. NextRank(r, c) # Nobody /\ PrevRank(r, c) # Nobody
  BY <1>2, RealNeighbours
<1>6. \A from, box, x :
         Sends(r, p, Posted(Communicate(IF ForwardAt(p) THEN NextRank(r, c) ELSE PrevRank(r, c),
                                        Sent(r, p), from), box, x))
  BY <1>1, PassSends
<1>7. ForwardAt(next) <=> ~ForwardAt(p)
  OBVIOUS
<1> HIDE DEF next, q, s, c, d
<1>8. ASSUME ForwardAt(p), ~IsLastStage(r, c)
      PROVE  Handed(r, p, Posted(down, "grad", d), d, << >>, << >>)
  <2>1. down = Communicate(NextRank(r, c), Sent(r, p), NextRank(r, c))
    BY <1>8 DEF SendForwardRecvBackward
  <2>2. Sends(r, p, Posted(down, "grad", d))
    BY <1>6, <1>8, <2>1
  <2>3. /\ Posted(down, "grad", d).from = NextRank(r, c) /\ Posted(down, "grad", d).box = "grad"
        /\ Posted(down, "grad", d).chunk = d
    BY <2>1, PostedFields
  <2>4. NextRank(r, c) = Source(r, next)
    BY <1>1, <1>3, <1>8
  <2> HIDE DEF down
  <2>5. AsksFor(r, next, Posted(down, "grad", d), d, << >>, << >>)
    BY <1>1, <1>5, <1>7, <1>8, <2>3, <2>4 DEF AsksFor, d, next
  <2>6. QED BY <2>2, <2>5 DEF Handed, next
<1>9. ASSUME ~ForwardAt(p), ~IsFirstStage(r, c)
      PROVE  Handed(r, p, Posted(up, "in", d), d, << >>, << >>) /\ AtOnce(up) = << >>
  <2>1. up = Communicate(PrevRank(r, c), Sent(r, p), PrevRank(r, c))
    BY <1>9 DEF SendBackwardRecvForward
  <2>2. Sends(r, p, Posted(up, "in", d))
    BY <1>6, <1>9, <2>1
  <2>3. /\ Posted(up, "in", d).from = PrevRank(r, c) /\ Posted(up, "in", d).box = "in"
        /\ Posted(up, "in", d).chunk = d /\ AtOnce(up) = << >>
    BY <1>5, <2>1, PostedFields
  <2>4. PrevRank(r, c) = Source(r, next)
    BY <1>1, <1>3, <1>9
  <2> HIDE DEF up
  <2>5. AsksFor(r, next, Posted(up, "in", d), d, << >>, << >>)
    BY <1>1, <1>5, <1>7, <1>9, <2>3, <2>4 DEF AsksFor, d, next
  <2>6. QED BY <2>2, <2>3, <2>5 DEF Handed, next
<1>10. ASSUME IF ForwardAt(p) THEN IsLastStage(r, c) ELSE IsFirstStage(r, c),
              NEW op, op.to = Nobody, op.from = Nobody
       PROVE  Handed(r, p, op, d, << >>, << >>)
  <2>1. End(r) /\ q = 3 /\ s = 0 /\ Target(r, p) = Nobody /\ Source(r, next) = Nobody
    BY <1>1, <1>3, <1>10
  <2>2. Sends(r, p, op)
    BY <1>10, <2>1 DEF Sends
  <2>3. AsksFor(r, next, op, d, << >>, << >>)
    BY <1>1, <1>4, <1>7, <1>10, <2>1 DEF AsksFor, d, next
  <2>4. QED BY <2>2, <2>3 DEF Handed, next
<1>11. p.phase \in {"mid1", "last"} /\ ~ForwardAt(p) => ~IsFirstStage(r, c)
  BY <1>1, <1>3
<1>12. QED BY <1>8, <1>9, <1>10, <1>11 DEF c, d, next

----
(***************************************************************************)
(* What each loop body hands on.                                           *)
(***************************************************************************)
\* The roles at the end of the two orders.
LEMMA LastPlaces ==
  ASSUME NEW r \in Ranks
  PROVE  /\ RoleOfPlace(r, 2 * N - 1) = 3
         /\ ~IsMiddle(r) => RoleOfPlace(r, 2 * N - 2) = 3
         /\ IsMiddle(r) => Opposite(RoleOfPlace(r, 2 * N - 2), RoleOfPlace(r, 2 * N - 1))
<1> DEFINE n == NumInitial(r)
           w == NumWarmupMicrobatches(r)
           l == NLoop
<1>1. P \in Nat /\ Half \in Nat /\ Half >= 2 /\ P = 2 * Half
  BY HalfFacts
<1>2. l \in Nat /\ 2 * N = l * (2 * P) + 2 * P /\ l * (2 * P) \in Nat
  BY <1>1, UnitFacts
<1>3. w = 4 * Half - n /\ n \in 1 .. Half
  BY Sizes
<1>4. IsMiddle(r) <=> n = 1
  <2>1. r \in Int /\ 0 <= r /\ r < P
    BY RankArithmetic
  <2>2. QED BY <1>1, <2>1 DEF IsMiddle, NumInitial
<1>5. ASSUME NEW x \in 0 .. 2 * P - 1, x >= w
      PROVE  RoleOfPlace(r, l * (2 * P) + x) = 3
  BY <1>2, <1>5, RoleIn
<1>6. ASSUME NEW x \in 0 .. 2 * P - 2, x + 1 >= n, x < w
      PROVE  Opposite(RoleOfPlace(r, l * (2 * P) + x), RoleOfPlace(r, l * (2 * P) + x + 1))
  BY <1>2, <1>6, MiddlePlaces
<1> HIDE DEF n, w, l
<1>7. /\ 2 * N - 1 = l * (2 * P) + (2 * P - 1) /\ 2 * P - 1 \in 0 .. 2 * P - 1 /\ 2 * P - 1 >= w
      /\ 2 * N - 2 = l * (2 * P) + (2 * P - 2) /\ 2 * P - 2 \in 0 .. 2 * P - 2 /\ (2 * P - 2) + 1 >= n
      /\ 2 * N - 1 = l * (2 * P) + (2 * P - 2) + 1
      /\ 2 * P - 2 \in 0 .. 2 * P - 1
      /\ n = 1 => 2 * P - 2 < w
      /\ n # 1 => 2 * P - 2 >= w
  BY <1>1, <1>2, <1>3
<1>8. RoleOfPlace(r, 2 * N - 1) = 3
  BY <1>5, <1>7
<1>9. n # 1 => RoleOfPlace(r, 2 * N - 2) = 3
  BY <1>5, <1>7
<1>10. n = 1 => Opposite(RoleOfPlace(r, 2 * N - 2), RoleOfPlace(r, 2 * N - 1))
  BY <1>6, <1>7
<1>11. QED BY <1>4, <1>8, <1>9, <1>10

LEMMA CooldownRoles ==
  ASSUME NEW r \in Ranks, NEW p, GoodPlace(r, p), p.phase = "cooldown"
  PROVE  /\ BDone(r, p) = BackwardK(r, p) /\ BDone(r, p) \in 0 .. 2 * N + 1
         /\ ~ForwardAt(p) /\ TurnAt(p)
         /\ IsPass(r, p) <=> BDone(r, p) \notin {FirstMarker(r), 2 * N + 1}
         /\ IsPass(r, p) => /\ Role(r, p) = RoleOfPlace(r, Turned(r, p))
                            /\ Turned(r, p) \in 0 .. 2 * N - 1
                            /\ BDone(r, p) <= 2 * N - 2 => Turned(r, p) = BDone(r, p)
                            /\ BDone(r, p) >= 2 * N - 1 => Turned(r, p) = 2 * N - 1
                            /\ End(r) => Role(r, p) # 0
<1>1. TurnAt(p) /\ ~ForwardAt(p)
  BY DEF TurnAt, ForwardAt
<1>2. BDone(r, p) = BackwardK(r, p) /\ BDone(r, p) \in 0 .. 2 * N + 1
  BY <1>1, PlaceDone, UnitFacts
<1>3. IsPass(r, p) <=> BDone(r, p) \notin {FirstMarker(r), 2 * N + 1}
  <2>1. \A c \in Chunks : c # Sync
    BY DEF Chunks, Sync
  <2>2. QED BY <1>1, <1>2, <2>1, MarkerPlaces DEF IsPass
<1>4. ASSUME IsPass(r, p)
      PROVE  /\ Role(r, p) = RoleOfPlace(r, Turned(r, p))
             /\ Turned(r, p) \in 0 .. 2 * N - 1
             /\ BDone(r, p) <= 2 * N - 2 => Turned(r, p) = BDone(r, p)
             /\ BDone(r, p) >= 2 * N - 1 => Turned(r, p) = 2 * N - 1
             /\ End(r) => Role(r, p) # 0
  <2> DEFINE t == Turned(r, p)
             l == p.loop
             u == UnitRemaining(r)
  <2>1. Role(r, p) = RoleOfPlace(r, t)
    BY <1>1 DEF Role
  <2>2. N \in Nat /\ FirstMarker(r) \in {2 * N - 1, 2 * N}
    BY UnitFacts DEF FirstMarker
  <2>3. /\ BDone(r, p) <= 2 * N - 2 => t = BDone(r, p)
        /\ BDone(r, p) >= 2 * N - 1 => t = 2 * N - 1
    BY <1>2, <1>3, <1>4, <2>2 DEF Turned, BackwardPasses
  <2>4. t \in 0 .. 2 * N - 1
    BY <1>1, <1>4, PassRole
  <2>5. p.k \in Nat /\ l = NLoop
    BY DEF GoodPlace, PC
  <2>6. BDone(r, p) = l * 2 * P + u + p.k
    BY DEF BDone
  <2>7. P \in Nat /\ l \in Nat /\ 2 * N = l * (2 * P) + 2 * P /\ l * 2 * P = l * (2 * P) /\ l * (2 * P) \in Nat
    BY <2>5, UnitFacts, HalfFacts
  <2>8. u = NumInitial(r) /\ u \in 1 .. Half /\ P = 2 * Half /\ Half \in Nat
    BY Sizes
  <2>9. PICK x \in 0 .. 2 * P - 1 : t = l * (2 * P) + x /\ x >= u
    <3> HIDE DEF t, l, u
    <3>1. t - l * (2 * P) \in 0 .. 2 * P - 1 /\ t - l * (2 * P) >= u /\ t = l * (2 * P) + (t - l * (2 * P))
      BY <1>2, <2>3, <2>4, <2>5, <2>6, <2>7, <2>8
    <3>2. QED BY <3>1
  <2>10. End(r) => RoleOfPlace(r, l * (2 * P) + x) # 0
    BY <2>7, <2>8, <2>9, RoleIn
  <2>11. QED BY <2>1, <2>3, <2>4, <2>9, <2>10
<1>5. QED BY <1>1, <1>2, <1>3, <1>4

LEMMA InitialRecvHands ==
  ASSUME NEW r \in Ranks, NEW p, GoodPlace(r, p), p.phase = "recv"
  PROVE  LET v  == IF r < Half THEN 0 ELSE 1
             op == RecvForward(r, v)
         IN  v \in Chunks /\ Handed(r, p, Posted(op, "in", v), v, AtOnce(op), << >>)
<1> DEFINE next == NextPlace(r, p)
           v  == IF r < Half THEN 0 ELSE 1
           op == RecvForward(r, v)
           d == PassChunk(r, next)
           from == IF IsFirstStage(r, v) THEN Nobody ELSE PrevRank(r, v)
<1>1. GoodPlace(r, next) /\ ForwardAt(next) /\ FDone(r, next) = 0 /\ IsPass(r, next)
  BY ComingNext DEF IsPass
<1>2. ~IsPass(r, p)
  BY DEF IsPass, ForwardAt, TurnAt
<1>3. v \in Chunks /\ v = IHalf(r)
  <2>1. r \in Int /\ 0 <= r /\ r < P /\ Half \in Nat /\ Half >= 2 /\ P = 2 * Half
    BY RankArithmetic, HalfFacts
  <2>2. QED BY <2>1 DEF Chunks, IHalf
<1>4. Role(r, next) = 0
  <2>1. 0 \in 0 .. 2 * P - 1 /\ 0 * (2 * P) + 0 = 0 /\ 0 < NumInitial(r)
    BY BlockSizes
  <2>2. RoleOfPlace(r, 0 * (2 * P) + 0) = 0
    BY <2>1, RoleIn, 0 \in Nat
  <2>3. QED BY <1>1, <2>1, <2>2 DEF Role
<1>5. d = v
  <2>1. d \in Chunks /\ ForwardRole(r, d) = 0
    BY <1>1, <1>4, PassRole
  <2>2. ForwardRole(r, v) = 0
    BY <1>3 DEF ForwardRole
  <2>3. QED BY <1>3, <2>1, <2>2, RolesDiffer
<1>6. /\ Source(r, next) = IF End(r) THEN Nobody ELSE PrevRank(r, d)
      /\ IsFirstStage(r, d) <=> End(r)
  BY <1>1, <1>4, PassSides
<1>7. PrevRank(r, v) # Nobody
  BY <1>3, RealNeighbours
<1>8. op = Communicate(Nobody, None, from)
  BY DEF RecvForward, Silence
<1> HIDE DEF next, v, op, from, d
<1>9. /\ Posted(op, "in", v).to = Nobody
      /\ Posted(op, "in", v).from = from /\ Posted(op, "in", v).box = "in"
      /\ Posted(op, "in", v).chunk = v /\ AtOnce(op) = IF from = Nobody THEN <<None>> ELSE << >>
  BY <1>8, PostedFields
<1>10. Sends(r, p, Posted(op, "in", v))
  BY <1>2, <1>9 DEF Sends, Target
<1>11. from = Source(r, next) /\ (from = Nobody => IsFirstStage(r, v))
  BY <1>5, <1>6, <1>7 DEF from
<1>12. AsksFor(r, next, Posted(op, "in", v), v, AtOnce(op), << >>)
  BY <1>1, <1>5, <1>9, <1>11 DEF AsksFor, InputOf, d
<1>13. QED BY <1>3, <1>10, <1>12 DEF Handed, next, v, op

LEMMA WarmupHands ==
  ASSUME NEW r \in Ranks, NEW p, GoodPlace(r, p), p.phase = "warmup"
  PROVE  LET k == ForwardK(r, p)
             c == ForwardChunk(r, k)
             isLast == k = TotalNumMicrobatches - 1
             next == IF isLast THEN 1 ELSE ForwardChunk(r, k + 1)
             op == IF c = next
                   THEN SendForwardRecvForward(r, c, Sent(r, p),
                          ~IsFirstStage(r, c) /\ ~(isLast /\ ForwardOnly))
                   ELSE SendForwardRecvForwardBd0(r, c, Sent(r, p),
                          ~IsLastStage(r, c) /\ ~(isLast /\ ForwardOnly))
         IN  /\ c = PassChunk(r, p) /\ next \in Chunks
             /\ IF c # next /\ HandedOverForward(r, next)
                THEN \A idle : idle.to = Nobody /\ idle.from = Nobody =>
                       Handed(r, p, idle, next, <<Sent(r, p)>>, << >>)
                ELSE Handed(r, p, Posted(op, "in", next), next, AtOnce(op), << >>)
<1> DEFINE k == ForwardK(r, p)
           c == ForwardChunk(r, k)
           isLast == k = TotalNumMicrobatches - 1
           next == IF isLast THEN 1 ELSE ForwardChunk(r, k + 1)
           op == IF c = next
                 THEN SendForwardRecvForward(r, c, Sent(r, p),
                        ~IsFirstStage(r, c) /\ ~(isLast /\ ForwardOnly))
                 ELSE SendForwardRecvForwardBd0(r, c, Sent(r, p),
                        ~IsLastStage(r, c) /\ ~(isLast /\ ForwardOnly))
           p1 == NextPlace(r, p)
<1>1. ForwardAt(p) /\ IsPass(r, p)
  BY DEF ForwardAt, IsPass
<1>2. k = FDone(r, p) /\ k \in 0 .. 2 * N - 1 /\ c = PassChunk(r, p) /\ c \in Chunks
  BY <1>1, PlaceDone, PassRole
<1>3. N \in Nat /\ TotalNumMicrobatches = 2 * N
  BY UnitFacts DEF TotalNumMicrobatches
<1>4. CASE ForwardOnly /\ k = 2 * N - 1
  <2>1. p1.phase = "finish"
    BY <1>2, <1>4, ComingNext
  <2>2. Over(p1) /\ ~IsPass(r, p1)
    BY <1>4, <2>1 DEF Over, IsPass, ForwardAt, TurnAt
  <2>3. Source(r, p1) = Nobody /\ ~ForwardAt(p1)
    BY <2>2 DEF Source, IsPass
  <2>4. isLast /\ next = 1 /\ next \in Chunks
    BY <1>3, <1>4 DEF Chunks
  <2>5. ~HandedOverForward(r, next)
    BY <2>4 DEF HandedOverForward
  <2>6. op = Communicate(NextRank(r, c), Sent(r, p), Nobody)
    BY <1>4, <2>4 DEF SendForwardRecvForward, SendForwardRecvForwardBd0
  <2>7. Role(r, p) = 3
    BY <1>1, <1>2, <1>4, LastPlaces DEF Role
  <2>8. Sends(r, p, Posted(op, "in", next))
    BY <1>1, <1>2, <2>6, <2>7, PassSends
  <2>9. Posted(op, "in", next).from = Nobody
    BY <2>6, PostedFields
  <2> HIDE DEF op, next, c, k, isLast
  <2>10. AsksFor(r, p1, Posted(op, "in", next), next, AtOnce(op), << >>)
    BY <2>2, <2>3, <2>9 DEF AsksFor
  <2>11. Handed(r, p, Posted(op, "in", next), next, AtOnce(op), << >>)
    BY <2>8, <2>10 DEF Handed
  <2>12. QED BY <1>2, <2>4, <2>5, <2>11 DEF op, next, c, k, isLast
<1>5. CASE ~(ForwardOnly /\ k = 2 * N - 1)
  <2>1. ForwardAt(p1) /\ GoodPlace(r, p1) /\ FDone(r, p1) = k + 1
    BY <1>1, <1>2, <1>5, ComingNext
  <2>2. FDone(r, p1) < 2 * N
    BY <2>1, PlaceDone
  <2>3. ~isLast /\ next = ForwardChunk(r, k + 1)
    BY <1>2, <1>3, <2>1, <2>2
  <2>4. next = PassChunk(r, p1) /\ next \in Chunks
    BY <1>1, <1>2, <2>1, <2>3, PassRole DEF IsPass
  <2> DEFINE same == SendForwardRecvForward(r, c, Sent(r, p), ~IsFirstStage(r, c))
             other == SendForwardRecvForwardBd0(r, c, Sent(r, p), ~IsLastStage(r, c))
  <2>5. op = IF c = next THEN same ELSE other
    BY <2>3 DEF SendForwardRecvForward, SendForwardRecvForwardBd0
  <2>6. /\ c = next => Handed(r, p, Posted(same, "in", next), next, AtOnce(same), << >>)
        /\ c # next /\ HandedOverForward(r, next) =>
             \A idle : idle.to = Nobody /\ idle.from = Nobody =>
               Handed(r, p, idle, next, <<Sent(r, p)>>, << >>)
        /\ c # next /\ ~HandedOverForward(r, next) =>
             Handed(r, p, Posted(other, "in", next), next, AtOnce(other), << >>)
    <3>1. c = PassChunk(r, p) /\ next = PassChunk(r, p1)
      BY <1>2, <2>4
    <3> HIDE DEF c, next
    <3>2. QED BY <1>1, <2>1, <3>1, ForwardExchanges
  <2> HIDE DEF op, next, c, k, isLast, same, other
  <2>7. IF c # next /\ HandedOverForward(r, next)
        THEN \A idle : idle.to = Nobody /\ idle.from = Nobody =>
               Handed(r, p, idle, next, <<Sent(r, p)>>, << >>)
        ELSE Handed(r, p, Posted(op, "in", next), next, AtOnce(op), << >>)
    BY <2>5, <2>6
  <2>8. QED BY <1>2, <2>4, <2>7 DEF op, next, c, k, isLast
<1>6. QED BY <1>4, <1>5

LEMMA WarmupAgainHands ==
  ASSUME NEW r \in Ranks, NEW p, GoodPlace(r, p), p.phase = "mid4"
  PROVE  LET k == ForwardK(r, p)
             c == ForwardChunk(r, k)
             next == ForwardChunk(r, k + 1)
             op == SendForwardRecvForwardBd0(r, c, Sent(r, p), ~IsLastStage(r, c))
         IN  /\ c = PassChunk(r, p) /\ next \in Chunks
             /\ IF HandedOverForward(r, next)
                THEN \A idle : idle.to = Nobody /\ idle.from = Nobody =>
                       Handed(r, p, idle, next, <<Sent(r, p)>>, << >>)
                ELSE Handed(r, p, Posted(op, "in", next), next, AtOnce(op), << >>)
<1> DEFINE k == ForwardK(r, p)
           c == ForwardChunk(r, k)
           next == ForwardChunk(r, k + 1)
           op == SendForwardRecvForwardBd0(r, c, Sent(r, p), ~IsLastStage(r, c))
           p1 == NextPlace(r, p)
<1>1. ForwardAt(p) /\ IsPass(r, p)
  BY DEF ForwardAt, IsPass
<1>2. k = FDone(r, p) /\ c = PassChunk(r, p)
  BY <1>1, PlaceDone, PassRole
<1>3. ForwardAt(p1) /\ GoodPlace(r, p1) /\ IsPass(r, p1)
  BY ComingNext DEF IsPass
<1>4. next = PassChunk(r, p1) /\ c # next
  <2>1. ~Opposite(Role(r, p), Role(r, p))
    BY <1>1, PassRole DEF Opposite
  <2>2. /\ Opposite(Role(r, p), Role(r, p1)) /\ PassChunk(r, p1) = ForwardChunk(r, FDone(r, p) + 1)
        /\ (Role(r, p) = Role(r, p1)) \/ PassChunk(r, p) # PassChunk(r, p1)
    BY <1>1, <1>3, ForwardThenForward
  <2>3. Role(r, p) # Role(r, p1)
    BY <2>1, <2>2
  <2>4. QED BY <1>2, <2>2, <2>3
<1>5. next \in Chunks
  BY <1>3, <1>4, PassRole
<1> HIDE DEF k, c, next
<1>6. /\ c # next /\ HandedOverForward(r, next) =>
           \A idle : idle.to = Nobody /\ idle.from = Nobody =>
             Handed(r, p, idle, next, <<Sent(r, p)>>, << >>)
      /\ c # next /\ ~HandedOverForward(r, next) =>
           Handed(r, p, Posted(op, "in", next), next, AtOnce(op), << >>)
  BY <1>1, <1>2, <1>3, <1>4, ForwardExchanges
<1> HIDE DEF op
<1>7. QED BY <1>2, <1>4, <1>5, <1>6 DEF op, k, c, next

LEMMA ForwardPassHands ==
  ASSUME NEW r \in Ranks, NEW p, GoodPlace(r, p), p.phase \in {"mid1", "mid3", "last"}, p.k % 2 = 0
  PROVE  LET c == ForwardChunk(r, ForwardK(r, p))
             next == BackwardChunk(r, BackwardK(r, p))
             op == SendForwardRecvBackward(r, c, Sent(r, p))
         IN  /\ c = PassChunk(r, p) /\ next \in Chunks
             /\ IF IsLastStage(r, c)
                THEN \A idle : idle.to = Nobody /\ idle.from = Nobody =>
                       Handed(r, p, idle, c, << >>, << >>)
                ELSE Handed(r, p, Posted(op, "grad", next), c, << >>, << >>)
<1> DEFINE c == ForwardChunk(r, ForwardK(r, p))
           next == BackwardChunk(r, BackwardK(r, p))
           op == SendForwardRecvBackward(r, c, Sent(r, p))
           p1 == NextPlace(r, p)
<1>1. ForwardAt(p) /\ IsPass(r, p)
  BY DEF ForwardAt, IsPass
<1>2. ForwardK(r, p) = FDone(r, p) /\ c = PassChunk(r, p) /\ c \in Chunks
  BY <1>1, PlaceDone, PassRole
<1>3. TurnAt(p1)
  BY ComingNext
<1>4. ~ForwardAt(p1)
  BY <1>3 DEF ForwardAt, TurnAt
<1>5. BackwardK(r, p) = BDone(r, p)
  BY DEF BackwardK, BDone
<1>6. IsPass(r, p1) /\ GoodPlace(r, p1) /\ PassChunk(r, p1) = BackwardChunk(r, BDone(r, p))
  BY <1>1, <1>4, TurnOfPasses
<1>7. next = PassChunk(r, p1) /\ next \in Chunks
  BY <1>5, <1>6, PassRole
<1> HIDE DEF c, next
<1>8. /\ ~IsLastStage(r, c) => Handed(r, p, Posted(op, "grad", next), next, << >>, << >>)
      /\ IsLastStage(r, c) => \A idle : idle.to = Nobody /\ idle.from = Nobody =>
                                Handed(r, p, idle, next, << >>, << >>)
  BY <1>1, <1>2, <1>4, <1>7, TurnExchanges
<1> HIDE DEF op
<1>9. \A x : Handed(r, p, x, next, << >>, << >>) => Handed(r, p, x, c, << >>, << >>)
  BY DEF Handed, AsksFor
<1>10. QED BY <1>2, <1>7, <1>8, <1>9 DEF op, c, next

LEMMA BackwardPassHands ==
  ASSUME NEW r \in Ranks, NEW p, GoodPlace(r, p), p.phase \in {"mid1", "mid3", "last"}, p.k % 2 = 1
  PROVE  LET k == BackwardK(r, p)
             c == BackwardChunk(r, k)
             final == p.k = 2 * UnitRemaining(r) - 1 /\ p.phase # "mid3"
             quiet == p.phase = "mid3" /\ IsFirstStage(r, c)
             next == IF final THEN BackwardChunk(r, k + 1) ELSE ForwardChunk(r, ForwardK(r, p) + 1)
             op == IF final THEN SendBackwardRecvBackwardBd(r, c, Sent(r, p), TRUE)
                            ELSE SendBackwardRecvForward(r, c, Sent(r, p))
         IN  /\ IsPass(r, p) /\ c = PassChunk(r, p) /\ next \in Chunks
             /\ quiet => \A idle : idle.to = Nobody /\ idle.from = Nobody =>
                           Handed(r, p, idle, next, << >>, << >>)
             /\ ~quiet => Handed(r, p, Posted(op, IF final THEN "grad" ELSE "in", next), next, << >>, << >>)
             /\ ~quiet /\ ~final => AtOnce(op) = << >>
<1> DEFINE k == BackwardK(r, p)
           c == BackwardChunk(r, k)
           final == p.k = 2 * UnitRemaining(r) - 1 /\ p.phase # "mid3"
           quiet == p.phase = "mid3" /\ IsFirstStage(r, c)
           next == IF final THEN BackwardChunk(r, k + 1) ELSE ForwardChunk(r, ForwardK(r, p) + 1)
           op == IF final THEN SendBackwardRecvBackwardBd(r, c, Sent(r, p), TRUE)
                          ELSE SendBackwardRecvForward(r, c, Sent(r, p))
           p1 == NextPlace(r, p)
<1>1. TurnAt(p) /\ ~ForwardAt(p)
  BY DEF TurnAt, ForwardAt
<1>2. /\ Turned(r, p) = BDone(r, p) /\ BDone(r, p) = k /\ BDone(r, p) \in 0 .. 2 * N - 3
      /\ c # Sync
  BY <1>1, EarlyTurns
<1>3. IsPass(r, p) /\ c = PassChunk(r, p) /\ c \in Chunks
  BY <1>1, <1>2, PassRole DEF IsPass
<1>4. GoodPlace(r, p1) /\ BDone(r, p1) = BDone(r, p) + 1
  BY <1>1, ComingNext
<1>5. CASE final
  <2>1. p.phase \in {"mid1", "last"} /\ p.k = 2 * UnitRemaining(r) - 1
    BY <1>5
  <2>2. TurnAt(p1)
    BY <2>1, ComingNext
  <2>3. ~ForwardAt(p1)
    BY <2>2 DEF ForwardAt, TurnAt
  <2>4. BDone(r, p1) = BackwardK(r, p1)
    BY <1>4, <2>2, PlaceDone
  <2>5. BackwardChunk(r, BDone(r, p) + 1) \in Chunks
    <3>1. BDone(r, p) + 1 \in 0 .. 2 * N - 2
      BY <1>2, UnitFacts
    <3>2. QED BY <3>1, EarlyBackwardChunk
  <2>6. IsPass(r, p1)
    <3>1. \A x \in Chunks : x # Sync
      BY DEF Chunks, Sync
    <3>2. QED BY <1>4, <2>2, <2>4, <2>5, <3>1 DEF IsPass
  <2>7. next = PassChunk(r, p1) /\ next \in Chunks
    BY <1>2, <1>4, <1>5, <2>3, <2>4, <2>5 DEF PassChunk
  <2>8. /\ Role(r, p) = RoleOfPlace(r, Turned(r, p)) /\ Role(r, p1) = RoleOfPlace(r, Turned(r, p) + 1)
    BY <1>1, <1>3, <2>2, <2>6, BackwardThenBackward
  <2>9. Role(r, p) = 0 /\ Opposite(Role(r, p), Role(r, p1))
    BY <2>1, <2>8, PhaseRoles
  <2>10. Role(r, p1) \in {1, 3} /\ c # next
    <3>1. Role(r, p1) # Role(r, p)
      BY <2>9 DEF Opposite
    <3>2. PassChunk(r, p) # PassChunk(r, p1)
      BY <1>1, <1>3, <2>2, <2>6, <3>1, BackwardThenBackward
    <3>3. QED BY <1>3, <2>7, <2>9, <3>2 DEF Opposite
  <2>11. op = SendBackwardRecvBackwardBd(r, c, Sent(r, p), TRUE) /\ ~quiet
    BY <1>5
  <2> HIDE DEF c, next, op, quiet, final
  <2>12. Handed(r, p, Posted(op, "grad", next), next, << >>, << >>)
    <3>1. Handed(r, p, Posted(SendBackwardRecvBackwardBd(r, c, Sent(r, p), TRUE), "grad", next),
                 next, << >>, << >>)
      <4>1. PassChunk(r, p) # PassChunk(r, p1) /\ (End(r) => Role(r, p) = 0) /\ (End(r) => Role(r, p1) # 0)
        BY <1>3, <2>7, <2>9, <2>10
      <4>2. Handed(r, p, Posted(SendBackwardRecvBackwardBd(r, PassChunk(r, p), Sent(r, p), TRUE),
                                "grad", PassChunk(r, p1)),
                   PassChunk(r, p1), << >>, << >>)
        BY <1>1, <1>3, <2>2, <2>6, <4>1, BackwardExchanges
      <4>3. QED BY <1>3, <2>7, <4>2
    <3>2. QED BY <2>11, <3>1
  <2>13. QED BY <1>3, <1>5, <2>7, <2>11, <2>12 DEF c, next, op, quiet, final, k
<1>6. CASE ~final
  <2>1. ForwardAt(p1)
    BY <1>6, ComingNext
  <2>2. ForwardK(r, p) + 1 = FDone(r, p)
    <3>1. p.k \in Nat
      BY DEF GoodPlace, PC
    <3>2. (p.k + 1) \div 2 = p.k \div 2 + 1
      BY <3>1
    <3>3. p.loop * 2 * P \in Nat
      BY PlaceBounds
    <3>4. NumWarmupMicrobatches(r) \in Nat /\ P \in Nat
      BY WarmupFacts, HalfFacts
    <3>5. p.k \div 2 \in Nat
      BY <3>1
    <3> DEFINE base == p.loop * 2 * P
               h == p.k \div 2
               g == (p.k + 1) \div 2
    <3>6. /\ p.phase \in {"mid1", "last"} =>
               /\ ForwardK(r, p) = base + NumWarmupMicrobatches(r) + h
               /\ FDone(r, p) = base + NumWarmupMicrobatches(r) + g
          /\ p.phase = "mid3" =>
               /\ ForwardK(r, p) = base + 2 * P + h
               /\ FDone(r, p) = base + 2 * P + g
      BY DEF ForwardK, FDone
    <3> HIDE DEF base, h, g
    <3>7. QED BY <3>2, <3>3, <3>4, <3>5, <3>6 DEF base, h, g
  <2>3. IsPass(r, p1) /\ PassChunk(r, p1) = ForwardChunk(r, FDone(r, p))
    BY <1>1, <2>1, TurnOfPasses
  <2>4. next = PassChunk(r, p1) /\ next \in Chunks
    BY <1>4, <1>6, <2>2, <2>3, PassRole
  <2>5. op = SendBackwardRecvForward(r, c, Sent(r, p))
    BY <1>6
  <2>6. /\ p.phase \in {"mid1", "last"} => ~IsFirstStage(r, c)
        /\ ~IsFirstStage(r, c) => Handed(r, p, Posted(op, "in", next), next, << >>, << >>) /\ AtOnce(op) = << >>
        /\ IsFirstStage(r, c) => \A idle : idle.to = Nobody /\ idle.from = Nobody =>
                                   Handed(r, p, idle, next, << >>, << >>)
    <3>1. c = PassChunk(r, p)
      BY <1>3
    <3> HIDE DEF c, next, op
    <3>2. QED BY <1>1, <2>1, <2>4, <2>5, <3>1, TurnExchanges
  <2>7. quiet <=> IsFirstStage(r, c)
    BY <2>6
  <2> HIDE DEF c, next, op, quiet, final
  <2>8. QED BY <1>3, <1>6, <2>4, <2>6, <2>7 DEF c, next, op, quiet, final, k
<1>7. QED BY <1>5, <1>6

LEMMA CooldownBackwardHands ==
  ASSUME NEW r \in Ranks, NEW p, GoodPlace(r, p), p.phase = "mid2"
  PROVE  LET k == BackwardK(r, p)
             c == BackwardChunk(r, k)
             final == p.k = NumWarmupMicrobatches(r) - UnitRemaining(r)
             nextFwd == ForwardChunk(r, (p.loop + 1) * 2 * P)
             nextBwd == BackwardChunk(r, k + 1)
             recvFwd == SendBackwardRecvForward(r, c, Sent(r, p))
             recvBwd == SendBackwardRecvBackwardBd(r, c, Sent(r, p), ~IsFirstStage(r, c))
         IN  /\ IsPass(r, p) /\ c = PassChunk(r, p)
             /\ final => nextFwd \in Chunks
             /\ ~final => nextBwd \in Chunks
             /\ final /\ IsFirstStage(r, c) =>
                  \A idle : idle.to = Nobody /\ idle.from = Nobody => Handed(r, p, idle, c, << >>, << >>)
             /\ final /\ ~IsFirstStage(r, c) =>
                  Handed(r, p, Posted(recvFwd, "in", nextFwd), c, << >>, << >>)
             /\ ~final /\ HandedOverBackward(r, nextBwd) =>
                  \A idle : idle.to = Nobody /\ idle.from = Nobody =>
                    Handed(r, p, idle, nextBwd, << >>, <<Sent(r, p)>>)
             /\ ~final /\ ~HandedOverBackward(r, nextBwd) =>
                  Handed(r, p, Posted(recvBwd, "grad", nextBwd), nextBwd, << >>, AtOnce(recvBwd))
<1> DEFINE k == BackwardK(r, p)
           c == BackwardChunk(r, k)
           final == p.k = NumWarmupMicrobatches(r) - UnitRemaining(r)
           nextFwd == ForwardChunk(r, (p.loop + 1) * 2 * P)
           nextBwd == BackwardChunk(r, k + 1)
           recvFwd == SendBackwardRecvForward(r, c, Sent(r, p))
           recvBwd == SendBackwardRecvBackwardBd(r, c, Sent(r, p), ~IsFirstStage(r, c))
           p1 == NextPlace(r, p)
<1>1. TurnAt(p) /\ ~ForwardAt(p)
  BY DEF TurnAt, ForwardAt
<1>2. /\ Turned(r, p) = BDone(r, p) /\ BDone(r, p) = k /\ BDone(r, p) \in 0 .. 2 * N - 3
      /\ c # Sync
  BY <1>1, EarlyTurns
<1>3. IsPass(r, p) /\ c = PassChunk(r, p) /\ c \in Chunks
  BY <1>1, <1>2, PassRole DEF IsPass
<1>4. GoodPlace(r, p1) /\ BDone(r, p1) = BDone(r, p) + 1
  BY <1>1, ComingNext
<1>5. CASE final
  <2>1. ForwardAt(p1)
    BY <1>5, ComingNext
  <2>2. FDone(r, p) = (p.loop + 1) * 2 * P
    <3>1. FDone(r, p) = p.loop * 2 * P + 2 * P
      BY DEF FDone
    <3>2. p.loop \in Nat /\ P \in Nat
      BY UnitFacts, HalfFacts DEF GoodPlace, PC
    <3>3. (p.loop + 1) * 2 * P = p.loop * 2 * P + 2 * P
      BY <3>2
    <3>4. QED BY <3>1, <3>3
  <2>3. IsPass(r, p1) /\ PassChunk(r, p1) = ForwardChunk(r, FDone(r, p))
    BY <1>1, <2>1, TurnOfPasses
  <2>4. nextFwd = PassChunk(r, p1) /\ nextFwd \in Chunks
    BY <1>4, <2>2, <2>3, PassRole
  <2> HIDE DEF c, nextFwd, nextBwd, recvFwd, recvBwd
  <2>5. /\ ~IsFirstStage(r, c) => Handed(r, p, Posted(recvFwd, "in", nextFwd), nextFwd, << >>, << >>)
        /\ IsFirstStage(r, c) => \A idle : idle.to = Nobody /\ idle.from = Nobody =>
                                   Handed(r, p, idle, nextFwd, << >>, << >>)
    BY <1>1, <1>3, <2>1, <2>4, TurnExchanges DEF recvFwd
  <2>6. \A x : Handed(r, p, x, nextFwd, << >>, << >>) => Handed(r, p, x, c, << >>, << >>)
    BY DEF Handed, AsksFor
  <2>7. QED BY <1>3, <1>5, <2>4, <2>5, <2>6 DEF c, nextFwd, nextBwd, recvFwd, recvBwd
<1>6. CASE ~final
  <2>2. TurnAt(p1)
    BY <1>6, ComingNext
  <2>3. ~ForwardAt(p1)
    BY <2>2 DEF ForwardAt, TurnAt
  <2>4. BDone(r, p1) = BackwardK(r, p1)
    BY <1>4, <2>2, PlaceDone
  <2>5. BackwardChunk(r, BDone(r, p) + 1) \in Chunks
    <3>1. BDone(r, p) + 1 \in 0 .. 2 * N - 2
      BY <1>2, UnitFacts
    <3>2. QED BY <3>1, EarlyBackwardChunk
  <2>6. IsPass(r, p1)
    <3>1. \A x \in Chunks : x # Sync
      BY DEF Chunks, Sync
    <3>2. QED BY <1>4, <2>2, <2>4, <2>5, <3>1 DEF IsPass
  <2>7. nextBwd = PassChunk(r, p1) /\ nextBwd \in Chunks
    BY <1>2, <1>4, <2>3, <2>4, <2>5 DEF PassChunk
  <2>8. /\ Role(r, p) = RoleOfPlace(r, Turned(r, p)) /\ Role(r, p1) = RoleOfPlace(r, Turned(r, p) + 1)
        /\ End(r) => (Role(r, p) = 1 <=> Role(r, p1) = 2)
    BY <1>1, <1>3, <2>2, <2>6, BackwardThenBackward
  <2>9. /\ Opposite(Role(r, p), Role(r, p1))
        /\ End(r) => Role(r, p) \notin {0, 3}
    BY <1>6, <2>8, PhaseRoles
  <2>10. /\ Role(r, p) \in 0 .. 3 /\ Role(r, p1) \in 0 .. 3
    BY <1>3, <1>4, <2>6, PassRole
  <2>11. c # nextBwd
    <3>1. Role(r, p1) # Role(r, p)
      BY <2>9, <2>10 DEF Opposite
    <3>2. PassChunk(r, p) # PassChunk(r, p1)
      BY <1>1, <1>3, <2>2, <2>6, <3>1, BackwardThenBackward
    <3>3. QED BY <1>3, <2>7, <3>2
  <2>12. End(r) => Role(r, p1) # 0
    BY <2>8, <2>9, <2>10 DEF Opposite
  <2> HIDE DEF c, nextFwd, nextBwd, recvFwd, recvBwd
  <2>13. /\ HandedOverBackward(r, nextBwd) =>
              \A idle : idle.to = Nobody /\ idle.from = Nobody =>
                Handed(r, p, idle, nextBwd, << >>, <<Sent(r, p)>>)
         /\ ~HandedOverBackward(r, nextBwd) =>
              Handed(r, p, Posted(recvBwd, "grad", nextBwd), nextBwd, << >>, AtOnce(recvBwd))
    BY <1>1, <1>3, <2>2, <2>6, <2>7, <2>11, <2>12, BackwardExchanges DEF recvBwd
  <2>14. QED BY <1>3, <1>6, <2>7, <2>13 DEF c, nextFwd, nextBwd, recvFwd, recvBwd
<1>7. QED BY <1>5, <1>6

\* What is next in the cooldown: a pass, or a marker after a pass of role 3.
LEMMA CooldownNext ==
  ASSUME NEW r \in Ranks, NEW p, GoodPlace(r, p), p.phase = "cooldown", IsPass(r, p)
  PROVE  LET k == BackwardK(r, p)
             next == NextPlace(r, p)
         IN  /\ k \in 0 .. 2 * N /\ k = BDone(r, p) /\ GoodPlace(r, next) /\ next.phase = "cooldown"
             /\ TurnAt(next) /\ ~ForwardAt(next)
             /\ PassChunk(r, p) = BackwardChunk(r, k)
             /\ IsPass(r, next) => /\ PassChunk(r, next) = BackwardChunk(r, k + 1)
                                   /\ BackwardChunk(r, k + 1) \in Chunks
                                   /\ k <= 2 * N - 2
                                   /\ End(r) => Role(r, next) # 0
                                   /\ k = 2 * N - 2 => Opposite(Role(r, p), Role(r, next)) /\ Role(r, next) = 3
             /\ ~IsPass(r, next) => /\ BackwardChunk(r, k + 1) = Sync
                                    /\ k >= 2 * N - 2
                                    /\ Role(r, p) = 3
<1> DEFINE k == BackwardK(r, p)
           next == NextPlace(r, p)
<1>1. /\ BDone(r, p) = k /\ k \in 0 .. 2 * N + 1 /\ ~ForwardAt(p) /\ TurnAt(p)
      /\ k \notin {FirstMarker(r), 2 * N + 1}
      /\ Role(r, p) = RoleOfPlace(r, Turned(r, p))
      /\ k <= 2 * N - 2 => Turned(r, p) = k
      /\ k >= 2 * N - 1 => Turned(r, p) = 2 * N - 1
  BY CooldownRoles
<1>2. N \in Nat /\ N >= 2 /\ FirstMarker(r) \in {2 * N - 1, 2 * N} /\ (FirstMarker(r) = 2 * N <=> IsMiddle(r))
  BY UnitFacts, HalfFacts DEF FirstMarker
<1>3. k \in 0 .. 2 * N
  BY <1>1, <1>2
<1>4. GoodPlace(r, next) /\ next.phase = "cooldown" /\ BDone(r, next) = k + 1
  BY <1>1, <1>2, <1>3, ComingNext
<1>5. /\ BDone(r, next) = BackwardK(r, next)
      /\ ~ForwardAt(next) /\ TurnAt(next)
      /\ IsPass(r, next) <=> k + 1 \notin {FirstMarker(r), 2 * N + 1}
      /\ IsPass(r, next) => /\ Role(r, next) = RoleOfPlace(r, Turned(r, next))
                            /\ BDone(r, next) >= 2 * N - 1 => Turned(r, next) = 2 * N - 1
                            /\ End(r) => Role(r, next) # 0
  BY <1>4, CooldownRoles
<1>6. PassChunk(r, p) = BackwardChunk(r, k)
  BY <1>1 DEF PassChunk
<1>7. /\ RoleOfPlace(r, 2 * N - 1) = 3
      /\ ~IsMiddle(r) => RoleOfPlace(r, 2 * N - 2) = 3
      /\ IsMiddle(r) => Opposite(RoleOfPlace(r, 2 * N - 2), RoleOfPlace(r, 2 * N - 1))
  BY LastPlaces
<1>8. IF k + 1 \in {FirstMarker(r), 2 * N + 1}
      THEN BackwardChunk(r, k + 1) = Sync ELSE BackwardChunk(r, k + 1) \in Chunks
  <2>1. k + 1 \in 0 .. 2 * N + 1
    BY <1>2, <1>3
  <2>2. QED BY <2>1, MarkerPlaces
<1> HIDE DEF k, next
<1>9. ASSUME IsPass(r, next)
      PROVE  /\ PassChunk(r, next) = BackwardChunk(r, k + 1)
             /\ BackwardChunk(r, k + 1) \in Chunks
             /\ k <= 2 * N - 2
             /\ End(r) => Role(r, next) # 0
             /\ k = 2 * N - 2 => Opposite(Role(r, p), Role(r, next)) /\ Role(r, next) = 3
  <2>1. PassChunk(r, next) = BackwardChunk(r, k + 1)
    BY <1>4, <1>5 DEF PassChunk
  <2>2. k <= 2 * N - 2
    BY <1>1, <1>2, <1>3, <1>5, <1>9
  <2>3. ASSUME k = 2 * N - 2
        PROVE  Opposite(Role(r, p), Role(r, next)) /\ Role(r, next) = 3
    <3>1. IsMiddle(r)
      BY <1>2, <1>5, <1>9, <2>3
    <3>2. Turned(r, p) = 2 * N - 2 /\ Turned(r, next) = 2 * N - 1
      BY <1>1, <1>2, <1>4, <1>5, <1>9, <2>3
    <3>3. QED BY <1>1, <1>5, <1>7, <1>9, <3>1, <3>2
  <2>4. QED BY <1>5, <1>8, <1>9, <2>1, <2>2, <2>3
<1>10. ASSUME ~IsPass(r, next)
       PROVE  BackwardChunk(r, k + 1) = Sync /\ k >= 2 * N - 2 /\ Role(r, p) = 3
  <2>1. k >= 2 * N - 2
    BY <1>2, <1>3, <1>5, <1>10
  <2>2. k = 2 * N - 2 => ~IsMiddle(r)
    BY <1>2, <1>5, <1>10
  <2>3. Turned(r, p) = IF k = 2 * N - 2 THEN 2 * N - 2 ELSE 2 * N - 1
    BY <1>1, <1>2, <1>3, <2>1
  <2>4. QED BY <1>1, <1>5, <1>7, <1>8, <1>10, <2>1, <2>2, <2>3
<1>11. QED BY <1>3, <1>1, <1>4, <1>5, <1>6, <1>9, <1>10 DEF k, next

LEMMA FinalBackwardHands ==
  ASSUME NEW r \in Ranks, NEW p, GoodPlace(r, p), p.phase = "cooldown", IsPass(r, p)
  PROVE  LET k == BackwardK(r, p)
             c == BackwardChunk(r, k)
             next == BackwardChunk(r, k + 1)
             sendOnly == \/ k = TotalNumMicrobatches - 2 /\ next = Sync
                         \/ k \in {TotalNumMicrobatches - 1, TotalNumMicrobatches}
             sameChunk == k < TotalNumMicrobatches - 2 /\ c = next
             local == k < TotalNumMicrobatches - 2 /\ c # next /\ HandedOverBackward(r, next)
             op == IF sendOnly THEN SendBackwardRecvBackward(r, c, Sent(r, p), FALSE)
                   ELSE IF sameChunk THEN SendBackwardRecvBackward(r, c, Sent(r, p), TRUE)
                   ELSE SendBackwardRecvBackwardBd(r, c, Sent(r, p), ~IsFirstStage(r, c))
         IN  /\ c = PassChunk(r, p)
             /\ ~sendOnly => next \in Chunks
             /\ sendOnly => ~local /\ Handed(r, p, Posted(op, "drop", 0), c, << >>, << >>)
             /\ local => \A idle : idle.to = Nobody /\ idle.from = Nobody =>
                           Handed(r, p, idle, next, << >>, <<Sent(r, p)>>)
             /\ ~sendOnly /\ ~local =>
                  Handed(r, p, Posted(op, "grad", next), next, << >>, AtOnce(op))
<1> DEFINE k == BackwardK(r, p)
           c == BackwardChunk(r, k)
           next == BackwardChunk(r, k + 1)
           sendOnly == \/ k = TotalNumMicrobatches - 2 /\ next = Sync
                       \/ k \in {TotalNumMicrobatches - 1, TotalNumMicrobatches}
           sameChunk == k < TotalNumMicrobatches - 2 /\ c = next
           local == k < TotalNumMicrobatches - 2 /\ c # next /\ HandedOverBackward(r, next)
           send == SendBackwardRecvBackward(r, c, Sent(r, p), FALSE)
           same == SendBackwardRecvBackward(r, c, Sent(r, p), TRUE)
           other == SendBackwardRecvBackwardBd(r, c, Sent(r, p), ~IsFirstStage(r, c))
           op == IF sendOnly THEN SendBackwardRecvBackward(r, c, Sent(r, p), FALSE)
                 ELSE IF sameChunk THEN SendBackwardRecvBackward(r, c, Sent(r, p), TRUE)
                 ELSE SendBackwardRecvBackwardBd(r, c, Sent(r, p), ~IsFirstStage(r, c))
           p1 == NextPlace(r, p)
<1>1. /\ k \in 0 .. 2 * N /\ k = BDone(r, p) /\ GoodPlace(r, p1)
      /\ TurnAt(p1) /\ ~ForwardAt(p1) /\ c = PassChunk(r, p)
      /\ IsPass(r, p1) => /\ PassChunk(r, p1) = next
                          /\ next \in Chunks
                          /\ k <= 2 * N - 2
                          /\ End(r) => Role(r, p1) # 0
                          /\ k = 2 * N - 2 => Opposite(Role(r, p), Role(r, p1)) /\ Role(r, p1) = 3
      /\ ~IsPass(r, p1) => next = Sync /\ k >= 2 * N - 2 /\ Role(r, p) = 3
  BY CooldownNext
<1>2. N \in Nat /\ TotalNumMicrobatches = 2 * N
  BY UnitFacts DEF TotalNumMicrobatches
<1>3. ~ForwardAt(p) /\ TurnAt(p) /\ p.phase = "cooldown" /\ p1.phase = "cooldown"
  BY CooldownRoles, CooldownNext
<1>5. \A x \in Chunks : x # Sync
  BY DEF Chunks, Sync
<1>6. op = IF sendOnly THEN send ELSE IF sameChunk THEN same ELSE other
  OBVIOUS
<1>7. CASE ~IsPass(r, p1)
  <2>1. sendOnly /\ ~local /\ ~sameChunk
    BY <1>1, <1>2, <1>7
  <2>2. send = Communicate(PrevRank(r, c), Sent(r, p), Nobody)
    BY DEF SendBackwardRecvBackward
  <2>3. Source(r, p1) = Nobody /\ Role(r, p) = 3
    BY <1>1, <1>7 DEF Source
  <2> HIDE DEF c, next, sendOnly, sameChunk, local, send, same, other, op
  <2>4. op = send
    BY <1>6, <2>1
  <2>5. Sends(r, p, Posted(op, "drop", 0))
    BY <1>1, <1>3, <2>2, <2>3, <2>4, PassSends
  <2>6. Posted(op, "drop", 0).from = Nobody
    BY <2>2, <2>4, PostedFields
  <2>7. AsksFor(r, p1, Posted(op, "drop", 0), c, << >>, << >>)
    BY <1>1, <1>7, <2>3, <2>6 DEF AsksFor
  <2>8. Handed(r, p, Posted(op, "drop", 0), c, << >>, << >>)
    BY <2>5, <2>7 DEF Handed
  <2>9. QED BY <1>1, <2>1, <2>8 DEF c, next, sendOnly, sameChunk, local, op, k
<1>8. CASE IsPass(r, p1)
  <2>1. next \in Chunks /\ next = PassChunk(r, p1) /\ k <= 2 * N - 2 /\ ~sendOnly
    BY <1>1, <1>2, <1>5, <1>8
  <2>2. /\ (Role(r, p) = Role(r, p1) /\ c = next) \/ c # next
        /\ Opposite(Role(r, p), Role(r, p1)) => c # next
    <3>1. ~Opposite(Role(r, p), Role(r, p))
      BY PassRole DEF Opposite
    <3>2. \/ Role(r, p) = Role(r, p1) /\ PassChunk(r, p) = PassChunk(r, p1)
          \/ Opposite(Role(r, p), Role(r, p1)) /\ PassChunk(r, p) # PassChunk(r, p1)
      BY <1>1, <1>3, <1>8, BackwardThenBackward
    <3> HIDE DEF c, next
    <3>3. QED BY <1>1, <2>1, <3>1, <3>2
  <2>3. /\ c = next => Handed(r, p, Posted(same, "grad", next), next, << >>, AtOnce(same))
        /\ c # next /\ HandedOverBackward(r, next) =>
             \A idle : idle.to = Nobody /\ idle.from = Nobody =>
               Handed(r, p, idle, next, << >>, <<Sent(r, p)>>)
        /\ c # next /\ ~HandedOverBackward(r, next) =>
             Handed(r, p, Posted(other, "grad", next), next, << >>, AtOnce(other))
    <3>1. c = PassChunk(r, p) /\ next = PassChunk(r, p1) /\ (End(r) => Role(r, p1) # 0)
      BY <1>1, <1>8, <2>1
    <3>2. LET b == PassChunk(r, p)
              d == PassChunk(r, NextPlace(r, p))
              one == SendBackwardRecvBackward(r, b, Sent(r, p), TRUE)
              two == SendBackwardRecvBackwardBd(r, b, Sent(r, p), ~IsFirstStage(r, b))
          IN  /\ b = d => Handed(r, p, Posted(one, "grad", d), d, << >>, AtOnce(one))
              /\ b # d /\ HandedOverBackward(r, d) =>
                   \A idle : idle.to = Nobody /\ idle.from = Nobody =>
                     Handed(r, p, idle, d, << >>, <<Sent(r, p)>>)
              /\ b # d /\ ~HandedOverBackward(r, d) =>
                   Handed(r, p, Posted(two, "grad", d), d, << >>, AtOnce(two))
      <4>1. IsPass(r, p) /\ TurnAt(p) /\ TurnAt(NextPlace(r, p)) /\ IsPass(r, NextPlace(r, p))
            /\ (End(r) => Role(r, NextPlace(r, p)) # 0)
        BY <1>1, <1>3, <1>8
      <4>2. QED BY <4>1, BackwardExchanges
    <3>3. p1 = NextPlace(r, p)
      OBVIOUS
    <3>4. same = SendBackwardRecvBackward(r, c, Sent(r, p), TRUE)
          /\ other = SendBackwardRecvBackwardBd(r, c, Sent(r, p), ~IsFirstStage(r, c))
      OBVIOUS
    <3> HIDE DEF c, next, p1, same, other
    <3>5. QED BY <3>1, <3>2, <3>3, <3>4
  <2>4. k = 2 * N - 2 => c # next /\ ~HandedOverBackward(r, next)
    <3>1. k = 2 * N - 2 => Role(r, p1) = 3 /\ c # next
      BY <1>1, <1>8, <2>2
    <3>2. HandedOverBackward(r, PassChunk(r, p1)) <=> End(r) /\ Role(r, p1) = 2
      BY <1>1, <1>8, PassSides
    <3>3. QED BY <2>1, <3>1, <3>2
  <2>5. sameChunk => c = next
    OBVIOUS
  <2>6. local => c # next /\ HandedOverBackward(r, next)
    OBVIOUS
  <2>7. ~local /\ ~sameChunk => c # next /\ ~HandedOverBackward(r, next)
    BY <1>1, <1>2, <2>1, <2>4
  <2> HIDE DEF c, next, sendOnly, sameChunk, local, send, same, other, op
  <2>9. ~local => Handed(r, p, Posted(op, "grad", next), next, << >>, AtOnce(op))
    BY <1>6, <2>1, <2>3, <2>5, <2>7
  <2>10. QED BY <1>1, <2>1, <2>3, <2>6, <2>9 DEF c, next, sendOnly, sameChunk, local, op, k
<1>9. QED BY <1>7, <1>8

\* The device has run chunk v before the marker it leaves.
LEMMA LeaveSyncHands ==
  ASSUME NEW r \in Ranks, NEW p, GoodPlace(r, p), p.phase = "cooldown", ~IsPass(r, p),
         NEW v \in Chunks, BackwardK(r, p) = FirstMarker(r) => BackwardRole(r, v) = 3
  PROVE  LET k == BackwardK(r, p)
             next == IF k < TotalNumMicrobatches + 1 THEN BackwardChunk(r, k + 1) ELSE Sync
             op == RecvBackward(r, v)
         IN  /\ next = Sync => \A idle : idle.to = Nobody /\ idle.from = Nobody =>
                                 Handed(r, p, idle, v, << >>, << >>)
             /\ next # Sync => /\ next \in Chunks
                               /\ Handed(r, p, Posted(op, "grad", next), next, << >>, AtOnce(op))
<1> DEFINE k == BackwardK(r, p)
           next == IF k < TotalNumMicrobatches + 1 THEN BackwardChunk(r, k + 1) ELSE Sync
           op == RecvBackward(r, v)
           p1 == NextPlace(r, p)
<1>1. /\ BDone(r, p) = k /\ k \in {FirstMarker(r), 2 * N + 1} /\ ~ForwardAt(p) /\ TurnAt(p)
  BY CooldownRoles
<1>2. N \in Nat /\ FirstMarker(r) \in {2 * N - 1, 2 * N} /\ TotalNumMicrobatches = 2 * N
  BY UnitFacts DEF FirstMarker, TotalNumMicrobatches
<1>3. GoodPlace(r, p1) /\ BDone(r, p1) = k + 1
  BY <1>1, <1>2, ComingNext
<1>4. Target(r, p) = Nobody
  BY DEF Target
<1>5. \A x \in Chunks : x # Sync
  BY DEF Chunks, Sync
<1>6. CASE k = 2 * N + 1
  <2>1. p1.phase = "finish"
    BY <1>1, <1>2, <1>6, ComingNext
  <2>2. ~IsPass(r, p1) /\ ~ForwardAt(p1) /\ Source(r, p1) = Nobody
    BY <2>1 DEF IsPass, ForwardAt, TurnAt, Source
  <2>3. next = Sync
    BY <1>2, <1>6
  <2>4. ASSUME NEW idle, idle.to = Nobody, idle.from = Nobody
        PROVE  Handed(r, p, idle, v, << >>, << >>)
    BY <1>4, <2>2, <2>4 DEF Handed, Sends, AsksFor
  <2>5. QED BY <2>3, <2>4
<1>7. CASE k = FirstMarker(r) /\ IsMiddle(r)
  <2>1. k = 2 * N /\ BackwardChunk(r, k + 1) = Sync
    <3>1. k = 2 * N
      BY <1>7 DEF FirstMarker
    <3>2. 2 * N + 1 \in 0 .. 2 * N + 1 /\ k + 1 = 2 * N + 1
      BY <1>2, <3>1
    <3>3. QED BY <3>1, <3>2, MarkerPlaces
  <2>2. p1.phase = "cooldown"
    BY <1>1, <1>2, <2>1, ComingNext
  <2>3. BDone(r, p1) = 2 * N + 1
    BY <1>2, <1>3, <2>1
  <2>4. ~IsPass(r, p1) /\ ~ForwardAt(p1)
    BY <1>3, <2>2, <2>3, CooldownRoles
  <2>5. Source(r, p1) = Nobody
    BY <2>4 DEF Source
  <2>6. next = Sync
    BY <1>2, <2>1
  <2>7. ASSUME NEW idle, idle.to = Nobody, idle.from = Nobody
        PROVE  Handed(r, p, idle, v, << >>, << >>)
    BY <1>4, <2>4, <2>5, <2>7 DEF Handed, Sends, AsksFor
  <2>8. QED BY <2>6, <2>7
<1>8. CASE k = FirstMarker(r) /\ ~IsMiddle(r)
  <2>1. k = 2 * N - 1 /\ k + 1 = 2 * N
    BY <1>2, <1>8 DEF FirstMarker
  <2>2. p1.phase = "cooldown"
    BY <1>1, <1>2, <2>1, ComingNext
  <2>3. BDone(r, p1) = 2 * N
    BY <1>3, <2>1
  <2>4. /\ IsPass(r, p1) /\ ~ForwardAt(p1) /\ Role(r, p1) = RoleOfPlace(r, 2 * N - 1)
        /\ BDone(r, p1) = BackwardK(r, p1)
    BY <1>2, <1>3, <1>8, <2>1, <2>2, <2>3, CooldownRoles
  <2>5. Role(r, p1) = 3
    BY <2>4, LastPlaces
  <2>6. next = BackwardChunk(r, k + 1) /\ next = PassChunk(r, p1)
    BY <1>2, <1>3, <2>1, <2>4 DEF PassChunk
  <2>7. next \in Chunks /\ BackwardRole(r, next) = 3
    BY <1>3, <2>4, <2>5, <2>6, PassRole
  <2>8. next = v
    BY <1>8, <2>7, RolesDiffer
  <2>9. Source(r, p1) = NextRank(r, v) /\ ~IsLastStage(r, v)
    BY <1>3, <2>4, <2>5, <2>6, <2>8, PassSides
  <2>10. NextRank(r, v) # Nobody
    BY RealNeighbours
  <2>11. op = Communicate(Nobody, None, NextRank(r, v))
    BY <2>9 DEF RecvBackward
  <2>12. /\ Posted(op, "grad", next).to = Nobody
         /\ Posted(op, "grad", next).from = NextRank(r, v) /\ Posted(op, "grad", next).box = "grad"
         /\ Posted(op, "grad", next).chunk = next /\ AtOnce(op) = << >>
    BY <2>10, <2>11, PostedFields
  <2>13. next # Sync
    BY <1>5, <2>7
  <2> HIDE DEF next, op
  <2>14. Handed(r, p, Posted(op, "grad", next), next, << >>, AtOnce(op))
    BY <1>4, <2>4, <2>6, <2>9, <2>10, <2>12 DEF Handed, Sends, AsksFor
  <2>15. QED BY <2>7, <2>13, <2>14 DEF next, op, k
<1>9. QED BY <1>1, <1>6, <1>7, <1>8

LEMMA FinishHands ==
  ASSUME NEW r \in Ranks, NEW p, GoodPlace(r, p), p.phase = "finish", NEW c,
         NEW idle, idle.to = Nobody, idle.from = Nobody
  PROVE  Handed(r, p, idle, c, << >>, << >>)
<1>1. NextPlace(r, p).phase = "done"
  BY ComingNext
<1>2. ~IsPass(r, NextPlace(r, p)) /\ ~ForwardAt(NextPlace(r, p)) /\ ~IsPass(r, p)
  BY <1>1 DEF IsPass, ForwardAt, TurnAt
<1>3. QED BY <1>2 DEF Handed, Sends, AsksFor, Source, Target

----
(***************************************************************************)
(* No chunk is ahead in its backward passes of its forward passes: a       *)
(* chunk of role q in the forward order has role 3 - q in the backward one.*)
(***************************************************************************)
LEMMA OppositeRoles ==
  ASSUME NEW r \in Ranks, NEW c \in Chunks
  PROVE  ForwardRole(r, c) \in 0 .. 3 /\ BackwardRole(r, c) = 3 - ForwardRole(r, c)
BY HalfOfRank DEF ForwardRole, BackwardRole, Chunks

LEMMA CountsInOrder ==
  ASSUME NEW n \in Nat, NEW d \in Nat, NEW x \in 0 .. 4 * (n + d), NEW y \in 0 .. 4 * (n + d),
         y <= n, 3 * n + 4 * d + y <= x
  PROVE  /\ RoleCount(1, n, d, x) = n + d
         /\ RoleCount(3, n, d, x) >= RoleCount(0, n, d, y)
<1>1. RoleCount(0, n, d, y) = y
  BY DEF RoleCount
<1>2. RoleCount(1, n, d, x) = n + d
  <2>1. CASE x <= 3 * n + 2 * d
    <3>1. d = 0 /\ y = 0 /\ x = 3 * n
      BY <2>1
    <3>2. (x - n + 1) \div 2 = n
      BY <3>1
    <3>3. CASE n = 0
      BY <2>1, <3>1, <3>3 DEF RoleCount
    <3>4. CASE n # 0
      BY <2>1, <3>1, <3>2, <3>4 DEF RoleCount
    <3>5. QED BY <3>3, <3>4
  <2>2. CASE x > 3 * n + 2 * d
    BY <2>2 DEF RoleCount
  <2>3. QED BY <2>1, <2>2
<1>3. RoleCount(3, n, d, x) >= y
  <2>1. CASE x = 3 * n + 4 * d
    <3>1. y = 0
      BY <2>1
    <3>2. (x - 3 * n - 2 * d + 1) \div 2 >= 0
      BY <2>1
    <3>3. QED BY <2>1, <3>1, <3>2 DEF RoleCount
  <2>2. CASE x > 3 * n + 4 * d
    BY <2>2 DEF RoleCount
  <2>3. QED BY <2>1, <2>2
<1>4. QED BY <1>1, <1>2, <1>3

LEMMA PartsInOrder ==
  ASSUME NEW r \in Ranks, NEW x \in 0 .. 2 * P, NEW y \in 0 .. 2 * P, NEW q \in 0 .. 3,
         y <= NumInitial(r), NumWarmupMicrobatches(r) + y <= x
  PROVE  Part(r, 3 - q, y) <= Part(r, q, x)
<1> DEFINE n == NumInitial(r)
           d == Half - NumInitial(r)
<1>1. /\ n \in Nat /\ d \in Nat /\ n + d = Half /\ 4 * (n + d) = 2 * P
      /\ NumWarmupMicrobatches(r) = 3 * n + 4 * d
  BY Sizes
<1>2. \A s : Part(r, s, x) = RoleCount(s, n, d, x) /\ Part(r, s, y) = RoleCount(s, n, d, y)
  BY DEF Part
<1> HIDE DEF n, d
<1>3. RoleCount(1, n, d, x) = n + d /\ RoleCount(3, n, d, x) >= RoleCount(0, n, d, y)
  BY <1>1, CountsInOrder
<1>4. /\ \A s \in 0 .. 3 : Part(r, s, y) \in 0 .. Half
      /\ Part(r, 0, x) = Half /\ Part(r, 2, x) = Half
  <2>1. x >= NumWarmupMicrobatches(r)
    BY <1>1
  <2>2. QED BY <2>1, Parts
<1>5. Part(r, 1, x) = Half /\ Part(r, 3, x) >= Part(r, 0, y)
  BY <1>1, <1>2, <1>3
<1>6. Half \in Nat
  BY HalfFacts
<1>7. CASE q = 3
  BY <1>5, <1>7
<1>8. CASE q # 3
  <2>1. Part(r, q, x) = Half
    BY <1>4, <1>5, <1>8
  <2>2. Part(r, 3 - q, y) \in 0 .. Half
    <3>1. 3 - q \in 0 .. 3
      OBVIOUS
    <3>2. QED BY <1>4, <3>1
  <2>3. QED BY <1>6, <2>1, <2>2
<1>9. QED BY <1>7, <1>8

\* The passes of chunk c that device r has begun and not finished at place p.
Kept(r, c, p) == Forwards(r, c, p) - Backwards(r, c, p)

LEMMA KeptPasses ==
  ASSUME NEW r \in Ranks, NEW p, GoodPlace(r, p), NEW c \in Chunks
  PROVE  Kept(r, c, p) \in Nat /\ (ForwardOnly => Backwards(r, c, p) = 0)
<1>1. Forwards(r, c, p) \in Nat /\ Backwards(r, c, p) \in Nat
  BY CountsNext
<1>2. CASE ForwardOnly
  <2>1. BDone(r, p) = 0
    BY <1>2 DEF GoodPlace, BDone
  <2>2. Backwards(r, c, p) = 0
    <3>1. BackwardPasses(r, 0) = 0
      BY UnitFacts, HalfFacts DEF BackwardPasses, FirstMarker
    <3>2. BackwardRole(r, c) \in 0 .. 3
      BY OppositeRoles
    <3>3. RoleDone(r, BackwardRole(r, c), 0) = 0
      BY <3>2, DoneSteps, 0 \in Nat
    <3>4. QED BY <2>1, <3>1, <3>3 DEF Backwards, BackwardDone
  <2>3. QED BY <1>1, <1>2, <2>2 DEF Kept
<1>3. CASE ~ForwardOnly
  <2> DEFINE q == ForwardRole(r, c)
  <2>1. PICK b \in Nat, e \in Nat : \E x \in 0 .. 2 * P, y \in 0 .. 2 * P :
           /\ FDone(r, p) = b * (2 * P) + x
           /\ BackwardPasses(r, BDone(r, p)) = e * (2 * P) + y
           /\ Apart(r, b, x, e, y)
    BY <1>3, Positions
  <2>2. PICK x \in 0 .. 2 * P, y \in 0 .. 2 * P :
           /\ FDone(r, p) = b * (2 * P) + x
           /\ BackwardPasses(r, BDone(r, p)) = e * (2 * P) + y
           /\ Apart(r, b, x, e, y)
    BY <2>1
  <2>3. q \in 0 .. 3 /\ 3 - q \in 0 .. 3 /\ BackwardRole(r, c) = 3 - q
    BY OppositeRoles
  <2>4. /\ Forwards(r, c, p) = RoleDone(r, q, b * (2 * P) + x)
        /\ Backwards(r, c, p) = RoleDone(r, 3 - q, e * (2 * P) + y)
    BY <2>2, <2>3 DEF Forwards, Backwards, ForwardDone, BackwardDone
  <2> HIDE DEF q
  <2>5. /\ RoleDone(r, q, b * (2 * P) + x) = b * Half + Part(r, q, x)
        /\ RoleDone(r, 3 - q, e * (2 * P) + y) = e * Half + Part(r, 3 - q, y)
    BY <2>3, RoleDoneIn
  <2>6. Part(r, q, x) \in 0 .. Half /\ Part(r, 3 - q, y) \in 0 .. Half
    BY <2>3, Parts
  <2>7. CASE b = e + 1
    <3>1. b * Half = e * Half + Half
      BY <2>7, HalfFacts
    <3>2. e * Half \in Nat /\ Half \in Nat
      BY HalfFacts
    <3>3. QED BY <1>1, <1>3, <2>4, <2>5, <2>6, <3>1, <3>2 DEF Kept
  <2>8. CASE b = e /\ Part(r, 3 - q, y) <= Part(r, q, x)
    <3>1. b * Half = e * Half /\ e * Half \in Nat /\ Half \in Nat
      BY <2>8, HalfFacts
    <3>2. QED BY <1>1, <1>3, <2>4, <2>5, <2>6, <2>8, <3>1 DEF Kept
  <2>9. b = e => Part(r, 3 - q, y) <= Part(r, q, x)
    <3>1. CASE y = 0
      <4>1. Part(r, 3 - q, y) = 0
        BY <2>3, <3>1, Parts
      <4>2. QED BY <2>6, <4>1
    <3>2. CASE x = 2 * P
      <4>1. Part(r, q, x) = Half
        BY <2>3, <3>2, Parts
      <4>2. QED BY <2>6, <4>1
    <3>3. CASE y <= NumInitial(r) /\ NumWarmupMicrobatches(r) + y <= x
      BY <2>3, <3>3, PartsInOrder
    <3>4. b = e => y = 0 \/ x = 2 * P \/ (y <= NumInitial(r) /\ NumWarmupMicrobatches(r) + y <= x)
      BY <2>2 DEF Apart
    <3>5. QED BY <3>1, <3>2, <3>3, <3>4
  <2>10. b = e \/ b = e + 1
    BY <2>2 DEF Apart
  <2>11. QED BY <2>7, <2>8, <2>9, <2>10
<1>4. QED BY <1>2, <1>3

----
(***************************************************************************)
(* The lists of a device hold consecutive microbatches: Span(f, b, n) is   *)
(* f[b], f[b + 1], ... f[b + n - 1].                                       *)
(***************************************************************************)
Span(f, b, n) == [i \in 1 .. n |-> f[b + i - 1]]

LEMMA SpanFacts ==
  ASSUME NEW f \in [Nat -> Tensor], NEW b \in Nat, NEW n \in Nat
  PROVE  /\ Span(f, b, n) \in Seq(Tensor) /\ Len(Span(f, b, n)) = n
         /\ Span(f, b, 0) = << >>
         /\ Span(f, b, n) \o <<f[b + n]>> = Span(f, b, n + 1)
         /\ Append(Span(f, b, n), f[b + n]) = Span(f, b, n + 1)
         /\ Span(f, b, n + 1)[n + 1] = f[b + n]
         /\ Span(f, b, n + 1) # << >>
         /\ n > 0 => /\ Span(f, b, n) # << >> /\ Head(Span(f, b, n)) = f[b]
                     /\ Tail(Span(f, b, n)) = Span(f, b + 1, n - 1)
<1>1. \A k \in Nat : Span(f, b, k) \in Seq(Tensor) /\ Len(Span(f, b, k)) = k
  <2> TAKE k \in Nat
  <2>1. \A i \in 1 .. k : f[b + i - 1] \in Tensor
    OBVIOUS
  <2>2. QED BY <2>1 DEF Span
<1>2. \A k \in Nat : \A i \in 1 .. k : Span(f, b, k)[i] = f[b + i - 1]
  BY DEF Span
<1>3. Span(f, b, 0) = << >>
  BY <1>1
<1>4. Append(Span(f, b, n), f[b + n]) = Span(f, b, n + 1)
  <2>1. f[b + n] \in Tensor /\ n + 1 \in Nat
    OBVIOUS
  <2>2. Append(Span(f, b, n), f[b + n]) \in Seq(Tensor) /\ Len(Append(Span(f, b, n), f[b + n])) = n + 1
    BY <1>1, <2>1
  <2>3. \A i \in 1 .. n + 1 : Append(Span(f, b, n), f[b + n])[i] = Span(f, b, n + 1)[i]
    <3> TAKE i \in 1 .. n + 1
    <3>1. Span(f, b, n + 1)[i] = f[b + i - 1]
      BY <1>2, <2>1
    <3>2. CASE i = n + 1
      BY <1>1, <3>1, <3>2
    <3>3. CASE i # n + 1
      <4>1. i \in 1 .. n
        BY <3>3
      <4>2. Append(Span(f, b, n), f[b + n])[i] = Span(f, b, n)[i]
        BY <1>1, <2>1, <4>1, AppendProperties
      <4>3. QED BY <1>2, <3>1, <4>1, <4>2
    <3>4. QED BY <3>2, <3>3
  <2>4. QED BY <1>1, <2>1, <2>2, <2>3, SeqEqual
<1>5. Span(f, b, n) \o <<f[b + n]>> = Append(Span(f, b, n), f[b + n])
  <2>1. f[b + n] \in Tensor
    OBVIOUS
  <2>2. QED BY <1>1, <2>1, AppendIsConcat
<1>6. Span(f, b, n + 1)[n + 1] = f[b + n] /\ Span(f, b, n + 1) # << >>
  <2>1. n + 1 \in Nat /\ n + 1 \in 1 .. n + 1 /\ b + (n + 1) - 1 = b + n
    OBVIOUS
  <2>2. Len(Span(f, b, n + 1)) = n + 1
    BY <1>1, <2>1
  <2>3. Len(<< >>) = 0
    OBVIOUS
  <2>4. QED BY <1>2, <2>1, <2>2, <2>3
<1>7. ASSUME n > 0
      PROVE  /\ Span(f, b, n) # << >> /\ Head(Span(f, b, n)) = f[b]
             /\ Tail(Span(f, b, n)) = Span(f, b + 1, n - 1)
  <2>1. Span(f, b, n) # << >> /\ Span(f, b, n) \in Seq(Tensor) /\ Len(Span(f, b, n)) = n
    BY <1>1, <1>7
  <2>2. Head(Span(f, b, n)) = f[b]
    BY <1>2, <1>7, <2>1
  <2>3. /\ n - 1 \in Nat /\ b + 1 \in Nat
        /\ Tail(Span(f, b, n)) \in Seq(Tensor) /\ Len(Tail(Span(f, b, n))) = n - 1
        /\ \A i \in 1 .. n - 1 : Tail(Span(f, b, n))[i] = Span(f, b, n)[i + 1]
    BY <1>7, <2>1
  <2>4. Span(f, b + 1, n - 1) \in Seq(Tensor) /\ Len(Span(f, b + 1, n - 1)) = n - 1
    <3>1. \A i \in 1 .. n - 1 : f[(b + 1) + i - 1] \in Tensor
      OBVIOUS
    <3>2. QED BY <2>3, <3>1 DEF Span
  <2>5. \A i \in 1 .. n - 1 : Tail(Span(f, b, n))[i] = Span(f, b + 1, n - 1)[i]
    <3> TAKE i \in 1 .. n - 1
    <3>1. i + 1 \in 1 .. n /\ b + (i + 1) - 1 = (b + 1) + i - 1
      OBVIOUS
    <3>2. Span(f, b + 1, n - 1)[i] = f[(b + 1) + i - 1]
      BY DEF Span
    <3>3. QED BY <1>2, <2>3, <3>1, <3>2
  <2>6. QED BY <2>1, <2>2, <2>3, <2>4, <2>5, SeqEqual
<1>8. QED BY <1>1, <1>3, <1>4, <1>5, <1>6, <1>7

InputsOf(r, c)  == [i \in Nat |-> InputOf(r, c, i)]
OutputsOf(r, c) == [i \in Nat |-> OutputOf(r, c, i)]

LEMMA TensorsOf ==
  ASSUME NEW r \in Ranks, NEW c \in Chunks
  PROVE  /\ InputsOf(r, c) \in [Nat -> Tensor] /\ OutputsOf(r, c) \in [Nat -> Tensor]
         /\ \A i \in Nat : GradOf(r, c, i) \in Tensor
         /\ StageOf(r, c) \in Nat /\ (IsFirstStage(r, c) => StageOf(r, c) = 0)
<1>1. P \in Nat
  BY HalfFacts
<1>2. StageOf(r, c) \in Nat /\ (IsFirstStage(r, c) => StageOf(r, c) = 0)
  <2>1. CASE c = 0
    BY <1>1, <2>1 DEF StageOf, Ranks, IsFirstStage
  <2>2. CASE c = 1
    BY <1>1, <2>2 DEF StageOf, Ranks, IsFirstStage
  <2>3. CASE c \in {2, 3}
    BY <1>1, <2>3 DEF StageOf, Ranks, IsFirstStage
  <2>4. QED BY <2>1, <2>2, <2>3 DEF Chunks
<1>3. Pipe(c) \in {0, 1} /\ StageOf(r, c) + 1 \in Nat
  BY <1>2 DEF Pipe, Chunks
<1>4. \A i \in Nat : InputOf(r, c, i) \in Tensor /\ OutputOf(r, c, i) \in Tensor
                     /\ GradOf(r, c, i) \in Tensor
  BY <1>2, <1>3 DEF InputOf, OutputOf, GradOf, Act, Grad, None, Tensor
<1>5. QED BY <1>2, <1>4 DEF InputsOf, OutputsOf

----
(***************************************************************************)
(* The lists of a device at place p.  Of every chunk it keeps the inputs   *)
(* and outputs of the passes begun and not finished; the input or the      *)
(* gradient of the pass that comes next is there as well, unless the       *)
(* device waits for it.                                                    *)
(***************************************************************************)
Waits(op) == op.from # Nobody

OutputsAt(r, p, outs) ==
  \A c \in Chunks : outs[c] = Span(OutputsOf(r, c), Backwards(r, c, p), Kept(r, c, p))

InputsAt(r, p, op, ins) ==
  \A c \in Chunks :
    \/ /\ ins[c] = Span(InputsOf(r, c), Backwards(r, c, p), Kept(r, c, p))
       /\ ForwardOf(r, c, p) => Waits(op) \/ IsFirstStage(r, c)
    \/ /\ ins[c] = Span(InputsOf(r, c), Backwards(r, c, p), Kept(r, c, p) + 1)
       /\ ForwardOf(r, c, p) /\ ~Waits(op)

GradsAt(r, p, op, grads) ==
  \A c \in Chunks :
    grads[c] = IF BackwardOf(r, c, p) /\ ~Waits(op) /\ ~IsLastStage(r, c)
               THEN <<GradOf(r, c, Backwards(r, c, p))>> ELSE << >>

ListsAt(r, p, op, ins, outs, grads) ==
  /\ OutputsAt(r, p, outs)
  /\ ~Over(p) => InputsAt(r, p, op, ins)
  /\ GradsAt(r, p, op, grads)

\* The inputs before anything is received for the pass that comes next.
InputsKept(r, p, ins) ==
  \A c \in Chunks : ins[c] = Span(InputsOf(r, c), Backwards(r, c, p), Kept(r, c, p))

Added(new, old, d, ts) == \A c \in Chunks : new[c] = old[c] \o (IF c = d THEN ts ELSE << >>)

Holds(row, d, ts) == \A c \in Chunks : row[c] = IF c = d THEN ts ELSE << >>

LEMMA AskedInputs ==
  ASSUME NEW r \in Ranks, NEW p, GoodPlace(r, p), NEW kept, NEW ins, NEW op, NEW d, NEW ti, NEW tg,
         InputsKept(r, p, kept), AsksFor(r, p, op, d, ti, tg), ~Over(p),
         Added(ins, kept, d, ti)
  PROVE  InputsAt(r, p, op, ins)
<1> SUFFICES ASSUME NEW c \in Chunks
             PROVE  \/ /\ ins[c] = Span(InputsOf(r, c), Backwards(r, c, p), Kept(r, c, p))
                       /\ ForwardOf(r, c, p) => op.from # Nobody \/ IsFirstStage(r, c)
                    \/ /\ ins[c] = Span(InputsOf(r, c), Backwards(r, c, p), Kept(r, c, p) + 1)
                       /\ ForwardOf(r, c, p) /\ op.from = Nobody
  BY DEF InputsAt, Waits
<1> DEFINE f == InputsOf(r, c)
           b == Backwards(r, c, p)
           n == Kept(r, c, p)
           e == PassChunk(r, p)
<1>1. /\ f \in [Nat -> Tensor] /\ b \in Nat /\ n \in Nat /\ Forwards(r, c, p) \in Nat
      /\ Forwards(r, c, p) = b + n
  BY TensorsOf, CountsNext, KeptPasses DEF Kept
<1>2. /\ Span(f, b, n) \in Seq(Tensor)
      /\ Span(f, b, n) \o <<f[b + n]>> = Span(f, b, n + 1)
  BY <1>1, SpanFacts
<1>3. f[b + n] = InputOf(r, c, Forwards(r, c, p))
  BY <1>1 DEF InputsOf
<1>4. ForwardOf(r, c, p) <=> ForwardAt(p) /\ e = c
  BY PassFacts
<1>5. kept[c] = Span(f, b, n)
  BY DEF InputsKept
<1>6. Span(f, b, n) \o << >> = Span(f, b, n)
  BY <1>2, ConcatEmptySeq
<1> HIDE DEF f, b, n, e
<1>7. ASSUME c # d \/ ti = << >>
      PROVE  ins[c] = Span(f, b, n)
  BY <1>5, <1>6, <1>7 DEF Added
<1>8. CASE op.from # Nobody
  <2>1. ti = << >>
    BY <1>8 DEF AsksFor
  <2>2. QED BY <1>7, <1>8, <2>1 DEF f, b, n
<1>9. CASE op.from = Nobody /\ ForwardAt(p)
  <2>1. \/ ti = << >> /\ IsFirstStage(r, e)
        \/ d = e /\ ti = <<InputOf(r, e, Forwards(r, e, p))>>
    BY <1>9 DEF AsksFor, e
  <2>2. CASE ti = << >> /\ IsFirstStage(r, e)
    BY <1>4, <1>7, <2>2 DEF f, b, n
  <2>3. CASE d = e /\ ti = <<InputOf(r, e, Forwards(r, e, p))>> /\ c # e
    BY <1>4, <1>7, <2>3 DEF f, b, n
  <2>4. CASE d = e /\ ti = <<InputOf(r, e, Forwards(r, e, p))>> /\ c = e
    <3>1. ins[c] = Span(f, b, n + 1)
      BY <1>2, <1>3, <1>5, <2>4 DEF Added
    <3>2. QED BY <1>4, <1>9, <2>4, <3>1 DEF f, b, n
  <2>5. QED BY <2>1, <2>2, <2>3, <2>4
<1>10. CASE op.from = Nobody /\ ~ForwardAt(p)
  <2>1. ti = << >>
    BY <1>10 DEF AsksFor
  <2>2. QED BY <1>4, <1>7, <1>10, <2>1 DEF f, b, n
<1>11. QED BY <1>8, <1>9, <1>10

LEMMA AskedGrads ==
  ASSUME NEW r \in Ranks, NEW p, GoodPlace(r, p), NEW grads, NEW op, NEW d, NEW ti, NEW tg,
         AsksFor(r, p, op, d, ti, tg),
         Holds(grads, d, tg)
  PROVE  GradsAt(r, p, op, grads)
<1> SUFFICES ASSUME NEW c \in Chunks
             PROVE  grads[c] = IF BackwardOf(r, c, p) /\ op.from = Nobody /\ ~IsLastStage(r, c)
                               THEN <<GradOf(r, c, Backwards(r, c, p))>> ELSE << >>
  BY DEF GradsAt, Waits
<1> DEFINE e == PassChunk(r, p)
<1>1. /\ BackwardOf(r, c, p) <=> IsPass(r, p) /\ ~ForwardAt(p) /\ e = c
      /\ ForwardAt(p) => IsPass(r, p)
  BY PassFacts
<1> HIDE DEF e
<1>2. CASE op.from # Nobody
  BY <1>2 DEF AsksFor, Holds
<1>3. CASE op.from = Nobody /\ (ForwardAt(p) \/ ~IsPass(r, p))
  BY <1>1, <1>3 DEF AsksFor, Holds
<1>4. CASE op.from = Nobody /\ IsPass(r, p) /\ ~ForwardAt(p)
  <2>1. IF IsLastStage(r, e) THEN tg = << >> ELSE d = e /\ tg = <<GradOf(r, e, Backwards(r, e, p))>>
    BY <1>4 DEF AsksFor, e
  <2>2. QED BY <1>1, <1>4, <2>1 DEF Holds
<1>5. QED BY <1>2, <1>3, <1>4

\* After the pass at p the device is at the next place; what it has asked for is in its lists.
LEMMA AskedLists ==
  ASSUME NEW r \in Ranks, NEW p, GoodPlace(r, p), NEW kept, NEW ins, NEW outs, NEW grads,
         NEW op, NEW d, NEW ti, NEW tg,
         OutputsAt(r, p, outs), ~Over(p) => InputsKept(r, p, kept), AsksFor(r, p, op, d, ti, tg),
         Added(ins, kept, d, ti),
         Holds(grads, d, tg)
  PROVE  ListsAt(r, p, op, ins, outs, grads)
<1>1. ~Over(p) => InputsAt(r, p, op, ins)
  BY AskedInputs
<1>2. GradsAt(r, p, op, grads)
  BY AskedGrads
<1>3. QED BY <1>1, <1>2 DEF ListsAt

----
(***************************************************************************)
(* The lists before and after a pass.                                      *)
(***************************************************************************)
LEMMA NotOver ==
  ASSUME NEW r \in Ranks, NEW p, GoodPlace(r, p)
  PROVE  /\ IsPass(r, p) => ~Over(p)
         /\ Over(p) => Over(NextPlace(r, p))
<1>1. IsPass(r, p) => ~Over(p)
  BY DEF IsPass, ForwardAt, TurnAt, Over
<1>2. p.phase \in {"finish", "done"} => NextPlace(r, p).phase = "done"
  BY ComingNext
<1>3. QED BY <1>1, <1>2 DEF Over

\* What the counts of chunk c become.
LEMMA KeptNext ==
  ASSUME NEW r \in Ranks, NEW p, GoodPlace(r, p), NEW c \in Chunks
  PROVE  LET p1 == NextPlace(r, p)
         IN  /\ GoodPlace(r, p1)
             /\ Backwards(r, c, p) \in Nat /\ Kept(r, c, p) \in Nat /\ Kept(r, c, p1) \in Nat
             /\ Forwards(r, c, p) = Backwards(r, c, p) + Kept(r, c, p)
             /\ ForwardOf(r, c, p) => /\ Backwards(r, c, p1) = Backwards(r, c, p)
                                      /\ Kept(r, c, p1) = Kept(r, c, p) + 1
             /\ BackwardOf(r, c, p) => /\ Backwards(r, c, p1) = Backwards(r, c, p) + 1
                                       /\ Kept(r, c, p1) = Kept(r, c, p) - 1
             /\ ~ForwardOf(r, c, p) /\ ~BackwardOf(r, c, p) =>
                  Backwards(r, c, p1) = Backwards(r, c, p) /\ Kept(r, c, p1) = Kept(r, c, p)
<1> DEFINE p1 == NextPlace(r, p)
<1>1. GoodPlace(r, p1)
  BY NextPlaceGood
<1>2. /\ Forwards(r, c, p) \in Nat /\ Backwards(r, c, p) \in Nat
      /\ Forwards(r, c, p1) = Forwards(r, c, p) + (IF ForwardOf(r, c, p) THEN 1 ELSE 0)
      /\ Backwards(r, c, p1) = Backwards(r, c, p) + (IF BackwardOf(r, c, p) THEN 1 ELSE 0)
  BY CountsNext
<1>3. Kept(r, c, p) \in Nat /\ Kept(r, c, p1) \in Nat
  BY <1>1, KeptPasses
<1>4. ~(ForwardOf(r, c, p) /\ BackwardOf(r, c, p))
  BY DEF ForwardOf, BackwardOf, ForwardAt, TurnAt
<1> HIDE DEF p1
<1>5. QED BY <1>1, <1>2, <1>3, <1>4 DEF Kept, p1

LEMMA ForwardLists ==
  ASSUME NEW r \in Ranks, NEW p, GoodPlace(r, p), ForwardAt(p), NEW op, ~Waits(op),
         NEW ins, NEW outs, NEW grads, ListsAt(r, p, op, ins, outs, grads)
  PROVE  LET c == PassChunk(r, p)
             i == Forwards(r, c, p)
             p1 == NextPlace(r, p)
             padded == IF IsFirstStage(r, c) /\ Len(ins[c]) = Len(outs[c])
                       THEN Append(ins[c], None) ELSE ins[c]
         IN  /\ padded # << >> /\ padded[Len(padded)] = InputOf(r, c, i)
             /\ \A row : row[c] = padded /\ (\A x \in Chunks : x # c => row[x] = ins[x])
                           => InputsKept(r, p1, row)
             /\ \A row : /\ row[c] = outs[c] \o <<OutputOf(r, c, i)>>
                         /\ \A x \in Chunks : x # c => row[x] = outs[x]
                        => OutputsAt(r, p1, row)
             /\ \A x \in Chunks : grads[x] = << >>
<1> DEFINE c == PassChunk(r, p)
           i == Forwards(r, c, p)
           p1 == NextPlace(r, p)
           padded == IF IsFirstStage(r, c) /\ Len(ins[c]) = Len(outs[c])
                     THEN Append(ins[c], None) ELSE ins[c]
           f == InputsOf(r, c)
           g == OutputsOf(r, c)
           b == Backwards(r, c, p)
           n == Kept(r, c, p)
<1>1. c \in Chunks /\ IsPass(r, p) /\ ~Over(p)
  BY PassFacts, NotOver
<1>2. \A x \in Chunks : (ForwardOf(r, x, p) <=> x = c) /\ ~BackwardOf(r, x, p)
  BY PassFacts
<1>3. /\ b \in Nat /\ n \in Nat /\ i = b + n
      /\ Backwards(r, c, p1) = b /\ Kept(r, c, p1) = n + 1
  BY <1>1, <1>2, KeptNext
<1>4. \A x \in Chunks : x # c => Backwards(r, x, p1) = Backwards(r, x, p) /\ Kept(r, x, p1) = Kept(r, x, p)
  BY <1>2, KeptNext
<1>5. f \in [Nat -> Tensor] /\ g \in [Nat -> Tensor]
  BY <1>1, TensorsOf
<1>6. f[b + n] = InputOf(r, c, i) /\ g[b + n] = OutputOf(r, c, i)
  BY <1>3 DEF InputsOf, OutputsOf
<1>7. /\ Len(Span(f, b, n)) = n /\ Append(Span(f, b, n), f[b + n]) = Span(f, b, n + 1)
      /\ Span(f, b, n + 1)[n + 1] = f[b + n]
      /\ Span(f, b, n + 1) # << >>
      /\ Len(Span(g, b, n)) = n /\ Span(g, b, n) \o <<g[b + n]>> = Span(g, b, n + 1)
  BY <1>3, <1>5, SpanFacts
<1>8. Len(Span(f, b, n + 1)) = n + 1
  <2>1. n + 1 \in Nat
    BY <1>3
  <2>2. QED BY <1>3, <1>5, <2>1, SpanFacts
<1>9. outs[c] = Span(g, b, n)
  BY <1>1 DEF ListsAt, OutputsAt
<1>10. \/ ins[c] = Span(f, b, n) /\ IsFirstStage(r, c)
       \/ ins[c] = Span(f, b, n + 1)
  BY <1>1, <1>2 DEF ListsAt, InputsAt
<1>11. \A x \in Chunks : x # c => ins[x] = Span(InputsOf(r, x), Backwards(r, x, p), Kept(r, x, p))
  BY <1>1, <1>2 DEF ListsAt, InputsAt
<1>12. padded = Span(f, b, n + 1)
  <2>1. IsFirstStage(r, c) => f[b + n] = None
    BY <1>6 DEF InputOf
  <2> HIDE DEF f, g, b, n, c
  <2>2. n # n + 1
    BY <1>3
  <2>3. QED BY <1>7, <1>8, <1>9, <1>10, <2>1, <2>2
<1>13. ASSUME NEW row, row[c] = padded, \A x \in Chunks : x # c => row[x] = ins[x]
       PROVE  InputsKept(r, p1, row)
  BY <1>3, <1>4, <1>11, <1>12, <1>13 DEF InputsKept
<1>14. ASSUME NEW row, row[c] = outs[c] \o <<OutputOf(r, c, i)>>,
              \A x \in Chunks : x # c => row[x] = outs[x]
       PROVE  OutputsAt(r, p1, row)
  <2>1. row[c] = Span(g, b, n + 1)
    BY <1>6, <1>7, <1>9, <1>14
  <2>2. QED BY <1>3, <1>4, <1>14, <2>1 DEF ListsAt, OutputsAt
<1>15. \A x \in Chunks : grads[x] = << >>
  BY <1>2 DEF ListsAt, GradsAt
<1>16. padded # << >> /\ padded[Len(padded)] = InputOf(r, c, i)
  BY <1>6, <1>7, <1>8, <1>12
<1> HIDE DEF padded, i, p1, c
<1>17. QED BY <1>13, <1>14, <1>15, <1>16 DEF padded, i, p1, c

LEMMA BackwardLists ==
  ASSUME NEW r \in Ranks, NEW p, GoodPlace(r, p), IsPass(r, p), ~ForwardAt(p), NEW op, ~Waits(op),
         NEW ins, NEW outs, NEW grads, ListsAt(r, p, op, ins, outs, grads)
  PROVE  LET c == PassChunk(r, p)
             i == Backwards(r, c, p)
             p1 == NextPlace(r, p)
         IN  /\ ins[c] # << >> /\ Head(ins[c]) = InputOf(r, c, i)
             /\ outs[c] # << >> /\ Head(outs[c]) = OutputOf(r, c, i)
             /\ grads[c] = IF IsLastStage(r, c) THEN << >> ELSE <<GradOf(r, c, i)>>
             /\ \A x \in Chunks : x # c => grads[x] = << >>
             /\ \A row : row[c] = Tail(ins[c]) /\ (\A x \in Chunks : x # c => row[x] = ins[x])
                           => InputsKept(r, p1, row)
             /\ \A row : row[c] = Tail(outs[c]) /\ (\A x \in Chunks : x # c => row[x] = outs[x])
                           => OutputsAt(r, p1, row)
<1> DEFINE c == PassChunk(r, p)
           i == Backwards(r, c, p)
           p1 == NextPlace(r, p)
           f == InputsOf(r, c)
           g == OutputsOf(r, c)
           n == Kept(r, c, p)
<1>1. c \in Chunks /\ ~Over(p)
  BY PassFacts, NotOver
<1>2. \A x \in Chunks : (BackwardOf(r, x, p) <=> x = c) /\ ~ForwardOf(r, x, p)
  BY PassFacts
<1>3. /\ i \in Nat /\ n \in Nat /\ Kept(r, c, p1) \in Nat
      /\ Backwards(r, c, p1) = i + 1 /\ Kept(r, c, p1) = n - 1
  BY <1>1, <1>2, KeptNext
<1>4. \A x \in Chunks : x # c => Backwards(r, x, p1) = Backwards(r, x, p) /\ Kept(r, x, p1) = Kept(r, x, p)
  BY <1>2, KeptNext
<1>5. f \in [Nat -> Tensor] /\ g \in [Nat -> Tensor]
  BY <1>1, TensorsOf
<1>6. f[i] = InputOf(r, c, i) /\ g[i] = OutputOf(r, c, i)
  BY <1>3 DEF InputsOf, OutputsOf
<1>7. /\ Span(f, i, n) # << >> /\ Head(Span(f, i, n)) = f[i] /\ Tail(Span(f, i, n)) = Span(f, i + 1, n - 1)
      /\ Span(g, i, n) # << >> /\ Head(Span(g, i, n)) = g[i] /\ Tail(Span(g, i, n)) = Span(g, i + 1, n - 1)
  <2>1. n > 0
    BY <1>3
  <2>2. QED BY <1>3, <1>5, <2>1, SpanFacts
<1>8. outs[c] = Span(g, i, n) /\ ins[c] = Span(f, i, n)
  BY <1>1, <1>2 DEF ListsAt, OutputsAt, InputsAt
<1>9. \A x \in Chunks : x # c => ins[x] = Span(InputsOf(r, x), Backwards(r, x, p), Kept(r, x, p))
  BY <1>1, <1>2 DEF ListsAt, InputsAt
<1>10. ASSUME NEW row, row[c] = Tail(ins[c]), \A x \in Chunks : x # c => row[x] = ins[x]
       PROVE  InputsKept(r, p1, row)
  BY <1>3, <1>4, <1>7, <1>8, <1>9, <1>10 DEF InputsKept
<1>11. ASSUME NEW row, row[c] = Tail(outs[c]), \A x \in Chunks : x # c => row[x] = outs[x]
       PROVE  OutputsAt(r, p1, row)
  BY <1>3, <1>4, <1>7, <1>8, <1>11 DEF ListsAt, OutputsAt
<1>12. /\ grads[c] = IF IsLastStage(r, c) THEN << >> ELSE <<GradOf(r, c, i)>>
       /\ \A x \in Chunks : x # c => grads[x] = << >>
  BY <1>1, <1>2 DEF ListsAt, GradsAt
<1>13. /\ ins[c] # << >> /\ Head(ins[c]) = InputOf(r, c, i)
       /\ outs[c] # << >> /\ Head(outs[c]) = OutputOf(r, c, i)
  BY <1>6, <1>7, <1>8
<1> HIDE DEF i, p1, c
<1>14. QED BY <1>10, <1>11, <1>12, <1>13 DEF i, p1, c

LEMMA OtherLists ==
  ASSUME NEW r \in Ranks, NEW p, GoodPlace(r, p), ~IsPass(r, p), NEW op,
         NEW ins, NEW outs, NEW grads, ListsAt(r, p, op, ins, outs, grads)
  PROVE  LET p1 == NextPlace(r, p)
         IN  /\ ~Over(p1) => InputsKept(r, p1, ins)
             /\ OutputsAt(r, p1, outs)
             /\ \A x \in Chunks : grads[x] = << >>
<1> DEFINE p1 == NextPlace(r, p)
<1>1. ~Over(p1) => ~Over(p)
  BY NotOver
<1>2. \A x \in Chunks : ~BackwardOf(r, x, p) /\ ~ForwardOf(r, x, p)
  BY PassFacts
<1>3. \A x \in Chunks : Backwards(r, x, p1) = Backwards(r, x, p) /\ Kept(r, x, p1) = Kept(r, x, p)
  BY <1>2, KeptNext
<1>4. ~Over(p1) => InputsKept(r, p1, ins)
  BY <1>1, <1>2, <1>3 DEF ListsAt, InputsAt, InputsKept
<1>5. OutputsAt(r, p1, outs)
  BY <1>3 DEF ListsAt, OutputsAt
<1>6. \A x \in Chunks : grads[x] = << >>
  BY <1>2 DEF ListsAt, GradsAt
<1>7. QED BY <1>4, <1>5, <1>6

----
(***************************************************************************)
(* The operation of a device at place p: it waits for the tensor of the    *)
(* pass that comes next, and sends that of the last pass of a link.        *)
(***************************************************************************)
OpAt(r, p, op) ==
  /\ op.from # Nobody => /\ op.from = Source(r, p)
                         /\ op.box = (IF ForwardAt(p) THEN "in" ELSE "grad")
                         /\ op.chunk = PassChunk(r, p)
  /\ op.to # Nobody =>
       \E e \in {0, 1} : /\ op.to = Below(r, e)
                         /\ op.tensor = LinkTensor(r, e, LinkDone(r, e, p) - 1)

LEMMA OpNext ==
  ASSUME NEW r \in Ranks, NEW p, GoodPlace(r, p), NEW op, NEW d, NEW ti, NEW tg,
         Handed(r, p, op, d, ti, tg)
  PROVE  OpAt(r, NextPlace(r, p), op)
<1> DEFINE p1 == NextPlace(r, p)
           e == PassLink(r, p)
<1>1. op.from # Nobody => /\ op.from = Source(r, p1)
                          /\ op.box = (IF ForwardAt(p1) THEN "in" ELSE "grad")
                          /\ op.chunk = PassChunk(r, p1)
  BY DEF Handed, AsksFor
<1>2. ASSUME op.to # Nobody
      PROVE  e \in {0, 1} /\ op.to = Below(r, e) /\ op.tensor = LinkTensor(r, e, LinkDone(r, e, p1) - 1)
  <2>1. op.to = Target(r, p) /\ op.tensor = Made(r, p)
    BY <1>2 DEF Handed, Sends
  <2>2. IsPass(r, p) /\ op.to = Below(r, e)
    BY <1>2, <2>1 DEF Target, Neighbour
  <2>3. e \in {0, 1}
    BY PassFacts
  <2>4. OnLink(r, e, p)
    BY <2>2 DEF OnLink
  <2> HIDE DEF e, p1
  <2>5. LinkDone(r, e, p) \in Nat /\ LinkDone(r, e, p1) = LinkDone(r, e, p) + 1
    BY <2>3, <2>4, PassOnPath DEF p1
  <2>6. Made(r, p) = LinkTensor(r, e, LinkDone(r, e, p))
    BY <2>3, <2>4, LinkTensors
  <2>7. LinkDone(r, e, p1) - 1 = LinkDone(r, e, p)
    BY <2>5
  <2>8. QED BY <2>1, <2>2, <2>3, <2>6, <2>7
<1>3. QED BY <1>1, <1>2 DEF OpAt

----
(***************************************************************************)
(* The two ends of a link.  Put is how many tensors a device has put on    *)
(* link e, Got how many of them the device below has taken off.            *)
(***************************************************************************)
Put(r, e, p, op) == LinkDone(r, e, p) - (IF op.to = Below(r, e) THEN 1 ELSE 0)
Got(r, e, p, op) == LinkDone(r, e, p) + (IF OnLink(r, e, p) /\ op.from = Nobody THEN 1 ELSE 0)

LEMMA LinkEnds ==
  ASSUME NEW a \in Ranks, NEW b \in Ranks, NEW e \in {0, 1}, NEW d \in {0, 1}
  PROVE  /\ Below(a, e) = b <=> Above(b, e) = a
         /\ Below(a, e) = b /\ Above(b, d) = a => d = e
         /\ Below(a, e) = Below(a, d) => d = e
         /\ Above(a, e) = Above(a, d) => d = e
         /\ Below(a, e) # a
BY HalfFacts DEF Below, Above, Ranks

LEMMA LinkNext ==
  ASSUME NEW r \in Ranks, NEW p, GoodPlace(r, p), NEW e \in {0, 1},
         NEW idle, idle.to = Nobody, idle.from = Nobody,
         NEW op, NEW d, NEW ti, NEW tg, Handed(r, p, op, d, ti, tg)
  PROVE  /\ Below(r, e) \in Ranks => Put(r, e, NextPlace(r, p), op) = Put(r, e, p, idle)
         /\ Above(r, e) \in Ranks => Got(r, e, NextPlace(r, p), op) = Got(r, e, p, idle)
<1> DEFINE p1 == NextPlace(r, p)
           m == LinkDone(r, e, p)
<1>1. m \in Nat /\ LinkDone(r, e, p1) = m + (IF OnLink(r, e, p) THEN 1 ELSE 0)
  BY PassOnPath
<1>2. GoodPlace(r, p1)
  BY NextPlaceGood
<1>3. \A q \in Ranks : q # Nobody
  BY NoneType
<1>4. op.to = Target(r, p) /\ op.from = Source(r, p1)
  BY DEF Handed, Sends, AsksFor
<1>5. PassLink(r, p) \in {0, 1} /\ PassLink(r, p1) \in {0, 1}
  BY <1>2, PassFacts
<1> HIDE DEF p1, m
<1>6. ASSUME Below(r, e) \in Ranks
      PROVE  Put(r, e, p1, op) = Put(r, e, p, idle)
  <2>1. Put(r, e, p, idle) = m
    <3>1. idle.to # Below(r, e)
      BY <1>3, <1>6
    <3>2. QED BY <1>1, <3>1 DEF Put, m
  <2>2. CASE OnLink(r, e, p)
    <3>1. op.to = Below(r, e)
      BY <1>4, <1>6, <2>2 DEF OnLink, Target, Neighbour
    <3>2. QED BY <1>1, <2>1, <2>2, <3>1 DEF Put
  <2>3. CASE ~OnLink(r, e, p)
    <3>1. op.to # Below(r, e)
      <4>1. CASE IsPass(r, p)
        <5>1. PassLink(r, p) # e
          BY <2>3, <4>1 DEF OnLink
        <5>2. Below(r, PassLink(r, p)) # Below(r, e)
          BY <1>5, <5>1, LinkEnds
        <5>3. QED BY <1>3, <1>4, <1>6, <4>1, <5>2 DEF Target, Neighbour
      <4>2. CASE ~IsPass(r, p)
        BY <1>3, <1>4, <1>6, <4>2 DEF Target
      <4>3. QED BY <4>1, <4>2
    <3>2. QED BY <1>1, <2>1, <2>3, <3>1 DEF Put
  <2>4. QED BY <2>2, <2>3
<1>7. ASSUME Above(r, e) \in Ranks
      PROVE  Got(r, e, p1, op) = Got(r, e, p, idle)
  <2>1. Got(r, e, p, idle) = LinkDone(r, e, p1)
    BY <1>1 DEF Got, m
  <2>2. ~(OnLink(r, e, p1) /\ op.from = Nobody)
    BY <1>3, <1>4, <1>7 DEF OnLink, Source, Neighbour
  <2>3. LinkDone(r, e, p1) \in Nat
    BY <1>1
  <2>4. QED BY <2>1, <2>2, <2>3 DEF Got
<1>8. QED BY <1>6, <1>7 DEF p1

(***************************************************************************)
(* A tensor goes from a to b: it is the one that the pass of b needs.      *)
(***************************************************************************)
LEMMA Delivered ==
  ASSUME NEW a \in Ranks, NEW b \in Ranks, NEW pa, NEW pb, GoodPlace(a, pa), GoodPlace(b, pb),
         NEW opa, NEW opb, OpAt(a, pa, opa), OpAt(b, pb, opb), opa.to = b, opb.from = a,
         \A e \in {0, 1} : Below(a, e) = b => Put(a, e, pa, opa) = Got(b, e, pb, opb)
  PROVE  \E e \in {0, 1} :
           /\ Below(a, e) = b /\ Above(b, e) = a /\ OnLink(b, e, pb)
           /\ LinkDone(a, e, pa) = LinkDone(b, e, pb) + 1
           /\ opa.tensor = Needed(b, pb)
<1>1. a # Nobody /\ b # Nobody
  BY NoneType
<1>2. PICK e \in {0, 1} : b = Below(a, e) /\ opa.tensor = LinkTensor(a, e, LinkDone(a, e, pa) - 1)
  BY <1>1 DEF OpAt
<1>3. a = Source(b, pb)
  BY <1>1 DEF OpAt
<1>4. IsPass(b, pb) /\ a = Above(b, PassLink(b, pb))
  BY <1>1, <1>3 DEF Source, Neighbour
<1>5. PassLink(b, pb) \in {0, 1}
  BY PassFacts
<1>6. PassLink(b, pb) = e /\ Above(b, e) = a
  BY <1>2, <1>4, <1>5, LinkEnds
<1>7. OnLink(b, e, pb)
  BY <1>4, <1>6 DEF OnLink
<1>8. LinkDone(a, e, pa) \in Nat /\ LinkDone(b, e, pb) \in Nat
  BY PassOnPath
<1>9. Put(a, e, pa, opa) = LinkDone(a, e, pa) - 1
  BY <1>2 DEF Put
<1>10. Got(b, e, pb, opb) = LinkDone(b, e, pb)
  BY <1>1, <1>8 DEF Got
<1>11. LinkDone(a, e, pa) - 1 = LinkDone(b, e, pb)
  BY <1>2, <1>9, <1>10
<1>12. Needed(b, pb) = LinkTensor(a, e, LinkDone(b, e, pb))
  BY <1>6, <1>7, LinkTensors
<1>13. LinkDone(a, e, pa) = LinkDone(b, e, pb) + 1
  BY <1>8, <1>11
<1>14. QED BY <1>2, <1>6, <1>7, <1>11, <1>12, <1>13

\* Afterwards both ends of the link agree again, and no other link is touched.
LEMMA DeliveredLinks ==
  ASSUME NEW a \in Ranks, NEW b \in Ranks, NEW pa, NEW pb, GoodPlace(a, pa), GoodPlace(b, pb),
         NEW opa, NEW opb, NEW left, NEW got, opa.to = b, opb.from = a,
         left.to = Nobody, left.from = opa.from, got.from = Nobody, got.to = opb.to,
         NEW e \in {0, 1}, Below(a, e) = b, Above(b, e) = a, OnLink(b, e, pb),
         LinkDone(a, e, pa) = LinkDone(b, e, pb) + 1,
         NEW d \in {0, 1}
  PROVE  /\ Put(a, e, pa, left) = Got(b, e, pb, got)
         /\ d # e => Put(a, d, pa, left) = Put(a, d, pa, opa) \/ Below(a, d) \notin Ranks
         /\ d # e => Got(b, d, pb, got) = Got(b, d, pb, opb)
         /\ Put(b, d, pb, got) = Put(b, d, pb, opb)
         /\ Got(a, d, pa, left) = Got(a, d, pa, opa)
<1>1. \A q \in Ranks : q # Nobody
  BY NoneType
<1>2. LinkDone(a, e, pa) \in Nat /\ LinkDone(b, e, pb) \in Nat
  BY PassOnPath
<1>3. Put(a, e, pa, left) = LinkDone(a, e, pa)
  BY <1>1, <1>2 DEF Put
<1>4. Got(b, e, pb, got) = LinkDone(b, e, pb) + 1
  BY DEF Got
<1>5. ASSUME d # e, Below(a, d) \in Ranks
      PROVE  Put(a, d, pa, left) = Put(a, d, pa, opa)
  <2>1. left.to # Below(a, d)
    BY <1>1, <1>5
  <2>2. opa.to # Below(a, d)
    BY <1>5, LinkEnds
  <2>3. QED BY <2>1, <2>2 DEF Put
<1>6. ASSUME d # e
      PROVE  Got(b, d, pb, got) = Got(b, d, pb, opb)
  <2>1. ~OnLink(b, d, pb)
    BY <1>6 DEF OnLink
  <2>2. QED BY <2>1 DEF Got
<1>7. QED BY <1>3, <1>4, <1>5, <1>6 DEF Put, Got

\* What the tensor does to the lists of b.
LEMMA DeliveredLists ==
  ASSUME NEW b \in Ranks, NEW p, GoodPlace(b, p), NEW op, OpAt(b, p, op), op.from # Nobody,
         NEW ins, NEW outs, NEW grads, ListsAt(b, p, op, ins, outs, grads),
         NEW got, got.from = Nobody
  PROVE  /\ op.chunk \in Chunks /\ op.box \in {"in", "grad"}
         /\ op.box = "in" =>
              \A row : row[op.chunk] = ins[op.chunk] \o <<Needed(b, p)>>
                       /\ (\A x \in Chunks : x # op.chunk => row[x] = ins[x])
                         => ListsAt(b, p, got, row, outs, grads)
         /\ op.box = "grad" =>
              \A row : row[op.chunk] = grads[op.chunk] \o <<Needed(b, p)>>
                       /\ (\A x \in Chunks : x # op.chunk => row[x] = grads[x])
                         => ListsAt(b, p, got, ins, outs, row)
<1> DEFINE c == PassChunk(b, p)
           q == Role(b, p)
<1>1. /\ op.from = Source(b, p) /\ op.chunk = c
      /\ op.box = (IF ForwardAt(p) THEN "in" ELSE "grad")
  BY DEF OpAt
<1>2. IsPass(b, p)
  BY <1>1 DEF Source
<1>3. c \in Chunks
  BY <1>2, PassFacts
<1>4. /\ ForwardAt(p) => ~IsFirstStage(b, c)
      /\ ~ForwardAt(p) => ~IsLastStage(b, c)
  <2>1. /\ ForwardAt(p) => /\ Source(b, p) = IF End(b) /\ q \in {0, 2} THEN Nobody ELSE PrevRank(b, c)
                           /\ IsFirstStage(b, c) <=> End(b) /\ q = 0
        /\ ~ForwardAt(p) => /\ Source(b, p) = IF End(b) /\ q \in {0, 2} THEN Nobody ELSE NextRank(b, c)
                            /\ IsLastStage(b, c) <=> End(b) /\ q = 0
    BY <1>2, PassSides
  <2> HIDE DEF c, q
  <2>2. QED BY <1>1, <2>1
<1>5. Waits(op) /\ ~Waits(got) /\ ~Over(p)
  BY <1>2, NotOver DEF Waits
<1>6. CASE ForwardAt(p)
  <2> DEFINE f == InputsOf(b, c)
             i == Backwards(b, c, p)
             n == Kept(b, c, p)
  <2>1. Needed(b, p) = InputOf(b, c, Forwards(b, c, p))
    BY <1>4, <1>6 DEF Needed, InputOf
  <2>2. \A x \in Chunks : (ForwardOf(b, x, p) <=> x = c) /\ ~BackwardOf(b, x, p)
    BY <1>6, PassFacts
  <2>3. \A x \in Chunks : ins[x] = Span(InputsOf(b, x), Backwards(b, x, p), Kept(b, x, p))
    BY <1>5 DEF ListsAt, InputsAt
  <2>4. f \in [Nat -> Tensor] /\ i \in Nat /\ n \in Nat /\ Forwards(b, c, p) = i + n
    BY <1>3, TensorsOf, KeptNext
  <2>5. f[i + n] = Needed(b, p)
    BY <2>1, <2>4 DEF InputsOf
  <2>6. Span(f, i, n) \o <<f[i + n]>> = Span(f, i, n + 1)
    BY <2>4, SpanFacts
  <2>7. ins[c] \o <<Needed(b, p)>> = Span(f, i, n + 1)
    BY <1>3, <2>3, <2>5, <2>6
  <2>8. ASSUME NEW row, row[c] = ins[c] \o <<Needed(b, p)>>, \A x \in Chunks : x # c => row[x] = ins[x]
        PROVE  ListsAt(b, p, got, row, outs, grads)
    <3>1. InputsAt(b, p, got, row)
      BY <1>5, <2>2, <2>3, <2>7, <2>8 DEF InputsAt
    <3>2. GradsAt(b, p, got, grads)
      BY <2>2 DEF ListsAt, GradsAt
    <3>3. QED BY <3>1, <3>2 DEF ListsAt
  <2> HIDE DEF c
  <2>9. QED BY <1>1, <1>3, <1>6, <2>8
<1>7. CASE ~ForwardAt(p)
  <2>1. Needed(b, p) = GradOf(b, c, Backwards(b, c, p))
    BY <1>7 DEF Needed
  <2>2. \A x \in Chunks : (BackwardOf(b, x, p) <=> x = c) /\ ~ForwardOf(b, x, p)
    BY <1>2, <1>7, PassFacts
  <2>3. \A x \in Chunks : grads[x] = << >>
    BY <1>5 DEF ListsAt, GradsAt
  <2>4. ASSUME NEW row, row[c] = grads[c] \o <<Needed(b, p)>>,
               \A x \in Chunks : x # c => row[x] = grads[x]
        PROVE  ListsAt(b, p, got, ins, outs, row)
    <3>1. row[c] = <<GradOf(b, c, Backwards(b, c, p))>>
      <4> DEFINE t == GradOf(b, c, Backwards(b, c, p))
      <4>1. t \in Tensor
        BY <1>3, TensorsOf, KeptNext
      <4>2. <<t>> \in Seq(Tensor)
        BY <4>1
      <4> HIDE DEF t
      <4>3. << >> \o <<t>> = <<t>>
        BY <4>2, ConcatEmptySeq
      <4>4. row[c] = << >> \o <<t>>
        BY <1>3, <2>1, <2>3, <2>4 DEF t
      <4>5. QED BY <4>3, <4>4 DEF t
    <3>2. GradsAt(b, p, got, row)
      BY <1>4, <1>5, <1>7, <2>2, <2>3, <2>4, <3>1 DEF GradsAt
    <3>3. InputsAt(b, p, got, ins)
      BY <1>5, <2>2 DEF ListsAt, InputsAt
    <3>4. QED BY <3>2, <3>3 DEF ListsAt
  <2> HIDE DEF c
  <2>5. QED BY <1>1, <1>3, <1>7, <2>4
<1>8. QED BY <1>6, <1>7

----
(***************************************************************************)
(* The inductive invariant.  Every list and every operation of a device is *)
(* what its place says, the two ends of every link agree, and a device at  *)
(* the first marker has last run the chunk it receives a gradient for.     *)
(***************************************************************************)
TensorsAt(r) ==
  /\ OpAt(r, pc[r], comm[r])
  /\ ListsAt(r, pc[r], comm[r], inputTensors[r], outputTensors[r], outputTensorGrads[r])

LinksAgree ==
  \A r \in Ranks, e \in {0, 1} :
    Below(r, e) \in Ranks =>
      LET q == Below(r, e)
      IN  Put(r, e, pc[r], comm[r]) = Got(q, e, pc[q], comm[q])

MarkerChunk(r, p, v) ==
  p.phase = "cooldown" /\ ~IsPass(r, p) /\ BackwardK(r, p) = FirstMarker(r) => BackwardRole(r, v) = 3

TensorInv ==
  /\ \A r \in Ranks : TensorsAt(r)
  /\ LinksAgree
  /\ \A r \in Ranks : MarkerChunk(r, pc[r], vrank[r])

\* A step of device r, as the other devices see it.
Alone(r) ==
  /\ Idle(r) /\ Step(r)
  /\ \A q \in Ranks : q # r => /\ comm'[q] = comm[q]
                               /\ vrank'[q] = vrank[q]
                               /\ inputTensors'[q] = inputTensors[q]
                               /\ outputTensors'[q] = outputTensors[q]
                               /\ outputTensorGrads'[q] = outputTensorGrads[q]

\* What is said of device r after a step, in terms of its new state.
LEMMA StepKeepsTensors ==
  ASSUME GoodCounters, TensorInv, NEW r \in Ranks, Alone(r), NEW d, NEW ti, NEW tg, NEW kept,
         Handed(r, pc[r], comm'[r], d, ti, tg),
         ~Over(NextPlace(r, pc[r])) => InputsKept(r, NextPlace(r, pc[r]), kept),
         OutputsAt(r, NextPlace(r, pc[r]), outputTensors'[r]),
         Added(inputTensors'[r], kept, d, ti),
         Holds(outputTensorGrads'[r], d, tg),
         MarkerChunk(r, NextPlace(r, pc[r]), vrank'[r])
  PROVE  TensorInv'
<1> DEFINE p == pc[r]
           p1 == NextPlace(r, p)
<1>1. /\ GoodPlace(r, p) /\ GoodPlace(r, p1)
      /\ pc'[r] = p1 /\ \A q \in Ranks : q # r => pc'[q] = pc[q]
  <2>1. GoodPlace(r, p)
    BY DEF GoodCounters
  <2>2. QED BY <2>1, NextPlaceGood, StepGood DEF Alone
<1>2. OpAt(r, p1, comm'[r])
  BY <1>1, OpNext
<1>3. AsksFor(r, p1, comm'[r], d, ti, tg)
  BY DEF Handed
<1>4. ListsAt(r, p1, comm'[r], inputTensors'[r], outputTensors'[r], outputTensorGrads'[r])
  <2> DEFINE op == comm'[r]
             ins == inputTensors'[r]
             outs == outputTensors'[r]
             grads == outputTensorGrads'[r]
  <2>1. AsksFor(r, p1, op, d, ti, tg) /\ GoodPlace(r, p1)
    BY <1>1, <1>3
  <2>2. ~Over(p1) => InputsKept(r, p1, kept)
    OBVIOUS
  <2>3. OutputsAt(r, p1, outs)
    OBVIOUS
  <2>4. Added(ins, kept, d, ti) /\ Holds(grads, d, tg)
    OBVIOUS
  <2> HIDE DEF op, ins, outs, grads, p1
  <2>5. ListsAt(r, p1, op, ins, outs, grads)
    BY <2>1, <2>2, <2>3, <2>4, AskedLists
  <2>6. QED BY <2>5 DEF op, ins, outs, grads
<1>5. \A q \in Ranks : TensorsAt(q)'
  <2> SUFFICES ASSUME NEW q \in Ranks
               PROVE  TensorsAt(q)'
    OBVIOUS
  <2>1. CASE q = r
    BY <1>1, <1>2, <1>4, <2>1 DEF TensorsAt
  <2>2. CASE q # r
    <3>1. /\ OpAt(q, pc[q], comm[q])
          /\ ListsAt(q, pc[q], comm[q], inputTensors[q], outputTensors[q], outputTensorGrads[q])
      BY DEF TensorInv, TensorsAt
    <3>2. QED BY <1>1, <2>2, <3>1 DEF TensorsAt, Alone
  <2>3. QED BY <2>1, <2>2
<1>6. \A q \in Ranks : MarkerChunk(q, pc'[q], vrank'[q])
  <2> SUFFICES ASSUME NEW q \in Ranks
               PROVE  MarkerChunk(q, pc'[q], vrank'[q])
    OBVIOUS
  <2>1. CASE q = r
    BY <1>1, <2>1
  <2>2. CASE q # r
    BY <1>1, <2>2 DEF TensorInv, Alone
  <2>3. QED BY <2>1, <2>2
<1>7. \A e \in {0, 1} :
        /\ Below(r, e) \in Ranks => Put(r, e, p1, comm'[r]) = Put(r, e, p, comm[r])
        /\ Above(r, e) \in Ranks => Got(r, e, p1, comm'[r]) = Got(r, e, p, comm[r])
  <2> TAKE e \in {0, 1}
  <2>1. comm[r].to = Nobody /\ comm[r].from = Nobody
    BY DEF Alone, Idle
  <2>2. QED BY <1>1, <2>1, LinkNext
<1>8. LinksAgree'
  <2> SUFFICES ASSUME NEW a \in Ranks, NEW e \in {0, 1}, Below(a, e) \in Ranks
               PROVE  Put(a, e, pc'[a], comm'[a]) = Got(Below(a, e), e, pc'[Below(a, e)], comm'[Below(a, e)])
    BY DEF LinksAgree
  <2> DEFINE b == Below(a, e)
  <2>1. Put(a, e, pc[a], comm[a]) = Got(b, e, pc[b], comm[b])
    BY DEF TensorInv, LinksAgree
  <2>2. b \in Ranks /\ Above(b, e) = a /\ b # a
    BY LinkEnds
  <2> HIDE DEF b
  <2>3. Put(a, e, pc'[a], comm'[a]) = Put(a, e, pc[a], comm[a])
    <3>1. CASE a = r
      BY <1>1, <1>7, <3>1
    <3>2. CASE a # r
      BY <1>1, <3>2 DEF Alone
    <3>3. QED BY <3>1, <3>2
  <2>4. Got(b, e, pc'[b], comm'[b]) = Got(b, e, pc[b], comm[b])
    <3>1. CASE b = r
      BY <1>1, <1>7, <2>2, <3>1
    <3>2. CASE b # r
      BY <1>1, <2>2, <3>2 DEF Alone
    <3>3. QED BY <3>1, <3>2
  <2>5. QED BY <2>1, <2>3, <2>4 DEF b
<1>9. QED BY <1>5, <1>6, <1>8 DEF TensorInv

\* What a forward pass reads and computes.
LEMMA ForwardReads ==
  ASSUME GoodCounters, CountInv, TensorInv, NEW r \in Ranks, Idle(r), ForwardAt(pc[r])
  PROVE  LET p == pc[r]
             c == PassChunk(r, p)
             i == Forwards(r, c, p)
         IN  /\ c \in Chunks /\ fed[r][c] = i
             /\ PaddedInputs(r, c) # << >> /\ LastInput(r, c) = InputOf(r, c, i)
             /\ ForwardOutput(r, c) = OutputOf(r, c, i)
             /\ ToSend(r, c) = Sent(r, p)
<1> DEFINE p == pc[r]
           c == PassChunk(r, p)
           i == Forwards(r, c, p)
<1>1. GoodPlace(r, p)
  BY DEF GoodCounters
<1>2. c \in Chunks /\ IsPass(r, p)
  BY <1>1, PassFacts
<1>3. fed[r][c] = i
  BY <1>2 DEF CountInv, CountAt
<1>4. ListsAt(r, p, comm[r], inputTensors[r], outputTensors[r], outputTensorGrads[r]) /\ ~Waits(comm[r])
  BY DEF TensorInv, TensorsAt, Idle, Waits
<1>5. LET padded == IF IsFirstStage(r, c) /\ Len(inputTensors[r][c]) = Len(outputTensors[r][c])
                    THEN Append(inputTensors[r][c], None) ELSE inputTensors[r][c]
      IN  padded # << >> /\ padded[Len(padded)] = InputOf(r, c, i)
  <2> DEFINE op == comm[r]
             ins == inputTensors[r]
             outs == outputTensors[r]
             grads == outputTensorGrads[r]
  <2>1. ListsAt(r, p, op, ins, outs, grads) /\ ~Waits(op) /\ ForwardAt(p)
    BY <1>4
  <2> HIDE DEF op, ins, outs, grads, p
  <2>2. LET padded == IF IsFirstStage(r, c) /\ Len(ins[c]) = Len(outs[c])
                      THEN Append(ins[c], None) ELSE ins[c]
        IN  padded # << >> /\ padded[Len(padded)] = InputOf(r, c, i)
    BY <1>1, <2>1, ForwardLists
  <2>3. QED BY <2>2 DEF ins, outs
<1>6. PaddedInputs(r, c) # << >> /\ LastInput(r, c) = InputOf(r, c, i)
  BY <1>5 DEF PaddedInputs, LastInput
<1>7. StageOf(r, c) \in Nat /\ (IsFirstStage(r, c) => StageOf(r, c) = 0)
  BY <1>2, TensorsOf
<1> HIDE DEF p, c, i
<1>8. ForwardOutput(r, c) = OutputOf(r, c, i)
  <2>1. CASE IsFirstStage(r, c)
    <3>1. LastInput(r, c) = None /\ StageOf(r, c) + 1 = 1
      BY <1>6, <1>7, <2>1 DEF InputOf
    <3>2. QED BY <1>3, <3>1 DEF ForwardOutput, OutputOf
  <2>2. CASE ~IsFirstStage(r, c)
    <3>1. LastInput(r, c) = Act(Pipe(c), i, StageOf(r, c))
      BY <1>6, <2>2 DEF InputOf
    <3>2. LastInput(r, c) # None
      BY <3>1 DEF Act, None
    <3>3. [Act(Pipe(c), i, StageOf(r, c)) EXCEPT !.stage = @ + 1] = Act(Pipe(c), i, StageOf(r, c) + 1)
      BY DEF Act
    <3>4. QED BY <3>1, <3>2, <3>3 DEF ForwardOutput, OutputOf
  <2>3. QED BY <2>1, <2>2
<1>9. ToSend(r, c) = Sent(r, p)
  BY <1>8 DEF ToSend, Sent, Made, c, i, p
<1>10. QED BY <1>2, <1>3, <1>6, <1>8, <1>9 DEF c, i, p

\* What a backward pass reads and computes.
LEMMA BackwardReads ==
  ASSUME GoodCounters, TensorInv, NEW r \in Ranks, Idle(r), IsPass(r, pc[r]), ~ForwardAt(pc[r])
  PROVE  LET p == pc[r]
             c == PassChunk(r, p)
             i == Backwards(r, c, p)
         IN  /\ c \in Chunks
             /\ inputTensors[r][c] # << >> /\ Head(inputTensors[r][c]) = InputOf(r, c, i)
             /\ outputTensors[r][c] # << >> /\ Head(outputTensors[r][c]) = OutputOf(r, c, i)
             /\ outputTensorGrads[r][c] = IF IsLastStage(r, c) THEN << >> ELSE <<GradOf(r, c, i)>>
             /\ (IF IsFirstStage(r, c) THEN None ELSE InputGrad(r, c)) = Sent(r, p)
<1> DEFINE p == pc[r]
           c == PassChunk(r, p)
           i == Backwards(r, c, p)
<1>1. GoodPlace(r, p)
  BY DEF GoodCounters
<1>2. c \in Chunks
  BY <1>1, PassFacts
<1>3. ListsAt(r, p, comm[r], inputTensors[r], outputTensors[r], outputTensorGrads[r]) /\ ~Waits(comm[r])
  BY DEF TensorInv, TensorsAt, Idle, Waits
<1>4. /\ inputTensors[r][c] # << >> /\ Head(inputTensors[r][c]) = InputOf(r, c, i)
      /\ outputTensors[r][c] # << >> /\ Head(outputTensors[r][c]) = OutputOf(r, c, i)
      /\ outputTensorGrads[r][c] = IF IsLastStage(r, c) THEN << >> ELSE <<GradOf(r, c, i)>>
  BY <1>1, <1>3, BackwardLists
<1>5. ASSUME ~IsFirstStage(r, c)
      PROVE  InputGrad(r, c) = Made(r, p)
  <2>1. Head(inputTensors[r][c]) = Act(Pipe(c), i, StageOf(r, c))
    BY <1>4, <1>5 DEF InputOf
  <2>2. [Act(Pipe(c), i, StageOf(r, c)) EXCEPT !.kind = "grad"] = Grad(Pipe(c), i, StageOf(r, c))
    BY DEF Act, Grad
  <2>3. Act(Pipe(c), i, StageOf(r, c)) # None
    BY DEF Act, None
  <2>4. InputGrad(r, c) = Grad(Pipe(c), i, StageOf(r, c))
    BY <2>1, <2>2, <2>3 DEF InputGrad
  <2>5. QED BY <2>4 DEF Made
<1>6. (IF IsFirstStage(r, c) THEN None ELSE InputGrad(r, c)) = Sent(r, p)
  BY <1>5 DEF Sent
<1>7. QED BY <1>2, <1>4, <1>6

----
(***************************************************************************)
(* A forward pass, a backward pass and any other step of a device.         *)
(***************************************************************************)
LEMMA MarkerNext ==
  ASSUME NEW r \in Ranks, NEW p, GoodPlace(r, p), NEW v, IsPass(r, p) => v = PassChunk(r, p)
  PROVE  MarkerChunk(r, NextPlace(r, p), v)
<1> DEFINE p1 == NextPlace(r, p)
<1> SUFFICES ASSUME p1.phase = "cooldown", ~IsPass(r, p1), BackwardK(r, p1) = FirstMarker(r)
             PROVE  BackwardRole(r, v) = 3
  BY DEF MarkerChunk
<1>1. GoodPlace(r, p1)
  BY NextPlaceGood
<1>2. p1.k # 0
  <2>1. FirstMarker(r) \in Nat
    BY UnitFacts, HalfFacts DEF FirstMarker
  <2>2. QED BY <1>1, <2>1, CooldownPlaces
<1>3. p.phase = "cooldown"
  <2>1. CASE p.k + 1 < PhaseLength(r, p.phase)
    BY <2>1 DEF NextPlace, GoodPlace, PC
  <2>2. CASE ~(p.k + 1 < PhaseLength(r, p.phase))
    <3>1. p1 = NextPhase(r, p)
      BY <2>2 DEF NextPlace
    <3>2. p1.k = 0
      BY <3>1 DEF NextPhase, LoopOrLast, At
    <3>3. QED BY <1>2, <3>2
  <2>3. QED BY <2>1, <2>2
<1>4. BDone(r, p1) = FirstMarker(r)
  BY <1>1, CooldownRoles
<1>5. IsPass(r, p)
  <2>1. /\ BDone(r, p) \in 0 .. 2 * N + 1 /\ TurnAt(p)
        /\ IsPass(r, p) <=> BDone(r, p) \notin {FirstMarker(r), 2 * N + 1}
    BY <1>3, CooldownRoles
  <2>2. BDone(r, p1) = BDone(r, p) + 1
    BY <2>1, NextDone
  <2>3. FirstMarker(r) \in {2 * N - 1, 2 * N} /\ N \in Nat
    BY UnitFacts DEF FirstMarker
  <2>4. QED BY <1>4, <2>1, <2>2, <2>3
<1>6. Role(r, p) = 3 /\ ~ForwardAt(p)
  BY <1>3, <1>5, CooldownNext, CooldownRoles
<1>7. BackwardRole(r, PassChunk(r, p)) = Role(r, p)
  BY <1>5, <1>6, PassRole
<1>8. QED BY <1>5, <1>6, <1>7

LEMMA ReplaceAdded ==
  ASSUME NEW row, NEW c, NEW new, NEW d, NEW ts
  PROVE  /\ Added(ReplaceAndAdd(row, c, new, d, ts), [x \in Chunks |-> IF x = c THEN new ELSE row[x]], d, ts)
         /\ new = << >> /\ (\A x \in Chunks : x # c => row[x] = << >>) /\ ts \in Seq(Tensor) =>
              Holds(ReplaceAndAdd(row, c, new, d, ts), d, ts)
<1>1. Added(ReplaceAndAdd(row, c, new, d, ts), [x \in Chunks |-> IF x = c THEN new ELSE row[x]], d, ts)
  BY DEF Added, ReplaceAndAdd
<1>2. ASSUME new = << >>, \A x \in Chunks : x # c => row[x] = << >>, ts \in Seq(Tensor)
      PROVE  Holds(ReplaceAndAdd(row, c, new, d, ts), d, ts)
  <2>1. << >> \o ts = ts /\ << >> \o << >> = << >>
    BY <1>2, ConcatEmptySeq, ShortSequences
  <2>2. \A x \in Chunks : (IF x = c THEN new ELSE row[x]) = << >>
    BY <1>2
  <2>3. QED BY <2>1, <2>2 DEF Holds, ReplaceAndAdd
<1>3. QED BY <1>1, <1>2

LEMMA ForwardKeeps ==
  ASSUME GoodCounters, DataOK, CountInv, TensorInv, NEW r \in Ranks, Idle(r), ForwardAt(pc[r]),
         NEW c, c = PassChunk(r, pc[r]), NEW d, NEW ti,
         ForwardStepHelper(r, c), inputTensors' = InputsAfter(r, c, d, ti),
         UNCHANGED outputTensorGrads, Step(r),
         \A q \in Ranks : q # r => comm'[q] = comm[q],
         Handed(r, pc[r], comm'[r], d, ti, << >>)
  PROVE  TensorInv'
<1> DEFINE p == pc[r]
           p1 == NextPlace(r, p)
           ins == inputTensors[r]
           outs == outputTensors[r]
           grads == outputTensorGrads[r]
           op == comm[r]
           kept == [x \in Chunks |-> IF x = c THEN PaddedInputs(r, c) ELSE ins[x]]
<1>1. GoodPlace(r, p)
  BY DEF GoodCounters
<1>2. c \in Chunks /\ IsPass(r, p)
  BY <1>1, PassFacts
<1>3. /\ outputTensors \in [Ranks -> [Chunks -> Seq(Tensor)]]
      /\ inputTensors \in [Ranks -> [Chunks -> Seq(Tensor)]]
      /\ vrank \in [Ranks -> Chunks]
  BY DEF DataOK, ListsOK, ResultsOK, Lists
<1>4. /\ inputTensors'[r] = ReplaceAndAdd(ins, c, PaddedInputs(r, c), d, ti)
      /\ outputTensors'[r] = [outs EXCEPT ![c] = @ \o <<ForwardOutput(r, c)>>]
      /\ vrank'[r] = c
  BY <1>3 DEF InputsAfter, ForwardStepHelper, Add
<1>5. Alone(r)
  BY <1>3 DEF Alone, InputsAfter, ForwardStepHelper, Add
<1>6. ForwardOutput(r, c) = OutputOf(r, c, Forwards(r, c, p))
  BY ForwardReads
<1>7. PaddedInputs(r, c) = IF IsFirstStage(r, c) /\ Len(ins[c]) = Len(outs[c])
                           THEN Append(ins[c], None) ELSE ins[c]
  BY DEF PaddedInputs
<1>8. ListsAt(r, p, op, ins, outs, grads) /\ ~Waits(op)
  BY DEF TensorInv, TensorsAt, Idle, Waits
<1>9. Added(inputTensors'[r], kept, d, ti)
  BY <1>4, ReplaceAdded
<1>10. /\ outputTensors'[r][c] = outs[c] \o <<OutputOf(r, c, Forwards(r, c, p))>>
       /\ \A x \in Chunks : x # c => outputTensors'[r][x] = outs[x]
  <2>1. outs \in [Chunks -> Seq(Tensor)]
    BY <1>3
  <2> HIDE DEF outs
  <2>2. QED BY <1>2, <1>4, <1>6, <2>1
<1>11. kept[c] = PaddedInputs(r, c) /\ \A x \in Chunks : x # c => kept[x] = ins[x]
  BY <1>2
<1>12. MarkerChunk(r, p1, vrank'[r])
  BY <1>1, <1>4, MarkerNext
<1>13. outputTensorGrads'[r] = grads
  OBVIOUS
<1> DEFINE pad == PaddedInputs(r, c)
           made == outputTensors'[r]
<1> HIDE DEF p, ins, outs, grads, op, kept, pad, made
<1>14. /\ InputsKept(r, p1, kept) /\ OutputsAt(r, p1, made)
       /\ \A x \in Chunks : grads[x] = << >>
  <2>1. ForwardAt(p) /\ c = PassChunk(r, p)
    BY DEF p
  <2>2. pad = IF IsFirstStage(r, c) /\ Len(ins[c]) = Len(outs[c]) THEN Append(ins[c], None) ELSE ins[c]
    BY <1>7 DEF pad
  <2>3. /\ kept[c] = pad /\ \A x \in Chunks : x # c => kept[x] = ins[x]
        /\ made[c] = outs[c] \o <<OutputOf(r, c, Forwards(r, c, p))>>
        /\ \A x \in Chunks : x # c => made[x] = outs[x]
    BY <1>10, <1>11 DEF pad, made
  <2>4. /\ \A row : row[c] = pad /\ (\A x \in Chunks : x # c => row[x] = ins[x]) => InputsKept(r, p1, row)
        /\ \A row : row[c] = outs[c] \o <<OutputOf(r, c, Forwards(r, c, p))>>
                    /\ (\A x \in Chunks : x # c => row[x] = outs[x]) => OutputsAt(r, p1, row)
        /\ \A x \in Chunks : grads[x] = << >>
    BY <1>1, <1>8, <2>1, <2>2, ForwardLists
  <2> HIDE DEF p1
  <2>5. QED BY <2>3, <2>4
<1>15. Holds(outputTensorGrads'[r], d, << >>)
  BY <1>13, <1>14 DEF Holds
<1>16. QED BY <1>5, <1>9, <1>12, <1>14, <1>15, StepKeepsTensors DEF p, made

LEMMA AddedNothing ==
  ASSUME NEW new, NEW old, NEW d, NEW e
  PROVE  /\ Added(new, old, d, << >>) => Added(new, old, e, << >>)
         /\ Holds(new, d, << >>) => Holds(new, e, << >>)
BY DEF Added, Holds

LEMMA BackwardKeeps ==
  ASSUME GoodCounters, DataOK, TensorInv, NEW r \in Ranks, Idle(r),
         IsPass(r, pc[r]), ~ForwardAt(pc[r]), NEW c, c = PassChunk(r, pc[r]),
         NEW v, NEW m, NEW d, NEW e, NEW tg \in Seq(Tensor),
         BackwardStepHelper(r, c, v, m), inputTensors' = InputsPopped(r, c, e, << >>),
         outputTensorGrads' = GradsPopped(r, c, v, d, tg), Step(r),
         \A q \in Ranks : q # r => comm'[q] = comm[q],
         Handed(r, pc[r], comm'[r], d, << >>, tg)
  PROVE  TensorInv'
<1> DEFINE p == pc[r]
           p1 == NextPlace(r, p)
           ins == inputTensors[r]
           outs == outputTensors[r]
           grads == outputTensorGrads[r]
           op == comm[r]
           kept == [x \in Chunks |-> IF x = c THEN Tail(ins[c]) ELSE ins[x]]
           pad == PaddedGrads(r, c, v)
           made == outputTensors'[r]
<1>1. GoodPlace(r, p)
  BY DEF GoodCounters
<1>2. c \in Chunks
  BY <1>1, PassFacts
<1>3. /\ outputTensors \in [Ranks -> [Chunks -> Seq(Tensor)]]
      /\ inputTensors \in [Ranks -> [Chunks -> Seq(Tensor)]]
      /\ outputTensorGrads \in [Ranks -> [Chunks -> Seq(Tensor)]]
      /\ vrank \in [Ranks -> Chunks]
  BY DEF DataOK, ListsOK, ResultsOK, Lists
<1>4. /\ inputTensors'[r] = ReplaceAndAdd(ins, c, Tail(ins[c]), e, << >>)
      /\ outputTensorGrads'[r] = ReplaceAndAdd(grads, c, Tail(pad), d, tg)
      /\ made = [outs EXCEPT ![c] = Tail(@)]
      /\ vrank'[r] = c
  BY <1>3 DEF InputsPopped, GradsPopped, BackwardStepHelper, OutputsPopped
<1>5. Alone(r)
  BY <1>3 DEF Alone, InputsPopped, GradsPopped, BackwardStepHelper, OutputsPopped
<1>6. ListsAt(r, p, op, ins, outs, grads) /\ ~Waits(op)
  BY DEF TensorInv, TensorsAt, Idle, Waits
<1>7. Added(inputTensors'[r], kept, d, << >>)
  <2> DEFINE t == Tail(ins[c])
  <2>1. inputTensors'[r] = ReplaceAndAdd(ins, c, t, e, << >>)
    BY <1>4
  <2>2. kept = [x \in Chunks |-> IF x = c THEN t ELSE ins[x]]
    OBVIOUS
  <2> HIDE DEF t, ins, kept
  <2>3. Added(inputTensors'[r], kept, e, << >>)
    BY <2>1, <2>2, ReplaceAdded
  <2>4. QED BY <2>3, AddedNothing
<1>8. made[c] = Tail(outs[c]) /\ \A x \in Chunks : x # c => made[x] = outs[x]
  <2>1. outs \in [Chunks -> Seq(Tensor)]
    BY <1>3
  <2> HIDE DEF outs, made
  <2>2. QED BY <1>2, <1>4, <2>1
<1>9. kept[c] = Tail(ins[c]) /\ \A x \in Chunks : x # c => kept[x] = ins[x]
  BY <1>2
<1>10. MarkerChunk(r, p1, vrank'[r])
  BY <1>1, <1>4, MarkerNext
<1>11. pad = (IF IsLastStage(r, v) /\ grads[c] = << >> THEN <<None>> ELSE grads[c]) /\ pad # << >>
  BY DEF PaddedGrads, BackwardStepHelper
<1>12. IsPass(r, p) /\ ~ForwardAt(p) /\ c = PassChunk(r, p)
  OBVIOUS
<1> HIDE DEF p, ins, outs, grads, op, kept, pad, made
<1>13. /\ InputsKept(r, p1, kept) /\ OutputsAt(r, p1, made)
       /\ grads[c] = IF IsLastStage(r, c) THEN << >> ELSE <<GradOf(r, c, Backwards(r, c, p))>>
       /\ \A x \in Chunks : x # c => grads[x] = << >>
  <2>1. /\ \A row : row[c] = Tail(ins[c]) /\ (\A x \in Chunks : x # c => row[x] = ins[x])
                      => InputsKept(r, p1, row)
        /\ \A row : row[c] = Tail(outs[c]) /\ (\A x \in Chunks : x # c => row[x] = outs[x])
                      => OutputsAt(r, p1, row)
        /\ grads[c] = IF IsLastStage(r, c) THEN << >> ELSE <<GradOf(r, c, Backwards(r, c, p))>>
        /\ \A x \in Chunks : x # c => grads[x] = << >>
    BY <1>1, <1>6, <1>12, BackwardLists
  <2> HIDE DEF p1
  <2>2. QED BY <1>8, <1>9, <2>1
<1>14. Tail(pad) = << >>
  <2>1. \A t : Tail(<<t>>) = << >>
    OBVIOUS
  <2>2. \E t : pad = <<t>>
    BY <1>11, <1>13
  <2>3. QED BY <2>1, <2>2
<1>15. Holds(outputTensorGrads'[r], d, tg)
  BY <1>4, <1>13, <1>14, ReplaceAdded
<1>16. QED BY <1>5, <1>7, <1>10, <1>13, <1>15, StepKeepsTensors DEF p, made

\* A step without a pass: it adds to the inputs or to the gradients, or to nothing.
LEMMA OtherKeeps ==
  ASSUME GoodCounters, DataOK, TensorInv, NEW r \in Ranks, Idle(r), ~IsPass(r, pc[r]),
         NEW d \in Chunks, NEW ti \in Seq(Tensor), NEW tg \in Seq(Tensor),
         inputTensors' = Add(inputTensors, r, d, ti), UNCHANGED outputTensors,
         outputTensorGrads' = Add(outputTensorGrads, r, d, tg), Step(r),
         \A q \in Ranks : q # r => comm'[q] = comm[q] /\ vrank'[q] = vrank[q],
         Handed(r, pc[r], comm'[r], d, ti, tg)
  PROVE  TensorInv'
<1> DEFINE p == pc[r]
           p1 == NextPlace(r, p)
           ins == inputTensors[r]
           outs == outputTensors[r]
           grads == outputTensorGrads[r]
           op == comm[r]
<1>1. GoodPlace(r, p)
  BY DEF GoodCounters
<1>2. /\ inputTensors \in [Ranks -> [Chunks -> Seq(Tensor)]]
      /\ outputTensorGrads \in [Ranks -> [Chunks -> Seq(Tensor)]]
  BY DEF DataOK, ListsOK, Lists
<1>3. /\ inputTensors'[r] = [ins EXCEPT ![d] = @ \o ti]
      /\ outputTensorGrads'[r] = [grads EXCEPT ![d] = @ \o tg]
      /\ outputTensors'[r] = outs
  BY <1>2 DEF Add
<1>4. Alone(r)
  BY <1>2 DEF Alone, Add
<1>5. ListsAt(r, p, op, ins, outs, grads)
  BY DEF TensorInv, TensorsAt
<1>6. MarkerChunk(r, p1, vrank'[r])
  BY <1>1, MarkerNext
<1>7. ins \in [Chunks -> Seq(Tensor)] /\ grads \in [Chunks -> Seq(Tensor)]
  BY <1>2
<1>8. ~IsPass(r, p)
  OBVIOUS
<1> HIDE DEF p, ins, outs, grads, op
<1>9. /\ ~Over(p1) => InputsKept(r, p1, ins)
      /\ OutputsAt(r, p1, outs)
      /\ \A x \in Chunks : grads[x] = << >>
  BY <1>1, <1>5, <1>8, OtherLists
<1>10. \A x \in Chunks : ins[x] \o << >> = ins[x]
  BY <1>7, ConcatEmptySeq
<1>11. Added(inputTensors'[r], ins, d, ti)
  BY <1>3, <1>7, <1>10 DEF Added
<1>12. << >> \o tg = tg
  BY ConcatEmptySeq
<1>13. Holds(outputTensorGrads'[r], d, tg)
  BY <1>3, <1>7, <1>9, <1>12 DEF Holds
<1>14. QED BY <1>3, <1>4, <1>6, <1>9, <1>11, <1>13, StepKeepsTensors DEF p

----
(***************************************************************************)
(* The steps of the devices keep the invariant.                            *)
(***************************************************************************)
\* The operation after a step that posts one, and after a step that posts none.
LEMMA PostHands ==
  ASSUME DataOK, NEW r \in Ranks, NEW p, NEW op, NEW box, NEW c, NEW d, NEW ti, NEW tg,
         Post(r, op, box, c), Handed(r, p, Posted(op, box, c), d, ti, tg)
  PROVE  Handed(r, p, comm'[r], d, ti, tg) /\ \A q \in Ranks : q # r => comm'[q] = comm[q]
<1>1. comm'[r] = Posted(op, box, c) /\ \A q \in Ranks : q # r => comm'[q] = comm[q]
  BY DEF DataOK, ListsOK, Comms, Post, Posted
<1>2. QED BY <1>1

LEMMA IdleHands ==
  ASSUME NEW r \in Ranks, NEW p, NEW d, NEW ti, NEW tg, Idle(r), UNCHANGED comm,
         \A idle : idle.to = Nobody /\ idle.from = Nobody => Handed(r, p, idle, d, ti, tg)
  PROVE  Handed(r, p, comm'[r], d, ti, tg) /\ \A q \in Ranks : q # r => comm'[q] = comm[q]
BY DEF Idle

LEMMA WarmupKeeps ==
  ASSUME ~OverlapP2P, GoodCounters, DataOK, CountInv, TensorInv, NEW r \in Ranks, Warmup(r)
  PROVE  TensorInv'
<1> DEFINE p == pc[r]
           s == Sent(r, p)
           k == ForwardK(r, p)
           c == ForwardChunk(r, k)
           isLast == k = TotalNumMicrobatches - 1
           next == IF isLast THEN 1 ELSE ForwardChunk(r, k + 1)
           local == c # next /\ HandedOverForward(r, next)
           op == IF c = next
                 THEN SendForwardRecvForward(r, c, s, ~IsFirstStage(r, c) /\ ~(isLast /\ ForwardOnly))
                 ELSE SendForwardRecvForwardBd0(r, c, s, ~IsLastStage(r, c) /\ ~(isLast /\ ForwardOnly))
<1>1. /\ GoodPlace(r, p) /\ p.phase = "warmup" /\ Idle(r) /\ ForwardAt(p)
      /\ UNCHANGED outputTensorGrads /\ Step(r)
  BY DEF GoodCounters, Warmup, InPhase, ForwardAt
<1>2. /\ c = PassChunk(r, p)
      /\ local => \A idle : idle.to = Nobody /\ idle.from = Nobody => Handed(r, p, idle, next, <<s>>, << >>)
      /\ ~local => Handed(r, p, Posted(op, "in", next), next, AtOnce(op), << >>)
  BY <1>1, WarmupHands
<1>3. ToSend(r, c) = s
  BY <1>1, <1>2, ForwardReads
<1>4. /\ ForwardStepHelper(r, c)
      /\ local => inputTensors' = InputsAfter(r, c, next, <<s>>) /\ UNCHANGED comm
      /\ ~local => inputTensors' = InputsAfter(r, c, next, AtOnce(op)) /\ Post(r, op, "in", next)
  BY <1>3 DEF Warmup, ForwardExchange, FK
<1> HIDE DEF c, next, local, op, s
<1>5. CASE local
  <2>1. Handed(r, p, comm'[r], next, <<s>>, << >>) /\ \A q \in Ranks : q # r => comm'[q] = comm[q]
    BY <1>1, <1>2, <1>4, <1>5, IdleHands
  <2>2. QED BY <1>1, <1>2, <1>4, <1>5, <2>1, ForwardKeeps
<1>6. CASE ~local
  <2>1. Handed(r, p, comm'[r], next, AtOnce(op), << >>) /\ \A q \in Ranks : q # r => comm'[q] = comm[q]
    BY <1>2, <1>4, <1>6, PostHands
  <2>2. QED BY <1>1, <1>2, <1>4, <1>6, <2>1, ForwardKeeps
<1>7. QED BY <1>5, <1>6

LEMMA WarmupAgainKeeps ==
  ASSUME ~OverlapP2P, GoodCounters, DataOK, CountInv, TensorInv, NEW r \in Ranks, WarmupAgain(r)
  PROVE  TensorInv'
<1> DEFINE p == pc[r]
           s == Sent(r, p)
           k == ForwardK(r, p)
           c == ForwardChunk(r, k)
           next == ForwardChunk(r, k + 1)
           local == HandedOverForward(r, next)
           op == SendForwardRecvForwardBd0(r, c, s, ~IsLastStage(r, c))
<1>1. /\ GoodPlace(r, p) /\ p.phase = "mid4" /\ Idle(r) /\ ForwardAt(p)
      /\ UNCHANGED outputTensorGrads /\ Step(r)
  BY DEF GoodCounters, WarmupAgain, InPhase, ForwardAt
<1>2. /\ c = PassChunk(r, p)
      /\ local => \A idle : idle.to = Nobody /\ idle.from = Nobody => Handed(r, p, idle, next, <<s>>, << >>)
      /\ ~local => Handed(r, p, Posted(op, "in", next), next, AtOnce(op), << >>)
  BY <1>1, WarmupAgainHands
<1>3. ToSend(r, c) = s
  BY <1>1, <1>2, ForwardReads
<1>4. /\ ForwardStepHelper(r, c)
      /\ local => inputTensors' = InputsAfter(r, c, next, <<s>>) /\ UNCHANGED comm
      /\ ~local => inputTensors' = InputsAfter(r, c, next, AtOnce(op)) /\ Post(r, op, "in", next)
  BY <1>3 DEF WarmupAgain, ForwardExchange, FK
<1> HIDE DEF c, next, local, op, s
<1>5. CASE local
  <2>1. Handed(r, p, comm'[r], next, <<s>>, << >>) /\ \A q \in Ranks : q # r => comm'[q] = comm[q]
    BY <1>1, <1>2, <1>4, <1>5, IdleHands
  <2>2. QED BY <1>1, <1>2, <1>4, <1>5, <2>1, ForwardKeeps
<1>6. CASE ~local
  <2>1. Handed(r, p, comm'[r], next, AtOnce(op), << >>) /\ \A q \in Ranks : q # r => comm'[q] = comm[q]
    BY <1>2, <1>4, <1>6, PostHands
  <2>2. QED BY <1>1, <1>2, <1>4, <1>6, <2>1, ForwardKeeps
<1>7. QED BY <1>5, <1>6

LEMMA ForwardPassKeeps ==
  ASSUME GoodCounters, DataOK, CountInv, TensorInv, NEW r \in Ranks, ForwardPass(r)
  PROVE  TensorInv'
<1> DEFINE p == pc[r]
           s == Sent(r, p)
           c == ForwardChunk(r, ForwardK(r, p))
           next == BackwardChunk(r, BackwardK(r, p))
           op == SendForwardRecvBackward(r, c, s)
<1>1. /\ GoodPlace(r, p) /\ p.phase \in {"mid1", "mid3", "last"} /\ p.k % 2 = 0
      /\ Idle(r) /\ ForwardAt(p) /\ UNCHANGED outputTensorGrads /\ Step(r)
  BY DEF GoodCounters, ForwardPass, InPhase, ForwardAt
<1>2. /\ c = PassChunk(r, p)
      /\ IsLastStage(r, c) =>
           \A idle : idle.to = Nobody /\ idle.from = Nobody => Handed(r, p, idle, c, << >>, << >>)
      /\ ~IsLastStage(r, c) => Handed(r, p, Posted(op, "grad", next), c, << >>, << >>)
  BY <1>1, ForwardPassHands
<1>3. ToSend(r, c) = s
  BY <1>1, <1>2, ForwardReads
<1>4. /\ ForwardStepHelper(r, c)
      /\ inputTensors' = InputsAfter(r, c, c, << >>)
      /\ IsLastStage(r, c) => UNCHANGED comm
      /\ ~IsLastStage(r, c) => Post(r, op, "grad", next)
  BY <1>3 DEF ForwardPass, FK, BK
<1> HIDE DEF c, next, op, s
<1>5. Handed(r, p, comm'[r], c, << >>, << >>) /\ \A q \in Ranks : q # r => comm'[q] = comm[q]
  <2>1. CASE IsLastStage(r, c)
    BY <1>1, <1>2, <1>4, <2>1, IdleHands
  <2>2. CASE ~IsLastStage(r, c)
    BY <1>2, <1>4, <2>2, PostHands
  <2>3. QED BY <2>1, <2>2
<1>6. QED BY <1>1, <1>2, <1>4, <1>5, ForwardKeeps

\* When nothing is added at once, the list it would be added to does not matter.
LEMMA ElsewhereAsked ==
  ASSUME NEW r, NEW p, NEW op, NEW d, NEW e, Handed(r, p, op, d, << >>, << >>)
  PROVE  Handed(r, p, op, e, << >>, << >>)
<1>1. \A x : <<x>> # << >>
  OBVIOUS
<1>2. AsksFor(r, NextPlace(r, p), op, d, << >>, << >>) => AsksFor(r, NextPlace(r, p), op, e, << >>, << >>)
  BY <1>1 DEF AsksFor
<1>3. QED BY <1>2 DEF Handed

\* Types of what is sent and of what is added at once.
LEMMA SentType ==
  ASSUME NEW r \in Ranks, NEW p, GoodPlace(r, p), IsPass(r, p)
  PROVE  Sent(r, p) \in Tensor /\ << >> \in Seq(Tensor) /\ <<Sent(r, p)>> \in Seq(Tensor)
<1>1. Made(r, p) \in Tensor
  <2> DEFINE c == PassChunk(r, p)
  <2>1. c \in Chunks
    BY PassFacts
  <2>2. /\ Forwards(r, c, p) \in Nat /\ Backwards(r, c, p) \in Nat /\ StageOf(r, c) \in Nat
        /\ Pipe(c) \in {0, 1}
    BY <2>1, CountsNext, TensorsOf DEF Pipe, Chunks
  <2> HIDE DEF c
  <2>3. QED BY <2>2 DEF Made, c, OutputOf, Act, Grad, Tensor
<1>2. QED BY <1>1, NoneType, ShortSequences DEF Sent


LEMMA BackwardPassKeeps ==
  ASSUME GoodCounters, DataOK, TensorInv, NEW r \in Ranks, BackwardPass(r)
  PROVE  TensorInv'
<1> DEFINE p == pc[r]
           s == Sent(r, p)
           k == BackwardK(r, p)
           c == BackwardChunk(r, k)
           m == BkMicrobatchIdx[r][k]
           final == p.k = 2 * UnitRemaining(r) - 1 /\ p.phase # "mid3"
           quiet == p.phase = "mid3" /\ IsFirstStage(r, c)
           next == IF final THEN BackwardChunk(r, k + 1) ELSE ForwardChunk(r, ForwardK(r, p) + 1)
           op == IF final THEN SendBackwardRecvBackwardBd(r, c, s, TRUE)
                          ELSE SendBackwardRecvForward(r, c, s)
           box == IF final THEN "grad" ELSE "in"
<1>1. /\ GoodPlace(r, p) /\ p.phase \in {"mid1", "mid3", "last"} /\ p.k % 2 = 1
      /\ Idle(r) /\ Step(r)
  BY DEF GoodCounters, BackwardPass, InPhase
<1>2. ~ForwardAt(p)
  BY <1>1 DEF ForwardAt
<1>3. /\ IsPass(r, p) /\ c = PassChunk(r, p)
      /\ quiet => \A idle : idle.to = Nobody /\ idle.from = Nobody => Handed(r, p, idle, next, << >>, << >>)
      /\ ~quiet => Handed(r, p, Posted(op, box, next), next, << >>, << >>)
      /\ ~quiet /\ ~final => AtOnce(op) = << >>
  BY <1>1, BackwardPassHands
<1>4. (IF IsFirstStage(r, c) THEN None ELSE InputGrad(r, c)) = s
  BY <1>1, <1>2, <1>3, BackwardReads
<1>5. /\ BackwardStepHelper(r, c, c, m)
      /\ quiet => UNCHANGED comm
      /\ ~quiet => Post(r, op, box, next)
      /\ inputTensors' = InputsPopped(r, c, next, IF quiet \/ final THEN << >> ELSE AtOnce(op))
      /\ outputTensorGrads' = GradsPopped(r, c, c, c, << >>)
  BY <1>4 DEF BackwardPass, FinalTurn, Quiet, FK, BK
<1> HIDE DEF c, next, op, s, m, box
<1>6. inputTensors' = InputsPopped(r, c, next, << >>)
  BY <1>3, <1>5
<1>7. Handed(r, p, comm'[r], next, << >>, << >>) /\ \A q \in Ranks : q # r => comm'[q] = comm[q]
  <2>1. CASE quiet
    BY <1>1, <1>3, <1>5, <2>1, IdleHands
  <2>2. CASE ~quiet
    BY <1>3, <1>5, <2>2, PostHands
  <2>3. QED BY <2>1, <2>2
<1>8. Handed(r, p, comm'[r], c, << >>, << >>)
  BY <1>7, ElsewhereAsked
<1>9. << >> \in Seq(Tensor)
  BY ShortSequences
<1>10. QED BY <1>1, <1>2, <1>3, <1>5, <1>6, <1>7, <1>8, <1>9, BackwardKeeps

LEMMA CooldownBackwardKeeps ==
  ASSUME GoodCounters, DataOK, TensorInv, NEW r \in Ranks, CooldownBackward(r)
  PROVE  TensorInv'
<1> DEFINE p == pc[r]
           s == Sent(r, p)
           k == BackwardK(r, p)
           c == BackwardChunk(r, k)
           m == BkMicrobatchIdx[r][k]
           final == p.k = NumWarmupMicrobatches(r) - UnitRemaining(r)
           nextFwd == ForwardChunk(r, (p.loop + 1) * 2 * P)
           nextBwd == BackwardChunk(r, k + 1)
           recvFwd == SendBackwardRecvForward(r, c, s)
           recvBwd == SendBackwardRecvBackwardBd(r, c, s, ~IsFirstStage(r, c))
<1>1. GoodPlace(r, p) /\ p.phase = "mid2" /\ Idle(r) /\ Step(r)
  BY DEF GoodCounters, CooldownBackward, InPhase
<1>2. ~ForwardAt(p)
  BY <1>1 DEF ForwardAt
<1>3. /\ IsPass(r, p) /\ c = PassChunk(r, p)
      /\ final /\ IsFirstStage(r, c) =>
           \A idle : idle.to = Nobody /\ idle.from = Nobody => Handed(r, p, idle, c, << >>, << >>)
      /\ final /\ ~IsFirstStage(r, c) => Handed(r, p, Posted(recvFwd, "in", nextFwd), c, << >>, << >>)
      /\ ~final /\ HandedOverBackward(r, nextBwd) =>
           \A idle : idle.to = Nobody /\ idle.from = Nobody => Handed(r, p, idle, nextBwd, << >>, <<s>>)
      /\ ~final /\ ~HandedOverBackward(r, nextBwd) =>
           Handed(r, p, Posted(recvBwd, "grad", nextBwd), nextBwd, << >>, AtOnce(recvBwd))
  BY <1>1, CooldownBackwardHands
<1>4. (IF IsFirstStage(r, c) THEN None ELSE InputGrad(r, c)) = s
  BY <1>1, <1>2, <1>3, BackwardReads
<1>5. /\ BackwardStepHelper(r, c, c, m)
      /\ inputTensors' = InputsPopped(r, c, c, << >>)
      /\ final /\ IsFirstStage(r, c) =>
           UNCHANGED comm /\ outputTensorGrads' = GradsPopped(r, c, c, c, << >>)
      /\ final /\ ~IsFirstStage(r, c) =>
           Post(r, recvFwd, "in", nextFwd) /\ outputTensorGrads' = GradsPopped(r, c, c, c, << >>)
      /\ ~final /\ HandedOverBackward(r, nextBwd) =>
           UNCHANGED comm /\ outputTensorGrads' = GradsPopped(r, c, c, nextBwd, <<s>>)
      /\ ~final /\ ~HandedOverBackward(r, nextBwd) =>
           /\ Post(r, recvBwd, "grad", nextBwd)
           /\ outputTensorGrads' = GradsPopped(r, c, c, nextBwd, AtOnce(recvBwd))
  BY <1>4 DEF CooldownBackward, BK
<1>6. s \in Tensor /\ << >> \in Seq(Tensor) /\ <<s>> \in Seq(Tensor) /\ AtOnce(recvBwd) \in Seq(Tensor)
  BY <1>1, <1>3, SentType, ShortSequences
<1> HIDE DEF c, nextFwd, nextBwd, recvFwd, recvBwd, s, m, final
<1>7. CASE final /\ IsFirstStage(r, c)
  <2>1. Handed(r, p, comm'[r], c, << >>, << >>) /\ \A q \in Ranks : q # r => comm'[q] = comm[q]
    BY <1>1, <1>3, <1>5, <1>7, IdleHands
  <2>2. QED BY <1>1, <1>2, <1>3, <1>5, <1>6, <1>7, <2>1, BackwardKeeps
<1>8. CASE final /\ ~IsFirstStage(r, c)
  <2>1. Handed(r, p, comm'[r], c, << >>, << >>) /\ \A q \in Ranks : q # r => comm'[q] = comm[q]
    BY <1>3, <1>5, <1>8, PostHands
  <2>2. QED BY <1>1, <1>2, <1>3, <1>5, <1>6, <1>8, <2>1, BackwardKeeps
<1>9. CASE ~final /\ HandedOverBackward(r, nextBwd)
  <2>1. Handed(r, p, comm'[r], nextBwd, << >>, <<s>>) /\ \A q \in Ranks : q # r => comm'[q] = comm[q]
    BY <1>1, <1>3, <1>5, <1>9, IdleHands
  <2>2. QED BY <1>1, <1>2, <1>3, <1>5, <1>6, <1>9, <2>1, BackwardKeeps
<1>10. CASE ~final /\ ~HandedOverBackward(r, nextBwd)
  <2>1. /\ Handed(r, p, comm'[r], nextBwd, << >>, AtOnce(recvBwd))
        /\ \A q \in Ranks : q # r => comm'[q] = comm[q]
    BY <1>3, <1>5, <1>10, PostHands
  <2>2. QED BY <1>1, <1>2, <1>3, <1>5, <1>6, <1>10, <2>1, BackwardKeeps
<1>11. QED BY <1>7, <1>8, <1>9, <1>10

LEMMA FinalBackwardKeeps ==
  ASSUME GoodCounters, DataOK, TensorInv, NEW r \in Ranks, FinalBackward(r)
  PROVE  TensorInv'
<1> DEFINE p == pc[r]
           s == Sent(r, p)
           k == BackwardK(r, p)
           c == BackwardChunk(r, k)
           v == vrank[r]
           m == BkMicrobatchIdx[r][k]
           next == BackwardChunk(r, k + 1)
           sendOnly == \/ k = TotalNumMicrobatches - 2 /\ next = Sync
                       \/ k \in {TotalNumMicrobatches - 1, TotalNumMicrobatches}
           sameChunk == k < TotalNumMicrobatches - 2 /\ c = next
           local == k < TotalNumMicrobatches - 2 /\ c # next /\ HandedOverBackward(r, next)
           op == IF sendOnly THEN SendBackwardRecvBackward(r, c, s, FALSE)
                 ELSE IF sameChunk THEN SendBackwardRecvBackward(r, c, s, TRUE)
                 ELSE SendBackwardRecvBackwardBd(r, c, s, ~IsFirstStage(r, c))
<1>1. GoodPlace(r, p) /\ p.phase = "cooldown" /\ c # Sync /\ Idle(r) /\ Step(r)
  BY DEF GoodCounters, FinalBackward, InPhase, BK
<1>2. ~ForwardAt(p) /\ IsPass(r, p)
  BY <1>1 DEF ForwardAt, IsPass, TurnAt
<1>3. /\ c = PassChunk(r, p)
      /\ sendOnly => ~local /\ Handed(r, p, Posted(op, "drop", 0), c, << >>, << >>)
      /\ local => \A idle : idle.to = Nobody /\ idle.from = Nobody => Handed(r, p, idle, next, << >>, <<s>>)
      /\ ~sendOnly /\ ~local => Handed(r, p, Posted(op, "grad", next), next, << >>, AtOnce(op))
  BY <1>1, <1>2, FinalBackwardHands
<1>4. (IF IsFirstStage(r, c) THEN None ELSE InputGrad(r, c)) = s
  BY <1>1, <1>2, <1>3, BackwardReads
<1>5. /\ BackwardStepHelper(r, c, v, m)
      /\ inputTensors' = InputsPopped(r, c, c, << >>)
      /\ \/ /\ sendOnly
            /\ Post(r, op, "drop", 0) /\ outputTensorGrads' = GradsPopped(r, c, v, c, << >>)
         \/ /\ local
            /\ UNCHANGED comm /\ outputTensorGrads' = GradsPopped(r, c, v, next, <<s>>)
         \/ /\ ~sendOnly /\ ~local
            /\ Post(r, op, "grad", next) /\ outputTensorGrads' = GradsPopped(r, c, v, next, AtOnce(op))
  BY <1>4 DEF FinalBackward, BK
<1>6. << >> \in Seq(Tensor) /\ <<s>> \in Seq(Tensor) /\ AtOnce(op) \in Seq(Tensor)
  BY <1>1, <1>2, SentType, ShortSequences
<1> HIDE DEF c, v, m, next, op, s, sendOnly, local
<1>7. CASE /\ sendOnly
           /\ Post(r, op, "drop", 0) /\ outputTensorGrads' = GradsPopped(r, c, v, c, << >>)
  <2>1. Handed(r, p, comm'[r], c, << >>, << >>) /\ \A q \in Ranks : q # r => comm'[q] = comm[q]
    BY <1>3, <1>7, PostHands
  <2>2. QED BY <1>1, <1>2, <1>3, <1>5, <1>6, <1>7, <2>1, BackwardKeeps
<1>8. CASE /\ local
           /\ UNCHANGED comm /\ outputTensorGrads' = GradsPopped(r, c, v, next, <<s>>)
  <2>1. Handed(r, p, comm'[r], next, << >>, <<s>>) /\ \A q \in Ranks : q # r => comm'[q] = comm[q]
    BY <1>1, <1>3, <1>8, IdleHands
  <2>2. QED BY <1>1, <1>2, <1>3, <1>5, <1>6, <1>8, <2>1, BackwardKeeps
<1>9. CASE /\ ~sendOnly /\ ~local
           /\ Post(r, op, "grad", next) /\ outputTensorGrads' = GradsPopped(r, c, v, next, AtOnce(op))
  <2>1. Handed(r, p, comm'[r], next, << >>, AtOnce(op)) /\ \A q \in Ranks : q # r => comm'[q] = comm[q]
    BY <1>3, <1>9, PostHands
  <2>2. QED BY <1>1, <1>2, <1>3, <1>5, <1>6, <1>9, <2>1, BackwardKeeps
<1>10. QED BY <1>5, <1>7, <1>8, <1>9

\* Adding nothing leaves the lists as they are.
LEMMA AddNothing ==
  ASSUME NEW lists0 \in Lists, NEW r \in Ranks, NEW c
  PROVE  Add(lists0, r, c, << >>) = lists0
<1> DEFINE row == lists0[r]
           new == [row EXCEPT ![c] = row[c] \o << >>]
<1>1. row \in [Chunks -> Seq(Tensor)] /\ lists0 = [lists0 EXCEPT ![r] = row]
  BY DEF Lists
<1>2. Add(lists0, r, c, << >>) = [lists0 EXCEPT ![r] = new]
  BY DEF Add, Lists
<1> HIDE DEF row
<1>3. new = row
  <2>1. \A x \in Chunks : row[x] \o << >> = row[x]
    BY <1>1, ConcatEmptySeq
  <2>2. \A x \in Chunks : new[x] = row[x]
    BY <1>1, <2>1
  <2>3. QED BY <1>1, <2>2
<1>4. QED BY <1>1, <1>2, <1>3

LEMMA InitialRecvKeeps ==
  ASSUME GoodCounters, DataOK, TensorInv, NEW r \in Ranks, InitialRecv(r)
  PROVE  TensorInv'
<1> DEFINE p == pc[r]
           v == IF r < Half THEN 0 ELSE 1
           op == RecvForward(r, v)
<1>1. GoodPlace(r, p) /\ p.phase = "recv" /\ Idle(r) /\ Step(r) /\ UNCHANGED <<outputTensors, outputTensorGrads>>
  BY DEF GoodCounters, InitialRecv, InPhase
<1>2. v \in Chunks /\ Handed(r, p, Posted(op, "in", v), v, AtOnce(op), << >>)
  BY <1>1, InitialRecvHands
<1>3. ~IsPass(r, p)
  BY <1>1 DEF IsPass, ForwardAt, TurnAt
<1>4. /\ vrank' = [vrank EXCEPT ![r] = v]
      /\ inputTensors' = Add(inputTensors, r, v, AtOnce(op))
      /\ Post(r, op, "in", v)
  BY DEF InitialRecv
<1>5. outputTensorGrads' = Add(outputTensorGrads, r, v, << >>)
  BY <1>1, AddNothing DEF DataOK, ListsOK
<1>6. << >> \in Seq(Tensor) /\ AtOnce(op) \in Seq(Tensor) /\ vrank \in [Ranks -> Chunks]
  BY ShortSequences DEF DataOK, ResultsOK
<1> HIDE DEF v, op
<1>7. Handed(r, p, comm'[r], v, AtOnce(op), << >>) /\ \A q \in Ranks : q # r => comm'[q] = comm[q]
  BY <1>2, <1>4, PostHands
<1>8. \A q \in Ranks : q # r => vrank'[q] = vrank[q]
  BY <1>4, <1>6
<1>9. QED BY <1>1, <1>2, <1>3, <1>4, <1>5, <1>6, <1>7, <1>8, OtherKeeps

LEMMA LeaveSyncKeeps ==
  ASSUME GoodCounters, DataOK, TensorInv, NEW r \in Ranks, LeaveSync(r)
  PROVE  TensorInv'
<1> DEFINE p == pc[r]
           k == BackwardK(r, p)
           v == vrank[r]
           next == IF k < TotalNumMicrobatches + 1 THEN BackwardChunk(r, k + 1) ELSE Sync
           op == RecvBackward(r, v)
<1>1. /\ GoodPlace(r, p) /\ p.phase = "cooldown" /\ Idle(r) /\ Step(r)
      /\ BackwardChunk(r, k) = Sync /\ UNCHANGED <<vrank, inputTensors, outputTensors>>
  BY DEF GoodCounters, LeaveSync, AtSync, InPhase, BK
<1>2. ~IsPass(r, p)
  BY <1>1 DEF IsPass, ForwardAt
<1>3. v \in Chunks
  BY DEF DataOK, ResultsOK
<1>4. k = FirstMarker(r) => BackwardRole(r, v) = 3
  BY <1>1, <1>2 DEF TensorInv, MarkerChunk
<1>5. /\ next = Sync => \A idle : idle.to = Nobody /\ idle.from = Nobody => Handed(r, p, idle, v, << >>, << >>)
      /\ next # Sync => next \in Chunks /\ Handed(r, p, Posted(op, "grad", next), next, << >>, AtOnce(op))
  BY <1>1, <1>2, <1>3, <1>4, LeaveSyncHands
<1>6. /\ next = Sync => UNCHANGED comm /\ outputTensorGrads' = outputTensorGrads
      /\ next # Sync => /\ Post(r, op, "grad", next)
                        /\ outputTensorGrads' = Add(outputTensorGrads, r, next, AtOnce(op))
  BY DEF LeaveSync, BK
<1>7. \A c : /\ inputTensors' = Add(inputTensors, r, c, << >>)
             /\ outputTensorGrads = Add(outputTensorGrads, r, c, << >>)
  BY <1>1, AddNothing DEF DataOK, ListsOK
<1>8. << >> \in Seq(Tensor) /\ AtOnce(op) \in Seq(Tensor)
  BY ShortSequences
<1> HIDE DEF v, next, op
<1>9. CASE next = Sync
  <2>1. Handed(r, p, comm'[r], v, << >>, << >>) /\ \A q \in Ranks : q # r => comm'[q] = comm[q]
    BY <1>1, <1>5, <1>6, <1>9, IdleHands
  <2>2. outputTensorGrads' = Add(outputTensorGrads, r, v, << >>) /\ inputTensors' = Add(inputTensors, r, v, << >>)
    BY <1>6, <1>7, <1>9
  <2>3. QED BY <1>1, <1>2, <1>3, <1>8, <2>1, <2>2, OtherKeeps
<1>10. CASE next # Sync
  <2>1. Handed(r, p, comm'[r], next, << >>, AtOnce(op)) /\ \A q \in Ranks : q # r => comm'[q] = comm[q]
    BY <1>5, <1>6, <1>10, PostHands
  <2>2. inputTensors' = Add(inputTensors, r, next, << >>)
    BY <1>7
  <2>3. QED BY <1>1, <1>2, <1>5, <1>6, <1>8, <1>10, <2>1, <2>2, OtherKeeps
<1>11. QED BY <1>9, <1>10

LEMMA FinishKeeps ==
  ASSUME GoodCounters, DataOK, TensorInv, NEW r \in Ranks, Finish(r)
  PROVE  TensorInv'
<1> DEFINE p == pc[r]
<1>1. GoodPlace(r, p) /\ p.phase = "finish" /\ Idle(r) /\ Step(r) /\ UNCHANGED <<vrank, lists, comm>>
  BY DEF GoodCounters, Finish, InPhase
<1>2. ~IsPass(r, p) /\ 0 \in Chunks /\ << >> \in Seq(Tensor)
  BY <1>1, ShortSequences DEF IsPass, ForwardAt, TurnAt, Chunks
<1>3. /\ Handed(r, p, comm'[r], 0, << >>, << >>)
      /\ \A q \in Ranks : q # r => comm'[q] = comm[q] /\ vrank'[q] = vrank[q]
  BY <1>1, FinishHands DEF Idle
<1>4. /\ inputTensors' = Add(inputTensors, r, 0, << >>) /\ UNCHANGED outputTensors
      /\ outputTensorGrads' = Add(outputTensorGrads, r, 0, << >>)
  BY <1>1, AddNothing DEF DataOK, ListsOK, lists
<1>5. QED BY <1>1, <1>2, <1>3, <1>4, OtherKeeps

\* What is said of a device's lists depends on its operation only as far as it waits.
LEMMA ListsOfOperation ==
  ASSUME NEW r, NEW p, NEW op, NEW op1, NEW ins, NEW outs, NEW grads,
         op1.from = op.from, ListsAt(r, p, op, ins, outs, grads)
  PROVE  ListsAt(r, p, op1, ins, outs, grads)
BY DEF ListsAt, InputsAt, GradsAt, Waits

LEMMA TransferKeeps ==
  ASSUME GoodCounters, DataOK, TensorInv, NEW a \in Ranks, NEW b \in Ranks, Transfer(a, b)
  PROVE  TensorInv'
<1> DEFINE pa == pc[a]
           pb == pc[b]
           opa == comm[a]
           opb == comm[b]
           left == comm'[a]
           got == comm'[b]
<1>1. /\ GoodPlace(a, pa) /\ GoodPlace(b, pb)
      /\ opa.to = b /\ opb.from = a
      /\ a # Nobody /\ b # Nobody
  BY NoneType DEF GoodCounters, Transfer
<1>2. /\ OpAt(a, pa, opa) /\ OpAt(b, pb, opb)
      /\ ListsAt(a, pa, opa, inputTensors[a], outputTensors[a], outputTensorGrads[a])
      /\ ListsAt(b, pb, opb, inputTensors[b], outputTensors[b], outputTensorGrads[b])
  BY DEF TensorInv, TensorsAt
<1>3. \A x \in Ranks, d \in {0, 1} : Below(x, d) \in Ranks =>
        Put(x, d, pc[x], comm[x]) = Got(Below(x, d), d, pc[Below(x, d)], comm[Below(x, d)])
  BY DEF TensorInv, LinksAgree
<1>4. \A d \in {0, 1} : Below(a, d) = b => Put(a, d, pa, opa) = Got(b, d, pb, opb)
  BY <1>3
<1>5. a # b
  BY <1>1, <1>2, LinkEnds DEF OpAt
<1>6. /\ left.to = Nobody /\ left.from = opa.from /\ left.box = opa.box /\ left.chunk = opa.chunk
      /\ got.from = Nobody /\ got.to = opb.to /\ got.tensor = opb.tensor
      /\ \A x \in Ranks : x # a /\ x # b => comm'[x] = comm[x]
  <2>1. /\ comm' = [r \in Ranks |->
                     [comm[r] EXCEPT !.to     = IF r = a THEN Nobody ELSE @,
                                     !.tensor = IF r = a THEN None ELSE @,
                                     !.from   = IF r = b THEN Nobody ELSE @]]
        /\ comm \in Comms
    BY DEF Transfer, DataOK, ListsOK
  <2>2. \A r \in Ranks : comm'[r] =
          [comm[r] EXCEPT !.to     = IF r = a THEN Nobody ELSE @,
                          !.tensor = IF r = a THEN None ELSE @,
                          !.from   = IF r = b THEN Nobody ELSE @]
    BY <2>1
  <2>3. \A r \in Ranks : comm[r] \in [to : Ranks \cup {Nobody}, tensor : Tensor, from : Ranks \cup {Nobody},
                                      box : {"in", "grad", "drop"}, chunk : Chunks]
    BY <2>1 DEF Comms
  <2>4. /\ left.to = Nobody /\ left.from = opa.from /\ left.box = opa.box /\ left.chunk = opa.chunk
    <3>1. left = [opa EXCEPT !.to = Nobody, !.tensor = None, !.from = @]
      BY <1>5, <2>2
    <3> HIDE DEF left
    <3>2. QED BY <2>3, <3>1
  <2>5. got.from = Nobody /\ got.to = opb.to /\ got.tensor = opb.tensor
    <3>1. got = [opb EXCEPT !.to = @, !.tensor = @, !.from = Nobody]
      BY <1>5, <2>2
    <3> HIDE DEF got
    <3>2. QED BY <2>3, <3>1
  <2>6. ASSUME NEW x \in Ranks, x # a, x # b
        PROVE  comm'[x] = comm[x]
    <3>1. comm'[x] = [comm[x] EXCEPT !.to = @, !.tensor = @, !.from = @]
      BY <2>2, <2>6
    <3>2. QED BY <2>3, <3>1
  <2>7. QED BY <2>4, <2>5, <2>6
<1>7. /\ pc' = pc /\ vrank' = vrank /\ outputTensors' = outputTensors
      /\ inputTensors' = IF opb.box = "in" THEN Add(inputTensors, b, opb.chunk, <<opa.tensor>>)
                                           ELSE inputTensors
      /\ outputTensorGrads' = IF opb.box = "grad" THEN Add(outputTensorGrads, b, opb.chunk, <<opa.tensor>>)
                                                  ELSE outputTensorGrads
      /\ inputTensors \in Lists /\ outputTensorGrads \in Lists
  BY DEF Transfer, DataOK, ListsOK
<1> HIDE DEF opa, opb, left, got, pa, pb
<1>8. PICK e \in {0, 1} :
        /\ Below(a, e) = b /\ Above(b, e) = a /\ OnLink(b, e, pb)
        /\ LinkDone(a, e, pa) = LinkDone(b, e, pb) + 1
        /\ opa.tensor = Needed(b, pb)
  BY <1>1, <1>2, <1>4, Delivered
<1>9. \A d \in {0, 1} :
        /\ Put(a, e, pa, left) = Got(b, e, pb, got)
        /\ d # e => Put(a, d, pa, left) = Put(a, d, pa, opa) \/ Below(a, d) \notin Ranks
        /\ d # e => Got(b, d, pb, got) = Got(b, d, pb, opb)
        /\ Put(b, d, pb, got) = Put(b, d, pb, opb)
        /\ Got(a, d, pa, left) = Got(a, d, pa, opa)
  BY <1>1, <1>6, <1>8, DeliveredLinks
<1>10. LinksAgree'
  <2> SUFFICES ASSUME NEW x \in Ranks, NEW d \in {0, 1}, Below(x, d) \in Ranks
               PROVE  Put(x, d, pc'[x], comm'[x]) = Got(Below(x, d), d, pc'[Below(x, d)], comm'[Below(x, d)])
    BY DEF LinksAgree
  <2> DEFINE y == Below(x, d)
  <2>1. Put(x, d, pc[x], comm[x]) = Got(y, d, pc[y], comm[y]) /\ y \in Ranks
    BY <1>3
  <2>2. (y = b /\ d = e <=> x = a /\ d = e)
    BY <1>8, <2>1, LinkEnds
  <2> HIDE DEF y
  <2>3. CASE x = a /\ d = e
    BY <1>7, <1>8, <1>9, <2>2, <2>3 DEF y, pa, pb, left, got
  <2>4. CASE ~(x = a /\ d = e)
    <3>1. Put(x, d, pc'[x], comm'[x]) = Put(x, d, pc[x], comm[x])
      <4>1. CASE x = a
        BY <1>7, <1>9, <2>1, <2>4, <4>1 DEF pa, left, opa, y
      <4>2. CASE x = b
        BY <1>7, <1>9, <4>2 DEF pb, got, opb
      <4>3. CASE x # a /\ x # b
        BY <1>6, <1>7, <4>3
      <4>4. QED BY <4>1, <4>2, <4>3
    <3>2. Got(y, d, pc'[y], comm'[y]) = Got(y, d, pc[y], comm[y])
      <4>1. CASE y = b
        BY <1>7, <1>9, <2>2, <2>4, <4>1 DEF pb, got, opb
      <4>2. CASE y = a
        BY <1>7, <1>9, <4>2 DEF pa, left, opa
      <4>3. CASE y # a /\ y # b
        BY <1>6, <1>7, <2>1, <4>3
      <4>4. QED BY <4>1, <4>2, <4>3
    <3>3. QED BY <2>1, <3>1, <3>2 DEF y
  <2>5. QED BY <2>3, <2>4
<1> DEFINE ins == inputTensors[b]
           outs == outputTensors[b]
           grads == outputTensorGrads[b]
           newIns == inputTensors'[b]
           newGrads == outputTensorGrads'[b]
           c == opb.chunk
<1>12. /\ c \in Chunks /\ opb.box \in {"in", "grad"}
       /\ opb.box = "in" =>
            \A row : row[c] = ins[c] \o <<Needed(b, pb)>> /\ (\A x \in Chunks : x # c => row[x] = ins[x])
                       => ListsAt(b, pb, got, row, outs, grads)
       /\ opb.box = "grad" =>
            \A row : row[c] = grads[c] \o <<Needed(b, pb)>> /\ (\A x \in Chunks : x # c => row[x] = grads[x])
                       => ListsAt(b, pb, got, ins, outs, row)
  <2>1. opb.from # Nobody /\ got.from = Nobody
    BY <1>1, <1>6
  <2>2. ListsAt(b, pb, opb, ins, outs, grads)
    BY <1>2
  <2>3. OpAt(b, pb, opb) /\ GoodPlace(b, pb)
    BY <1>1, <1>2
  <2> HIDE DEF ins, outs, grads, c
  <2>4. c = opb.chunk
    BY DEF c
  <2>5. opb.chunk \in Chunks /\ opb.box \in {"in", "grad"}
    BY <2>1, <2>2, <2>3, DeliveredLists
  <2>6. ASSUME opb.box = "in", NEW row,
               row[opb.chunk] = ins[opb.chunk] \o <<Needed(b, pb)>>,
               \A x \in Chunks : x # opb.chunk => row[x] = ins[x]
        PROVE  ListsAt(b, pb, got, row, outs, grads)
    BY <2>1, <2>2, <2>3, <2>6, DeliveredLists
  <2>7. ASSUME opb.box = "grad", NEW row,
               row[opb.chunk] = grads[opb.chunk] \o <<Needed(b, pb)>>,
               \A x \in Chunks : x # opb.chunk => row[x] = grads[x]
        PROVE  ListsAt(b, pb, got, ins, outs, row)
    BY <2>1, <2>2, <2>3, <2>7, DeliveredLists
  <2>8. QED BY <2>4, <2>5, <2>6, <2>7
<1>13. /\ ListsAt(b, pb, got, newIns, outs, newGrads)
       /\ \A q \in Ranks : q # b => /\ inputTensors'[q] = inputTensors[q]
                                    /\ outputTensorGrads'[q] = outputTensorGrads[q]
  <2>1. CASE opb.box = "in"
    <3>1. /\ newIns[c] = ins[c] \o <<Needed(b, pb)>>
          /\ \A x \in Chunks : x # c => newIns[x] = ins[x]
          /\ newGrads = grads
          /\ \A q \in Ranks : q # b => /\ inputTensors'[q] = inputTensors[q]
                                       /\ outputTensorGrads'[q] = outputTensorGrads[q]
      <4>1. /\ inputTensors' = Add(inputTensors, b, c, <<Needed(b, pb)>>)
            /\ outputTensorGrads' = outputTensorGrads
        BY <1>7, <1>8, <2>1
      <4>2. c \in Chunks /\ inputTensors \in Lists
        BY <1>7, <1>12
      <4> DEFINE ts == <<Needed(b, pb)>>
      <4> HIDE DEF c, ts
      <4>3. /\ Add(inputTensors, b, c, ts)[b][c] = inputTensors[b][c] \o ts
            /\ \A x \in Chunks : x # c => Add(inputTensors, b, c, ts)[b][x] = inputTensors[b][x]
            /\ \A q \in Ranks : q # b => Add(inputTensors, b, c, ts)[q] = inputTensors[q]
        BY <4>2 DEF Add, Lists
      <4>4. QED BY <4>1, <4>3 DEF ts
    <3> HIDE DEF newIns, newGrads, ins, grads, outs, c
    <3>2. QED BY <1>12, <2>1, <3>1
  <2>2. CASE opb.box = "grad"
    <3>1. /\ newGrads[c] = grads[c] \o <<Needed(b, pb)>>
          /\ \A x \in Chunks : x # c => newGrads[x] = grads[x]
          /\ newIns = ins
          /\ \A q \in Ranks : q # b => /\ inputTensors'[q] = inputTensors[q]
                                       /\ outputTensorGrads'[q] = outputTensorGrads[q]
      <4>1. /\ outputTensorGrads' = Add(outputTensorGrads, b, c, <<Needed(b, pb)>>)
            /\ inputTensors' = inputTensors
        BY <1>7, <1>8, <2>2
      <4>2. c \in Chunks /\ outputTensorGrads \in Lists
        BY <1>7, <1>12
      <4> DEFINE ts == <<Needed(b, pb)>>
      <4> HIDE DEF c, ts
      <4>3. /\ Add(outputTensorGrads, b, c, ts)[b][c] = outputTensorGrads[b][c] \o ts
            /\ \A x \in Chunks : x # c => Add(outputTensorGrads, b, c, ts)[b][x] = outputTensorGrads[b][x]
            /\ \A q \in Ranks : q # b => Add(outputTensorGrads, b, c, ts)[q] = outputTensorGrads[q]
        BY <4>2 DEF Add, Lists
      <4>4. QED BY <4>1, <4>3 DEF ts
    <3> HIDE DEF newIns, newGrads, ins, grads, outs, c
    <3>2. QED BY <1>12, <2>2, <3>1
  <2>3. QED BY <1>12, <2>1, <2>2
<1>14. OpAt(b, pb, got)
  BY <1>2, <1>6 DEF OpAt
<1>15. OpAt(a, pa, left) /\ ListsAt(a, pa, left, inputTensors[a], outputTensors[a], outputTensorGrads[a])
  BY <1>2, <1>6, ListsOfOperation DEF OpAt
<1>16. \A x \in Ranks : TensorsAt(x)'
  <2> SUFFICES ASSUME NEW x \in Ranks
               PROVE  TensorsAt(x)'
    OBVIOUS
  <2>1. CASE x = a
    BY <1>5, <1>7, <1>13, <1>15, <2>1 DEF TensorsAt, pa, left
  <2>2. CASE x = b
    BY <1>7, <1>13, <1>14, <2>2 DEF TensorsAt, pb, got
  <2>3. CASE x # a /\ x # b
    <3>1. /\ OpAt(x, pc[x], comm[x])
          /\ ListsAt(x, pc[x], comm[x], inputTensors[x], outputTensors[x], outputTensorGrads[x])
      BY DEF TensorInv, TensorsAt
    <3>2. QED BY <1>6, <1>7, <1>13, <2>3, <3>1 DEF TensorsAt
  <2>4. QED BY <2>1, <2>2, <2>3
<1>17. \A x \in Ranks : MarkerChunk(x, pc'[x], vrank'[x])
  BY <1>7 DEF TensorInv
<1>18. QED BY <1>10, <1>16, <1>17 DEF TensorInv

----
(***************************************************************************)
(* The theorem.                                                            *)
(***************************************************************************)
LEMMA TensorsAtStart == Init => TensorInv
<1> SUFFICES ASSUME Init PROVE TensorInv
  OBVIOUS
<1> DEFINE p == At("recv", 0)
<1>1. \A r \in Ranks : /\ pc[r] = p /\ vrank[r] = 0
                       /\ comm[r].to = Nobody /\ comm[r].from = Nobody
                       /\ \A c \in Chunks : /\ inputTensors[r][c] = << >>
                                            /\ outputTensors[r][c] = << >>
                                            /\ outputTensorGrads[r][c] = << >>
  BY DEF Init
<1>2. p.phase = "recv"
  BY DEF At
<1>3. ASSUME NEW r \in Ranks
      PROVE  /\ ~ForwardAt(p) /\ ~TurnAt(p) /\ ~IsPass(r, p)
             /\ \A c \in Chunks : Forwards(r, c, p) = 0 /\ Backwards(r, c, p) = 0
  <2>1. FDone(r, p) = 0 /\ BDone(r, p) = 0
    BY <1>2 DEF FDone, BDone
  <2>2. ~ForwardAt(p) /\ ~TurnAt(p)
    BY <1>2 DEF ForwardAt, TurnAt
  <2>3. QED BY <2>1, <2>2, ForwardOrder, BackwardOrder DEF Forwards, Backwards, IsPass
<1> HIDE DEF p
<1>4. \A r \in Ranks : TensorsAt(r)
  <2> SUFFICES ASSUME NEW r \in Ranks
               PROVE  TensorsAt(r)
    OBVIOUS
  <2>1. OpAt(r, p, comm[r])
    BY <1>1 DEF OpAt
  <2>2. \A c \in Chunks : /\ Kept(r, c, p) = 0
                          /\ Span(InputsOf(r, c), 0, 0) = << >> /\ Span(OutputsOf(r, c), 0, 0) = << >>
    <3>1. \A f \in [Nat -> Tensor] : Span(f, 0, 0) = << >>
      BY SpanFacts
    <3>2. \A c \in Chunks : Kept(r, c, p) = 0
      BY <1>3 DEF Kept
    <3>3. QED BY <3>1, <3>2, TensorsOf
  <2>3. ListsAt(r, p, comm[r], inputTensors[r], outputTensors[r], outputTensorGrads[r])
    BY <1>1, <1>3, <2>2 DEF ListsAt, OutputsAt, InputsAt, GradsAt, ForwardOf, BackwardOf
  <2>4. QED BY <1>1, <2>1, <2>3 DEF TensorsAt
<1>5. LinksAgree
  <2> SUFFICES ASSUME NEW r \in Ranks, NEW e \in {0, 1}, Below(r, e) \in Ranks
               PROVE  Put(r, e, pc[r], comm[r]) = Got(Below(r, e), e, pc[Below(r, e)], comm[Below(r, e)])
    BY DEF LinksAgree
  <2>1. \A q \in Ranks : LinkDone(q, e, p) = 0
    BY <1>3 DEF LinkDone, Chunks
  <2>2. Put(r, e, pc[r], comm[r]) = 0
    BY <1>1, <2>1, NoneType DEF Put
  <2>3. \A q \in Ranks : Got(q, e, pc[q], comm[q]) = 0
    BY <1>1, <1>3, <2>1 DEF Got, OnLink
  <2>4. QED BY <2>2, <2>3
<1>6. \A r \in Ranks : MarkerChunk(r, pc[r], vrank[r])
  BY <1>1, <1>2 DEF MarkerChunk
<1>7. QED BY <1>4, <1>5, <1>6 DEF TensorInv

LEMMA TensorsKept ==
  ASSUME ~OverlapP2P, GoodCounters, DataOK, CountInv, TensorInv, [Next]_vars
  PROVE  TensorInv'
<1>1. ASSUME NEW r \in Ranks, DeviceStep(r)
      PROVE  TensorInv'
  <2>1. CASE InitialRecv(r)
    BY <2>1, InitialRecvKeeps
  <2>2. CASE Warmup(r)
    BY <2>2, WarmupKeeps
  <2>3. CASE WarmupAgain(r)
    BY <2>3, WarmupAgainKeeps
  <2>4. CASE ForwardPass(r)
    BY <2>4, ForwardPassKeeps
  <2>5. CASE BackwardPass(r)
    BY <2>5, BackwardPassKeeps
  <2>6. CASE CooldownBackward(r)
    BY <2>6, CooldownBackwardKeeps
  <2>7. CASE FinalBackward(r)
    BY <2>7, FinalBackwardKeeps
  <2>8. CASE AllReduceGradients(r)
    BY <2>8 DEF AllReduceGradients, lists, TensorInv, TensorsAt, LinksAgree
  <2>9. CASE LeaveSync(r)
    BY <2>9, LeaveSyncKeeps
  <2>10. CASE Finish(r)
    BY <2>10, FinishKeeps
  <2>11. QED BY <1>1, <2>1, <2>2, <2>3, <2>4, <2>5, <2>6, <2>7, <2>8, <2>9, <2>10 DEF DeviceStep
<1>2. ASSUME NEW a \in Ranks, NEW b \in Ranks, Transfer(a, b)
      PROVE  TensorInv'
  BY <1>2, TransferKeeps
<1>3. CASE UNCHANGED vars
  BY <1>3 DEF vars, lists, TensorInv, TensorsAt, LinksAgree
<1>4. QED BY <1>1, <1>2, <1>3 DEF Next, Terminated

LEMMA TensorsRight ==
  ASSUME GoodCounters, DataOK, CountInv, TensorInv
  PROVE  RightTensor
<1>1. ASSUME NEW r \in Ranks, ForwardNext(r)
      PROVE  LET c == ForwardChunk(r, FK(r))
             IN  /\ PaddedInputs(r, c) # << >>
                 /\ LastInput(r, c) = IF IsFirstStage(r, c) THEN None
                                      ELSE Act(Pipe(c), fed[r][c], StageOf(r, c))
  <2>1. Idle(r) /\ ForwardAt(pc[r])
    BY <1>1 DEF ForwardNext, InPhase, ForwardAt
  <2>2. PassChunk(r, pc[r]) = ForwardChunk(r, FK(r))
    BY <2>1 DEF PassChunk, FK
  <2>3. QED BY <2>1, <2>2, ForwardReads DEF InputOf
<1>2. ASSUME NEW r \in Ranks, BackwardNext(r)
      PROVE  LET c == BackwardChunk(r, BK(r))
                 i == Backwarded(r, c)
                 s == StageOf(r, c)
             IN  /\ inputTensors[r][c] # << >>
                 /\ outputTensors[r][c] # << >>
                 /\ GradsFound(r, c) # << >>
                 /\ Head(outputTensors[r][c]) = Act(Pipe(c), i, s + 1)
                 /\ Head(inputTensors[r][c]) = IF IsFirstStage(r, c) THEN None ELSE Act(Pipe(c), i, s)
                 /\ Head(GradsFound(r, c)) = IF IsLastStage(r, c) THEN None ELSE Grad(Pipe(c), i, s + 1)
  <2> DEFINE p == pc[r]
             c == BackwardChunk(r, BK(r))
  <2>1. GoodPlace(r, p)
    BY DEF GoodCounters
  <2>2. c # Sync
    <3>1. CASE p.phase = "cooldown"
      BY <1>2, <3>1 DEF BackwardNext, InPhase
    <3>2. CASE p.phase \in {"mid1", "mid2", "mid3", "last"}
      <4>1. TurnAt(p)
        BY <1>2, <3>2 DEF BackwardNext, InPhase, TurnAt
      <4>2. BackwardChunk(r, BDone(r, p)) # Sync /\ BDone(r, p) = BackwardK(r, p)
        BY <2>1, <3>2, <4>1, EarlyTurns
      <4>3. QED BY <4>2 DEF BK
    <3>3. QED BY <1>2, <3>1, <3>2 DEF BackwardNext, InPhase
  <2>3. Idle(r) /\ TurnAt(p) /\ ~ForwardAt(p)
    BY <1>2 DEF BackwardNext, InPhase, TurnAt, ForwardAt
  <2>4. IsPass(r, p) /\ PassChunk(r, p) = c
    BY <2>2, <2>3 DEF IsPass, PassChunk, BK
  <2> DEFINE i == Backwards(r, c, p)
             v == IF p.phase = "cooldown" THEN vrank[r] ELSE c
  <2>5. /\ c \in Chunks
        /\ inputTensors[r][c] # << >> /\ Head(inputTensors[r][c]) = InputOf(r, c, i)
        /\ outputTensors[r][c] # << >> /\ Head(outputTensors[r][c]) = OutputOf(r, c, i)
        /\ outputTensorGrads[r][c] = IF IsLastStage(r, c) THEN << >> ELSE <<GradOf(r, c, i)>>
    BY <2>3, <2>4, BackwardReads
  <2>6. Backwarded(r, c) = i
    <3>1. fed[r][c] = Forwards(r, c, p) /\ Len(outputTensors[r][c]) = Forwards(r, c, p) - i
      BY <2>5 DEF CountInv, CountAt
    <3>2. Forwards(r, c, p) \in Nat /\ i \in Nat
      BY <2>1, <2>5, CountsNext
    <3> HIDE DEF i
    <3>3. QED BY <3>1, <3>2 DEF Backwarded
  <2>7. IsLastStage(r, c) => v = c
    <3>1. CASE p.phase = "cooldown"
      <4>1. End(r) => Role(r, p) # 0
        BY <2>1, <2>4, <3>1, CooldownRoles
      <4>2. IsLastStage(r, c) <=> End(r) /\ Role(r, p) = 0
        BY <2>1, <2>3, <2>4, PassSides
      <4>3. QED BY <4>1, <4>2
    <3>2. CASE p.phase # "cooldown"
      BY <3>2
    <3>3. QED BY <3>1, <3>2
  <2>8. GradsFound(r, c) = IF IsLastStage(r, v) /\ outputTensorGrads[r][c] = << >>
                           THEN <<None>> ELSE outputTensorGrads[r][c]
    BY DEF GradsFound, PaddedGrads
  <2>9. GradsFound(r, c) = IF IsLastStage(r, c) THEN <<None>> ELSE <<GradOf(r, c, i)>>
    <3> HIDE DEF v, i, c
    <3>1. CASE IsLastStage(r, c)
      BY <2>5, <2>7, <2>8, <3>1
    <3>2. CASE ~IsLastStage(r, c)
      <4>1. \A t : <<t>> # << >>
        OBVIOUS
      <4>2. QED BY <2>5, <2>8, <3>2, <4>1
    <3>3. QED BY <3>1, <3>2
  <2> HIDE DEF c, i
  <2>10. /\ GradsFound(r, c) # << >>
         /\ Head(GradsFound(r, c)) = IF IsLastStage(r, c) THEN None ELSE GradOf(r, c, i)
    <3>1. \A t : <<t>> # << >> /\ Head(<<t>>) = t
      OBVIOUS
    <3>2. QED BY <2>9, <3>1
  <2>11. /\ inputTensors[r][c] # << >> /\ outputTensors[r][c] # << >>
         /\ Head(outputTensors[r][c]) = Act(Pipe(c), i, StageOf(r, c) + 1)
         /\ Head(inputTensors[r][c]) = (IF IsFirstStage(r, c) THEN None ELSE Act(Pipe(c), i, StageOf(r, c)))
         /\ Head(GradsFound(r, c)) = IF IsLastStage(r, c) THEN None ELSE Grad(Pipe(c), i, StageOf(r, c) + 1)
    BY <2>5, <2>10 DEF InputOf, OutputOf, GradOf
  <2>12. QED BY <2>6, <2>10, <2>11 DEF c
<1>3. QED BY <1>1, <1>2 DEF RightTensor, NoIndexError, RightActivation, RightGradient

\* Without overlap_p2p_comm every pass of every device finds in its lists the
\* tensors it needs, and they are those of its own microbatch and stage: the
\* order of the schedule alone keeps the untagged messages of the two
\* pipelines apart, for every number of devices and of microbatches.
THEOREM TensorsInOrder ==
  ASSUME ~OverlapP2P
  PROVE  Spec => []RightTensor
<1>1. GoodCounters /\ DataOK /\ CountInv /\ TensorInv /\ [Next]_vars => TensorInv'
  BY TensorsKept
<1>2. GoodCounters /\ DataOK /\ CountInv /\ TensorInv => RightTensor
  BY TensorsRight
<1>3. QED BY <1>1, <1>2, TensorsAtStart, DataKept, PassesCounted, PTL DEF Spec

----
(***************************************************************************)
(* At the end of the call nothing is left in the lists.                    *)
(***************************************************************************)
LEMMA CountsAtEnd ==
  ASSUME NEW r \in Ranks, NEW p, p.phase = "done", NEW c \in Chunks
  PROVE  /\ Forwards(r, c, p) = PerPipe /\ PerPipe \in Nat
         /\ ~ForwardOnly => Backwards(r, c, p) = PerPipe /\ Kept(r, c, p) = 0
<1>1. FDone(r, p) = 2 * N /\ BDone(r, p) = IF ForwardOnly THEN 0 ELSE 2 * N + 2
  BY DEF FDone, BDone
<1>2. ForwardDone(r, c, 2 * N) = N \div 2 /\ BackwardDone(r, c, 2 * N + 2) = N \div 2
  BY ForwardOrder, BackwardOrder
<1>3. N \div 2 \in Nat
  BY UnitFacts
<1>4. QED BY <1>1, <1>2, <1>3 DEF Forwards, Backwards, Kept, PerPipe

LEMMA NothingIsLeft ==
  ASSUME GoodCounters, TensorInv
  PROVE  NothingLeft
<1> SUFFICES ASSUME NEW r \in Ranks, pc[r].phase = "done", ~ForwardOnly, NEW c \in Chunks
             PROVE  inputTensors[r][c] = << >> /\ outputTensors[r][c] = << >> /\ outputTensorGrads[r][c] = << >>
  BY DEF NothingLeft, Done
<1> DEFINE p == pc[r]
<1>1. GoodPlace(r, p)
  BY DEF GoodCounters
<1>2. ListsAt(r, p, comm[r], inputTensors[r], outputTensors[r], outputTensorGrads[r])
  BY DEF TensorInv, TensorsAt
<1>3. Kept(r, c, p) = 0 /\ Backwards(r, c, p) \in Nat
  BY <1>1, CountsAtEnd, CountsNext
<1>4. /\ Span(InputsOf(r, c), Backwards(r, c, p), 0) = << >>
      /\ Span(OutputsOf(r, c), Backwards(r, c, p), 0) = << >>
  <2> DEFINE b == Backwards(r, c, p)
  <2>1. \A f \in [Nat -> Tensor] : Span(f, b, 0) = << >>
    BY <1>3, SpanFacts
  <2>2. QED BY <2>1, TensorsOf
<1>5. ~ForwardOf(r, c, p) /\ ~BackwardOf(r, c, p) /\ ~Over(p)
  BY DEF ForwardOf, BackwardOf, ForwardAt, TurnAt, Over
<1>6. QED BY <1>2, <1>3, <1>4, <1>5 DEF ListsAt, InputsAt, OutputsAt, GradsAt

\* Without overlap_p2p_comm the activations a device keeps never exceed its
\* warmup, and when all devices are done every list is empty: no tensor is
\* received and not used, none is kept for the next training step.
THEOREM StorageStaysBounded ==
  ASSUME ~OverlapP2P
  PROVE  Spec => []StorageBounded
<1>1. GoodCounters /\ DataOK /\ CountInv /\ TensorInv /\ [Next]_vars => TensorInv'
  BY TensorsKept
<1>2. GoodCounters /\ TensorInv /\ ActivationsBounded => StorageBounded
  BY NothingIsLeft DEF StorageBounded
<1>3. QED BY <1>1, <1>2, TensorsAtStart, DataKept, PassesCounted, OutputsBounded, PTL DEF Spec

----
(***************************************************************************)
(* The results of the call.  What a step of a device does to them.         *)
(***************************************************************************)
LEMMA StepResults ==
  ASSUME GoodCounters, NEW r \in Ranks, DeviceStep(r)
  PROVE  LET p == pc[r]
             c == PassChunk(r, p)
         IN  \/ /\ Idle(r) /\ Step(r) /\ ForwardAt(p) /\ ForwardStepHelper(r, c)
             \/ /\ Idle(r) /\ Step(r) /\ IsPass(r, p) /\ ~ForwardAt(p)
                /\ \E v, m : BackwardStepHelper(r, c, v, m)
             \/ AllReduceGradients(r)
             \/ /\ Step(r) /\ ~IsPass(r, p) /\ UNCHANGED <<losses, mainGrad, reduced>>
                /\ LeaveSync(r) \/ (p.phase # "cooldown" /\ UNCHANGED synced)
<1> DEFINE p == pc[r]
<1>1. GoodPlace(r, p)
  BY DEF GoodCounters
<1>2. CASE InitialRecv(r) \/ Finish(r)
  BY <1>2 DEF InitialRecv, Finish, InPhase, results, IsPass, ForwardAt, TurnAt
<1>3. CASE Warmup(r) \/ WarmupAgain(r) \/ ForwardPass(r)
  <2>1. Idle(r) /\ Step(r) /\ ForwardAt(p) /\ ForwardStepHelper(r, ForwardChunk(r, FK(r)))
    BY <1>3 DEF Warmup, WarmupAgain, ForwardPass, InPhase, ForwardAt
  <2>2. PassChunk(r, p) = ForwardChunk(r, FK(r))
    BY <2>1 DEF PassChunk, FK
  <2>3. QED BY <2>1, <2>2
<1>4. CASE BackwardPass(r) \/ CooldownBackward(r) \/ FinalBackward(r)
  <2> DEFINE c == BackwardChunk(r, BK(r))
  <2>1. Idle(r) /\ Step(r) /\ TurnAt(p) /\ ~ForwardAt(p) /\ \E v, m : BackwardStepHelper(r, c, v, m)
    <3>1. Idle(r) /\ Step(r) /\ TurnAt(p) /\ ~ForwardAt(p)
      <4>1. CASE BackwardPass(r)
        <5>1. Idle(r) /\ Step(r) /\ p.phase \in {"mid1", "mid3", "last"} /\ p.k % 2 = 1
          BY <4>1 DEF BackwardPass, InPhase
        <5>2. QED BY <5>1 DEF ForwardAt, TurnAt
      <4>2. CASE CooldownBackward(r)
        <5>1. Idle(r) /\ Step(r) /\ p.phase = "mid2"
          BY <4>2 DEF CooldownBackward, InPhase
        <5>2. QED BY <5>1 DEF ForwardAt, TurnAt
      <4>3. CASE FinalBackward(r)
        <5>1. Idle(r) /\ Step(r) /\ p.phase = "cooldown"
          BY <4>3 DEF FinalBackward, InPhase
        <5>2. QED BY <5>1 DEF ForwardAt, TurnAt
      <4>4. QED BY <1>4, <4>1, <4>2, <4>3
    <3>2. \/ BackwardStepHelper(r, c, c, BkMicrobatchIdx[r][BK(r)])
          \/ BackwardStepHelper(r, c, vrank[r], BkMicrobatchIdx[r][BK(r)])
      BY <1>4 DEF BackwardPass, CooldownBackward, FinalBackward
    <3> HIDE DEF c
    <3>3. QED BY <3>1, <3>2
  <2>2. c # Sync
    <3>1. CASE p.phase = "cooldown"
      BY <1>4, <3>1 DEF BackwardPass, CooldownBackward, FinalBackward, InPhase
    <3>2. CASE p.phase \in {"mid1", "mid2", "mid3", "last"}
      <4>1. BackwardChunk(r, BDone(r, p)) # Sync /\ BDone(r, p) = BackwardK(r, p)
        BY <1>1, <2>1, <3>2, EarlyTurns
      <4>2. QED BY <4>1 DEF BK
    <3>3. QED BY <2>1, <3>1, <3>2 DEF TurnAt
  <2>3. IsPass(r, p) /\ PassChunk(r, p) = c
    BY <2>1, <2>2 DEF IsPass, PassChunk, BK
  <2>4. QED BY <2>1, <2>3
<1>5. CASE LeaveSync(r)
  <2>1. ~IsPass(r, p) /\ UNCHANGED <<losses, mainGrad, reduced>> /\ Step(r)
    BY <1>5 DEF LeaveSync, AtSync, InPhase, BK, IsPass, ForwardAt, TurnAt, results
  <2>2. QED BY <1>5, <2>1
<1>6. CASE AllReduceGradients(r)
  BY <1>6
<1>7. QED BY <1>2, <1>3, <1>4, <1>5, <1>6 DEF DeviceStep

\* The losses of a last stage, and of a device without one.
LossList(n) == [i \in 1 .. n |-> <<i - 1, i - 1>>]

LossAt(r, p, found) ==
  /\ (\A c \in Chunks : ~IsLastStage(r, c)) => found = << >>
  /\ \A c \in Chunks : IsLastStage(r, c) => found = LossList(Forwards(r, c, p))

LossInv == \A r \in Ranks : LossAt(r, pc[r], losses[r])

LEMMA LossListNext ==
  ASSUME NEW n \in Nat
  PROVE  Append(LossList(n), <<n, n>>) = LossList(n + 1) /\ LossList(0) = << >>
<1> DEFINE S == Nat \X Nat
<1>1. \A k \in Nat : LossList(k) \in Seq(S) /\ Len(LossList(k)) = k
                     /\ \A i \in 1 .. k : LossList(k)[i] = <<i - 1, i - 1>>
  <2> TAKE k \in Nat
  <2>1. \A i \in 1 .. k : <<i - 1, i - 1>> \in S
    OBVIOUS
  <2> HIDE DEF S
  <2>2. QED BY <2>1 DEF LossList
<1>2. <<n, n>> \in S /\ n + 1 \in Nat
  OBVIOUS
<1> HIDE DEF S
<1>3. Append(LossList(n), <<n, n>>) \in Seq(S) /\ Len(Append(LossList(n), <<n, n>>)) = n + 1
  BY <1>1, <1>2
<1>4. \A i \in 1 .. n + 1 : Append(LossList(n), <<n, n>>)[i] = LossList(n + 1)[i]
  <2> TAKE i \in 1 .. n + 1
  <2>1. LossList(n + 1)[i] = <<i - 1, i - 1>>
    BY <1>1, <1>2
  <2>2. CASE i = n + 1
    <3>1. Append(LossList(n), <<n, n>>)[n + 1] = <<n, n>>
      BY <1>1, <1>2, AppendProperties
    <3>2. i - 1 = n
      BY <2>2
    <3>3. QED BY <2>1, <2>2, <3>1, <3>2
  <2>3. CASE i # n + 1
    <3>1. i \in 1 .. n
      BY <2>3
    <3>2. Append(LossList(n), <<n, n>>)[i] = LossList(n)[i]
      BY <1>1, <1>2, <3>1, AppendProperties
    <3>3. QED BY <1>1, <2>1, <3>1, <3>2
  <2>4. QED BY <2>2, <2>3
<1>5. Append(LossList(n), <<n, n>>) = LossList(n + 1)
  BY <1>1, <1>2, <1>3, <1>4, SeqEqual
<1>6. LossList(0) = << >>
  BY <1>1
<1>7. QED BY <1>5, <1>6

\* A forward pass of a last stage stores the loss of its microbatch; nothing else does.
LEMMA ForwardKeepsLosses ==
  ASSUME GoodCounters, DataOK, CountInv, TensorInv, LossInv, NEW r \in Ranks,
         Idle(r), Step(r), ForwardAt(pc[r]), ForwardStepHelper(r, PassChunk(r, pc[r]))
  PROVE  LossInv'
<1> DEFINE p == pc[r]
           p1 == NextPlace(r, p)
           c == PassChunk(r, p)
           i == Forwards(r, c, p)
<1>1. GoodPlace(r, p) /\ pc'[r] = p1 /\ \A q \in Ranks : q # r => pc'[q] = pc[q]
  BY StepGood DEF GoodCounters
<1>2. c \in Chunks /\ fed[r][c] = i /\ ForwardOutput(r, c) = OutputOf(r, c, i)
  BY ForwardReads
<1>3. IsPass(r, p) /\ \A d \in Chunks : ForwardOf(r, d, p) <=> d = c
  BY <1>1, PassFacts
<1>4. \A d \in Chunks : Forwards(r, d, p) \in Nat /\ Forwards(r, d, p1) = Forwards(r, d, p) + (IF d = c THEN 1 ELSE 0)
  BY <1>1, <1>3, CountsNext
<1>5. losses' = StoreLoss(r, c) /\ losses \in [Ranks -> Seq(Nat \X Nat)]
  BY DEF ForwardStepHelper, DataOK, ResultsOK
<1>6. /\ \A q \in Ranks : q # r => losses'[q] = losses[q]
      /\ losses'[r] = IF IsLastStage(r, c) THEN Append(losses[r], <<i, i>>) ELSE losses[r]
  <2>1. ForwardOutput(r, c).mb = i
    BY <1>2 DEF OutputOf, Act
  <2>2. QED BY <1>2, <1>5, <2>1 DEF StoreLoss
<1>7. LossAt(r, p, losses[r])
  BY DEF LossInv
<1>8. LossAt(r, p1, losses'[r])
  <2>1. \A d \in Chunks : IsLastStage(r, c) /\ IsLastStage(r, d) => d = c
    BY HalfFacts DEF IsLastStage
  <2>2. i \in Nat /\ Forwards(r, c, p1) = i + 1
    BY <1>2, <1>4
  <2>3. CASE IsLastStage(r, c)
    <3>1. losses'[r] = LossList(Forwards(r, c, p1))
      <4>1. losses[r] = LossList(i) /\ losses'[r] = Append(losses[r], <<i, i>>)
        BY <1>2, <1>6, <1>7, <2>3 DEF LossAt
      <4> HIDE DEF i, p1, p, c
      <4>2. QED BY <2>2, <4>1, LossListNext
    <3>2. QED BY <1>2, <2>1, <2>3, <3>1 DEF LossAt
  <2>4. CASE ~IsLastStage(r, c)
    <3>1. \A d \in Chunks : IsLastStage(r, d) => Forwards(r, d, p1) = Forwards(r, d, p)
      BY <1>4, <2>4
    <3>2. losses'[r] = losses[r]
      BY <1>6, <2>4
    <3> HIDE DEF p, p1
    <3>3. QED BY <1>7, <3>1, <3>2 DEF LossAt
  <2>5. QED BY <2>3, <2>4
<1>9. \A q \in Ranks : LossAt(q, pc'[q], losses'[q])
  BY <1>1, <1>6, <1>8 DEF LossInv
<1>10. QED BY <1>9 DEF LossInv

LEMMA OthersKeepLosses ==
  ASSUME GoodCounters, LossInv, NEW r \in Ranks, Step(r), ~ForwardAt(pc[r]), UNCHANGED losses
  PROVE  LossInv'
<1> DEFINE p == pc[r]
           p1 == NextPlace(r, p)
<1>1. GoodPlace(r, p) /\ pc'[r] = p1 /\ \A q \in Ranks : q # r => pc'[q] = pc[q]
  BY StepGood DEF GoodCounters
<1>2. \A d \in Chunks : Forwards(r, d, p1) = Forwards(r, d, p)
  BY <1>1, CountsNext DEF ForwardOf
<1>3. LossAt(r, p1, losses[r])
  <2>1. LossAt(r, p, losses[r])
    BY DEF LossInv
  <2> HIDE DEF p, p1
  <2>2. QED BY <1>2, <2>1 DEF LossAt
<1>4. \A q \in Ranks : LossAt(q, pc'[q], losses'[q])
  BY <1>1, <1>3 DEF LossInv
<1>5. QED BY <1>4 DEF LossInv

LEMMA LossesKept ==
  ASSUME GoodCounters, DataOK, CountInv, TensorInv, LossInv, [Next]_vars
  PROVE  LossInv'
<1>1. CASE UNCHANGED <<pc, losses>>
  BY <1>1 DEF LossInv
<1>2. ASSUME NEW r \in Ranks, DeviceStep(r)
      PROVE  LossInv'
  <2> DEFINE c == PassChunk(r, pc[r])
  <2>1. CASE Idle(r) /\ Step(r) /\ ForwardAt(pc[r]) /\ ForwardStepHelper(r, c)
    BY <2>1, ForwardKeepsLosses
  <2>2. CASE Step(r) /\ ~ForwardAt(pc[r]) /\ UNCHANGED losses
    BY <2>2, OthersKeepLosses
  <2>3. CASE AllReduceGradients(r)
    BY <1>1, <2>3 DEF AllReduceGradients
  <2>4. ~IsPass(r, pc[r]) => ~ForwardAt(pc[r])
    BY DEF IsPass
  <2>5. (\E v, m : BackwardStepHelper(r, c, v, m)) => UNCHANGED losses
    BY DEF BackwardStepHelper
  <2> HIDE DEF c
  <2>6. QED BY <1>2, <2>1, <2>2, <2>3, <2>4, <2>5, StepResults DEF c
<1>3. ASSUME NEW a \in Ranks, NEW b \in Ranks, Transfer(a, b)
      PROVE  UNCHANGED <<pc, losses>>
  BY <1>3 DEF Transfer, results
<1>4. CASE UNCHANGED vars
  BY <1>1, <1>4 DEF vars, results
<1>5. QED BY <1>1, <1>2, <1>3, <1>4 DEF Next, Terminated

LEMMA LossesAtStart == Init => LossInv
<1> SUFFICES ASSUME Init, NEW r \in Ranks PROVE LossAt(r, pc[r], losses[r])
  BY DEF LossInv
<1>1. losses[r] = << >> /\ FDone(r, pc[r]) = 0
  BY DEF Init, At, FDone
<1>2. \A c \in Chunks : Forwards(r, c, pc[r]) = 0
  BY <1>1, ForwardOrder DEF Forwards
<1>3. LossList(0) = << >>
  BY LossListNext
<1>4. QED BY <1>1, <1>2, <1>3 DEF LossAt

LEMMA LossesRight ==
  ASSUME LossInv
  PROVE  LossOfEveryMicrobatch
<1> SUFFICES ASSUME NEW r \in Ranks, pc[r].phase = "done"
             PROVE  losses[r] = IF r \in {0, P - 1} THEN LossList(PerPipe) ELSE << >>
  BY DEF LossOfEveryMicrobatch, LossList, Done
<1>1. \A c \in Chunks : Forwards(r, c, pc[r]) = PerPipe
  BY CountsAtEnd
<1>2. LossAt(r, pc[r], losses[r])
  BY DEF LossInv
<1>3. r \in {0, P - 1} <=> \E c \in Chunks : IsLastStage(r, c)
  BY DEF IsLastStage, Chunks
<1>4. QED BY <1>1, <1>2, <1>3 DEF LossAt

----
(***************************************************************************)
(* The gradients.  A device all-reduces its four chunks one by one; the    *)
(* chunk at SyncPlace n is the one it all-reduces after n others.  Before  *)
(* that its gradient holds the backward passes the device has run, after   *)
(* it every microbatch of both pipelines.                                  *)
(***************************************************************************)
SyncPlace(r, c) ==
  (IF c \in {2, 3} THEN 0 ELSE 2) + (IF r < Half THEN c % 2 ELSE 1 - (c % 2))

SyncsDone(r) == 2 * MarkersPassed(r) + synced[r]

EveryMicrobatch == {0, 1} \X (0 .. PerPipe - 1)

OwnMicrobatches(c, i) == {Pipe(c)} \X (0 .. i - 1)

GradsOf(r, p, n, grads, times) ==
  \A c \in Chunks :
    IF n > SyncPlace(r, c)
    THEN grads[c] = EveryMicrobatch /\ times[c] = 1
    ELSE grads[c] = OwnMicrobatches(c, Backwards(r, c, p)) /\ times[c] = 0

GradInv == \A r \in Ranks : GradsOf(r, pc[r], SyncsDone(r), mainGrad[r], reduced[r])

LEMMA SyncPlaces ==
  ASSUME NEW r \in Ranks
  PROVE  \A c \in Chunks :
           /\ SyncPlace(r, c) \in 0 .. 3
           /\ SyncPlace(r, c) < 2 => c \in {2, 3}
           /\ \A d \in Chunks : SyncPlace(r, c) = SyncPlace(r, d) => c = d
           /\ SyncPlace(r, c) % 2 = IF r < Half THEN Pipe(c) ELSE 1 - Pipe(c)
<1>1. CASE r < Half
  <2>1. SyncPlace(r, 0) = 2 /\ SyncPlace(r, 1) = 3 /\ SyncPlace(r, 2) = 0 /\ SyncPlace(r, 3) = 1
    BY <1>1 DEF SyncPlace
  <2>2. QED BY <1>1, <2>1 DEF Chunks, Pipe
<1>2. CASE ~(r < Half)
  <2>1. SyncPlace(r, 0) = 3 /\ SyncPlace(r, 1) = 2 /\ SyncPlace(r, 2) = 1 /\ SyncPlace(r, 3) = 0
    BY <1>2 DEF SyncPlace
  <2>2. QED BY <1>2, <2>1 DEF Chunks, Pipe
<1>3. QED BY <1>1, <1>2

LEMMA Microbatches ==
  ASSUME NEW c \in Chunks
  PROVE  /\ OwnMicrobatches(c, 0) = {}
         /\ \A i \in Nat : OwnMicrobatches(c, i) \cup {<<Pipe(c), i>>} = OwnMicrobatches(c, i + 1)
         /\ \A d \in Chunks : Pipe(c) # Pipe(d) =>
              OwnMicrobatches(c, PerPipe) \cup OwnMicrobatches(d, PerPipe) = EveryMicrobatch
<1>1. 0 .. (0 - 1) = {}
  OBVIOUS
<1>2. \A i \in Nat : 0 .. ((i + 1) - 1) = (0 .. (i - 1)) \cup {i}
  OBVIOUS
<1>3. \A i \in Nat : OwnMicrobatches(c, i) \cup {<<Pipe(c), i>>} = OwnMicrobatches(c, i + 1)
  <2>1. \A a, S, x : ({a} \X S) \cup {<<a, x>>} = {a} \X (S \cup {x})
    OBVIOUS
  <2> TAKE i \in Nat
  <2>2. ({Pipe(c)} \X (0 .. i - 1)) \cup {<<Pipe(c), i>>} = {Pipe(c)} \X ((0 .. i - 1) \cup {i})
    BY <2>1
  <2>3. QED BY <1>2, <2>2 DEF OwnMicrobatches
<1>4. OwnMicrobatches(c, 0) = {}
  BY <1>1, Zenon DEF OwnMicrobatches
<1>5. ASSUME NEW d \in Chunks, Pipe(c) # Pipe(d)
      PROVE  OwnMicrobatches(c, PerPipe) \cup OwnMicrobatches(d, PerPipe) = EveryMicrobatch
  <2>1. {0, 1} = {Pipe(c)} \cup {Pipe(d)}
    BY <1>5 DEF Chunks, Pipe
  <2>2. QED BY <2>1, Zenon DEF OwnMicrobatches, EveryMicrobatch
<1>6. QED BY <1>3, <1>4, <1>5

\* The chunks a device may have all-reduced by place p have had all their passes.
LEMMA DoneByMarker ==
  ASSUME NEW r \in Ranks, NEW p, GoodPlace(r, p), NEW c \in Chunks,
         2 * (MarkersAt(r, p) + (IF OnMarker(r, p) THEN 1 ELSE 0)) > SyncPlace(r, c)
  PROVE  Backwards(r, c, p) = PerPipe
<1> DEFINE k == BackwardK(r, p)
           m == MarkersAt(r, p) + (IF OnMarker(r, p) THEN 1 ELSE 0)
<1>1. SyncPlace(r, c) \in 0 .. 3 /\ (SyncPlace(r, c) < 2 => c \in {2, 3})
  BY SyncPlaces
<1>2. N \in Nat /\ N > 1
  BY UnitFacts, HalfFacts
<1>3. CASE p.phase \in {"finish", "done"}
  <2>1. MarkersAt(r, p) = (IF ForwardOnly THEN 0 ELSE 2) /\ ~OnMarker(r, p)
    BY <1>3 DEF MarkersAt, OnMarker
  <2>2. ~ForwardOnly
    BY <1>1, <2>1
  <2>3. BDone(r, p) = 2 * N + 2
    BY <1>3, <2>2 DEF BDone
  <2>4. QED BY <2>3, BackwardOrder DEF Backwards, PerPipe
<1>4. CASE p.phase = "cooldown"
  <2>1. k \in 0 .. 2 * N + 1 /\ BDone(r, p) = k
    BY <1>4, CooldownPlaces DEF BDone, BackwardK
  <2>2. FirstMarker(r) = IF IsMiddle(r) THEN 2 * N ELSE 2 * N - 1
    BY DEF FirstMarker
  <2>3. m = (IF k > FirstMarker(r) THEN 1 ELSE 0) + (IF k \in {FirstMarker(r), 2 * N + 1} THEN 1 ELSE 0)
    BY <1>4 DEF MarkersAt, OnMarker
  <2> HIDE DEF k, m
  <2>4. BackwardDone(r, c, 2 * N + 1) = N \div 2
    BY BackwardOrder
  <2>5. CASE k = 2 * N + 1
    BY <2>1, <2>4, <2>5 DEF Backwards, PerPipe
  <2>6. CASE k # 2 * N + 1
    <3>1. k \in FirstMarker(r) .. 2 * N /\ m = 1
      BY <1>1, <1>2, <2>1, <2>2, <2>3, <2>6 DEF m
    <3>2. c \in {2, 3}
      BY <1>1, <3>1 DEF m
    <3>3. \A x \in FirstMarker(r) .. 2 * N : BackwardChunk(r, x) # c
      <4> TAKE x \in FirstMarker(r) .. 2 * N
      <4>1. CASE x = FirstMarker(r)
        <5>1. x \in 0 .. 2 * N + 1
          BY <1>2, <2>2
        <5>2. BackwardChunk(r, x) = Sync
          BY <4>1, <5>1, MarkerPlaces
        <5>3. QED BY <3>2, <5>2 DEF Sync
      <4>2. CASE x # FirstMarker(r)
        <5>1. x = 2 * N /\ ~IsMiddle(r)
          BY <1>2, <2>2, <4>2
        <5>2. BackwardChunk(r, x) = IHalf(r) /\ IHalf(r) \in {0, 1}
          BY <5>1, LastBackwardPass, HalfOfRank
        <5>3. QED BY <3>2, <5>2
      <4>3. QED BY <4>1, <4>2
    <3>4. \A x \in FirstMarker(r) .. 2 * N :
            BackwardDone(r, c, x) \in Nat /\ BackwardDone(r, c, x + 1) = BackwardDone(r, c, x)
      <4> TAKE x \in FirstMarker(r) .. 2 * N
      <4>1. x \in 0 .. 2 * N + 1 /\ BackwardChunk(r, x) # c
        BY <1>2, <2>2, <3>3
      <4>2. QED BY <4>1, BackwardOrder
    <3>5. BackwardDone(r, c, 2 * N) = N \div 2
      <4>1. 2 * N \in FirstMarker(r) .. 2 * N
        BY <1>2, <2>2
      <4>2. QED BY <2>4, <3>4, <4>1
    <3>6. BackwardDone(r, c, k) = N \div 2
      <4>1. CASE k = 2 * N
        BY <3>5, <4>1
      <4>2. CASE k # 2 * N
        <5>1. k + 1 = 2 * N
          BY <1>2, <2>2, <3>1, <4>2
        <5>2. BackwardDone(r, c, k + 1) = BackwardDone(r, c, k)
          BY <3>1, <3>4
        <5>3. QED BY <3>5, <5>1, <5>2
      <4>3. QED BY <4>1, <4>2
    <3>7. QED BY <2>1, <3>6 DEF Backwards, PerPipe
  <2>7. QED BY <2>5, <2>6
<1>5. CASE p.phase \notin {"cooldown", "finish", "done"}
  <2>1. MarkersAt(r, p) = 0 /\ ~OnMarker(r, p)
    BY <1>5 DEF MarkersAt, OnMarker
  <2>2. QED BY <1>1, <2>1
<1>6. QED BY <1>3, <1>4, <1>5

\* The first all-reduces of two partners are of chunks of different pipelines.
LEMMA SyncState ==
  ASSUME GoodCounters, MarkerInv, NEW r \in Ranks, AtSync(r), synced[r] < 2
  PROVE  /\ OnMarker(r, pc[r]) /\ SyncChunk(r) \in Chunks
         /\ SyncPlace(r, SyncChunk(r)) = SyncsDone(r)
         /\ MarkersPassed(r) \in {0, 1} /\ synced[r] \in {0, 1}
         /\ 2 * (MarkersAt(r, pc[r]) + 1) > SyncsDone(r)
<1> DEFINE k == BackwardK(r, pc[r])
<1>1. pc[r].phase = "cooldown" /\ BackwardChunk(r, k) = Sync
  BY DEF AtSync, InPhase, BK
<1>2. k \in 0 .. 2 * N + 1
  BY <1>1, CooldownPlaces DEF GoodCounters
<1>3. k \in {FirstMarker(r), 2 * N + 1}
  BY <1>1, <1>2, MarkerPlaces DEF Sync, Chunks
<1>4. FirstMarker(r) \in {2 * N, 2 * N - 1} /\ N \in Nat
  BY UnitFacts DEF FirstMarker
<1>5. synced[r] \in {0, 1}
  BY DEF MarkerInv
<1>6. MarkersPassed(r) = (IF k < 2 * N + 1 THEN 0 ELSE 1) /\ MarkersAt(r, pc[r]) = MarkersPassed(r)
  BY <1>1, <1>3, <1>4 DEF MarkersPassed, MarkersAt
<1>7. SyncChunk(r) = (IF MarkersPassed(r) = 0 THEN 2 ELSE 0)
                       + (IF r < Half THEN synced[r] ELSE 1 - synced[r])
  BY <1>6 DEF SyncChunk, BK, TotalNumMicrobatches
<1>8. MarkersPassed(r) \in {0, 1}
  BY <1>6
<1>9. SyncChunk(r) \in Chunks /\ SyncPlace(r, SyncChunk(r)) = SyncsDone(r)
  <2> DEFINE M == MarkersPassed(r)
             s == synced[r]
             h == r < Half
  <2>1. /\ M \in {0, 1} /\ s \in {0, 1}
        /\ SyncChunk(r) = (IF M = 0 THEN 2 ELSE 0) + (IF h THEN s ELSE 1 - s)
        /\ SyncsDone(r) = 2 * M + s
        /\ \A c \in Chunks : SyncPlace(r, c) = (IF c \in {2, 3} THEN 0 ELSE 2) + (IF h THEN c % 2 ELSE 1 - (c % 2))
    BY <1>5, <1>7, <1>8 DEF SyncsDone, SyncPlace
  <2> HIDE DEF M, s, h
  <2>2. CASE M = 0 /\ s = 0
    BY <2>1, <2>2 DEF Chunks
  <2>3. CASE M = 0 /\ s = 1
    BY <2>1, <2>3 DEF Chunks
  <2>4. CASE M = 1 /\ s = 0
    BY <2>1, <2>4 DEF Chunks
  <2>5. CASE M = 1 /\ s = 1
    BY <2>1, <2>5 DEF Chunks
  <2>6. QED BY <2>1, <2>2, <2>3, <2>4, <2>5
<1>10. OnMarker(r, pc[r])
  BY <1>1, <1>3 DEF OnMarker
<1>11. QED BY <1>5, <1>6, <1>8, <1>9, <1>10 DEF SyncsDone

\* How much a device has all-reduced never exceeds the markers it has come to.
LEMMA SyncsBounded ==
  ASSUME GoodCounters, MarkerInv, NEW r \in Ranks
  PROVE  /\ SyncsDone(r) \in Nat
         /\ SyncsDone(r) <= 2 * (MarkersAt(r, pc[r]) + (IF OnMarker(r, pc[r]) THEN 1 ELSE 0))
<1>1. GoodPlace(r, pc[r]) /\ synced[r] \in 0 .. 2 /\ (~OnMarker(r, pc[r]) => synced[r] = 0)
  BY DEF GoodCounters, MarkerInv
<1>2. MarkersAt(r, pc[r]) \in 0 .. 2
  BY <1>1, MarkersNext
<1>3. QED BY <1>1, <1>2 DEF SyncsDone, MarkersPassed

\* A step of a device in its program changes no number of all-reduces.
LEMMA SyncsKept ==
  ASSUME GoodCounters, MarkerInv, NEW r \in Ranks, Step(r),
         LeaveSync(r) \/ (~OnMarker(r, pc[r]) /\ UNCHANGED synced)
  PROVE  \A q \in Ranks : SyncsDone(q)' = SyncsDone(q)
<1>1. GoodPlace(r, pc[r]) /\ synced \in [Ranks -> 0 .. 2] /\ (~OnMarker(r, pc[r]) => synced[r] = 0)
  BY DEF GoodCounters, MarkerInv
<1>2. pc'[r] = NextPlace(r, pc[r]) /\ \A q \in Ranks : q # r => pc'[q] = pc[q]
  BY StepGood
<1>3. \A q \in Ranks : q # r => MarkersPassed(q)' = MarkersPassed(q)
  BY <1>2 DEF MarkersPassed
<1>4. MarkersPassed(r) \in Int
      /\ MarkersPassed(r)' = MarkersPassed(r) + (IF OnMarker(r, pc[r]) THEN 1 ELSE 0)
  BY <1>1, <1>2, MarkersNext DEF MarkersPassed
<1>5. CASE LeaveSync(r)
  <2>1. synced[r] = 2 /\ synced'[r] = 0 /\ \A q \in Ranks : q # r => synced'[q] = synced[q]
    BY <1>1, <1>5 DEF LeaveSync
  <2>2. OnMarker(r, pc[r])
    BY <1>1, <2>1
  <2>3. SyncsDone(r)' = SyncsDone(r)
    BY <1>4, <2>1, <2>2 DEF SyncsDone
  <2>4. QED BY <1>3, <2>1, <2>3 DEF SyncsDone
<1>6. CASE ~OnMarker(r, pc[r]) /\ UNCHANGED synced
  <2>1. SyncsDone(r)' = SyncsDone(r)
    BY <1>4, <1>6 DEF SyncsDone
  <2>2. QED BY <1>3, <1>6, <2>1 DEF SyncsDone
<1>7. QED BY <1>5, <1>6

LEMMA PassOffMarker ==
  ASSUME NEW r \in Ranks, NEW p, GoodPlace(r, p), IsPass(r, p) \/ p.phase # "cooldown"
  PROVE  ~OnMarker(r, p)
<1>1. CASE p.phase # "cooldown"
  BY <1>1 DEF OnMarker
<1>2. CASE IsPass(r, p) /\ p.phase = "cooldown"
  <2>1. BackwardChunk(r, BackwardK(r, p)) # Sync /\ BackwardK(r, p) \in 0 .. 2 * N + 1
    BY <1>2, CooldownPlaces DEF IsPass, ForwardAt, TurnAt
  <2>2. QED BY <2>1, MarkerPlaces DEF OnMarker
<1>3. QED BY <1>1, <1>2

\* What each kind of step does to the gradients of one device.
LEMMA GradsStay ==
  ASSUME NEW r \in Ranks, NEW p, GoodPlace(r, p), \A c \in Chunks : ~BackwardOf(r, c, p),
         NEW n, NEW grads, NEW times, GradsOf(r, p, n, grads, times)
  PROVE  GradsOf(r, NextPlace(r, p), n, grads, times)
<1>1. \A c \in Chunks : Backwards(r, c, NextPlace(r, p)) = Backwards(r, c, p)
  BY CountsNext
<1>2. QED BY <1>1 DEF GradsOf

LEMMA GradsAdd ==
  ASSUME NEW r \in Ranks, NEW p, GoodPlace(r, p), NEW c \in Chunks,
         \A d \in Chunks : BackwardOf(r, d, p) <=> d = c,
         NEW n \in Nat, ~(n > SyncPlace(r, c)),
         NEW grads, NEW grads1, NEW times, GradsOf(r, p, n, grads, times),
         \A d \in Chunks : d # c => grads1[d] = grads[d],
         grads1[c] = grads[c] \cup {<<Pipe(c), Backwards(r, c, p)>>}
  PROVE  GradsOf(r, NextPlace(r, p), n, grads1, times)
<1>1. \A d \in Chunks : d # c => Backwards(r, d, NextPlace(r, p)) = Backwards(r, d, p)
  BY CountsNext
<1>2. /\ Backwards(r, c, NextPlace(r, p)) = Backwards(r, c, p) + 1
      /\ Backwards(r, c, p) \in Nat
  BY CountsNext
<1>3. OwnMicrobatches(c, Backwards(r, c, p)) \cup {<<Pipe(c), Backwards(r, c, p)>>}
        = OwnMicrobatches(c, Backwards(r, c, NextPlace(r, p)))
  BY <1>2, Microbatches
<1>4. QED BY <1>1, <1>3 DEF GradsOf

LEMMA GradsReduced ==
  ASSUME NEW r \in Ranks, NEW p, NEW c \in Chunks, NEW n \in Nat, SyncPlace(r, c) = n,
         NEW grads, NEW grads1, NEW times, NEW times1, GradsOf(r, p, n, grads, times),
         \A d \in Chunks : d # c => grads1[d] = grads[d] /\ times1[d] = times[d],
         grads1[c] = EveryMicrobatch, times1[c] = times[c] + 1
  PROVE  GradsOf(r, p, n + 1, grads1, times1)
<1>1. \A d \in Chunks : d # c => SyncPlace(r, d) \in Int /\ SyncPlace(r, d) # n
  BY SyncPlaces
<1>2. times[c] = 0
  BY DEF GradsOf
<1>3. \A d \in Chunks : d # c => (n + 1 > SyncPlace(r, d) <=> n > SyncPlace(r, d))
  BY <1>1
<1>4. n + 1 > SyncPlace(r, c) /\ times1[c] = 1
  BY <1>2
<1>5. QED BY <1>3, <1>4 DEF GradsOf

\* A backward pass adds its microbatch to the gradient of its chunk, which has
\* not been all-reduced yet.
LEMMA BackwardKeepsGrads ==
  ASSUME GoodCounters, GoodCounters', DataOK, TensorInv, MarkerInv, GradInv, NEW r \in Ranks,
         Idle(r), Step(r), IsPass(r, pc[r]), ~ForwardAt(pc[r]),
         NEW v, NEW m, BackwardStepHelper(r, PassChunk(r, pc[r]), v, m)
  PROVE  GradInv'
<1> DEFINE p == pc[r]
           p1 == NextPlace(r, p)
           c == PassChunk(r, p)
           i == Backwards(r, c, p)
           n == SyncsDone(r)
<1>1. /\ GoodPlace(r, p) /\ GoodPlace(r, p1) /\ pc'[r] = p1
      /\ \A q \in Ranks : q # r => pc'[q] = pc[q]
  BY StepGood, NextPlaceGood DEF GoodCounters
<1>2. /\ c \in Chunks /\ outputTensors[r][c] # << >> /\ Head(outputTensors[r][c]) = OutputOf(r, c, i)
  BY BackwardReads
<1>3. /\ mainGrad' = [mainGrad EXCEPT ![r][c] = @ \cup {<<Pipe(c), i>>}]
      /\ UNCHANGED <<synced, reduced>>
  <2>1. Head(outputTensors[r][c]).pipe = Pipe(c) /\ Head(outputTensors[r][c]).mb = i
    BY <1>2 DEF OutputOf, Act
  <2>2. QED BY <2>1 DEF BackwardStepHelper
<1>4. \A d \in Chunks : BackwardOf(r, d, p) <=> d = c
  BY <1>1, <1>2, PassFacts
<1>5. ~OnMarker(r, p)
  BY <1>1, PassOffMarker
<1>6. \A q \in Ranks : SyncsDone(q)' = SyncsDone(q)
  BY <1>3, <1>5, SyncsKept
<1>7. n \in Nat /\ n <= 2 * MarkersAt(r, p) /\ MarkersAt(r, p1) = MarkersAt(r, p)
      /\ MarkersAt(r, p) \in 0 .. 2
  BY <1>1, <1>5, SyncsBounded, MarkersNext
<1>8. ~(n > SyncPlace(r, c))
  <2> SUFFICES ASSUME n > SyncPlace(r, c) PROVE FALSE
    OBVIOUS
  <2>1. SyncPlace(r, c) \in 0 .. 3
    BY <1>2, SyncPlaces
  <2>2. 2 * (MarkersAt(r, p) + (IF OnMarker(r, p) THEN 1 ELSE 0)) > SyncPlace(r, c)
    BY <1>5, <1>7, <2>1
  <2>3. 2 * (MarkersAt(r, p1) + (IF OnMarker(r, p1) THEN 1 ELSE 0)) > SyncPlace(r, c)
    BY <1>7, <2>1
  <2>4. Backwards(r, c, p) = PerPipe
    BY <1>1, <1>2, <2>2, DoneByMarker
  <2>5. Backwards(r, c, p1) = PerPipe
    BY <1>1, <1>2, <2>3, DoneByMarker
  <2>6. Backwards(r, c, p1) = Backwards(r, c, p) + 1 /\ Backwards(r, c, p) \in Nat
    BY <1>1, <1>2, <1>4, CountsNext
  <2>7. QED BY <2>4, <2>5, <2>6
<1>9. mainGrad \in [Ranks -> [Chunks -> SUBSET ({0, 1} \X Nat)]]
  BY DEF DataOK, ResultsOK
<1>10. GradsOf(r, p, n, mainGrad[r], reduced[r])
  BY DEF GradInv
<1> DEFINE grads == mainGrad[r]
           grads1 == mainGrad'[r]
           times == reduced[r]
<1>11. /\ \A d \in Chunks : d # c => grads1[d] = grads[d]
       /\ grads1[c] = grads[c] \cup {<<Pipe(c), Backwards(r, c, p)>>}
       /\ \A q \in Ranks : q # r => mainGrad'[q] = mainGrad[q]
  BY <1>2, <1>3, <1>9
<1>12. GradsOf(r, p1, n, grads1, times)
  <2>1. GradsOf(r, p, n, grads, times)
    BY <1>10
  <2> HIDE DEF p, c, n, grads, grads1, times
  <2>2. GradsOf(r, NextPlace(r, p), n, grads1, times)
    BY <1>1, <1>2, <1>4, <1>7, <1>8, <1>11, <2>1, GradsAdd
  <2>3. QED BY <2>2
<1>13. ASSUME NEW q \in Ranks
       PROVE  GradsOf(q, pc'[q], SyncsDone(q)', mainGrad'[q], reduced'[q])
  <2>1. CASE q = r
    BY <1>1, <1>3, <1>6, <1>12, <2>1
  <2>2. CASE q # r
    BY <1>1, <1>3, <1>6, <1>11, <2>2 DEF GradInv
  <2>3. QED BY <2>1, <2>2
<1>14. QED BY <1>13 DEF GradInv, GradsOf, Backwards, BDone

\* A step of the program that runs no backward pass.
LEMMA OthersKeepGrads ==
  ASSUME GoodCounters, MarkerInv, GradInv, NEW r \in Ranks, Step(r),
         \A c \in Chunks : ~BackwardOf(r, c, pc[r]), UNCHANGED <<mainGrad, reduced>>,
         LeaveSync(r) \/ (~OnMarker(r, pc[r]) /\ UNCHANGED synced)
  PROVE  GradInv'
<1> DEFINE p == pc[r]
           n == SyncsDone(r)
<1>1. GoodPlace(r, p) /\ pc'[r] = NextPlace(r, p) /\ \A q \in Ranks : q # r => pc'[q] = pc[q]
  BY StepGood DEF GoodCounters
<1>2. \A q \in Ranks : SyncsDone(q)' = SyncsDone(q)
  BY SyncsKept
<1>3. GradsOf(r, NextPlace(r, p), n, mainGrad[r], reduced[r])
  <2> DEFINE grads == mainGrad[r]
             times == reduced[r]
  <2>1. GradsOf(r, p, n, grads, times) /\ \A c \in Chunks : ~BackwardOf(r, c, p)
    BY DEF GradInv
  <2> HIDE DEF p, n, grads, times
  <2>2. GradsOf(r, NextPlace(r, p), n, grads, times)
    BY <1>1, <2>1, GradsStay
  <2>3. QED BY <2>2 DEF grads, times
<1>4. ASSUME NEW q \in Ranks
      PROVE  GradsOf(q, pc'[q], SyncsDone(q)', mainGrad'[q], reduced'[q])
  <2>1. CASE q = r
    BY <1>1, <1>2, <1>3, <2>1
  <2>2. CASE q # r
    BY <1>1, <1>2, <2>2 DEF GradInv
  <2>3. QED BY <2>1, <2>2
<1>5. QED BY <1>4 DEF GradInv, GradsOf, Backwards, BDone

\* Two partners all-reduce the two replicas of a stage, each after all the backward
\* passes of its pipeline.
LEMMA ReducePair ==
  ASSUME GoodCounters, MarkerInv, NEW r \in Ranks, NEW q, q = BdPartner(r),
         NEW c, c = SyncChunk(r), NEW d, d = SyncChunk(q), AllReduceGradients(r)
  PROVE  /\ q \in Ranks /\ q # r /\ c \in Chunks /\ d \in Chunks
         /\ Pipe(c) # Pipe(d) /\ StageOf(q, d) = StageOf(r, c)
         /\ Backwards(r, c, pc[r]) = PerPipe /\ Backwards(q, d, pc[q]) = PerPipe
         /\ SyncPlace(r, c) = SyncsDone(r) /\ SyncPlace(q, d) = SyncsDone(q)
         /\ SyncsDone(r) \in Nat /\ SyncsDone(q) \in Nat
<1>1. q \in Ranks /\ q # r
  BY PartnerReplicas DEF Chunks
<1>2. AtSync(r) /\ AtSync(q) /\ synced[r] < 2 /\ synced[q] < 2 /\ r < q
  BY DEF AllReduceGradients
<1>3. /\ OnMarker(r, pc[r]) /\ c \in Chunks /\ SyncPlace(r, c) = SyncsDone(r)
      /\ 2 * (MarkersAt(r, pc[r]) + 1) > SyncsDone(r)
  BY <1>2, SyncState
<1>4. /\ OnMarker(q, pc[q]) /\ d \in Chunks /\ SyncPlace(q, d) = SyncsDone(q)
      /\ 2 * (MarkersAt(q, pc[q]) + 1) > SyncsDone(q)
  BY <1>1, <1>2, SyncState
<1>5. SyncsDone(q) = SyncsDone(r) /\ SyncsDone(r) \in Nat
  BY SyncsBounded DEF MarkerInv, SyncsDone
<1>6. GoodPlace(r, pc[r]) /\ GoodPlace(q, pc[q])
  BY <1>1 DEF GoodCounters
<1>7. /\ 2 * (MarkersAt(r, pc[r]) + (IF OnMarker(r, pc[r]) THEN 1 ELSE 0)) > SyncPlace(r, c)
      /\ 2 * (MarkersAt(q, pc[q]) + (IF OnMarker(q, pc[q]) THEN 1 ELSE 0)) > SyncPlace(q, d)
  BY <1>3, <1>4
<1>8. Backwards(r, c, pc[r]) = PerPipe /\ Backwards(q, d, pc[q]) = PerPipe
  BY <1>1, <1>3, <1>4, <1>6, <1>7, DoneByMarker
<1>9. r < Half /\ ~(q < Half) /\ q = P - 1 - r /\ r \in Int /\ P \in Int
  BY <1>2, HalfFacts DEF BdPartner, Ranks
<1>10. Pipe(c) # Pipe(d) /\ StageOf(q, d) = StageOf(r, c)
  <2>1. SyncPlace(r, c) = SyncPlace(q, d)
    BY <1>3, <1>4, <1>5
  <2>2. (c = 0 /\ d = 1) \/ (c = 1 /\ d = 0) \/ (c = 2 /\ d = 3) \/ (c = 3 /\ d = 2)
    BY <1>3, <1>4, <1>9, <2>1 DEF SyncPlace, Chunks
  <2>3. CASE c = 0 /\ d = 1
    BY <1>9, <2>3 DEF Pipe, StageOf
  <2>4. CASE c = 1 /\ d = 0
    BY <1>9, <2>4 DEF Pipe, StageOf
  <2>5. CASE c = 2 /\ d = 3
    BY <1>9, <2>5 DEF Pipe, StageOf
  <2>6. CASE c = 3 /\ d = 2
    BY <1>9, <2>6 DEF Pipe, StageOf
  <2>7. QED BY <2>2, <2>3, <2>4, <2>5, <2>6
<1>11. QED BY <1>1, <1>3, <1>4, <1>5, <1>8, <1>10

\* An all-reduce of two partners: replicas of the same stages, of the two pipelines,
\* both with all the backward passes of their own pipeline.
LEMMA AllReduceKeepsGrads ==
  ASSUME GoodCounters, DataOK, MarkerInv, GradInv, NEW r \in Ranks, AllReduceGradients(r)
  PROVE  GradInv'
<1> DEFINE q == BdPartner(r)
           c == SyncChunk(r)
           d == SyncChunk(q)
           n == SyncsDone(r)
           sum == mainGrad[r][c] \cup mainGrad[q][d]
<1>1. q \in Ranks /\ q # r
  BY PartnerReplicas DEF Chunks
<1>2. /\ AtSync(r) /\ AtSync(q) /\ synced[r] < 2 /\ synced[q] < 2 /\ r < q
      /\ mainGrad' = [mainGrad EXCEPT ![r][c] = sum, ![q][d] = sum]
      /\ reduced' = [reduced EXCEPT ![r][c] = reduced[r][c] + 1, ![q][d] = reduced[q][d] + 1]
      /\ synced' = [synced EXCEPT ![r] = synced[r] + 1, ![q] = synced[q] + 1]
      /\ pc' = pc
  BY DEF AllReduceGradients
<1>3. /\ c \in Chunks /\ d \in Chunks /\ Pipe(c) # Pipe(d)
      /\ Backwards(r, c, pc[r]) = PerPipe /\ Backwards(q, d, pc[q]) = PerPipe
      /\ SyncPlace(r, c) = n /\ SyncPlace(q, d) = SyncsDone(q)
  BY ReducePair
<1>4. SyncsDone(q) = n /\ n \in Nat
  BY SyncsBounded DEF MarkerInv, SyncsDone
<1>5. /\ GradsOf(r, pc[r], n, mainGrad[r], reduced[r])
      /\ GradsOf(q, pc[q], n, mainGrad[q], reduced[q])
  BY <1>1, <1>4 DEF GradInv
<1>6. /\ mainGrad \in [Ranks -> [Chunks -> SUBSET ({0, 1} \X Nat)]]
      /\ reduced \in [Ranks -> [Chunks -> Nat]]
      /\ synced \in [Ranks -> 0 .. 2]
  BY DEF DataOK, ResultsOK, MarkerInv
<1> HIDE DEF q, c, d, n
<1>7. sum = EveryMicrobatch
  <2>1. mainGrad[r][c] = OwnMicrobatches(c, PerPipe)
    BY <1>3, <1>4, <1>5 DEF GradsOf
  <2>2. mainGrad[q][d] = OwnMicrobatches(d, PerPipe)
    BY <1>3, <1>4, <1>5 DEF GradsOf
  <2>3. QED BY <1>3, <2>1, <2>2, Microbatches
<1> HIDE DEF sum
<1>8. /\ mainGrad'[r] = [mainGrad[r] EXCEPT ![c] = sum]
      /\ mainGrad'[q] = [mainGrad[q] EXCEPT ![d] = sum]
      /\ \A x \in Ranks : x \notin {r, q} => mainGrad'[x] = mainGrad[x]
  BY <1>1, <1>2, <1>3, <1>6
<1>9. /\ reduced'[r] = [reduced[r] EXCEPT ![c] = reduced[r][c] + 1]
      /\ reduced'[q] = [reduced[q] EXCEPT ![d] = reduced[q][d] + 1]
      /\ \A x \in Ranks : x \notin {r, q} => reduced'[x] = reduced[x]
  BY <1>1, <1>2, <1>3, <1>6
<1>10. \A x \in Ranks : synced'[x] = IF x \in {r, q} THEN synced[x] + 1 ELSE synced[x]
  BY <1>1, <1>2, <1>6
<1>11. \A x \in Ranks : SyncsDone(x)' = IF x \in {r, q} THEN SyncsDone(x) + 1 ELSE SyncsDone(x)
  <2> TAKE x \in Ranks
  <2>1. MarkersPassed(x)' = MarkersPassed(x) /\ MarkersPassed(x) \in Int /\ synced[x] \in Int
    BY <1>2, <1>6, MarkersNext DEF MarkersPassed, GoodCounters
  <2>2. QED BY <1>10, <2>1 DEF SyncsDone
<1>12. ASSUME NEW x \in Ranks, NEW e \in Chunks, SyncPlace(x, e) = n,
              GradsOf(x, pc[x], n, mainGrad[x], reduced[x]),
              mainGrad'[x] = [mainGrad[x] EXCEPT ![e] = EveryMicrobatch],
              reduced'[x] = [reduced[x] EXCEPT ![e] = reduced[x][e] + 1]
       PROVE  GradsOf(x, pc[x], n + 1, mainGrad'[x], reduced'[x])
  <2> DEFINE grads == mainGrad[x]
             grads1 == mainGrad'[x]
             times == reduced[x]
             times1 == reduced'[x]
             place == pc[x]
  <2>1. grads \in [Chunks -> SUBSET ({0, 1} \X Nat)] /\ times \in [Chunks -> Nat]
    BY <1>6
  <2>2. /\ \A f \in Chunks : f # e => grads1[f] = grads[f] /\ times1[f] = times[f]
        /\ grads1[e] = EveryMicrobatch /\ times1[e] = times[e] + 1
    BY <1>12, <2>1
  <2>3. GradsOf(x, place, n, grads, times)
    BY <1>12
  <2> HIDE DEF grads, grads1, times, times1, place
  <2>4. GradsOf(x, place, n + 1, grads1, times1)
    BY <1>4, <1>12, <2>2, <2>3, GradsReduced
  <2>5. QED BY <2>4 DEF grads1, times1, place
<1>13. ASSUME NEW x \in Ranks
       PROVE  GradsOf(x, pc'[x], SyncsDone(x)', mainGrad'[x], reduced'[x])
  <2>1. CASE x = r
    <3>1. GradsOf(r, pc[r], n + 1, mainGrad'[r], reduced'[r])
      BY <1>3, <1>5, <1>7, <1>8, <1>9, <1>12
    <3>2. SyncsDone(r)' = n + 1
      BY <1>11 DEF n
    <3>3. QED BY <1>2, <2>1, <3>1, <3>2
  <2>2. CASE x = q
    <3>1. GradsOf(q, pc[q], n + 1, mainGrad'[q], reduced'[q])
      BY <1>1, <1>3, <1>4, <1>5, <1>7, <1>8, <1>9, <1>12
    <3>2. SyncsDone(q)' = n + 1
      BY <1>1, <1>4, <1>11
    <3>3. QED BY <1>2, <2>2, <3>1, <3>2
  <2>3. CASE x \notin {r, q}
    BY <1>2, <1>8, <1>9, <1>11, <2>3 DEF GradInv
  <2>4. QED BY <2>1, <2>2, <2>3
<1>14. QED BY <1>13 DEF GradInv, GradsOf, Backwards, BDone

LEMMA GradsKept ==
  ASSUME GoodCounters, GoodCounters', DataOK, TensorInv, MarkerInv, GradInv, [Next]_vars
  PROVE  GradInv'
<1>1. CASE UNCHANGED <<pc, synced, mainGrad, reduced>>
  BY <1>1 DEF GradInv, SyncsDone, MarkersPassed
<1>2. ASSUME NEW r \in Ranks, DeviceStep(r)
      PROVE  GradInv'
  <2> DEFINE p == pc[r]
             c == PassChunk(r, p)
  <2>1. GoodPlace(r, p)
    BY DEF GoodCounters
  <2>2. CASE Idle(r) /\ Step(r) /\ ForwardAt(p) /\ ForwardStepHelper(r, c)
    <3>1. IsPass(r, p) /\ \A d \in Chunks : ~BackwardOf(r, d, p)
      BY <2>1, <2>2, PassFacts
    <3>2. UNCHANGED <<mainGrad, reduced, synced>>
      BY <2>2 DEF ForwardStepHelper
    <3>3. QED BY <2>1, <2>2, <3>1, <3>2, PassOffMarker, OthersKeepGrads
  <2>3. CASE Idle(r) /\ Step(r) /\ IsPass(r, p) /\ ~ForwardAt(p)
             /\ \E v, m : BackwardStepHelper(r, c, v, m)
    BY <2>3, BackwardKeepsGrads
  <2>4. CASE AllReduceGradients(r)
    BY <2>4, AllReduceKeepsGrads
  <2>5. CASE /\ Step(r) /\ ~IsPass(r, p) /\ UNCHANGED <<losses, mainGrad, reduced>>
             /\ LeaveSync(r) \/ (p.phase # "cooldown" /\ UNCHANGED synced)
    <3>1. \A d \in Chunks : ~BackwardOf(r, d, p)
      BY <2>1, <2>5, PassFacts
    <3>2. LeaveSync(r) \/ (~OnMarker(r, p) /\ UNCHANGED synced)
      BY <2>1, <2>5, PassOffMarker
    <3>3. QED BY <2>5, <3>1, <3>2, OthersKeepGrads
  <2> HIDE DEF c
  <2>6. QED BY <1>2, <2>2, <2>3, <2>4, <2>5, StepResults DEF c
<1>3. ASSUME NEW a \in Ranks, NEW b \in Ranks, Transfer(a, b)
      PROVE  UNCHANGED <<pc, synced, mainGrad, reduced>>
  BY <1>3 DEF Transfer, results
<1>4. CASE UNCHANGED vars
  BY <1>1, <1>4 DEF vars, results
<1>5. QED BY <1>1, <1>2, <1>3, <1>4 DEF Next, Terminated

LEMMA GradsAtStart == Init => GradInv
<1> SUFFICES ASSUME Init, NEW r \in Ranks
             PROVE  GradsOf(r, pc[r], SyncsDone(r), mainGrad[r], reduced[r])
  BY DEF GradInv
<1>1. pc[r].phase = "recv" /\ synced[r] = 0 /\ \A c \in Chunks : mainGrad[r][c] = {} /\ reduced[r][c] = 0
  BY DEF Init, At
<1>2. SyncsDone(r) = 0 /\ BDone(r, pc[r]) = 0
  BY <1>1 DEF SyncsDone, MarkersPassed, MarkersAt, BDone
<1>3. \A c \in Chunks : Backwards(r, c, pc[r]) = 0
  BY <1>2, BackwardOrder DEF Backwards
<1>4. \A c \in Chunks : ~(SyncsDone(r) > SyncPlace(r, c)) /\ OwnMicrobatches(c, 0) = {}
  BY <1>2, SyncPlaces, Microbatches
<1>5. QED BY <1>1, <1>3, <1>4 DEF GradsOf

LEMMA GradsRight ==
  ASSUME MarkerInv, GradInv
  PROVE  GradientsComplete
<1> SUFFICES ASSUME NEW r \in Ranks, pc[r].phase = "done", ~ForwardOnly, NEW c \in Chunks
             PROVE  reduced[r][c] = 1 /\ mainGrad[r][c] = EveryMicrobatch
  BY DEF GradientsComplete, EveryMicrobatch, Done
<1>1. MarkersPassed(r) = 2
  BY DEF MarkersPassed, MarkersAt
<1>2. ~OnMarker(r, pc[r])
  BY DEF OnMarker
<1>3. SyncsDone(r) = 4
  BY <1>1, <1>2 DEF SyncsDone, MarkerInv
<1>4. SyncsDone(r) > SyncPlace(r, c)
  BY <1>3, SyncPlaces
<1>5. QED BY <1>4 DEF GradInv, GradsOf

\* Without overlap_p2p_comm a call leaves, on every device, each chunk all-reduced
\* exactly once with the gradient of every microbatch of both pipelines, and on the
\* two last stages the loss of every microbatch of their pipeline, in order.
THEOREM StepIsComplete ==
  ASSUME ~OverlapP2P
  PROVE  Spec => []StepComplete
<1>1. GoodCounters /\ DataOK /\ CountInv /\ TensorInv /\ [Next]_vars => TensorInv'
  BY TensorsKept
<1>2. GoodCounters /\ DataOK /\ CountInv /\ TensorInv /\ LossInv /\ [Next]_vars => LossInv'
  BY LossesKept
<1>3. GoodCounters /\ GoodCounters' /\ DataOK /\ TensorInv /\ MarkerInv /\ GradInv /\ [Next]_vars
        => GradInv'
  BY GradsKept
<1>4. LossInv /\ MarkerInv /\ GradInv => StepComplete
  BY LossesRight, GradsRight DEF StepComplete
<1>5. QED
  BY <1>1, <1>2, <1>3, <1>4, TensorsAtStart, LossesAtStart, GradsAtStart, DataKept,
     PassesCounted, MarkersCounted, PTL DEF Spec

----
(***************************************************************************)
(* The abstract pipeline.  A pass of a device comes after the pass of the  *)
(* same microbatch at the stage before: the device above has put more on   *)
(* the link than this one has taken off, or the device itself has just run *)
(* the chunk that hands its tensor over.                                   *)
(***************************************************************************)
LEMMA LinkPrecedence ==
  ASSUME GoodCounters, TensorInv, NEW r \in Ranks, NEW e \in {0, 1}, Idle(r),
         OnLink(r, e, pc[r]), Above(r, e) \in Ranks
  PROVE  LET a == Above(r, e)
             c == PassChunk(r, pc[r])
         IN  IF ForwardAt(pc[r])
             THEN Forwards(r, c, pc[r]) < Forwards(a, c, pc[a])
             ELSE Backwards(r, c, pc[r]) < Backwards(a, c, pc[a])
<1> DEFINE a == Above(r, e)
           p == pc[r]
           pa == pc[a]
           c == PassChunk(r, p)
           m == LinkDone(r, e, p)
           h == LinkDone(a, e, pa)
<1>1. a \in Ranks /\ Below(a, e) = r /\ GoodPlace(r, p) /\ GoodPlace(a, pa)
  BY LinkEnds DEF GoodCounters
<1>2. Put(a, e, pa, comm[a]) = Got(r, e, p, comm[r])
  BY <1>1 DEF TensorInv, LinksAgree
<1>3. comm[r].from = Nobody /\ OnLink(r, e, p)
  BY DEF Idle
<1> HIDE DEF a, p, pa, c, m, h
<1>4. m \in Nat /\ h \in Nat
  BY <1>1, PassOnPath DEF m, h
<1>5. h = m + 1 \/ h = m + 2
  BY <1>2, <1>3, <1>4 DEF Put, Got, m, h
<1>6. /\ PathShare(0, m) = Forwards(r, e, p) /\ PathShare(1, m) = Forwards(r, 3 - e, p)
      /\ PathShare(2, m) = Backwards(r, 2 + e, p) /\ PathShare(3, m) = Backwards(r, 1 - e, p)
  BY <1>1, OnPath DEF m
<1>7. /\ PathShare(0, h) = Forwards(a, e, pa) /\ PathShare(1, h) = Forwards(a, 3 - e, pa)
      /\ PathShare(2, h) = Backwards(a, 2 + e, pa) /\ PathShare(3, h) = Backwards(a, 1 - e, pa)
  BY <1>1, OnPath DEF h
<1>8. \A t \in 0 .. 3 : t = PathKind(m) => PathShare(t, m) < PathShare(t, h)
  <2> TAKE t \in 0 .. 3
  <2>1. /\ PathShare(t, m) \in Nat
        /\ PathShare(t, m + 1) = PathShare(t, m) + (IF t = PathKind(m) THEN 1 ELSE 0)
    BY <1>4, PathStep
  <2>2. m + 1 \in Nat
    BY <1>4
  <2>3. /\ PathShare(t, m + 1) \in Nat
        /\ PathShare(t, (m + 1) + 1) = PathShare(t, m + 1) + (IF t = PathKind(m + 1) THEN 1 ELSE 0)
    BY <2>2, PathStep
  <2>4. (m + 1) + 1 = m + 2
    BY <1>4
  <2>5. h = m + 1 \/ h = (m + 1) + 1
    BY <1>5, <2>4
  <2>6. CASE h = m + 1
    BY <2>1, <2>6
  <2>7. CASE h = (m + 1) + 1
    BY <2>1, <2>3, <2>7
  <2>8. QED BY <2>5, <2>6, <2>7
<1>9. \/ PathKind(m) = 0 /\ ForwardAt(p) /\ c = e
      \/ PathKind(m) = 1 /\ ForwardAt(p) /\ c = 3 - e
      \/ PathKind(m) = 2 /\ ~ForwardAt(p) /\ c = 2 + e
      \/ PathKind(m) = 3 /\ ~ForwardAt(p) /\ c = 1 - e
  BY <1>1, <1>3, PassOnPath DEF m, c
<1>10. IF ForwardAt(p) THEN Forwards(r, c, p) < Forwards(a, c, pa)
                       ELSE Backwards(r, c, p) < Backwards(a, c, pa)
  <2>1. /\ PathKind(m) = 0 => PathShare(0, m) < PathShare(0, h)
        /\ PathKind(m) = 1 => PathShare(1, m) < PathShare(1, h)
        /\ PathKind(m) = 2 => PathShare(2, m) < PathShare(2, h)
        /\ PathKind(m) = 3 => PathShare(3, m) < PathShare(3, h)
    BY <1>8
  <2>2. QED BY <1>6, <1>7, <1>9, <2>1
<1>11. QED BY <1>10 DEF a, p, pa, c

\* At an end of the devices the chunks of roles 1 and 2 take turns.
LEMMA HandedCounts ==
  ASSUME NEW r \in Ranks, End(r), NEW k \in Nat, RoleOfPlace(r, k) = 2
  PROVE  RoleDone(r, 2, k) < RoleDone(r, 1, k)
<1> DEFINE n == NumInitial(r)
           d == Half - NumInitial(r)
           x == k % (2 * P)
           b == (k \div (2 * P)) * Half
<1>1. n \in Nat /\ n >= 1 /\ d = 0 /\ 2 * P \in Nat /\ 2 * P > 0 /\ Half \in Nat
  BY RankArithmetic, BlockSizes DEF End
<1>2. x \in Nat /\ k \div (2 * P) \in Nat
  BY <1>1, PlaceAfter
<1>3. b \in Nat
  BY <1>1, <1>2
<1>4. RoleAt(n, d, x) = 2
  BY DEF RoleOfPlace
<1>5. /\ RoleDone(r, 2, k) = b + RoleCount(2, n, d, x)
      /\ RoleDone(r, 1, k) = b + RoleCount(1, n, d, x)
  BY DEF RoleDone
<1> HIDE DEF n, d, x, b
<1>6. x >= n /\ x < 3 * n /\ (x - n) % 2 = 1
  BY <1>1, <1>2, <1>4 DEF RoleAt
<1>7. (x - n + 1) \div 2 = (x - n) \div 2 + 1 /\ (x - n) \div 2 \in Nat
  BY <1>1, <1>2, <1>6
<1>8. RoleCount(1, n, d, x) = (x - n + 1) \div 2
  BY <1>1, <1>2, <1>6 DEF RoleCount
<1>9. RoleCount(2, n, d, x) = (x - n) \div 2
  BY <1>1, <1>2, <1>6 DEF RoleCount
<1>10. QED BY <1>3, <1>5, <1>7, <1>8, <1>9

\* A forward pass of the order is one of the microbatches of the pipeline.
LEMMA ForwardInBatch ==
  ASSUME NEW r \in Ranks, NEW k \in 0 .. 2 * N - 1
  PROVE  ForwardDone(r, ForwardChunk(r, k), k) < PerPipe
<1> DEFINE q == RoleOfPlace(r, k)
           c == ForwardChunk(r, k)
           i == RoleCount(q, NumInitial(r), Half - NumInitial(r), k % (2 * P))
           j == k \div (2 * P)
<1>1. j \in 0 .. NLoop /\ i \in 0 .. Half - 1
  BY OrderRoles
<1>2. ForwardRole(r, c) = q
  BY ForwardChunkRole
<1>3. ForwardDone(r, c, k) = j * Half + i
  BY <1>2 DEF ForwardDone, RoleDone
<1>4. PerPipe = (NLoop + 1) * Half /\ NLoop \in Nat /\ Half \in Nat
  BY DoneAtEnd, UnitFacts, HalfFacts, 0 \in 0 .. 3 DEF PerPipe
<1> HIDE DEF i, j, c, q
<1>5. j * Half <= NLoop * Half /\ j * Half \in Nat /\ (NLoop + 1) * Half = NLoop * Half + Half
      /\ NLoop * Half \in Nat
  BY <1>1, <1>4
<1>6. QED BY <1>1, <1>3, <1>4, <1>5 DEF c

\* Where the chunks of a device and of the devices above it are in their pipelines.
LEMMA StagesAbove ==
  ASSUME NEW r \in Ranks, NEW c \in Chunks
  PROVE  /\ StageOf(r, c) \in Stages /\ Pipe(c) \in {0, 1}
         /\ StageOf(Above(r, ForwardLink(c)), c) = StageOf(r, c) - 1
         /\ StageOf(Above(r, BackwardLink(c)), c) = StageOf(r, c) + 1
         /\ IsLastStage(r, c) <=> StageOf(r, c) = 2 * P - 1
         /\ IsFirstStage(r, c) <=> StageOf(r, c) = 0
<1>1. r \in Int /\ P \in Int /\ 0 <= r /\ r < P /\ P > 2
  BY RankArithmetic
<1>2. CASE c = 0
  BY <1>1, <1>2 DEF StageOf, Stages, Pipe, Above, ForwardLink, BackwardLink, IsLastStage, IsFirstStage
<1>3. CASE c = 1
  BY <1>1, <1>3 DEF StageOf, Stages, Pipe, Above, ForwardLink, BackwardLink, IsLastStage, IsFirstStage
<1>4. CASE c = 2
  BY <1>1, <1>4 DEF StageOf, Stages, Pipe, Above, ForwardLink, BackwardLink, IsLastStage, IsFirstStage
<1>5. CASE c = 3
  BY <1>1, <1>5 DEF StageOf, Stages, Pipe, Above, ForwardLink, BackwardLink, IsLastStage, IsFirstStage
<1>6. QED BY <1>2, <1>3, <1>4, <1>5 DEF Chunks

\* The chunk that hands its tensor over on the device itself.
LEMMA HandingChunk ==
  ASSUME NEW r \in Ranks, NEW c \in Chunks, End(r)
  PROVE  /\ ForwardRole(r, c) = 2 => /\ c - 2 \in Chunks /\ ForwardRole(r, c - 2) = 1
                                     /\ Pipe(c - 2) = Pipe(c) /\ StageOf(r, c - 2) = StageOf(r, c) - 1
         /\ BackwardRole(r, c) = 2 => /\ c + 2 \in Chunks /\ BackwardRole(r, c + 2) = 1
                                      /\ Pipe(c + 2) = Pipe(c) /\ StageOf(r, c + 2) = StageOf(r, c) + 1
<1>1. r \in Int /\ P \in Int /\ P > 2 /\ (r = 0 => IHalf(r) = 0) /\ (r = P - 1 => IHalf(r) = 1)
  BY RankArithmetic
<1>2. CASE r = 0
  <2>1. IHalf(r) = 0 /\ r # P - 1
    BY <1>1, <1>2
  <2>2. QED BY <1>1, <1>2, <2>1 DEF Chunks, ForwardRole, BackwardRole, Pipe, StageOf
<1>3. CASE r = P - 1
  BY <1>1, <1>3 DEF Chunks, ForwardRole, BackwardRole, Pipe, StageOf
<1>4. QED BY <1>2, <1>3 DEF End

Earlier(r, c, q, d) == q \in Ranks /\ d \in Chunks /\ Pipe(d) = Pipe(c) /\ StageOf(q, d) = StageOf(r, c) - 1
Later(r, c, q, d)   == q \in Ranks /\ d \in Chunks /\ Pipe(d) = Pipe(c) /\ StageOf(q, d) = StageOf(r, c) + 1

\* A forward pass has been preceded by that of the stage before.
LEMMA ForwardPrecedes ==
  ASSUME GoodCounters, TensorInv, NEW r \in Ranks, Idle(r), ForwardAt(pc[r])
  PROVE  LET p == pc[r]
             c == PassChunk(r, p)
         IN  IF StageOf(r, c) = 0 THEN Forwards(r, c, p) < PerPipe
             ELSE \E q \in Ranks, d \in Chunks :
                    Earlier(r, c, q, d) /\ Forwards(r, c, p) < Forwards(q, d, pc[q])
<1> DEFINE p == pc[r]
           c == PassChunk(r, p)
           k == FDone(r, p)
           q == ForwardRole(r, c)
           e == ForwardLink(c)
           a == Above(r, e)
<1>1. GoodPlace(r, p) /\ IsPass(r, p) /\ c \in Chunks
  BY PassFacts DEF GoodCounters
<1>2. k \in 0 .. 2 * N - 1 /\ c = ForwardChunk(r, k)
  BY <1>1, PlaceDone, UnitFacts DEF PassChunk
<1>3. Forwards(r, c, p) < PerPipe
  BY <1>2, ForwardInBatch DEF Forwards
<1>4. /\ Neighbour(a) = IF End(r) /\ q \in {0, 2} THEN Nobody ELSE PrevRank(r, c)
      /\ IsFirstStage(r, c) <=> End(r) /\ q = 0
      /\ e \in {0, 1}
  BY <1>1, ForwardNeighbours DEF ForwardLink
<1>5. StageOf(a, c) = StageOf(r, c) - 1 /\ (IsFirstStage(r, c) <=> StageOf(r, c) = 0)
  BY <1>1, StagesAbove
<1>6. CASE End(r) /\ q = 0
  BY <1>3, <1>4, <1>5, <1>6
<1>7. CASE End(r) /\ q = 2
  <2>1. c - 2 \in Chunks /\ ForwardRole(r, c - 2) = 1 /\ Earlier(r, c, r, c - 2)
    BY <1>1, <1>7, HandingChunk DEF Earlier
  <2>2. RoleOfPlace(r, k) = 2 /\ k \in Nat
    BY <1>2, <1>7, ForwardChunkRole
  <2>3. RoleDone(r, 2, k) < RoleDone(r, 1, k)
    BY <1>7, <2>2, HandedCounts
  <2>4. Forwards(r, c, p) < Forwards(r, c - 2, p)
    BY <1>7, <2>1, <2>3 DEF Forwards, ForwardDone
  <2>5. StageOf(r, c) # 0
    BY <1>4, <1>5, <1>7
  <2> HIDE DEF c, k, q, e, a, p
  <2>6. \E x \in Ranks, d \in Chunks : Earlier(r, c, x, d) /\ Forwards(r, c, p) < Forwards(x, d, pc[x])
    BY <2>1, <2>4 DEF p
  <2>7. QED BY <2>5, <2>6 DEF c, p
<1>8. CASE ~(End(r) /\ q \in {0, 2})
  <2>1. a \in Ranks
    <3>1. Neighbour(a) # Nobody
      BY <1>1, <1>4, <1>8, RealNeighbours
    <3>2. QED BY <3>1 DEF Neighbour
  <2>2. OnLink(r, e, p)
    BY <1>1 DEF OnLink, PassLink
  <2>3. Forwards(r, c, p) < Forwards(a, c, pc[a])
    BY <1>4, <2>1, <2>2, LinkPrecedence
  <2>4. Earlier(r, c, a, c)
    BY <1>1, <1>5, <2>1 DEF Earlier
  <2>5. StageOf(r, c) # 0
    BY <1>4, <1>5, <1>8
  <2> HIDE DEF c, k, q, e, a, p
  <2>6. \E x \in Ranks, d \in Chunks : Earlier(r, c, x, d) /\ Forwards(r, c, p) < Forwards(x, d, pc[x])
    BY <1>1, <2>1, <2>3, <2>4
  <2>7. QED BY <2>5, <2>6 DEF c, p
<1>9. QED BY <1>6, <1>7, <1>8

\* A backward pass has been preceded by the forward pass of a last stage, or by the
\* backward pass of the stage after.
LEMMA BackwardPrecedes ==
  ASSUME GoodCounters, CountInv, TensorInv, NEW r \in Ranks, Idle(r), IsPass(r, pc[r]),
         ~ForwardAt(pc[r])
  PROVE  LET p == pc[r]
             c == PassChunk(r, p)
         IN  IF StageOf(r, c) = 2 * P - 1 THEN Backwards(r, c, p) < Forwards(r, c, p)
             ELSE \E q \in Ranks, d \in Chunks :
                    Later(r, c, q, d) /\ Backwards(r, c, p) < Backwards(q, d, pc[q])
<1> DEFINE p == pc[r]
           c == PassChunk(r, p)
           k == BDone(r, p)
           q == BackwardRole(r, c)
           e == BackwardLink(c)
           a == Above(r, e)
<1>1. GoodPlace(r, p) /\ c \in Chunks
  BY PassFacts DEF GoodCounters
<1>2. k \in 0 .. 2 * N + 1 /\ c = BackwardChunk(r, k) /\ c # Sync
  BY <1>1, PlaceDone, UnitFacts DEF PassChunk, IsPass
<1>3. k \notin {FirstMarker(r), 2 * N + 1}
  BY <1>2, MarkerPlaces
<1>4. /\ Neighbour(a) = IF End(r) /\ q \in {0, 2} THEN Nobody ELSE NextRank(r, c)
      /\ IsLastStage(r, c) <=> End(r) /\ q = 0
      /\ e \in {0, 1}
  BY <1>1, BackwardNeighbours DEF BackwardLink
<1>5. StageOf(a, c) = StageOf(r, c) + 1 /\ (IsLastStage(r, c) <=> StageOf(r, c) = 2 * P - 1)
  BY <1>1, StagesAbove
<1>6. CASE End(r) /\ q = 0
  <2>2. Forwards(r, c, p) - Backwards(r, c, p) \in Nat
    BY <1>1, KeptPasses DEF Kept
  <2>3. outputTensors[r][c] # << >>
    BY BackwardReads
  <2>4. outputTensors[r][c] = Span(OutputsOf(r, c), Backwards(r, c, p), Kept(r, c, p))
    BY <1>1 DEF TensorInv, TensorsAt, ListsAt, OutputsAt
  <2>5. Kept(r, c, p) # 0
    <3> DEFINE b == Backwards(r, c, p)
    <3>1. \A f \in [Nat -> Tensor] : Span(f, b, 0) = << >>
      BY <1>1, CountsNext, SpanFacts
    <3>2. Span(OutputsOf(r, c), b, 0) = << >>
      BY <1>1, <3>1, TensorsOf
    <3>3. QED BY <2>3, <2>4, <3>2
  <2>6. Backwards(r, c, p) < Forwards(r, c, p)
    <3>1. Forwards(r, c, p) \in Nat /\ Backwards(r, c, p) \in Nat
      BY <1>1, CountsNext
    <3>2. QED BY <2>2, <2>5, <3>1 DEF Kept
  <2>7. QED BY <1>4, <1>5, <1>6, <2>6
<1>7. CASE End(r) /\ q = 2
  <2> DEFINE h == BackwardPasses(r, k)
  <2>1. c + 2 \in Chunks /\ BackwardRole(r, c + 2) = 1 /\ Later(r, c, r, c + 2)
    BY <1>1, <1>7, HandingChunk DEF Later
  <2>2. RoleOfPlace(r, h) = 2
    BY <1>2, <1>3, <1>7, BackwardChunkRole
  <2>3. h \in Nat
    BY <1>2, <1>3, BackwardPlace
  <2>4. RoleDone(r, 2, h) < RoleDone(r, 1, h)
    BY <1>7, <2>2, <2>3, HandedCounts
  <2>5. Backwards(r, c, p) < Backwards(r, c + 2, p)
    BY <1>7, <2>1, <2>4 DEF Backwards, BackwardDone
  <2>6. StageOf(r, c) # 2 * P - 1
    BY <1>4, <1>5, <1>7
  <2> HIDE DEF c, k, q, e, a, h, p
  <2>7. \E x \in Ranks, d \in Chunks : Later(r, c, x, d) /\ Backwards(r, c, p) < Backwards(x, d, pc[x])
    BY <2>1, <2>5 DEF p
  <2>8. QED BY <2>6, <2>7 DEF c, p
<1>8. CASE ~(End(r) /\ q \in {0, 2})
  <2>1. a \in Ranks
    <3>1. Neighbour(a) # Nobody
      BY <1>1, <1>4, <1>8, RealNeighbours
    <3>2. QED BY <3>1 DEF Neighbour
  <2>2. OnLink(r, e, p)
    BY <1>1 DEF OnLink, PassLink
  <2>3. Backwards(r, c, p) < Backwards(a, c, pc[a])
    BY <1>4, <2>1, <2>2, LinkPrecedence
  <2>4. Later(r, c, a, c)
    BY <1>1, <1>5, <2>1 DEF Later
  <2>5. StageOf(r, c) # 2 * P - 1
    BY <1>4, <1>5, <1>8
  <2> HIDE DEF c, k, q, e, a, p
  <2>6. \E x \in Ranks, d \in Chunks : Later(r, c, x, d) /\ Backwards(r, c, p) < Backwards(x, d, pc[x])
    BY <1>1, <2>1, <2>3, <2>4
  <2>7. QED BY <2>5, <2>6 DEF c, p
<1>9. QED BY <1>6, <1>7, <1>8

----
(***************************************************************************)
(* The abstract pipeline in the schedule's state: each stage of each of    *)
(* the two pipelines is one chunk of one device.                           *)
(***************************************************************************)
LEMMA StageUnique ==
  ASSUME NEW r \in Ranks, NEW c \in Chunks, NEW q \in Ranks, NEW d \in Chunks,
         Pipe(c) = Pipe(d), StageOf(r, c) = StageOf(q, d)
  PROVE  r = q /\ c = d
<1>1. r \in Int /\ q \in Int /\ P \in Int /\ 0 <= r /\ r < P /\ 0 <= q /\ q < P
  BY RankArithmetic
<1>2. (c \in {0, 2} /\ d \in {0, 2}) \/ (c \in {1, 3} /\ d \in {1, 3})
  BY DEF Chunks, Pipe
<1>3. /\ c = 0 => StageOf(r, c) = r
      /\ c = 1 => StageOf(r, c) = P - 1 - r
      /\ c = 2 => StageOf(r, c) = 2 * P - 1 - r
      /\ c = 3 => StageOf(r, c) = P + r
  BY DEF StageOf
<1>4. /\ d = 0 => StageOf(q, d) = q
      /\ d = 1 => StageOf(q, d) = P - 1 - q
      /\ d = 2 => StageOf(q, d) = 2 * P - 1 - q
      /\ d = 3 => StageOf(q, d) = P + q
  BY DEF StageOf
<1>5. StageOf(r, c) = StageOf(q, d)
  OBVIOUS
<1>6. CASE c \in {0, 2} /\ d \in {0, 2}
  BY <1>1, <1>3, <1>4, <1>5, <1>6
<1>7. CASE c \in {1, 3} /\ d \in {1, 3}
  BY <1>1, <1>3, <1>4, <1>5, <1>7
<1>8. QED BY <1>2, <1>6, <1>7

LEMMA StageExists ==
  ASSUME NEW i \in {0, 1}, NEW s \in Stages
  PROVE  \E r \in Ranks, c \in Chunks : Pipe(c) = i /\ StageOf(r, c) = s
<1>1. P \in Nat /\ P > 2 /\ s \in Int /\ 0 <= s /\ s < 2 * P
  BY PAssumption DEF Stages
<1>2. CASE i = 0 /\ s < P
  <2>1. s \in Ranks /\ 0 \in Chunks /\ Pipe(0) = i /\ StageOf(s, 0) = s
    BY <1>1, <1>2 DEF Ranks, Chunks, Pipe, StageOf
  <2>2. QED BY <2>1
<1>3. CASE i = 0 /\ ~(s < P)
  <2>1. 2 * P - s - 1 \in Ranks /\ 2 \in Chunks /\ Pipe(2) = i /\ StageOf(2 * P - s - 1, 2) = s
    BY <1>1, <1>3 DEF Ranks, Chunks, Pipe, StageOf
  <2>2. QED BY <2>1
<1>4. CASE i = 1 /\ s < P
  <2>1. P - s - 1 \in Ranks /\ 1 \in Chunks /\ Pipe(1) = i /\ StageOf(P - s - 1, 1) = s
    BY <1>1, <1>4 DEF Ranks, Chunks, Pipe, StageOf
  <2>2. QED BY <2>1
<1>5. CASE i = 1 /\ ~(s < P)
  <2>1. s - P \in Ranks /\ 3 \in Chunks /\ Pipe(3) = i /\ StageOf(s - P, 3) = s
    BY <1>1, <1>5 DEF Ranks, Chunks, Pipe, StageOf
  <2>2. QED BY <2>1
<1>6. QED BY <1>2, <1>3, <1>4, <1>5

LEMMA StagePlace ==
  ASSUME NEW i \in {0, 1}, NEW s \in Stages
  PROVE  /\ DeviceOf(i, s) \in Ranks /\ ChunkOf(i, s) \in Chunks
         /\ Pipe(ChunkOf(i, s)) = i /\ StageOf(DeviceOf(i, s), ChunkOf(i, s)) = s
<1>1. \E r \in Ranks : \E c \in Chunks : Pipe(c) = i /\ StageOf(r, c) = s
  BY StageExists
<1>2. DeviceOf(i, s) \in Ranks /\ \E c \in Chunks : Pipe(c) = i /\ StageOf(DeviceOf(i, s), c) = s
  BY <1>1 DEF DeviceOf
<1>3. \E c \in Chunks : \E r \in Ranks : Pipe(c) = i /\ StageOf(r, c) = s
  BY <1>1
<1>4. ChunkOf(i, s) \in Chunks /\ \E r \in Ranks : Pipe(ChunkOf(i, s)) = i /\ StageOf(r, ChunkOf(i, s)) = s
  BY <1>3 DEF ChunkOf
<1>5. PICK c \in Chunks : Pipe(c) = i /\ StageOf(DeviceOf(i, s), c) = s
  BY <1>2
<1>6. PICK r \in Ranks : Pipe(ChunkOf(i, s)) = i /\ StageOf(r, ChunkOf(i, s)) = s
  BY <1>4
<1>7. r = DeviceOf(i, s) /\ c = ChunkOf(i, s)
  BY <1>2, <1>4, <1>5, <1>6, StageUnique
<1>8. QED BY <1>2, <1>4, <1>5, <1>7

LEMMA PlaceStage ==
  ASSUME NEW r \in Ranks, NEW c \in Chunks
  PROVE  /\ Pipe(c) \in {0, 1} /\ StageOf(r, c) \in Stages
         /\ DeviceOf(Pipe(c), StageOf(r, c)) = r /\ ChunkOf(Pipe(c), StageOf(r, c)) = c
<1>1. Pipe(c) \in {0, 1} /\ StageOf(r, c) \in Stages
  BY StagesAbove
<1> DEFINE i == Pipe(c)
           s == StageOf(r, c)
<1>2. /\ DeviceOf(i, s) \in Ranks /\ ChunkOf(i, s) \in Chunks
      /\ Pipe(ChunkOf(i, s)) = i /\ StageOf(DeviceOf(i, s), ChunkOf(i, s)) = s
  BY <1>1, StagePlace
<1>3. QED BY <1>1, <1>2, StageUnique

AtStages(t) == [i \in {0, 1} |-> [s \in Stages |-> t[DeviceOf(i, s)][ChunkOf(i, s)]]]

FlowForwards  == [p \in {0, 1} |-> [s \in Stages |-> fed[DeviceOf(p, s)][ChunkOf(p, s)]]]
FlowBackwards == [p \in {0, 1} |-> [s \in Stages |-> Backwarded(DeviceOf(p, s), ChunkOf(p, s))]]
FlowAveraged  == {s \in Stages : reduced[DeviceOf(0, s)][ChunkOf(0, s)] > 0}

LEMMA FlowForwardStep ==
  ASSUME NEW i \in {0, 1}, NEW s \in Stages,
         FlowForwards[i][s] < (IF s = 0 THEN PerPipe ELSE FlowForwards[i][s - 1]),
         FlowForwards' = [FlowForwards EXCEPT ![i][s] = @ + 1],
         FlowBackwards' = FlowBackwards, FlowAveraged' = FlowAveraged
  PROVE  Flow!Next
<1>1. Flow!Forward(i, s)
  BY DEF Flow!Forward, Flow!Arrived, FlowForwards, FlowBackwards, FlowAveraged
<1>2. i \in Flow!Pipes /\ s \in Flow!Stage
  BY DEF Flow!Pipes, Flow!Stage, Stages
<1>3. QED BY <1>1, <1>2 DEF Flow!Next

LEMMA FlowBackwardStep ==
  ASSUME NEW i \in {0, 1}, NEW s \in Stages,
         FlowBackwards[i][s] < (IF s = 2 * P - 1 THEN FlowForwards[i][s] ELSE FlowBackwards[i][s + 1]),
         FlowBackwards' = [FlowBackwards EXCEPT ![i][s] = @ + 1],
         FlowForwards' = FlowForwards, FlowAveraged' = FlowAveraged
  PROVE  Flow!Next
<1>1. Flow!Backward(i, s)
  BY DEF Flow!Backward, Flow!Returned, FlowForwards, FlowBackwards, FlowAveraged
<1>2. i \in Flow!Pipes /\ s \in Flow!Stage
  BY DEF Flow!Pipes, Flow!Stage, Stages
<1>3. QED BY <1>1, <1>2 DEF Flow!Next

LEMMA FlowAverageStep ==
  ASSUME NEW s \in Stages, s \notin FlowAveraged,
         FlowBackwards[0][s] = PerPipe, FlowBackwards[1][s] = PerPipe,
         FlowAveraged' = FlowAveraged \cup {s},
         FlowForwards' = FlowForwards, FlowBackwards' = FlowBackwards
  PROVE  Flow!Next
<1>1. Flow!Average(s)
  BY DEF Flow!Average, Flow!Pipes, FlowForwards, FlowBackwards, FlowAveraged
<1>2. s \in Flow!Stage
  BY DEF Flow!Stage, Stages
<1>3. QED BY <1>1, <1>2 DEF Flow!Next

LEMMA FlowStutter ==
  ASSUME FlowForwards' = FlowForwards, FlowBackwards' = FlowBackwards, FlowAveraged' = FlowAveraged
  PROVE  UNCHANGED Flow!flowVars
BY DEF Flow!flowVars, FlowForwards, FlowBackwards, FlowAveraged

LEMMA FlowInit ==
  ASSUME Init
  PROVE  Flow!Init
<1>1. \A r \in Ranks, c \in Chunks : fed[r][c] = 0 /\ outputTensors[r][c] = << >> /\ reduced[r][c] = 0
  BY DEF Init
<1>2. \A i \in {0, 1}, s \in Stages :
        /\ fed[DeviceOf(i, s)][ChunkOf(i, s)] = 0
        /\ Backwarded(DeviceOf(i, s), ChunkOf(i, s)) = 0
        /\ ~(reduced[DeviceOf(i, s)][ChunkOf(i, s)] > 0)
  <2> TAKE i \in {0, 1}, s \in Stages
  <2>1. DeviceOf(i, s) \in Ranks /\ ChunkOf(i, s) \in Chunks
    BY StagePlace
  <2>2. Len(<< >>) = 0
    OBVIOUS
  <2>3. QED BY <1>1, <2>1, <2>2 DEF Backwarded
<1>3. QED BY <1>2 DEF Flow!Init, Flow!Pipes, Flow!Stage, Stages

LEMMA ReadAtStages ==
  ASSUME NEW t, NEW r \in Ranks, NEW c \in Chunks
  PROVE  AtStages(t)[Pipe(c)][StageOf(r, c)] = t[r][c]
BY PlaceStage DEF AtStages

LEMMA StagesStay ==
  ASSUME NEW t, NEW t1, \A q \in Ranks, d \in Chunks : t1[q][d] = t[q][d]
  PROVE  AtStages(t1) = AtStages(t)
BY StagePlace DEF AtStages

LEMMA StagesMove ==
  ASSUME NEW t, NEW t1, NEW r \in Ranks, NEW c \in Chunks, t1[r][c] = t[r][c] + 1,
         \A q \in Ranks, d \in Chunks : q # r \/ d # c => t1[q][d] = t[q][d]
  PROVE  AtStages(t1) = [AtStages(t) EXCEPT ![Pipe(c)][StageOf(r, c)] = @ + 1]
<1> DEFINE i == Pipe(c)
           s == StageOf(r, c)
<1>1. i \in {0, 1} /\ s \in Stages /\ AtStages(t)[i][s] = t[r][c]
  BY PlaceStage, ReadAtStages
<1>2. ASSUME NEW j \in {0, 1}, NEW u \in Stages
      PROVE  t1[DeviceOf(j, u)][ChunkOf(j, u)]
               = IF j = i /\ u = s THEN AtStages(t)[i][s] + 1 ELSE AtStages(t)[j][u]
  <2>1. CASE j = i /\ u = s
    BY <1>1, <2>1, PlaceStage
  <2>2. CASE ~(j = i /\ u = s)
    <3>1. DeviceOf(j, u) \in Ranks /\ ChunkOf(j, u) \in Chunks
          /\ (DeviceOf(j, u) # r \/ ChunkOf(j, u) # c)
      BY <2>2, StagePlace
    <3>2. AtStages(t)[j][u] = t[DeviceOf(j, u)][ChunkOf(j, u)]
      BY DEF AtStages
    <3>3. QED BY <2>2, <3>1, <3>2
  <2>3. QED BY <2>1, <2>2
<1> DEFINE old == AtStages(t)
           new == AtStages(t1)
<1>3. /\ old = [j \in {0, 1} |-> [u \in Stages |-> old[j][u]]]
      /\ new = [j \in {0, 1} |-> [u \in Stages |-> new[j][u]]]
      /\ \A j \in {0, 1}, u \in Stages : new[j][u] = t1[DeviceOf(j, u)][ChunkOf(j, u)]
  BY DEF AtStages
<1>4. \A j \in {0, 1}, u \in Stages :
        new[j][u] = IF j = i /\ u = s THEN old[i][s] + 1 ELSE old[j][u]
  <2> HIDE DEF i, s
  <2> SUFFICES ASSUME NEW j \in {0, 1}, NEW u \in Stages
               PROVE  new[j][u] = IF j = i /\ u = s THEN old[i][s] + 1 ELSE old[j][u]
    OBVIOUS
  <2>1. new[j][u] = t1[DeviceOf(j, u)][ChunkOf(j, u)]
    BY <1>3
  <2>2. QED BY <1>2, <2>1
<1> HIDE DEF old, new, i, s
<1>5. new = [old EXCEPT ![i][s] = @ + 1]
  BY <1>1, <1>3, <1>4
<1>6. QED BY <1>5 DEF old, new, i, s

\* The counters of the abstract pipeline are what the places of the devices say.
BackwardTable == [r \in Ranks |-> [c \in Chunks |-> Backwarded(r, c)]]

LEMMA FlowTables ==
  /\ FlowForwards = AtStages(fed) /\ FlowForwards' = AtStages(fed')
  /\ FlowBackwards = AtStages(BackwardTable) /\ FlowBackwards' = AtStages(BackwardTable')
<1>1. FlowForwards = AtStages(fed) /\ FlowForwards' = AtStages(fed')
  BY DEF FlowForwards, AtStages
<1>2. FlowBackwards = AtStages(BackwardTable)
  BY StagePlace DEF FlowBackwards, AtStages, BackwardTable
<1>3. FlowBackwards' = AtStages(BackwardTable')
  BY StagePlace DEF FlowBackwards, AtStages, BackwardTable
<1>4. QED BY <1>1, <1>2, <1>3

LEMMA FlowCounts ==
  ASSUME GoodCounters, GoodCounters', CountInv, CountInv', NEW q \in Ranks, NEW d \in Chunks
  PROVE  /\ fed[q][d] = Forwards(q, d, pc[q])
         /\ fed'[q][d] = Forwards(q, d, pc'[q])
         /\ BackwardTable[q][d] = Backwards(q, d, pc[q])
         /\ BackwardTable'[q][d] = Backwards(q, d, pc'[q])
<1>1. ASSUME NEW p, GoodPlace(q, p), NEW feds, NEW outs, CountAt(q, p, feds, outs)
      PROVE  feds[d] = Forwards(q, d, p) /\ feds[d] - Len(outs[d]) = Backwards(q, d, p)
  <2>1. Forwards(q, d, p) \in Nat /\ Backwards(q, d, p) \in Nat
    BY <1>1, CountsNext
  <2>2. feds[d] = Forwards(q, d, p) /\ Len(outs[d]) = Forwards(q, d, p) - Backwards(q, d, p)
    BY <1>1 DEF CountAt
  <2>3. QED BY <2>1, <2>2
<1>2. CountAt(q, pc[q], fed[q], outputTensors[q]) /\ GoodPlace(q, pc[q])
  BY DEF CountInv, GoodCounters
<1>3. CountAt(q, pc'[q], fed'[q], outputTensors'[q]) /\ GoodPlace(q, pc'[q])
  BY DEF CountInv, CountAt, Forwards, Backwards, FDone, BDone, GoodCounters, GoodPlace
<1>4. /\ BackwardTable[q][d] = fed[q][d] - Len(outputTensors[q][d])
      /\ BackwardTable'[q][d] = fed'[q][d] - Len(outputTensors'[q][d])
  BY DEF BackwardTable, Backwarded
<1>5. QED BY <1>1, <1>2, <1>3, <1>4

\* What a stage's step needs, in the tables of the devices.
LEMMA FlowForwardPass ==
  ASSUME GoodCounters, GoodCounters', CountInv, CountInv', TensorInv, NEW r \in Ranks,
         Idle(r), Step(r), ForwardAt(pc[r]), UNCHANGED reduced
  PROVE  Flow!Next
<1> DEFINE p == pc[r]
           c == PassChunk(r, p)
           i == Pipe(c)
           s == StageOf(r, c)
<1>1. /\ GoodPlace(r, p) /\ pc'[r] = NextPlace(r, p) /\ c \in Chunks
      /\ \A d \in Chunks : (ForwardOf(r, d, p) <=> d = c) /\ ~BackwardOf(r, d, p)
      /\ \A q \in Ranks : q # r => pc'[q] = pc[q]
  BY StepGood, PassFacts DEF GoodCounters
<1>2. i \in {0, 1} /\ s \in Stages
  BY <1>1, PlaceStage
<1>3. /\ fed'[r][c] = fed[r][c] + 1
      /\ \A q \in Ranks, d \in Chunks : q # r \/ d # c => fed'[q][d] = fed[q][d]
      /\ \A q \in Ranks, d \in Chunks : BackwardTable'[q][d] = BackwardTable[q][d]
  <2> SUFFICES ASSUME NEW q \in Ranks, NEW d \in Chunks
               PROVE  /\ fed'[q][d] = IF q = r /\ d = c THEN fed[q][d] + 1 ELSE fed[q][d]
                      /\ BackwardTable'[q][d] = BackwardTable[q][d]
    BY <1>1
  <2>1. /\ fed[q][d] = Forwards(q, d, pc[q]) /\ fed'[q][d] = Forwards(q, d, pc'[q])
        /\ BackwardTable[q][d] = Backwards(q, d, pc[q])
        /\ BackwardTable'[q][d] = Backwards(q, d, pc'[q])
    BY FlowCounts
  <2>2. CASE q = r
    BY <1>1, <2>1, <2>2, CountsNext
  <2>3. CASE q # r
    BY <1>1, <2>1, <2>3
  <2>4. QED BY <2>2, <2>3
<1>4. fed[r][c] < (IF s = 0 THEN PerPipe ELSE AtStages(fed)[i][s - 1])
  <2>1. IF s = 0 THEN Forwards(r, c, p) < PerPipe
        ELSE \E q \in Ranks, d \in Chunks : Earlier(r, c, q, d) /\ Forwards(r, c, p) < Forwards(q, d, pc[q])
    BY ForwardPrecedes
  <2>2. fed[r][c] = Forwards(r, c, p)
    BY <1>1, FlowCounts
  <2>3. CASE s = 0
    BY <2>1, <2>2, <2>3
  <2>4. CASE s # 0
    <3>1. PICK q \in Ranks, d \in Chunks : Earlier(r, c, q, d) /\ Forwards(r, c, p) < Forwards(q, d, pc[q])
      BY <2>1, <2>4
    <3>2. fed[q][d] = Forwards(q, d, pc[q])
      BY FlowCounts
    <3>3. AtStages(fed)[i][s - 1] = fed[q][d]
      <4>1. AtStages(fed)[Pipe(d)][StageOf(q, d)] = fed[q][d]
        BY ReadAtStages
      <4>2. QED BY <3>1, <4>1 DEF Earlier
    <3>4. QED BY <2>2, <2>4, <3>1, <3>2, <3>3
  <2>5. QED BY <2>3, <2>4
<1>5. AtStages(fed') = [AtStages(fed) EXCEPT ![i][s] = @ + 1]
  <2> DEFINE t == fed
             t1 == fed'
  <2>1. t1[r][c] = t[r][c] + 1 /\ \A q \in Ranks, d \in Chunks : q # r \/ d # c => t1[q][d] = t[q][d]
    BY <1>3
  <2>2. c \in Chunks
    BY <1>1
  <2> HIDE DEF t, t1, c
  <2>3. AtStages(t1) = [AtStages(t) EXCEPT ![Pipe(c)][StageOf(r, c)] = @ + 1]
    BY <2>1, <2>2, StagesMove
  <2>4. QED BY <2>3 DEF t, t1
<1>6. AtStages(BackwardTable') = AtStages(BackwardTable)
  <2> DEFINE t == BackwardTable
             t1 == BackwardTable'
  <2>1. \A q \in Ranks, d \in Chunks : t1[q][d] = t[q][d]
    BY <1>3
  <2> HIDE DEF t, t1
  <2>2. AtStages(t1) = AtStages(t)
    BY <2>1, StagesStay
  <2>3. QED BY <2>2 DEF t, t1
<1>7. AtStages(fed)[i][s] = fed[r][c]
  BY <1>1, ReadAtStages
<1>8. FlowAveraged' = FlowAveraged
  BY DEF FlowAveraged
<1> HIDE DEF i, s, c, p
<1>9. /\ FlowForwards[i][s] < (IF s = 0 THEN PerPipe ELSE FlowForwards[i][s - 1])
      /\ FlowForwards' = [FlowForwards EXCEPT ![i][s] = @ + 1]
      /\ FlowBackwards' = FlowBackwards
  BY <1>4, <1>5, <1>6, <1>7, FlowTables
<1>10. QED BY <1>2, <1>8, <1>9, FlowForwardStep

LEMMA FlowBackwardPass ==
  ASSUME GoodCounters, GoodCounters', CountInv, CountInv', TensorInv, NEW r \in Ranks,
         Idle(r), Step(r), IsPass(r, pc[r]), ~ForwardAt(pc[r]), UNCHANGED reduced
  PROVE  Flow!Next
<1> DEFINE p == pc[r]
           c == PassChunk(r, p)
           i == Pipe(c)
           s == StageOf(r, c)
<1>1. /\ GoodPlace(r, p) /\ pc'[r] = NextPlace(r, p) /\ c \in Chunks
      /\ \A d \in Chunks : (BackwardOf(r, d, p) <=> d = c) /\ ~ForwardOf(r, d, p)
      /\ \A q \in Ranks : q # r => pc'[q] = pc[q]
  BY StepGood, PassFacts DEF GoodCounters
<1>2. i \in {0, 1} /\ s \in Stages
  BY <1>1, PlaceStage
<1>3. /\ BackwardTable'[r][c] = BackwardTable[r][c] + 1
      /\ \A q \in Ranks, d \in Chunks : q # r \/ d # c => BackwardTable'[q][d] = BackwardTable[q][d]
      /\ \A q \in Ranks, d \in Chunks : fed'[q][d] = fed[q][d]
  <2> SUFFICES ASSUME NEW q \in Ranks, NEW d \in Chunks
               PROVE  /\ BackwardTable'[q][d] = IF q = r /\ d = c THEN BackwardTable[q][d] + 1
                                                                  ELSE BackwardTable[q][d]
                      /\ fed'[q][d] = fed[q][d]
    BY <1>1
  <2>1. /\ fed[q][d] = Forwards(q, d, pc[q]) /\ fed'[q][d] = Forwards(q, d, pc'[q])
        /\ BackwardTable[q][d] = Backwards(q, d, pc[q])
        /\ BackwardTable'[q][d] = Backwards(q, d, pc'[q])
    BY FlowCounts
  <2>2. CASE q = r
    BY <1>1, <2>1, <2>2, CountsNext
  <2>3. CASE q # r
    BY <1>1, <2>1, <2>3
  <2>4. QED BY <2>2, <2>3
<1>4. BackwardTable[r][c] < (IF s = 2 * P - 1 THEN AtStages(fed)[i][s] ELSE AtStages(BackwardTable)[i][s + 1])
  <2>1. IF s = 2 * P - 1 THEN Backwards(r, c, p) < Forwards(r, c, p)
        ELSE \E q \in Ranks, d \in Chunks : Later(r, c, q, d) /\ Backwards(r, c, p) < Backwards(q, d, pc[q])
    BY BackwardPrecedes
  <2>2. BackwardTable[r][c] = Backwards(r, c, p) /\ fed[r][c] = Forwards(r, c, p)
    BY <1>1, FlowCounts
  <2>3. CASE s = 2 * P - 1
    <3>1. AtStages(fed)[i][s] = fed[r][c]
      BY <1>1, ReadAtStages
    <3>2. QED BY <2>1, <2>2, <2>3, <3>1
  <2>4. CASE s # 2 * P - 1
    <3>1. PICK q \in Ranks, d \in Chunks : Later(r, c, q, d) /\ Backwards(r, c, p) < Backwards(q, d, pc[q])
      BY <2>1, <2>4
    <3>2. BackwardTable[q][d] = Backwards(q, d, pc[q])
      BY FlowCounts
    <3>3. AtStages(BackwardTable)[i][s + 1] = BackwardTable[q][d]
      <4>1. AtStages(BackwardTable)[Pipe(d)][StageOf(q, d)] = BackwardTable[q][d]
        BY ReadAtStages
      <4>2. QED BY <3>1, <4>1 DEF Later
    <3>4. QED BY <2>2, <2>4, <3>1, <3>2, <3>3
  <2>5. QED BY <2>3, <2>4
<1>5. AtStages(BackwardTable') = [AtStages(BackwardTable) EXCEPT ![i][s] = @ + 1]
  <2> DEFINE t == BackwardTable
             t1 == BackwardTable'
  <2>1. t1[r][c] = t[r][c] + 1 /\ \A q \in Ranks, d \in Chunks : q # r \/ d # c => t1[q][d] = t[q][d]
    BY <1>3
  <2>2. c \in Chunks
    BY <1>1
  <2> HIDE DEF t, t1, c
  <2>3. AtStages(t1) = [AtStages(t) EXCEPT ![Pipe(c)][StageOf(r, c)] = @ + 1]
    BY <2>1, <2>2, StagesMove
  <2>4. QED BY <2>3 DEF t, t1
<1>6. AtStages(fed') = AtStages(fed)
  <2> DEFINE t == fed
             t1 == fed'
  <2>1. \A q \in Ranks, d \in Chunks : t1[q][d] = t[q][d]
    BY <1>3
  <2> HIDE DEF t, t1
  <2>2. AtStages(t1) = AtStages(t)
    BY <2>1, StagesStay
  <2>3. QED BY <2>2 DEF t, t1
<1>7. AtStages(BackwardTable)[i][s] = BackwardTable[r][c]
  BY <1>1, ReadAtStages
<1>8. FlowAveraged' = FlowAveraged
  BY DEF FlowAveraged
<1> HIDE DEF i, s, c, p
<1>9. /\ FlowBackwards[i][s] < (IF s = 2 * P - 1 THEN FlowForwards[i][s] ELSE FlowBackwards[i][s + 1])
      /\ FlowBackwards' = [FlowBackwards EXCEPT ![i][s] = @ + 1]
      /\ FlowForwards' = FlowForwards
  BY <1>4, <1>5, <1>6, <1>7, FlowTables
<1>10. QED BY <1>2, <1>8, <1>9, FlowBackwardStep


LEMMA FlowAllReduce ==
  ASSUME GoodCounters, GoodCounters', DataOK, CountInv, CountInv', MarkerInv, GradInv,
         NEW r \in Ranks, AllReduceGradients(r)
  PROVE  Flow!Next
<1> DEFINE q == BdPartner(r)
           c == SyncChunk(r)
           d == SyncChunk(q)
           s == StageOf(r, c)
           n == SyncsDone(r)
<1>1. /\ q \in Ranks /\ q # r /\ c \in Chunks /\ d \in Chunks
      /\ Pipe(c) # Pipe(d) /\ StageOf(q, d) = s
      /\ Backwards(r, c, pc[r]) = PerPipe /\ Backwards(q, d, pc[q]) = PerPipe
      /\ SyncPlace(r, c) = n /\ SyncPlace(q, d) = SyncsDone(q)
      /\ n \in Nat /\ SyncsDone(q) \in Nat
  BY ReducePair
<1>2. /\ reduced' = [reduced EXCEPT ![r][c] = reduced[r][c] + 1, ![q][d] = reduced[q][d] + 1]
      /\ pc' = pc
  BY DEF AllReduceGradients
<1>3. reduced \in [Ranks -> [Chunks -> Nat]]
  BY DEF DataOK, ResultsOK
<1> HIDE DEF q, c, d, s, n
<1>4. /\ GradsOf(r, pc[r], n, mainGrad[r], reduced[r])
      /\ GradsOf(q, pc[q], SyncsDone(q), mainGrad[q], reduced[q])
  BY <1>1 DEF GradInv, n
<1>5. reduced[r][c] = 0 /\ reduced[q][d] = 0
  BY <1>1, <1>4 DEF GradsOf
<1>6. /\ reduced'[r][c] = 1 /\ reduced'[q][d] = 1
      /\ \A x \in Ranks, e \in Chunks :
           ~(x = r /\ e = c) /\ ~(x = q /\ e = d) => reduced'[x][e] = reduced[x][e]
  BY <1>1, <1>2, <1>3, <1>5
<1>7. s \in Stages
  BY <1>1, PlaceStage DEF s
<1>8. \/ DeviceOf(0, s) = r /\ ChunkOf(0, s) = c /\ DeviceOf(1, s) = q /\ ChunkOf(1, s) = d
      \/ DeviceOf(0, s) = q /\ ChunkOf(0, s) = d /\ DeviceOf(1, s) = r /\ ChunkOf(1, s) = c
  <2>1. Pipe(c) \in {0, 1} /\ DeviceOf(Pipe(c), s) = r /\ ChunkOf(Pipe(c), s) = c
    BY <1>1, PlaceStage DEF s
  <2>2. Pipe(d) \in {0, 1} /\ DeviceOf(Pipe(d), StageOf(q, d)) = q /\ ChunkOf(Pipe(d), StageOf(q, d)) = d
    BY <1>1, PlaceStage
  <2>3. QED BY <1>1, <2>1, <2>2
<1>9. s \notin FlowAveraged
  BY <1>5, <1>8 DEF FlowAveraged
<1>10. FlowAveraged' = FlowAveraged \cup {s}
  <2>1. FlowAveraged' = {u \in Stages : reduced'[DeviceOf(0, u)][ChunkOf(0, u)] > 0}
    BY DEF FlowAveraged
  <2>2. reduced'[DeviceOf(0, s)][ChunkOf(0, s)] > 0
    BY <1>6, <1>8
  <2>3. ASSUME NEW u \in Stages, u # s
        PROVE  reduced'[DeviceOf(0, u)][ChunkOf(0, u)] = reduced[DeviceOf(0, u)][ChunkOf(0, u)]
    <3>1. DeviceOf(0, u) \in Ranks /\ ChunkOf(0, u) \in Chunks
          /\ StageOf(DeviceOf(0, u), ChunkOf(0, u)) = u
      BY StagePlace
    <3>2. QED BY <1>1, <1>6, <2>3, <3>1 DEF s
  <2>4. QED BY <1>7, <2>1, <2>2, <2>3 DEF FlowAveraged
<1>11. \A x \in Ranks, e \in Chunks :
         /\ fed'[x][e] = fed[x][e]
         /\ BackwardTable'[x][e] = BackwardTable[x][e]
         /\ BackwardTable[x][e] = Backwards(x, e, pc[x])
  BY <1>2, FlowCounts
<1>12. FlowForwards' = FlowForwards /\ FlowBackwards' = FlowBackwards
  <2> DEFINE t == fed
             t1 == fed'
             b == BackwardTable
             b1 == BackwardTable'
  <2>1. \A x \in Ranks, e \in Chunks : t1[x][e] = t[x][e] /\ b1[x][e] = b[x][e]
    BY <1>11
  <2> HIDE DEF t, t1, b, b1
  <2>2. AtStages(t1) = AtStages(t) /\ AtStages(b1) = AtStages(b)
    BY <2>1, StagesStay
  <2>3. QED BY <2>2, FlowTables DEF t, t1, b, b1
<1>13. FlowBackwards[0][s] = PerPipe /\ FlowBackwards[1][s] = PerPipe
  <2>1. BackwardTable[r][c] = PerPipe /\ BackwardTable[q][d] = PerPipe
    BY <1>1, <1>11
  <2>2. \A i \in {0, 1} : FlowBackwards[i][s] = BackwardTable[DeviceOf(i, s)][ChunkOf(i, s)]
    BY <1>7, FlowTables DEF AtStages
  <2>3. QED BY <1>8, <2>1, <2>2
<1>14. QED BY <1>7, <1>9, <1>10, <1>12, <1>13, FlowAverageStep

\* The steps that run no pass and average nothing.
LEMMA FlowOther ==
  ASSUME GoodCounters, GoodCounters', CountInv, CountInv', UNCHANGED reduced,
         \A q \in Ranks, d \in Chunks : /\ Forwards(q, d, pc'[q]) = Forwards(q, d, pc[q])
                                        /\ Backwards(q, d, pc'[q]) = Backwards(q, d, pc[q])
  PROVE  UNCHANGED Flow!flowVars
<1>1. \A x \in Ranks, e \in Chunks :
        fed'[x][e] = fed[x][e] /\ BackwardTable'[x][e] = BackwardTable[x][e]
  BY FlowCounts
<1>2. FlowForwards' = FlowForwards /\ FlowBackwards' = FlowBackwards
  <2> DEFINE t == fed
             t1 == fed'
             b == BackwardTable
             b1 == BackwardTable'
  <2>1. \A x \in Ranks, e \in Chunks : t1[x][e] = t[x][e] /\ b1[x][e] = b[x][e]
    BY <1>1
  <2> HIDE DEF t, t1, b, b1
  <2>2. AtStages(t1) = AtStages(t) /\ AtStages(b1) = AtStages(b)
    BY <2>1, StagesStay
  <2>3. QED BY <2>2, FlowTables DEF t, t1, b, b1
<1>3. FlowAveraged' = FlowAveraged
  BY DEF FlowAveraged
<1>4. QED BY <1>2, <1>3, FlowStutter

LEMMA FlowStep ==
  ASSUME GoodCounters, GoodCounters', DataOK, CountInv, CountInv', TensorInv, MarkerInv, GradInv,
         [Next]_vars
  PROVE  [Flow!Next]_(Flow!flowVars)
<1>1. CASE UNCHANGED <<pc, reduced>>
  BY <1>1, FlowOther
<1>2. ASSUME NEW r \in Ranks, DeviceStep(r)
      PROVE  [Flow!Next]_(Flow!flowVars)
  <2> DEFINE p == pc[r]
             c == PassChunk(r, p)
  <2>1. GoodPlace(r, p)
    BY DEF GoodCounters
  <2>2. CASE Idle(r) /\ Step(r) /\ ForwardAt(p) /\ ForwardStepHelper(r, c)
    BY <2>2, FlowForwardPass DEF ForwardStepHelper
  <2>3. CASE Idle(r) /\ Step(r) /\ IsPass(r, p) /\ ~ForwardAt(p)
             /\ \E v, m : BackwardStepHelper(r, c, v, m)
    BY <2>3, FlowBackwardPass DEF BackwardStepHelper
  <2>4. CASE AllReduceGradients(r)
    BY <2>4, FlowAllReduce
  <2>5. CASE /\ Step(r) /\ ~IsPass(r, p) /\ UNCHANGED <<losses, mainGrad, reduced>>
             /\ LeaveSync(r) \/ (p.phase # "cooldown" /\ UNCHANGED synced)
    <3>1. \A d \in Chunks : ~ForwardOf(r, d, p) /\ ~BackwardOf(r, d, p)
      BY <2>1, <2>5, PassFacts
    <3>2. pc'[r] = NextPlace(r, p) /\ \A q \in Ranks : q # r => pc'[q] = pc[q]
      BY <2>5, StepGood
    <3>3. ASSUME NEW q \in Ranks, NEW d \in Chunks
          PROVE  /\ Forwards(q, d, pc'[q]) = Forwards(q, d, pc[q])
                 /\ Backwards(q, d, pc'[q]) = Backwards(q, d, pc[q])
      <4>1. CASE q = r
        BY <2>1, <3>1, <3>2, <4>1, CountsNext
      <4>2. CASE q # r
        BY <3>2, <4>2
      <4>3. QED BY <4>1, <4>2
    <3>4. QED BY <2>5, <3>3, FlowOther
  <2> HIDE DEF c
  <2>6. QED BY <1>2, <2>2, <2>3, <2>4, <2>5, StepResults DEF c
<1>3. ASSUME NEW a \in Ranks, NEW b \in Ranks, Transfer(a, b)
      PROVE  UNCHANGED <<pc, reduced>>
  BY <1>3 DEF Transfer, results
<1>4. CASE UNCHANGED vars
  BY <1>1, <1>4 DEF vars, results
<1>5. QED BY <1>1, <1>2, <1>3, <1>4 DEF Next, Terminated

\* Without overlap_p2p_comm every behaviour of the devices is one of the abstract
\* bidirectional pipeline: a microbatch goes through the stages in order, forward and
\* back, and the replicas of a stage are averaged once, after all their microbatches.
THEOREM SchedulesImplementFlow ==
  ASSUME ~OverlapP2P
  PROVE  Spec => ImplementsFlow
<1>1. GoodCounters /\ DataOK /\ CountInv /\ TensorInv /\ [Next]_vars => TensorInv'
  BY TensorsKept
<1>2. GoodCounters /\ GoodCounters' /\ DataOK /\ TensorInv /\ MarkerInv /\ GradInv /\ [Next]_vars
        => GradInv'
  BY GradsKept
<1>3. Init => Flow!Init
  BY FlowInit
<1>4. GoodCounters /\ GoodCounters' /\ DataOK /\ CountInv /\ CountInv' /\ TensorInv /\ MarkerInv
        /\ GradInv /\ [Next]_vars => [Flow!Next]_(Flow!flowVars)
  BY FlowStep
<1>5. QED
  BY <1>1, <1>2, <1>3, <1>4, TensorsAtStart, GradsAtStart, DataKept,
     PassesCounted, MarkersCounted, PTL DEF Spec, ImplementsFlow, Flow!Spec
============================================================================
