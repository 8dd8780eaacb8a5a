------------------------- MODULE BitPipe4VR_proofs -------------------------
(***************************************************************************)
(* Proofs about the schedule, for every number of devices and microbatches *)
(* it accepts and for every setting of its flags: the program of a device  *)
(* and what it synchronizes, and then the tensors of a step, that is, how  *)
(* many passes of each chunk a device has behind it at a place of its      *)
(* program and which tensors are then in its lists.                        *)
(***************************************************************************)
EXTENDS BitPipe4VR, BitPipeOrder_proofs

----
(***************************************************************************)
(* The program counter.                                                    *)
(***************************************************************************)
\* A place of the program of device r.
GoodPlace(r, p) ==
  /\ p \in PC
  /\ p.k < PhaseLength(r, p.phase)
  /\ p.phase \in {"mid1", "mid2", "mid3", "mid4"} => p.loop < NLoop
  /\ p.phase \in {"last", "cooldown"} => p.loop = NLoop
  /\ p.phase = "mid3" => UnitRemaining(r) > 1
  /\ ForwardOnly => p.phase \in {"recv", "warmup", "finish", "done"}

GoodCounters == pc \in [Ranks -> PC] /\ \A r \in Ranks : GoodPlace(r, pc[r])

LEMMA WarmupFacts ==
  ASSUME NEW r \in Ranks
  PROVE  /\ NumWarmupMicrobatches(r) \in P + Half .. 2 * P - 1
         /\ UnitRemaining(r) = 2 * P - NumWarmupMicrobatches(r)
         /\ UnitRemaining(r) \in 1 .. Half
BY HalfFacts DEF NumWarmupMicrobatches, UnitRemaining, Ranks

LEMMA PhaseLengths ==
  ASSUME NEW r \in Ranks, NEW phase \in Phases, phase = "mid3" => UnitRemaining(r) > 1
  PROVE  PhaseLength(r, phase) \in Nat \ {0}
<1>1. /\ NumWarmupMicrobatches(r) \in Nat \ {0} /\ UnitRemaining(r) \in Nat \ {0}
      /\ 2 * UnitRemaining(r) \in Nat \ {0}
      /\ NumWarmupMicrobatches(r) - UnitRemaining(r) + 1 \in Nat \ {0}
      /\ UnitRemaining(r) > 1 => 2 * (UnitRemaining(r) - 1) \in Nat \ {0}
      /\ 2 * P - UnitRemaining(r) + 2 \in Nat \ {0}
      /\ TotalNumMicrobatches \in Nat \ {0}
  BY WarmupFacts, HalfFacts, UnitFacts DEF TotalNumMicrobatches
<1>2. QED BY <1>1 DEF PhaseLength, Phases

LEMMA LoopOrLastGood ==
  ASSUME NEW r \in Ranks, NEW loop \in 0 .. NLoop, ~ForwardOnly
  PROVE  GoodPlace(r, LoopOrLast(loop))
<1>1. /\ "mid1" \in Phases /\ "last" \in Phases
      /\ 0 < PhaseLength(r, "mid1") /\ 0 < PhaseLength(r, "last")
  BY PhaseLengths DEF Phases
<1>2. CASE loop < NLoop
  BY <1>1, <1>2, UnitFacts DEF GoodPlace, LoopOrLast, At, PC
<1>3. CASE ~(loop < NLoop)
  BY <1>1, <1>3, UnitFacts DEF GoodPlace, LoopOrLast, At, PC
<1>4. QED BY <1>2, <1>3

LEMMA NextPhaseGood ==
  ASSUME NEW r \in Ranks, NEW p, GoodPlace(r, p)
  PROVE  GoodPlace(r, NextPhase(r, p))
<1>1. /\ 0 \in 0 .. NLoop /\ NLoop \in 0 .. NLoop /\ NLoop \in Nat
      /\ p.phase \in Phases /\ p.loop \in 0 .. NLoop
  BY UnitFacts DEF GoodPlace, PC
<1>2. \A phase \in Phases \ {"mid3"} : 0 < PhaseLength(r, phase)
  BY PhaseLengths
<1>3. UnitRemaining(r) > 1 => 0 < PhaseLength(r, "mid3")
  BY PhaseLengths DEF Phases
<1>4. CASE p.phase = "recv"
  BY <1>1, <1>2, <1>4 DEF GoodPlace, NextPhase, At, PC, Phases
<1>5. CASE p.phase = "warmup"
  <2>1. CASE ForwardOnly
    BY <1>1, <1>2, <1>5, <2>1 DEF GoodPlace, NextPhase, At, PC, Phases
  <2>2. CASE ~ForwardOnly
    BY <1>1, <1>5, <2>2, LoopOrLastGood DEF NextPhase
  <2>3. QED BY <2>1, <2>2
<1>6. CASE p.phase = "mid1"
  BY <1>1, <1>2, <1>6 DEF GoodPlace, NextPhase, At, PC, Phases
<1>7. CASE p.phase = "mid2"
  BY <1>1, <1>2, <1>3, <1>7 DEF GoodPlace, NextPhase, At, PC, Phases
<1>8. CASE p.phase = "mid3"
  BY <1>1, <1>2, <1>8 DEF GoodPlace, NextPhase, At, PC, Phases
<1>9. CASE p.phase = "mid4"
  <2>1. p.loop + 1 \in 0 .. NLoop /\ ~ForwardOnly
    BY <1>1, <1>9 DEF GoodPlace
  <2>2. NextPhase(r, p) = LoopOrLast(p.loop + 1)
    BY <1>9 DEF NextPhase
  <2>3. QED BY <2>1, <2>2, LoopOrLastGood
<1>10. CASE p.phase = "last"
  BY <1>1, <1>2, <1>10 DEF GoodPlace, NextPhase, At, PC, Phases
<1>11. CASE p.phase = "cooldown"
  BY <1>1, <1>2, <1>11 DEF GoodPlace, NextPhase, At, PC, Phases
<1>12. CASE p.phase \in {"finish", "done"}
  BY <1>1, <1>2, <1>12 DEF GoodPlace, NextPhase, At, PC, Phases
<1>13. QED BY <1>1, <1>4, <1>5, <1>6, <1>7, <1>8, <1>9, <1>10, <1>11, <1>12 DEF Phases

\* Every place of the program is followed by a place of the program.
LEMMA NextPlaceGood ==
  ASSUME NEW r \in Ranks, NEW p, GoodPlace(r, p)
  PROVE  GoodPlace(r, NextPlace(r, p))
<1>1. CASE p.k + 1 < PhaseLength(r, p.phase)
  <2>1. NextPlace(r, p) = [p EXCEPT !.k = @ + 1]
    BY <1>1 DEF NextPlace
  <2>2. QED BY <1>1, <2>1 DEF GoodPlace, PC
<1>2. CASE ~(p.k + 1 < PhaseLength(r, p.phase))
  <2>1. NextPlace(r, p) = NextPhase(r, p)
    BY <1>2 DEF NextPlace
  <2>2. QED BY <2>1, NextPhaseGood
<1>3. QED BY <1>1, <1>2

\* What a step of r does to the program counters.
LEMMA StepGood ==
  ASSUME GoodCounters, NEW r \in Ranks, Step(r)
  PROVE  /\ GoodCounters'
         /\ pc'[r] = NextPlace(r, pc[r])
         /\ \A q \in Ranks : q # r => pc'[q] = pc[q]
<1> DEFINE next == NextPlace(r, pc[r])
<1>1. pc \in [Ranks -> PC] /\ GoodPlace(r, next)
  BY NextPlaceGood DEF GoodCounters
<1>2. pc' = [pc EXCEPT ![r] = next]
  BY DEF Step
<1> HIDE DEF next
<1>3. next \in PC
  BY <1>1 DEF GoodPlace
<1>4. pc' \in [Ranks -> PC] /\ \A q \in Ranks : pc'[q] = IF q = r THEN next ELSE pc[q]
  BY <1>1, <1>2, <1>3
<1>5. \A q \in Ranks : GoodPlace(q, pc'[q])
  BY <1>1, <1>4 DEF GoodCounters
<1>6. QED BY <1>4, <1>5 DEF GoodCounters, next

\* Every action of the system steps one device or leaves the counters alone.
LEMMA StepOrStay ==
  ASSUME [Next]_vars
  PROVE  UNCHANGED pc \/ \E r \in Ranks : Step(r)
<1>1. \A r \in Ranks : DeviceStep(r) => UNCHANGED pc \/ Step(r)
  BY DEF DeviceStep, InitialRecv, Warmup, WarmupAgain, ForwardPass, BackwardPass,
         CooldownBackward, FinalBackward, AllReduceGradients, LeaveSync, Finish
<1>2. \A a, b \in Ranks : Transfer(a, b) => UNCHANGED pc
  BY DEF Transfer
<1>3. Terminated => UNCHANGED pc
  BY DEF Terminated, vars
<1>4. QED BY <1>1, <1>2, <1>3 DEF Next, vars

\* A device is always at a place of its program: no loop of the schedule is
\* entered with a length of zero or left late.
THEOREM CountersGood == Spec => []GoodCounters
<1>1. Init => GoodCounters
  <2> SUFFICES ASSUME Init PROVE GoodCounters
    OBVIOUS
  <2>1. 0 \in 0 .. NLoop
    BY UnitFacts
  <2>2. \A r \in Ranks : GoodPlace(r, At("recv", 0))
    BY <2>1, PhaseLengths DEF GoodPlace, At, PC, Phases
  <2>3. \A r \in Ranks : At("recv", 0) \in PC
    BY <2>2 DEF GoodPlace
  <2>4. QED BY <2>2, <2>3 DEF Init, GoodCounters
<1>2. GoodCounters /\ [Next]_vars => GoodCounters'
  BY StepOrStay, StepGood DEF GoodCounters
<1>3. QED BY <1>1, <1>2, PTL DEF Spec

----
(***************************************************************************)
(* The two synchronization markers.  A device has all-reduced              *)
(* 2 * MarkersPassed(r) + synced[r] chunks, and this number is the same    *)
(* for the two members of a bidirectional group: only an all-reduce they   *)
(* take part in together changes it.                                       *)
(***************************************************************************)
MarkersAt(r, p) ==
  CASE p.phase \in {"finish", "done"} -> IF ForwardOnly THEN 0 ELSE 2
    [] p.phase = "cooldown"           -> IF BackwardK(r, p) > FirstMarker(r) THEN 1 ELSE 0
    [] OTHER                          -> 0

MarkersPassed(r) == MarkersAt(r, pc[r])

OnMarker(r, p) == p.phase = "cooldown" /\ BackwardK(r, p) \in {FirstMarker(r), 2 * N + 1}

MarkerInv ==
  /\ synced \in [Ranks -> 0 .. 2]
  /\ \A r \in Ranks : ~OnMarker(r, pc[r]) => synced[r] = 0
  /\ \A r \in Ranks :
       2 * MarkersPassed(r) + synced[r] = 2 * MarkersPassed(BdPartner(r)) + synced[BdPartner(r)]

\* The cooldown goes through the backward order up to its end.
LEMMA CooldownPlaces ==
  ASSUME NEW r \in Ranks, NEW p, GoodPlace(r, p), p.phase = "cooldown"
  PROVE  /\ BackwardK(r, p) \in 0 .. 2 * N + 1
         /\ p.k + 1 < PhaseLength(r, p.phase) <=> BackwardK(r, p) < 2 * N + 1
         /\ p.k = 0 => BackwardK(r, p) < FirstMarker(r)
<1> DEFINE base == NLoop * 2 * P
<1>1. base \in Nat /\ 2 * N = base + 2 * P
  BY UnitFacts, HalfFacts
<1>2. BackwardK(r, p) = base + UnitRemaining(r) + p.k
  BY DEF BackwardK, GoodPlace
<1>3. PhaseLength(r, p.phase) = 2 * P - UnitRemaining(r) + 2
  BY DEF PhaseLength
<1> HIDE DEF base
<1>4. p.k \in Nat /\ p.k < PhaseLength(r, p.phase)
  BY DEF GoodPlace, PC
<1>5. FirstMarker(r) \in {2 * N, 2 * N - 1}
  BY DEF FirstMarker
<1>6. QED BY <1>1, <1>2, <1>3, <1>4, <1>5, WarmupFacts, HalfFacts, UnitFacts

\* One place further, one marker more or none.
LEMMA MarkersNext ==
  ASSUME NEW r \in Ranks, NEW p, GoodPlace(r, p)
  PROVE  /\ MarkersAt(r, p) \in 0 .. 2
         /\ MarkersAt(r, NextPlace(r, p)) = MarkersAt(r, p) + (IF OnMarker(r, p) THEN 1 ELSE 0)
<1>1. MarkersAt(r, p) \in 0 .. 2
  BY DEF MarkersAt
<1> DEFINE next == NextPlace(r, p)
<1>2. GoodPlace(r, next) /\ p.phase \in Phases /\ p.k \in Nat
  BY NextPlaceGood DEF GoodPlace, PC
<1>3. FirstMarker(r) \in Nat /\ FirstMarker(r) < 2 * N + 1
  BY UnitFacts, HalfFacts DEF FirstMarker
<1>4. CASE p.phase = "cooldown" /\ BackwardK(r, p) < 2 * N + 1
  <2>1. next = [p EXCEPT !.k = @ + 1]
    BY <1>4, CooldownPlaces DEF NextPlace
  <2>2. next.phase = "cooldown" /\ next.loop = p.loop /\ next.k = p.k + 1
    BY <1>4, <2>1 DEF GoodPlace, PC
  <2>3. BackwardK(r, next) = BackwardK(r, p) + 1
    <3>1. p.loop * 2 * P + UnitRemaining(r) \in Int
      BY WarmupFacts, UnitFacts, HalfFacts DEF GoodPlace, PC
    <3>2. QED BY <1>2, <1>4, <2>2, <3>1 DEF BackwardK
  <2>4. BackwardK(r, p) \in Nat
    BY <1>4, CooldownPlaces
  <2>5. QED BY <1>1, <1>3, <1>4, <2>2, <2>3, <2>4 DEF MarkersAt, OnMarker
<1>5. CASE p.phase = "cooldown" /\ ~(BackwardK(r, p) < 2 * N + 1)
  <2>1. next.phase = "finish"
    BY <1>5, CooldownPlaces DEF NextPlace, NextPhase, At
  <2>2. BackwardK(r, p) = 2 * N + 1
    BY <1>5, CooldownPlaces, UnitFacts
  <2>3. ~ForwardOnly
    BY <1>5 DEF GoodPlace
  <2>4. QED BY <1>1, <1>3, <1>5, <2>1, <2>2, <2>3 DEF MarkersAt, OnMarker
<1>6. CASE p.phase = "last"
  <2>1. next = [p EXCEPT !.k = @ + 1] \/ next = At("cooldown", NLoop)
    BY <1>6 DEF NextPlace, NextPhase
  <2>2. CASE next = [p EXCEPT !.k = @ + 1]
    <3>1. next.phase = "last"
      BY <1>6, <2>2 DEF GoodPlace, PC
    <3>2. QED BY <1>6, <3>1 DEF MarkersAt, OnMarker
  <2>3. CASE next = At("cooldown", NLoop)
    <3>1. next.phase = "cooldown" /\ next.k = 0
      BY <2>3 DEF At
    <3>2. BackwardK(r, next) \in Int /\ BackwardK(r, next) < FirstMarker(r)
      BY <1>2, <3>1, CooldownPlaces
    <3>3. QED BY <1>3, <1>6, <3>1, <3>2 DEF MarkersAt, OnMarker
  <2>4. QED BY <2>1, <2>2, <2>3
<1>7. CASE p.phase \in {"finish", "done"}
  <2>1. next.phase \in {"finish", "done"}
    BY <1>7 DEF NextPlace, NextPhase, At, GoodPlace, PC
  <2>2. QED BY <1>7, <2>1 DEF MarkersAt, OnMarker
<1>8. CASE p.phase \in {"recv", "warmup", "mid1", "mid2", "mid3", "mid4"}
  <2>1. next.phase \in {"recv", "warmup", "mid1", "mid2", "mid3", "mid4", "last"}
        \/ (ForwardOnly /\ next.phase = "finish")
    BY <1>8 DEF NextPlace, NextPhase, LoopOrLast, At, GoodPlace, PC
  <2>2. QED BY <1>8, <2>1 DEF MarkersAt, OnMarker
<1>9. QED BY <1>2, <1>4, <1>5, <1>6, <1>7, <1>8 DEF Phases

\* A step of a device that has nothing to synchronize.
LEMMA PlainStepKeepsMarkers ==
  ASSUME GoodCounters, MarkerInv, NEW r \in Ranks, Step(r), ~OnMarker(r, pc[r]), UNCHANGED synced
  PROVE  MarkerInv'
<1>1. MarkersPassed(r)' = MarkersPassed(r)
  <2>1. pc'[r] = NextPlace(r, pc[r]) /\ GoodPlace(r, pc[r])
    BY StepGood DEF GoodCounters
  <2>2. QED BY <2>1, MarkersNext DEF MarkersPassed
<1>2. \A q \in Ranks : q # r => pc'[q] = pc[q]
  BY StepGood
<1>3. \A q \in Ranks : MarkersPassed(q)' = MarkersPassed(q)
  BY <1>1, <1>2 DEF MarkersPassed
<1>4. synced[r] = 0
  BY DEF MarkerInv
<1>5. \A q \in Ranks : ~OnMarker(q, pc'[q]) => synced'[q] = 0
  BY <1>2, <1>4 DEF MarkerInv
<1>6. \A q \in Ranks : BdPartner(q) \in Ranks
  BY PartnerReplicas DEF Chunks
<1>7. QED BY <1>3, <1>5, <1>6 DEF MarkerInv

LEMMA AllReduceKeepsMarkers ==
  ASSUME GoodCounters, MarkerInv, NEW r \in Ranks, AllReduceGradients(r)
  PROVE  MarkerInv'
<1> DEFINE q == BdPartner(r)
<1>1. q \in Ranks /\ q # r /\ BdPartner(q) = r /\ \A d \in Ranks : BdPartner(d) \in Ranks
  BY PartnerReplicas DEF Chunks
<1>2. \A d \in Ranks : d \notin {r, q} => BdPartner(d) \notin {r, q}
  BY HalfFacts DEF BdPartner, Ranks
<1>3. /\ synced[r] < 2 /\ synced[q] < 2 /\ pc' = pc
      /\ synced' = [synced EXCEPT ![r] = synced[r] + 1, ![q] = synced[q] + 1]
  BY <1>1 DEF AllReduceGradients, MarkerInv
<1>4. OnMarker(r, pc[r]) /\ OnMarker(q, pc[q])
  <2>1. \A d \in Ranks : AtSync(d) => OnMarker(d, pc[d])
    <3> SUFFICES ASSUME NEW d \in Ranks, AtSync(d) PROVE OnMarker(d, pc[d])
      OBVIOUS
    <3>1. pc[d].phase = "cooldown" /\ BackwardChunk(d, BackwardK(d, pc[d])) = Sync
      BY DEF AtSync, InPhase, BK
    <3>2. BackwardK(d, pc[d]) \in 0 .. 2 * N + 1
      BY <3>1, CooldownPlaces DEF GoodCounters
    <3>3. Sync \notin Chunks
      BY DEF Sync, Chunks
    <3>4. QED BY <3>1, <3>2, <3>3, MarkerPlaces DEF OnMarker
  <2>2. QED BY <1>1, <2>1 DEF AllReduceGradients
<1> HIDE DEF q
<1>5. synced \in [Ranks -> 0 .. 2]
  BY DEF MarkerInv
<1>6. \A d \in Ranks : synced'[d] = IF d \in {r, q} THEN synced[d] + 1 ELSE synced[d]
  BY <1>1, <1>3, <1>5
<1>7. synced' \in [Ranks -> 0 .. 2]
  BY <1>1, <1>3, <1>5
<1>8. \A d \in Ranks : ~OnMarker(d, pc'[d]) => synced'[d] = 0
  BY <1>1, <1>3, <1>4, <1>6 DEF MarkerInv
<1>9. ASSUME NEW d \in Ranks
      PROVE  2 * MarkersPassed(d)' + synced'[d]
               = 2 * MarkersPassed(BdPartner(d))' + synced'[BdPartner(d)]
  <2>1. MarkersPassed(d)' = MarkersPassed(d)
        /\ MarkersPassed(BdPartner(d))' = MarkersPassed(BdPartner(d))
    BY <1>3 DEF MarkersPassed
  <2>2. MarkersPassed(d) \in Int /\ MarkersPassed(BdPartner(d)) \in Int
    BY <1>1, MarkersNext DEF MarkersPassed, GoodCounters
  <2>3. synced[d] \in Int /\ synced[BdPartner(d)] \in Int
    BY <1>1, <1>5
  <2>4. 2 * MarkersPassed(d) + synced[d] = 2 * MarkersPassed(BdPartner(d)) + synced[BdPartner(d)]
    BY DEF MarkerInv
  <2>5. d \in {r, q} <=> BdPartner(d) \in {r, q}
    BY <1>1, <1>2 DEF q
  <2>6. QED BY <1>1, <1>6, <2>1, <2>2, <2>3, <2>4, <2>5
<1>10. QED BY <1>7, <1>8, <1>9 DEF MarkerInv

LEMMA LeaveSyncKeepsMarkers ==
  ASSUME GoodCounters, MarkerInv, NEW r \in Ranks, LeaveSync(r)
  PROVE  MarkerInv'
<1>1. synced[r] = 2 /\ synced' = [synced EXCEPT ![r] = 0] /\ Step(r)
  BY DEF LeaveSync
<1>2. OnMarker(r, pc[r])
  BY <1>1 DEF MarkerInv
<1>3. pc'[r] = NextPlace(r, pc[r]) /\ \A q \in Ranks : q # r => pc'[q] = pc[q]
  BY <1>1, StepGood
<1>4. MarkersPassed(r)' = MarkersPassed(r) + 1
  BY <1>2, <1>3, MarkersNext DEF MarkersPassed, GoodCounters
<1>5. \A q \in Ranks : q # r => MarkersPassed(q)' = MarkersPassed(q)
  BY <1>3 DEF MarkersPassed
<1>6. \A q \in Ranks : MarkersPassed(q) \in Int
  BY MarkersNext DEF MarkersPassed, GoodCounters
<1>7. \A q \in Ranks : BdPartner(q) \in Ranks
  BY PartnerReplicas DEF Chunks
<1>8. synced \in [Ranks -> 0 .. 2]
  BY DEF MarkerInv
<1>9. synced' \in [Ranks -> 0 .. 2] /\ \A q \in Ranks : synced'[q] = IF q = r THEN 0 ELSE synced[q]
  BY <1>1, <1>8
<1>10. \A q \in Ranks : 2 * MarkersPassed(q)' + synced'[q] = 2 * MarkersPassed(q) + synced[q]
  <2>1. 2 * MarkersPassed(r)' + synced'[r] = 2 * MarkersPassed(r) + synced[r]
    BY <1>1, <1>4, <1>6, <1>9
  <2>2. QED BY <1>5, <1>9, <2>1
<1>11. \A q \in Ranks : ~OnMarker(q, pc'[q]) => synced'[q] = 0
  BY <1>3, <1>9 DEF MarkerInv
<1>12. QED BY <1>7, <1>9, <1>10, <1>11 DEF MarkerInv

\* Only the three actions of the cooldown come near a marker.
LEMMA MarkersKept ==
  ASSUME GoodCounters, MarkerInv, [Next]_vars
  PROVE  MarkerInv'
<1>1. CASE UNCHANGED <<pc, synced>>
  BY <1>1 DEF MarkerInv, MarkersPassed
<1>2. ASSUME NEW r \in Ranks, DeviceStep(r)
      PROVE  MarkerInv'
  <2>1. CASE InitialRecv(r)
    BY <2>1, PlainStepKeepsMarkers DEF InitialRecv, InPhase, OnMarker
  <2>2. CASE Warmup(r)
    BY <2>2, PlainStepKeepsMarkers DEF Warmup, ForwardStepHelper, InPhase, OnMarker
  <2>3. CASE WarmupAgain(r)
    BY <2>3, PlainStepKeepsMarkers DEF WarmupAgain, ForwardStepHelper, InPhase, OnMarker
  <2>4. CASE ForwardPass(r)
    BY <2>4, PlainStepKeepsMarkers DEF ForwardPass, ForwardStepHelper, InPhase, OnMarker
  <2>5. CASE BackwardPass(r)
    BY <2>5, PlainStepKeepsMarkers DEF BackwardPass, BackwardStepHelper, InPhase, OnMarker
  <2>6. CASE CooldownBackward(r)
    BY <2>6, PlainStepKeepsMarkers DEF CooldownBackward, BackwardStepHelper, InPhase, OnMarker
  <2>7. CASE FinalBackward(r)
    <3>1. /\ Step(r) /\ UNCHANGED synced /\ pc[r].phase = "cooldown"
          /\ BackwardChunk(r, BackwardK(r, pc[r])) # Sync
      BY <2>7 DEF FinalBackward, BackwardStepHelper, InPhase, BK
    <3>2. BackwardK(r, pc[r]) \in 0 .. 2 * N + 1
      BY <3>1, CooldownPlaces DEF GoodCounters
    <3>3. ~OnMarker(r, pc[r])
      BY <3>1, <3>2, MarkerPlaces DEF OnMarker
    <3>4. QED BY <3>1, <3>3, PlainStepKeepsMarkers
  <2>8. CASE AllReduceGradients(r)
    BY <2>8, AllReduceKeepsMarkers
  <2>9. CASE LeaveSync(r)
    BY <2>9, LeaveSyncKeepsMarkers
  <2>10. CASE Finish(r)
    BY <2>10, PlainStepKeepsMarkers DEF Finish, InPhase, OnMarker
  <2>11. QED BY <1>2, <2>1, <2>2, <2>3, <2>4, <2>5, <2>6, <2>7, <2>8, <2>9, <2>10 DEF DeviceStep
<1>3. ASSUME NEW a \in Ranks, NEW b \in Ranks, Transfer(a, b)
      PROVE  UNCHANGED <<pc, synced>>
  BY <1>3 DEF Transfer
<1>4. CASE Terminated \/ UNCHANGED vars
  BY <1>1, <1>4 DEF Terminated, vars
<1>5. QED BY <1>1, <1>2, <1>3, <1>4 DEF Next

LEMMA MarkersCounted == Spec => []MarkerInv
<1>1. Init => MarkerInv
  <2> SUFFICES ASSUME Init PROVE MarkerInv
    OBVIOUS
  <2>1. \A r \in Ranks : BdPartner(r) \in Ranks
    BY PartnerReplicas DEF Chunks
  <2>2. \A r \in Ranks : pc[r].phase = "recv" /\ synced[r] = 0
    BY DEF Init, At
  <2>3. \A r \in Ranks : MarkersPassed(r) = 0
    BY <2>2 DEF MarkersPassed, MarkersAt
  <2>4. synced \in [Ranks -> 0 .. 2]
    BY DEF Init
  <2>5. QED BY <2>1, <2>2, <2>3, <2>4 DEF MarkerInv
<1>2. GoodCounters /\ MarkerInv /\ [Next]_vars => MarkerInv'
  BY MarkersKept
<1>3. QED BY <1>1, <1>2, CountersGood, PTL DEF Spec

\* Two members of a bidirectional group that meet in an all-reduce have called
\* it for the replicas of the same layers, however the devices interleave.
THEOREM SameLayers == Spec => []SameLayersReduced
<1>1. GoodCounters /\ MarkerInv => SameLayersReduced
  <2> SUFFICES ASSUME GoodCounters, MarkerInv, NEW r \in Ranks,
                      AtSync(r), AtSync(BdPartner(r)),
                      synced[r] < 2, synced[BdPartner(r)] < 2
               PROVE  StageOf(r, SyncChunk(r)) = StageOf(BdPartner(r), SyncChunk(BdPartner(r)))
    BY DEF SameLayersReduced
  <2> DEFINE q == BdPartner(r)
  <2>1. q \in Ranks
    BY PartnerReplicas DEF Chunks
  <2>2. ASSUME NEW d \in Ranks, AtSync(d)
        PROVE  /\ MarkersPassed(d) = IF BK(d) < TotalNumMicrobatches + 1 THEN 0 ELSE 1
    <3>1. pc[d].phase = "cooldown" /\ BackwardChunk(d, BK(d)) = Sync
      BY <2>2 DEF AtSync, InPhase
    <3>2. BK(d) \in 0 .. 2 * N + 1
      BY <3>1, CooldownPlaces DEF GoodCounters, BK
    <3>3. BK(d) \in {FirstMarker(d), 2 * N + 1} /\ FirstMarker(d) \in {2 * N, 2 * N - 1}
      BY <3>1, <3>2, MarkerPlaces DEF Sync, Chunks, FirstMarker
    <3>4. QED BY <3>1, <3>2, <3>3, UnitFacts DEF MarkersPassed, MarkersAt, BK, TotalNumMicrobatches
  <2>3. synced[r] \in {0, 1} /\ synced[q] \in {0, 1}
    BY <2>1 DEF MarkerInv
  <2>4. 2 * MarkersPassed(r) + synced[r] = 2 * MarkersPassed(q) + synced[q]
    BY DEF MarkerInv
  <2>5. MarkersPassed(r) \in {0, 1} /\ MarkersPassed(q) \in {0, 1}
    BY <2>1, <2>2
  <2>6. MarkersPassed(r) = MarkersPassed(q) /\ synced[r] = synced[q]
    BY <2>3, <2>4, <2>5
  <2>7. /\ SyncChunk(r) = (IF MarkersPassed(r) = 0 THEN 2 ELSE 0)
                           + (IF r < Half THEN synced[r] ELSE 1 - synced[r])
        /\ SyncChunk(q) = (IF MarkersPassed(r) = 0 THEN 2 ELSE 0)
                           + (IF q < Half THEN synced[r] ELSE 1 - synced[r])
    BY <2>1, <2>2, <2>6 DEF SyncChunk
  <2>8. q = P - 1 - r /\ (r < Half <=> ~(q < Half)) /\ r \in Int /\ P \in Int
    BY HalfFacts DEF BdPartner, Ranks
  <2> HIDE DEF q
  <2>9. StageOf(r, SyncChunk(r)) = StageOf(q, SyncChunk(q))
    <3>1. CASE MarkersPassed(r) = 0 /\ synced[r] = 0
      BY <2>7, <2>8, <3>1 DEF StageOf
    <3>2. CASE MarkersPassed(r) = 0 /\ synced[r] = 1
      BY <2>7, <2>8, <3>2 DEF StageOf
    <3>3. CASE MarkersPassed(r) = 1 /\ synced[r] = 0
      BY <2>7, <2>8, <3>3 DEF StageOf
    <3>4. CASE MarkersPassed(r) = 1 /\ synced[r] = 1
      BY <2>7, <2>8, <3>4 DEF StageOf
    <3>5. QED BY <2>3, <2>5, <3>1, <3>2, <3>3, <3>4
  <2>10. QED BY <2>9 DEF q
<1>2. QED BY <1>1, CountersGood, MarkersCounted, PTL
----
(***************************************************************************)
(* Type correctness of the data.  The index arithmetic comes first: every  *)
(* loop body reads places of the two orders that hold a chunk.             *)
(***************************************************************************)
LEMMA PlaceBounds ==
  ASSUME NEW r \in Ranks, NEW p, GoodPlace(r, p)
  PROVE  /\ p.loop * 2 * P \in Nat
         /\ p.k \in Nat
         /\ p.phase \in {"mid1", "mid2", "mid3", "mid4"} => p.loop * 2 * P + 4 * P <= 2 * N
         /\ p.phase \in {"last", "cooldown"} => p.loop * 2 * P + 2 * P = 2 * N
<1>1. p.loop \in 0 .. NLoop /\ p.k \in Nat
  BY DEF GoodPlace, PC
<1>2. p.loop * 2 * P \in Nat
  BY <1>1, UnitFacts, HalfFacts
<1>3. CASE p.phase \in {"mid1", "mid2", "mid3", "mid4"}
  <2>1. p.loop <= NLoop - 1
    BY <1>1, <1>3, UnitFacts DEF GoodPlace
  <2>2. p.loop * 2 * P <= (NLoop - 1) * 2 * P
    BY <1>1, <2>1, UnitFacts, HalfFacts
  <2>3. (NLoop - 1) * 2 * P + 4 * P = 2 * N
    BY UnitFacts, HalfFacts
  <2>4. QED BY <1>1, <1>2, <1>3, <2>2, <2>3, UnitFacts, HalfFacts
<1>4. CASE p.phase \in {"last", "cooldown"}
  <2>1. p.loop = NLoop
    BY <1>4 DEF GoodPlace
  <2>2. NLoop * 2 * P + 2 * P = 2 * N
    BY UnitFacts, HalfFacts
  <2>3. QED BY <1>1, <1>2, <1>4, <2>1, <2>2
<1>5. QED BY <1>1, <1>2, <1>3, <1>4

\* A forward pass, and the forward pass after it when there is one.
LEMMA ForwardPlaces ==
  ASSUME NEW r \in Ranks, NEW p, GoodPlace(r, p)
  PROVE  /\ p.phase = "warmup" => ForwardK(r, p) \in 0 .. 2 * N - 1
         /\ p.phase = "mid4" => ForwardK(r, p) \in 0 .. 2 * N - 2
         /\ p.phase \in {"mid1", "last"} => ForwardK(r, p) \in 0 .. 2 * N - 1
         /\ p.phase \in {"mid1", "last"} /\ p.k < 2 * UnitRemaining(r) - 2
              => ForwardK(r, p) \in 0 .. 2 * N - 2
         /\ p.phase = "mid3" => ForwardK(r, p) \in 0 .. 2 * N - 2
<1> DEFINE base == p.loop * 2 * P
           w == NumWarmupMicrobatches(r)
           u == UnitRemaining(r)
<1>1. /\ base \in Nat /\ p.k \in Nat
      /\ p.phase \in {"mid1", "mid2", "mid3", "mid4"} => base + 4 * P <= 2 * N
      /\ p.phase \in {"last", "cooldown"} => base + 2 * P = 2 * N
  BY PlaceBounds
<1>2. w \in P + Half .. 2 * P - 1 /\ u = 2 * P - w /\ u \in 1 .. Half
  BY WarmupFacts
<1>3. p.k < PhaseLength(r, p.phase)
  BY DEF GoodPlace
<1>4. CASE p.phase = "warmup"
  <2>1. PhaseLength(r, p.phase) \in {2 * N, w}
    BY <1>4 DEF PhaseLength, TotalNumMicrobatches
  <2>2. ForwardK(r, p) = p.k
    BY <1>4 DEF ForwardK
  <2> HIDE DEF base, w, u
  <2>3. QED BY <1>1, <1>2, <1>3, <1>4, <2>1, <2>2, HalfFacts, UnitFacts
<1>5. CASE p.phase = "mid4"
  <2>1. PhaseLength(r, p.phase) = w - u + 1 /\ ForwardK(r, p) = base + 2 * P + u - 1 + p.k
    BY <1>5 DEF PhaseLength, ForwardK
  <2> HIDE DEF base, w, u
  <2>2. QED BY <1>1, <1>2, <1>3, <1>5, <2>1, HalfFacts, UnitFacts
<1>6. CASE p.phase \in {"mid1", "last"}
  <2>1. PhaseLength(r, p.phase) = 2 * u /\ ForwardK(r, p) = base + w + (p.k \div 2)
    BY <1>6 DEF PhaseLength, ForwardK
  <2> HIDE DEF base, w, u
  <2>2. p.k \div 2 \in 0 .. u - 1 /\ (p.k < 2 * u - 2 => p.k \div 2 <= u - 2)
    BY <1>1, <1>2, <1>3, <2>1, HalfFacts
  <2>3. QED BY <1>1, <1>2, <1>6, <2>1, <2>2, HalfFacts, UnitFacts DEF u
<1>7. CASE p.phase = "mid3"
  <2>1. PhaseLength(r, p.phase) = 2 * (u - 1) /\ ForwardK(r, p) = base + 2 * P + (p.k \div 2)
    BY <1>7 DEF PhaseLength, ForwardK
  <2> HIDE DEF base, w, u
  <2>2. p.k \div 2 \in 0 .. u - 2
    BY <1>1, <1>2, <1>3, <2>1, HalfFacts
  <2>3. QED BY <1>1, <1>2, <1>7, <2>1, <2>2, HalfFacts, UnitFacts
<1>8. QED BY <1>4, <1>5, <1>6, <1>7

\* A backward pass before the cooldown, and the one after it.
LEMMA BackwardPlaces ==
  ASSUME NEW r \in Ranks, NEW p, GoodPlace(r, p), p.phase \in {"mid1", "mid2", "mid3", "last"}
  PROVE  BackwardK(r, p) \in 0 .. 2 * N - 3
<1> DEFINE base == p.loop * 2 * P
           w == NumWarmupMicrobatches(r)
           u == UnitRemaining(r)
<1>1. /\ base \in Nat /\ p.k \in Nat
      /\ p.phase \in {"mid1", "mid2", "mid3", "mid4"} => base + 4 * P <= 2 * N
      /\ p.phase \in {"last", "cooldown"} => base + 2 * P = 2 * N
  BY PlaceBounds
<1>2. w \in P + Half .. 2 * P - 1 /\ u = 2 * P - w /\ u \in 1 .. Half
  BY WarmupFacts
<1>3. p.k < PhaseLength(r, p.phase)
  BY DEF GoodPlace
<1>4. CASE p.phase = "mid2"
  <2>1. PhaseLength(r, p.phase) = w - u + 1 /\ BackwardK(r, p) = base + u + p.k
    BY <1>4 DEF PhaseLength, BackwardK
  <2> HIDE DEF base, w, u
  <2>2. QED BY <1>1, <1>2, <1>3, <1>4, <2>1, HalfFacts, UnitFacts
<1>5. CASE p.phase \in {"mid1", "last"}
  <2>1. PhaseLength(r, p.phase) = 2 * u /\ BackwardK(r, p) = base + (p.k \div 2)
    BY <1>5 DEF PhaseLength, BackwardK
  <2> HIDE DEF base, w, u
  <2>2. p.k \div 2 \in 0 .. u - 1
    BY <1>1, <1>2, <1>3, <2>1, HalfFacts
  <2>3. QED BY <1>1, <1>2, <1>5, <2>1, <2>2, HalfFacts, UnitFacts
<1>6. CASE p.phase = "mid3"
  <2>1. PhaseLength(r, p.phase) = 2 * (u - 1) /\ BackwardK(r, p) = base + w + 1 + (p.k \div 2)
    BY <1>6 DEF PhaseLength, BackwardK
  <2> HIDE DEF base, w, u
  <2>2. p.k \div 2 \in 0 .. u - 2
    BY <1>1, <1>2, <1>3, <2>1, HalfFacts
  <2>3. QED BY <1>1, <1>2, <1>6, <2>1, <2>2, HalfFacts, UnitFacts
<1>7. QED BY <1>4, <1>5, <1>6

\* Below the first marker the backward order names chunks.
LEMMA EarlyBackwardChunk ==
  ASSUME NEW r \in Ranks, NEW k \in 0 .. 2 * N - 2
  PROVE  BackwardChunk(r, k) \in Chunks
<1>1. k \in 0 .. 2 * N + 1 /\ k \notin {FirstMarker(r), 2 * N + 1}
  BY UnitFacts, HalfFacts DEF FirstMarker
<1>2. QED BY <1>1, MarkerPlaces
----
Lists == [Ranks -> [Chunks -> Seq(Tensor)]]

Operation == [to : Ranks \cup {Nobody}, tensor : Tensor, from : Ranks \cup {Nobody}]

Comms == [Ranks -> [to : Ranks \cup {Nobody}, tensor : Tensor, from : Ranks \cup {Nobody},
                    box : {"in", "grad", "drop"}, chunk : Chunks]]

ListsOK ==
  /\ inputTensors \in Lists
  /\ outputTensors \in Lists
  /\ outputTensorGrads \in Lists
  /\ comm \in Comms

ResultsOK ==
  /\ vrank \in [Ranks -> Chunks]
  /\ fed \in [Ranks -> [Chunks -> Nat]]
  /\ losses \in [Ranks -> Seq(Nat \X Nat)]
  /\ mainGrad \in [Ranks -> [Chunks -> SUBSET ({0, 1} \X Nat)]]
  /\ reduced \in [Ranks -> [Chunks -> Nat]]
  /\ synchronizedChunks \in [Ranks -> SUBSET Chunks]

LEMMA NoneType == None \in Tensor /\ Nobody \notin Ranks
BY DEF None, Tensor, Nobody, Ranks

\* Adding to one list of one device.
LEMMA AddType ==
  ASSUME NEW lst \in Lists, NEW r \in Ranks, NEW c \in Chunks, NEW ts \in Seq(Tensor)
  PROVE  Add(lst, r, c, ts) \in Lists
<1>1. lst[r][c] \o ts \in Seq(Tensor)
  BY ConcatProperties DEF Lists
<1>2. QED BY <1>1 DEF Add, Lists

\* Replacing the list of chunk c and then adding to that of chunk d.
LEMMA ReplaceType ==
  ASSUME NEW lst \in Lists, NEW r \in Ranks, NEW c \in Chunks, NEW d \in Chunks,
         NEW s \in Seq(Tensor), NEW ts \in Seq(Tensor)
  PROVE  [lst EXCEPT ![r] = ReplaceAndAdd(lst[r], c, s, d, ts)] \in Lists
<1>1. ASSUME NEW x \in Chunks
      PROVE  (IF x = c THEN s ELSE lst[r][x]) \o (IF x = d THEN ts ELSE << >>) \in Seq(Tensor)
  <2>1. lst[r][x] \in Seq(Tensor) /\ << >> \in Seq(Tensor)
    BY DEF Lists
  <2>2. QED BY <2>1, ConcatProperties
<1>2. ReplaceAndAdd(lst[r], c, s, d, ts) \in [Chunks -> Seq(Tensor)]
  BY <1>1 DEF ReplaceAndAdd
<1>3. QED BY <1>2 DEF Lists

LEMMA ShortSequences ==
  /\ << >> \in Seq(Tensor)
  /\ \A t \in Tensor : <<t>> \in Seq(Tensor)
  /\ \A op : AtOnce(op) \in Seq(Tensor)
BY NoneType DEF AtOnce

LEMMA TailType ==
  ASSUME NEW s \in Seq(Tensor), s # << >>
  PROVE  Head(s) \in Tensor /\ Tail(s) \in Seq(Tensor)
BY HeadTailProperties

\* The operations of p2p_communication.py.
LEMMA OperationTypes ==
  ASSUME NEW r \in Ranks, NEW c \in Chunks, NEW t \in Tensor, NEW flag \in BOOLEAN
  PROVE  /\ RecvForward(r, c) \in Operation
         /\ RecvBackward(r, c) \in Operation
         /\ SendForwardRecvBackward(r, c, t) \in Operation
         /\ SendBackwardRecvForward(r, c, t) \in Operation
         /\ SendForwardRecvForward(r, c, t, flag) \in Operation
         /\ SendForwardRecvForwardBd0(r, c, t, flag) \in Operation
         /\ SendBackwardRecvBackward(r, c, t, flag) \in Operation
         /\ SendBackwardRecvBackwardBd(r, c, t, flag) \in Operation
<1>1. NextRank(r, c) \in Ranks /\ PrevRank(r, c) \in Ranks
  BY RingInverse
<1>2. ASSUME NEW to \in Ranks \cup {Nobody}, NEW x \in Tensor, NEW from \in Ranks \cup {Nobody}
      PROVE  Communicate(to, x, from) \in Operation
  BY <1>2 DEF Communicate, Operation
<1>3. Silence \in Operation
  BY <1>2, NoneType DEF Silence
<1>4. QED
  BY <1>1, <1>2, <1>3, NoneType
     DEF RecvForward, RecvBackward, SendForwardRecvBackward, SendBackwardRecvForward,
         SendForwardRecvForward, SendForwardRecvForwardBd0, SendBackwardRecvBackward,
         SendBackwardRecvBackwardBd

LEMMA PostType ==
  ASSUME comm \in Comms, NEW r \in Ranks, NEW op \in Operation,
         NEW box \in {"in", "grad", "drop"}, NEW c \in Chunks, Post(r, op, box, c)
  PROVE  comm' \in Comms
BY DEF Post, Comms, Operation

----
\* What forward_step_helper reads and produces.
LEMMA ForwardOutputType ==
  ASSUME ListsOK, ResultsOK, NEW r \in Ranks, NEW c \in Chunks, PaddedInputs(r, c) # << >>
  PROVE  /\ PaddedInputs(r, c) \in Seq(Tensor)
         /\ ForwardOutput(r, c) \in Tensor
         /\ ToSend(r, c) \in Tensor
<1>1. inputTensors[r][c] \in Seq(Tensor) /\ fed[r][c] \in Nat
  BY DEF ListsOK, ResultsOK, Lists
<1>2. PaddedInputs(r, c) \in Seq(Tensor)
  BY <1>1, NoneType DEF PaddedInputs
<1>3. LastInput(r, c) \in Tensor
  <2> DEFINE s == PaddedInputs(r, c)
  <2>1. s \in Seq(Tensor) /\ s # << >>
    BY <1>2
  <2> HIDE DEF s
  <2>2. Len(s) \in 1 .. Len(s)
    BY <2>1, EmptySeq, LenProperties
  <2>3. s[Len(s)] \in Tensor
    BY <2>1, <2>2, ElementOfSeq
  <2>4. QED BY <2>3 DEF LastInput, s
<1>4. Pipe(c) \in {0, 1}
  BY DEF Pipe, Chunks
<1>5. Act(Pipe(c), fed[r][c], 1) \in Tensor
  BY <1>1, <1>4 DEF Act, Tensor
<1>6. [LastInput(r, c) EXCEPT !.stage = @ + 1] \in Tensor
  BY <1>3 DEF Tensor
<1>7. ForwardOutput(r, c) \in Tensor
  BY <1>5, <1>6 DEF ForwardOutput
<1>8. QED BY <1>2, <1>7, NoneType DEF ToSend

LEMMA ForwardStepHelperType ==
  ASSUME ListsOK, ResultsOK, NEW r \in Ranks, NEW c \in Chunks, ForwardStepHelper(r, c)
  PROVE  ResultsOK' /\ outputTensors' \in Lists
<1>1. ForwardOutput(r, c) \in Tensor
  BY ForwardOutputType DEF ForwardStepHelper
<1>2. outputTensors' \in Lists
  BY <1>1, AddType, ShortSequences DEF ForwardStepHelper, ListsOK
<1>3. vrank' \in [Ranks -> Chunks] /\ fed' \in [Ranks -> [Chunks -> Nat]]
  BY DEF ForwardStepHelper, ResultsOK
<1>4. losses' \in [Ranks -> Seq(Nat \X Nat)]
  <2>1. ForwardOutput(r, c).mb \in Nat /\ fed[r][c] \in Nat
    BY <1>1 DEF Tensor, ResultsOK
  <2>2. Append(losses[r], <<ForwardOutput(r, c).mb, fed[r][c]>>) \in Seq(Nat \X Nat)
    BY <2>1, AppendProperties DEF ResultsOK
  <2>3. QED BY <2>2 DEF ForwardStepHelper, StoreLoss, ResultsOK
<1>5. QED BY <1>2, <1>3, <1>4 DEF ForwardStepHelper, ResultsOK

LEMMA InputsAfterType ==
  ASSUME ListsOK, ResultsOK, NEW r \in Ranks, NEW c \in Chunks, NEW d \in Chunks,
         NEW ts \in Seq(Tensor), PaddedInputs(r, c) # << >>
  PROVE  InputsAfter(r, c, d, ts) \in Lists
BY ForwardOutputType, ReplaceType DEF InputsAfter, ListsOK

\* What backward_step_helper reads and produces.
LEMMA BackwardStepHelperType ==
  ASSUME ListsOK, ResultsOK, NEW r \in Ranks, NEW c \in Chunks, NEW v \in Chunks, NEW m,
         BackwardStepHelper(r, c, v, m)
  PROVE  /\ ResultsOK'
         /\ outputTensors' \in Lists
         /\ \A d \in Chunks, ts \in Seq(Tensor) : /\ InputsPopped(r, c, d, ts) \in Lists
                                                  /\ GradsPopped(r, c, v, d, ts) \in Lists
         /\ (IF IsFirstStage(r, c) THEN None ELSE InputGrad(r, c)) \in Tensor
<1>1. /\ inputTensors[r][c] \in Seq(Tensor) /\ inputTensors[r][c] # << >>
      /\ outputTensors[r][c] \in Seq(Tensor) /\ outputTensors[r][c] # << >>
      /\ outputTensorGrads[r][c] \in Seq(Tensor)
  BY DEF ListsOK, Lists, BackwardStepHelper
<1>2. PaddedGrads(r, c, v) \in Seq(Tensor) /\ PaddedGrads(r, c, v) # << >>
  BY <1>1, NoneType DEF PaddedGrads, BackwardStepHelper
<1>3. /\ Head(inputTensors[r][c]) \in Tensor /\ Tail(inputTensors[r][c]) \in Seq(Tensor)
      /\ Head(outputTensors[r][c]) \in Tensor /\ Tail(outputTensors[r][c]) \in Seq(Tensor)
      /\ Tail(PaddedGrads(r, c, v)) \in Seq(Tensor)
  BY <1>1, <1>2, TailType
<1>4. outputTensors' \in Lists
  BY <1>3 DEF BackwardStepHelper, OutputsPopped, ListsOK, Lists
<1>5. ASSUME NEW d \in Chunks, NEW ts \in Seq(Tensor)
      PROVE  InputsPopped(r, c, d, ts) \in Lists /\ GradsPopped(r, c, v, d, ts) \in Lists
  BY <1>3, ReplaceType DEF InputsPopped, GradsPopped, ListsOK
<1>6. (IF IsFirstStage(r, c) THEN None ELSE InputGrad(r, c)) \in Tensor
  BY <1>3, NoneType DEF InputGrad, Tensor
<1>7. mainGrad' \in [Ranks -> [Chunks -> SUBSET ({0, 1} \X Nat)]]
  <2> DEFINE out == Head(outputTensors[r][c])
  <2>1. <<out.pipe, out.mb>> \in {0, 1} \X Nat
    BY <1>3 DEF Tensor
  <2>2. mainGrad[r][c] \cup {<<out.pipe, out.mb>>} \in SUBSET ({0, 1} \X Nat)
    BY <2>1 DEF ResultsOK
  <2>3. QED BY <2>2 DEF BackwardStepHelper, ResultsOK
<1>8. vrank' \in [Ranks -> Chunks]
  BY DEF BackwardStepHelper, ResultsOK
<1>9. synchronizedChunks' \in [Ranks -> SUBSET Chunks]
  BY DEF BackwardStepHelper, ResultsOK
<1>10. QED BY <1>4, <1>5, <1>6, <1>7, <1>8, <1>9 DEF BackwardStepHelper, ResultsOK
----
\* One lemma per action.
DataOK == ListsOK /\ ResultsOK

LEMMA InitialRecvType ==
  ASSUME DataOK, NEW r \in Ranks, InitialRecv(r)
  PROVE  DataOK'
<1> DEFINE v == IF r < Half THEN 0 ELSE 1
           op == RecvForward(r, v)
<1>1. v \in Chunks
  BY DEF Chunks
<1> HIDE DEF v
<1>2. op \in Operation
  BY <1>1, NoneType, OperationTypes
<1>3. /\ inputTensors' = Add(inputTensors, r, v, AtOnce(op))
      /\ Post(r, op, "in", v)
      /\ vrank' = [vrank EXCEPT ![r] = v]
      /\ UNCHANGED <<outputTensors, outputTensorGrads, results>>
  BY DEF InitialRecv, v
<1>4. inputTensors' \in Lists
  BY <1>1, <1>3, AddType, ShortSequences DEF DataOK, ListsOK
<1>5. comm' \in Comms
  BY <1>1, <1>2, <1>3, PostType DEF DataOK, ListsOK
<1>6. vrank' \in [Ranks -> Chunks]
  BY <1>1, <1>3 DEF DataOK, ResultsOK
<1>7. QED BY <1>3, <1>4, <1>5, <1>6 DEF DataOK, ListsOK, ResultsOK, results

LEMMA ForwardExchangeType ==
  ASSUME DataOK, NEW r \in Ranks, NEW c \in Chunks, NEW next \in Chunks, NEW local,
         NEW op \in Operation, ForwardStepHelper(r, c), ForwardExchange(r, c, next, local, op),
         UNCHANGED outputTensorGrads
  PROVE  DataOK'
<1>1. PaddedInputs(r, c) # << >> /\ ListsOK /\ ResultsOK
  BY DEF ForwardStepHelper, DataOK
<1>2. ResultsOK' /\ outputTensors' \in Lists
  BY <1>1, ForwardStepHelperType
<1>3. inputTensors' \in Lists
  <2>1. \A d \in Chunks, ts \in Seq(Tensor) : InputsAfter(r, c, d, ts) \in Lists
    BY <1>1, InputsAfterType
  <2>2. <<ToSend(r, c)>> \in Seq(Tensor)
    BY <1>1, ForwardOutputType, ShortSequences
  <2>3. QED BY <2>1, <2>2, ShortSequences DEF ForwardExchange
<1>4. comm' \in Comms
  <2>1. CASE UNCHANGED comm
    BY <1>1, <2>1 DEF ListsOK
  <2>2. CASE Post(r, op, "in", next)
    BY <1>1, <2>2, PostType DEF ListsOK
  <2>3. QED BY <2>1, <2>2 DEF ForwardExchange
<1>5. QED BY <1>1, <1>2, <1>3, <1>4 DEF DataOK, ListsOK

LEMMA WarmupType ==
  ASSUME GoodCounters, DataOK, NEW r \in Ranks, Warmup(r)
  PROVE  DataOK'
<1> DEFINE k      == FK(r)
           c      == ForwardChunk(r, k)
           isLast == k = TotalNumMicrobatches - 1
           next   == IF isLast THEN 1 ELSE ForwardChunk(r, k + 1)
           op     == IF c = next
                     THEN SendForwardRecvForward(r, c, ToSend(r, c),
                            ~IsFirstStage(r, c) /\ ~(isLast /\ ForwardOnly))
                     ELSE SendForwardRecvForwardBd0(r, c, ToSend(r, c),
                            ~IsLastStage(r, c) /\ ~(isLast /\ ForwardOnly))
<1>1. k \in 0 .. 2 * N - 1
  BY ForwardPlaces DEF Warmup, InPhase, GoodCounters, FK
<1>2. c \in Chunks
  BY <1>1, ForwardChunkType
<1>3. next \in Chunks
  <2>1. CASE isLast
    BY <2>1 DEF Chunks
  <2>2. CASE ~isLast
    <3>1. k + 1 \in 0 .. 2 * N - 1
      BY <1>1, <2>2, UnitFacts DEF TotalNumMicrobatches
    <3>2. QED BY <2>2, <3>1, ForwardChunkType
  <2>3. QED BY <2>1, <2>2
<1>4. /\ ForwardStepHelper(r, c)
      /\ ForwardExchange(r, c, next, c # next /\ HandedOverForward(r, next), op)
      /\ UNCHANGED outputTensorGrads
  BY DEF Warmup
<1> HIDE DEF k, c, isLast, next
<1>5. op \in Operation
  <2>1. ToSend(r, c) \in Tensor
    BY <1>2, <1>4, ForwardOutputType DEF DataOK, ForwardStepHelper
  <2>2. /\ (~IsFirstStage(r, c) /\ ~(isLast /\ ForwardOnly)) \in BOOLEAN
        /\ (~IsLastStage(r, c) /\ ~(isLast /\ ForwardOnly)) \in BOOLEAN
    OBVIOUS
  <2>3. QED BY <1>2, <2>1, <2>2, OperationTypes
<1> HIDE DEF op
<1>6. QED BY <1>2, <1>3, <1>4, <1>5, ForwardExchangeType

LEMMA WarmupAgainType ==
  ASSUME GoodCounters, DataOK, NEW r \in Ranks, WarmupAgain(r)
  PROVE  DataOK'
<1> DEFINE k    == FK(r)
           c    == ForwardChunk(r, k)
           next == ForwardChunk(r, k + 1)
           op   == SendForwardRecvForwardBd0(r, c, ToSend(r, c), ~IsLastStage(r, c))
<1>1. k \in 0 .. 2 * N - 2
  BY ForwardPlaces DEF WarmupAgain, InPhase, GoodCounters, FK
<1>2. c \in Chunks /\ next \in Chunks
  <2>1. k \in 0 .. 2 * N - 1 /\ k + 1 \in 0 .. 2 * N - 1
    BY <1>1, UnitFacts
  <2>2. QED BY <2>1, ForwardChunkType
<1>3. /\ ForwardStepHelper(r, c)
      /\ ForwardExchange(r, c, next, HandedOverForward(r, next), op)
      /\ UNCHANGED outputTensorGrads
  BY DEF WarmupAgain
<1> HIDE DEF k, c, next
<1>4. op \in Operation
  <2>1. ToSend(r, c) \in Tensor
    BY <1>2, <1>3, ForwardOutputType DEF DataOK, ForwardStepHelper
  <2>2. (~IsLastStage(r, c)) \in BOOLEAN
    OBVIOUS
  <2>3. QED BY <1>2, <2>1, <2>2, OperationTypes
<1> HIDE DEF op
<1>5. QED BY <1>2, <1>3, <1>4, ForwardExchangeType

LEMMA ForwardPassType ==
  ASSUME GoodCounters, DataOK, NEW r \in Ranks, ForwardPass(r)
  PROVE  DataOK'
<1> DEFINE c    == ForwardChunk(r, FK(r))
           next == BackwardChunk(r, BK(r))
           op   == SendForwardRecvBackward(r, c, ToSend(r, c))
<1>1. FK(r) \in 0 .. 2 * N - 1 /\ BK(r) \in 0 .. 2 * N - 2
  <2>1. GoodPlace(r, pc[r]) /\ pc[r].phase \in {"mid1", "mid3", "last"}
    BY DEF ForwardPass, InPhase, GoodCounters
  <2>2. FK(r) \in 0 .. 2 * N - 1
    BY <2>1, ForwardPlaces, UnitFacts DEF FK
  <2>3. BK(r) \in 0 .. 2 * N - 3
    BY <2>1, BackwardPlaces DEF BK
  <2>4. QED BY <2>2, <2>3, UnitFacts
<1>2. c \in Chunks /\ next \in Chunks
  BY <1>1, ForwardChunkType, EarlyBackwardChunk
<1>3. /\ ForwardStepHelper(r, c)
      /\ inputTensors' = InputsAfter(r, c, c, << >>)
      /\ UNCHANGED comm \/ Post(r, op, "grad", next)
      /\ UNCHANGED outputTensorGrads
  BY DEF ForwardPass
<1> HIDE DEF c, next
<1>4. PaddedInputs(r, c) # << >> /\ ListsOK /\ ResultsOK
  BY <1>3 DEF ForwardStepHelper, DataOK
<1>5. op \in Operation
  <2>1. ToSend(r, c) \in Tensor
    BY <1>2, <1>4, ForwardOutputType
  <2>2. QED BY <1>2, <2>1, OperationTypes
<1> HIDE DEF op
<1>6. ResultsOK' /\ outputTensors' \in Lists
  BY <1>2, <1>3, <1>4, ForwardStepHelperType
<1>7. inputTensors' \in Lists
  BY <1>2, <1>3, <1>4, InputsAfterType, ShortSequences
<1>8. comm' \in Comms
  BY <1>2, <1>3, <1>4, <1>5, PostType DEF ListsOK
<1>9. QED BY <1>3, <1>4, <1>6, <1>7, <1>8 DEF DataOK, ListsOK

LEMMA BackwardPassType ==
  ASSUME GoodCounters, DataOK, NEW r \in Ranks, BackwardPass(r)
  PROVE  DataOK'
<1> DEFINE k == BK(r)
           c == BackwardChunk(r, k)
           finalTurn == FinalTurn(r)
           nextChunk == IF finalTurn THEN BackwardChunk(r, k + 1)
                                     ELSE ForwardChunk(r, FK(r) + 1)
           grad  == IF IsFirstStage(r, c) THEN None ELSE InputGrad(r, c)
           op    == IF finalTurn THEN SendBackwardRecvBackwardBd(r, c, grad, TRUE)
                                 ELSE SendBackwardRecvForward(r, c, grad)
           got   == IF Quiet(r, c) \/ finalTurn THEN << >> ELSE AtOnce(op)
           box   == IF finalTurn THEN "grad" ELSE "in"
<1>1. GoodPlace(r, pc[r]) /\ pc[r].phase \in {"mid1", "mid3", "last"} /\ pc[r].k % 2 = 1
  BY DEF BackwardPass, InPhase, GoodCounters
<1>2. k \in 0 .. 2 * N - 2 /\ k + 1 \in 0 .. 2 * N - 2
  <2>1. k \in 0 .. 2 * N - 3
    BY <1>1, BackwardPlaces DEF BK
  <2>2. QED BY <2>1, UnitFacts
<1>3. c \in Chunks /\ BackwardChunk(r, k + 1) \in Chunks
  BY <1>2, EarlyBackwardChunk
<1>4. ~finalTurn => FK(r) \in 0 .. 2 * N - 2
  <2>1. CASE pc[r].phase = "mid3"
    BY <1>1, <2>1, ForwardPlaces DEF FK
  <2>2. CASE pc[r].phase # "mid3"
    <3>1. PhaseLength(r, pc[r].phase) = 2 * UnitRemaining(r)
      BY <1>1, <2>2 DEF PhaseLength
    <3>2. pc[r].k \in Nat /\ pc[r].k < 2 * UnitRemaining(r)
      BY <1>1, <3>1 DEF GoodPlace, PC
    <3>3. ~finalTurn => pc[r].k < 2 * UnitRemaining(r) - 2
      <4>1. ~finalTurn => pc[r].k # 2 * UnitRemaining(r) - 1
        BY <2>2 DEF FinalTurn
      <4>2. UnitRemaining(r) \in Nat
        BY WarmupFacts, HalfFacts
      <4> HIDE DEF finalTurn
      <4>3. QED BY <1>1, <3>2, <4>1, <4>2
    <3>4. QED BY <1>1, <2>2, <3>3, ForwardPlaces DEF FK
  <2>3. QED BY <2>1, <2>2
<1>5. nextChunk \in Chunks
  <2>1. ~finalTurn => FK(r) + 1 \in 0 .. 2 * N - 1
    BY <1>4, UnitFacts
  <2>2. QED BY <1>3, <2>1, ForwardChunkType
<1>6. /\ BackwardStepHelper(r, c, c, BkMicrobatchIdx[r][k])
      /\ UNCHANGED comm \/ Post(r, op, box, nextChunk)
      /\ inputTensors' = InputsPopped(r, c, nextChunk, got)
      /\ outputTensorGrads' = GradsPopped(r, c, c, c, << >>)
  BY DEF BackwardPass, Quiet
<1>7. got \in Seq(Tensor) /\ box \in {"in", "grad", "drop"}
  BY ShortSequences
<1> HIDE DEF k, c, finalTurn, nextChunk, got, box
<1>8. /\ ResultsOK'
      /\ outputTensors' \in Lists
      /\ \A d \in Chunks, ts \in Seq(Tensor) : /\ InputsPopped(r, c, d, ts) \in Lists
                                               /\ GradsPopped(r, c, c, d, ts) \in Lists
      /\ grad \in Tensor
  BY <1>3, <1>6, BackwardStepHelperType DEF DataOK
<1> HIDE DEF grad
<1>9. op \in Operation
  BY <1>3, <1>8, OperationTypes
<1> HIDE DEF op
<1>10. comm' \in Comms
  BY <1>5, <1>6, <1>7, <1>9, PostType DEF DataOK, ListsOK
<1>11. inputTensors' \in Lists /\ outputTensorGrads' \in Lists
  BY <1>3, <1>5, <1>6, <1>7, <1>8, ShortSequences
<1>12. QED BY <1>8, <1>10, <1>11 DEF DataOK, ListsOK

LEMMA CooldownBackwardType ==
  ASSUME GoodCounters, DataOK, NEW r \in Ranks, CooldownBackward(r)
  PROVE  DataOK'
<1> DEFINE k       == BK(r)
           c       == BackwardChunk(r, k)
           grad    == IF IsFirstStage(r, c) THEN None ELSE InputGrad(r, c)
           nextFwd == ForwardChunk(r, (pc[r].loop + 1) * 2 * P)
           nextBwd == BackwardChunk(r, k + 1)
           recvFwd == SendBackwardRecvForward(r, c, grad)
           recvBwd == SendBackwardRecvBackwardBd(r, c, grad, ~IsFirstStage(r, c))
<1>1. GoodPlace(r, pc[r]) /\ pc[r].phase = "mid2"
  BY DEF CooldownBackward, InPhase, GoodCounters
<1>2. k \in 0 .. 2 * N - 2 /\ k + 1 \in 0 .. 2 * N - 2
  <2>1. k \in 0 .. 2 * N - 3
    BY <1>1, BackwardPlaces DEF BK
  <2>2. QED BY <2>1, UnitFacts
<1>3. (pc[r].loop + 1) * 2 * P \in 0 .. 2 * N - 1
  <2>1. pc[r].loop * 2 * P \in Nat /\ pc[r].loop * 2 * P + 4 * P <= 2 * N
    BY <1>1, PlaceBounds
  <2>2. (pc[r].loop + 1) * 2 * P = pc[r].loop * 2 * P + 2 * P
    <3>1. pc[r].loop \in Int
      BY <1>1, UnitFacts DEF GoodPlace, PC
    <3>2. \A l \in Int : (l + 1) * 2 * P = l * 2 * P + 2 * P
      BY HalfFacts
    <3>3. QED BY <3>1, <3>2, Zenon
  <2>3. QED BY <2>1, <2>2, HalfFacts, UnitFacts
<1>4. c \in Chunks /\ nextBwd \in Chunks /\ nextFwd \in Chunks
  BY <1>2, <1>3, EarlyBackwardChunk, ForwardChunkType
<1>5. /\ BackwardStepHelper(r, c, c, BkMicrobatchIdx[r][k])
      /\ inputTensors' = InputsPopped(r, c, c, << >>)
      /\ \/ outputTensorGrads' = GradsPopped(r, c, c, c, << >>)
         \/ outputTensorGrads' = GradsPopped(r, c, c, nextBwd, <<grad>>)
         \/ outputTensorGrads' = GradsPopped(r, c, c, nextBwd, AtOnce(recvBwd))
      /\ \/ UNCHANGED comm
         \/ Post(r, recvFwd, "in", nextFwd)
         \/ Post(r, recvBwd, "grad", nextBwd)
  BY DEF CooldownBackward
<1> HIDE DEF k, c, nextFwd, nextBwd
<1>6. /\ ResultsOK'
      /\ outputTensors' \in Lists
      /\ \A d \in Chunks, ts \in Seq(Tensor) : /\ InputsPopped(r, c, d, ts) \in Lists
                                               /\ GradsPopped(r, c, c, d, ts) \in Lists
      /\ grad \in Tensor
  BY <1>4, <1>5, BackwardStepHelperType DEF DataOK
<1> HIDE DEF grad
<1>7. recvFwd \in Operation /\ recvBwd \in Operation
  <2>1. (~IsFirstStage(r, c)) \in BOOLEAN
    OBVIOUS
  <2>2. QED BY <1>4, <1>6, <2>1, OperationTypes
<1> HIDE DEF recvFwd, recvBwd
<1>8. comm' \in Comms
  BY <1>4, <1>5, <1>7, PostType DEF DataOK, ListsOK
<1>9. inputTensors' \in Lists /\ outputTensorGrads' \in Lists
  BY <1>4, <1>5, <1>6, ShortSequences
<1>10. QED BY <1>6, <1>8, <1>9 DEF DataOK, ListsOK

LEMMA FinalBackwardType ==
  ASSUME GoodCounters, DataOK, NEW r \in Ranks, FinalBackward(r)
  PROVE  DataOK'
<1> DEFINE k    == BK(r)
           c    == BackwardChunk(r, k)
           next == BackwardChunk(r, k + 1)
           v    == vrank[r]
           grad == IF IsFirstStage(r, c) THEN None ELSE InputGrad(r, c)
           sendOnly  == \/ k = TotalNumMicrobatches - 2 /\ next = Sync
                        \/ k \in {TotalNumMicrobatches - 1, TotalNumMicrobatches}
           sameChunk == k < TotalNumMicrobatches - 2 /\ c = next
           op   == IF sendOnly THEN SendBackwardRecvBackward(r, c, grad, FALSE)
                   ELSE IF sameChunk THEN SendBackwardRecvBackward(r, c, grad, TRUE)
                   ELSE SendBackwardRecvBackwardBd(r, c, grad, ~IsFirstStage(r, c))
<1>1. GoodPlace(r, pc[r]) /\ pc[r].phase = "cooldown" /\ c # Sync
  BY DEF FinalBackward, InPhase, GoodCounters
<1>2. k \in 0 .. 2 * N + 1
  BY <1>1, CooldownPlaces DEF BK
<1>3. c \in Chunks /\ k # 2 * N + 1
  BY <1>1, <1>2, MarkerPlaces
<1>4. ~sendOnly => next \in Chunks
  <2> SUFFICES ASSUME ~sendOnly PROVE next \in Chunks
    OBVIOUS
  <2>1. k \in 0 .. 2 * N - 2
    <3>1. k # 2 * N - 1 /\ k # 2 * N
      BY DEF TotalNumMicrobatches
    <3> HIDE DEF k
    <3>2. QED BY <1>2, <1>3, <3>1, UnitFacts
  <2>2. k + 1 \in 0 .. 2 * N + 1
    BY <2>1, UnitFacts
  <2>3. CASE k = 2 * N - 2
    <3>1. next # Sync
      BY <2>3 DEF TotalNumMicrobatches
    <3>2. QED BY <2>2, <3>1, MarkerPlaces
  <2>4. CASE k # 2 * N - 2
    <3>1. k + 1 \in 0 .. 2 * N - 2
      BY <2>1, <2>4, UnitFacts
    <3>2. QED BY <3>1, EarlyBackwardChunk
  <2>5. QED BY <2>3, <2>4
<1>5. v \in Chunks
  BY DEF DataOK, ResultsOK
<1>6. /\ BackwardStepHelper(r, c, v, BkMicrobatchIdx[r][k])
      /\ inputTensors' = InputsPopped(r, c, c, << >>)
      /\ \/ /\ outputTensorGrads' = GradsPopped(r, c, v, c, << >>)
            /\ Post(r, op, "drop", 0)
         \/ /\ ~sendOnly
            /\ outputTensorGrads' = GradsPopped(r, c, v, next, <<grad>>)
            /\ UNCHANGED comm
         \/ /\ ~sendOnly
            /\ outputTensorGrads' = GradsPopped(r, c, v, next, AtOnce(op))
            /\ Post(r, op, "grad", next)
  <2>1. ASSUME k < TotalNumMicrobatches - 2 PROVE ~sendOnly
    BY <1>2, <2>1, UnitFacts DEF TotalNumMicrobatches
  <2>2. QED BY <2>1 DEF FinalBackward
<1> HIDE DEF k, c, next, v, sendOnly, sameChunk
<1>7. /\ ResultsOK'
      /\ outputTensors' \in Lists
      /\ \A d \in Chunks, ts \in Seq(Tensor) : /\ InputsPopped(r, c, d, ts) \in Lists
                                               /\ GradsPopped(r, c, v, d, ts) \in Lists
      /\ grad \in Tensor
  BY <1>3, <1>5, <1>6, BackwardStepHelperType DEF DataOK
<1> HIDE DEF grad
<1>8. op \in Operation
  <2>1. (~IsFirstStage(r, c)) \in BOOLEAN /\ TRUE \in BOOLEAN /\ FALSE \in BOOLEAN
    OBVIOUS
  <2>2. QED BY <1>3, <1>7, <2>1, OperationTypes
<1> HIDE DEF op
<1>9. comm' \in Comms
  <2>1. 0 \in Chunks
    BY DEF Chunks
  <2>2. QED BY <1>4, <1>6, <1>8, <2>1, PostType DEF DataOK, ListsOK
<1>10. inputTensors' \in Lists /\ outputTensorGrads' \in Lists
  BY <1>3, <1>4, <1>6, <1>7, ShortSequences
<1>11. QED BY <1>7, <1>9, <1>10 DEF DataOK, ListsOK
LEMMA AllReduceGradientsType ==
  ASSUME DataOK, synced \in [Ranks -> 0 .. 2], NEW r \in Ranks, AllReduceGradients(r)
  PROVE  DataOK'
<1> DEFINE q   == BdPartner(r)
           c   == SyncChunk(r)
           d   == SyncChunk(q)
           sum == mainGrad[r][c] \cup mainGrad[q][d]
<1>1. q \in Ranks
  BY PartnerReplicas DEF Chunks
<1>2. /\ mainGrad' = [mainGrad EXCEPT ![r][c] = sum, ![q][d] = sum]
      /\ reduced' = [reduced EXCEPT ![r][c] = reduced[r][c] + 1, ![q][d] = reduced[q][d] + 1]
      /\ UNCHANGED <<vrank, lists, comm, fed, losses, synchronizedChunks>>
      /\ synced[r] < 2 /\ synced[q] < 2
  BY DEF AllReduceGradients
<1> HIDE DEF q
<1>3. ASSUME NEW x \in Ranks, synced[x] < 2 PROVE SyncChunk(x) \in Chunks
  <2>1. synced[x] \in {0, 1}
    BY <1>3
  <2>2. QED BY <2>1 DEF SyncChunk, Chunks
<1>4. c \in Chunks /\ d \in Chunks
  BY <1>1, <1>2, <1>3
<1> HIDE DEF c, d
<1>5. sum \in SUBSET ({0, 1} \X Nat)
  BY <1>1, <1>4 DEF DataOK, ResultsOK
<1> HIDE DEF sum
<1>6. mainGrad' \in [Ranks -> [Chunks -> SUBSET ({0, 1} \X Nat)]]
  <2> DEFINE once == [mainGrad EXCEPT ![r][c] = sum]
  <2>1. once \in [Ranks -> [Chunks -> SUBSET ({0, 1} \X Nat)]]
    BY <1>4, <1>5 DEF DataOK, ResultsOK
  <2>2. mainGrad' = [once EXCEPT ![q][d] = sum]
    BY <1>2
  <2> HIDE DEF once
  <2>3. QED BY <1>4, <1>5, <2>1, <2>2
<1>7. reduced' \in [Ranks -> [Chunks -> Nat]]
  <2> DEFINE once == [reduced EXCEPT ![r][c] = reduced[r][c] + 1]
  <2>1. reduced \in [Ranks -> [Chunks -> Nat]]
    BY DEF DataOK, ResultsOK
  <2>2. reduced[r][c] + 1 \in Nat /\ reduced[q][d] + 1 \in Nat
    BY <1>1, <1>4, <2>1
  <2>3. once \in [Ranks -> [Chunks -> Nat]]
    BY <1>4, <2>1, <2>2
  <2>4. reduced' = [once EXCEPT ![q][d] = reduced[q][d] + 1]
    BY <1>2
  <2> HIDE DEF once
  <2>5. QED BY <1>1, <1>4, <2>2, <2>3, <2>4
<1>8. QED BY <1>2, <1>6, <1>7 DEF DataOK, ListsOK, ResultsOK, lists

LEMMA LeaveSyncType ==
  ASSUME GoodCounters, DataOK, NEW r \in Ranks, LeaveSync(r)
  PROVE  DataOK'
<1> DEFINE next == IF BK(r) < TotalNumMicrobatches + 1 THEN BackwardChunk(r, BK(r) + 1) ELSE Sync
           op   == RecvBackward(r, vrank[r])
<1>1. next # Sync => next \in Chunks
  <2> SUFFICES ASSUME next # Sync PROVE next \in Chunks
    OBVIOUS
  <2>1. BK(r) < TotalNumMicrobatches + 1 /\ next = BackwardChunk(r, BK(r) + 1)
    OBVIOUS
  <2>2. BK(r) \in 0 .. 2 * N + 1
    BY CooldownPlaces DEF LeaveSync, AtSync, InPhase, GoodCounters, BK
  <2>3. BK(r) + 1 \in 0 .. 2 * N + 1
    BY <2>1, <2>2, UnitFacts DEF TotalNumMicrobatches
  <2>4. QED BY <2>1, <2>3, MarkerPlaces
<1>2. op \in Operation
  BY NoneType, OperationTypes DEF DataOK, ResultsOK
<1>3. /\ \/ UNCHANGED <<comm, outputTensorGrads>>
         \/ /\ next # Sync
            /\ outputTensorGrads' = Add(outputTensorGrads, r, next, AtOnce(op))
            /\ Post(r, op, "grad", next)
      /\ UNCHANGED <<vrank, inputTensors, outputTensors, results>>
  BY DEF LeaveSync
<1> HIDE DEF next, op
<1>4. outputTensorGrads' \in Lists
  BY <1>1, <1>3, AddType, ShortSequences DEF DataOK, ListsOK
<1>5. comm' \in Comms
  BY <1>1, <1>2, <1>3, PostType DEF DataOK, ListsOK
<1>6. QED BY <1>3, <1>4, <1>5 DEF DataOK, ListsOK, ResultsOK, results

LEMMA FinishType ==
  ASSUME DataOK, NEW r \in Ranks, Finish(r)
  PROVE  DataOK'
<1>1. synchronizedChunks' \in [Ranks -> SUBSET Chunks]
  BY DEF Finish, DataOK, ResultsOK
<1>2. QED BY <1>1 DEF Finish, DataOK, ListsOK, ResultsOK, lists

LEMMA TransferType ==
  ASSUME DataOK, NEW a \in Ranks, NEW b \in Ranks, Transfer(a, b)
  PROVE  DataOK'
<1>1. /\ comm[a] \in [to : Ranks \cup {Nobody}, tensor : Tensor, from : Ranks \cup {Nobody},
                      box : {"in", "grad", "drop"}, chunk : Chunks]
      /\ comm[b] \in [to : Ranks \cup {Nobody}, tensor : Tensor, from : Ranks \cup {Nobody},
                      box : {"in", "grad", "drop"}, chunk : Chunks]
  BY DEF DataOK, ListsOK, Comms
<1>2. comm' \in Comms
  <2> SUFFICES ASSUME NEW r \in Ranks
               PROVE  [comm[r] EXCEPT !.to     = IF r = a THEN Nobody ELSE @,
                                      !.tensor = IF r = a THEN None ELSE @,
                                      !.from   = IF r = b THEN Nobody ELSE @]
                        \in [to : Ranks \cup {Nobody}, tensor : Tensor,
                            from : Ranks \cup {Nobody},
                            box : {"in", "grad", "drop"}, chunk : Chunks]
    BY DEF Transfer, Comms
  <2>1. comm[r] \in [to : Ranks \cup {Nobody}, tensor : Tensor, from : Ranks \cup {Nobody},
                     box : {"in", "grad", "drop"}, chunk : Chunks]
    BY DEF DataOK, ListsOK, Comms
  <2>2. QED BY <2>1, NoneType
<1>3. <<comm[a].tensor>> \in Seq(Tensor)
  BY <1>1, ShortSequences
<1>4. inputTensors' \in Lists /\ outputTensorGrads' \in Lists
  BY <1>1, <1>3, AddType DEF Transfer, DataOK, ListsOK
<1>5. QED BY <1>2, <1>4 DEF Transfer, DataOK, ListsOK, ResultsOK, results

\* The state of the schedule has its type: in particular no loop body reads a
\* place outside of the two orders, and what is received goes to a chunk's list.
THEOREM TypeCorrect == Spec => []TypeOK
<1>1. Init => DataOK
  <2> SUFFICES ASSUME Init PROVE DataOK
    OBVIOUS
  <2>1. << >> \in Seq(Tensor) /\ << >> \in Seq(Nat \X Nat) /\ 0 \in Chunks
    BY DEF Chunks
  <2>2. ListsOK
    BY <2>1, NoneType DEF Init, ListsOK, Lists, Comms
  <2>3. ResultsOK
    BY <2>1 DEF Init, ResultsOK
  <2>4. QED BY <2>2, <2>3 DEF DataOK
<1>2. GoodCounters /\ MarkerInv /\ DataOK /\ [Next]_vars => DataOK'
  <2> SUFFICES ASSUME GoodCounters, MarkerInv, DataOK, [Next]_vars PROVE DataOK'
    OBVIOUS
  <2>1. ASSUME NEW r \in Ranks, DeviceStep(r) PROVE DataOK'
    <3>1. synced \in [Ranks -> 0 .. 2]
      BY DEF MarkerInv
    <3>2. QED
      BY <2>1, <3>1, InitialRecvType, WarmupType, WarmupAgainType, ForwardPassType,
         BackwardPassType, CooldownBackwardType, FinalBackwardType, AllReduceGradientsType,
         LeaveSyncType, FinishType DEF DeviceStep
  <2>2. ASSUME NEW a \in Ranks, NEW b \in Ranks, Transfer(a, b) PROVE DataOK'
    BY <2>2, TransferType
  <2>3. CASE Terminated \/ UNCHANGED vars
    BY <2>3 DEF Terminated, vars, DataOK, ListsOK, ResultsOK, lists, results
  <2>4. QED BY <2>1, <2>2, <2>3 DEF Next
<1>3. GoodCounters /\ MarkerInv /\ DataOK => TypeOK
  BY DEF GoodCounters, GoodPlace, MarkerInv, DataOK, ListsOK, ResultsOK, Lists, Comms, TypeOK
<1>4. QED BY <1>1, <1>2, <1>3, CountersGood, MarkersCounted, PTL DEF Spec


----
(***************************************************************************)
(* Where a device is: how many forward passes, and how many places of the  *)
(* backward order, are behind it at place p of its program.                *)
(***************************************************************************)
FDone(r, p) ==
  LET base == p.loop * 2 * P
      w == NumWarmupMicrobatches(r)
      u == UnitRemaining(r)
  IN  CASE p.phase = "recv"               -> 0
        [] p.phase = "warmup"             -> p.k
        [] p.phase \in {"mid1", "last"}   -> base + w + ((p.k + 1) \div 2)
        [] p.phase = "mid2"               -> base + 2 * P
        [] p.phase = "mid3"               -> base + 2 * P + ((p.k + 1) \div 2)
        [] p.phase = "mid4"               -> base + 2 * P + u - 1 + p.k
        [] OTHER                          -> 2 * N

BDone(r, p) ==
  LET base == p.loop * 2 * P
      w == NumWarmupMicrobatches(r)
      u == UnitRemaining(r)
  IN  CASE p.phase \in {"recv", "warmup"}     -> 0
        [] p.phase \in {"mid1", "last"}       -> base + (p.k \div 2)
        [] p.phase \in {"mid2", "cooldown"}   -> base + u + p.k
        [] p.phase = "mid3"                   -> base + w + 1 + (p.k \div 2)
        [] p.phase = "mid4"                   -> base + 2 * P
        [] OTHER                              -> IF ForwardOnly THEN 0 ELSE 2 * N + 2

\* A forward pass comes next, or the next place of the backward order: a pass or a marker.
ForwardAt(p) ==
  \/ p.phase \in {"warmup", "mid4"}
  \/ p.phase \in {"mid1", "mid3", "last"} /\ p.k % 2 = 0

TurnAt(p) ==
  \/ p.phase \in {"mid2", "cooldown"}
  \/ p.phase \in {"mid1", "mid3", "last"} /\ p.k % 2 = 1

\* The passes of chunk c behind the device at place p.
Forwards(r, c, p)  == ForwardDone(r, c, FDone(r, p))
Backwards(r, c, p) == BackwardDone(r, c, BDone(r, p))

\* The sizes of the phases in terms of those of a block.
LEMMA Sizes ==
  ASSUME NEW r \in Ranks
  PROVE  /\ UnitRemaining(r) = NumInitial(r)
         /\ NumWarmupMicrobatches(r) = 4 * Half - NumInitial(r)
         /\ NumInitial(r) \in 1 .. Half
         /\ Half \in Nat /\ Half >= 2 /\ P = 2 * Half
BY HalfFacts DEF UnitRemaining, NumWarmupMicrobatches, NumInitial, Ranks

LEMMA PlaceDone ==
  ASSUME NEW r \in Ranks, NEW p, GoodPlace(r, p)
  PROVE  /\ FDone(r, p) \in 0 .. 2 * N
         /\ BDone(r, p) \in 0 .. 2 * N + 2
         /\ ForwardAt(p) => ForwardK(r, p) = FDone(r, p) /\ FDone(r, p) < 2 * N
         /\ TurnAt(p) => BackwardK(r, p) = BDone(r, p) /\ BDone(r, p) < 2 * N + 2
<1> DEFINE base == p.loop * 2 * P
           w == NumWarmupMicrobatches(r)
           u == UnitRemaining(r)
<1>1. /\ base \in Nat /\ p.k \in Nat
      /\ p.phase \in {"mid1", "mid2", "mid3", "mid4"} => base + 4 * P <= 2 * N
      /\ p.phase \in {"last", "cooldown"} => base + 2 * P = 2 * N
  BY PlaceBounds
<1>2. w \in P + Half .. 2 * P - 1 /\ u = 2 * P - w /\ u \in 1 .. Half
  BY WarmupFacts
<1>3. p.k < PhaseLength(r, p.phase) /\ p.phase \in Phases
  BY DEF GoodPlace, PC
<1>4. N \in Nat /\ P \in Nat /\ Half \in Nat /\ P = 2 * Half /\ P <= N
  BY HalfFacts, UnitFacts
<1>5. CASE p.phase \in {"recv", "finish", "done"}
  <2>1. /\ FDone(r, p) \in {0, 2 * N} /\ BDone(r, p) \in {0, 2 * N + 2}
        /\ ~ForwardAt(p) /\ ~TurnAt(p)
    BY <1>5 DEF FDone, BDone, ForwardAt, TurnAt
  <2>2. QED BY <1>4, <2>1
<1>6. CASE p.phase = "warmup"
  <2>1. /\ FDone(r, p) = p.k /\ BDone(r, p) = 0 /\ ForwardK(r, p) = p.k /\ ~TurnAt(p)
        /\ PhaseLength(r, p.phase) \in {2 * N, w}
    BY <1>6 DEF FDone, BDone, TurnAt, ForwardK, PhaseLength, TotalNumMicrobatches
  <2> HIDE DEF base, w, u
  <2>2. QED BY <1>1, <1>2, <1>3, <1>4, <2>1
<1>7. CASE p.phase \in {"mid1", "last"}
  <2>1. /\ FDone(r, p) = base + w + ((p.k + 1) \div 2) /\ BDone(r, p) = base + (p.k \div 2)
        /\ ForwardK(r, p) = base + w + (p.k \div 2) /\ BackwardK(r, p) = base + (p.k \div 2)
        /\ ForwardAt(p) <=> p.k % 2 = 0
        /\ PhaseLength(r, p.phase) = 2 * u
    BY <1>7 DEF FDone, BDone, ForwardAt, ForwardK, BackwardK, PhaseLength
  <2>2. /\ p.k \div 2 \in 0 .. u - 1 /\ (p.k + 1) \div 2 \in 0 .. u
        /\ p.k % 2 = 0 => (p.k + 1) \div 2 = p.k \div 2
    BY <1>1, <1>2, <1>3, <1>4, <2>1
  <2> HIDE DEF base, w, u
  <2>3. QED BY <1>1, <1>2, <1>4, <1>7, <2>1, <2>2
<1>8. CASE p.phase = "mid2"
  <2>1. /\ FDone(r, p) = base + 2 * P /\ BDone(r, p) = base + u + p.k
        /\ BackwardK(r, p) = base + u + p.k
        /\ ~ForwardAt(p)
        /\ PhaseLength(r, p.phase) = w - u + 1
    BY <1>8 DEF FDone, BDone, ForwardAt, BackwardK, PhaseLength
  <2> HIDE DEF base, w, u
  <2>2. QED BY <1>1, <1>2, <1>3, <1>4, <1>8, <2>1
<1>9. CASE p.phase = "mid3"
  <2>1. /\ FDone(r, p) = base + 2 * P + ((p.k + 1) \div 2)
        /\ BDone(r, p) = base + w + 1 + (p.k \div 2)
        /\ ForwardK(r, p) = base + 2 * P + (p.k \div 2)
        /\ BackwardK(r, p) = base + w + 1 + (p.k \div 2)
        /\ ForwardAt(p) <=> p.k % 2 = 0
        /\ PhaseLength(r, p.phase) = 2 * (u - 1)
    BY <1>9 DEF FDone, BDone, ForwardAt, ForwardK, BackwardK, PhaseLength
  <2>2. /\ p.k \div 2 \in 0 .. u - 2 /\ (p.k + 1) \div 2 \in 0 .. u - 1
        /\ p.k % 2 = 0 => (p.k + 1) \div 2 = p.k \div 2
    BY <1>1, <1>2, <1>3, <1>4, <2>1
  <2> HIDE DEF base, w, u
  <2>3. QED BY <1>1, <1>2, <1>4, <1>9, <2>1, <2>2
<1>10. CASE p.phase = "mid4"
  <2>1. /\ FDone(r, p) = base + 2 * P + u - 1 + p.k /\ BDone(r, p) = base + 2 * P
        /\ ForwardK(r, p) = base + 2 * P + u - 1 + p.k
        /\ ~TurnAt(p)
        /\ PhaseLength(r, p.phase) = w - u + 1
    BY <1>10 DEF FDone, BDone, TurnAt, ForwardK, PhaseLength
  <2> HIDE DEF base, w, u
  <2>2. QED BY <1>1, <1>2, <1>3, <1>4, <1>10, <2>1
<1>11. CASE p.phase = "cooldown"
  <2>1. /\ FDone(r, p) = 2 * N /\ BDone(r, p) = base + u + p.k
        /\ BackwardK(r, p) = base + u + p.k
        /\ ~ForwardAt(p)
        /\ PhaseLength(r, p.phase) = 2 * P - u + 2
    BY <1>11 DEF FDone, BDone, ForwardAt, BackwardK, PhaseLength
  <2> HIDE DEF base, w, u
  <2>2. QED BY <1>1, <1>2, <1>3, <1>4, <1>11, <2>1
<1>12. QED BY <1>3, <1>5, <1>6, <1>7, <1>8, <1>9, <1>10, <1>11 DEF Phases

\* One place further: one pass more, of the kind that comes next.
LEMMA NextDone ==
  ASSUME NEW r \in Ranks, NEW p, GoodPlace(r, p)
  PROVE  /\ FDone(r, NextPlace(r, p)) = FDone(r, p) + (IF ForwardAt(p) THEN 1 ELSE 0)
         /\ BDone(r, NextPlace(r, p)) = BDone(r, p) + (IF TurnAt(p) THEN 1 ELSE 0)
<1> DEFINE base == p.loop * 2 * P
           w == NumWarmupMicrobatches(r)
           u == UnitRemaining(r)
           next == NextPlace(r, p)
           inside == [p EXCEPT !.k = @ + 1]
<1>1. /\ base \in Nat /\ p.k \in Nat
      /\ p.phase \in {"mid1", "mid2", "mid3", "mid4"} => base + 4 * P <= 2 * N
      /\ p.phase \in {"last", "cooldown"} => base + 2 * P = 2 * N
  BY PlaceBounds
<1>2. w \in P + Half .. 2 * P - 1 /\ u = 2 * P - w /\ u \in 1 .. Half
  BY WarmupFacts
<1>3. p.k < PhaseLength(r, p.phase) /\ p.phase \in Phases /\ p.loop \in Nat
  BY UnitFacts DEF GoodPlace, PC
<1>4. N \in Nat /\ P \in Nat /\ Half \in Nat /\ P = 2 * Half /\ P <= N
  BY HalfFacts, UnitFacts
<1>5. /\ inside.phase = p.phase /\ inside.loop = p.loop /\ inside.k = p.k + 1
      /\ \/ next = inside /\ p.k + 1 < PhaseLength(r, p.phase)
         \/ next = NextPhase(r, p) /\ p.k + 1 = PhaseLength(r, p.phase)
  <2>1. PhaseLength(r, p.phase) \in Nat
    BY <1>3, PhaseLengths DEF GoodPlace
  <2>2. inside.phase = p.phase /\ inside.loop = p.loop /\ inside.k = p.k + 1
    BY DEF GoodPlace, PC
  <2> HIDE DEF inside
  <2>3. p.k + 1 < PhaseLength(r, p.phase) => next = inside
    BY DEF NextPlace, inside
  <2>4. ~(p.k + 1 < PhaseLength(r, p.phase)) => next = NextPhase(r, p)
    BY DEF NextPlace
  <2>5. ~(p.k + 1 < PhaseLength(r, p.phase)) => p.k + 1 = PhaseLength(r, p.phase)
    BY <1>1, <1>3, <2>1
  <2>6. QED BY <2>2, <2>3, <2>4, <2>5
<1>6. \A phase, loop : At(phase, loop).phase = phase /\ At(phase, loop).loop = loop /\ At(phase, loop).k = 0
  BY DEF At
<1>7. ASSUME NEW loop \in 0 .. NLoop
      PROVE  /\ LoopOrLast(loop).phase \in {"mid1", "last"}
             /\ LoopOrLast(loop).loop = loop /\ LoopOrLast(loop).k = 0
  BY <1>6, UnitFacts DEF LoopOrLast
<1>8. CASE p.phase \in {"recv", "finish", "done"}
  <2>1. next.phase = (IF p.phase = "recv" THEN "warmup" ELSE "done") /\ next.k = 0
    <3>1. PhaseLength(r, p.phase) = 1
      BY <1>8 DEF PhaseLength
    <3>2. p.k + 1 = 1 /\ next = NextPhase(r, p)
      BY <1>1, <1>3, <1>5, <3>1
    <3>3. QED BY <1>6, <1>8, <3>2 DEF NextPhase
  <2> HIDE DEF base, w, u, next, inside
  <2>2. QED BY <1>4, <1>8, <2>1 DEF FDone, BDone, ForwardAt, TurnAt, next
<1>9. CASE p.phase = "warmup"
  <2>1. /\ FDone(r, p) = p.k /\ BDone(r, p) = 0 /\ ForwardAt(p) /\ ~TurnAt(p)
        /\ PhaseLength(r, p.phase) = IF ForwardOnly THEN 2 * N ELSE w
    BY <1>9 DEF FDone, BDone, ForwardAt, TurnAt, PhaseLength, TotalNumMicrobatches
  <2>2. CASE next = inside
    BY <1>1, <1>5, <1>9, <2>1, <2>2 DEF FDone, BDone
  <2>3. CASE next = NextPhase(r, p) /\ p.k + 1 = PhaseLength(r, p.phase) /\ ForwardOnly
    <3>1. next.phase = "finish"
      BY <1>6, <1>9, <2>3 DEF NextPhase
    <3>2. FDone(r, next) = 2 * N /\ BDone(r, next) = 0
      BY <2>3, <3>1 DEF FDone, BDone
    <3>3. QED BY <2>1, <2>3, <3>2
  <2>4. CASE next = NextPhase(r, p) /\ p.k + 1 = PhaseLength(r, p.phase) /\ ~ForwardOnly
    <3>1. next.phase \in {"mid1", "last"} /\ next.loop = 0 /\ next.k = 0
      <4>1. 0 \in 0 .. NLoop
        BY UnitFacts
      <4>2. next = LoopOrLast(0)
        BY <1>9, <2>4 DEF NextPhase
      <4>3. QED BY <1>7, <4>1, <4>2
    <3>2. FDone(r, next) = 0 * 2 * P + w + ((0 + 1) \div 2) /\ BDone(r, next) = 0 * 2 * P + (0 \div 2)
      BY <3>1 DEF FDone, BDone
    <3>3. 0 * 2 * P = 0 /\ (0 + 1) \div 2 = 0 /\ 0 \div 2 = 0
      BY <1>4
    <3> HIDE DEF w
    <3>4. QED BY <1>2, <1>4, <2>1, <2>4, <3>2, <3>3
  <2>5. QED BY <1>5, <2>2, <2>3, <2>4
<1>10. CASE p.phase \in {"mid1", "last"}
  <2>1. /\ FDone(r, p) = base + w + ((p.k + 1) \div 2) /\ BDone(r, p) = base + (p.k \div 2)
        /\ ForwardAt(p) <=> p.k % 2 = 0
        /\ TurnAt(p) <=> p.k % 2 = 1
        /\ PhaseLength(r, p.phase) = 2 * u
    BY <1>10 DEF FDone, BDone, ForwardAt, TurnAt, PhaseLength
  <2>2. CASE next = inside
    <3>1. FDone(r, next) = base + w + ((p.k + 1 + 1) \div 2) /\ BDone(r, next) = base + ((p.k + 1) \div 2)
      BY <1>5, <1>10, <2>2 DEF FDone, BDone
    <3>2. /\ p.k % 2 \in {0, 1}
          /\ p.k % 2 = 0 => (p.k + 1 + 1) \div 2 = ((p.k + 1) \div 2) + 1 /\ (p.k + 1) \div 2 = p.k \div 2
          /\ p.k % 2 = 1 => (p.k + 1 + 1) \div 2 = (p.k + 1) \div 2 /\ (p.k + 1) \div 2 = (p.k \div 2) + 1
          /\ (p.k + 1) \div 2 \in Nat /\ p.k \div 2 \in Nat
      BY <1>1
    <3> HIDE DEF base, w, u, next, inside
    <3>3. QED BY <1>1, <1>2, <1>4, <2>1, <3>1, <3>2 DEF next
  <2>3. CASE next = NextPhase(r, p) /\ p.k + 1 = PhaseLength(r, p.phase)
    <3>1. next.phase \in {"mid2", "cooldown"} /\ next.loop = p.loop /\ next.k = 0
          /\ (next.phase = "cooldown" <=> p.phase = "last")
      BY <1>6, <1>10, <2>3 DEF NextPhase, GoodPlace
    <3>2. /\ FDone(r, next) = IF p.phase = "last" THEN 2 * N ELSE base + 2 * P
          /\ BDone(r, next) = base + u + 0
      BY <1>10, <3>1 DEF FDone, BDone
    <3>3. p.k + 1 = 2 * u
      BY <2>1, <2>3
    <3> HIDE DEF base, w, u, next, inside
    <3>4. p.k % 2 = 1 /\ p.k \div 2 = u - 1 /\ (p.k + 1) \div 2 = u
      <4>1. p.k = 2 * u - 1 /\ u \in Nat /\ u >= 1
        BY <1>1, <1>2, <1>4, <3>3
      <4>2. QED BY <4>1
    <3>5. QED BY <1>1, <1>2, <1>4, <1>10, <2>1, <3>2, <3>4 DEF next
  <2>4. QED BY <1>5, <2>2, <2>3
<1>11. CASE p.phase = "mid2"
  <2>1. /\ FDone(r, p) = base + 2 * P /\ BDone(r, p) = base + u + p.k /\ ~ForwardAt(p) /\ TurnAt(p)
        /\ PhaseLength(r, p.phase) = w - u + 1
    BY <1>11 DEF FDone, BDone, ForwardAt, TurnAt, PhaseLength
  <2>2. CASE next = inside
    <3>1. FDone(r, next) = base + 2 * P /\ BDone(r, next) = base + u + (p.k + 1)
      BY <1>5, <1>11, <2>2 DEF FDone, BDone
    <3> HIDE DEF base, w, u, next, inside
    <3>2. QED BY <1>1, <1>2, <1>4, <2>1, <3>1 DEF next
  <2>3. CASE next = NextPhase(r, p) /\ p.k + 1 = PhaseLength(r, p.phase)
    <3>1. /\ next.phase = (IF u > 1 THEN "mid3" ELSE "mid4") /\ next.loop = p.loop /\ next.k = 0
      BY <1>6, <1>11, <2>3 DEF NextPhase
    <3>2. CASE u > 1
      <4>1. FDone(r, next) = base + 2 * P + ((0 + 1) \div 2) /\ BDone(r, next) = base + w + 1 + (0 \div 2)
        BY <3>1, <3>2 DEF FDone, BDone
      <4>2. (0 + 1) \div 2 = 0 /\ 0 \div 2 = 0
        OBVIOUS
      <4> HIDE DEF base, w, u, next, inside
      <4>3. QED BY <1>1, <1>2, <1>4, <2>1, <2>3, <4>1, <4>2 DEF next
    <3>3. CASE ~(u > 1)
      <4>1. FDone(r, next) = base + 2 * P + u - 1 + 0 /\ BDone(r, next) = base + 2 * P
        BY <3>1, <3>3 DEF FDone, BDone
      <4> HIDE DEF base, w, u, next, inside
      <4>2. QED BY <1>1, <1>2, <1>4, <2>1, <2>3, <3>3, <4>1 DEF next
    <3>4. QED BY <3>2, <3>3
  <2>4. QED BY <1>5, <2>2, <2>3
<1>12. CASE p.phase = "mid3"
  <2>1. /\ FDone(r, p) = base + 2 * P + ((p.k + 1) \div 2)
        /\ BDone(r, p) = base + w + 1 + (p.k \div 2)
        /\ ForwardAt(p) <=> p.k % 2 = 0
        /\ TurnAt(p) <=> p.k % 2 = 1
        /\ PhaseLength(r, p.phase) = 2 * (u - 1)
    BY <1>12 DEF FDone, BDone, ForwardAt, TurnAt, PhaseLength
  <2>2. CASE next = inside
    <3>1. /\ FDone(r, next) = base + 2 * P + ((p.k + 1 + 1) \div 2)
          /\ BDone(r, next) = base + w + 1 + ((p.k + 1) \div 2)
      BY <1>5, <1>12, <2>2 DEF FDone, BDone
    <3>2. /\ p.k % 2 \in {0, 1}
          /\ p.k % 2 = 0 => (p.k + 1 + 1) \div 2 = ((p.k + 1) \div 2) + 1 /\ (p.k + 1) \div 2 = p.k \div 2
          /\ p.k % 2 = 1 => (p.k + 1 + 1) \div 2 = (p.k + 1) \div 2 /\ (p.k + 1) \div 2 = (p.k \div 2) + 1
          /\ (p.k + 1) \div 2 \in Nat /\ p.k \div 2 \in Nat
      BY <1>1
    <3> HIDE DEF base, w, u, next, inside
    <3>3. QED BY <1>1, <1>2, <1>4, <2>1, <3>1, <3>2 DEF next
  <2>3. CASE next = NextPhase(r, p) /\ p.k + 1 = PhaseLength(r, p.phase)
    <3>1. next.phase = "mid4" /\ next.loop = p.loop /\ next.k = 0
      BY <1>6, <1>12, <2>3 DEF NextPhase
    <3>2. FDone(r, next) = base + 2 * P + u - 1 + 0 /\ BDone(r, next) = base + 2 * P
      BY <3>1 DEF FDone, BDone
    <3>3. p.k % 2 = 1 /\ p.k \div 2 = u - 2 /\ (p.k + 1) \div 2 = u - 1
      BY <1>1, <1>2, <1>4, <2>1, <2>3
    <3> HIDE DEF base, w, u, next, inside
    <3>4. QED BY <1>1, <1>2, <1>4, <2>1, <3>2, <3>3 DEF next
  <2>4. QED BY <1>5, <2>2, <2>3
<1>13. CASE p.phase = "mid4"
  <2>1. /\ FDone(r, p) = base + 2 * P + u - 1 + p.k /\ BDone(r, p) = base + 2 * P
        /\ ForwardAt(p) /\ ~TurnAt(p)
        /\ PhaseLength(r, p.phase) = w - u + 1
    BY <1>13 DEF FDone, BDone, ForwardAt, TurnAt, PhaseLength
  <2>2. CASE next = inside
    <3>1. FDone(r, next) = base + 2 * P + u - 1 + (p.k + 1) /\ BDone(r, next) = base + 2 * P
      BY <1>5, <1>13, <2>2 DEF FDone, BDone
    <3> HIDE DEF base, w, u, next, inside
    <3>2. QED BY <1>1, <1>2, <1>4, <2>1, <3>1 DEF next
  <2>3. CASE next = NextPhase(r, p) /\ p.k + 1 = PhaseLength(r, p.phase)
    <3>1. next.phase \in {"mid1", "last"} /\ next.loop = p.loop + 1 /\ next.k = 0
      <4>1. p.loop + 1 \in 0 .. NLoop
        BY <1>3, <1>13, UnitFacts DEF GoodPlace
      <4>2. next = LoopOrLast(p.loop + 1)
        BY <1>13, <2>3 DEF NextPhase
      <4>3. QED BY <1>7, <4>1, <4>2
    <3>2. /\ FDone(r, next) = (p.loop + 1) * 2 * P + w + ((0 + 1) \div 2)
          /\ BDone(r, next) = (p.loop + 1) * 2 * P + (0 \div 2)
      BY <3>1 DEF FDone, BDone
    <3>3. (p.loop + 1) * 2 * P = base + 2 * P /\ (0 + 1) \div 2 = 0 /\ 0 \div 2 = 0
      BY <1>3, <1>4
    <3> HIDE DEF base, w, u, next, inside
    <3>4. QED BY <1>1, <1>2, <1>4, <2>1, <2>3, <3>2, <3>3 DEF next
  <2>4. QED BY <1>5, <2>2, <2>3
<1>14. CASE p.phase = "cooldown"
  <2>1. /\ FDone(r, p) = 2 * N /\ BDone(r, p) = base + u + p.k /\ ~ForwardAt(p) /\ TurnAt(p)
        /\ PhaseLength(r, p.phase) = 2 * P - u + 2
    BY <1>14 DEF FDone, BDone, ForwardAt, TurnAt, PhaseLength
  <2>2. CASE next = inside
    <3>1. FDone(r, next) = 2 * N /\ BDone(r, next) = base + u + (p.k + 1)
      BY <1>5, <1>14, <2>2 DEF FDone, BDone
    <3> HIDE DEF base, w, u, next, inside
    <3>2. QED BY <1>1, <1>2, <1>4, <2>1, <3>1 DEF next
  <2>3. CASE next = NextPhase(r, p) /\ p.k + 1 = PhaseLength(r, p.phase)
    <3>1. next.phase = "finish" /\ ~ForwardOnly
      BY <1>6, <1>14, <2>3 DEF NextPhase, GoodPlace
    <3>2. FDone(r, next) = 2 * N /\ BDone(r, next) = 2 * N + 2
      BY <3>1 DEF FDone, BDone
    <3> HIDE DEF base, w, u, next, inside
    <3>3. QED BY <1>1, <1>2, <1>4, <1>14, <2>1, <2>3, <3>2 DEF next
  <2>4. QED BY <1>5, <2>2, <2>3
<1>15. QED BY <1>3, <1>8, <1>9, <1>10, <1>11, <1>12, <1>13, <1>14 DEF Phases

----
(***************************************************************************)
(* The passes of each chunk, counted.                                      *)
(***************************************************************************)
ForwardOf(r, c, p)  == ForwardAt(p) /\ ForwardChunk(r, ForwardK(r, p)) = c
BackwardOf(r, c, p) == TurnAt(p) /\ BackwardChunk(r, BackwardK(r, p)) = c

LEMMA CountsNext ==
  ASSUME NEW r \in Ranks, NEW p, GoodPlace(r, p), NEW c \in Chunks
  PROVE  /\ Forwards(r, c, p) \in Nat
         /\ Backwards(r, c, p) \in Nat
         /\ Forwards(r, c, NextPlace(r, p)) = Forwards(r, c, p) + (IF ForwardOf(r, c, p) THEN 1 ELSE 0)
         /\ Backwards(r, c, NextPlace(r, p)) = Backwards(r, c, p) + (IF BackwardOf(r, c, p) THEN 1 ELSE 0)
<1> DEFINE f == FDone(r, p)
           b == BDone(r, p)
<1>1. /\ f \in 0 .. 2 * N /\ b \in 0 .. 2 * N + 2
      /\ ForwardAt(p) => ForwardK(r, p) = f /\ f < 2 * N
      /\ TurnAt(p) => BackwardK(r, p) = b /\ b < 2 * N + 2
  BY PlaceDone
<1>2. /\ FDone(r, NextPlace(r, p)) = f + (IF ForwardAt(p) THEN 1 ELSE 0)
      /\ BDone(r, NextPlace(r, p)) = b + (IF TurnAt(p) THEN 1 ELSE 0)
  BY NextDone
<1>3. N \in Nat /\ N \div 2 \in Nat
  BY UnitFacts
<1>4. Forwards(r, c, p) = ForwardDone(r, c, f) /\ Backwards(r, c, p) = BackwardDone(r, c, b)
  BY DEF Forwards, Backwards
<1> HIDE DEF f, b
<1>5. ForwardDone(r, c, f) \in Nat
  <2>1. CASE f = 2 * N
    BY <1>3, <2>1, ForwardOrder
  <2>2. CASE f # 2 * N
    <3>1. f \in 0 .. 2 * N - 1
      BY <1>1, <1>3, <2>2
    <3>2. QED BY <3>1, ForwardOrder
  <2>3. QED BY <2>1, <2>2
<1>6. BackwardDone(r, c, b) \in Nat
  <2>1. CASE b = 2 * N + 2
    BY <1>3, <2>1, BackwardOrder
  <2>2. CASE b # 2 * N + 2
    <3>1. b \in 0 .. 2 * N + 1
      BY <1>1, <1>3, <2>2
    <3>2. QED BY <3>1, BackwardOrder
  <2>3. QED BY <2>1, <2>2
<1>7. Forwards(r, c, NextPlace(r, p)) = ForwardDone(r, c, f) + (IF ForwardOf(r, c, p) THEN 1 ELSE 0)
  <2>1. CASE ForwardAt(p)
    <3>1. f \in 0 .. 2 * N - 1 /\ FDone(r, NextPlace(r, p)) = f + 1 /\ ForwardK(r, p) = f
      BY <1>1, <1>2, <1>3, <2>1
    <3>2. ForwardDone(r, c, f + 1) = ForwardDone(r, c, f) + (IF c = ForwardChunk(r, f) THEN 1 ELSE 0)
      BY <3>1, ForwardOrder
    <3>3. QED BY <2>1, <3>1, <3>2 DEF Forwards, ForwardOf
  <2>2. CASE ~ForwardAt(p)
    <3>1. FDone(r, NextPlace(r, p)) = f
      BY <1>1, <1>2, <2>2
    <3>2. QED BY <1>5, <2>2, <3>1 DEF Forwards, ForwardOf
  <2>3. QED BY <2>1, <2>2
<1>8. Backwards(r, c, NextPlace(r, p)) = BackwardDone(r, c, b) + (IF BackwardOf(r, c, p) THEN 1 ELSE 0)
  <2>1. CASE TurnAt(p)
    <3>1. b \in 0 .. 2 * N + 1 /\ BDone(r, NextPlace(r, p)) = b + 1 /\ BackwardK(r, p) = b
      BY <1>1, <1>2, <1>3, <2>1
    <3>2. BackwardDone(r, c, b + 1) = BackwardDone(r, c, b) + (IF c = BackwardChunk(r, b) THEN 1 ELSE 0)
      BY <3>1, BackwardOrder
    <3>3. QED BY <2>1, <3>1, <3>2 DEF Backwards, BackwardOf
  <2>2. CASE ~TurnAt(p)
    <3>1. BDone(r, NextPlace(r, p)) = b
      BY <1>1, <1>2, <2>2
    <3>2. QED BY <1>6, <2>2, <3>1 DEF Backwards, BackwardOf
  <2>3. QED BY <2>1, <2>2
<1>9. QED BY <1>4, <1>5, <1>6, <1>7, <1>8

(***************************************************************************)
(* A step of a device is a forward pass, a backward pass or neither.       *)
(***************************************************************************)
ForwardKind(r, c) ==
  /\ ForwardAt(pc[r]) /\ c = ForwardChunk(r, FK(r)) /\ c \in Chunks
  /\ ForwardStepHelper(r, c)
  /\ Step(r)

BackwardKind(r, c) ==
  /\ TurnAt(pc[r]) /\ c = BackwardChunk(r, BK(r)) /\ c \in Chunks
  /\ \E v \in Chunks : BackwardStepHelper(r, c, v, BkMicrobatchIdx[r][BK(r)])
  /\ Step(r)

OtherKind(r) ==
  /\ ~ForwardAt(pc[r])
  /\ TurnAt(pc[r]) => BackwardChunk(r, BK(r)) = Sync
  /\ UNCHANGED <<outputTensors, fed>>
  /\ \/ UNCHANGED synchronizedChunks
     \/ /\ pc[r].phase = "finish"
        /\ \E s : synchronizedChunks' = [synchronizedChunks EXCEPT ![r] = s]
  /\ Step(r)

StandStill == UNCHANGED <<pc, outputTensors, fed, synchronizedChunks>>

LEMMA PassChunks ==
  ASSUME NEW r \in Ranks, NEW p, GoodPlace(r, p)
  PROVE  /\ ForwardAt(p) => ForwardChunk(r, ForwardK(r, p)) \in Chunks
         /\ TurnAt(p) => BackwardChunk(r, BackwardK(r, p)) \in Chunks \cup {Sync}
<1>1. ForwardAt(p) => ForwardK(r, p) \in 0 .. 2 * N - 1
  BY PlaceDone, UnitFacts
<1>2. TurnAt(p) => BackwardK(r, p) \in 0 .. 2 * N + 1
  BY PlaceDone, UnitFacts
<1>3. QED BY <1>1, <1>2, ForwardChunkType, MarkerPlaces

LEMMA DeviceKinds ==
  ASSUME GoodCounters, DataOK, NEW r \in Ranks, DeviceStep(r)
  PROVE  StandStill \/ OtherKind(r) \/ \E c \in Chunks : ForwardKind(r, c) \/ BackwardKind(r, c)
<1>1. GoodPlace(r, pc[r]) /\ vrank[r] \in Chunks
  BY DEF GoodCounters, DataOK, ResultsOK
<1>2. /\ ForwardAt(pc[r]) => ForwardChunk(r, FK(r)) \in Chunks
      /\ TurnAt(pc[r]) => BackwardChunk(r, BK(r)) \in Chunks \cup {Sync}
  BY <1>1, PassChunks DEF FK, BK
<1>3. ASSUME InitialRecv(r) PROVE OtherKind(r)
  BY <1>3 DEF InitialRecv, InPhase, OtherKind, ForwardAt, TurnAt, results
<1>4. ASSUME Warmup(r) \/ WarmupAgain(r) \/ ForwardPass(r)
      PROVE  \E c \in Chunks : ForwardKind(r, c)
  <2>1. ForwardAt(pc[r])
    BY <1>4 DEF Warmup, WarmupAgain, ForwardPass, InPhase, ForwardAt
  <2>2. ForwardStepHelper(r, ForwardChunk(r, FK(r))) /\ Step(r)
    BY <1>4 DEF Warmup, WarmupAgain, ForwardPass
  <2>3. QED BY <1>2, <2>1, <2>2 DEF ForwardKind
<1>5. ASSUME BackwardPass(r) \/ CooldownBackward(r) \/ FinalBackward(r)
      PROVE  \E c \in Chunks : BackwardKind(r, c)
  <2> DEFINE c == BackwardChunk(r, BK(r))
  <2>1. TurnAt(pc[r])
    BY <1>5 DEF BackwardPass, CooldownBackward, FinalBackward, InPhase, TurnAt
  <2>2. /\ \/ BackwardStepHelper(r, c, c, BkMicrobatchIdx[r][BK(r)])
           \/ BackwardStepHelper(r, c, vrank[r], BkMicrobatchIdx[r][BK(r)])
        /\ Step(r)
    BY <1>5 DEF BackwardPass, CooldownBackward, FinalBackward
  <2>3. c # Sync
    <3>1. CASE FinalBackward(r)
      BY <3>1 DEF FinalBackward
    <3>2. CASE BackwardPass(r) \/ CooldownBackward(r)
      <4>1. pc[r].phase \in {"mid1", "mid2", "mid3", "last"}
        BY <3>2 DEF BackwardPass, CooldownBackward, InPhase
      <4>2. BK(r) \in 0 .. 2 * N - 2
        BY <1>1, <4>1, BackwardPlaces, UnitFacts DEF BK
      <4>3. c \in Chunks
        BY <4>2, EarlyBackwardChunk
      <4>4. QED BY <4>3 DEF Chunks, Sync
    <3>3. QED BY <1>5, <3>1, <3>2
  <2>4. c \in Chunks
    BY <1>2, <2>1, <2>3
  <2>5. QED BY <1>1, <2>1, <2>2, <2>4 DEF BackwardKind
<1>6. ASSUME AllReduceGradients(r) PROVE StandStill
  BY <1>6 DEF AllReduceGradients, StandStill, lists
<1>7. ASSUME LeaveSync(r) PROVE OtherKind(r)
  BY <1>7 DEF LeaveSync, AtSync, InPhase, OtherKind, ForwardAt, results
<1>8. ASSUME Finish(r) PROVE OtherKind(r)
  <2>1. \E s : synchronizedChunks' = [synchronizedChunks EXCEPT ![r] = s]
    <3>1. CASE GradSyncFunc
      BY <1>8, <3>1 DEF Finish
    <3>2. CASE ~GradSyncFunc
      <4>1. synchronizedChunks' = [synchronizedChunks EXCEPT ![r] = synchronizedChunks[r]]
        BY <1>8, <3>2 DEF Finish, DataOK, ResultsOK
      <4>2. QED BY <4>1
    <3>3. QED BY <3>1, <3>2
  <2>2. QED BY <1>8, <2>1 DEF Finish, InPhase, OtherKind, ForwardAt, TurnAt, lists
<1>9. QED BY <1>3, <1>4, <1>5, <1>6, <1>7, <1>8 DEF DeviceStep

LEMMA StepKinds ==
  ASSUME GoodCounters, DataOK, [Next]_vars
  PROVE  \/ StandStill
         \/ \E r \in Ranks : OtherKind(r) \/ \E c \in Chunks : ForwardKind(r, c) \/ BackwardKind(r, c)
<1>1. \A a, b \in Ranks : Transfer(a, b) => StandStill
  BY DEF Transfer, StandStill, results
<1>2. Terminated \/ UNCHANGED vars => StandStill
  BY DEF Terminated, StandStill, vars, lists, results
<1>3. QED BY <1>1, <1>2, DeviceKinds DEF Next

(***************************************************************************)
(* What a device at place p has fed, and how many outputs it keeps, is     *)
(* what its place says.                                                    *)
(***************************************************************************)
CountAt(r, p, feds, outs) ==
  \A c \in Chunks : /\ feds[c] = Forwards(r, c, p)
                    /\ Len(outs[c]) = Forwards(r, c, p) - Backwards(r, c, p)

CountInv == \A r \in Ranks : CountAt(r, pc[r], fed[r], outputTensors[r])

Row == [Chunks -> Seq(Tensor)]

LEMMA CountForward ==
  ASSUME NEW r \in Ranks, NEW p, GoodPlace(r, p), NEW c \in Chunks,
         \A d \in Chunks : (ForwardOf(r, d, p) <=> d = c) /\ ~BackwardOf(r, d, p),
         NEW feds \in [Chunks -> Nat], NEW outs \in Row, NEW t \in Tensor, CountAt(r, p, feds, outs)
  PROVE  CountAt(r, NextPlace(r, p), [feds EXCEPT ![c] = @ + 1], [outs EXCEPT ![c] = @ \o <<t>>])
<1> DEFINE next == NextPlace(r, p)
           feds1 == [feds EXCEPT ![c] = @ + 1]
           outs1 == [outs EXCEPT ![c] = @ \o <<t>>]
<1> SUFFICES ASSUME NEW d \in Chunks
             PROVE  /\ feds1[d] = Forwards(r, d, next)
                    /\ Len(outs1[d]) = Forwards(r, d, next) - Backwards(r, d, next)
  BY DEF CountAt
<1>1. /\ Forwards(r, d, next) = Forwards(r, d, p) + (IF d = c THEN 1 ELSE 0)
      /\ Backwards(r, d, next) = Backwards(r, d, p)
      /\ Forwards(r, d, p) \in Nat /\ Backwards(r, d, p) \in Nat
  BY CountsNext
<1>2. feds[d] = Forwards(r, d, p) /\ Len(outs[d]) = Forwards(r, d, p) - Backwards(r, d, p)
  BY DEF CountAt
<1>3. outs[d] \in Seq(Tensor)
  BY DEF Row
<1> HIDE DEF next
<1>4. CASE d = c
  <2>1. feds1[d] = feds[d] + 1 /\ outs1[d] = outs[d] \o <<t>>
    BY <1>4 DEF Row
  <2>2. Len(outs[d] \o <<t>>) = Len(outs[d]) + 1
    BY <1>3
  <2>3. QED BY <1>1, <1>2, <1>4, <2>1, <2>2
<1>5. CASE d # c
  <2>1. feds1[d] = feds[d] /\ outs1[d] = outs[d]
    BY <1>5 DEF Row
  <2>2. QED BY <1>1, <1>2, <1>5, <2>1
<1>6. QED BY <1>4, <1>5

LEMMA CountBackward ==
  ASSUME NEW r \in Ranks, NEW p, GoodPlace(r, p), NEW c \in Chunks,
         \A d \in Chunks : (BackwardOf(r, d, p) <=> d = c) /\ ~ForwardOf(r, d, p),
         NEW feds, NEW outs \in Row, CountAt(r, p, feds, outs), outs[c] # << >>
  PROVE  CountAt(r, NextPlace(r, p), feds, [outs EXCEPT ![c] = Tail(@)])
<1> DEFINE next == NextPlace(r, p)
           outs1 == [outs EXCEPT ![c] = Tail(@)]
<1> SUFFICES ASSUME NEW d \in Chunks
             PROVE  /\ feds[d] = Forwards(r, d, next)
                    /\ Len(outs1[d]) = Forwards(r, d, next) - Backwards(r, d, next)
  BY DEF CountAt
<1>1. /\ Forwards(r, d, next) = Forwards(r, d, p)
      /\ Backwards(r, d, next) = Backwards(r, d, p) + (IF d = c THEN 1 ELSE 0)
      /\ Forwards(r, d, p) \in Nat /\ Backwards(r, d, p) \in Nat
  BY CountsNext
<1>2. feds[d] = Forwards(r, d, p) /\ Len(outs[d]) = Forwards(r, d, p) - Backwards(r, d, p)
  BY DEF CountAt
<1>3. outs[d] \in Seq(Tensor)
  BY DEF Row
<1> HIDE DEF next
<1>4. CASE d = c
  <2>1. outs1[d] = Tail(outs[d])
    BY <1>4 DEF Row
  <2>2. Len(Tail(outs[d])) = Len(outs[d]) - 1
    BY <1>3, <1>4
  <2>3. Len(outs1[d]) = Len(outs[d]) - 1
    BY <2>1, <2>2
  <2> HIDE DEF outs1
  <2>4. Backwards(r, d, next) = Backwards(r, d, p) + 1
    BY <1>1, <1>4
  <2>5. QED BY <1>1, <1>2, <2>3, <2>4
<1>5. CASE d # c
  <2>1. outs1[d] = outs[d]
    BY <1>5 DEF Row
  <2>2. QED BY <1>1, <1>2, <1>5, <2>1
<1>6. QED BY <1>4, <1>5

LEMMA CountOther ==
  ASSUME NEW r \in Ranks, NEW p, GoodPlace(r, p),
         \A d \in Chunks : ~ForwardOf(r, d, p) /\ ~BackwardOf(r, d, p),
         NEW feds, NEW outs, CountAt(r, p, feds, outs)
  PROVE  CountAt(r, NextPlace(r, p), feds, outs)
<1> SUFFICES ASSUME NEW d \in Chunks
             PROVE  /\ Forwards(r, d, NextPlace(r, p)) = Forwards(r, d, p)
                    /\ Backwards(r, d, NextPlace(r, p)) = Backwards(r, d, p)
  BY DEF CountAt
<1>1. QED BY CountsNext

\* Which pass a step of each kind is.
LEMMA KindPasses ==
  ASSUME NEW r \in Ranks
  PROVE  /\ \A c \in Chunks : ForwardKind(r, c) =>
              \A d \in Chunks : (ForwardOf(r, d, pc[r]) <=> d = c) /\ ~BackwardOf(r, d, pc[r])
         /\ \A c \in Chunks : BackwardKind(r, c) =>
              \A d \in Chunks : (BackwardOf(r, d, pc[r]) <=> d = c) /\ ~ForwardOf(r, d, pc[r])
         /\ OtherKind(r) => \A d \in Chunks : ~ForwardOf(r, d, pc[r]) /\ ~BackwardOf(r, d, pc[r])
<1>1. \A d \in Chunks : d # Sync
  BY DEF Chunks, Sync
<1>2. ~(ForwardAt(pc[r]) /\ TurnAt(pc[r]))
  BY DEF ForwardAt, TurnAt
<1>3. QED BY <1>1, <1>2 DEF ForwardKind, BackwardKind, OtherKind, ForwardOf, BackwardOf, FK, BK

LEMMA CountsKept ==
  ASSUME GoodCounters, DataOK, CountInv, [Next]_vars
  PROVE  CountInv'
<1>1. /\ fed \in [Ranks -> [Chunks -> Nat]] /\ outputTensors \in [Ranks -> Row]
      /\ \A q \in Ranks : GoodPlace(q, pc[q]) /\ CountAt(q, pc[q], fed[q], outputTensors[q])
  BY DEF DataOK, ResultsOK, ListsOK, Lists, Row, GoodCounters, CountInv
<1>2. ASSUME \A q \in Ranks : CountAt(q, pc'[q], fed'[q], outputTensors'[q])
      PROVE  CountInv'
  BY <1>2 DEF CountInv, CountAt, Forwards, Backwards, FDone, BDone
<1>3. CASE StandStill
  BY <1>1, <1>2, <1>3 DEF StandStill
<1>4. ASSUME NEW r \in Ranks, Step(r),
             \A q \in Ranks : q # r => fed'[q] = fed[q] /\ outputTensors'[q] = outputTensors[q],
             CountAt(r, NextPlace(r, pc[r]), fed'[r], outputTensors'[r])
      PROVE  CountInv'
  <2>1. pc'[r] = NextPlace(r, pc[r]) /\ \A q \in Ranks : q # r => pc'[q] = pc[q]
    BY <1>4, StepGood
  <2>2. ASSUME NEW q \in Ranks PROVE CountAt(q, pc'[q], fed'[q], outputTensors'[q])
    BY <1>1, <1>4, <2>1
  <2>3. QED BY <1>2, <2>2
<1>5. ASSUME NEW r \in Ranks, OtherKind(r) PROVE CountInv'
  <2>1. CountAt(r, NextPlace(r, pc[r]), fed[r], outputTensors[r])
    BY <1>1, <1>5, KindPasses, CountOther
  <2>2. QED BY <1>4, <1>5, <2>1 DEF OtherKind
<1>6. ASSUME NEW r \in Ranks, NEW c \in Chunks, ForwardKind(r, c) PROVE CountInv'
  <2> DEFINE t == ForwardOutput(r, c)
  <2>1. t \in Tensor
    BY <1>6, ForwardOutputType DEF ForwardKind, ForwardStepHelper, DataOK
  <2>2. /\ fed' = [fed EXCEPT ![r][c] = @ + 1]
        /\ outputTensors' = [outputTensors EXCEPT ![r][c] = @ \o <<t>>]
    BY <1>6 DEF ForwardKind, ForwardStepHelper, Add
  <2> HIDE DEF t
  <2>3. /\ fed'[r] = [fed[r] EXCEPT ![c] = @ + 1]
        /\ outputTensors'[r] = [outputTensors[r] EXCEPT ![c] = @ \o <<t>>]
        /\ \A q \in Ranks : q # r => fed'[q] = fed[q] /\ outputTensors'[q] = outputTensors[q]
    BY <1>1, <2>2
  <2>4. fed[r] \in [Chunks -> Nat] /\ outputTensors[r] \in Row
    BY <1>1
  <2>5. \A d \in Chunks : (ForwardOf(r, d, pc[r]) <=> d = c) /\ ~BackwardOf(r, d, pc[r])
    BY <1>6, KindPasses
  <2>6. CountAt(r, NextPlace(r, pc[r]), fed'[r], outputTensors'[r])
    <3>1. GoodPlace(r, pc[r]) /\ CountAt(r, pc[r], fed[r], outputTensors[r])
      BY <1>1
    <3>2. CountAt(r, NextPlace(r, pc[r]), [fed[r] EXCEPT ![c] = @ + 1],
                  [outputTensors[r] EXCEPT ![c] = @ \o <<t>>])
      BY <2>1, <2>4, <2>5, <3>1, CountForward
    <3>3. QED BY <2>3, <3>2
  <2>7. QED BY <1>4, <1>6, <2>3, <2>6 DEF ForwardKind
<1>7. ASSUME NEW r \in Ranks, NEW c \in Chunks, BackwardKind(r, c) PROVE CountInv'
  <2>1. /\ UNCHANGED fed /\ outputTensors[r][c] # << >>
        /\ outputTensors' = [outputTensors EXCEPT ![r][c] = Tail(@)]
    BY <1>7 DEF BackwardKind, BackwardStepHelper, OutputsPopped
  <2>2. /\ outputTensors'[r] = [outputTensors[r] EXCEPT ![c] = Tail(@)]
        /\ \A q \in Ranks : q # r => outputTensors'[q] = outputTensors[q]
    BY <1>1, <2>1
  <2>3. outputTensors[r] \in Row
    BY <1>1
  <2>4. \A d \in Chunks : (BackwardOf(r, d, pc[r]) <=> d = c) /\ ~ForwardOf(r, d, pc[r])
    BY <1>7, KindPasses
  <2>5. CountAt(r, NextPlace(r, pc[r]), fed[r], outputTensors'[r])
    BY <1>1, <2>1, <2>2, <2>3, <2>4, CountBackward
  <2>6. QED BY <1>4, <1>7, <2>1, <2>2, <2>5 DEF BackwardKind
<1>8. QED BY <1>3, <1>5, <1>6, <1>7, StepKinds

LEMMA CountsAtStart == Init => CountInv
<1> SUFFICES ASSUME Init, NEW r \in Ranks PROVE CountAt(r, pc[r], fed[r], outputTensors[r])
  BY DEF CountInv
<1>1. /\ pc[r].phase = "recv"
      /\ \A c \in Chunks : fed[r][c] = 0 /\ outputTensors[r][c] = << >>
  BY DEF Init, At
<1>2. FDone(r, pc[r]) = 0 /\ BDone(r, pc[r]) = 0
  BY <1>1 DEF FDone, BDone
<1>3. \A c \in Chunks : Forwards(r, c, pc[r]) = 0 /\ Backwards(r, c, pc[r]) = 0
  BY <1>2, ForwardOrder, BackwardOrder DEF Forwards, Backwards
<1>4. QED BY <1>1, <1>3 DEF CountAt

LEMMA DataKept == Spec => [](GoodCounters /\ DataOK)
<1>1. TypeOK => DataOK
  BY DEF TypeOK, DataOK, ListsOK, ResultsOK, Lists, Comms
<1>2. QED BY <1>1, TypeCorrect, CountersGood, PTL

\* At every moment a device has fed, and keeps outputs of, exactly the passes
\* its place in the program says: no pass is left out or run twice.
THEOREM PassesCounted == Spec => []CountInv
<1>1. GoodCounters /\ DataOK /\ CountInv /\ [Next]_vars => CountInv'
  BY CountsKept
<1>2. QED BY <1>1, CountsAtStart, DataKept, PTL DEF Spec

\* A chunk is handed over for synchronization (by the backward pass of its last
\* microbatch, or at the end of the call) only when all its backward passes
\* are done: no gradient is averaged before it is complete.
THEOREM SynchronizedComplete == Spec => SynchronizedWhenComplete
<1>1. ASSUME GoodCounters, GoodCounters', DataOK, CountInv, CountInv', [Next]_vars
      PROVE  [\A r \in Ranks, c \in Chunks :
                c \in synchronizedChunks'[r] \ synchronizedChunks[r]
                  => Backwarded(r, c)' = IF ForwardOnly THEN 0 ELSE PerPipe]_vars
  <2> SUFFICES ASSUME NEW r \in Ranks, NEW c \in Chunks,
                      c \in synchronizedChunks'[r], c \notin synchronizedChunks[r]
               PROVE  Backwarded(r, c)' = IF ForwardOnly THEN 0 ELSE PerPipe
    OBVIOUS
  <2>1. GoodPlace(r, pc[r]) /\ GoodPlace(r, pc'[r])
    BY <1>1 DEF GoodCounters, GoodPlace
  <2>2. Backwarded(r, c)' = Backwards(r, c, pc'[r])
    <3>1. CountAt(r, pc'[r], fed'[r], outputTensors'[r])
      BY <1>1 DEF CountInv, CountAt, Forwards, Backwards, FDone, BDone
    <3>2. Forwards(r, c, pc'[r]) \in Nat /\ Backwards(r, c, pc'[r]) \in Nat
      BY <2>1, CountsNext
    <3>3. /\ fed'[r][c] = Forwards(r, c, pc'[r])
          /\ Len(outputTensors'[r][c]) = Forwards(r, c, pc'[r]) - Backwards(r, c, pc'[r])
      BY <3>1 DEF CountAt
    <3>4. Backwarded(r, c)' = fed'[r][c] - Len(outputTensors'[r][c])
      BY DEF Backwarded
    <3>5. QED BY <3>2, <3>3, <3>4
  <2>3. synchronizedChunks \in [Ranks -> SUBSET Chunks]
    BY <1>1 DEF DataOK, ResultsOK
  <2>4. ~StandStill
    BY DEF StandStill
  <2>5. ASSUME NEW q \in Ranks, OtherKind(q)
        PROVE  Backwarded(r, c)' = IF ForwardOnly THEN 0 ELSE PerPipe
    <3>1. q = r /\ pc[r].phase = "finish"
      BY <2>3, <2>5 DEF OtherKind
    <3>2. pc'[r] = NextPlace(r, pc[r])
      BY <1>1, <2>5, <3>1, StepGood DEF OtherKind
    <3>3. PhaseLength(r, "finish") = 1 /\ pc[r].k \in Nat
      BY <2>1 DEF PhaseLength, GoodPlace, PC
    <3>4. pc'[r].phase = "done"
      BY <3>1, <3>2, <3>3 DEF NextPlace, NextPhase, At
    <3>5. BDone(r, pc'[r]) = IF ForwardOnly THEN 0 ELSE 2 * N + 2
      BY <3>4 DEF BDone
    <3>6. BackwardDone(r, c, 0) = 0 /\ BackwardDone(r, c, 2 * N + 2) = N \div 2
      BY BackwardOrder
    <3>7. QED BY <2>2, <3>5, <3>6 DEF Backwards, PerPipe
  <2>6. ASSUME NEW q \in Ranks, NEW d \in Chunks, ForwardKind(q, d)
        PROVE  Backwarded(r, c)' = IF ForwardOnly THEN 0 ELSE PerPipe
    BY <2>6 DEF ForwardKind, ForwardStepHelper
  <2>7. ASSUME NEW q \in Ranks, NEW d \in Chunks, BackwardKind(q, d)
        PROVE  Backwarded(r, c)' = IF ForwardOnly THEN 0 ELSE PerPipe
    <3>1. q = r /\ d = c /\ IsLastMicrobatchForModelChunk(BkMicrobatchIdx[r][BK(r)])
      BY <2>3, <2>7 DEF BackwardKind, BackwardStepHelper
    <3>2. TurnAt(pc[r]) /\ c = BackwardChunk(r, BK(r)) /\ Step(r)
      BY <2>7, <3>1 DEF BackwardKind
    <3>3. ~ForwardOnly
      BY <2>1, <3>2 DEF GoodPlace, TurnAt
    <3>4. BK(r) = BDone(r, pc[r]) /\ BK(r) \in 0 .. 2 * N + 1
      BY <2>1, <3>2, PlaceDone, UnitFacts DEF BK
    <3>5. BackwardDone(r, c, BK(r)) + 1 = N \div 2
      BY <3>1, <3>2, <3>4, LastIsLast
    <3>6. BackwardOf(r, c, pc[r])
      BY <3>2 DEF BackwardOf, BK
    <3>7. Backwards(r, c, pc'[r]) = Backwards(r, c, pc[r]) + 1
      <4>1. pc'[r] = NextPlace(r, pc[r])
        BY <1>1, <3>2, StepGood
      <4>2. QED BY <2>1, <3>6, <4>1, CountsNext
    <3>8. QED BY <2>2, <3>3, <3>4, <3>5, <3>7 DEF Backwards, PerPipe
  <2>8. QED BY <1>1, <2>4, <2>5, <2>6, <2>7, StepKinds
<1>2. QED BY <1>1, PassesCounted, DataKept, PTL DEF Spec, SynchronizedWhenComplete

----
(***************************************************************************)
(* How much a device keeps.                                                *)
(***************************************************************************)
LEMMA RoleSum ==
  ASSUME NEW n \in Nat, NEW d \in Nat, NEW x \in 0 .. 4 * (n + d)
  PROVE  RoleCount(0, n, d, x) + RoleCount(1, n, d, x) + RoleCount(2, n, d, x) + RoleCount(3, n, d, x) = x
<1>1. CASE x <= n
  BY <1>1 DEF RoleCount
<1>2. CASE n < x /\ x <= n + 2 * d
  BY <1>2 DEF RoleCount
<1>3. CASE n + 2 * d < x /\ x <= 3 * n + 2 * d
  BY <1>3 DEF RoleCount
<1>4. CASE 3 * n + 2 * d < x /\ x <= 3 * n + 4 * d
  BY <1>4 DEF RoleCount
<1>5. CASE 3 * n + 4 * d < x
  BY <1>5 DEF RoleCount
<1>6. QED BY <1>1, <1>2, <1>3, <1>4, <1>5

LEMMA RoleDoneSum ==
  ASSUME NEW r \in Ranks, NEW k \in Nat
  PROVE  RoleDone(r, 0, k) + RoleDone(r, 1, k) + RoleDone(r, 2, k) + RoleDone(r, 3, k) = k
<1> DEFINE n == NumInitial(r)
           d == Half - NumInitial(r)
           m == 2 * P
           b == k \div m
           x == k % m
           H == Half
<1>1. n \in Nat /\ d \in Nat /\ m \in Nat /\ m > 0 /\ m = 4 * (n + d) /\ n + d = H /\ H \in Nat
  BY BlockSizes
<1>2. b \in Nat /\ x \in 0 .. m - 1 /\ k = b * m + x
  BY <1>1, PlaceAfter
<1>3. \A q \in 0 .. 3 : RoleDone(r, q, k) = b * H + RoleCount(q, n, d, x)
  BY DEF RoleDone
<1>4. \A q \in 0 .. 3 : RoleCount(q, n, d, x) \in Nat
  <2>1. x \in 0 .. 4 * (n + d) - 1
    BY <1>1, <1>2
  <2> HIDE DEF n, d, x
  <2>2. QED BY <1>1, <2>1, RoleSteps
<1>5. RoleCount(0, n, d, x) + RoleCount(1, n, d, x) + RoleCount(2, n, d, x) + RoleCount(3, n, d, x) = x
  <2>1. x \in 0 .. 4 * (n + d)
    BY <1>1, <1>2
  <2> HIDE DEF n, d, x
  <2>2. QED BY <1>1, <2>1, RoleSum
<1> HIDE DEF n, d, m, b, x, H
<1>6. b * m = b * H + b * H + b * H + b * H /\ b * H \in Nat
  BY <1>1, <1>2
<1>7. QED BY <1>2, <1>3, <1>4, <1>5, <1>6

LEMMA DoneSum ==
  ASSUME NEW r \in Ranks
  PROVE  /\ \A k \in Nat : ForwardDone(r, 0, k) + ForwardDone(r, 1, k)
                             + ForwardDone(r, 2, k) + ForwardDone(r, 3, k) = k
         /\ \A k \in 0 .. 2 * N + 2 :
              BackwardDone(r, 0, k) + BackwardDone(r, 1, k)
                + BackwardDone(r, 2, k) + BackwardDone(r, 3, k) = BackwardPasses(r, k)
<1>1. \A k \in Nat : /\ RoleDone(r, 0, k) \in Nat /\ RoleDone(r, 1, k) \in Nat
                     /\ RoleDone(r, 2, k) \in Nat /\ RoleDone(r, 3, k) \in Nat
                     /\ RoleDone(r, 0, k) + RoleDone(r, 1, k) + RoleDone(r, 2, k) + RoleDone(r, 3, k) = k
  BY DoneSteps, RoleDoneSum
<1>2. \A k \in 0 .. 2 * N + 2 : BackwardPasses(r, k) \in Nat
  BY UnitFacts, HalfFacts DEF BackwardPasses, FirstMarker
<1>3. IHalf(r) \in {0, 1}
  BY HalfOfRank
<1>4. CASE IHalf(r) = 0
  BY <1>1, <1>2, <1>4 DEF ForwardDone, BackwardDone, ForwardRole, BackwardRole
<1>5. CASE IHalf(r) = 1
  BY <1>1, <1>2, <1>5 DEF ForwardDone, BackwardDone, ForwardRole, BackwardRole
<1>6. QED BY <1>3, <1>4, <1>5

\* Between the passes of its two orders a device is never further apart than
\* the warmup.
LEMMA DoneApart ==
  ASSUME NEW r \in Ranks, NEW p, GoodPlace(r, p), ~ForwardOnly
  PROVE  FDone(r, p) - BackwardPasses(r, BDone(r, p)) <= NumWarmupMicrobatches(r) + 1
<1> DEFINE base == p.loop * 2 * P
           w == NumWarmupMicrobatches(r)
           u == UnitRemaining(r)
           b == BDone(r, p)
<1>1. /\ base \in Nat /\ p.k \in Nat
      /\ p.phase \in {"mid1", "mid2", "mid3", "mid4"} => base + 4 * P <= 2 * N
      /\ p.phase \in {"last", "cooldown"} => base + 2 * P = 2 * N
  BY PlaceBounds
<1>2. w \in P + Half .. 2 * P - 1 /\ u = 2 * P - w /\ u \in 1 .. Half
  BY WarmupFacts
<1>3. p.k < PhaseLength(r, p.phase) /\ p.phase \in Phases
  BY DEF GoodPlace, PC
<1>4. N \in Nat /\ P \in Nat /\ Half \in Nat /\ P = 2 * Half /\ P <= N
  BY HalfFacts, UnitFacts
<1>5. b \in 0 .. 2 * N + 2
  BY PlaceDone
<1>6. /\ b <= 2 * N - 1 => BackwardPasses(r, b) = b
      /\ b <= 2 * N + 1 => BackwardPasses(r, b) >= b - 1
      /\ b = 2 * N + 2 => BackwardPasses(r, b) = 2 * N
      /\ BackwardPasses(r, b) \in Nat
  <2> HIDE DEF b
  <2>1. QED BY <1>4, <1>5, HalfFacts DEF BackwardPasses, FirstMarker
<1>7. CASE p.phase = "recv"
  <2>1. FDone(r, p) = 0
    BY <1>7 DEF FDone
  <2> HIDE DEF base, w, u, b
  <2>2. QED BY <1>2, <1>4, <1>6, <2>1 DEF b, w
<1>8. CASE p.phase \in {"finish", "done"}
  <2>1. FDone(r, p) = 2 * N /\ b = 2 * N + 2
    BY <1>8 DEF FDone, BDone
  <2> HIDE DEF base, w, u, b
  <2>2. QED BY <1>2, <1>4, <1>6, <2>1 DEF b, w
<1>9. CASE p.phase = "warmup"
  <2>1. FDone(r, p) = p.k /\ b = 0 /\ PhaseLength(r, p.phase) = w
    BY <1>9 DEF FDone, BDone, PhaseLength
  <2> HIDE DEF base, w, u, b
  <2>2. FDone(r, p) - BackwardPasses(r, b) <= w + 1
    BY <1>1, <1>2, <1>3, <1>4, <1>6, <2>1
  <2>3. QED BY <2>2 DEF b, w
<1>10. CASE p.phase \in {"mid1", "last"}
  <2>1. /\ FDone(r, p) = base + w + ((p.k + 1) \div 2) /\ b = base + (p.k \div 2)
        /\ PhaseLength(r, p.phase) = 2 * u
    BY <1>10 DEF FDone, BDone, PhaseLength
  <2>2. /\ p.k \div 2 \in 0 .. u - 1 /\ (p.k + 1) \div 2 \in Nat
        /\ (p.k + 1) \div 2 <= (p.k \div 2) + 1
    BY <1>1, <1>2, <1>3, <1>4, <2>1
  <2> HIDE DEF base, w, u, b
  <2>3. b <= 2 * N - 1
    BY <1>1, <1>2, <1>4, <1>10, <2>1, <2>2
  <2>4. FDone(r, p) - BackwardPasses(r, b) <= w + 1
    BY <1>1, <1>2, <1>4, <1>6, <2>1, <2>2, <2>3
  <2>5. QED BY <2>4 DEF b, w
<1>11. CASE p.phase = "mid2"
  <2>1. FDone(r, p) = base + 2 * P /\ b = base + u + p.k /\ PhaseLength(r, p.phase) = w - u + 1
    BY <1>11 DEF FDone, BDone, PhaseLength
  <2> HIDE DEF base, w, u, b
  <2>2. FDone(r, p) - BackwardPasses(r, b) <= w + 1
    BY <1>1, <1>2, <1>3, <1>4, <1>6, <1>11, <2>1
  <2>3. QED BY <2>2 DEF b, w
<1>12. CASE p.phase = "mid3"
  <2>1. /\ FDone(r, p) = base + 2 * P + ((p.k + 1) \div 2) /\ b = base + w + 1 + (p.k \div 2)
        /\ PhaseLength(r, p.phase) = 2 * (u - 1)
    BY <1>12 DEF FDone, BDone, PhaseLength
  <2>2. /\ p.k \div 2 \in 0 .. u - 2 /\ (p.k + 1) \div 2 \in Nat
        /\ (p.k + 1) \div 2 <= (p.k \div 2) + 1
    BY <1>1, <1>2, <1>3, <1>4, <2>1
  <2> HIDE DEF base, w, u, b
  <2>3. b <= 2 * N - 1
    BY <1>1, <1>2, <1>4, <1>12, <2>1, <2>2
  <2>4. FDone(r, p) - BackwardPasses(r, b) <= w + 1
    BY <1>1, <1>2, <1>4, <1>6, <2>1, <2>2, <2>3
  <2>5. QED BY <2>4 DEF b, w
<1>13. CASE p.phase = "mid4"
  <2>1. /\ FDone(r, p) = base + 2 * P + u - 1 + p.k /\ b = base + 2 * P
        /\ PhaseLength(r, p.phase) = w - u + 1
    BY <1>13 DEF FDone, BDone, PhaseLength
  <2> HIDE DEF base, w, u, b
  <2>2. FDone(r, p) - BackwardPasses(r, b) <= w + 1
    BY <1>1, <1>2, <1>3, <1>4, <1>6, <1>13, <2>1
  <2>3. QED BY <2>2 DEF b, w
<1>14. CASE p.phase = "cooldown"
  <2>1. FDone(r, p) = 2 * N /\ b = base + u + p.k /\ PhaseLength(r, p.phase) = 2 * P - u + 2
    BY <1>14 DEF FDone, BDone, PhaseLength
  <2> HIDE DEF base, w, u, b
  <2>2. FDone(r, p) - BackwardPasses(r, b) <= w + 1
    BY <1>1, <1>2, <1>3, <1>4, <1>6, <1>14, <2>1
  <2>3. QED BY <2>2 DEF b, w
<1>15. QED BY <1>3, <1>7, <1>8, <1>9, <1>10, <1>11, <1>12, <1>13, <1>14 DEF Phases

\* The outputs a device keeps for its backward passes are never more than the
\* warmup and one, whatever the number of microbatches.
THEOREM OutputsBounded == Spec => []ActivationsBounded
<1>1. ASSUME GoodCounters, DataOK, CountInv PROVE ActivationsBounded
  <2> SUFFICES ASSUME NEW r \in Ranks, ~ForwardOnly
               PROVE  Len(outputTensors[r][0]) + Len(outputTensors[r][1])
                        + Len(outputTensors[r][2]) + Len(outputTensors[r][3])
                      <= NumWarmupMicrobatches(r) + 1
    BY DEF ActivationsBounded
  <2> DEFINE p == pc[r]
             f == FDone(r, p)
             b == BDone(r, p)
  <2>1. GoodPlace(r, p)
    BY <1>1 DEF GoodCounters
  <2>2. \A c \in Chunks : /\ Len(outputTensors[r][c]) = ForwardDone(r, c, f) - BackwardDone(r, c, b)
                          /\ ForwardDone(r, c, f) \in Nat /\ BackwardDone(r, c, b) \in Nat
    BY <1>1, <2>1, CountsNext DEF CountInv, CountAt, Forwards, Backwards
  <2>3. f \in Nat /\ b \in 0 .. 2 * N + 2
    BY <2>1, PlaceDone
  <2>4. f - BackwardPasses(r, b) <= NumWarmupMicrobatches(r) + 1
    BY <2>1, DoneApart
  <2> HIDE DEF p, f, b
  <2>5. /\ ForwardDone(r, 0, f) + ForwardDone(r, 1, f) + ForwardDone(r, 2, f) + ForwardDone(r, 3, f) = f
        /\ BackwardDone(r, 0, b) + BackwardDone(r, 1, b)
             + BackwardDone(r, 2, b) + BackwardDone(r, 3, b) = BackwardPasses(r, b)
    BY <2>3, DoneSum
  <2>6. 0 \in Chunks /\ 1 \in Chunks /\ 2 \in Chunks /\ 3 \in Chunks
    BY DEF Chunks
  <2>7. NumWarmupMicrobatches(r) \in Int
    BY WarmupFacts, HalfFacts
  <2> DEFINE F(c) == ForwardDone(r, c, f)
             B(c) == BackwardDone(r, c, b)
             L(c) == Len(outputTensors[r][c])
  <2>8. /\ L(0) = F(0) - B(0) /\ L(1) = F(1) - B(1) /\ L(2) = F(2) - B(2) /\ L(3) = F(3) - B(3)
        /\ F(0) \in Nat /\ F(1) \in Nat /\ F(2) \in Nat /\ F(3) \in Nat
        /\ B(0) \in Nat /\ B(1) \in Nat /\ B(2) \in Nat /\ B(3) \in Nat
    BY <2>2, <2>6
  <2>9. /\ F(0) + F(1) + F(2) + F(3) = f
        /\ B(0) + B(1) + B(2) + B(3) = BackwardPasses(r, b)
    BY <2>5
  <2> HIDE DEF F, B, L
  <2>10. L(0) + L(1) + L(2) + L(3) <= NumWarmupMicrobatches(r) + 1
    BY <2>3, <2>4, <2>7, <2>8, <2>9
  <2>11. QED BY <2>10 DEF L
<1>2. QED BY <1>1, PassesCounted, DataKept, PTL

----
(***************************************************************************)
(* Place x of block b, x up to the end of the block.                       *)
(***************************************************************************)
LEMMA RoleCounts ==
  ASSUME NEW n \in Nat, NEW d \in Nat, NEW x \in 0 .. 4 * (n + d)
  PROVE  /\ \A q \in 0 .. 3 : RoleCount(q, n, d, x) \in 0 .. n + d
         /\ RoleCount(2, n, d, x) > 0 => RoleCount(0, n, d, x) = n + d
         /\ RoleCount(3, n, d, x) > 0 => RoleCount(1, n, d, x) = n + d
         /\ x = 0 => \A q \in 0 .. 3 : RoleCount(q, n, d, x) = 0
         /\ x = 4 * (n + d) => \A q \in 0 .. 3 : RoleCount(q, n, d, x) = n + d
         /\ x <= n => RoleCount(1, n, d, x) = 0 /\ RoleCount(3, n, d, x) = 0
         /\ x >= 3 * n + 4 * d => RoleCount(0, n, d, x) = n + d /\ RoleCount(2, n, d, x) = n + d
<1>1. CASE x <= n
  BY <1>1 DEF RoleCount
<1>2. CASE n < x /\ x <= n + 2 * d
  BY <1>2 DEF RoleCount
<1>3. CASE n + 2 * d < x /\ x <= 3 * n + 2 * d
  BY <1>3 DEF RoleCount
<1>4. CASE 3 * n + 2 * d < x /\ x <= 3 * n + 4 * d
  BY <1>4 DEF RoleCount
<1>5. CASE 3 * n + 4 * d < x
  BY <1>5 DEF RoleCount
<1>6. QED BY <1>1, <1>2, <1>3, <1>4, <1>5

\* What role q has done at place x of a block.
Part(r, q, x) == RoleCount(q, NumInitial(r), Half - NumInitial(r), x)

LEMMA Parts ==
  ASSUME NEW r \in Ranks, NEW x \in 0 .. 2 * P
  PROVE  /\ \A q \in 0 .. 3 : Part(r, q, x) \in 0 .. Half
         /\ Part(r, 2, x) > 0 => Part(r, 0, x) = Half
         /\ Part(r, 3, x) > 0 => Part(r, 1, x) = Half
         /\ x = 0 => \A q \in 0 .. 3 : Part(r, q, x) = 0
         /\ x = 2 * P => \A q \in 0 .. 3 : Part(r, q, x) = Half
         /\ x <= NumInitial(r) => Part(r, 1, x) = 0 /\ Part(r, 3, x) = 0
         /\ x >= NumWarmupMicrobatches(r) => Part(r, 0, x) = Half /\ Part(r, 2, x) = Half
<1> DEFINE n == NumInitial(r)
           d == Half - NumInitial(r)
<1>1. n \in Nat /\ d \in Nat /\ n + d = Half /\ 2 * P = 4 * (n + d)
  BY BlockSizes
<1>2. NumWarmupMicrobatches(r) = 3 * n + 4 * d
  BY Sizes
<1>3. \A q : Part(r, q, x) = RoleCount(q, n, d, x)
  BY DEF Part
<1> HIDE DEF n, d
<1>4. x \in 0 .. 4 * (n + d)
  BY <1>1
<1>5. /\ \A q \in 0 .. 3 : RoleCount(q, n, d, x) \in 0 .. n + d
      /\ RoleCount(2, n, d, x) > 0 => RoleCount(0, n, d, x) = n + d
      /\ RoleCount(3, n, d, x) > 0 => RoleCount(1, n, d, x) = n + d
      /\ x = 0 => \A q \in 0 .. 3 : RoleCount(q, n, d, x) = 0
      /\ x = 4 * (n + d) => \A q \in 0 .. 3 : RoleCount(q, n, d, x) = n + d
      /\ x <= n => RoleCount(1, n, d, x) = 0 /\ RoleCount(3, n, d, x) = 0
      /\ x >= 3 * n + 4 * d => RoleCount(0, n, d, x) = n + d /\ RoleCount(2, n, d, x) = n + d
  BY <1>1, <1>4, RoleCounts
<1>6. QED BY <1>1, <1>2, <1>3, <1>5 DEF n

LEMMA RoleDoneIn ==
  ASSUME NEW r \in Ranks, NEW q \in 0 .. 3, NEW b \in Nat, NEW x \in 0 .. 2 * P
  PROVE  RoleDone(r, q, b * (2 * P) + x) = b * Half + Part(r, q, x)
<1> DEFINE m == 2 * P
<1>1. m \in Nat /\ m > 0 /\ Half \in Nat
  BY BlockSizes
<1>2. CASE x # 2 * P
  <2>1. x \in 0 .. m - 1
    BY <1>1, <1>2
  <2>2. (b * m + x) \div m = b /\ (b * m + x) % m = x
    BY <1>1, <2>1, DivMod, Zenon
  <2>3. QED BY <2>2 DEF RoleDone, Part
<1>3. CASE x = 2 * P
  <2>1. b * m + x = (b + 1) * m + 0 /\ 0 \in 0 .. m - 1 /\ b + 1 \in Nat
    BY <1>1, <1>3
  <2>2. ((b + 1) * m + 0) \div m = b + 1 /\ ((b + 1) * m + 0) % m = 0
    BY <1>1, <2>1, DivMod, Zenon
  <2>3. RoleDone(r, q, b * m + x) = (b + 1) * Half + Part(r, q, 0)
    BY <2>1, <2>2 DEF RoleDone, Part
  <2>4. Part(r, q, 0) = 0 /\ Part(r, q, x) = Half
    <3>1. 0 \in 0 .. 2 * P
      BY <1>1
    <3>2. QED BY <1>3, <3>1, Parts
  <2>5. (b + 1) * Half = b * Half + Half
    BY <1>1
  <2>6. QED BY <1>1, <2>3, <2>4, <2>5
<1>4. QED BY <1>2, <1>3

(***************************************************************************)
(* How far apart the two orders are.  Either both are in the same block:   *)
(* the backward order has not begun it, the forward order has finished it, *)
(* or the one is at its end and the other at its beginning; or the forward *)
(* order is one block ahead, and again one of the two is at an end of its  *)
(* block.                                                                  *)
(***************************************************************************)
Apart(r, b, x, c, y) ==
  LET n == NumInitial(r)
      w == NumWarmupMicrobatches(r)
  IN  \/ b = c /\ (y = 0 \/ x = 2 * P \/ (x >= w /\ y <= n /\ w + y <= x))
      \/ b = c + 1 /\ (y = 2 * P \/ (y >= w /\ x <= n))

LEMMA PassesBehind ==
  ASSUME NEW r \in Ranks, NEW k \in 0 .. 2 * N + 2
  PROVE  /\ k <= 2 * N - 1 => BackwardPasses(r, k) = k
         /\ k >= 2 * N - 1 => BackwardPasses(r, k) \in 2 * N - 1 .. 2 * N
         /\ k = 2 * N + 2 => BackwardPasses(r, k) = 2 * N
BY UnitFacts, HalfFacts DEF BackwardPasses, FirstMarker

LEMMA Positions ==
  ASSUME NEW r \in Ranks, NEW p, GoodPlace(r, p), ~ForwardOnly
  PROVE  \E b \in Nat, c \in Nat : \E x \in 0 .. 2 * P, y \in 0 .. 2 * P :
           /\ FDone(r, p) = b * (2 * P) + x
           /\ BackwardPasses(r, BDone(r, p)) = c * (2 * P) + y
           /\ Apart(r, b, x, c, y)
<1> DEFINE l == p.loop
           m == 2 * P
           w == NumWarmupMicrobatches(r)
           u == UnitRemaining(r)
           f == FDone(r, p)
           k == BDone(r, p)
           Goal(b, x, c, y) == f = b * m + x /\ BackwardPasses(r, k) = c * m + y /\ Apart(r, b, x, c, y)
<1>1. l \in Nat /\ NLoop \in Nat /\ p.k \in Nat /\ p.k < PhaseLength(r, p.phase) /\ p.phase \in Phases
  BY UnitFacts DEF GoodPlace, PC
<1>2. w \in P + Half .. 2 * P - 1 /\ u = 2 * P - w /\ u \in 1 .. Half /\ u = NumInitial(r)
  BY WarmupFacts, Sizes
<1>3. N \in Nat /\ P \in Nat /\ Half \in Nat /\ P = 2 * Half /\ P <= N /\ m = 2 * P /\ Half >= 2
  BY HalfFacts, UnitFacts
<1>4. l * 2 * P = l * m /\ (l + 1) * m = l * m + m /\ l * m \in Nat /\ 2 * N = (NLoop + 1) * m
  BY <1>1, <1>3, UnitFacts
<1>5. /\ p.phase \in {"mid1", "mid2", "mid3", "mid4"} => l * m + 2 * m <= 2 * N
      /\ p.phase \in {"last", "cooldown"} => l * m + m = 2 * N
  BY <1>3, <1>4, PlaceBounds
<1>6. /\ k \in 0 .. 2 * N + 2
      /\ k <= 2 * N - 1 => BackwardPasses(r, k) = k
      /\ k >= 2 * N - 1 => BackwardPasses(r, k) \in 2 * N - 1 .. 2 * N
      /\ k = 2 * N + 2 => BackwardPasses(r, k) = 2 * N
  BY PlaceDone, PassesBehind
<1> USE DEF Apart
<1>7. SUFFICES \E b \in Nat, c \in Nat : \E x \in 0 .. m, y \in 0 .. m : Goal(b, x, c, y)
  OBVIOUS
<1>8. CASE p.phase = "recv"
  <2>1. f = 0 /\ k = 0
    BY <1>8 DEF FDone, BDone
  <2> HIDE DEF f, k, m
  <2>2. Goal(0, 0, 0, 0)
    BY <1>3, <1>6, <2>1
  <2> HIDE DEF Goal
  <2>3. QED BY <1>3, <2>2
<1>9. CASE p.phase = "warmup"
  <2>1. f = p.k /\ k = 0 /\ PhaseLength(r, p.phase) = w
    BY <1>9 DEF FDone, BDone, PhaseLength
  <2> HIDE DEF f, k, m, w, u
  <2>2. Goal(0, p.k, 0, 0) /\ p.k \in 0 .. m
    BY <1>1, <1>2, <1>3, <1>6, <2>1
  <2> HIDE DEF Goal
  <2>3. QED BY <1>3, <2>2
<1>10. CASE p.phase \in {"finish", "done"}
  <2>1. f = 2 * N /\ k = 2 * N + 2
    BY <1>10 DEF FDone, BDone
  <2> HIDE DEF f, k, m
  <2>2. Goal(NLoop, m, NLoop, m)
    <3>1. NLoop * m + m = 2 * N
      BY <1>1, <1>3, <1>4
    <3>2. QED BY <1>3, <1>6, <2>1, <3>1
  <2> HIDE DEF Goal
  <2>3. QED BY <1>1, <1>3, <2>2
<1>11. CASE p.phase \in {"mid1", "last"}
  <2> DEFINE i == p.k \div 2
             j == (p.k + 1) \div 2
  <2>1. f = l * 2 * P + w + j /\ k = l * 2 * P + i /\ PhaseLength(r, p.phase) = 2 * u
    BY <1>11 DEF FDone, BDone, PhaseLength
  <2>2. i \in 0 .. u - 1 /\ j \in 0 .. u /\ i <= j
    BY <1>1, <1>2, <1>3, <2>1
  <2> HIDE DEF f, k, m, w, u, i, j, l
  <2>3. w + j \in 0 .. m /\ i \in 0 .. m /\ k <= 2 * N - 1
    BY <1>2, <1>3, <1>4, <1>5, <1>11, <2>1, <2>2
  <2>4. Goal(l, w + j, l, i)
    <3>1. f = l * m + (w + j) /\ BackwardPasses(r, k) = l * m + i
      BY <1>1, <1>2, <1>3, <1>4, <1>6, <2>1, <2>2, <2>3 DEF l
    <3>2. Apart(r, l, w + j, l, i)
      <4>1. w + j >= w /\ i <= u /\ w + i <= w + j
        BY <1>2, <1>3, <2>2
      <4>2. QED BY <1>2, <4>1 DEF w
    <3>3. QED BY <3>1, <3>2
  <2> HIDE DEF Goal
  <2>5. QED BY <1>1, <2>3, <2>4
<1>12. CASE p.phase = "mid2"
  <2>1. f = l * 2 * P + 2 * P /\ k = l * 2 * P + u + p.k /\ PhaseLength(r, p.phase) = w - u + 1
    BY <1>12 DEF FDone, BDone, PhaseLength
  <2> HIDE DEF f, k, m, w, u, l
  <2>2. u + p.k \in 0 .. m /\ k <= 2 * N - 1
    BY <1>1, <1>2, <1>3, <1>4, <1>5, <1>12, <2>1
  <2>3. Goal(l, m, l, u + p.k)
    BY <1>1, <1>2, <1>3, <1>4, <1>6, <2>1, <2>2
  <2> HIDE DEF Goal
  <2>4. QED BY <1>1, <1>3, <2>2, <2>3
<1>13. CASE p.phase = "mid3"
  <2> DEFINE i == p.k \div 2
             j == (p.k + 1) \div 2
  <2>1. f = l * 2 * P + 2 * P + j /\ k = l * 2 * P + w + 1 + i /\ PhaseLength(r, p.phase) = 2 * (u - 1)
    BY <1>13 DEF FDone, BDone, PhaseLength
  <2>2. i \in 0 .. u - 2 /\ j \in 0 .. u - 1
    BY <1>1, <1>2, <1>3, <2>1
  <2> HIDE DEF f, k, m, w, u, i, j, l
  <2>3. j \in 0 .. m /\ w + 1 + i \in 0 .. m /\ k <= 2 * N - 1 /\ l + 1 \in Nat
    BY <1>1, <1>2, <1>3, <1>4, <1>5, <1>13, <2>1, <2>2
  <2>4. Goal(l + 1, j, l, w + 1 + i)
    <3>1. f = (l + 1) * m + j /\ BackwardPasses(r, k) = l * m + (w + 1 + i)
      BY <1>1, <1>2, <1>3, <1>4, <1>6, <2>1, <2>2, <2>3
    <3>2. Apart(r, l + 1, j, l, w + 1 + i)
      <4>1. w + 1 + i >= w /\ j <= u
        BY <1>2, <1>3, <2>2
      <4>2. QED BY <1>2, <4>1 DEF w
    <3>3. QED BY <3>1, <3>2
  <2> HIDE DEF Goal
  <2>5. QED BY <1>1, <2>3, <2>4
<1>14. CASE p.phase = "mid4"
  <2>1. f = l * 2 * P + 2 * P + u - 1 + p.k /\ k = l * 2 * P + 2 * P /\ PhaseLength(r, p.phase) = w - u + 1
    BY <1>14 DEF FDone, BDone, PhaseLength
  <2> HIDE DEF f, k, m, w, u, l
  <2>2. u - 1 + p.k \in 0 .. m /\ k <= 2 * N - 1 /\ l + 1 \in Nat
    BY <1>1, <1>2, <1>3, <1>4, <1>5, <1>14, <2>1
  <2>3. Goal(l + 1, u - 1 + p.k, l, m)
    BY <1>1, <1>2, <1>3, <1>4, <1>6, <2>1, <2>2
  <2> HIDE DEF Goal
  <2>4. QED BY <1>1, <1>3, <2>2, <2>3
<1>15. CASE p.phase = "cooldown"
  <2>1. f = 2 * N /\ k = l * 2 * P + u + p.k /\ PhaseLength(r, p.phase) = 2 * P - u + 2
    BY <1>15 DEF FDone, BDone, PhaseLength
  <2> DEFINE y == BackwardPasses(r, k) - l * m
  <2>2. BackwardPasses(r, k) \in l * m .. 2 * N
    <3> HIDE DEF f, k, m, w, u, l
    <3>1. k \in Nat /\ k >= l * m /\ k <= 2 * N + 1
      BY <1>1, <1>2, <1>3, <1>4, <1>5, <1>15, <2>1
    <3>2. CASE k <= 2 * N - 1
      BY <1>3, <1>4, <1>6, <3>1, <3>2
    <3>3. CASE k >= 2 * N - 1
      <4>1. BackwardPasses(r, k) \in 2 * N - 1 .. 2 * N
        BY <1>6, <3>3
      <4>2. QED BY <1>2, <1>3, <1>4, <1>5, <1>15, <4>1
    <3>4. QED BY <1>3, <3>1, <3>2, <3>3
  <2> HIDE DEF f, k, m, w, u, l
  <2>3. y \in 0 .. m /\ BackwardPasses(r, k) = l * m + y
    BY <1>3, <1>4, <1>5, <1>15, <2>2
  <2> HIDE DEF y
  <2>4. Goal(l, m, l, y)
    BY <1>3, <1>4, <1>5, <1>15, <2>1, <2>3
  <2> HIDE DEF Goal
  <2>5. QED BY <1>1, <1>3, <2>3, <2>4
<1>16. QED BY <1>1, <1>8, <1>9, <1>10, <1>11, <1>12, <1>13, <1>14, <1>15 DEF Phases

----
(***************************************************************************)
(* Link e of a device goes down the devices (e = 0) or up (e = 1).  Four   *)
(* kinds of passes use it: the forward passes of chunks e and 3-e and the  *)
(* backward passes of chunks 2+e and 1-e.  On every device the passes of a *)
(* link come in the same order: Half of each kind, then again.  Of the     *)
(* first m passes PathShare(t, m) are of kind t; pass number m is of kind  *)
(* PathKind(m).                                                            *)
(***************************************************************************)
PathKinds == IF ForwardOnly THEN 2 ELSE 4

Within(t, x) == IF x <= t * Half THEN 0 ELSE IF x <= t * Half + Half THEN x - t * Half ELSE Half

PathShare(t, m) ==
  IF t >= PathKinds THEN 0
  ELSE (m \div (PathKinds * Half)) * Half + Within(t, m % (PathKinds * Half))

PathKind(m) ==
  LET x == m % (PathKinds * Half)
  IN  IF x < Half THEN 0 ELSE IF x < 2 * Half THEN 1 ELSE IF x < 3 * Half THEN 2 ELSE 3

PathIndex(m) == PathShare(PathKind(m), m)

LEMMA PathFacts ==
  /\ PathKinds \in {2, 4} /\ Half \in Nat /\ Half >= 2
  /\ PathKinds * Half \in Nat /\ PathKinds * Half > 0
  /\ PathKinds = 2 => PathKinds * Half = 2 * Half
  /\ PathKinds = 4 => PathKinds * Half = 4 * Half
<1>1. PathKinds \in {2, 4} /\ Half \in Nat /\ Half >= 2
  BY HalfFacts DEF PathKinds
<1> HIDE DEF PathKinds
<1>2. CASE PathKinds = 2
  BY <1>1, <1>2
<1>3. CASE PathKinds = 4
  BY <1>1, <1>3
<1>4. QED BY <1>1, <1>2, <1>3

\* A pass of a link is one more of its kind.
LEMMA PathStep ==
  ASSUME NEW m \in Nat
  PROVE  /\ PathKind(m) \in 0 .. PathKinds - 1
         /\ \A t \in 0 .. 3 :
              /\ PathShare(t, m) \in Nat
              /\ PathShare(t, m + 1) = PathShare(t, m) + (IF t = PathKind(m) THEN 1 ELSE 0)
<1> DEFINE K == PathKinds * Half
           H == Half
           b == m \div K
           x == m % K
           z == (m + 1) % K
<1>1. /\ b \in Nat /\ x \in 0 .. K - 1 /\ b * H \in Nat /\ (b + 1) * H = b * H + H
      /\ H \in Nat /\ H >= 2 /\ PathKinds \in {2, 4}
      /\ PathKinds = 2 => K = 2 * H
      /\ PathKinds = 4 => K = 4 * H
  <2>1. b \in Nat /\ x \in 0 .. K - 1
    BY PathFacts, PlaceAfter
  <2> HIDE DEF b, x
  <2>2. b * H \in Nat /\ (b + 1) * H = b * H + H
    BY <2>1, PathFacts
  <2>3. QED BY <2>1, <2>2, PathFacts
<1>2. \/ x + 1 < K /\ (m + 1) \div K = b /\ z = x + 1
      \/ x + 1 = K /\ (m + 1) \div K = b + 1 /\ z = 0
  BY PathFacts, PlaceAfter
<1>3. /\ PathKind(m) = IF x < H THEN 0 ELSE IF x < 2 * H THEN 1 ELSE IF x < 3 * H THEN 2 ELSE 3
      /\ \A t : PathShare(t, m) = IF t >= PathKinds THEN 0 ELSE b * H + Within(t, x)
      /\ \A t : PathShare(t, m + 1) = IF t >= PathKinds THEN 0 ELSE ((m + 1) \div K) * H + Within(t, z)
  BY DEF PathKind, PathShare
<1> HIDE DEF K, b, x, z
<1>4. /\ Within(0, x) \in Nat /\ Within(1, x) \in Nat /\ Within(2, x) \in Nat /\ Within(3, x) \in Nat
  BY <1>1 DEF Within
<1>5. PathKind(m) \in 0 .. PathKinds - 1
  BY <1>1, <1>3
<1> DEFINE q == PathKind(m)
<1>6. CASE x + 1 < K /\ (m + 1) \div K = b /\ z = x + 1
  <2>1. /\ Within(0, z) = Within(0, x) + (IF 0 = q THEN 1 ELSE 0)
        /\ Within(1, z) = Within(1, x) + (IF 1 = q THEN 1 ELSE 0)
    BY <1>1, <1>3, <1>6 DEF Within
  <2>2. /\ Within(2, z) = Within(2, x) + (IF 2 = q THEN 1 ELSE 0)
        /\ Within(3, z) = Within(3, x) + (IF 3 = q THEN 1 ELSE 0)
    <3>1. CASE PathKinds = 4
      BY <1>1, <1>3, <1>6, <3>1 DEF Within
    <3>2. CASE PathKinds = 2
      BY <1>1, <1>3, <1>6, <3>2 DEF Within
    <3>3. QED BY <1>1, <3>1, <3>2
  <2> HIDE DEF q
  <2>3. ASSUME NEW t \in 0 .. 3
        PROVE  PathShare(t, m) \in Nat /\ PathShare(t, m + 1) = PathShare(t, m) + (IF t = q THEN 1 ELSE 0)
    <3>1. t \in {0, 1, 2, 3}
      OBVIOUS
    <3>2. t >= PathKinds => t # q
      BY <1>1, <1>5 DEF q
    <3>3. Within(t, x) \in Nat /\ Within(t, z) = Within(t, x) + (IF t = q THEN 1 ELSE 0)
      BY <1>4, <2>1, <2>2, <3>1
    <3>4. QED BY <1>1, <1>3, <1>6, <3>2, <3>3
  <2>4. QED BY <1>5, <2>3 DEF q
<1>7. CASE x + 1 = K /\ (m + 1) \div K = b + 1 /\ z = 0
  <2>1. q = PathKinds - 1
    BY <1>1, <1>3, <1>7
  <2>2. /\ Within(0, x) = H /\ Within(0, z) = 0 /\ Within(1, z) = 0
        /\ Within(2, z) = 0 /\ Within(3, z) = 0
        /\ PathKinds = 2 => Within(1, x) = H - 1
        /\ PathKinds = 4 => Within(1, x) = H /\ Within(2, x) = H /\ Within(3, x) = H - 1
    BY <1>1, <1>7 DEF Within
  <2> HIDE DEF q
  <2>3. ASSUME NEW t \in 0 .. 3
        PROVE  PathShare(t, m) \in Nat /\ PathShare(t, m + 1) = PathShare(t, m) + (IF t = q THEN 1 ELSE 0)
    <3>1. t \in {0, 1, 2, 3}
      OBVIOUS
    <3>2. CASE t >= PathKinds
      BY <1>1, <1>3, <2>1, <3>2
    <3>3. CASE ~(t >= PathKinds)
      <4>1. Within(t, z) = 0 /\ Within(t, x) = (IF t = q THEN H - 1 ELSE H)
        BY <1>1, <2>1, <2>2, <3>1, <3>3
      <4>2. QED BY <1>1, <1>3, <1>7, <3>3, <4>1
    <3>4. QED BY <3>2, <3>3
  <2>4. QED BY <1>5, <2>3 DEF q
<1>8. QED BY <1>2, <1>6, <1>7

\* What a path looks like: within a block no kind has begun before the one
\* before it is complete.
InOrder(a0, a1, a2, a3) ==
  /\ a0 \in 0 .. Half /\ a1 \in 0 .. Half /\ a2 \in 0 .. Half /\ a3 \in 0 .. Half
  /\ a1 > 0 => a0 = Half
  /\ a2 > 0 => a1 = Half
  /\ a3 > 0 => a2 = Half

Shares(m, s0, s1, s2, s3) ==
  /\ m \in Nat
  /\ PathShare(0, m) = s0 /\ PathShare(1, m) = s1
  /\ PathShare(2, m) = s2 /\ PathShare(3, m) = s3

PathAt(b, a0, a1, a2, a3) == (b * Half + a0) + (b * Half + a1) + (b * Half + a2) + (b * Half + a3)

LEMMA PathSplit ==
  ASSUME PathKinds = 4, NEW b \in Nat, NEW a0, NEW a1, NEW a2, NEW a3, InOrder(a0, a1, a2, a3)
  PROVE  Shares(PathAt(b, a0, a1, a2, a3), b * Half + a0, b * Half + a1, b * Half + a2, b * Half + a3)
<1> DEFINE H == Half
           K == PathKinds * Half
           x == a0 + a1 + a2 + a3
           m == PathAt(b, a0, a1, a2, a3)
<1>0. InOrder(a0, a1, a2, a3)
  OBVIOUS
<1> USE <1>0 DEF InOrder
<1>1. H \in Nat /\ H >= 2 /\ K = 4 * H /\ K \in Nat /\ K > 0 /\ b * H \in Nat /\ (b + 1) * H = b * H + H
  BY PathFacts
<1>2. m = b * K + x /\ x \in 0 .. K /\ m \in Nat /\ b * K \in Nat
  <2>1. b * K = b * H + b * H + b * H + b * H
    BY <1>1
  <2> HIDE DEF K
  <2>2. QED BY <1>1, <2>1 DEF PathAt
<1>3. \A t \in {0, 1, 2, 3} : PathShare(t, m) = (m \div K) * H + Within(t, m % K)
  BY DEF PathShare
<1> HIDE DEF K, m
<1>4. CASE x # K
  <2>1. x \in 0 .. K - 1
    BY <1>1, <1>2, <1>4
  <2> HIDE DEF x
  <2>2. (b * K + x) \div K = b /\ (b * K + x) % K = x
    BY <1>1, <2>1, DivMod, Zenon
  <2>3. m \div K = b /\ m % K = x
    BY <1>2, <2>2
  <2>4. Within(0, x) = a0 /\ Within(1, x) = a1 /\ Within(2, x) = a2 /\ Within(3, x) = a3
    BY <1>1 DEF Within, x
  <2>5. /\ m \in Nat
        /\ PathShare(0, m) = b * Half + a0 /\ PathShare(1, m) = b * Half + a1
        /\ PathShare(2, m) = b * Half + a2 /\ PathShare(3, m) = b * Half + a3
    BY <1>2, <1>3, <2>3, <2>4
  <2>6. QED BY <2>5 DEF Shares, m
<1>5. CASE x = K
  <2>1. a0 = H /\ a1 = H /\ a2 = H /\ a3 = H
    BY <1>1, <1>5
  <2>2. m = (b + 1) * K + 0 /\ 0 \in 0 .. K - 1 /\ b + 1 \in Nat
    <3>1. (b + 1) * K = b * K + K
      BY <1>1
    <3>2. QED BY <1>1, <1>2, <1>5, <3>1
  <2>3. ((b + 1) * K + 0) \div K = b + 1 /\ ((b + 1) * K + 0) % K = 0
    BY <1>1, <2>2, DivMod, Zenon
  <2>4. m \div K = b + 1 /\ m % K = 0
    BY <2>2, <2>3
  <2>5. Within(0, 0) = 0 /\ Within(1, 0) = 0 /\ Within(2, 0) = 0 /\ Within(3, 0) = 0
    BY <1>1 DEF Within
  <2> HIDE DEF x
  <2>6. /\ m \in Nat
        /\ PathShare(0, m) = b * Half + a0 /\ PathShare(1, m) = b * Half + a1
        /\ PathShare(2, m) = b * Half + a2 /\ PathShare(3, m) = b * Half + a3
    BY <1>1, <1>2, <1>3, <2>1, <2>4, <2>5
  <2>7. QED BY <2>6 DEF Shares, m
<1>6. QED BY <1>4, <1>5

LEMMA PathSplitForwardOnly ==
  ASSUME PathKinds = 2, NEW b \in Nat, NEW a0 \in 0 .. Half, NEW a1 \in 0 .. Half,
         a1 > 0 => a0 = Half, NEW m, m = (b * Half + a0) + (b * Half + a1)
  PROVE  /\ m \in Nat
         /\ PathShare(0, m) = b * Half + a0 /\ PathShare(1, m) = b * Half + a1
         /\ PathShare(2, m) = 0 /\ PathShare(3, m) = 0
<1> DEFINE H == Half
           K == PathKinds * Half
           x == a0 + a1
<1>1. H \in Nat /\ H >= 2 /\ K = 2 * H /\ K \in Nat /\ K > 0 /\ b * H \in Nat /\ (b + 1) * H = b * H + H
  BY PathFacts
<1>2. m = b * K + x /\ x \in 0 .. K /\ m \in Nat /\ b * K \in Nat
  <2>1. b * K = b * H + b * H
    BY <1>1
  <2> HIDE DEF K
  <2>2. QED BY <1>1, <2>1
<1>3. /\ \A t \in {0, 1} : PathShare(t, m) = (m \div K) * H + Within(t, m % K)
      /\ PathShare(2, m) = 0 /\ PathShare(3, m) = 0
  BY DEF PathShare
<1> HIDE DEF K
<1>4. CASE x # K
  <2>1. x \in 0 .. K - 1
    BY <1>1, <1>2, <1>4
  <2> HIDE DEF x
  <2>2. (b * K + x) \div K = b /\ (b * K + x) % K = x
    BY <1>1, <2>1, DivMod, Zenon
  <2>3. m \div K = b /\ m % K = x
    BY <1>2, <2>2
  <2>4. Within(0, x) = a0 /\ Within(1, x) = a1
    BY <1>1 DEF Within, x
  <2>5. QED BY <1>2, <1>3, <2>3, <2>4
<1>5. CASE x = K
  <2>1. a0 = H /\ a1 = H
    BY <1>1, <1>5
  <2>2. m = (b + 1) * K + 0 /\ 0 \in 0 .. K - 1 /\ b + 1 \in Nat
    <3>1. (b + 1) * K = b * K + K
      BY <1>1
    <3>2. QED BY <1>1, <1>2, <1>5, <3>1
  <2>3. ((b + 1) * K + 0) \div K = b + 1 /\ ((b + 1) * K + 0) % K = 0
    BY <1>1, <2>2, DivMod, Zenon
  <2>4. m \div K = b + 1 /\ m % K = 0
    BY <2>2, <2>3
  <2>5. Within(0, 0) = 0 /\ Within(1, 0) = 0
    BY <1>1 DEF Within
  <2> HIDE DEF x
  <2>6. QED BY <1>1, <1>2, <1>3, <2>1, <2>4, <2>5
<1>6. QED BY <1>4, <1>5
============================================================================
