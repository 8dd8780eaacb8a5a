------------------------- MODULE TrainStep_proofs -------------------------
(***************************************************************************)
(* The two end devices keep the parameters of the stages they share equal, *)
(* for every even number of devices, every accepted number of microbatches *)
(* and every initial value and gradient.                                   *)
(***************************************************************************)
EXTENDS TrainStep, BitPipeOrder_proofs

Last == P - 1

TPhases == {"build", "broadcast", "zero", "schedule", "reduce", "update"}

\* The end of the schedule: two places more than there are backward passes, two turns each.
Turns == 4 * N + 4

TypeInv ==
  /\ place \in [Ends -> [phase : TPhases, k : Nat]]
  /\ iteration \in [Ends -> Nat]
  /\ weight \in Table
  /\ buffer \in Table
  /\ rebound \in [Ends -> BOOLEAN]

\* The other chunk of the same stage is on the other device.
Twin(c) == IF c % 2 = 0 THEN c + 1 ELSE c - 1

Building(r) == place[r].phase \in {"build", "broadcast"}
Running(r)  == place[r].phase \in {"zero", "schedule"}
Updating(r) == place[r].phase \in {"reduce", "update"}

\* How many of the four all-reduces of the schedule are behind the device.
Passed(r) ==
  IF place[r].phase # "schedule" \/ place[r].k <= 4 * N - 2 THEN 0
  ELSE IF place[r].k = 4 * N - 1 THEN 1
  ELSE IF place[r].k <= 4 * N + 2 THEN 2
  ELSE 3

\* Each device is somewhere in its program, and the other is not far away:
\* they are between the same two of the operations that take both.
PlaceInv ==
  /\ \A r \in Ends :
       /\ Building(r) => place[r].k \in 0 .. 3
       /\ place[r].phase \in {"zero", "reduce", "update"} => place[r].k = 0
       /\ place[r].phase = "schedule" =>
            place[r].k \in 0 .. Turns - 1 /\ (place[r].k % 2 = 1 => ChunkAt(r) = Sync)
       /\ place[r].phase = "broadcast" /\ place[r].k > 0 => place[Other(r)] = place[r]
       /\ Running(r) => Running(Other(r)) /\ Passed(Other(r)) = Passed(r)
       /\ Updating(r) => Updating(Other(r))

SameWeight(c) == \A x \in Held(0, c) : weight[0][c][x] = weight[Last][Twin(c)][x]

\* The chunks that were broadcast are the same on both devices.
WeightInv ==
  \A c \in Chunks :
    \/ Building(0) /\ (place[0].phase = "broadcast" => place[0].k <= c)
    \/ SameWeight(c)

SameSlot(c, x) == buffer[0][c][x] = buffer[Last][Twin(c)][x]

\* The gradient of the embedding once that of the head is in it.
FullWordGrad(r) ==
  IF place[r].phase = "update" THEN buffer[r][EmbeddingChunk(r)]["word"]
  ELSE buffer[r][EmbeddingChunk(r)]["word"] + MainGrad(r, HeadChunk(r), "word")

\* The chunks that were all-reduced have the same gradient on both devices; a
\* head's own slot counts as long as it is used.
GradInv ==
  /\ ~Updating(0) => rebound[0] = rebound[Last]
  /\ Running(0) =>
       /\ Passed(0) >= 1 => SameSlot(2, "layers") /\ (~rebound[0] => SameSlot(2, "word"))
       /\ Passed(0) >= 2 => SameSlot(3, "layers")
       /\ Passed(0) >= 3 => SameSlot(0, "layers") /\ SameSlot(0, "word")
  /\ Updating(0) =>
       /\ \A c \in Chunks : SameSlot(c, "layers")
       /\ FullWordGrad(0) = FullWordGrad(Last)
  /\ \A r \in Ends : place[r].phase = "update" => rebound[r]

ReplicaInv == TypeInv /\ PlaceInv /\ WeightInv /\ GradInv
----------------------------------------------------------------------------
\* The end devices are two, they are partners, and neither is in the middle.
LEMMA EndFacts ==
  /\ Ends = {0, Last} /\ 0 \in Ends /\ Last \in Ends /\ Last # 0 /\ Last \in Nat
  /\ Other(0) = Last /\ Other(Last) = 0
  /\ \A r \in Ends :
       /\ r \in Ranks /\ Other(r) \in Ends /\ Other(r) # r /\ Other(Other(r)) = r
       /\ r < Half <=> r = 0
       /\ ~IsMiddle(r) /\ FirstMarker(r) = 2 * N - 1
BY HalfFacts DEF Ends, Last, Other, BdPartner, IsMiddle, FirstMarker, Ranks

LEMMA ChunkFacts ==
  /\ \A c \in Chunks : Twin(c) \in Chunks /\ Twin(Twin(c)) = c
  /\ \A r \in Ends : EmbeddingChunk(r) \in Chunks /\ HeadChunk(r) \in Chunks
  /\ EmbeddingChunk(0) = 0 /\ HeadChunk(0) = 2 /\ EmbeddingChunk(Last) = 1 /\ HeadChunk(Last) = 3
  /\ \A c \in Chunks : Held(Last, Twin(c)) = Held(0, c)
  /\ \A r \in Ends, c \in Chunks : Held(r, c) \subseteq Params /\ "layers" \in Held(r, c)
BY EndFacts DEF Chunks, Twin, EmbeddingChunk, HeadChunk, Held, HasWord, Params

\* The chunks of one stage on the two devices are twins.
LEMMA TwinStages ==
  ASSUME NEW r \in Ends, NEW c \in Chunks, NEW d \in Chunks, StageOf(r, c) = StageOf(Other(r), d)
  PROVE  d = Twin(c)
<1>1. P \in Nat /\ P > 2 /\ Last = P - 1 /\ r \in {0, Last}
      /\ Other(r) = (IF r = 0 THEN Last ELSE 0)
  BY EndFacts, HalfFacts DEF Last
<1>2. CASE r = 0
  BY <1>1, <1>2 DEF Chunks, Twin, StageOf
<1>3. CASE r = Last
  BY <1>1, <1>3 DEF Chunks, Twin, StageOf
<1>4. QED BY <1>1, <1>2, <1>3

LEMMA EndHalf == ASSUME NEW r \in Ends PROVE IHalf(r) = EmbeddingChunk(r)
<1>1. CASE r = 0
  BY <1>1, HalfFacts DEF IHalf, EmbeddingChunk
<1>2. CASE r # 0
  <2>1. r = P - 1
    BY <1>2, EndFacts DEF Last
  <2>2. r \div Half = 1
    BY <2>1, HalfFacts
  <2>3. QED BY <1>2, <2>2 DEF IHalf, EmbeddingChunk
<1>3. QED BY <1>1, <1>2

\* Where a device on a marker is, and what it may run elsewhere.
LEMMA MarkerTurns ==
  ASSUME NEW r \in Ends, place[r].k \in 0 .. Turns - 1
  PROVE  /\ ChunkAt(r) = Sync <=> place[r].k \in {4 * N - 2, 4 * N - 1, 4 * N + 2, 4 * N + 3}
         /\ ChunkAt(r) # Sync => ChunkAt(r) \in Chunks
         /\ place[r].k = 4 * N => ChunkAt(r) = EmbeddingChunk(r)
<1> DEFINE k == place[r].k
<1>1. r \in Ranks /\ FirstMarker(r) = 2 * N - 1 /\ ~IsMiddle(r) /\ N \in Nat /\ N >= 1
  BY EndFacts, UnitFacts, HalfFacts
<1>2. k \in Nat /\ k < 4 * N + 4
  BY <1>1 DEF Turns
<1>3. k \div 2 \in 0 .. 2 * N + 1
      /\ (k \div 2 \in {2 * N - 1, 2 * N + 1} <=> k \in {4 * N - 2, 4 * N - 1, 4 * N + 2, 4 * N + 3})
  BY <1>1, <1>2
<1>4. ChunkAt(r) = BackwardChunk(r, k \div 2)
  BY DEF ChunkAt
<1>5. IF k \div 2 \in {2 * N - 1, 2 * N + 1} THEN ChunkAt(r) = Sync ELSE ChunkAt(r) \in Chunks
  BY <1>1, <1>3, <1>4, MarkerPlaces
<1>6. ChunkAt(r) \in Chunks => ChunkAt(r) # Sync
  BY DEF Chunks, Sync
<1>7. k = 4 * N => ChunkAt(r) = EmbeddingChunk(r)
  <2> SUFFICES ASSUME k = 4 * N PROVE ChunkAt(r) = EmbeddingChunk(r)
    OBVIOUS
  <2>1. k \div 2 = 2 * N
    BY <1>1
  <2>2. QED BY <1>1, <1>4, <2>1, EndHalf, LastBackwardPass
<1>8. QED BY <1>3, <1>5, <1>6, <1>7

----------------------------------------------------------------------------
\* Types.
Places == [phase : TPhases, k : Nat]

LEMMA OnwardType ==
  ASSUME TypeInv, NEW r \in Ends, NEW n \in Nat, NEW next \in TPhases
  PROVE  Onward(r, n, next) \in Places
BY DEF TypeInv, Onward, Places, TPhases

LEMMA MainGradType ==
  ASSUME TypeInv, NEW r \in Ends, NEW c \in Chunks, NEW x \in Params
  PROVE  SlotChunk(r, c, x) \in Chunks /\ MainGrad(r, c, x) \in Int
BY ChunkFacts DEF TypeInv, Table, SlotChunk, MainGrad

\* A place as PlaceInv wants it, as far as the device itself goes.
OwnPlace(r) ==
  /\ place[r] \in Places
  /\ Building(r) => place[r].k \in 0 .. 3
  /\ place[r].phase \in {"zero", "reduce", "update"} => place[r].k = 0
  /\ place[r].phase = "schedule" =>
       place[r].k \in 0 .. Turns - 1 /\ (place[r].k % 2 = 1 => ChunkAt(r) = Sync)

\* What PlaceInv says of the two devices together.
Together(r) ==
  /\ place[r].phase = "broadcast" /\ place[r].k > 0 => place[Other(r)] = place[r]
  /\ Running(r) => Running(Other(r)) /\ Passed(Other(r)) = Passed(r)
  /\ Updating(r) => Updating(Other(r))

LEMMA PlaceParts ==
  ASSUME TypeInv
  PROVE  PlaceInv <=> \A r \in Ends : OwnPlace(r) /\ Together(r)
BY DEF TypeInv, PlaceInv, OwnPlace, Together, Places

LEMMA BuildChunkPlaces ==
  ASSUME TypeInv, PlaceInv, NEW r \in Ends, BuildChunk(r)
  PROVE  TypeInv' /\ PlaceInv'
<1>1. /\ place[r].phase = "build" /\ place[r].k \in 0 .. 3
      /\ place' = [place EXCEPT ![r] = Onward(r, 4, "broadcast")]
      /\ UNCHANGED <<iteration, weight, buffer, rebound>>
  BY DEF BuildChunk, InPhase, Move, PlaceInv, Building
<1>2. /\ place[r] \in Places /\ place \in [Ends -> Places]
      /\ Onward(r, 4, "broadcast") \in Places
  BY OnwardType, 4 \in Nat, "broadcast" \in TPhases DEF TypeInv, Places, TPhases
<1>3. TypeInv'
  BY <1>1, <1>2 DEF TypeInv, Places
<1>4. \A q \in Ends : place'[q] = IF q = r THEN Onward(r, 4, "broadcast") ELSE place[q]
  BY <1>1, <1>2
<1>5. \/ Onward(r, 4, "broadcast").phase = "build" /\ Onward(r, 4, "broadcast").k \in 0 .. 3
      \/ Onward(r, 4, "broadcast").phase = "broadcast" /\ Onward(r, 4, "broadcast").k = 0
  BY <1>1, <1>2 DEF Onward, Places
<1>6. ASSUME NEW q \in Ends PROVE OwnPlace(q)' /\ Together(q)'
  <2>1. OwnPlace(q) /\ Together(q) /\ Other(q) \in Ends /\ (q # r => Other(q) = r)
    BY PlaceParts, EndFacts
  <2>2. CASE q = r
    BY <1>2, <1>4, <1>5, <2>2 DEF OwnPlace, Together, Building, Running, Updating
  <2>3. CASE q # r
    <3>1. place'[q] = place[q] /\ Other(q) = r
      BY <1>4, <2>1, <2>3
    <3>2. OwnPlace(q)'
      BY <2>1, <3>1 DEF OwnPlace, Building, ChunkAt
    <3>3. ~Running(q) /\ ~Updating(q) /\ ~(place[q].phase = "broadcast" /\ place[q].k > 0)
      BY <1>1, <2>1, <3>1 DEF Together, Running, Updating
    <3>4. QED BY <3>1, <3>2, <3>3 DEF Together, Running, Updating
  <2>4. QED BY <2>2, <2>3
<1>7. QED BY <1>3, <1>6 DEF PlaceInv, OwnPlace, Together

\* One device goes on to p without an operation that takes both.
LEMMA OneMoves ==
  ASSUME TypeInv, PlaceInv, NEW r \in Ends, NEW p \in Places,
         place' = [place EXCEPT ![r] = p], OwnPlace(r)',
         \/ Running(r) /\ Running(r)' /\ Passed(r)' = Passed(r)
         \/ Updating(r) /\ Updating(r)'
  PROVE  PlaceInv'
<1>1. place \in [Ends -> Places]
  BY DEF TypeInv, Places
<1>2. \A q \in Ends : place'[q] = IF q = r THEN p ELSE place[q]
  BY <1>1
<1>3. ASSUME NEW q \in Ends PROVE OwnPlace(q)' /\ Together(q)'
  <2>1. OwnPlace(q) /\ Together(q) /\ Together(r) /\ Other(q) \in Ends /\ Other(q) # q /\ (q # r => Other(q) = r)
    BY PlaceParts, EndFacts
  <2>2. CASE q = r
    <3>1. place'[Other(q)] = place[Other(q)]
      BY <1>2, <2>1, <2>2
    <3>2. Running(Other(q))' = Running(Other(q)) /\ Passed(Other(q))' = Passed(Other(q))
          /\ Updating(Other(q))' = Updating(Other(q))
      BY <3>1 DEF Running, Passed, Updating
    <3>3. ~(place'[q].phase = "broadcast")
      BY <2>2 DEF Running, Updating
    <3>4. ~(Running(r) /\ Updating(r)) /\ ~(Running(r)' /\ Updating(r)')
      BY DEF Running, Updating
    <3>5. QED BY <2>1, <2>2, <3>2, <3>3, <3>4 DEF Together
  <2>3. CASE q # r
    <3>1. place'[q] = place[q] /\ Other(q) = r
      BY <1>2, <2>1, <2>3
    <3>2. OwnPlace(q)'
      BY <2>1, <3>1 DEF OwnPlace, Building, ChunkAt
    <3>3. Running(q)' = Running(q) /\ Passed(q)' = Passed(q) /\ Updating(q)' = Updating(q)
      BY <3>1 DEF Running, Passed, Updating
    <3>4. ~(Running(r) /\ Updating(r)) /\ ~(place[r].phase = "broadcast")
      BY DEF Running, Updating
    <3>5. ~(place[q].phase = "broadcast" /\ place[q].k > 0)
      BY <2>1, <3>1, <3>4 DEF Together
    <3>6. QED BY <2>1, <3>1, <3>2, <3>3, <3>4, <3>5 DEF Together
  <2>4. QED BY <2>2, <2>3
<1>4. QED BY <1>3 DEF PlaceInv, OwnPlace, Together

LEMMA ZeroGradPlaces ==
  ASSUME TypeInv, PlaceInv, NEW r \in Ends, ZeroGrad(r)
  PROVE  TypeInv' /\ PlaceInv'
<1> DEFINE p == [phase |-> "schedule", k |-> 0]
<1>1. /\ place[r].phase = "zero" /\ place[r].k = 0
      /\ place' = [place EXCEPT ![r] = p]
      /\ buffer' = [buffer EXCEPT ![r] = ZeroGradBuffer(r)]
      /\ iteration' = [iteration EXCEPT ![r] = @ + 1]
      /\ UNCHANGED <<weight, rebound>>
  <2>1. place[r].phase = "zero" /\ place[r].k = 0
    BY DEF ZeroGrad, InPhase, PlaceInv
  <2>2. Onward(r, 1, p.phase) = p
    BY <2>1 DEF Onward
  <2>3. QED BY <2>1, <2>2 DEF ZeroGrad, Move
<1>2. p \in Places /\ place'[r] = p
  BY <1>1 DEF Places, TPhases, TypeInv
<1>3. ZeroGradBuffer(r) \in [Chunks -> [Params -> Int]]
  BY DEF ZeroGradBuffer
<1>4. TypeInv'
  BY <1>1, <1>2, <1>3 DEF TypeInv, Places, Table
<1>5. OwnPlace(r)' /\ Running(r) /\ Running(r)' /\ Passed(r)' = Passed(r)
  <2>1. 0 \in 0 .. Turns - 1 /\ 0 % 2 # 1 /\ 0 <= 4 * N - 2
    BY UnitFacts, HalfFacts DEF Turns
  <2>2. QED BY <1>1, <1>2, <2>1 DEF OwnPlace, Building, Running, Passed
<1>6. QED BY <1>1, <1>2, <1>4, <1>5, OneMoves

LEMMA ReduceModelGradsPlaces ==
  ASSUME TypeInv, PlaceInv, NEW r \in Ends, ReduceModelGrads(r)
  PROVE  TypeInv' /\ PlaceInv'
<1> DEFINE p == [phase |-> "update", k |-> 0]
           e == EmbeddingChunk(r)
           sum == buffer[r][e]["word"] + MainGrad(r, HeadChunk(r), "word")
<1>1. /\ place[r].phase = "reduce" /\ place[r].k = 0
      /\ place' = [place EXCEPT ![r] = p]
      /\ buffer' = [buffer EXCEPT ![r][e]["word"] = sum]
      /\ rebound' = [rebound EXCEPT ![r] = TRUE]
      /\ UNCHANGED <<iteration, weight>>
  <2>1. place[r].phase = "reduce" /\ place[r].k = 0
    BY DEF ReduceModelGrads, InPhase, PlaceInv
  <2>2. Onward(r, 1, p.phase) = p
    BY <2>1 DEF Onward
  <2>3. QED BY <2>1, <2>2 DEF ReduceModelGrads, Move
<1>2. p \in Places /\ place'[r] = p
  BY <1>1 DEF Places, TPhases, TypeInv
<1>3. sum \in Int /\ e \in Chunks
  <2>1. MainGrad(r, HeadChunk(r), "word") \in Int
    BY MainGradType, ChunkFacts DEF Params
  <2>2. QED BY <2>1, ChunkFacts DEF TypeInv, Table, Params
<1> HIDE DEF e, sum
<1>4. TypeInv'
  BY <1>1, <1>2, <1>3 DEF TypeInv, Places, Table, Params
<1>5. OwnPlace(r)' /\ Updating(r) /\ Updating(r)'
  BY <1>1, <1>2 DEF OwnPlace, Building, Updating
<1>6. QED BY <1>1, <1>2, <1>4, <1>5, OneMoves

\* A backward pass is at an even turn, before the first marker or between the two.
LEMMA BackwardTurn ==
  ASSUME PlaceInv, NEW r \in Ends, Backward(r)
  PROVE  /\ place[r].phase = "schedule" /\ place[r].k \in Nat /\ place[r].k % 2 = 0
         /\ place[r].k <= 4 * N - 4 \/ place[r].k = 4 * N
         /\ ChunkAt(r) \in Chunks
<1>1. /\ place[r].phase = "schedule" /\ place[r].k \in 0 .. Turns - 1 /\ ChunkAt(r) # Sync
      /\ place[r].k % 2 # 1
  BY DEF Backward, InPhase, PlaceInv
<1>2. place[r].k \notin {4 * N - 2, 4 * N - 1, 4 * N + 2, 4 * N + 3} /\ ChunkAt(r) \in Chunks
  BY <1>1, MarkerTurns
<1>3. QED BY <1>1, <1>2, UnitFacts DEF Turns

LEMMA BackwardPassPlaces ==
  ASSUME TypeInv, PlaceInv, NEW r \in Ends, Backward(r)
  PROVE  TypeInv' /\ PlaceInv'
<1> DEFINE c == ChunkAt(r)
           p == [place[r] EXCEPT !.k = @ + 2]
           new == [d \in Chunks |-> [x \in Params |->
                     buffer[r][d][x] + IF x \in Held(r, c) /\ d = SlotChunk(r, c, x)
                                       THEN MbGrad[r][c][x] ELSE 0]]
<1>1. /\ place' = [place EXCEPT ![r].k = @ + 2]
      /\ buffer' = [buffer EXCEPT ![r] = new]
      /\ UNCHANGED <<iteration, weight, rebound>>
  BY DEF Backward
<1>2. /\ place[r].phase = "schedule" /\ place[r].k \in Nat /\ place[r].k % 2 = 0
      /\ place[r].k <= 4 * N - 4 \/ place[r].k = 4 * N
      /\ c \in Chunks
  BY BackwardTurn
<1>3. place \in [Ends -> Places] /\ N \in Nat /\ N >= 1
  BY UnitFacts, HalfFacts DEF TypeInv, Places
<1>4. place' = [place EXCEPT ![r] = p] /\ p \in Places /\ place'[r] = p
      /\ p.phase = "schedule" /\ p.k = place[r].k + 2
  BY <1>1, <1>2, <1>3 DEF Places
<1>5. new \in [Chunks -> [Params -> Int]]
  BY <1>2, ValuesAssumption DEF TypeInv, Table
<1> HIDE DEF new
<1>6. TypeInv'
  BY <1>1, <1>3, <1>4, <1>5 DEF TypeInv, Places, Table
<1>7. OwnPlace(r)' /\ Running(r) /\ Running(r)' /\ Passed(r)' = Passed(r)
  <2>1. p.k \in 0 .. Turns - 1 /\ p.k % 2 # 1
    BY <1>2, <1>3, <1>4 DEF Turns
  <2>2. OwnPlace(r)'
    BY <1>4, <2>1 DEF OwnPlace, Building
  <2>3. Running(r) /\ Running(r)'
    BY <1>2, <1>4 DEF Running
  <2>4. Passed(r)' = Passed(r)
    BY <1>2, <1>3, <1>4 DEF Passed
  <2>5. QED BY <2>2, <2>3, <2>4
<1>8. QED BY <1>4, <1>6, <1>7, OneMoves

LEMMA EmbeddingAllReducePlaces ==
  ASSUME TypeInv, PlaceInv, EmbeddingAllReduce
  PROVE  TypeInv' /\ PlaceInv'
<1> DEFINE sum == weight[0][place[0].k]["word"] + weight[P-1][place[P-1].k]["word"]
<1>1. /\ place' = [r \in Ends |-> Onward(r, 4, "broadcast")]
      /\ weight' = [r \in Ends |-> [weight[r] EXCEPT ![place[r].k]["word"] = sum]]
      /\ \A r \in Ends : place[r].phase = "build"
      /\ UNCHANGED <<iteration, buffer, rebound>>
  BY DEF EmbeddingAllReduce, InPhase, MoveBoth
<1>2. \A r \in Ends : place[r].k \in Chunks /\ Onward(r, 4, "broadcast") \in Places
  BY <1>1, OnwardType, 4 \in Nat DEF PlaceInv, Building, Chunks, TPhases
<1>3. sum \in Int
  BY <1>2, EndFacts DEF TypeInv, Table, Params, Last
<1> HIDE DEF sum
<1>4. TypeInv'
  BY <1>1, <1>2, <1>3 DEF TypeInv, Places, Table, Params
<1>5. ASSUME NEW r \in Ends
      PROVE  \/ place'[r].phase = "build" /\ place'[r].k \in 0 .. 3
             \/ place'[r].phase = "broadcast" /\ place'[r].k = 0
  BY <1>1, <1>2 DEF Onward, TypeInv, Chunks
<1>6. \A r \in Ends : place'[r] \in Places
  BY <1>4 DEF TypeInv, Places
<1>7. QED BY <1>4, <1>5, <1>6 DEF PlaceInv, Building, Running, Updating

\* Both devices broadcast the same turn.
LEMMA BroadcastTogether ==
  ASSUME TypeInv, PlaceInv, Broadcast
  PROVE  /\ place[0].phase = "broadcast" /\ place[Last].phase = "broadcast"
         /\ place[0].k \in Chunks /\ place[Last].k = place[0].k
         /\ BroadcastChunk(0, place[0].k) = place[0].k
         /\ BroadcastChunk(Last, place[Last].k) = Twin(place[0].k)
<1>1. /\ place[0].phase = "broadcast" /\ place[Last].phase = "broadcast"
      /\ place[0].k \in Chunks /\ place[Last].k \in Chunks
  BY EndFacts DEF Broadcast, InPhase, PlaceInv, Building, Chunks
<1>2. place[Last].k = place[0].k
  <2>1. place[0].k > 0 => place[Last] = place[0]
    BY <1>1, EndFacts DEF PlaceInv
  <2>2. place[Last].k > 0 => place[0] = place[Last]
    BY <1>1, EndFacts DEF PlaceInv
  <2>3. QED BY <1>1, <2>1, <2>2 DEF Chunks
<1>3. QED BY <1>1, <1>2, EndFacts DEF BroadcastChunk, Twin

LEMMA BroadcastPlaces ==
  ASSUME TypeInv, PlaceInv, Broadcast
  PROVE  TypeInv' /\ PlaceInv'
<1> DEFINE k == place[0].k
           next == IF k + 1 < 4 THEN [phase |-> "broadcast", k |-> k + 1]
                                ELSE [phase |-> "zero", k |-> 0]
           row == [x \in Params |-> IF x \in Held(0, k) \cap Held(P - 1, Twin(k))
                                    THEN weight[0][k][x] ELSE weight[P - 1][Twin(k)][x]]
<1>1. /\ place[0].phase = "broadcast" /\ place[Last].phase = "broadcast"
      /\ k \in Chunks /\ place[Last].k = k
      /\ BroadcastChunk(0, place[0].k) = k
      /\ BroadcastChunk(Last, place[Last].k) = Twin(k)
  BY BroadcastTogether
<1>2. /\ place' = [r \in Ends |-> Onward(r, 4, "zero")]
      /\ weight' = [weight EXCEPT ![Last][Twin(k)] = row]
      /\ UNCHANGED <<iteration, buffer, rebound>>
  BY <1>1 DEF Broadcast, MoveBoth, Last
<1>3. \A r \in Ends : place[r] = [phase |-> "broadcast", k |-> k] /\ place[r] \in Places
  BY <1>1, EndFacts DEF TypeInv, Places
<1>4. \A r \in Ends : place'[r] = next /\ next \in Places
  BY <1>1, <1>2, <1>3 DEF Onward, Places, TPhases, Chunks
<1>5. row \in [Params -> Int] /\ Twin(k) \in Chunks
  BY <1>1, EndFacts, ChunkFacts DEF TypeInv, Table, Last
<1> HIDE DEF row
<1>6. place' \in [Ends -> Places]
  BY <1>2, <1>4
<1>7. TypeInv'
  BY <1>2, <1>5, <1>6 DEF TypeInv, Places, Table
<1>8. \/ next.phase = "broadcast" /\ next.k \in 0 .. 3
      \/ next.phase = "zero" /\ next.k = 0
  BY <1>1 DEF Chunks
<1> HIDE DEF next
<1>9. ASSUME NEW r \in Ends PROVE OwnPlace(r)' /\ Together(r)'
  <2>1. place'[r] = next /\ place'[Other(r)] = next /\ next \in Places
    BY <1>4, EndFacts
  <2>2. Running(r)' = Running(Other(r))' /\ Passed(Other(r))' = Passed(r)'
    BY <2>1 DEF Running, Passed
  <2>3. QED BY <1>8, <2>1, <2>2 DEF OwnPlace, Together, Building, Updating
<1>10. QED BY <1>7, <1>9 DEF PlaceInv, OwnPlace, Together

\* Both devices are in the same turn of the same marker.
LEMMA ReduceTogether ==
  ASSUME TypeInv, PlaceInv, AllReduceGradients
  PROVE  /\ \A r \in Ends : place[r] = [phase |-> "schedule", k |-> place[0].k] /\ ChunkAt(r) = Sync
         /\ place[0].k \in {4 * N - 2, 4 * N - 1, 4 * N + 2, 4 * N + 3}
         /\ N \in Nat /\ N >= 1
<1>1. \A r \in Ends : place[r].phase = "schedule" /\ ChunkAt(r) = Sync
  BY DEF AllReduceGradients, InPhase
<1>2. \A r \in Ends : place[r].k \in {4 * N - 2, 4 * N - 1, 4 * N + 2, 4 * N + 3}
  BY <1>1, MarkerTurns DEF PlaceInv
<1>3. N \in Nat /\ N >= 1
  BY UnitFacts, HalfFacts
<1>4. Passed(0) = Passed(Last)
  BY <1>1, EndFacts DEF PlaceInv, Running
<1>5. place[0].k = place[Last].k
  BY <1>1, <1>2, <1>3, <1>4, EndFacts DEF Passed
<1>6. QED BY <1>1, <1>2, <1>3, <1>5, EndFacts DEF TypeInv

LEMMA AllReduceGradientsPlaces ==
  ASSUME TypeInv, PlaceInv, AllReduceGradients
  PROVE  TypeInv' /\ PlaceInv'
<1> DEFINE k == place[0].k
           next == IF k + 1 < Turns THEN [phase |-> "schedule", k |-> k + 1]
                                    ELSE [phase |-> "reduce", k |-> 0]
           c == [r \in Ends |-> SyncedChunk(r)]
           mean(x) == (MainGrad(0, c[0], x) + MainGrad(P-1, c[P-1], x)) \div 2
<1>1. /\ \A r \in Ends : place[r] = [phase |-> "schedule", k |-> k] /\ ChunkAt(r) = Sync
      /\ k \in {4 * N - 2, 4 * N - 1, 4 * N + 2, 4 * N + 3}
      /\ N \in Nat /\ N >= 1
  BY ReduceTogether
<1>2. /\ place' = [r \in Ends |-> Onward(r, 2 * (TotalNumMicrobatches + 2), "reduce")]
      /\ buffer' = [r \in Ends |-> [d \in Chunks |-> [x \in Params |->
           IF d = SlotChunk(r, c[r], x) /\ x \in Held(r, c[r])
           THEN mean(x) ELSE buffer[r][d][x]]]]
      /\ UNCHANGED <<iteration, weight, rebound>>
  BY DEF AllReduceGradients, MoveBoth
<1>3. \A r \in Ends : c[r] \in Chunks
  BY <1>1 DEF SyncedChunk, Chunks
<1>4. \A x \in Params : mean(x) \in Int
  BY <1>3, EndFacts, MainGradType DEF Last
<1> HIDE DEF c, mean
<1>5. buffer' \in Table
  BY <1>2, <1>4 DEF TypeInv, Table
<1>6. 2 * (TotalNumMicrobatches + 2) = Turns /\ k \in Nat
  BY <1>1 DEF TotalNumMicrobatches, Turns
<1>7. \A r \in Ends : place'[r] = next /\ next \in Places
  BY <1>1, <1>2, <1>6 DEF Onward, Places, TPhases
<1>8. place' \in [Ends -> Places]
  BY <1>2, <1>7
<1>9. TypeInv'
  BY <1>2, <1>5, <1>8 DEF TypeInv, Places
<1>10. \/ /\ next.phase = "schedule" /\ next.k \in 0 .. Turns - 1
          /\ next.k % 2 = 1 => next.k \div 2 = k \div 2
       \/ next.phase = "reduce" /\ next.k = 0
  BY <1>1, <1>6 DEF Turns
<1> HIDE DEF next
<1>11. ASSUME NEW r \in Ends PROVE OwnPlace(r)' /\ Together(r)'
  <2>1. place'[r] = next /\ place'[Other(r)] = next /\ next \in Places
    BY <1>7, EndFacts
  <2>2. Running(r)' = Running(Other(r))' /\ Passed(Other(r))' = Passed(r)'
        /\ Updating(r)' = Updating(Other(r))'
    BY <2>1 DEF Running, Passed, Updating
  <2>3. next.phase = "schedule" /\ next.k % 2 = 1 => ChunkAt(r)' = Sync
    BY <1>1, <1>10, <2>1 DEF ChunkAt
  <2>4. QED BY <1>10, <2>1, <2>2, <2>3 DEF OwnPlace, Together, Building
<1>12. QED BY <1>9, <1>11 DEF PlaceInv, OwnPlace, Together

LEMMA OptimizerStepPlaces ==
  ASSUME TypeInv, PlaceInv, OptimizerStep
  PROVE  TypeInv' /\ PlaceInv'
<1> DEFINE next == [phase |-> "zero", k |-> 0]
<1>1. PICK inf \in [Ends -> BOOLEAN] :
        weight' = [r \in Ends |-> [c \in Chunks |-> [x \in Params |->
          IF FoundInf(inf, r) \/ x \notin Held(r, c) THEN weight[r][c][x]
          ELSE weight[r][c][x] - MainGrad(r, c, x)]]]
  BY DEF OptimizerStep
<1>2. /\ place' = [r \in Ends |-> Onward(r, 1, "zero")]
      /\ \A r \in Ends : place[r].phase = "update" /\ place[r].k = 0
      /\ UNCHANGED <<iteration, buffer, rebound>>
  BY DEF OptimizerStep, MoveBoth, InPhase, PlaceInv
<1>3. \A r \in Ends : Onward(r, 1, "zero") = next
  BY <1>2 DEF Onward
<1>4. \A r \in Ends : place'[r] = next /\ next \in Places
  BY <1>2, <1>3 DEF Places, TPhases
<1>5. place' \in [Ends -> Places]
  BY <1>2, <1>3, <1>4
<1>6. \A r \in Ends, c \in Chunks, x \in Params : weight[r][c][x] - MainGrad(r, c, x) \in Int
  <2> SUFFICES ASSUME NEW r \in Ends, NEW c \in Chunks, NEW x \in Params
               PROVE  weight[r][c][x] - MainGrad(r, c, x) \in Int
    OBVIOUS
  <2>1. weight[r][c][x] \in Int
    BY DEF TypeInv, Table
  <2>2. QED BY <2>1, MainGradType
<1>7. weight' \in Table
  BY <1>1, <1>6 DEF TypeInv, Table
<1>8. TypeInv'
  BY <1>2, <1>5, <1>7 DEF TypeInv, Places
<1>9. ASSUME NEW r \in Ends PROVE OwnPlace(r)' /\ Together(r)'
  <2>1. place'[r] = next /\ place'[Other(r)] = next /\ next \in Places
    BY <1>4, EndFacts
  <2>2. QED BY <2>1 DEF OwnPlace, Together, Building, Running, Updating, Passed
<1>10. QED BY <1>8, <1>9 DEF PlaceInv, OwnPlace, Together

----------------------------------------------------------------------------
\* Weights and gradients.
LEMMA RunningEnds ==
  ASSUME PlaceInv, NEW r \in Ends
  PROVE  /\ Running(r) => Running(0) /\ Running(Last) /\ Passed(0) = Passed(r)
         /\ Updating(r) => Updating(0) /\ Updating(Last)
BY EndFacts DEF PlaceInv

\* After the building, a step that writes no parameter.
LEMMA WeightsKept ==
  ASSUME WeightInv, ~Building(0), weight' = weight
  PROVE  WeightInv'
BY DEF WeightInv, SameWeight

LEMMA BuildChunkAgrees ==
  ASSUME TypeInv, PlaceInv, WeightInv, GradInv, NEW r \in Ends, BuildChunk(r)
  PROVE  WeightInv' /\ GradInv'
<1>1. /\ place[r].phase = "build" /\ place[r].k \in 0 .. 3
      /\ place' = [place EXCEPT ![r] = Onward(r, 4, "broadcast")]
      /\ UNCHANGED <<iteration, weight, buffer, rebound>>
  BY DEF BuildChunk, InPhase, Move, PlaceInv, Building
<1>2. \A q \in Ends : place'[q] = IF q = r THEN Onward(r, 4, "broadcast") ELSE place[q]
  BY <1>1 DEF TypeInv
<1>3. \/ place'[r].phase = "build"
      \/ place'[r].phase = "broadcast" /\ place'[r].k = 0
  BY <1>1, <1>2 DEF Onward, TypeInv
<1>4. ~Running(r) /\ ~Updating(r) /\ ~Running(r)' /\ ~Updating(r)' /\ Building(r)'
  BY <1>1, <1>3 DEF Running, Updating, Building
<1>5. ~Running(0) /\ ~Updating(0) /\ ~Running(Last) /\ ~Updating(Last)
  BY <1>4, EndFacts DEF PlaceInv
<1>6. ~Running(0)' /\ ~Updating(0)' /\ ~Updating(Last)'
  BY <1>2, <1>4, <1>5, EndFacts DEF Running, Updating
<1>7. GradInv'
  BY <1>1, <1>5, <1>6, EndFacts DEF GradInv, Updating
<1>8. WeightInv'
  <2>1. CASE r = 0
    BY <1>3, <1>4, <2>1 DEF WeightInv, Chunks
  <2>2. CASE r # 0
    <3>1. place'[0] = place[0]
      BY <1>2, <2>2, EndFacts
    <3>2. QED BY <1>1, <3>1 DEF WeightInv, SameWeight, Building
  <2>3. QED BY <2>1, <2>2
<1>9. QED BY <1>7, <1>8

LEMMA EmbeddingAllReduceAgrees ==
  ASSUME TypeInv, PlaceInv, WeightInv, GradInv, EmbeddingAllReduce
  PROVE  WeightInv' /\ GradInv'
<1>1. /\ place' = [r \in Ends |-> Onward(r, 4, "broadcast")]
      /\ \A r \in Ends : place[r].phase = "build" /\ place[r].k \in 0 .. 3
      /\ UNCHANGED <<iteration, buffer, rebound>>
  BY DEF EmbeddingAllReduce, InPhase, MoveBoth, PlaceInv, Building
<1>2. ASSUME NEW r \in Ends
      PROVE  \/ place'[r].phase = "build"
             \/ place'[r].phase = "broadcast" /\ place'[r].k = 0
  BY <1>1 DEF Onward, TypeInv
<1>3. ~Updating(0) /\ ~Running(0)' /\ ~Updating(0)' /\ ~Updating(Last)' /\ Building(0)'
  BY <1>1, <1>2, EndFacts DEF Running, Updating, Building
<1>4. GradInv'
  BY <1>1, <1>3, EndFacts DEF GradInv, Updating
<1>5. WeightInv'
  BY <1>2, <1>3, EndFacts DEF WeightInv, Chunks
<1>6. QED BY <1>4, <1>5

LEMMA BroadcastAgrees ==
  ASSUME TypeInv, PlaceInv, WeightInv, GradInv, Broadcast
  PROVE  WeightInv' /\ GradInv'
<1> DEFINE k == place[0].k
           row == [x \in Params |-> IF x \in Held(0, k) \cap Held(P - 1, Twin(k))
                                    THEN weight[0][k][x] ELSE weight[P - 1][Twin(k)][x]]
<1>1. /\ place[0].phase = "broadcast" /\ place[Last].phase = "broadcast"
      /\ k \in Chunks /\ place[Last].k = k
      /\ BroadcastChunk(0, place[0].k) = k
      /\ BroadcastChunk(Last, place[Last].k) = Twin(k)
  BY BroadcastTogether
<1>2. /\ place' = [r \in Ends |-> Onward(r, 4, "zero")]
      /\ weight' = [weight EXCEPT ![Last][Twin(k)] = row]
      /\ UNCHANGED <<iteration, buffer, rebound>>
  BY <1>1 DEF Broadcast, MoveBoth, Last
<1>3. ASSUME NEW r \in Ends
      PROVE  \/ place'[r].phase = "broadcast" /\ place'[r].k = k + 1
             \/ place'[r].phase = "zero" /\ k = 3
  BY <1>1, <1>2, EndFacts DEF Onward, TypeInv, Chunks
<1>4. ~Updating(0) /\ ~Updating(0)' /\ ~Updating(Last)' /\ ~InPhase(0, "schedule")'
  BY <1>1, <1>3, EndFacts DEF Updating, InPhase
<1>5. GradInv'
  BY <1>2, <1>4, EndFacts DEF GradInv, Updating, InPhase, Passed
<1>6. ASSUME NEW c \in Chunks, c <= k
      PROVE  SameWeight(c)'
  <2>1. Held(0, c) \subseteq Params /\ Held(Last, Twin(c)) = Held(0, c)
        /\ Twin(c) \in Chunks /\ Twin(k) \in Chunks /\ (c # k => Twin(c) # Twin(k))
    BY <1>1, ChunkFacts, EndFacts
  <2>2. /\ weight'[0][c] = weight[0][c]
        /\ weight'[Last][Twin(c)] = IF c = k THEN row ELSE weight[Last][Twin(c)]
    BY <1>2, <2>1, EndFacts DEF TypeInv, Table
  <2>3. CASE c = k
    BY <2>1, <2>2, <2>3 DEF SameWeight, Last
  <2>4. CASE c # k
    <3>1. SameWeight(c)
      BY <1>1, <1>6, <2>4 DEF WeightInv, Chunks
    <3>2. QED BY <2>2, <2>4, <3>1 DEF SameWeight
  <2>5. QED BY <2>3, <2>4
<1>7. WeightInv'
  <2> SUFFICES ASSUME NEW c \in Chunks, ~(c <= k)
               PROVE  Building(0)' /\ place'[0].k <= c
    BY <1>6 DEF WeightInv
  <2>1. QED BY <1>1, <1>3, EndFacts DEF Chunks, Building
<1>8. QED BY <1>5, <1>7

LEMMA ZeroGradAgrees ==
  ASSUME TypeInv, PlaceInv, WeightInv, GradInv, NEW r \in Ends, ZeroGrad(r)
  PROVE  WeightInv' /\ GradInv'
<1>1. /\ place[r].phase = "zero"
      /\ place' = [place EXCEPT ![r] = [phase |-> "schedule", k |-> 0]]
      /\ UNCHANGED <<weight, rebound>>
  <2>1. place[r].phase = "zero" /\ place[r].k = 0
    BY DEF ZeroGrad, InPhase, PlaceInv
  <2>2. Onward(r, 1, "schedule") = [phase |-> "schedule", k |-> 0]
    BY <2>1 DEF Onward
  <2>3. QED BY <2>1, <2>2 DEF ZeroGrad, Move
<1>2. Running(0) /\ Running(Last) /\ Passed(0) = 0 /\ Passed(Last) = 0
  BY <1>1, RunningEnds, EndFacts DEF Running, Passed, PlaceInv
<1>3. Running(0)' /\ Running(Last)' /\ Passed(0)' = 0
  <2>1. 0 <= 4 * N - 2
    BY UnitFacts, HalfFacts
  <2>2. QED BY <1>1, <1>2, <2>1, EndFacts DEF Running, Passed, TypeInv
<1>4. ~Building(0) /\ ~Updating(0) /\ ~Updating(0)' /\ ~Updating(Last)'
  BY <1>2, <1>3 DEF Building, Updating, Running
<1>5. GradInv'
  BY <1>1, <1>3, <1>4, EndFacts DEF GradInv, Updating
<1>6. QED BY <1>1, <1>4, <1>5, WeightsKept

LEMMA BackwardAgrees ==
  ASSUME TypeInv, PlaceInv, WeightInv, GradInv, NEW r \in Ends, Backward(r)
  PROVE  WeightInv' /\ GradInv'
<1> DEFINE c == ChunkAt(r)
           new == [d \in Chunks |-> [x \in Params |->
                     buffer[r][d][x] + IF x \in Held(r, c) /\ d = SlotChunk(r, c, x)
                                       THEN MbGrad[r][c][x] ELSE 0]]
<1>1. /\ place' = [place EXCEPT ![r].k = @ + 2]
      /\ buffer' = [buffer EXCEPT ![r] = new]
      /\ UNCHANGED <<iteration, weight, rebound>>
  BY DEF Backward
<1>2. /\ place[r].phase = "schedule" /\ place[r].k \in Nat
      /\ place[r].k <= 4 * N - 4 \/ place[r].k = 4 * N
      /\ N \in Nat /\ N >= 1 /\ c \in Chunks
  BY BackwardTurn, UnitFacts, HalfFacts
<1>3. /\ \A q \in Ends : q # r => place'[q] = place[q] /\ buffer'[q] = buffer[q]
      /\ place'[r].phase = "schedule" /\ place'[r].k = place[r].k + 2
      /\ buffer'[r] = new
  BY <1>1, <1>2 DEF TypeInv, Table
<1>4. \A q \in Ends : Running(q) /\ Running(q)' /\ Passed(q)' = Passed(q) /\ Passed(q) = Passed(0)
  <2>1. Running(r) /\ Running(r)' /\ Passed(r)' = Passed(r)
    BY <1>2, <1>3 DEF Running, Passed
  <2>2. \A q \in Ends : Running(q) /\ Passed(q) = Passed(0)
    BY <2>1, RunningEnds, EndFacts
  <2>3. \A q \in Ends : q # r => Running(q)' /\ Passed(q)' = Passed(q)
    BY <1>3, <2>2 DEF Running, Passed
  <2>4. QED BY <2>1, <2>2, <2>3
<1>5. ~Building(0) /\ ~Updating(0) /\ ~Updating(0)' /\ ~Updating(Last)'
  BY <1>4, EndFacts DEF Building, Updating, Running
\* Once a chunk is reduced, the only pass left is that of the embedding chunk.
<1>6. ASSUME Passed(0) >= 1
      PROVE  /\ Passed(0) = 2
             /\ \A d \in Chunks, x \in Params :
                  d # EmbeddingChunk(r) => buffer'[r][d][x] = buffer[r][d][x]
  <2>1. Passed(r) = Passed(0)
    BY <1>4
  <2>2. place[r].k = 4 * N /\ Passed(0) = 2
    BY <1>2, <1>6, <2>1 DEF Passed
  <2>3. c = EmbeddingChunk(r)
    BY <2>2, MarkerTurns, <1>2 DEF Turns
  <2>4. \A x \in Params : SlotChunk(r, c, x) = EmbeddingChunk(r)
    BY <2>3 DEF SlotChunk
  <2>5. \A d \in Chunks, x \in Params : buffer[r][d][x] \in Int
    BY DEF TypeInv, Table
  <2>6. QED BY <1>3, <2>2, <2>4, <2>5
<1>7. /\ Passed(0) >= 1 => SameSlot(2, "layers")' /\ (~rebound[0] => SameSlot(2, "word")')
      /\ Passed(0) >= 2 => SameSlot(3, "layers")'
  <2> SUFFICES ASSUME Passed(0) >= 1
               PROVE  /\ SameSlot(2, "layers")' /\ (~rebound[0] => SameSlot(2, "word")')
                      /\ SameSlot(3, "layers")'
    BY DEF Passed
  <2>1. SameSlot(2, "layers") /\ (~rebound[0] => SameSlot(2, "word")) /\ SameSlot(3, "layers")
    BY <1>4, <1>6, EndFacts DEF GradInv
  <2>2. \A d \in {2, 3}, x \in Params :
          buffer'[0][d][x] = buffer[0][d][x] /\ buffer'[Last][Twin(d)][x] = buffer[Last][Twin(d)][x]
    <3>1. \A d \in {2, 3} : d \in Chunks /\ Twin(d) \in Chunks /\ d # EmbeddingChunk(0)
                            /\ Twin(d) # EmbeddingChunk(Last)
      BY ChunkFacts DEF Chunks, Twin
    <3>2. CASE r = 0
      BY <1>3, <1>6, <3>1, <3>2, EndFacts
    <3>3. CASE r = Last
      BY <1>3, <1>6, <3>1, <3>3, EndFacts
    <3>4. QED BY <3>2, <3>3, EndFacts
  <2>3. QED BY <2>1, <2>2 DEF SameSlot, Params
<1>8. Passed(0)' = Passed(0) /\ Passed(0) \in 0 .. 2
  <2>1. Passed(0) \in 0 .. 3
    BY DEF Passed
  <2>2. QED BY <1>4, <1>6, <2>1, EndFacts
<1>9. GradInv'
  BY <1>1, <1>5, <1>7, <1>8, EndFacts DEF GradInv, Updating
<1>10. QED BY <1>1, <1>5, <1>9, WeightsKept

\* What an all-reduce leaves: the slots of the chunks of its turn are the same
\* on both devices, every other slot is as it was.
LEMMA ReduceEffect ==
  ASSUME TypeInv, PlaceInv, GradInv, AllReduceGradients
  PROVE  /\ SyncedChunk(0) \in Chunks /\ SyncedChunk(Last) = Twin(SyncedChunk(0))
         /\ \A d \in Chunks, x \in Params :
              IF x \in Held(0, SyncedChunk(0)) /\ d = SlotChunk(0, SyncedChunk(0), x)
              THEN SameSlot(d, x)'
              ELSE /\ buffer'[0][d][x] = buffer[0][d][x]
                   /\ buffer'[Last][Twin(d)][x] = buffer[Last][Twin(d)][x]
<1> DEFINE c == [r \in Ends |-> SyncedChunk(r)]
           mean(x) == (MainGrad(0, c[0], x) + MainGrad(P-1, c[P-1], x)) \div 2
           b == SyncedChunk(0)
<1>1. /\ \A r \in Ends : place[r] = [phase |-> "schedule", k |-> place[0].k]
      /\ place[0].k \in {4 * N - 2, 4 * N - 1, 4 * N + 2, 4 * N + 3}
      /\ N \in Nat /\ N >= 1
  BY ReduceTogether
<1>2. buffer' = [r \in Ends |-> [d \in Chunks |-> [x \in Params |->
           IF d = SlotChunk(r, c[r], x) /\ x \in Held(r, c[r])
           THEN mean(x) ELSE buffer[r][d][x]]]]
  BY DEF AllReduceGradients
<1>3. b \in Chunks /\ SyncedChunk(Last) = Twin(b)
  BY <1>1, EndFacts, HalfFacts DEF SyncedChunk, Chunks, Twin
<1>4. c[0] = b /\ c[Last] = Twin(b) /\ Twin(b) \in Chunks /\ Held(Last, Twin(b)) = Held(0, b)
  BY <1>3, EndFacts, ChunkFacts
<1>5. rebound[0] = rebound[Last]
  BY <1>1, EndFacts DEF GradInv, Updating
<1>6. \A x \in Params : SlotChunk(Last, Twin(b), x) = Twin(SlotChunk(0, b, x))
                        /\ SlotChunk(0, b, x) \in Chunks
  BY <1>3, <1>5, ChunkFacts DEF SlotChunk, Chunks, Twin
<1> HIDE DEF c, mean, b
<1>7. ASSUME NEW d \in Chunks, NEW x \in Params
      PROVE  IF x \in Held(0, b) /\ d = SlotChunk(0, b, x)
             THEN SameSlot(d, x)'
             ELSE /\ buffer'[0][d][x] = buffer[0][d][x]
                  /\ buffer'[Last][Twin(d)][x] = buffer[Last][Twin(d)][x]
  <2>1. Twin(d) \in Chunks /\ Twin(Twin(d)) = d /\ SlotChunk(0, b, x) \in Chunks
        /\ Twin(Twin(SlotChunk(0, b, x))) = SlotChunk(0, b, x)
    BY <1>6, ChunkFacts
  <2>2. buffer'[0][d][x] = IF d = SlotChunk(0, b, x) /\ x \in Held(0, b)
                           THEN mean(x) ELSE buffer[0][d][x]
    BY <1>2, <1>4, EndFacts
  <2>3. buffer'[Last][Twin(d)][x]
          = IF d = SlotChunk(0, b, x) /\ x \in Held(0, b)
            THEN mean(x) ELSE buffer[Last][Twin(d)][x]
    BY <1>2, <1>4, <1>6, <2>1, EndFacts
  <2>4. QED BY <2>2, <2>3 DEF SameSlot
<1>8. QED BY <1>3, <1>7 DEF b

LEMMA AllReduceGradientsAgrees ==
  ASSUME TypeInv, PlaceInv, WeightInv, GradInv, AllReduceGradients
  PROVE  WeightInv' /\ GradInv'
<1> DEFINE k == place[0].k
           b == SyncedChunk(0)
<1>1. /\ \A r \in Ends : place[r] = [phase |-> "schedule", k |-> k]
      /\ k \in {4 * N - 2, 4 * N - 1, 4 * N + 2, 4 * N + 3}
      /\ N \in Nat /\ N >= 1
  BY ReduceTogether
<1>2. /\ place' = [r \in Ends |-> Onward(r, 2 * (TotalNumMicrobatches + 2), "reduce")]
      /\ UNCHANGED <<iteration, weight, rebound>>
  BY DEF AllReduceGradients, MoveBoth
<1>3. 2 * (TotalNumMicrobatches + 2) = Turns
  BY <1>1 DEF TotalNumMicrobatches, Turns
<1>4. \A r \in Ends :
        /\ k # 4 * N + 3 => place'[r].phase = "schedule" /\ place'[r].k = k + 1
        /\ k = 4 * N + 3 => place'[r].phase = "reduce"
  BY <1>1, <1>2, <1>3 DEF Onward, Turns
<1>5. Running(0) /\ Running(Last) /\ ~Building(0) /\ ~Updating(0) /\ rebound[0] = rebound[Last]
      /\ rebound[0] \in BOOLEAN
  BY <1>1, EndFacts DEF Running, Building, Updating, GradInv, TypeInv
<1>6. /\ k = 4 * N - 2 => b = 2 /\ Passed(0) = 0 /\ Passed(0)' = 1
      /\ k = 4 * N - 1 => b = 3 /\ Passed(0) = 1 /\ Passed(0)' = 2
      /\ k = 4 * N + 2 => b = 0 /\ Passed(0) = 2 /\ Passed(0)' = 3
      /\ k = 4 * N + 3 => b = 1 /\ Passed(0) = 3
  <2>1. /\ (4 * N - 2) \div 2 = 2 * N - 1 /\ (4 * N - 2) % 2 = 0
        /\ (4 * N - 1) \div 2 = 2 * N - 1 /\ (4 * N - 1) % 2 = 1
        /\ (4 * N + 2) \div 2 = 2 * N + 1 /\ (4 * N + 2) % 2 = 0
        /\ (4 * N + 3) \div 2 = 2 * N + 1 /\ (4 * N + 3) % 2 = 1
    BY <1>1
  <2>2. b = (IF k \div 2 < 2 * N + 1 THEN 2 ELSE 0) + (k % 2)
    BY EndFacts, HalfFacts DEF SyncedChunk, TotalNumMicrobatches
  <2>3. /\ k = 4 * N - 2 => b = 2
        /\ k = 4 * N - 1 => b = 3
        /\ k = 4 * N + 2 => b = 0
        /\ k = 4 * N + 3 => b = 1
    BY <1>1, <2>1, <2>2
  <2>4. place[0].phase = "schedule"
    BY <1>1, EndFacts
  <2>5. k # 4 * N + 3 => place'[0].phase = "schedule" /\ place'[0].k = k + 1
    BY <1>4, EndFacts
  <2>6. QED BY <1>1, <2>3, <2>4, <2>5 DEF Passed
<1>7. /\ ~Updating(Last)' \/ k = 4 * N + 3
      /\ ~Updating(0)' \/ k = 4 * N + 3
      /\ \A r \in Ends : place'[r].phase # "update"
      /\ Running(0)' => k # 4 * N + 3
  BY <1>1, <1>4, EndFacts DEF Updating, Running
\* The slots of a turn, and what no later turn of the step touches.
<1>8. /\ \A d \in Chunks, x \in Held(0, b) : d = SlotChunk(0, b, x) => SameSlot(d, x)'
      /\ \A d \in Chunks, x \in Params :
           d # SlotChunk(0, b, x) \/ x \notin Held(0, b) =>
             (SameSlot(d, x) => SameSlot(d, x)')
  <2>1. \A d \in Chunks, x \in Params :
          IF x \in Held(0, b) /\ d = SlotChunk(0, b, x)
          THEN SameSlot(d, x)'
          ELSE /\ buffer'[0][d][x] = buffer[0][d][x]
               /\ buffer'[Last][Twin(d)][x] = buffer[Last][Twin(d)][x]
    BY ReduceEffect
  <2>2. b \in Chunks /\ \A x \in Params : SlotChunk(0, b, x) \in Chunks
    BY ReduceEffect, MainGradType, EndFacts
  <2>3. Held(0, b) \subseteq Params
    BY <2>2, ChunkFacts, EndFacts
  <2>4. QED BY <2>1, <2>2, <2>3 DEF SameSlot
<1>9. /\ SlotChunk(0, b, "layers") = b /\ "layers" \in Held(0, b)
      /\ b \in {0, 2} <=> "word" \in Held(0, b)
      /\ SlotChunk(0, b, "word") = IF b = 2 /\ rebound[0] THEN 0 ELSE b
  BY <1>1, <1>6, ChunkFacts, EndFacts DEF SlotChunk, Held, HasWord, Params, Chunks
<1>10. {0, 1, 2, 3} \subseteq Chunks /\ "layers" \in Params /\ "word" \in Params
  BY DEF Chunks, Params
<1> HIDE DEF b
<1>11. ASSUME k = 4 * N - 2 PROVE GradInv'
  <2>1. SameSlot(2, "layers")' /\ (~rebound[0] => SameSlot(2, "word")')
    BY <1>6, <1>8, <1>9, <1>10, <1>11
  <2>2. QED BY <1>1, <1>2, <1>5, <1>6, <1>7, <1>11, <2>1 DEF GradInv
<1>12. ASSUME k = 4 * N - 1 PROVE GradInv'
  <2>1. SameSlot(2, "layers") /\ (~rebound[0] => SameSlot(2, "word"))
    BY <1>5, <1>6, <1>12, 1 >= 1 DEF GradInv
  <2>2. SameSlot(2, "layers")' /\ (~rebound[0] => SameSlot(2, "word")')
    BY <1>6, <1>8, <1>9, <1>10, <1>12, <2>1
  <2>3. SameSlot(3, "layers")'
    BY <1>6, <1>8, <1>9, <1>10, <1>12
  <2>4. QED BY <1>1, <1>2, <1>5, <1>6, <1>7, <1>12, <2>2, <2>3 DEF GradInv
<1>13. ASSUME k = 4 * N + 2 PROVE GradInv'
  <2>1. SameSlot(2, "layers") /\ (~rebound[0] => SameSlot(2, "word")) /\ SameSlot(3, "layers")
    BY <1>5, <1>6, <1>13, 2 >= 1, 2 >= 2 DEF GradInv
  <2>2. SameSlot(2, "layers")' /\ (~rebound[0] => SameSlot(2, "word")') /\ SameSlot(3, "layers")'
    BY <1>6, <1>8, <1>9, <1>10, <1>13, <2>1
  <2>3. SameSlot(0, "layers")' /\ SameSlot(0, "word")'
    BY <1>6, <1>8, <1>9, <1>10, <1>13
  <2>4. QED BY <1>1, <1>2, <1>5, <1>6, <1>7, <1>13, <2>2, <2>3 DEF GradInv
<1>14. ASSUME k = 4 * N + 3 PROVE GradInv'
  <2>1. /\ SameSlot(2, "layers") /\ (~rebound[0] => SameSlot(2, "word")) /\ SameSlot(3, "layers")
        /\ SameSlot(0, "layers") /\ SameSlot(0, "word")
    BY <1>5, <1>6, <1>14, 3 >= 1, 3 >= 2, 3 >= 3 DEF GradInv
  <2>2. /\ SameSlot(2, "layers")' /\ (~rebound[0] => SameSlot(2, "word")') /\ SameSlot(3, "layers")'
        /\ SameSlot(0, "layers")' /\ SameSlot(0, "word")'
    BY <1>6, <1>8, <1>9, <1>10, <1>14, <2>1
  <2>3. SameSlot(1, "layers")'
    BY <1>6, <1>8, <1>9, <1>10, <1>14
  <2>4. \A c \in Chunks : SameSlot(c, "layers")'
    BY <2>2, <2>3 DEF Chunks
  <2>5. FullWordGrad(0)' = FullWordGrad(Last)'
    <3>1. place'[0].phase # "update" /\ place'[Last].phase # "update"
          /\ rebound' = rebound
      BY <1>2, <1>7, EndFacts
    <3>2. \A r \in Ends : FullWordGrad(r)' =
            buffer'[r][EmbeddingChunk(r)]["word"]
              + buffer'[r][IF rebound[r] THEN EmbeddingChunk(r) ELSE HeadChunk(r)]["word"]
      BY <1>7, <3>1 DEF FullWordGrad, MainGrad, SlotChunk
    <3>3. /\ buffer'[0][0]["word"] = buffer'[Last][1]["word"]
          /\ ~rebound[0] => buffer'[0][2]["word"] = buffer'[Last][3]["word"]
      BY <2>2 DEF SameSlot, Twin
    <3>4. QED BY <1>5, <3>2, <3>3, ChunkFacts, EndFacts
  <2>6. Updating(0)' /\ ~Running(0)'
    BY <1>4, <1>14, EndFacts DEF Updating, Running
  <2>7. QED BY <1>7, <2>4, <2>5, <2>6 DEF GradInv
<1>15. GradInv'
  BY <1>1, <1>11, <1>12, <1>13, <1>14
<1>16. QED BY <1>2, <1>5, <1>15, WeightsKept

LEMMA ReduceModelGradsAgrees ==
  ASSUME TypeInv, PlaceInv, WeightInv, GradInv, NEW r \in Ends, ReduceModelGrads(r)
  PROVE  WeightInv' /\ GradInv'
<1> DEFINE e == EmbeddingChunk(r)
           sum == buffer[r][e]["word"] + MainGrad(r, HeadChunk(r), "word")
<1>1. /\ place[r].phase = "reduce" /\ place[r].k = 0
      /\ place' = [place EXCEPT ![r] = [phase |-> "update", k |-> 0]]
      /\ buffer' = [buffer EXCEPT ![r][e]["word"] = sum]
      /\ rebound' = [rebound EXCEPT ![r] = TRUE]
      /\ UNCHANGED <<iteration, weight>>
  <2>1. place[r].phase = "reduce" /\ place[r].k = 0
    BY DEF ReduceModelGrads, InPhase, PlaceInv
  <2>2. Onward(r, 1, "update") = [phase |-> "update", k |-> 0]
    BY <2>1 DEF Onward
  <2>3. QED BY <2>1, <2>2 DEF ReduceModelGrads, Move
<1>2. e \in Chunks
  BY ChunkFacts
<1> HIDE DEF e, sum
<1>3. /\ \A q \in Ends : q # r => place'[q] = place[q] /\ buffer'[q] = buffer[q]
                                  /\ rebound'[q] = rebound[q]
      /\ place'[r].phase = "update" /\ rebound'[r] = TRUE
      /\ buffer'[r][e]["word"] = sum
      /\ \A d \in Chunks : buffer'[r][d]["layers"] = buffer[r][d]["layers"]
  BY <1>1, <1>2 DEF TypeInv, Table, Params
<1>4. /\ Updating(0) /\ Updating(Last) /\ Updating(0)' /\ Updating(Last)'
      /\ ~Building(0) /\ ~Running(0)'
  <2>1. Updating(0) /\ Updating(Last)
    BY <1>1, RunningEnds DEF Updating
  <2>2. \A q \in Ends : Updating(q)'
    BY <1>3, <2>1, EndFacts DEF Updating
  <2>3. QED BY <2>1, <2>2, EndFacts DEF Updating, Building, Running
<1>5. \A q \in Ends : FullWordGrad(q)' = FullWordGrad(q)
  <2>1. FullWordGrad(r)' = sum /\ FullWordGrad(r) = sum
    BY <1>1, <1>3 DEF FullWordGrad, e, sum
  <2>2. ASSUME NEW q \in Ends, q # r PROVE FullWordGrad(q)' = FullWordGrad(q)
    BY <1>3, <2>2 DEF FullWordGrad, MainGrad, SlotChunk
  <2>3. QED BY <2>1, <2>2
<1>6. \A q \in Ends, d \in Chunks : buffer'[q][d]["layers"] = buffer[q][d]["layers"]
  BY <1>3
<1>7. \A c \in Chunks : SameSlot(c, "layers")'
  BY <1>4, <1>6, ChunkFacts, EndFacts DEF GradInv, SameSlot
<1>8. \A q \in Ends : place'[q].phase = "update" => rebound'[q]
  BY <1>3 DEF GradInv
<1>9. GradInv'
  BY <1>4, <1>5, <1>7, <1>8, EndFacts DEF GradInv
<1>10. QED BY <1>1, <1>4, <1>9, WeightsKept

\* Both devices subtract the same gradient.
LEMMA OptimizerStepAgrees ==
  ASSUME TypeInv, PlaceInv, WeightInv, GradInv, OptimizerStep
  PROVE  WeightInv' /\ GradInv'
<1>1. PICK inf \in [Ends -> BOOLEAN] :
        weight' = [r \in Ends |-> [c \in Chunks |-> [x \in Params |->
          IF FoundInf(inf, r) \/ x \notin Held(r, c) THEN weight[r][c][x]
          ELSE weight[r][c][x] - MainGrad(r, c, x)]]]
  BY DEF OptimizerStep
<1>2. /\ place' = [r \in Ends |-> Onward(r, 1, "zero")]
      /\ \A r \in Ends : place[r].phase = "update" /\ place[r].k = 0
      /\ UNCHANGED <<iteration, buffer, rebound>>
  BY DEF OptimizerStep, MoveBoth, InPhase, PlaceInv
<1>3. \A r \in Ends : place'[r] = [phase |-> "zero", k |-> 0]
  BY <1>2 DEF Onward
<1>4. /\ ~Building(0) /\ Updating(0) /\ ~Building(0)' /\ ~Updating(0)'
      /\ rebound[0] = TRUE /\ rebound[Last] = TRUE /\ Passed(0)' = 0
      /\ \A r \in Ends : place'[r].phase # "update"
  BY <1>2, <1>3, EndFacts DEF Building, Updating, Passed, GradInv, TypeInv
<1>5. GradInv'
  <2>1. ~(Passed(0)' >= 1) /\ ~(Passed(0)' >= 2) /\ ~(Passed(0)' >= 3)
    BY <1>4
  <2>2. rebound'[0] = rebound'[Last]
    BY <1>2, <1>4
  <2>3. QED BY <1>4, <2>1, <2>2 DEF GradInv
<1>6. ASSUME NEW c \in Chunks, NEW x \in Held(0, c)
      PROVE  weight'[0][c][x] = weight'[Last][Twin(c)][x]
  <2>1. x \in Params /\ Twin(c) \in Chunks /\ Held(Last, Twin(c)) = Held(0, c)
    BY <1>6, ChunkFacts, EndFacts
  <2>2. weight[0][c][x] = weight[Last][Twin(c)][x]
    BY <1>4, <1>6 DEF WeightInv, SameWeight
  <2>3. FoundInf(inf, 0) = FoundInf(inf, Last)
    BY DEF FoundInf
  <2>4. MainGrad(0, c, x) = MainGrad(Last, Twin(c), x)
    <3>1. CASE x = "layers"
      <4>1. SameSlot(c, "layers")
        BY <1>4 DEF GradInv
      <4>2. QED BY <3>1, <4>1 DEF SameSlot, MainGrad, SlotChunk
    <3>2. CASE x = "word"
      <4>1. c \in {0, 2}
        BY <3>2, <1>6, ChunkFacts DEF Held, HasWord
      <4>2. SlotChunk(0, c, x) = 0 /\ SlotChunk(Last, Twin(c), x) = 1
        BY <1>4, <3>2, <4>1, ChunkFacts DEF SlotChunk, Twin
      <4>3. buffer[0][0]["word"] = buffer[Last][1]["word"]
        BY <1>2, <1>4, EndFacts, ChunkFacts DEF GradInv, FullWordGrad
      <4>4. QED BY <3>2, <4>2, <4>3 DEF MainGrad
    <3>3. QED BY <2>1, <3>1, <3>2 DEF Params
  <2>5. QED BY <1>1, <1>6, <2>1, <2>2, <2>3, <2>4, EndFacts
<1>7. WeightInv'
  BY <1>6 DEF WeightInv, SameWeight
<1>8. QED BY <1>5, <1>7

----------------------------------------------------------------------------
LEMMA InitReplicaInv ==
  ASSUME Init
  PROVE  ReplicaInv
<1>1. \A r \in Ends : /\ place[r] = [phase |-> "build", k |-> 0] /\ ~Running(r) /\ ~Updating(r)
                      /\ Building(r) /\ rebound[r] = FALSE /\ place[r].phase # "update"
  BY DEF Init, Running, Updating, Building
<1>2. \A r \in Ends, c \in Chunks, x \in Params : Created(r, c, x) \in Int
  BY ValuesAssumption DEF Created, Table
<1>3. TypeInv
  BY <1>2 DEF Init, TypeInv, TPhases, Table
<1>4. PlaceInv
  BY <1>1 DEF PlaceInv
<1>5. WeightInv
  BY <1>1, EndFacts DEF WeightInv
<1>6. GradInv
  BY <1>1, EndFacts DEF GradInv
<1>7. QED BY <1>3, <1>4, <1>5, <1>6 DEF ReplicaInv

LEMMA NextReplicaInv ==
  ASSUME ReplicaInv, [Next]_vars
  PROVE  ReplicaInv'
<1>1. TypeInv /\ PlaceInv /\ WeightInv /\ GradInv
  BY DEF ReplicaInv
<1>2. ASSUME NEW r \in Ends, BuildChunk(r) PROVE ReplicaInv'
  BY <1>1, <1>2, BuildChunkPlaces, BuildChunkAgrees DEF ReplicaInv
<1>3. ASSUME NEW r \in Ends, ZeroGrad(r) PROVE ReplicaInv'
  BY <1>1, <1>3, ZeroGradPlaces, ZeroGradAgrees DEF ReplicaInv
<1>4. ASSUME NEW r \in Ends, Backward(r) PROVE ReplicaInv'
  BY <1>1, <1>4, BackwardPassPlaces, BackwardAgrees DEF ReplicaInv
<1>5. ASSUME NEW r \in Ends, ReduceModelGrads(r) PROVE ReplicaInv'
  BY <1>1, <1>5, ReduceModelGradsPlaces, ReduceModelGradsAgrees DEF ReplicaInv
<1>6. CASE EmbeddingAllReduce
  BY <1>1, <1>6, EmbeddingAllReducePlaces, EmbeddingAllReduceAgrees DEF ReplicaInv
<1>7. CASE Broadcast
  BY <1>1, <1>7, BroadcastPlaces, BroadcastAgrees DEF ReplicaInv
<1>8. CASE AllReduceGradients
  BY <1>1, <1>8, AllReduceGradientsPlaces, AllReduceGradientsAgrees DEF ReplicaInv
<1>9. CASE OptimizerStep
  BY <1>1, <1>9, OptimizerStepPlaces, OptimizerStepAgrees DEF ReplicaInv
<1>10. CASE UNCHANGED vars
  BY <1>10 DEF vars, ReplicaInv, TypeInv, PlaceInv, WeightInv, GradInv, Building, Running,
               Updating, Passed, ChunkAt, SameWeight, SameSlot, FullWordGrad, MainGrad, SlotChunk
<1>11. QED BY <1>2, <1>3, <1>4, <1>5, <1>6, <1>7, <1>8, <1>9, <1>10 DEF Next, Terminated

\* The inductive invariant holds.
THEOREM ReplicaInvariant == Spec => []ReplicaInv
<1>1. Init => ReplicaInv
  BY InitReplicaInv
<1>2. ReplicaInv /\ [Next]_vars => ReplicaInv'
  BY NextReplicaInv
<1>3. QED BY <1>1, <1>2, PTL DEF Spec

\* Between two training steps both devices have the same parameters for every
\* stage: the broadcast after the building pairs the right chunks
\* (broadcast_params, models reversed on one half), every gradient in an update
\* was all-reduced with the twin chunk, and the inf check is shared.
THEOREM ReplicasStayEqual == Spec => []ReplicasAgree
<1>1. ASSUME ReplicaInv PROVE ReplicasAgree
  <2> SUFFICES ASSUME \A r \in Ends : InPhase(r, "zero"),
                      NEW r \in Ends, NEW c \in Chunks, NEW d \in Chunks,
                      StageOf(r, c) = StageOf(Other(r), d), NEW x \in Held(r, c)
               PROVE  weight[r][c][x] = weight[Other(r)][d][x]
    BY DEF ReplicasAgree
  <2>1. d = Twin(c)
    BY TwinStages
  <2>2. \A b \in Chunks : SameWeight(b)
    BY <1>1, EndFacts DEF ReplicaInv, WeightInv, Building, InPhase
  <2>3. CASE r = 0
    BY <2>1, <2>2, <2>3, EndFacts DEF SameWeight
  <2>4. CASE r = Last
    <3>1. Twin(c) \in Chunks /\ Twin(Twin(c)) = c /\ Held(Last, Twin(Twin(c))) = Held(0, Twin(c))
      BY ChunkFacts
    <3>2. x \in Held(0, Twin(c))
      BY <2>4, <3>1
    <3>3. QED BY <2>1, <2>2, <2>4, <3>1, <3>2, EndFacts DEF SameWeight
  <2>5. QED BY <2>3, <2>4, EndFacts
<1>2. QED BY <1>1, ReplicaInvariant, PTL

----------------------------------------------------------------------------
(***************************************************************************)
(* The value of the gradients.  ReduceTurn(r, c) is the turn, of the four  *)
(* all-reduces of a step, in which chunk c of device r takes part.         *)
(***************************************************************************)
ReduceTurn(r, c) == ((IF r = 0 THEN c ELSE Twin(c)) + 2) % 4

Reduced(r, c) ==
  Updating(r) \/ (place[r].phase = "schedule" /\ Passed(r) > ReduceTurn(r, c))

WholeGrad(r, c) == BatchGrad(r, c, Twin(c), "layers")

\* Until it is reduced, a chunk has the gradient of the microbatches that came
\* back; afterwards that of the whole batch, in both pipelines.
LayersInv ==
  \A r \in Ends, c \in Chunks :
    /\ place[r].phase = "schedule" /\ ~Reduced(r, c) =>
         buffer[r][c]["layers"] =
           BackwardDone(r, c, place[r].k \div 2) * MbGrad[r][c]["layers"]
    /\ Reduced(r, c) => buffer[r][c]["layers"] = WholeGrad(r, c)

LEMMA TurnFacts ==
  /\ ReduceTurn(0, 0) = 2 /\ ReduceTurn(0, 1) = 3 /\ ReduceTurn(0, 2) = 0 /\ ReduceTurn(0, 3) = 1
  /\ \A c \in Chunks : ReduceTurn(0, c) \in 0 .. 3 /\ ReduceTurn(Last, Twin(c)) = ReduceTurn(0, c)
  /\ \A r \in Ends, c \in Chunks : ReduceTurn(r, c) \in 0 .. 3
  /\ \A r \in Ends : ReduceTurn(r, EmbeddingChunk(r)) = 2
<1>1. \A c \in Chunks : ReduceTurn(0, c) = (c + 2) % 4
  BY DEF ReduceTurn
<1>2. \A c \in Chunks : ReduceTurn(Last, c) = (Twin(c) + 2) % 4
  BY EndFacts DEF ReduceTurn
<1>3. 0 \in Chunks /\ 1 \in Chunks /\ 2 \in Chunks /\ 3 \in Chunks
  BY DEF Chunks
<1>4. \A c \in Chunks : ReduceTurn(0, c) \in 0 .. 3 /\ ReduceTurn(Last, Twin(c)) = ReduceTurn(0, c)
                        /\ ReduceTurn(Last, c) \in 0 .. 3
  BY <1>1, <1>2, ChunkFacts DEF Chunks
<1>5. /\ ReduceTurn(0, 0) = 2 /\ ReduceTurn(0, 1) = 3 /\ ReduceTurn(0, 2) = 0
      /\ ReduceTurn(0, 3) = 1 /\ ReduceTurn(Last, 1) = 2
  BY <1>1, <1>2, <1>3 DEF Twin
<1>6. QED BY <1>4, <1>5, ChunkFacts, EndFacts

\* The passes of a chunk are over when its all-reduce comes.
LEMMA DoneAtMarkers ==
  ASSUME NEW r \in Ends, NEW c \in Chunks
  PROVE  /\ BackwardDone(r, c, 2 * N + 1) = PerPipe
         /\ BackwardDone(r, c, 2 * N) = BackwardDone(r, c, 2 * N - 1)
         /\ c # EmbeddingChunk(r) => BackwardDone(r, c, 2 * N - 1) = PerPipe
<1>1. r \in Ranks /\ ~IsMiddle(r) /\ FirstMarker(r) = 2 * N - 1 /\ N \in Nat /\ N >= 1
  BY EndFacts, UnitFacts, HalfFacts
<1>2. 2 * N - 1 \in 0 .. 2 * N + 1 /\ 2 * N \in 0 .. 2 * N + 1
      /\ (2 * N - 1) + 1 = 2 * N
  BY <1>1
<1>3. BackwardDone(r, c, 2 * N + 1) = PerPipe
  BY <1>1, BackwardOrder DEF PerPipe
<1>4. BackwardChunk(r, 2 * N - 1) = Sync /\ c # Sync
  BY <1>1, <1>2, MarkerPlaces DEF Chunks, Sync
<1>5. /\ BackwardDone(r, c, 2 * N - 1) \in Nat
      /\ BackwardDone(r, c, (2 * N - 1) + 1)
           = BackwardDone(r, c, 2 * N - 1) + (IF c = BackwardChunk(r, 2 * N - 1) THEN 1 ELSE 0)
  BY <1>1, <1>2, BackwardOrder
<1>6. BackwardDone(r, c, 2 * N) = BackwardDone(r, c, 2 * N - 1)
  BY <1>2, <1>4, <1>5
<1>7. /\ BackwardDone(r, c, 2 * N) \in Nat
      /\ BackwardDone(r, c, 2 * N + 1)
           = BackwardDone(r, c, 2 * N) + (IF c = BackwardChunk(r, 2 * N) THEN 1 ELSE 0)
  BY <1>1, <1>2, BackwardOrder
<1>8. BackwardChunk(r, 2 * N) = EmbeddingChunk(r)
  BY <1>1, EndHalf, LastBackwardPass
<1>9. QED BY <1>3, <1>6, <1>7, <1>8

\* The mean of two sums is the sum of the means.
LEMMA MeanOfSums ==
  ASSUME NEW n \in Nat, NEW a \in Int, NEW b \in Int, a % 4 = 0, b % 4 = 0
  PROVE  (n * a + n * b) \div 2 = n * ((a + b) \div 2)
<1> DEFINE s == (a + b) \div 2
<1>1. s \in Int /\ a + b = 2 * s
  OBVIOUS
<1> HIDE DEF s
<1>2. n * a + n * b = n * (a + b)
  OBVIOUS
<1>3. n * (2 * s) = 2 * (n * s) /\ n * s \in Int
  BY <1>1
<1>4. n * a + n * b = 2 * (n * s)
  BY <1>1, <1>2, <1>3
<1>5. \A m \in Int : (2 * m) \div 2 = m
  OBVIOUS
<1>6. QED BY <1>3, <1>4, <1>5 DEF s

\* The first all-reduce of the layers of chunk c and its twin.
LEMMA MeanOfLayers ==
  ASSUME NEW c \in Chunks
  PROVE  /\ (PerPipe * MbGrad[0][c]["layers"] + PerPipe * MbGrad[Last][Twin(c)]["layers"]) \div 2
              = WholeGrad(0, c)
         /\ WholeGrad(Last, Twin(c)) = WholeGrad(0, c)
<1> DEFINE a == MbGrad[0][c]["layers"]
           b == MbGrad[Last][Twin(c)]["layers"]
<1>1. a \in Int /\ b \in Int /\ a % 4 = 0 /\ b % 4 = 0 /\ Twin(Twin(c)) = c
  BY ValuesAssumption, EndFacts, ChunkFacts DEF Table, Params
<1>2. WholeGrad(0, c) = PerPipe * ((a + b) \div 2)
  BY EndFacts DEF WholeGrad, BatchGrad
<1>3. WholeGrad(Last, Twin(c)) = PerPipe * ((b + a) \div 2)
  BY <1>1, EndFacts DEF WholeGrad, BatchGrad
<1>4. PerPipe \in Nat
  BY UnitFacts, HalfFacts DEF PerPipe
<1> HIDE DEF a, b
<1>5. (PerPipe * a + PerPipe * b) \div 2 = PerPipe * ((a + b) \div 2)
  BY <1>1, <1>4, MeanOfSums
<1>6. a + b = b + a
  BY <1>1
<1>7. QED BY <1>2, <1>3, <1>5, <1>6 DEF a, b

\* Device q keeps its place and its buffer.
KeepsLayers(q) ==
  \A c \in Chunks :
    /\ (place'[q].phase = "schedule" /\ ~Reduced(q, c)') =>
         buffer'[q][c]["layers"] =
           BackwardDone(q, c, place'[q].k \div 2) * MbGrad[q][c]["layers"]
    /\ Reduced(q, c)' => buffer'[q][c]["layers"] = WholeGrad(q, c)

LEMMA LayersParts == (\A q \in Ends : KeepsLayers(q)) => LayersInv'
BY DEF KeepsLayers, LayersInv, WholeGrad, BatchGrad, PerPipe

LEMMA StillLayers ==
  ASSUME LayersInv, NEW q \in Ends, place'[q] = place[q], buffer'[q] = buffer[q]
  PROVE  KeepsLayers(q)
BY DEF LayersInv, KeepsLayers, Reduced, Updating, Passed, ReduceTurn, Twin

LEMMA IdleLayers ==
  ASSUME NEW q \in Ends, place'[q].phase \in {"build", "broadcast", "zero"}
  PROVE  KeepsLayers(q)
BY DEF KeepsLayers, Reduced, Updating

LEMMA ZeroGradLayers ==
  ASSUME TypeInv, PlaceInv, LayersInv, NEW r \in Ends, ZeroGrad(r)
  PROVE  LayersInv'
<1>1. /\ place[r].phase = "zero" /\ place[r].k = 0
      /\ place' = [place EXCEPT ![r] = [phase |-> "schedule", k |-> 0]]
      /\ buffer' = [buffer EXCEPT ![r] = [c \in Chunks |-> [x \in Params |-> 0]]]
  <2>1. place[r].phase = "zero" /\ place[r].k = 0
    BY DEF ZeroGrad, InPhase, PlaceInv
  <2>2. Onward(r, 1, "schedule") = [phase |-> "schedule", k |-> 0]
    BY <2>1 DEF Onward
  <2>3. QED BY <2>1, <2>2 DEF ZeroGrad, Move, ZeroGradBuffer
<1>2. KeepsLayers(r)
  <2> SUFFICES ASSUME NEW c \in Chunks
               PROVE  /\ ~Reduced(r, c)'
                      /\ buffer'[r][c]["layers"]
                           = BackwardDone(r, c, place'[r].k \div 2) * MbGrad[r][c]["layers"]
    BY DEF KeepsLayers
  <2>1. place'[r].phase = "schedule" /\ place'[r].k = 0 /\ buffer'[r][c]["layers"] = 0
    BY <1>1 DEF TypeInv, Table, Params
  <2>2. Passed(r)' = 0 /\ ReduceTurn(r, c)' = ReduceTurn(r, c)
    BY <2>1, UnitFacts, HalfFacts DEF Passed, ReduceTurn, Twin
  <2>3. ~Reduced(r, c)'
    BY <2>1, <2>2, TurnFacts DEF Reduced, Updating
  <2>4. BackwardDone(r, c, 0) = 0 /\ 0 \div 2 = 0 /\ MbGrad[r][c]["layers"] \in Int
    BY BackwardOrder, EndFacts, ValuesAssumption DEF Table, Params
  <2>5. 0 * MbGrad[r][c]["layers"] = 0
    BY <2>4
  <2>6. QED BY <2>1, <2>3, <2>4, <2>5
<1>3. ASSUME NEW q \in Ends, q # r PROVE KeepsLayers(q)
  BY <1>1, <1>3, StillLayers DEF TypeInv, Table
<1>4. QED BY <1>2, <1>3, LayersParts

LEMMA BackwardLayers ==
  ASSUME TypeInv, PlaceInv, LayersInv, NEW r \in Ends, Backward(r)
  PROVE  LayersInv'
<1> DEFINE b == ChunkAt(r)
           i == place[r].k \div 2
           new == [d \in Chunks |-> [x \in Params |->
                     buffer[r][d][x] + IF x \in Held(r, b) /\ d = SlotChunk(r, b, x)
                                       THEN MbGrad[r][b][x] ELSE 0]]
<1>1. /\ place' = [place EXCEPT ![r].k = @ + 2]
      /\ buffer' = [buffer EXCEPT ![r] = new]
  BY DEF Backward
<1>2. /\ place[r].phase = "schedule" /\ place[r].k \in Nat /\ place[r].k % 2 = 0
      /\ place[r].k <= 4 * N - 4 \/ place[r].k = 4 * N
      /\ N \in Nat /\ N >= 1 /\ b \in Chunks
  BY BackwardTurn, UnitFacts, HalfFacts
<1>3. /\ place'[r].phase = "schedule" /\ place'[r].k = place[r].k + 2
      /\ buffer'[r] = new
  BY <1>1, <1>2 DEF TypeInv, Table
<1>4. Passed(r)' = Passed(r) /\ (Passed(r) = 0 \/ (Passed(r) = 2 /\ b = EmbeddingChunk(r)))
  <2>1. Passed(r)' = Passed(r) /\ (Passed(r) = 0 \/ (Passed(r) = 2 /\ place[r].k = 4 * N))
    BY <1>2, <1>3 DEF Passed
  <2>2. place[r].k = 4 * N => b = EmbeddingChunk(r)
    BY <1>2, MarkerTurns DEF Turns
  <2>3. QED BY <2>1, <2>2
<1>5. i \in 0 .. 2 * N + 1 /\ place'[r].k \div 2 = i + 1
  BY <1>2, <1>3
<1>6. b = BackwardChunk(r, i)
  BY DEF ChunkAt
<1>7. ASSUME NEW c \in Chunks
      PROVE  /\ Reduced(r, c)' = Reduced(r, c)
             /\ Reduced(r, c) => c # b
             /\ buffer'[r][c]["layers"]
                  = buffer[r][c]["layers"] + (IF c = b THEN MbGrad[r][c]["layers"] ELSE 0)
  <2>1. ReduceTurn(r, c)' = ReduceTurn(r, c)
    BY DEF ReduceTurn, Twin
  <2>2. Reduced(r, c)' = Reduced(r, c) /\ (Reduced(r, c) <=> Passed(r) > ReduceTurn(r, c))
    BY <1>2, <1>3, <1>4, <2>1 DEF Reduced, Updating
  <2>3. Passed(r) > ReduceTurn(r, c) => c # b
    BY <1>4, TurnFacts
  <2>4. "layers" \in Held(r, b) /\ "layers" \in Params /\ SlotChunk(r, b, "layers") = b
    BY <1>2, ChunkFacts DEF SlotChunk, Params
  <2>5. QED BY <1>3, <2>2, <2>3, <2>4
<1> HIDE DEF i, b, new
<1>8. KeepsLayers(r)
  <2> SUFFICES ASSUME NEW c \in Chunks
               PROVE  /\ ~Reduced(r, c) =>
                           buffer'[r][c]["layers"]
                             = BackwardDone(r, c, i + 1) * MbGrad[r][c]["layers"]
                      /\ Reduced(r, c) => buffer'[r][c]["layers"] = WholeGrad(r, c)
    BY <1>5, <1>7 DEF KeepsLayers
  <2> DEFINE g == MbGrad[r][c]["layers"]
             n == BackwardDone(r, c, i)
  <2>1. g \in Int /\ buffer[r][c]["layers"] \in Int
    BY ValuesAssumption DEF TypeInv, Table, Params
  <2>2. n \in Nat /\ BackwardDone(r, c, i + 1) = n + (IF c = b THEN 1 ELSE 0)
    BY <1>5, <1>6, BackwardOrder, EndFacts
  <2>3. /\ ~Reduced(r, c) => buffer[r][c]["layers"] = n * g
        /\ Reduced(r, c) => buffer[r][c]["layers"] = WholeGrad(r, c)
    BY <1>2 DEF LayersInv, i
  <2>4. buffer'[r][c]["layers"] = buffer[r][c]["layers"] + (IF c = b THEN g ELSE 0)
    BY <1>7
  <2>5. Reduced(r, c) => c # b
    BY <1>7
  <2> HIDE DEF g, n
  <2>6. (n + 1) * g = n * g + g /\ n * g \in Int
    BY <2>1, <2>2
  <2>7. Reduced(r, c) => buffer'[r][c]["layers"] = WholeGrad(r, c)
    BY <2>1, <2>3, <2>4, <2>5
  <2>8. ASSUME ~Reduced(r, c)
        PROVE  buffer'[r][c]["layers"] = BackwardDone(r, c, i + 1) * g
    <3>1. CASE c = b
      BY <2>2, <2>3, <2>4, <2>6, <2>8, <3>1
    <3>2. CASE c # b
      BY <2>2, <2>3, <2>4, <2>6, <2>8, <3>2
    <3>3. QED BY <3>1, <3>2
  <2>9. QED BY <2>7, <2>8 DEF g
<1>9. ASSUME NEW q \in Ends, q # r PROVE KeepsLayers(q)
  BY <1>1, <1>9, StillLayers DEF TypeInv, Table
<1>10. QED BY <1>8, <1>9, LayersParts

\* The turn of a marker reduces the chunks whose turn it is, and they are complete.
LEMMA AllReduceGradientsLayers ==
  ASSUME TypeInv, PlaceInv, LayersInv, AllReduceGradients
  PROVE  LayersInv'
<1> DEFINE k == place[0].k
           t == Passed(0)
           chunk == [r \in Ends |-> SyncedChunk(r)]
           mean(x) == (MainGrad(0, chunk[0], x) + MainGrad(P-1, chunk[P-1], x)) \div 2
<1>1. /\ \A r \in Ends : place[r] = [phase |-> "schedule", k |-> k]
      /\ k \in {4 * N - 2, 4 * N - 1, 4 * N + 2, 4 * N + 3}
      /\ N \in Nat /\ N >= 1
  BY ReduceTogether
<1>2. /\ place' = [r \in Ends |-> Onward(r, 2 * (TotalNumMicrobatches + 2), "reduce")]
      /\ buffer' = [r \in Ends |-> [d \in Chunks |-> [x \in Params |->
           IF d = SlotChunk(r, chunk[r], x) /\ x \in Held(r, chunk[r])
           THEN mean(x) ELSE buffer[r][d][x]]]]
  BY DEF AllReduceGradients, MoveBoth
<1>3. 2 * (TotalNumMicrobatches + 2) = Turns
  BY <1>1 DEF TotalNumMicrobatches, Turns
<1>4. \A r \in Ends :
        /\ k # 4 * N + 3 => place'[r].phase = "schedule" /\ place'[r].k = k + 1
        /\ k = 4 * N + 3 => place'[r].phase = "reduce"
  BY <1>1, <1>2, <1>3 DEF Onward, Turns
<1>5. \A r \in Ends :
        /\ place[r].phase = "schedule" /\ place[r].k = k
        /\ Passed(r) = t
        /\ k # 4 * N + 3 => Passed(r)' = t + 1
  BY <1>1, <1>4, EndFacts DEF Passed
<1>6. t \in 0 .. 3 /\ (t = 3 <=> k = 4 * N + 3) /\ (t \in {0, 1} <=> k \in {4 * N - 2, 4 * N - 1})
  BY <1>1, EndFacts DEF Passed
\* The chunks of the turn.
<1>7. \A r \in Ends : chunk[r] \in Chunks /\ \A c \in Chunks : c = chunk[r] <=> ReduceTurn(r, c) = t
  <2>1. /\ (4 * N - 2) \div 2 = 2 * N - 1 /\ (4 * N - 2) % 2 = 0
        /\ (4 * N - 1) \div 2 = 2 * N - 1 /\ (4 * N - 1) % 2 = 1
        /\ (4 * N + 2) \div 2 = 2 * N + 1 /\ (4 * N + 2) % 2 = 0
        /\ (4 * N + 3) \div 2 = 2 * N + 1 /\ (4 * N + 3) % 2 = 1
    BY <1>1
  <2>2. /\ SyncedChunk(0) = (IF k \div 2 < 2 * N + 1 THEN 2 ELSE 0) + (k % 2)
        /\ SyncedChunk(Last) = (IF k \div 2 < 2 * N + 1 THEN 2 ELSE 0) + (1 - (k % 2))
    BY <1>5, EndFacts, HalfFacts DEF SyncedChunk, TotalNumMicrobatches
  <2>3. /\ t = 0 => SyncedChunk(0) = 2 /\ SyncedChunk(Last) = 3
        /\ t = 1 => SyncedChunk(0) = 3 /\ SyncedChunk(Last) = 2
        /\ t = 2 => SyncedChunk(0) = 0 /\ SyncedChunk(Last) = 1
        /\ t = 3 => SyncedChunk(0) = 1 /\ SyncedChunk(Last) = 0
    BY <1>1, <1>5, <2>1, <2>2, EndFacts DEF Passed
  <2>4. SyncedChunk(0) \in Chunks /\ \A c \in Chunks : c = SyncedChunk(0) <=> ReduceTurn(0, c) = t
    BY <1>6, <2>3, TurnFacts DEF Chunks
  <2>5. SyncedChunk(Last) \in Chunks
        /\ \A c \in Chunks : Twin(c) = SyncedChunk(Last) <=> ReduceTurn(Last, Twin(c)) = t
    BY <1>6, <2>3, TurnFacts DEF Chunks, Twin
  <2>6. \A c \in Chunks : c = SyncedChunk(Last) <=> ReduceTurn(Last, c) = t
    BY <2>5, ChunkFacts
  <2>7. QED BY <2>4, <2>5, <2>6, EndFacts
<1> HIDE DEF t
\* What a chunk has before its turn, and what it has after it.
<1>8. \A r \in Ends : buffer[r][chunk[r]]["layers"] = PerPipe * MbGrad[r][chunk[r]]["layers"]
  <2> SUFFICES ASSUME NEW r \in Ends
               PROVE  buffer[r][chunk[r]]["layers"] = PerPipe * MbGrad[r][chunk[r]]["layers"]
    OBVIOUS
  <2> DEFINE c == chunk[r]
  <2>1. c \in Chunks /\ ReduceTurn(r, c) = t
    BY <1>7
  <2>2. ~Reduced(r, c)
    BY <1>5, <1>6, <2>1 DEF Reduced, Updating
  <2>3. buffer[r][c]["layers"] = BackwardDone(r, c, k \div 2) * MbGrad[r][c]["layers"]
    BY <1>5, <2>1, <2>2 DEF LayersInv
  <2> HIDE DEF c
  <2>4. BackwardDone(r, c, k \div 2) = PerPipe
    <3>1. CASE t \in {0, 1}
      <4>1. k \div 2 = 2 * N - 1
        BY <1>1, <1>6, <3>1
      <4>2. c # EmbeddingChunk(r)
        BY <2>1, <3>1, TurnFacts
      <4>3. QED BY <2>1, <4>1, <4>2, DoneAtMarkers
    <3>2. CASE t \notin {0, 1}
      <4>1. k \div 2 = 2 * N + 1
        BY <1>1, <1>6, <3>2
      <4>2. QED BY <2>1, <4>1, DoneAtMarkers
    <3>3. QED BY <3>1, <3>2
  <2>5. QED BY <2>3, <2>4 DEF c
<1>9. \A r \in Ends : mean("layers") = WholeGrad(r, chunk[r])
  <2>1. chunk[Last] = Twin(chunk[0])
    BY <1>7, TurnFacts, ChunkFacts, EndFacts
  <2>2. \A r \in Ends : MainGrad(r, chunk[r], "layers") = PerPipe * MbGrad[r][chunk[r]]["layers"]
    BY <1>8 DEF MainGrad, SlotChunk
  <2>3. mean("layers")
          = (PerPipe * MbGrad[0][chunk[0]]["layers"]
               + PerPipe * MbGrad[Last][chunk[Last]]["layers"]) \div 2
    BY <2>2, EndFacts DEF Last
  <2>4. chunk[0] \in Chunks
    BY <1>7, EndFacts
  <2> HIDE DEF chunk, mean
  <2>5. mean("layers") = WholeGrad(0, chunk[0]) /\ mean("layers") = WholeGrad(Last, chunk[Last])
    BY <2>1, <2>3, <2>4, MeanOfLayers
  <2>6. QED BY <2>5, EndFacts
<1>10. \A r \in Ends, c \in Chunks :
         buffer'[r][c]["layers"] = IF c = chunk[r] THEN mean("layers") ELSE buffer[r][c]["layers"]
  <2>1. \A r \in Ends : SlotChunk(r, chunk[r], "layers") = chunk[r] /\ "layers" \in Held(r, chunk[r])
    BY <1>7, ChunkFacts DEF SlotChunk
  <2> HIDE DEF chunk, mean
  <2>2. QED BY <1>2, <2>1 DEF Params
<1> HIDE DEF chunk, mean
<1>11. ASSUME NEW r \in Ends, NEW c \in Chunks
       PROVE  /\ (place'[r].phase = "schedule" /\ ~Reduced(r, c)') =>
                   buffer'[r][c]["layers"] =
                     BackwardDone(r, c, place'[r].k \div 2) * MbGrad[r][c]["layers"]
              /\ Reduced(r, c)' => buffer'[r][c]["layers"] = WholeGrad(r, c)
  <2>1. ReduceTurn(r, c)' = ReduceTurn(r, c) /\ ReduceTurn(r, c) \in 0 .. 3
    BY TurnFacts DEF ReduceTurn, Twin
  <2>2. Reduced(r, c)' <=> ReduceTurn(r, c) <= t
    <3>1. CASE k = 4 * N + 3
      BY <1>4, <1>6, <2>1, <3>1 DEF Reduced, Updating
    <3>2. CASE k # 4 * N + 3
      BY <1>4, <1>5, <1>6, <2>1, <3>2 DEF Reduced, Updating
    <3>3. QED BY <3>1, <3>2
  <2>3. Reduced(r, c) <=> ReduceTurn(r, c) < t
    BY <1>5, <1>6, <2>1 DEF Reduced, Updating
  <2>4. CASE ReduceTurn(r, c) = t
    BY <1>6, <1>7, <1>9, <1>10, <2>1, <2>2, <2>4
  <2>5. CASE ReduceTurn(r, c) < t
    <3>1. c # chunk[r] /\ Reduced(r, c) /\ Reduced(r, c)'
      BY <1>6, <1>7, <2>1, <2>2, <2>3, <2>5
    <3>2. QED BY <1>10, <3>1 DEF LayersInv
  <2>6. CASE ReduceTurn(r, c) > t
    <3>1. c # chunk[r] /\ ~Reduced(r, c) /\ ~Reduced(r, c)'
      BY <1>6, <1>7, <2>1, <2>2, <2>3, <2>6
    <3>2. buffer'[r][c]["layers"] = BackwardDone(r, c, k \div 2) * MbGrad[r][c]["layers"]
      BY <1>5, <1>10, <3>1 DEF LayersInv
    <3>3. k # 4 * N + 3 /\ place'[r].k = k + 1
      BY <1>4, <1>6, <2>1, <2>6
    <3>4. BackwardDone(r, c, (k + 1) \div 2) = BackwardDone(r, c, k \div 2)
      <4>1. /\ (4 * N - 2) \div 2 = 2 * N - 1 /\ (4 * N - 1) \div 2 = 2 * N - 1
            /\ (4 * N) \div 2 = 2 * N /\ (4 * N + 2) \div 2 = 2 * N + 1
            /\ (4 * N + 3) \div 2 = 2 * N + 1
            /\ (4 * N - 2) + 1 = 4 * N - 1 /\ (4 * N - 1) + 1 = 4 * N
            /\ (4 * N + 2) + 1 = 4 * N + 3
        BY <1>1
      <4>2. BackwardDone(r, c, 2 * N) = BackwardDone(r, c, 2 * N - 1)
        BY DoneAtMarkers
      <4>3. QED BY <1>1, <3>3, <4>1, <4>2
    <3>5. QED BY <3>1, <3>2, <3>3, <3>4
  <2>7. QED BY <1>6, <2>1, <2>4, <2>5, <2>6
<1>12. QED BY <1>11, LayersParts DEF KeepsLayers

LEMMA ReduceModelGradsLayers ==
  ASSUME TypeInv, PlaceInv, LayersInv, NEW r \in Ends, ReduceModelGrads(r)
  PROVE  LayersInv'
<1>1. /\ place[r].phase = "reduce" /\ place[r].k = 0
      /\ place' = [place EXCEPT ![r] = Onward(r, 1, "update")]
      /\ buffer' = [buffer EXCEPT ![r][EmbeddingChunk(r)]["word"] =
                      @ + MainGrad(r, HeadChunk(r), "word")]
  BY DEF ReduceModelGrads, InPhase, PlaceInv, Move
<1>2. Onward(r, 1, "update").phase = "update"
  BY <1>1 DEF Onward
<1>3. place'[r].phase = "update" /\ \A c \in Chunks : buffer'[r][c]["layers"] = buffer[r][c]["layers"]
  BY <1>1, <1>2, ChunkFacts DEF TypeInv, Table, Params
<1>4. \A c \in Chunks : Reduced(r, c) /\ place'[r].phase # "schedule"
  BY <1>1, <1>3 DEF Reduced, Updating
<1>5. KeepsLayers(r)
  BY <1>3, <1>4 DEF KeepsLayers, LayersInv
<1>6. ASSUME NEW q \in Ends, q # r PROVE KeepsLayers(q)
  BY <1>1, <1>6, StillLayers DEF TypeInv, Table
<1>7. QED BY <1>5, <1>6, LayersParts

LEMMA NextLayersInv ==
  ASSUME ReplicaInv, LayersInv, [Next]_vars
  PROVE  LayersInv'
<1>1. TypeInv /\ PlaceInv
  BY DEF ReplicaInv
<1>2. ASSUME NEW r \in Ends, BuildChunk(r) PROVE LayersInv'
  <2>1. /\ place' = [place EXCEPT ![r] = Onward(r, 4, "broadcast")] /\ UNCHANGED buffer
        /\ place[r].phase = "build"
    BY <1>2 DEF BuildChunk, Move, InPhase
  <2>2. place'[r].phase \in {"build", "broadcast"}
    BY <1>1, <2>1 DEF Onward, TypeInv
  <2>3. ASSUME NEW q \in Ends, q # r PROVE KeepsLayers(q)
    BY <1>1, <2>1, <2>3, StillLayers DEF TypeInv
  <2>4. QED BY <2>2, <2>3, IdleLayers, LayersParts
<1>3. ASSUME NEW r \in Ends, ZeroGrad(r) PROVE LayersInv'
  BY <1>1, <1>3, ZeroGradLayers
<1>4. ASSUME NEW r \in Ends, Backward(r) PROVE LayersInv'
  BY <1>1, <1>4, BackwardLayers
<1>5. ASSUME NEW r \in Ends, ReduceModelGrads(r) PROVE LayersInv'
  BY <1>1, <1>5, ReduceModelGradsLayers
<1>6. CASE EmbeddingAllReduce
  <2>1. \A r \in Ends : place'[r].phase \in {"build", "broadcast"}
    BY <1>1, <1>6 DEF EmbeddingAllReduce, InPhase, MoveBoth, Onward, TypeInv
  <2>2. QED BY <2>1, IdleLayers, LayersParts
<1>7. CASE Broadcast
  <2>1. \A r \in Ends : place'[r].phase \in {"broadcast", "zero"}
    BY <1>1, <1>7 DEF Broadcast, InPhase, MoveBoth, Onward, TypeInv
  <2>2. QED BY <2>1, IdleLayers, LayersParts
<1>8. CASE AllReduceGradients
  BY <1>1, <1>8, AllReduceGradientsLayers
<1>9. CASE OptimizerStep
  <2>1. \A r \in Ends : place[r].phase = "update" /\ place[r].k = 0
    BY <1>1, <1>9 DEF OptimizerStep, InPhase, PlaceInv
  <2>2. \A r \in Ends : place'[r].phase = "zero"
    BY <1>9, <2>1 DEF OptimizerStep, MoveBoth, Onward
  <2>3. QED BY <2>2, IdleLayers, LayersParts
<1>10. CASE UNCHANGED vars
  <2>1. \A q \in Ends : place'[q] = place[q] /\ buffer'[q] = buffer[q]
    BY <1>10 DEF vars
  <2>2. QED BY <2>1, StillLayers, LayersParts
<1>11. QED BY <1>2, <1>3, <1>4, <1>5, <1>6, <1>7, <1>8, <1>9, <1>10 DEF Next, Terminated

\* In every training step the gradient of the layers of a chunk is that of the
\* microbatches that came back, and after its all-reduce that of the whole batch.
THEOREM LayersInvariant == Spec => []LayersInv
<1>1. Init => LayersInv
  <2> SUFFICES ASSUME Init PROVE LayersInv
    OBVIOUS
  <2>1. \A r \in Ends : place[r].phase = "build"
    BY DEF Init
  <2>2. QED BY <2>1 DEF LayersInv, Reduced, Updating
<1>2. ReplicaInv /\ LayersInv /\ [Next]_vars => LayersInv'
  BY NextLayersInv
<1>3. QED BY <1>1, <1>2, ReplicaInvariant, PTL DEF Spec

\* Only the optimizer takes a device from its update to the next step.
LEMMA UpdateIsOptimizerStep ==
  ASSUME TypeInv, Next, NEW r \in Ends, InPhase(r, "update"), InPhase(r, "zero")'
  PROVE  OptimizerStep
<1>1. place[r].phase = "update" /\ place'[r].phase = "zero"
  BY DEF InPhase
<1>2. ASSUME NEW q \in Ends, BuildChunk(q) \/ ZeroGrad(q) \/ Backward(q) \/ ReduceModelGrads(q)
      PROVE  FALSE
  <2>1. place[q].phase # "update"
    BY <1>2 DEF BuildChunk, ZeroGrad, Backward, ReduceModelGrads, InPhase
  <2>2. \E p : place' = [place EXCEPT ![q] = p]
    <3>1. CASE Backward(q)
      BY <3>1 DEF Backward
    <3>2. CASE ~Backward(q)
      BY <1>2, <3>2 DEF BuildChunk, ZeroGrad, ReduceModelGrads, Move
    <3>3. QED BY <3>1, <3>2
  <2>3. place'[r] = place[r]
    BY <1>1, <2>1, <2>2 DEF TypeInv
  <2>4. QED BY <1>1, <2>3
<1>3. ~EmbeddingAllReduce /\ ~Broadcast /\ ~AllReduceGradients
  BY <1>1 DEF EmbeddingAllReduce, Broadcast, AllReduceGradients, InPhase
<1>4. ~Terminated
  BY <1>1 DEF Terminated, vars
<1>5. QED BY <1>2, <1>3, <1>4 DEF Next

\* Every update subtracts the gradient of the whole batch over both pipelines
\* from all the layers, or nothing at all; the embedding and the head of a device
\* change by the same amount (optimizer.step after allreduce_gradients and
\* allreduce_word_embedding_grads).
THEOREM UpdatesAreRight == Spec => UpdatesRight
<1> DEFINE Step(r) ==
      /\ \A c, d \in Chunks :
           StageOf(r, c) = StageOf(Other(r), d) =>
             weight[r][c]["layers"] - weight'[r][c]["layers"] \in
               {0, BatchGrad(r, c, d, "layers")}
      /\ weight'[r][EmbeddingChunk(r)]["word"] - weight[r][EmbeddingChunk(r)]["word"]
           = weight'[r][HeadChunk(r)]["word"] - weight[r][HeadChunk(r)]["word"]
<1>1. ASSUME ReplicaInv, LayersInv, Next, NEW r \in Ends,
             InPhase(r, "update"), InPhase(r, "zero")'
      PROVE  Step(r)
  <2>1. TypeInv /\ rebound[r] /\ Updating(r)
    BY <1>1 DEF ReplicaInv, GradInv, InPhase, Updating
  <2>2. OptimizerStep
    BY <1>1, <2>1, UpdateIsOptimizerStep
  <2>3. PICK inf \in [Ends -> BOOLEAN] :
          weight' = [q \in Ends |-> [c \in Chunks |-> [x \in Params |->
            IF FoundInf(inf, q) \/ x \notin Held(q, c) THEN weight[q][c][x]
            ELSE weight[q][c][x] - MainGrad(q, c, x)]]]
    BY <2>2 DEF OptimizerStep
  <2>4. \A c \in Chunks, x \in Params :
          /\ weight[r][c][x] \in Int /\ MainGrad(r, c, x) \in Int
          /\ weight'[r][c][x] = IF FoundInf(inf, r) \/ x \notin Held(r, c) THEN weight[r][c][x]
                                ELSE weight[r][c][x] - MainGrad(r, c, x)
    BY <2>1, <2>3, MainGradType DEF TypeInv, Table
  <2>5. ASSUME NEW c \in Chunks, NEW d \in Chunks, StageOf(r, c) = StageOf(Other(r), d)
        PROVE  weight[r][c]["layers"] - weight'[r][c]["layers"] \in
                 {0, BatchGrad(r, c, d, "layers")}
    <3>1. d = Twin(c)
      BY <2>5, TwinStages
    <3>2. MainGrad(r, c, "layers") = BatchGrad(r, c, d, "layers")
      BY <1>1, <2>1, <3>1 DEF MainGrad, SlotChunk, LayersInv, Reduced, WholeGrad
    <3>3. QED BY <2>4, <3>2 DEF Params
  <2>6. /\ EmbeddingChunk(r) \in Chunks /\ HeadChunk(r) \in Chunks
        /\ "word" \in Held(r, EmbeddingChunk(r)) /\ "word" \in Held(r, HeadChunk(r))
        /\ "word" \in Params
    BY ChunkFacts DEF Held, HasWord, Params
  <2>7. MainGrad(r, HeadChunk(r), "word") = MainGrad(r, EmbeddingChunk(r), "word")
    BY <2>1 DEF MainGrad, SlotChunk
  <2>8. weight'[r][EmbeddingChunk(r)]["word"] - weight[r][EmbeddingChunk(r)]["word"]
          = weight'[r][HeadChunk(r)]["word"] - weight[r][HeadChunk(r)]["word"]
    BY <2>4, <2>6, <2>7
  <2>9. QED BY <2>5, <2>8
<1>2. ReplicaInv /\ LayersInv /\ [Next]_vars =>
        [\A r \in Ends : InPhase(r, "update") /\ InPhase(r, "zero")' => Step(r)]_vars
  BY <1>1
<1>3. QED BY <1>2, ReplicaInvariant, LayersInvariant, PTL DEF Spec, UpdatesRight
============================================================================
