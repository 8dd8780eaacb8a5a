---------------------- MODULE ScheduleTensors_proofs ----------------------
(***************************************************************************)
(* Proofs about the tensors of the three schedules, for every accepted     *)
(* configuration: every list of a device holds the activations or the      *)
(* gradients of its own microbatches, though messages carry no tag, and    *)
(* nothing is left over at the end.                                        *)
(***************************************************************************)
EXTENDS Schedules_proofs

----
(***************************************************************************)
(* The tensors.  There are two directions: activations go to the next      *)
(* device, gradients to the previous one.  In the order of its own passes, *)
(* a direction enters the model at one end device and leaves it at the     *)
(* other; with several chunks it crosses from there to the first one       *)
(* again.                                                                  *)
(***************************************************************************)
Dirs  == {"act", "grad"}
Sides == {"send", "recv"}

\* The name of the passes of a direction, for the calls that overlap with them.
CallOf(dir) == IF dir = "act" THEN "forward" ELSE "backward"

\* Does a device have this to do with the next one?
WithNext(side, dir) ==
  (side = "send" /\ dir = "act") \/ (side = "recv" /\ dir = "grad")

Peer(cf, r, side, dir) == IF WithNext(side, dir) THEN (r + 1) % cf.P ELSE (r - 1) % cf.P

\* The device that has no neighbour for it in the last, or first, chunk.
AtEnd(cf, r, side, dir) == r = IF WithNext(side, dir) THEN cf.P - 1 ELSE 0

Live(cf, r, side, dir) == cf.V > 0 \/ ~AtEnd(cf, r, side, dir)

\* That chunk, in the order of the passes.
EndChunk(cf, side) == IF side = "send" THEN ChunkNumber(cf) - 1 ELSE 0

\* Pass n has nothing to send, or to receive.
Skips(cf, r, side, dir, n) ==
  AtEnd(cf, r, side, dir) /\ InChunk(n, cf.P, ChunkNumber(cf)) = EndChunk(cf, side)

\* How many of the first n passes have.
Transfers(cf, r, side, dir, n) ==
  IF AtEnd(cf, r, side, dir) THEN n - Passes(n, EndChunk(cf, side), cf.P, ChunkNumber(cf)) ELSE n

\* The chunk and the microbatch of pass n,
ChunkAt(cf, dir, n) == IF dir = "act" THEN ForwardChunk(cf, n) ELSE BackwardChunk(cf, n)
Number(cf, n) == Passes(n, InChunk(n, cf.P, ChunkNumber(cf)), cf.P, ChunkNumber(cf))

\* the stage of chunk c,
StageOf(cf, r, c) == c * cf.P + r

\* the tensor that microbatch i leaves behind in it and the one it needs.
Made(cf, r, dir, c, i) ==
  IF dir = "act" THEN Act(i, StageOf(cf, r, c)) ELSE Grad(i, StageOf(cf, r, c))

EndStage(cf, r, dir, c) ==
  IF dir = "act" THEN r = 0 /\ c = 0 ELSE r = cf.P - 1 /\ c = ChunkNumber(cf) - 1

Needed(cf, r, dir, c, i) ==
  IF EndStage(cf, r, dir, c) THEN None
  ELSE IF dir = "act" THEN Act(i, StageOf(cf, r, c) - 1) ELSE Grad(i, StageOf(cf, r, c) + 1)

(***************************************************************************)
(* The operations a device has posted and that are not completed.          *)
(***************************************************************************)
\* The operation for pass n, and the exchange of shapes before it.
Posted(cf, r, side, dir, n, call) ==
  IF side = "send"
  THEN [op |-> "send", peer |-> Peer(cf, r, side, dir),
        tensor |-> Made(cf, r, dir, ChunkAt(cf, dir, n), Number(cf, n)), box |-> "none",
        chunk |-> 0, call |-> call]
  ELSE [op |-> "recv", peer |-> Peer(cf, r, side, dir), tensor |-> None,
        box |-> IF dir = "act" THEN "inputs" ELSE "grads",
        chunk |-> ChunkAt(cf, dir, n), call |-> call]

PostedShape(cf, r, side, dir) ==
  IF side = "send"
  THEN [op |-> "send", peer |-> Peer(cf, r, side, dir), tensor |-> Shape, box |-> "none",
        chunk |-> 0, call |-> "shapes"]
  ELSE [op |-> "recv", peer |-> Peer(cf, r, side, dir), tensor |-> None, box |-> "shape",
        chunk |-> 0, call |-> "shapes"]

OfPort(cf, r, o, side, dir) ==
  Live(cf, r, side, dir) /\ o.op = side /\ o.peer = Peer(cf, r, side, dir)

\* In the set S of operations there is a tensor to wait for, or a shape.
Waits(cf, r, S, side, dir) ==
  \E o \in S : OfPort(cf, r, o, side, dir) /\ o.call # "shapes"
WaitsShape(cf, r, S, side, dir) ==
  \E o \in S : OfPort(cf, r, o, side, dir) /\ o.call = "shapes"

\* After n passes on this side: at most one tensor, that of the last pass.
TensorOp(cf, r, o, side, dir, n) ==
  /\ n > 0 /\ ~Skips(cf, r, side, dir, n - 1)
  /\ o = Posted(cf, r, side, dir, n - 1, o.call)
  /\ o.call = "wait" \/ (o.call = CallOf(dir) /\ cf.overlap)

PortOK(cf, r, S, side, dir, n) ==
  \A o \in S : OfPort(cf, r, o, side, dir) =>
    /\ o.call = "shapes" => /\ o = PostedShape(cf, r, side, dir)
                           /\ cf.variable /\ Waits(cf, r, S, side, dir)
    /\ o.call # "shapes" => TensorOp(cf, r, o, side, dir, n)

\* In the order of a port the shape is before the tensor.
Before(a, b) ==
  a.op = b.op /\ a.peer = b.peer => a.call = "shapes" /\ b.call # "shapes"

Ordered(s) == \A i, j \in DOMAIN s : i < j => Before(s[i], s[j])

Ported(cf, r, S) ==
  \A o \in S : \E side \in Sides, dir \in Dirs : OfPort(cf, r, o, side, dir)

TensorType == [kind : {"none", "shape", "act", "grad"}, mb : Int, stage : Int]

Calls == {"wait", "forward", "backward", "shapes"}

AnyOp == [op : Sides, peer : Int, tensor : TensorType,
          box : {"none", "inputs", "grads", "shape"}, chunk : Int, call : Calls]

PostedOK(cf, r, s, f, x, b, y) ==
  /\ s \in Seq(AnyOp) /\ Ordered(s) /\ Ported(cf, r, Range(s))
  /\ PortOK(cf, r, Range(s), "send", "act", f) /\ PortOK(cf, r, Range(s), "recv", "act", x)
  /\ PortOK(cf, r, Range(s), "send", "grad", b) /\ PortOK(cf, r, Range(s), "recv", "grad", y)

\* How many tensors and shapes have gone through.
Through(cf, r, S, side, dir, n) ==
  Transfers(cf, r, side, dir, n) - One(Waits(cf, r, S, side, dir))
ShapesThrough(cf, r, S, side, dir, n) ==
  Transfers(cf, r, side, dir, n) - One(WaitsShape(cf, r, S, side, dir))

(***************************************************************************)
(* The lists of a device after f forward and b backward passes, when the   *)
(* tensors of x and y of them have arrived.                                *)
(***************************************************************************)
\* Microbatches lo to hi - 1 of chunk c; at the end one None may follow.
Keeps(cf, r, dir, c, s, lo, hi, end) ==
  /\ lo <= hi /\ Len(s) >= hi - lo /\ (~end => Len(s) = hi - lo)
  /\ \A i \in 1 .. Len(s) :
       /\ i <= hi - lo => s[i] = Needed(cf, r, dir, c, lo + (i - 1))
       /\ i > hi - lo => s[i] = None

Padded(cf, r, dir, c) ==
  EndStage(cf, r, dir, c) /\ (cf.V > 0 \/ (dir = "grad" /\ cf.P = 1))

AllNone(s) == \A i \in 1 .. Len(s) : s[i] = None

TensorOf(cf) ==
  {None} \cup [kind : {"act", "grad"}, mb : 0 .. cf.M - 1,
               stage : 0 .. cf.P * ChunkNumber(cf) - 1]

\* The first microbatch of chunk c whose input is still needed.
Kept1(cf, f, b, c) == IF cf.forwardOnly THEN Forwards(cf, f, c) ELSE Backwards(cf, b, c)

InputsOK(cf, r, d, f, b, x) ==
  \A c \in ChunksOf(cf) :
    /\ Padded(cf, r, "act", c) => AllNone(d.inputs[c]) /\ Len(d.inputs[c]) >= Len(d.outputs[c])
    /\ ~Padded(cf, r, "act", c) =>
         Keeps(cf, r, "act", c, d.inputs[c], Kept1(cf, f, b, c), Forwards(cf, x, c),
               f = Batch1(cf))

GradsOK(cf, r, d, b, y) ==
  \A c \in ChunksOf(cf) :
    /\ Padded(cf, r, "grad", c) => AllNone(d.grads[c])
    /\ ~Padded(cf, r, "grad", c) =>
         Keeps(cf, r, "grad", c, d.grads[c], Backwards(cf, b, c), Backwards(cf, y, c),
               b = Batch1(cf))

OutputsOK(cf, r, d, b) ==
  \A c \in ChunksOf(cf) : \A i \in DOMAIN d.outputs[c] :
    d.outputs[c][i].tensor = Made(cf, r, "act", c, Backwards(cf, b, c) + (i - 1))

LossesOK(cf, r, d, f) ==
  d.losses = IF r = cf.P - 1
             THEN [i \in 1 .. Forwards(cf, f, ChunkNumber(cf) - 1) |->
                     Act(i - 1, StageOf(cf, r, ChunkNumber(cf) - 1))]
             ELSE << >>

Tensed(cf, r, d, f, b, x, y) ==
  /\ d.inputs \in [ChunksOf(cf) -> Seq(TensorType)]
  /\ d.grads \in [ChunksOf(cf) -> Seq(TensorType)]
  /\ f <= x /\ b <= y /\ x <= Batch1(cf) /\ y <= Batch1(cf)
  /\ InputsOK(cf, r, d, f, b, x) /\ GradsOK(cf, r, d, b, y)
  /\ OutputsOK(cf, r, d, b) /\ LossesOK(cf, r, d, f)
  /\ d.computed \in TensorOf(cf) /\ d.inputGrad \in TensorOf(cf)

\* Of them have arrived:
Arrived(cf, r, S, dir, n) == n - One(Waits(cf, r, S, "recv", dir))

(***************************************************************************)
(* The invariant about tensors.                                            *)
(***************************************************************************)
\* Of the four counts that of a port.
Pick(side, dir, f, x, b, y) ==
  IF side = "send" THEN (IF dir = "act" THEN f ELSE b) ELSE (IF dir = "act" THEN x ELSE y)

CountAt(cf, r, p, side, dir) ==
  Pick(side, dir, ForwardsAt(cf, r, p), InputsAt(cf, r, p), BackwardsAt(cf, r, p),
                  GradsAt(cf, r, p))

\* Without backward passes the last turn of the steady state has no second half.
HalfOK(cf, r, p) ==
  cf.forwardOnly /\ LoopAt(cf, p) = "steady" /\ p.half = 1 => p.k + 1 < RemainingOf(cf, r)

\* A device d with the operations s, by its counts,
TensorsOK(cf, r, d, s, f, x, b, y) ==
  /\ PostedOK(cf, r, s, f, x, b, y)
  /\ Tensed(cf, r, d, f, b, Arrived(cf, r, Range(s), "act", x),
                           Arrived(cf, r, Range(s), "grad", y))

\* and by its place.
DeviceTensors(cf, r, d, p, s) ==
  /\ TensorsOK(cf, r, d, s, ForwardsAt(cf, r, p), InputsAt(cf, r, p),
                            BackwardsAt(cf, r, p), GradsAt(cf, r, p))
  /\ HalfOK(cf, r, p)

\* Device q has sent as many tensors and shapes as r has received of them.
LinkAgrees(cf, q, r, s, t, p, u, dir) ==
  /\ Through(cf, q, Range(s), "send", dir, CountAt(cf, q, p, "send", dir))
       = Through(cf, r, Range(t), "recv", dir, CountAt(cf, r, u, "recv", dir))
  /\ cf.variable =>
       ShapesThrough(cf, q, Range(s), "send", dir, CountAt(cf, q, p, "send", dir))
         = ShapesThrough(cf, r, Range(t), "recv", dir, CountAt(cf, r, u, "recv", dir))

TensorInv ==
  /\ ops \in [Devices(config) -> Seq(AnyOp)]
  /\ \A r \in Devices(config) : DeviceTensors(config, r, dev[r], place[r], ops[r])
  /\ \A q, r \in Devices(config), dir \in Dirs :
       Live(config, q, "send", dir) /\ r = Peer(config, q, "send", dir) =>
         LinkAgrees(config, q, r, ops[q], ops[r], place[q], place[r], dir)

----
(***************************************************************************)
(* The ring of devices and the passes that go over it.                     *)
(***************************************************************************)
LEMMA Neighbours ==
  ASSUME NEW cf \in Configs, NEW r \in Devices(cf)
  PROVE  /\ (r + 1) % cf.P = IF r = cf.P - 1 THEN 0 ELSE r + 1
         /\ (r - 1) % cf.P = IF r = 0 THEN cf.P - 1 ELSE r - 1
<1>1. cf.P \in Nat \ {0} /\ r \in 0 .. cf.P - 1
  BY ConfigType DEF Devices
<1> DEFINE p == cf.P
<1>2. p \in Nat \ {0} /\ r \in 0 .. p - 1
  BY <1>1
<1> HIDE DEF p
<1>3. (r + 1) % p = IF r = p - 1 THEN 0 ELSE r + 1
  BY <1>2
<1>4. (r - 1) % p = IF r = 0 THEN p - 1 ELSE r - 1
  BY <1>2
<1>5. QED BY <1>3, <1>4 DEF p

\* The neighbours of a port.
LEMMA PeerIs ==
  ASSUME NEW cf \in Configs, NEW r \in Devices(cf), NEW side \in Sides, NEW dir \in Dirs
  PROVE  /\ WithNext(side, dir) => Peer(cf, r, side, dir) = IF r = cf.P - 1 THEN 0 ELSE r + 1
         /\ ~WithNext(side, dir) => Peer(cf, r, side, dir) = IF r = 0 THEN cf.P - 1 ELSE r - 1
         /\ Peer(cf, r, side, dir) \in Devices(cf)
         /\ WithNext(side, dir) => (AtEnd(cf, r, side, dir) <=> r = cf.P - 1)
         /\ ~WithNext(side, dir) => (AtEnd(cf, r, side, dir) <=> r = 0)
<1>1. cf.P \in Nat \ {0} /\ r \in 0 .. cf.P - 1
  BY ConfigType DEF Devices
<1>2. CASE WithNext(side, dir)
  <2>1. Peer(cf, r, side, dir) = IF r = cf.P - 1 THEN 0 ELSE r + 1
    BY <1>2, Neighbours DEF Peer
  <2>2. QED BY <1>1, <1>2, <2>1 DEF Devices, AtEnd
<1>3. CASE ~WithNext(side, dir)
  <2>1. Peer(cf, r, side, dir) = IF r = 0 THEN cf.P - 1 ELSE r - 1
    BY <1>3, Neighbours DEF Peer
  <2>2. QED BY <1>1, <1>3, <2>1 DEF Devices, AtEnd
<1>4. QED BY <1>2, <1>3

\* Two ports of a device differ in what they do or in the neighbour.
LEMMA PortsApart ==
  ASSUME NEW cf \in Configs, NEW r \in Devices(cf), NEW side \in Sides,
         NEW dir \in Dirs, NEW dirB \in Dirs, Live(cf, r, side, dir), Live(cf, r, side, dirB),
         Peer(cf, r, side, dir) = Peer(cf, r, side, dirB)
  PROVE  dir = dirB
<1>1. cf.P \in Nat \ {0} /\ r \in 0 .. cf.P - 1 /\ (cf.V > 0 => cf.P > 2)
  BY ConfigType DEF Devices
<1>2. SUFFICES ASSUME dir # dirB PROVE FALSE
  OBVIOUS
<1>3. \/ WithNext(side, dir) /\ ~WithNext(side, dirB)
      \/ ~WithNext(side, dir) /\ WithNext(side, dirB)
  BY <1>2 DEF WithNext, Sides, Dirs
<1>4. ASSUME NEW a \in Dirs, NEW c \in Dirs, WithNext(side, a), ~WithNext(side, c),
             Live(cf, r, side, a), Live(cf, r, side, c),
             Peer(cf, r, side, a) = Peer(cf, r, side, c)
      PROVE  FALSE
  <2>1. /\ Peer(cf, r, side, a) = IF r = cf.P - 1 THEN 0 ELSE r + 1
        /\ Peer(cf, r, side, c) = IF r = 0 THEN cf.P - 1 ELSE r - 1
        /\ (AtEnd(cf, r, side, a) <=> r = cf.P - 1) /\ (AtEnd(cf, r, side, c) <=> r = 0)
    BY <1>4, PeerIs
  <2>1a. Live(cf, r, side, a) /\ Live(cf, r, side, c)
         /\ Peer(cf, r, side, a) = Peer(cf, r, side, c)
    BY <1>4
  <2> DEFINE p == cf.P
  <2>2. CASE cf.V > 0
    <3>1. /\ p \in Nat /\ p > 2 /\ r \in 0 .. p - 1
          /\ (IF r = p - 1 THEN 0 ELSE r + 1) = (IF r = 0 THEN p - 1 ELSE r - 1)
      BY <1>1, <2>1, <2>1a, <2>2
    <3> HIDE DEF p
    <3>2. QED BY <3>1
  <2>3. CASE ~(cf.V > 0)
    <3>1. /\ p \in Nat /\ r \in 0 .. p - 1 /\ r # p - 1 /\ r # 0
          /\ (IF r = p - 1 THEN 0 ELSE r + 1) = (IF r = 0 THEN p - 1 ELSE r - 1)
      BY <1>1, <2>1, <2>1a, <2>3 DEF Live
    <3> HIDE DEF p
    <3>2. QED BY <3>1
  <2>4. QED BY <2>2, <2>3
<1>5. QED BY <1>3, <1>4

\* A port and its neighbour's.
LEMMA PeerBack ==
  ASSUME NEW cf \in Configs, NEW q \in Devices(cf), NEW dir \in Dirs,
         Live(cf, q, "send", dir), NEW r, r = Peer(cf, q, "send", dir)
  PROVE  /\ r \in Devices(cf) /\ q = Peer(cf, r, "recv", dir) /\ Live(cf, r, "recv", dir)
         /\ q # r
         /\ (AtEnd(cf, q, "send", dir) <=> AtEnd(cf, r, "recv", dir))
         /\ dir = "act" => r = IF q = cf.P - 1 THEN 0 ELSE q + 1
         /\ dir = "grad" => r = IF q = 0 THEN cf.P - 1 ELSE q - 1
<1>1. cf.P \in Nat \ {0} /\ q \in 0 .. cf.P - 1 /\ (cf.V > 0 => cf.P > 2)
  BY ConfigType DEF Devices
<1>2. "send" \in Sides /\ "recv" \in Sides
  BY DEF Sides
<1>3. r \in Devices(cf)
  BY <1>2, PeerIs
<1>4. CASE dir = "act"
  <2>1. WithNext("send", dir) /\ ~WithNext("recv", dir)
    BY <1>4 DEF WithNext
  <2>2. r = (IF q = cf.P - 1 THEN 0 ELSE q + 1) /\ (AtEnd(cf, q, "send", dir) <=> q = cf.P - 1)
    BY <1>2, <2>1, PeerIs
  <2>3. /\ Peer(cf, r, "recv", dir) = IF r = 0 THEN cf.P - 1 ELSE r - 1
        /\ (AtEnd(cf, r, "recv", dir) <=> r = 0)
    BY <1>2, <1>3, <2>1, PeerIs
  <2>4. QED BY <1>1, <1>3, <1>4, <2>2, <2>3 DEF Live
<1>5. CASE dir = "grad"
  <2>1. ~WithNext("send", dir) /\ WithNext("recv", dir)
    BY <1>5 DEF WithNext
  <2>2. r = (IF q = 0 THEN cf.P - 1 ELSE q - 1) /\ (AtEnd(cf, q, "send", dir) <=> q = 0)
    BY <1>2, <2>1, PeerIs
  <2>3. /\ Peer(cf, r, "recv", dir) = IF r = cf.P - 1 THEN 0 ELSE r + 1
        /\ (AtEnd(cf, r, "recv", dir) <=> r = cf.P - 1)
    BY <1>2, <1>3, <2>1, PeerIs
  <2>4. QED BY <1>1, <1>3, <1>5, <2>2, <2>3 DEF Live
<1>6. QED BY <1>4, <1>5 DEF Dirs

\* A pass without a transfer does not count as one.
LEMMA TransfersNext ==
  ASSUME NEW cf \in Configs, NEW r, NEW side \in Sides, NEW dir, NEW n \in Nat
  PROVE  /\ Transfers(cf, r, side, dir, n) \in Int
         /\ Transfers(cf, r, side, dir, n + 1)
              = Transfers(cf, r, side, dir, n) + One(~Skips(cf, r, side, dir, n))
         /\ ~Live(cf, r, side, dir) => Skips(cf, r, side, dir, n)
<1> DEFINE p == cf.P
           v == ChunkNumber(cf)
           c == EndChunk(cf, side)
<1>1. p \in Nat \ {0} /\ v \in Nat \ {0} /\ c \in 0 .. v - 1 /\ cf.V \in Nat
  BY ConfigType DEF EndChunk
<1>2. /\ Passes(n, c, p, v) \in Nat
      /\ InChunk(n, p, v) \in 0 .. v - 1
      /\ InChunk(n, p, v) = c => Passes(n + 1, c, p, v) = Passes(n, c, p, v) + 1
      /\ InChunk(n, p, v) # c => Passes(n + 1, c, p, v) = Passes(n, c, p, v)
  <2> HIDE DEF p, v, c
  <2>1. QED BY <1>1, PassesNext
<1>3. Skips(cf, r, side, dir, n) <=> AtEnd(cf, r, side, dir) /\ InChunk(n, p, v) = c
  BY DEF Skips
<1>4. ~Live(cf, r, side, dir) => Skips(cf, r, side, dir, n)
  <2>1. cf.V = 0 => v = 1 /\ c = 0
    BY DEF ChunkNumber, EndChunk
  <2> HIDE DEF p, v, c
  <2>2. cf.V = 0 => InChunk(n, p, v) = c
    BY <1>1, <1>2, <2>1
  <2>3. QED BY <1>1, <1>3, <2>2 DEF Live
<1>5. \A i : Transfers(cf, r, side, dir, i)
               = IF AtEnd(cf, r, side, dir) THEN i - Passes(i, c, p, v) ELSE i
  BY DEF Transfers
<1> HIDE DEF p, v, c
<1>6. CASE AtEnd(cf, r, side, dir)
  <2>1. /\ Transfers(cf, r, side, dir, n) = n - Passes(n, c, p, v)
        /\ Transfers(cf, r, side, dir, n + 1) = (n + 1) - Passes(n + 1, c, p, v)
    BY <1>5, <1>6
  <2>2. QED BY <1>2, <1>3, <1>4, <1>6, <2>1 DEF One
<1>7. CASE ~AtEnd(cf, r, side, dir)
  <2>1. Transfers(cf, r, side, dir, n) = n /\ Transfers(cf, r, side, dir, n + 1) = n + 1
    BY <1>5, <1>7
  <2>2. QED BY <1>3, <1>4, <1>7, <2>1 DEF One
<1>8. QED BY <1>6, <1>7
\* The transfers over the link that closes the ring, counted by the sender: pass n is
\* microbatch s of chunk q in group a, not of the last chunk, and the groups have v - 1 chunks.
LEMMA SentOver ==
  ASSUME NEW n \in Nat, NEW p \in Nat \ {0}, NEW v \in Nat, v > 1, NEW a \in Nat,
         NEW q \in 0 .. v - 1, NEW s \in 0 .. p - 1, Placed(n, a, q, s, p, v), q # v - 1,
         NEW u, u = v - 1
  PROVE  /\ n - Passes(n, u, p, v) \in Nat
         /\ Placed(n - Passes(n, u, p, v), a, q, s, p, u)
<1> DEFINE t == Passes(n, u, p, v)
           m == n - t
<1>1. u \in Nat \ {0} /\ v \in Nat \ {0} /\ u \in 0 .. v - 1 /\ q \in 0 .. u - 1 /\ q < u
  OBVIOUS
<1>2. t = a * p /\ a * p \in Nat
  <2>1. Placed(n, a, q, s, p, v) /\ q < u /\ u \in 0 .. v - 1
    BY <1>1
  <2>2. \A c \in 0 .. v - 1 : (q < c => Passes(n, c, p, v) = a * p) /\ a * p \in Nat
    BY <1>1, <2>1, PassesAt
  <2>3. QED BY <2>1, <2>2
<1>3. n = a * (p * v) + (q * p + s) /\ a * (p * v) \in Nat /\ q * p \in Nat /\ p * u \in Nat
      /\ a * (p * u) \in Nat
  BY <1>1, ProductNat DEF Placed
<1>4. a * (p * v) = a * (p * u) + a * p
  <2>1. v = u + 1
    BY <1>1
  <2>2. p * (u + 1) = p * u + p
    BY <1>1
  <2> DEFINE x == p * u
  <2>3. x \in Nat /\ p * v = x + p
    BY <1>3, <2>1, <2>2
  <2> HIDE DEF x
  <2>4. a * (x + p) = a * x + a * p
    BY <2>3
  <2>5. QED BY <2>3, <2>4 DEF x
<1> HIDE DEF t
<1>5. m \in Nat /\ m = a * (p * u) + (q * p + s)
  BY <1>2, <1>3, <1>4
<1> HIDE DEF m
<1>6. Sums(m, a, q, s, p, u)
  BY <1>5 DEF Sums
<1>7. Placed(m, a, q, s, p, u)
  BY <1>1, <1>5, <1>6, PlaceOfSum
<1>8. QED BY <1>5, <1>7 DEF m, t

\* Counted by the receiver it is of the next chunk.
LEMMA ReceivedOver ==
  ASSUME NEW n \in Nat, NEW p \in Nat \ {0}, NEW v \in Nat, v > 1, NEW a \in Nat,
         NEW q \in 0 .. v - 1, NEW s \in 0 .. p - 1, Placed(n, a, q, s, p, v), q # 0,
         NEW u, u = v - 1, NEW o, o = q - 1
  PROVE  /\ n - Passes(n, 0, p, v) \in Nat
         /\ Placed(n - Passes(n, 0, p, v), a, o, s, p, u)
<1> DEFINE t == Passes(n, 0, p, v)
           m == n - t
<1>1. u \in Nat \ {0} /\ v \in Nat \ {0} /\ 0 \in 0 .. v - 1 /\ o \in 0 .. u - 1 /\ q > 0
      /\ q = o + 1 /\ o \in Nat
  OBVIOUS
<1>2. t = a * p + p /\ a * p \in Nat
  BY <1>1, PassesAt
<1>3. n = a * (p * v) + (q * p + s) /\ a * (p * v) \in Nat /\ q * p \in Nat /\ p * u \in Nat
      /\ a * (p * u) \in Nat /\ o * p \in Nat /\ q * p = o * p + p
  BY <1>1, ProductNat, ProductNext DEF Placed
<1>4. a * (p * v) = a * (p * u) + a * p
  <2>1. v = u + 1
    BY <1>1
  <2>2. p * (u + 1) = p * u + p
    BY <1>1
  <2> DEFINE x == p * u
  <2>3. x \in Nat /\ p * v = x + p
    BY <1>3, <2>1, <2>2
  <2> HIDE DEF x
  <2>4. a * (x + p) = a * x + a * p
    BY <2>3
  <2>5. QED BY <2>3, <2>4 DEF x
<1> HIDE DEF t
<1>5. m \in Nat /\ m = a * (p * u) + (o * p + s)
  BY <1>2, <1>3, <1>4
<1> HIDE DEF m
<1>6. Sums(m, a, o, s, p, u)
  BY <1>5 DEF Sums
<1>7. Placed(m, a, o, s, p, u)
  BY <1>1, <1>5, <1>6, PlaceOfSum
<1>8. QED BY <1>5, <1>7 DEF m, t

\* A place is the only one of a pass.
LEMMA PlaceUnique ==
  ASSUME NEW n, NEW p \in Nat \ {0}, NEW v, NEW a, NEW b, NEW q, NEW o, NEW s, NEW t,
         Placed(n, a, q, s, p, v), Placed(n, b, o, t, p, v)
  PROVE  a = b /\ q = o /\ s = t
BY DEF Placed

\* A pass of chunk q whose microbatch is number i.
At(n, q, i, p, v) == InChunk(n, p, v) = q /\ Passes(n, q, p, v) = i

\* The passes at the two ends of that link that count the same are of the same microbatch.
LEMMA OverTheRing ==
  ASSUME NEW n \in Nat, NEW m \in Nat, NEW p \in Nat \ {0}, NEW v \in Nat, v > 1,
         InChunk(n, p, v) # v - 1, InChunk(m, p, v) # 0, NEW u, u = v - 1,
         n - Passes(n, u, p, v) = m - Passes(m, 0, p, v)
  PROVE  /\ InChunk(m, p, v) = InChunk(n, p, v) + 1 /\ InChunk(n, p, v) \in 0 .. v - 2
         /\ Passes(m, InChunk(m, p, v), p, v) = Passes(n, InChunk(n, p, v), p, v)
         /\ Passes(n, InChunk(n, p, v), p, v) \in Nat
<1>1. v \in Nat \ {0}
  OBVIOUS
<1>2. PICK a \in Nat, q \in 0 .. v - 1, s \in 0 .. p - 1 : Placed(n, a, q, s, p, v)
  BY <1>1, PassPlace
<1>3. PICK b \in Nat, c \in 0 .. v - 1, t \in 0 .. p - 1 : Placed(m, b, c, t, p, v)
  BY <1>1, PassPlace
<1>4. InChunk(n, p, v) = q /\ InChunk(m, p, v) = c
  BY <1>2, <1>3 DEF Placed
<1> DEFINE o == c - 1
           x == n - Passes(n, u, p, v)
           y == m - Passes(m, 0, p, v)
<1>5. q # v - 1 /\ c # 0 /\ o = c - 1 /\ x = y
  BY <1>4
<1>6. Placed(x, a, q, s, p, u)
  BY <1>2, <1>5, SentOver
<1>7. Placed(y, b, o, t, p, u)
  <2> HIDE DEF o
  <2>1. QED BY <1>3, <1>5, ReceivedOver
<1> HIDE DEF x, y, o
<1>8. a = b /\ q = o /\ s = t
  BY <1>5, <1>6, <1>7, PlaceUnique
<1>9. Passes(n, q, p, v) = a * p + s /\ Passes(m, c, p, v) = b * p + t /\ a * p \in Nat
  BY <1>1, <1>2, <1>3, PassesAt
<1>10. QED BY <1>4, <1>5, <1>8, <1>9

\* Some p passes later it is the next chunk's turn.
LEMMA ChunkAfter ==
  ASSUME NEW j \in Int, NEW p \in Nat \ {0}, NEW v \in Nat \ {0}, NEW n \in Nat, n = j + p,
         NEW x, x = InChunk(j, p, v), NEW y, y = InChunk(n, p, v)
  PROVE  x \in 0 .. v - 1 /\ y = IF x = v - 1 THEN 0 ELSE x + 1
<1>1. CASE j \in Nat
  <2>1. PICK a \in Nat, q \in 0 .. v - 1, s \in 0 .. p - 1 : Placed(j, a, q, s, p, v)
    BY <1>1, PassPlace
  <2>2. InChunk(j, p, v) = q /\ j = a * (p * v) + (q * p + s) /\ a * (p * v) \in Nat
        /\ q * p \in Nat /\ p * v \in Nat
    BY <2>1, ProductNat DEF Placed
  <2>3. CASE q = v - 1
    <3> DEFINE b == a + 1
    <3>1. b * (p * v) = a * (p * v) + p * v /\ 0 * p = 0 /\ b \in Nat
      BY <2>2, ProductNext
    <3>2. q * p + p = p * v
      <4>1. (q + 1) * p = q * p + p /\ q + 1 = v /\ v * p = p * v
        BY <2>3, ProductNext
      <4>2. QED BY <4>1
    <3>3. n = b * (p * v) + (0 * p + s)
      BY <2>2, <3>1, <3>2
    <3> HIDE DEF b
    <3>4. Sums(n, b, 0, s, p, v) /\ 0 \in 0 .. v - 1
      BY <3>3 DEF Sums
    <3>5. Placed(n, b, 0, s, p, v)
      BY <3>1, <3>4, PlaceOfSum
    <3>6. QED BY <2>2, <2>3, <3>5 DEF Placed
  <2>4. CASE q # v - 1
    <3> DEFINE c == q + 1
    <3>1. c * p = q * p + p /\ c \in 0 .. v - 1
      BY <2>4, ProductNext
    <3>2. n = a * (p * v) + (c * p + s)
      BY <2>2, <3>1
    <3> HIDE DEF c
    <3>3. Sums(n, a, c, s, p, v)
      BY <3>2 DEF Sums
    <3>4. Placed(n, a, c, s, p, v)
      BY <3>1, <3>3, PlaceOfSum
    <3>5. QED BY <2>2, <2>4, <3>4 DEF Placed, c
  <2>5. QED BY <2>3, <2>4
<1>2. CASE j \notin Nat
  <2> DEFINE g == p * v
             c == v - 1
             s == j + p
             m == c * p + s
  <2>1. g \in Nat \ {0} /\ c \in Nat /\ c * p \in Nat /\ s \in 0 .. p - 1 /\ g = c * p + p
        /\ s = n
    <3>1. (c + 1) * p = c * p + p /\ c + 1 = v /\ v * p = p * v /\ c \in Nat
      BY ProductNext
    <3>2. QED BY <1>2, <3>1, ProductPositive, ProductNat
  <2> HIDE DEF g, c
  <2>2. m \in Nat /\ m < g /\ j = m - g
    BY <2>1
  <2>3. j % g = m
    <3> HIDE DEF m
    <3>1. QED BY <2>1, <2>2
  <2>4. m \div p = c
    <3> HIDE DEF s
    <3>1. m = c * p + s
      OBVIOUS
    <3> HIDE DEF m
    <3>2. QED BY <2>1, <2>2, <3>1, DivModUnique
  <2>5. InChunk(j, p, v) = c
    BY <2>3, <2>4 DEF InChunk, g
  <2>6. n = 0 * (p * v) + (0 * p + n) /\ 0 \in 0 .. v - 1 /\ n \in 0 .. p - 1
    <3>1. p * v \in Nat
      BY ProductNat
    <3>2. QED BY <2>1, <3>1
  <2>7. Sums(n, 0, 0, n, p, v)
    BY <2>6 DEF Sums
  <2>8. Placed(n, 0, 0, n, p, v)
    BY <2>6, <2>7, PlaceOfSum
  <2>9. QED BY <2>1, <2>5, <2>8 DEF Placed, c
<1>3. QED BY <1>1, <1>2

\* The numbers of a pass.
LEMMA NumberIs ==
  ASSUME NEW cf \in Configs, NEW n \in Nat, NEW dir \in Dirs
  PROVE  /\ InChunk(n, cf.P, ChunkNumber(cf)) \in 0 .. ChunkNumber(cf) - 1
         /\ ChunkAt(cf, dir, n) \in ChunksOf(cf) /\ Number(cf, n) \in Nat
         /\ Number(cf, n) = Forwards(cf, n, ForwardChunk(cf, n))
         /\ Number(cf, n) = Backwards(cf, n, BackwardChunk(cf, n))
<1>1. ForwardChunk(cf, n) \in ChunksOf(cf) /\ BackwardChunk(cf, n) \in ChunksOf(cf)
      /\ Forwards(cf, n, ForwardChunk(cf, n)) \in Nat
  <2>1. \A c \in ChunksOf(cf) : Forwards(cf, n, c) \in Nat /\ ForwardChunk(cf, n) \in ChunksOf(cf)
                                /\ BackwardChunk(cf, n) \in ChunksOf(cf)
    BY ForwardsNext, BackwardsNext
  <2>2. 0 \in ChunksOf(cf)
    BY ConfigType DEF ChunksOf
  <2>3. QED BY <2>1, <2>2
<1>2. ChunkAt(cf, dir, n) \in ChunksOf(cf)
  BY <1>1 DEF ChunkAt
<1>3. InChunk(n, cf.P, ChunkNumber(cf)) \in 0 .. ChunkNumber(cf) - 1
  BY <1>1 DEF ForwardChunk, ChunksOf
<1>4. Number(cf, n) = Forwards(cf, n, ForwardChunk(cf, n))
  BY DEF Number, Forwards, ForwardChunk
<1>5. Number(cf, n) = Backwards(cf, n, BackwardChunk(cf, n))
  <2> DEFINE v == ChunkNumber(cf)
             c == InChunk(n, cf.P, v)
  <2>1. v \in Nat /\ c \in 0 .. v - 1
    BY <1>3, ConfigType
  <2>2. v - ((v - c) - 1) - 1 = c
    <3> HIDE DEF v, c
    <3>1. QED BY <2>1
  <2>3. QED BY <2>2 DEF Number, Backwards, BackwardChunk
<1>6. QED BY <1>1, <1>2, <1>3, <1>4, <1>5

\* What arrives over a link: the tensor of the pass that counts the same at the sender
\* is the one that the pass of the receiver needs.
LEMMA LinkTensor ==
  ASSUME NEW cf \in Configs, NEW q \in Devices(cf), NEW dir \in Dirs,
         Live(cf, q, "send", dir), NEW r, r = Peer(cf, q, "send", dir),
         NEW n \in Nat, NEW m \in Nat,
         ~Skips(cf, q, "send", dir, n), ~Skips(cf, r, "recv", dir, m),
         Transfers(cf, q, "send", dir, n) = Transfers(cf, r, "recv", dir, m)
  PROVE  Made(cf, q, dir, ChunkAt(cf, dir, n), Number(cf, n))
           = Needed(cf, r, dir, ChunkAt(cf, dir, m), Number(cf, m))
<1> DEFINE p == cf.P
           v == ChunkNumber(cf)
<1>1. /\ r \in Devices(cf) /\ (AtEnd(cf, q, "send", dir) <=> AtEnd(cf, r, "recv", dir))
      /\ dir = "act" => r = IF q = p - 1 THEN 0 ELSE q + 1
      /\ dir = "grad" => r = IF q = 0 THEN p - 1 ELSE q - 1
      /\ dir = "act" => (AtEnd(cf, q, "send", dir) <=> q = p - 1)
      /\ dir = "grad" => (AtEnd(cf, q, "send", dir) <=> q = 0)
  <2>1. "send" \in Sides /\ WithNext("send", "act") /\ ~WithNext("send", "grad")
    BY DEF Sides, WithNext
  <2>2. QED BY <2>1, PeerBack, PeerIs
<1>2. p \in Nat \ {0} /\ v \in Nat \ {0} /\ q \in 0 .. p - 1 /\ r \in 0 .. p - 1
      /\ dir \in {"act", "grad"} /\ (cf.V > 0 => v > 1)
  BY <1>1, ConfigType DEF Devices, Dirs, ChunkNumber
<1>3. CASE ~AtEnd(cf, q, "send", dir)
  <2>1. n = m
    BY <1>1, <1>3 DEF Transfers
  <2> DEFINE c == ChunkAt(cf, dir, n)
  <2>2. c \in Nat /\ c * p \in Nat
    BY <1>2, NumberIs, ProductNat DEF ChunksOf
  <2> HIDE DEF c
  <2>3. CASE dir = "act"
    <3>1. q # p - 1 /\ r = q + 1
      BY <1>1, <1>3, <2>3
    <3>2. c * p + q = (c * p + r) - 1 /\ r # 0
      BY <1>2, <2>2, <3>1
    <3>3. QED BY <2>1, <2>3, <3>2 DEF Made, Needed, EndStage, StageOf, c, p
  <2>4. CASE dir = "grad"
    <3>1. q # 0 /\ r = q - 1
      BY <1>1, <1>3, <2>4
    <3>2. c * p + q = (c * p + r) + 1 /\ r # p - 1
      BY <1>2, <2>2, <3>1
    <3>3. QED BY <2>1, <2>4, <3>2 DEF Made, Needed, EndStage, StageOf, c, p
  <2>5. QED BY <1>2, <2>3, <2>4
<1>4. CASE AtEnd(cf, q, "send", dir)
  <2> DEFINE u == v - 1
             o == InChunk(n, p, v)
             z == InChunk(m, p, v)
  <2>1. cf.V > 0
    BY <1>4 DEF Live
  <2>2. EndChunk(cf, "send") = u /\ EndChunk(cf, "recv") = 0
    BY DEF EndChunk
  <2>3. o # u /\ z # 0
    BY <1>1, <1>4, <2>2 DEF Skips
  <2>4. n - Passes(n, u, p, v) = m - Passes(m, 0, p, v)
    BY <1>1, <1>4, <2>2 DEF Transfers
  <2>5. /\ z = o + 1 /\ o \in 0 .. v - 2
        /\ Passes(m, z, p, v) = Passes(n, o, p, v)
    <3> HIDE DEF p, v
    <3>1. QED BY <1>2, <2>1, <2>3, <2>4, OverTheRing DEF u, o, z
  <2>6. Number(cf, n) = Number(cf, m)
    BY <2>5 DEF Number
  <2> DEFINE c == ChunkAt(cf, dir, n)
             e == ChunkAt(cf, dir, m)
  <2>7. /\ dir = "act" => c = o /\ e = z
        /\ dir = "grad" => c = (v - o) - 1 /\ e = (v - z) - 1
    BY DEF ChunkAt, ForwardChunk, BackwardChunk
  <2> HIDE DEF p, v, u, o, z, c, e
  <2>8. CASE dir = "act"
    <3>1. q = p - 1 /\ r = 0
      BY <1>1, <1>4, <2>8
    <3>2. e = c + 1 /\ c \in Nat /\ e # 0
      BY <1>2, <2>5, <2>7, <2>8
    <3>3. e * p = c * p + p /\ c * p \in Nat
      BY <1>2, <3>2, ProductNext, ProductNat
    <3>4. c * p + q = (e * p + r) - 1
      BY <1>2, <3>1, <3>3
    <3>5. QED BY <2>6, <2>8, <3>2, <3>4 DEF Made, Needed, EndStage, StageOf, c, e, p
  <2>9. CASE dir = "grad"
    <3>1. q = 0 /\ r = p - 1
      BY <1>1, <1>4, <2>9
    <3>2. c = e + 1 /\ e \in Nat /\ e # v - 1
      BY <1>2, <2>5, <2>7, <2>9
    <3>3. c * p = e * p + p /\ e * p \in Nat
      BY <1>2, <3>2, ProductNext, ProductNat
    <3>4. c * p + q = (e * p + r) + 1
      BY <1>2, <3>1, <3>3
    <3>5. QED BY <2>6, <2>9, <3>2, <3>4 DEF Made, Needed, EndStage, StageOf, c, e, p, v
  <2>10. QED BY <1>2, <2>8, <2>9
<1>5. QED BY <1>3, <1>4

----
(***************************************************************************)
(* What a call has to send and to receive when the count of a port goes    *)
(* from n to m, which is n or n + 1.                                       *)
(***************************************************************************)
ToSend(cf, r, dir, n, m) ==
  IF m = n \/ Skips(cf, r, "send", dir, n) THEN None
  ELSE Made(cf, r, dir, ChunkAt(cf, dir, n), Number(cf, n))

ToReceive(cf, r, dir, n, m) ==
  IF m = n \/ Skips(cf, r, "recv", dir, n) THEN -1 ELSE ChunkAt(cf, dir, n)

\* In the steady state of the interleaved schedule these are the chunks of the next
\* input and of the next gradient.
LEMMA NextIs ==
  ASSUME config \in Configs, config.V > 0, NEW r \in Devices(config), NEW k \in Nat
  PROVE  LET fk == k + NumWarmup(r)
         IN  /\ k = Remaining(r) - 1 => NextInputFor(r, k) = -1
             /\ k # Remaining(r) - 1 =>
                  NextInputFor(r, k) = ToReceive(config, r, "act", fk + 1, fk + 2)
             /\ NextGradFor(r, k) = ToReceive(config, r, "grad", k + 1, k + 2)
<1> DEFINE p == config.P
           v == ChunkNumber(config)
           w == NumWarmup(r)
           fk == k + w
           n == fk + 1
           m == k + 1
           i == fk - (p - 1)
           j == k - (p - 1)
<1>1. /\ p \in Nat \ {0} /\ v \in Nat \ {0} /\ r \in 0 .. p - 1 /\ w \in Nat /\ v = config.V
      /\ P = p /\ V = v
  BY ConfigType, WarmupIs, WarmupType DEF Devices, ChunkNumber
<1>2. /\ n \in Nat /\ m \in Nat /\ i \in Int /\ j \in Int /\ n = i + p /\ m = j + p /\ fk \in Nat
  <2> HIDE DEF p, w
  <2>1. QED BY <1>1
<1>3. /\ \A x : /\ GetModelChunkId(x, TRUE) = InChunk(x, p, v)
                /\ GetModelChunkId(x, FALSE) = (v - InChunk(x, p, v)) - 1
  BY ChunkIs DEF ForwardChunk, BackwardChunk
<1> DEFINE ci == InChunk(i, p, v)
           cj == InChunk(j, p, v)
           cn == InChunk(n, p, v)
           cm == InChunk(m, p, v)
<1>4. /\ ci \in 0 .. v - 1 /\ cj \in 0 .. v - 1
      /\ cn = (IF ci = v - 1 THEN 0 ELSE ci + 1) /\ cm = (IF cj = v - 1 THEN 0 ELSE cj + 1)
  <2> HIDE DEF p, v, i, j, n, m
  <2> DEFINE a1 == ci
             a2 == cj
             a3 == cn
             a4 == cm
  <2>0. /\ p \in Nat \ {0} /\ v \in Nat \ {0}
        /\ a1 = InChunk(i, p, v) /\ a2 = InChunk(j, p, v)
        /\ a3 = InChunk(n, p, v) /\ a4 = InChunk(m, p, v)
    BY <1>1
  <2> HIDE DEF a1, a2, a3, a4
  <2>1a. i \in Int /\ n \in Nat /\ n = i + p
    BY <1>2
  <2>1. a1 \in 0 .. v - 1 /\ a3 = IF a1 = v - 1 THEN 0 ELSE a1 + 1
    BY <2>0, <2>1a, ChunkAfter
  <2>2a. j \in Int /\ m \in Nat /\ m = j + p
    BY <1>2
  <2>2. a2 \in 0 .. v - 1 /\ a4 = IF a2 = v - 1 THEN 0 ELSE a2 + 1
    BY <2>0, <2>2a, ChunkAfter
  <2>3. QED BY <2>1, <2>2 DEF a1, a2, a3, a4
<1>5. /\ Skips(config, r, "recv", "act", n) <=> r = 0 /\ cn = 0
      /\ Skips(config, r, "recv", "grad", m) <=> r = p - 1 /\ cm = 0
  BY DEF Skips, AtEnd, EndChunk, WithNext
<1>6. /\ ChunkAt(config, "act", n) = cn /\ ChunkAt(config, "grad", m) = (v - cm) - 1
  BY DEF ChunkAt, ForwardChunk, BackwardChunk
<1>6a. cn \in 0 .. v - 1 /\ cm \in 0 .. v - 1
  <2> HIDE DEF v, ci, cj, cn, cm
  <2>1. QED BY <1>1, <1>4
<1>7. n # fk + 2 /\ m # k + 2 /\ fk + 2 # n /\ k + 2 # m
  <2> HIDE DEF fk
  <2>1. QED BY <1>2
<1> DEFINE last == k = Remaining(r) - 1
           c == IF OnFirstDevice(r) THEN GetModelChunkId(i, TRUE) + 1 ELSE GetModelChunkId(n, TRUE)
<1>8. NextInputFor(r, k) = IF last \/ c = v THEN -1 ELSE c
  BY <1>1 DEF NextInputFor
<1>9. c = IF r = 0 THEN ci + 1 ELSE cn
  BY <1>3 DEF OnFirstDevice
<1>10. NextGradFor(r, k) = IF r = p - 1 THEN (v - cj) - 1 - 1 ELSE (v - cm) - 1
  BY <1>1, <1>3 DEF NextGradFor, OnLastDevice
<1>11. /\ ToReceive(config, r, "act", n, fk + 2) = IF r = 0 /\ cn = 0 THEN -1 ELSE cn
       /\ ToReceive(config, r, "grad", m, k + 2) = IF r = p - 1 /\ cm = 0 THEN -1 ELSE (v - cm) - 1
  BY <1>5, <1>6, <1>7 DEF ToReceive
<1> HIDE DEF c, last, ci, cj, cn, cm, v, p
<1>12. last => NextInputFor(r, k) = -1
  BY <1>8
<1>13. ~last => NextInputFor(r, k) = ToReceive(config, r, "act", n, fk + 2)
  <2>1. CASE r = 0
    <3>1. c = ci + 1 /\ ci \in 0 .. v - 1 /\ v \in Nat
      BY <1>1, <1>4, <1>9, <2>1
    <3>2. (c = v <=> cn = 0) /\ (c # v => cn = c)
      BY <1>4, <3>1
    <3>3. QED BY <1>8, <1>11, <2>1, <3>2
  <2>2. CASE r # 0
    BY <1>1, <1>4, <1>6a, <1>8, <1>9, <1>11, <2>2
  <2>3. QED BY <2>1, <2>2
<1>14. NextGradFor(r, k) = ToReceive(config, r, "grad", m, k + 2)
  <2>1. CASE r = p - 1 /\ cj = v - 1
    BY <1>1, <1>4, <1>10, <1>11, <2>1
  <2>2. CASE r = p - 1 /\ cj # v - 1
    BY <1>1, <1>4, <1>10, <1>11, <2>2
  <2>3. CASE r # p - 1
    BY <1>1, <1>4, <1>10, <1>11, <2>3
  <2>4. QED BY <2>1, <2>2, <2>3
<1>15. QED BY <1>12, <1>13, <1>14 DEF last

----
(***************************************************************************)
(* Sequences of operations.                                                *)
(***************************************************************************)
Behind(s, t) == \A a \in Range(s), b \in Range(t) : Before(a, b)

\* One after the other.
LEMMA Joined ==
  ASSUME NEW S, NEW s \in Seq(S), NEW t \in Seq(S)
  PROVE  /\ s \o t \in Seq(S)
         /\ Range(s \o t) = Range(s) \cup Range(t)
         /\ Ordered(s) /\ Ordered(t) /\ Behind(s, t) => Ordered(s \o t)
<1> DEFINE u == s \o t
           n == Len(s)
           m == Len(t)
<1>1. /\ n \in Nat /\ m \in Nat /\ DOMAIN s = 1 .. n /\ DOMAIN t = 1 .. m
      /\ u \in Seq(S) /\ DOMAIN u = 1 .. n + m
      /\ \A i \in 1 .. n + m : u[i] = IF i <= n THEN s[i] ELSE t[i - n]
  OBVIOUS
<1> HIDE DEF u, n, m
<1>2. Range(u) = Range(s) \cup Range(t)
  <2>1. ASSUME NEW z \in Range(u) PROVE z \in Range(s) \cup Range(t)
    <3>1. PICK i \in 1 .. n + m : z = u[i]
      BY <1>1, <2>1 DEF Range
    <3>2. CASE i <= n
      BY <1>1, <3>1, <3>2 DEF Range
    <3>3. CASE ~(i <= n)
      <4>1. i - n \in 1 .. m /\ z = t[i - n]
        BY <1>1, <3>1, <3>3
      <4>2. QED BY <1>1, <4>1 DEF Range
    <3>4. QED BY <3>2, <3>3
  <2>2. ASSUME NEW z \in Range(s) PROVE z \in Range(u)
    <3>1. PICK i \in 1 .. n : z = s[i]
      BY <1>1, <2>2 DEF Range
    <3>2. i \in 1 .. n + m /\ z = u[i]
      BY <1>1, <3>1
    <3>3. QED BY <1>1, <3>2 DEF Range
  <2>3. ASSUME NEW z \in Range(t) PROVE z \in Range(u)
    <3>1. PICK i \in 1 .. m : z = t[i]
      BY <1>1, <2>3 DEF Range
    <3>2. n + i \in 1 .. n + m /\ ~(n + i <= n) /\ (n + i) - n = i
      BY <1>1, <3>1
    <3>3. z = u[n + i]
      BY <1>1, <3>1, <3>2
    <3>4. QED BY <1>1, <3>2, <3>3 DEF Range
  <2>4. QED BY <2>1, <2>2, <2>3
<1>3. ASSUME Ordered(s), Ordered(t), Behind(s, t)
      PROVE  Ordered(u)
  <2>1. SUFFICES ASSUME NEW i \in 1 .. n + m, NEW j \in 1 .. n + m, i < j
                 PROVE  Before(u[i], u[j])
    BY <1>1 DEF Ordered
  <2>2. CASE j <= n
    <3>1. u[i] = s[i] /\ u[j] = s[j] /\ i \in 1 .. n /\ j \in 1 .. n
      BY <1>1, <2>1, <2>2
    <3>2. QED BY <1>1, <1>3, <2>1, <3>1 DEF Ordered
  <2>3. CASE i <= n /\ ~(j <= n)
    <3>1. u[i] = s[i] /\ u[j] = t[j - n] /\ i \in 1 .. n /\ j - n \in 1 .. m
      BY <1>1, <2>1, <2>3
    <3>2. u[i] \in Range(s) /\ u[j] \in Range(t)
      BY <1>1, <3>1 DEF Range
    <3>3. QED BY <1>3, <3>2 DEF Behind
  <2>4. CASE ~(i <= n)
    <3>1. u[i] = t[i - n] /\ u[j] = t[j - n] /\ i - n \in 1 .. m /\ j - n \in 1 .. m
          /\ i - n < j - n
      BY <1>1, <2>1, <2>4
    <3>2. QED BY <1>1, <1>3, <3>1 DEF Ordered
  <2>5. QED BY <1>1, <2>2, <2>3, <2>4
<1>4. QED BY <1>1, <1>2, <1>3 DEF u

\* An operation that is left out when it is not needed.
LEMMA IfIs ==
  ASSUME NEW S, NEW b \in BOOLEAN, NEW o, b => o \in S
  PROVE  If(b, o) \in Seq(S) /\ Range(If(b, o)) = (IF b THEN {o} ELSE {}) /\ Ordered(If(b, o))
<1>1. CASE b
  <2>1. If(b, o) = <<o>> /\ o \in S
    BY <1>1 DEF If
  <2> DEFINE s == <<o>>
  <2>2. s \in Seq(S) /\ DOMAIN s = {1} /\ s[1] = o
    BY <2>1
  <2> HIDE DEF s
  <2>3. Range(s) = {o}
    BY <2>2 DEF Range
  <2>4. Ordered(s)
    BY <2>2 DEF Ordered
  <2>5. QED BY <1>1, <2>1, <2>2, <2>3, <2>4 DEF s
<1>2. CASE ~b
  <2>1. If(b, o) = << >>
    BY <1>2 DEF If
  <2> DEFINE s == << >>
  <2>2. s \in Seq(S) /\ DOMAIN s = {}
    OBVIOUS
  <2> HIDE DEF s
  <2>3. Range(s) = {} /\ Ordered(s)
    BY <2>2 DEF Range, Ordered
  <2>4. QED BY <1>2, <2>1, <2>2, <2>3 DEF s
<1>3. QED BY <1>1, <1>2

\* The four operations of a call.
LEMMA FourJoined ==
  ASSUME NEW S, NEW s1 \in Seq(S), NEW s2 \in Seq(S), NEW s3 \in Seq(S), NEW s4 \in Seq(S),
         Ordered(s1), Ordered(s2), Ordered(s3), Ordered(s4),
         Behind(s1, s2), Behind(s1, s3), Behind(s1, s4),
         Behind(s2, s3), Behind(s2, s4), Behind(s3, s4)
  PROVE  /\ s1 \o s2 \o s3 \o s4 \in Seq(S) /\ Ordered(s1 \o s2 \o s3 \o s4)
         /\ Range(s1 \o s2 \o s3 \o s4)
              = ((Range(s1) \cup Range(s2)) \cup Range(s3)) \cup Range(s4)
<1> DEFINE s12 == s1 \o s2
           s123 == s12 \o s3
<1>1. s12 \in Seq(S) /\ Range(s12) = Range(s1) \cup Range(s2) /\ Ordered(s12)
  BY Joined
<1> HIDE DEF s12
<1>2. Behind(s12, s3) /\ Behind(s12, s4)
  BY <1>1 DEF Behind
<1>3. s123 \in Seq(S) /\ Range(s123) = Range(s12) \cup Range(s3) /\ Ordered(s123)
  BY <1>1, <1>2, Joined
<1> HIDE DEF s123
<1>4. Behind(s123, s4)
  BY <1>2, <1>3 DEF Behind
<1>5. s123 \o s4 \in Seq(S) /\ Range(s123 \o s4) = Range(s123) \cup Range(s4)
      /\ Ordered(s123 \o s4)
  BY <1>3, <1>4, Joined
<1>6. QED BY <1>1, <1>3, <1>5 DEF s12, s123

----
(***************************************************************************)
(* A call posts for each of its ports what it asks for.                    *)
(***************************************************************************)
\* The types of tensors.
LEMMA TensorTypes ==
  ASSUME NEW cf \in Configs, NEW r \in Devices(cf), NEW dir \in Dirs, NEW c \in ChunksOf(cf),
         NEW i \in Int
  PROVE  /\ Made(cf, r, dir, c, i) \in TensorType /\ Made(cf, r, dir, c, i) # None
         /\ Needed(cf, r, dir, c, i) \in TensorType
         /\ None \in TensorType /\ Shape \in TensorType /\ Shape # None
<1>1. c \in Nat /\ cf.P \in Nat /\ r \in Nat
  BY ConfigType DEF ChunksOf, Devices
<1>2. c * cf.P \in Nat
  BY <1>1, ProductNat
<1> DEFINE s == StageOf(cf, r, c)
<1>3. s \in Nat
  <2> DEFINE x == c * cf.P
  <2>1. x \in Nat
    BY <1>2
  <2>2. s = x + r
    BY DEF StageOf
  <2> HIDE DEF x, s
  <2>3. QED BY <1>1, <2>1, <2>2
<1> HIDE DEF s
<1>4. s - 1 \in Int /\ s + 1 \in Int /\ s \in Int
  BY <1>3
<1>5. None \in TensorType /\ Shape \in TensorType /\ Shape # None
  BY DEF None, Shape, TensorType
<1>6. /\ Made(cf, r, dir, c, i) \in TensorType /\ Made(cf, r, dir, c, i) # None
  BY <1>4 DEF Made, Act, Grad, TensorType, None, s
<1>7. Needed(cf, r, dir, c, i) \in TensorType
  <2>1. Act(i, s - 1) \in TensorType /\ Grad(i, s + 1) \in TensorType
    BY <1>4 DEF Act, Grad, TensorType
  <2>2. QED BY <1>5, <2>1 DEF Needed, s
<1>8. QED BY <1>5, <1>6, <1>7

Asked(cf, r, side, dir, n, m) == m # n /\ ~Skips(cf, r, side, dir, n)

\* o is what is posted for a port from which a tensor is asked.
NewOp(cf, r, o, side, dir, n, m, call) ==
  /\ Asked(cf, r, side, dir, n, m)
  /\ \/ o = Posted(cf, r, side, dir, n, call)
     \/ cf.variable /\ o = PostedShape(cf, r, side, dir)

\* The types of what is posted.
LEMMA PostedType ==
  ASSUME NEW cf \in Configs, NEW r \in Devices(cf), NEW side \in Sides, NEW dir \in Dirs,
         NEW n \in Nat, NEW call \in Calls
  PROVE  LET o == Posted(cf, r, side, dir, n, call)
             s == PostedShape(cf, r, side, dir)
         IN  /\ o \in AnyOp /\ o.op = side /\ o.peer = Peer(cf, r, side, dir) /\ o.call = call
             /\ s \in AnyOp /\ s.op = side /\ s.peer = Peer(cf, r, side, dir)
             /\ s.call = "shapes"
<1> DEFINE q == Peer(cf, r, side, dir)
           c == ChunkAt(cf, dir, n)
           t == Made(cf, r, dir, c, Number(cf, n))
<1>1. q \in Int
  <2>1. q \in Devices(cf)
    BY PeerIs
  <2>2. QED BY <2>1, ConfigType DEF Devices
<1>2. c \in Int /\ t \in TensorType /\ None \in TensorType /\ Shape \in TensorType
  <2>1. c \in ChunksOf(cf) /\ Number(cf, n) \in Int
    BY NumberIs
  <2>2. c \in Int
    BY <2>1, ConfigType DEF ChunksOf
  <2> HIDE DEF c
  <2>3. QED BY <2>1, <2>2, TensorTypes
<1> HIDE DEF q, c, t
<1>3. side \in {"send", "recv"}
  BY DEF Sides
<1>4. CASE side = "send"
  BY <1>1, <1>2, <1>4 DEF Posted, PostedShape, AnyOp, Sides, Calls, q, c, t
<1>5. CASE side = "recv"
  BY <1>1, <1>2, <1>5 DEF Posted, PostedShape, AnyOp, Sides, Calls, q, c, t
<1>6. QED BY <1>3, <1>4, <1>5

\* A sending,
LEMMA SendIs ==
  ASSUME NEW cf \in Configs, NEW r \in Devices(cf), NEW dir \in Dirs, NEW n \in Nat, NEW m,
         NEW t, t = ToSend(cf, r, dir, n, m), NEW a \in BOOLEAN,
         a <=> Asked(cf, r, "send", dir, n, m), NEW call, NEW q, q = Peer(cf, r, "send", dir),
         NEW z \in BOOLEAN, z <=> t # None
  PROVE  /\ If(z, Send(q, t, call)) = If(a, Posted(cf, r, "send", dir, n, call))
         /\ If(z, Send(q, Shape, "shapes")) = If(a, PostedShape(cf, r, "send", dir))
<1> DEFINE u == Made(cf, r, dir, ChunkAt(cf, dir, n), Number(cf, n))
<1>1. u # None
  BY NumberIs, TensorTypes
<1>2. (a => t = u) /\ (~a => t = None)
  BY DEF ToSend, Asked
<1>3. z <=> a
  BY <1>1, <1>2
<1>4. CASE a
  BY <1>2, <1>3, <1>4 DEF If, Send, Posted, PostedShape
<1>5. CASE ~a
  BY <1>3, <1>5 DEF If
<1>6. QED BY <1>4, <1>5

\* and a receiving.
LEMMA RecvIs ==
  ASSUME NEW cf \in Configs, NEW r \in Devices(cf), NEW dir \in Dirs, NEW n \in Nat, NEW m,
         NEW t, t = ToReceive(cf, r, dir, n, m), NEW a \in BOOLEAN,
         a <=> Asked(cf, r, "recv", dir, n, m), NEW call, NEW q, q = Peer(cf, r, "recv", dir),
         NEW box, box = IF dir = "act" THEN "inputs" ELSE "grads",
         NEW z \in BOOLEAN, z <=> t >= 0
  PROVE  /\ If(z, Recv(q, box, t, call)) = If(a, Posted(cf, r, "recv", dir, n, call))
         /\ If(z, Recv(q, "shape", 0, "shapes")) = If(a, PostedShape(cf, r, "recv", dir))
<1> DEFINE u == ChunkAt(cf, dir, n)
<1>1. u \in Nat
  BY NumberIs, ConfigType DEF ChunksOf
<1>2. (a => t = u) /\ (~a => t = -1)
  BY DEF ToReceive, Asked
<1>3. z <=> a
  <2> HIDE DEF u
  <2>1. QED BY <1>1, <1>2
<1>4. CASE a
  BY <1>2, <1>3, <1>4 DEF If, Recv, Posted, PostedShape
<1>5. CASE ~a
  BY <1>3, <1>5 DEF If
<1>6. QED BY <1>4, <1>5

\* What is asked for is asked for at a live port.
LEMMA AskedLive ==
  ASSUME NEW cf \in Configs, NEW r, NEW side \in Sides, NEW dir, NEW n \in Nat, NEW m,
         Asked(cf, r, side, dir, n, m)
  PROVE  Live(cf, r, side, dir)
BY TransfersNext DEF Asked

LEMMA OperationsAre ==
  ASSUME config \in Configs, NEW r \in Devices(config), NEW call \in Calls, call # "shapes",
         NEW f \in Nat, NEW x \in Nat, NEW b \in Nat, NEW y \in Nat,
         NEW f2, NEW x2, NEW b2, NEW y2,
         NEW sn, sn = ToSend(config, r, "act", f, f2),
         NEW sp, sp = ToSend(config, r, "grad", b, b2),
         NEW pf, pf = ToReceive(config, r, "act", x, x2),
         NEW nf, nf = ToReceive(config, r, "grad", y, y2),
         NEW o, o = Operations(r, sn, sp, pf, nf, call)
  PROVE  /\ o \in Seq(AnyOp) /\ Ordered(o)
         /\ \A z : z \in Range(o) <=>
              \E side \in Sides, dir \in Dirs :
                NewOp(config, r, z, side, dir, Pick(side, dir, f, x, b, y),
                                               Pick(side, dir, f2, x2, b2, y2), call)
<1> DEFINE cf == config
           qp == PrevRank(r)
           qn == NextRank(r)
           zsn == sn # None
           zsp == sp # None
           zrp == pf >= 0
           zrn == nf >= 0
           asn == Asked(cf, r, "send", "act", f, f2)
           asp == Asked(cf, r, "send", "grad", b, b2)
           arp == Asked(cf, r, "recv", "act", x, x2)
           arn == Asked(cf, r, "recv", "grad", y, y2)
           osn == Posted(cf, r, "send", "act", f, call)
           osp == Posted(cf, r, "send", "grad", b, call)
           orp == Posted(cf, r, "recv", "act", x, call)
           orn == Posted(cf, r, "recv", "grad", y, call)
           hsn == PostedShape(cf, r, "send", "act")
           hsp == PostedShape(cf, r, "send", "grad")
           hrp == PostedShape(cf, r, "recv", "act")
           hrn == PostedShape(cf, r, "recv", "grad")
<1>0. "send" \in Sides /\ "recv" \in Sides /\ "act" \in Dirs /\ "grad" \in Dirs
  BY DEF Sides, Dirs
<1>1. /\ qn = Peer(cf, r, "send", "act") /\ qp = Peer(cf, r, "send", "grad")
      /\ qp = Peer(cf, r, "recv", "act") /\ qn = Peer(cf, r, "recv", "grad")
  BY DEF Peer, WithNext, NextRank, PrevRank, P
<1>2. /\ zsn \in BOOLEAN /\ zsp \in BOOLEAN /\ zrp \in BOOLEAN /\ zrn \in BOOLEAN
      /\ asn \in BOOLEAN /\ asp \in BOOLEAN /\ arp \in BOOLEAN /\ arn \in BOOLEAN
  BY DEF Asked
<1>3. /\ (zsn <=> sn # None) /\ (zsp <=> sp # None) /\ (zrp <=> pf >= 0) /\ (zrn <=> nf >= 0)
      /\ (asn <=> Asked(cf, r, "send", "act", f, f2))
      /\ (asp <=> Asked(cf, r, "send", "grad", b, b2))
      /\ (arp <=> Asked(cf, r, "recv", "act", x, x2))
      /\ (arn <=> Asked(cf, r, "recv", "grad", y, y2))
  OBVIOUS
<1> DEFINE isn == If(zsn, Send(qn, sn, call))
           isp == If(zsp, Send(qp, sp, call))
           irp == If(zrp, Recv(qp, "inputs", pf, call))
           irn == If(zrn, Recv(qn, "grads", nf, call))
           jsn == If(zsn, Send(qn, Shape, "shapes"))
           jsp == If(zsp, Send(qp, Shape, "shapes"))
           jrp == If(zrp, Recv(qp, "shape", 0, "shapes"))
           jrn == If(zrn, Recv(qn, "shape", 0, "shapes"))
           shapes == jsp \o jrp \o jsn \o jrn
           tensors == IF config.batched THEN isp \o irp \o isn \o irn
                      ELSE IF r % 2 = 0 THEN isn \o irp \o isp \o irn
                                        ELSE irp \o isn \o irn \o isp
           first == IF config.variable THEN shapes ELSE << >>
<1>4. o = first \o tensors
  BY DEF Operations, P2POps
<1> HIDE DEF qp, qn, zsn, zsp, zrp, zrn, asn, asp, arp, arn
<1>5. isn = If(asn, osn) /\ jsn = If(asn, hsn)
  BY <1>0, <1>1, <1>2, <1>3, SendIs
<1>6. isp = If(asp, osp) /\ jsp = If(asp, hsp)
  BY <1>0, <1>1, <1>2, <1>3, SendIs
<1>7. irp = If(arp, orp) /\ jrp = If(arp, hrp)
  BY <1>0, <1>1, <1>2, <1>3, RecvIs
<1>8. irn = If(arn, orn) /\ jrn = If(arn, hrn)
  BY <1>0, <1>1, <1>2, <1>3, RecvIs
<1> HIDE DEF isn, isp, irp, irn, jsn, jsp, jrp, jrn
<1>9. /\ osn \in AnyOp /\ osn.op = "send" /\ osn.peer = qn /\ osn.call = call
      /\ hsn \in AnyOp /\ hsn.op = "send" /\ hsn.peer = qn /\ hsn.call = "shapes"
  BY <1>0, <1>1, PostedType
<1>10. /\ osp \in AnyOp /\ osp.op = "send" /\ osp.peer = qp /\ osp.call = call
       /\ hsp \in AnyOp /\ hsp.op = "send" /\ hsp.peer = qp /\ hsp.call = "shapes"
  BY <1>0, <1>1, PostedType
<1>11. /\ orp \in AnyOp /\ orp.op = "recv" /\ orp.peer = qp /\ orp.call = call
       /\ hrp \in AnyOp /\ hrp.op = "recv" /\ hrp.peer = qp /\ hrp.call = "shapes"
  BY <1>0, <1>1, PostedType
<1>12. /\ orn \in AnyOp /\ orn.op = "recv" /\ orn.peer = qn /\ orn.call = call
       /\ hrn \in AnyOp /\ hrn.op = "recv" /\ hrn.peer = qn /\ hrn.call = "shapes"
  BY <1>0, <1>1, PostedType
<1>13. asn /\ asp => qn # qp
  <2>1. ASSUME asn, asp PROVE Live(cf, r, "send", "act") /\ Live(cf, r, "send", "grad")
    BY <1>0, <1>3, <2>1, AskedLive
  <2>2. QED BY <1>0, <1>1, <2>1, PortsApart
<1>14. arn /\ arp => qn # qp
  <2>1. ASSUME arn, arp PROVE Live(cf, r, "recv", "act") /\ Live(cf, r, "recv", "grad")
    BY <1>0, <1>3, <2>1, AskedLive
  <2>2. QED BY <1>0, <1>1, <2>1, PortsApart
<1> HIDE DEF osn, osp, orp, orn, hsn, hsp, hrp, hrn
<1>15. /\ asn /\ asp => Before(osn, osp) /\ Before(osp, osn) /\ Before(hsn, hsp) /\ Before(hsp, hsn)
       /\ arn /\ arp => Before(orn, orp) /\ Before(orp, orn) /\ Before(hrn, hrp) /\ Before(hrp, hrn)
  BY <1>9, <1>10, <1>11, <1>12, <1>13, <1>14 DEF Before
<1>16. /\ Before(osn, orp) /\ Before(orp, osn) /\ Before(osn, orn) /\ Before(orn, osn)
       /\ Before(osp, orp) /\ Before(orp, osp) /\ Before(osp, orn) /\ Before(orn, osp)
       /\ Before(hsn, hrp) /\ Before(hrp, hsn) /\ Before(hsn, hrn) /\ Before(hrn, hsn)
       /\ Before(hsp, hrp) /\ Before(hrp, hsp) /\ Before(hsp, hrn) /\ Before(hrn, hsp)
  BY <1>9, <1>10, <1>11, <1>12 DEF Before
<1>16a. /\ osn \in AnyOp /\ osp \in AnyOp /\ orp \in AnyOp /\ orn \in AnyOp
        /\ hsn \in AnyOp /\ hsp \in AnyOp /\ hrp \in AnyOp /\ hrn \in AnyOp
        /\ asn \in BOOLEAN /\ asp \in BOOLEAN /\ arp \in BOOLEAN /\ arn \in BOOLEAN
  BY <1>2, <1>9, <1>10, <1>11, <1>12
<1>17. /\ isn \in Seq(AnyOp) /\ Ordered(isn) /\ Range(isn) = (IF asn THEN {osn} ELSE {})
       /\ isp \in Seq(AnyOp) /\ Ordered(isp) /\ Range(isp) = (IF asp THEN {osp} ELSE {})
       /\ irp \in Seq(AnyOp) /\ Ordered(irp) /\ Range(irp) = (IF arp THEN {orp} ELSE {})
       /\ irn \in Seq(AnyOp) /\ Ordered(irn) /\ Range(irn) = (IF arn THEN {orn} ELSE {})
  BY <1>5, <1>6, <1>7, <1>8, <1>16a, IfIs
<1>18. /\ jsn \in Seq(AnyOp) /\ Ordered(jsn) /\ Range(jsn) = (IF asn THEN {hsn} ELSE {})
       /\ jsp \in Seq(AnyOp) /\ Ordered(jsp) /\ Range(jsp) = (IF asp THEN {hsp} ELSE {})
       /\ jrp \in Seq(AnyOp) /\ Ordered(jrp) /\ Range(jrp) = (IF arp THEN {hrp} ELSE {})
       /\ jrn \in Seq(AnyOp) /\ Ordered(jrn) /\ Range(jrn) = (IF arn THEN {hrn} ELSE {})
  BY <1>5, <1>6, <1>7, <1>8, <1>16a, IfIs
<1>18a. /\ shapes \in Seq(AnyOp) /\ Ordered(shapes)
        /\ Range(shapes) = ((Range(jsp) \cup Range(jrp)) \cup Range(jsn)) \cup Range(jrn)
  <2>1. /\ Behind(jsp, jrp) /\ Behind(jsp, jsn) /\ Behind(jsp, jrn)
        /\ Behind(jrp, jsn) /\ Behind(jrp, jrn) /\ Behind(jsn, jrn)
    BY <1>15, <1>16, <1>18 DEF Behind
  <2>2. /\ jsn \in Seq(AnyOp) /\ Ordered(jsn) /\ jsp \in Seq(AnyOp) /\ Ordered(jsp)
        /\ jrp \in Seq(AnyOp) /\ Ordered(jrp) /\ jrn \in Seq(AnyOp) /\ Ordered(jrn)
    BY <1>18
  <2>3. QED BY <2>1, <2>2, FourJoined
<1>18b. /\ tensors \in Seq(AnyOp) /\ Ordered(tensors)
        /\ Range(tensors) = ((Range(isp) \cup Range(irp)) \cup Range(isn)) \cup Range(irn)
  <2>1. /\ Behind(isp, irp) /\ Behind(isp, isn) /\ Behind(isp, irn)
        /\ Behind(irp, isn) /\ Behind(irp, irn) /\ Behind(isn, irn)
        /\ Behind(irp, isp) /\ Behind(isn, isp) /\ Behind(irn, isp) /\ Behind(isn, irp)
    BY <1>15, <1>16, <1>17 DEF Behind
  <2>2. /\ isn \in Seq(AnyOp) /\ Ordered(isn) /\ isp \in Seq(AnyOp) /\ Ordered(isp)
        /\ irp \in Seq(AnyOp) /\ Ordered(irp) /\ irn \in Seq(AnyOp) /\ Ordered(irn)
    BY <1>17
  <2>3. CASE config.batched
    <3>1. tensors = isp \o irp \o isn \o irn
      BY <2>3
    <3> HIDE DEF tensors
    <3>2. QED BY <2>1, <2>2, <3>1, FourJoined
  <2>4. CASE ~config.batched /\ r % 2 = 0
    <3>1. tensors = isn \o irp \o isp \o irn
      BY <2>4
    <3> HIDE DEF tensors
    <3>2. /\ tensors \in Seq(AnyOp) /\ Ordered(tensors)
          /\ Range(tensors) = ((Range(isn) \cup Range(irp)) \cup Range(isp)) \cup Range(irn)
      BY <2>1, <2>2, <3>1, FourJoined
    <3>3. QED BY <3>2
  <2>5. CASE ~config.batched /\ r % 2 # 0
    <3>1. tensors = irp \o isn \o irn \o isp
      BY <2>5
    <3> HIDE DEF tensors
    <3>2. /\ tensors \in Seq(AnyOp) /\ Ordered(tensors)
          /\ Range(tensors) = ((Range(irp) \cup Range(isn)) \cup Range(irn)) \cup Range(isp)
      BY <2>1, <2>2, <3>1, FourJoined
    <3>3. QED BY <3>2
  <2>6. QED BY <2>3, <2>4, <2>5
<1> HIDE DEF shapes, tensors
<1>19. /\ first \in Seq(AnyOp) /\ Ordered(first)
       /\ \A z : z \in Range(first) <=> cf.variable /\ z \in Range(shapes)
  <2>1. CASE cf.variable
    BY <1>18a, <2>1
  <2>2. CASE ~cf.variable
    <3>1. first = If(FALSE, 0)
      BY <2>2 DEF If
    <3>2. \A s : s = If(FALSE, 0) => s \in Seq(AnyOp) /\ Ordered(s) /\ Range(s) = {}
      <4> DEFINE no == FALSE
      <4>1. no \in BOOLEAN /\ ~no
        OBVIOUS
      <4> HIDE DEF no
      <4>2. If(no, 0) \in Seq(AnyOp) /\ Range(If(no, 0)) = (IF no THEN {0} ELSE {})
            /\ Ordered(If(no, 0))
        BY <4>1, IfIs
      <4>3. QED BY <4>1, <4>2 DEF no
    <3> HIDE DEF first
    <3>3. QED BY <2>2, <3>1, <3>2
  <2>3. QED BY <2>1, <2>2
<1> HIDE DEF first
<1>20. Behind(first, tensors)
  <2>1. SUFFICES ASSUME NEW a \in Range(first), NEW z \in Range(tensors) PROVE Before(a, z)
    BY DEF Behind
  <2>2. a.call = "shapes"
    BY <1>9, <1>10, <1>11, <1>12, <1>18, <1>18a, <1>19, <2>1
  <2>3. z.call = call
    BY <1>9, <1>10, <1>11, <1>12, <1>17, <1>18b, <2>1
  <2>4. QED BY <2>2, <2>3 DEF Before
<1>21. o \in Seq(AnyOp) /\ Ordered(o) /\ Range(o) = Range(first) \cup Range(tensors)
  <2>1. first \in Seq(AnyOp) /\ tensors \in Seq(AnyOp) /\ Ordered(first) /\ Ordered(tensors)
    BY <1>18b, <1>19
  <2>2. /\ first \o tensors \in Seq(AnyOp) /\ Ordered(first \o tensors)
        /\ Range(first \o tensors) = Range(first) \cup Range(tensors)
    BY <1>20, <2>1, Joined
  <2>3. QED BY <1>4, <2>2
<1>22. ASSUME NEW z
       PROVE  z \in Range(o) <=>
                \E side \in Sides, dir \in Dirs :
                  NewOp(cf, r, z, side, dir, Pick(side, dir, f, x, b, y),
                                             Pick(side, dir, f2, x2, b2, y2), call)
  <2>1. z \in Range(o) <=>
      (asp /\ (z = osp \/ (cf.variable /\ z = hsp))) \/ (arp /\ (z = orp \/ (cf.variable /\ z = hrp))) \/
      (asn /\ (z = osn \/ (cf.variable /\ z = hsn))) \/ (arn /\ (z = orn \/ (cf.variable /\ z = hrn)))
    BY <1>17, <1>18, <1>18a, <1>18b, <1>19, <1>21
  <2>2. /\ NewOp(cf, r, z, "send", "grad", b, b2, call) <=> asp /\ (z = osp \/ (cf.variable /\ z = hsp))
        /\ NewOp(cf, r, z, "recv", "act", x, x2, call) <=> arp /\ (z = orp \/ (cf.variable /\ z = hrp))
        /\ NewOp(cf, r, z, "send", "act", f, f2, call) <=> asn /\ (z = osn \/ (cf.variable /\ z = hsn))
        /\ NewOp(cf, r, z, "recv", "grad", y, y2, call) <=> arn /\ (z = orn \/ (cf.variable /\ z = hrn))
    BY <1>3 DEF NewOp, osn, osp, orp, orn, hsn, hsp, hrp, hrn
  <2>3. /\ Pick("send", "grad", f, x, b, y) = b /\ Pick("send", "grad", f2, x2, b2, y2) = b2
        /\ Pick("recv", "act", f, x, b, y) = x /\ Pick("recv", "act", f2, x2, b2, y2) = x2
        /\ Pick("send", "act", f, x, b, y) = f /\ Pick("send", "act", f2, x2, b2, y2) = f2
        /\ Pick("recv", "grad", f, x, b, y) = y /\ Pick("recv", "grad", f2, x2, b2, y2) = y2
    BY DEF Pick
  <2>4. QED BY <2>1, <2>2, <2>3 DEF Sides, Dirs
<1>23. QED BY <1>21, <1>22

\* At a port as much has gone through as before.
Same(cf, r, side, dir, S, n, T, m) ==
  /\ Through(cf, r, T, side, dir, m) = Through(cf, r, S, side, dir, n)
  /\ cf.variable => ShapesThrough(cf, r, T, side, dir, m) = ShapesThrough(cf, r, S, side, dir, n)

\* The tensor that is waited for at a port, and what need not be transferred.
Open(cf, r, S, side, dir) == One(Waits(cf, r, S, side, dir))
Gains(cf, r, side, dir, n, m) == One(m # n /\ Skips(cf, r, side, dir, n))

\* The calls that post a tensor of a direction.
CallFor(cf, dir, call) == call = "wait" \/ (call = CallOf(dir) /\ cf.overlap)

\* A port that waits for nothing has no operations.
LEMMA PortEmpty ==
  ASSUME NEW cf, NEW r, NEW side, NEW dir, NEW n, NEW S, PortOK(cf, r, S, side, dir, n),
         ~Waits(cf, r, S, side, dir)
  PROVE  \A o \in S : ~OfPort(cf, r, o, side, dir)
BY DEF PortOK, Waits

\* A count that stays or goes on by one.
Steps(n, m) == m = n \/ m = n + 1

\* Of this port N is what the call posts.
Posts(cf, r, N, side, dir, n, m, call) ==
  /\ \A o \in N : OfPort(cf, r, o, side, dir) => NewOp(cf, r, o, side, dir, n, m, call)
  /\ \A o : NewOp(cf, r, o, side, dir, n, m, call) => o \in N

\* A call adds to a port what it asks for.
LEMMA PortAsked ==
  ASSUME NEW cf \in Configs, NEW r \in Devices(cf), NEW side \in Sides, NEW dir \in Dirs,
         NEW n \in Nat, NEW m, Steps(n, m), NEW call \in Calls, call # "shapes",
         NEW S, NEW N, NEW T, T = S \cup N, PortOK(cf, r, S, side, dir, n),
         Posts(cf, r, N, side, dir, n, m, call),
         m # n => ~Waits(cf, r, S, side, dir) /\ CallFor(cf, dir, call)
  PROVE  /\ PortOK(cf, r, T, side, dir, m) /\ Same(cf, r, side, dir, S, n, T, m)
         /\ m - Open(cf, r, T, side, dir)
              = (n - Open(cf, r, S, side, dir)) + Gains(cf, r, side, dir, n, m)
<1> DEFINE op == Posted(cf, r, side, dir, n, call)
           sh == PostedShape(cf, r, side, dir)
<1>1. CASE m = n
  <2>1. \A o \in N : ~OfPort(cf, r, o, side, dir)
    BY <1>1 DEF Posts, NewOp, Asked
  <2>2. /\ Waits(cf, r, T, side, dir) <=> Waits(cf, r, S, side, dir)
        /\ WaitsShape(cf, r, T, side, dir) <=> WaitsShape(cf, r, S, side, dir)
    BY <2>1 DEF Waits, WaitsShape
  <2>3. PortOK(cf, r, T, side, dir, m)
    BY <1>1, <2>1, <2>2 DEF PortOK
  <2>4. Same(cf, r, side, dir, S, n, T, m)
    BY <1>1, <2>2 DEF Same, Through, ShapesThrough, One
  <2>5. QED BY <1>1, <2>2, <2>3, <2>4 DEF One, Open, Gains
<1>2. CASE m # n
  <2>1. m = n + 1 /\ \A o \in S : ~OfPort(cf, r, o, side, dir)
    BY <1>2, PortEmpty DEF Steps
  <2>2. /\ Transfers(cf, r, side, dir, n) \in Int
        /\ Transfers(cf, r, side, dir, m)
             = Transfers(cf, r, side, dir, n) + One(~Skips(cf, r, side, dir, n))
        /\ ~Live(cf, r, side, dir) => Skips(cf, r, side, dir, n)
    BY <2>1, TransfersNext
  <2>3. ~Waits(cf, r, S, side, dir) /\ ~WaitsShape(cf, r, S, side, dir)
    BY <2>1 DEF Waits, WaitsShape
  <2>4. CASE Skips(cf, r, side, dir, n)
    <3>1. \A o \in T : ~OfPort(cf, r, o, side, dir)
      BY <2>1, <2>4 DEF Posts, NewOp, Asked
    <3>2. ~Waits(cf, r, T, side, dir) /\ ~WaitsShape(cf, r, T, side, dir)
      BY <3>1 DEF Waits, WaitsShape
    <3>3. PortOK(cf, r, T, side, dir, m)
      BY <3>1 DEF PortOK
    <3>4. Same(cf, r, side, dir, S, n, T, m)
      BY <2>2, <2>3, <2>4, <3>2 DEF Same, Through, ShapesThrough, One
    <3>5. QED BY <1>2, <2>1, <2>3, <2>4, <3>2, <3>3, <3>4 DEF One, Open, Gains
  <2>5. CASE ~Skips(cf, r, side, dir, n)
    <3>1. /\ op.op = side /\ op.peer = Peer(cf, r, side, dir) /\ op.call = call
          /\ sh.op = side /\ sh.peer = Peer(cf, r, side, dir) /\ sh.call = "shapes"
      BY PostedType
    <3>2. \A o \in T : OfPort(cf, r, o, side, dir) => o = op \/ (cf.variable /\ o = sh)
      BY <2>1 DEF Posts, NewOp
    <3>3. /\ op \in T /\ OfPort(cf, r, op, side, dir)
          /\ cf.variable => sh \in T /\ OfPort(cf, r, sh, side, dir)
      BY <1>2, <2>2, <2>5, <3>1 DEF Posts, NewOp, Asked, OfPort
    <3>4. /\ Waits(cf, r, T, side, dir)
          /\ cf.variable => WaitsShape(cf, r, T, side, dir)
      BY <3>1, <3>3 DEF Waits, WaitsShape
    <3>5. TensorOp(cf, r, op, side, dir, m)
      <4>1. m > 0 /\ m - 1 = n
        BY <2>1
      <4>2. op.call = call
        BY <3>1
      <4>3. op = Posted(cf, r, side, dir, m - 1, op.call)
        BY <4>1, <4>2
      <4>4. CallFor(cf, dir, op.call)
        BY <1>2, <4>2
      <4>5. ~Skips(cf, r, side, dir, m - 1)
        BY <2>5, <4>1
      <4> HIDE DEF op
      <4>6. QED BY <4>1, <4>3, <4>4, <4>5 DEF TensorOp, CallFor
    <3>6. PortOK(cf, r, T, side, dir, m)
      <4> HIDE DEF op, sh
      <4>1. QED BY <3>1, <3>2, <3>4, <3>5 DEF PortOK, sh
    <3>7. Same(cf, r, side, dir, S, n, T, m)
      BY <2>2, <2>3, <2>5, <3>4 DEF Same, Through, ShapesThrough, One
    <3>8. QED BY <1>2, <2>1, <2>3, <2>5, <3>4, <3>6, <3>7 DEF One, Open, Gains
  <2>6. QED BY <2>4, <2>5
<1>3. QED BY <1>1, <1>2

\* PostedOK, port by port.
LEMMA PostedPorts ==
  ASSUME NEW cf, NEW r, NEW s, NEW f, NEW x, NEW b, NEW y
  PROVE  PostedOK(cf, r, s, f, x, b, y) <=>
           /\ s \in Seq(AnyOp) /\ Ordered(s) /\ Ported(cf, r, Range(s))
           /\ \A side \in Sides, dir \in Dirs :
                PortOK(cf, r, Range(s), side, dir, Pick(side, dir, f, x, b, y))
BY DEF PostedOK, Pick, Sides, Dirs

\* What the call posts is of one port only.
LEMMA NewOpPort ==
  ASSUME NEW cf \in Configs, NEW r \in Devices(cf), NEW side \in Sides, NEW dir \in Dirs,
         NEW n \in Nat, NEW m, NEW call \in Calls, NEW o, NewOp(cf, r, o, side, dir, n, m, call)
  PROVE  /\ OfPort(cf, r, o, side, dir)
         /\ \A sideB \in Sides, dirB \in Dirs :
              OfPort(cf, r, o, sideB, dirB) => sideB = side /\ dirB = dir
<1>1. Live(cf, r, side, dir)
  BY AskedLive DEF NewOp
<1>2. o.op = side /\ o.peer = Peer(cf, r, side, dir)
  BY PostedType DEF NewOp
<1>3. ASSUME NEW sideB \in Sides, NEW dirB \in Dirs, OfPort(cf, r, o, sideB, dirB)
      PROVE  sideB = side /\ dirB = dir
  <2>1. sideB = side
    BY <1>2, <1>3 DEF OfPort
  <2>2. Live(cf, r, side, dirB) /\ Peer(cf, r, side, dirB) = Peer(cf, r, side, dir)
    BY <1>2, <1>3, <2>1 DEF OfPort
  <2>3. dirB = dir
    BY <1>1, <2>2, PortsApart
  <2>4. QED BY <2>1, <2>3
<1>4. QED BY <1>1, <1>2, <1>3 DEF OfPort

\* The ports the call asks for are free.
FreeFor(cf, r, S, call, f, x, b, y, f2, x2, b2, y2) ==
  \A side \in Sides, dir \in Dirs :
    Pick(side, dir, f2, x2, b2, y2) # Pick(side, dir, f, x, b, y) =>
      ~Waits(cf, r, S, side, dir) /\ CallFor(cf, dir, call)

\* From S to T the ports are kept.
AllSame(cf, r, S, f, x, b, y, T, f2, x2, b2, y2) ==
  \A side \in Sides, dir \in Dirs :
    Same(cf, r, side, dir, S, Pick(side, dir, f, x, b, y), T, Pick(side, dir, f2, x2, b2, y2))

\* From the counts on the left to those on the right, from the operations s to t.
Exchange(r, call, s, t, f, x, b, y, f2, x2, b2, y2) ==
  /\ call \in Calls /\ call # "shapes"
  /\ f \in Nat /\ x \in Nat /\ b \in Nat /\ y \in Nat
  /\ Steps(f, f2) /\ Steps(x, x2) /\ Steps(b, b2) /\ Steps(y, y2)
  /\ PostedOK(config, r, s, f, x, b, y)
  /\ FreeFor(config, r, Range(s), call, f, x, b, y, f2, x2, b2, y2)
  /\ t = s \o Operations(r, ToSend(config, r, "act", f, f2), ToSend(config, r, "grad", b, b2),
                         ToReceive(config, r, "act", x, x2),
                         ToReceive(config, r, "grad", y, y2), call)

\* A call keeps all ports, and what need not be received has arrived.
LEMMA CallDone ==
  ASSUME config \in Configs, NEW r \in Devices(config), NEW call, NEW s, NEW t,
         NEW f, NEW x, NEW b, NEW y, NEW f2, NEW x2, NEW b2, NEW y2,
         Exchange(r, call, s, t, f, x, b, y, f2, x2, b2, y2)
  PROVE  /\ PostedOK(config, r, t, f2, x2, b2, y2)
         /\ AllSame(config, r, Range(s), f, x, b, y, Range(t), f2, x2, b2, y2)
         /\ Arrived(config, r, Range(t), "act", x2)
              = Arrived(config, r, Range(s), "act", x)
                  + Gains(config, r, "recv", "act", x, x2)
         /\ Arrived(config, r, Range(t), "grad", y2)
              = Arrived(config, r, Range(s), "grad", y)
                  + Gains(config, r, "recv", "grad", y, y2)
<1> DEFINE cf == config
           S == Range(s)
           T == Range(t)
           sn == ToSend(config, r, "act", f, f2)
           sp == ToSend(config, r, "grad", b, b2)
           pf == ToReceive(config, r, "act", x, x2)
           nf == ToReceive(config, r, "grad", y, y2)
           o == Operations(r, sn, sp, pf, nf, call)
           N == Range(o)
           A(side, dir) == Pick(side, dir, f, x, b, y)
           B(side, dir) == Pick(side, dir, f2, x2, b2, y2)
<1>0. /\ call \in Calls /\ call # "shapes" /\ t = s \o o
      /\ f \in Nat /\ x \in Nat /\ b \in Nat /\ y \in Nat
      /\ Steps(f, f2) /\ Steps(x, x2) /\ Steps(b, b2) /\ Steps(y, y2)
      /\ PostedOK(config, r, s, f, x, b, y)
      /\ FreeFor(config, r, Range(s), call, f, x, b, y, f2, x2, b2, y2)
  BY DEF Exchange
<1> HIDE DEF sn, sp, pf, nf
<1>0a. /\ sn = ToSend(config, r, "act", f, f2) /\ sp = ToSend(config, r, "grad", b, b2)
       /\ pf = ToReceive(config, r, "act", x, x2) /\ nf = ToReceive(config, r, "grad", y, y2)
  BY DEF sn, sp, pf, nf
<1>1. /\ o \in Seq(AnyOp) /\ Ordered(o)
      /\ \A z : z \in N <=>
           \E side \in Sides, dir \in Dirs : NewOp(cf, r, z, side, dir, A(side, dir), B(side, dir), call)
  BY <1>0, <1>0a, OperationsAre
<1>2. /\ s \in Seq(AnyOp) /\ Ordered(s) /\ Ported(cf, r, S)
      /\ \A side \in Sides, dir \in Dirs : PortOK(cf, r, S, side, dir, A(side, dir))
  BY <1>0, PostedPorts
<1>3. \A side \in Sides, dir \in Dirs :
        /\ A(side, dir) \in Nat /\ Steps(A(side, dir), B(side, dir))
        /\ B(side, dir) # A(side, dir) => ~Waits(cf, r, S, side, dir) /\ CallFor(cf, dir, call)
  BY <1>0 DEF Pick, FreeFor
<1> HIDE DEF o, A, B
<1>4. t = s \o o
  BY <1>0 DEF o
<1>5. Behind(s, o)
  <2>1. SUFFICES ASSUME NEW a \in S, NEW z \in N PROVE Before(a, z)
    BY DEF Behind
  <2>2. PICK side \in Sides, dir \in Dirs :
          NewOp(cf, r, z, side, dir, A(side, dir), B(side, dir), call)
    BY <1>1
  <2>3. OfPort(cf, r, z, side, dir)
    BY <1>0, <1>3, <2>2, NewOpPort
  <2>4. ~Waits(cf, r, S, side, dir)
    BY <1>3, <2>2 DEF NewOp, Asked
  <2>5. ~OfPort(cf, r, a, side, dir)
    BY <1>2, <2>4, PortEmpty
  <2>6. QED BY <2>3, <2>5 DEF Before, OfPort
<1>6. t \in Seq(AnyOp) /\ Ordered(t) /\ T = S \cup N
  <2>1. /\ s \o o \in Seq(AnyOp) /\ Ordered(s \o o)
        /\ Range(s \o o) = Range(s) \cup Range(o)
    BY <1>1, <1>2, <1>5, Joined
  <2>2. QED BY <1>4, <2>1
<1>7. Ported(cf, r, T)
  <2>1. \A z \in N : \E side \in Sides, dir \in Dirs : OfPort(cf, r, z, side, dir)
    BY <1>0, <1>1, <1>3, NewOpPort
  <2>2. QED BY <1>2, <1>6, <2>1 DEF Ported
<1> HIDE DEF S, T, N
<1>8. ASSUME NEW side \in Sides, NEW dir \in Dirs
      PROVE  /\ PortOK(cf, r, T, side, dir, B(side, dir))
             /\ Same(cf, r, side, dir, S, A(side, dir), T, B(side, dir))
             /\ B(side, dir) - Open(cf, r, T, side, dir)
                  = (A(side, dir) - Open(cf, r, S, side, dir))
                      + Gains(cf, r, side, dir, A(side, dir), B(side, dir))
  <2> DEFINE n == A(side, dir)
             m == B(side, dir)
  <2>1. /\ n \in Nat /\ Steps(n, m) /\ PortOK(cf, r, S, side, dir, n)
        /\ (m # n => ~Waits(cf, r, S, side, dir) /\ CallFor(cf, dir, call))
    BY <1>2, <1>3
  <2>2. ASSUME NEW z \in N, OfPort(cf, r, z, side, dir)
        PROVE  NewOp(cf, r, z, side, dir, n, m, call)
    <3>1. PICK sideB \in Sides, dirB \in Dirs :
            NewOp(cf, r, z, sideB, dirB, A(sideB, dirB), B(sideB, dirB), call)
      BY <1>1
    <3>2. side = sideB /\ dir = dirB
      BY <1>0, <1>3, <2>2, <3>1, NewOpPort
    <3>3. QED BY <3>1, <3>2
  <2>3. Posts(cf, r, N, side, dir, n, m, call)
    BY <1>1, <2>2 DEF Posts
  <2>3a. T = S \cup N /\ call \in Calls /\ call # "shapes"
    BY <1>0, <1>6
  <2> HIDE DEF n, m
  <2>4. /\ PortOK(cf, r, T, side, dir, m) /\ Same(cf, r, side, dir, S, n, T, m)
        /\ m - Open(cf, r, T, side, dir)
             = (n - Open(cf, r, S, side, dir)) + Gains(cf, r, side, dir, n, m)
    BY <2>1, <2>3, <2>3a, PortAsked
  <2>5. QED BY <2>4 DEF n, m
<1>9. PostedOK(cf, r, t, f2, x2, b2, y2)
  BY <1>6, <1>7, <1>8, PostedPorts DEF B, T
<1>10. AllSame(cf, r, S, f, x, b, y, T, f2, x2, b2, y2)
  BY <1>8 DEF AllSame, A, B
<1>11. /\ Arrived(cf, r, T, "act", x2)
            = Arrived(cf, r, S, "act", x) + Gains(cf, r, "recv", "act", x, x2)
       /\ Arrived(cf, r, T, "grad", y2)
            = Arrived(cf, r, S, "grad", y) + Gains(cf, r, "recv", "grad", y, y2)
  <2>1. /\ A("recv", "act") = x /\ B("recv", "act") = x2
        /\ A("recv", "grad") = y /\ B("recv", "grad") = y2
    BY DEF A, B, Pick
  <2>2. "recv" \in Sides /\ "act" \in Dirs /\ "grad" \in Dirs
    BY DEF Sides, Dirs
  <2>3. QED BY <1>8, <2>1, <2>2 DEF Arrived, Open
<1>12. QED BY <1>9, <1>10, <1>11 DEF S, T

----
(***************************************************************************)
(* A step of device r, and its tensors.                                    *)
(***************************************************************************)
\* Nothing is waited for at a port that nothing was asked from, or whose requests were
\* waited for.
Quiet(S, call) == \A o \in S : o.call # call

LEMMA FreePort ==
  ASSUME NEW cf \in Configs, NEW r, NEW s, NEW f, NEW x, NEW b, NEW y,
         PostedOK(cf, r, s, f, x, b, y), NEW side \in Sides, NEW dir \in Dirs,
         Quiet(Range(s), "wait"),
         \/ Pick(side, dir, f, x, b, y) = 0
         \/ ~cf.overlap
         \/ Quiet(Range(s), CallOf(dir))
  PROVE  ~Waits(cf, r, Range(s), side, dir)
<1>1. PortOK(cf, r, Range(s), side, dir, Pick(side, dir, f, x, b, y))
  BY PostedPorts
<1> DEFINE n == Pick(side, dir, f, x, b, y)
<1> HIDE DEF n
<1>2. SUFFICES ASSUME NEW o \in Range(s), OfPort(cf, r, o, side, dir), o.call # "shapes"
               PROVE  FALSE
  BY DEF Waits
<1>3. TensorOp(cf, r, o, side, dir, n)
  BY <1>1, <1>2 DEF PortOK, n
<1>4. n > 0 /\ (o.call = "wait" \/ (o.call = CallOf(dir) /\ cf.overlap))
  BY <1>3 DEF TensorOp
<1>5. n # 0
  BY <1>4
<1>6. QED BY <1>2, <1>4, <1>5 DEF Quiet, n

\* In its places the counts of a device are numbers.
LEMMA CountsAreNumbers ==
  ASSUME NEW cf \in Configs, NEW r \in Devices(cf), NEW loop, NEW k \in Nat, NEW half \in {0, 1}
  PROVE  InputsIn(cf, r, loop, k, half) \in Nat /\ GradsIn(cf, r, loop, k, half) \in Nat
<1> DEFINE w == WarmupOf(cf, r)
           m == RemainingOf(cf, r)
           n == Batch1(cf)
<1>1. w \in Nat /\ m \in Nat /\ n \in Nat
  BY WarmupType, ConfigType
<1> HIDE DEF w, m, n
<1>2. \A a, c \in Nat : SmallerOf(a, c) \in Nat
  BY DEF SmallerOf
<1> DEFINE s1 == k + 1
           s2 == w + (k + (IF cf.V = 0 THEN 1 ELSE half + 1))
           s3 == m + (k + 1)
<1>3. s1 \in Nat /\ s2 \in Nat /\ s3 \in Nat
  BY <1>1
<1> HIDE DEF s1, s2, s3
<1>4. SmallerOf(s1, n) \in Nat /\ SmallerOf(s2, n) \in Nat /\ SmallerOf(s3, n) \in Nat
  BY <1>1, <1>2, <1>3
<1>5. InputsIn(cf, r, loop, k, half) \in Nat
  <2> DEFINE a == SmallerOf(s1, n)
             c == SmallerOf(s2, n)
  <2>1. InputsIn(cf, r, loop, k, half) =
          IF loop = "plain" THEN k
          ELSE IF loop = "first" THEN (IF cf.V = 0 THEN w + k ELSE k)
          ELSE IF loop = "warmup" THEN (IF cf.V = 0 THEN k + half ELSE a)
          ELSE IF loop = "steady" THEN c ELSE n
    BY DEF InputsIn, w, n, s1, s2
  <2>2. a \in Nat /\ c \in Nat
    BY <1>4
  <2> HIDE DEF a, c
  <2>3. QED BY <1>1, <2>1, <2>2
<1>6. GradsIn(cf, r, loop, k, half) \in Nat
  <2> DEFINE a == One(cf.V > 0 /\ ~AllAhead(cf) /\ k = w)
             c == IF cf.V = 0 THEN half ELSE One(~AllAhead(cf))
             d == IF AllAhead(cf) THEN k ELSE m + 1
             e == IF cf.V = 0 THEN m + (k + half) ELSE SmallerOf(s3, n)
  <2>1. GradsIn(cf, r, loop, k, half) =
          IF cf.forwardOnly \/ loop = "first" THEN 0
          ELSE IF loop = "plain" THEN k
          ELSE IF loop = "warmup" THEN a
          ELSE IF loop = "steady" THEN k + c
          ELSE IF loop = "flush" THEN d
          ELSE IF loop = "cooldown" THEN e ELSE n
    BY DEF GradsIn, w, m, n, s3
  <2>2. a \in Nat /\ c \in Nat /\ d \in Nat /\ e \in Nat
    BY <1>1, <1>4 DEF One
  <2> HIDE DEF a, c, d, e
  <2>3. QED BY <1>1, <2>1, <2>2
<1>7. QED BY <1>5, <1>6

\* Where a device is, and what it has.
LEMMA HereTensors ==
  ASSUME Inv, TensorInv, NEW r \in Devices(config), NEW loop, NEW half, In(r, loop, half),
         NEW f, NEW x, NEW b, NEW y, f = ForwardsIn(config, r, loop, place[r].k, half),
         x = InputsIn(config, r, loop, place[r].k, half),
         b = BackwardsIn(config, r, loop, place[r].k),
         y = GradsIn(config, r, loop, place[r].k, half)
  PROVE  /\ config \in Configs /\ place[r].k \in Nat /\ place[r].k < TurnsOf(config, r, loop)
         /\ TensorsOK(config, r, dev[r], ops[r], f, x, b, y)
         /\ PostedOK(config, r, ops[r], f, x, b, y)
         /\ Work(config, r, dev[r], f, b)
         /\ f \in Nat /\ x \in Nat /\ b \in Nat /\ y \in Nat
         /\ config.forwardOnly /\ loop = "steady" /\ half = 1 =>
              place[r].k + 1 < RemainingOf(config, r)
         /\ Quiet(Range(ops[r]), "wait")
         /\ \A call : WaitedFor(r, {call}) => Quiet(Range(ops[r]), call)
<1> DEFINE p == place[r]
<1>1. /\ config \in Configs /\ LoopAt(config, p) = loop /\ p.half = half
      /\ PlaceOK(config, r, p) /\ p.k \in Nat /\ p.k < TurnsOf(config, r, loop)
      /\ Work(config, r, dev[r], f, b)
  BY Here
<1>2. half \in {0, 1}
  BY <1>1 DEF PlaceOK
<1>3. DeviceTensors(config, r, dev[r], p, ops[r])
  BY DEF TensorInv
<1>4. TensorsOK(config, r, dev[r], ops[r], f, x, b, y)
  BY <1>1, <1>3 DEF DeviceTensors, ForwardsAt, BackwardsAt, InputsAt, GradsAt
<1>5. PostedOK(config, r, ops[r], f, x, b, y)
  BY <1>4 DEF TensorsOK
<1>6. f \in Nat /\ b \in Nat
  <2>1. Counts(config, dev[r], f, b)
    BY <1>1 DEF Work
  <2>2. QED BY <1>1, <2>1, ConfigType DEF Counts
<1>7. x \in Nat /\ y \in Nat
  BY <1>1, <1>2, CountsAreNumbers
<1>8. ASSUME NEW C, NEW call \in C, WaitedFor(r, C) PROVE Quiet(Range(ops[r]), call)
  BY <1>8 DEF WaitedFor, Quiet, Range
<1>9. Quiet(Range(ops[r]), "wait")
  BY <1>8 DEF In
<1>10. \A call : WaitedFor(r, {call}) => Quiet(Range(ops[r]), call)
  BY <1>8
<1>11. config.forwardOnly /\ loop = "steady" /\ half = 1 => p.k + 1 < RemainingOf(config, r)
  BY <1>1, <1>3 DEF DeviceTensors, HalfOK
<1>12. QED BY <1>1, <1>4, <1>5, <1>6, <1>7, <1>9, <1>10, <1>11

\* A step that leaves the device with d at place q, and with the operations t.
TensorMoved(r) ==
  \E d, q, t :
    /\ DeviceTensors(config, r, d, q, t)
    /\ \A side \in Sides, dir \in Dirs :
         Same(config, r, side, dir, Range(ops[r]), CountAt(config, r, place[r], side, dir),
                                    Range(t), CountAt(config, r, q, side, dir))
    /\ dev' = [dev EXCEPT ![r] = d] /\ place' = [place EXCEPT ![r] = q]
    /\ ops' = [ops EXCEPT ![r] = t] /\ config' = config

\* It ends a turn,
LEMMA TurnTensors ==
  ASSUME Inv, NEW r \in Devices(config), NEW loop, NEW half, In(r, loop, half), loop # "done",
         NEW e, Becomes(r, e), Turn(r), NEW t, ops' = [ops EXCEPT ![r] = t],
         NEW f, NEW x, NEW b, NEW y, f = ForwardsIn(config, r, loop, place[r].k, half),
         x = InputsIn(config, r, loop, place[r].k, half),
         b = BackwardsIn(config, r, loop, place[r].k),
         y = GradsIn(config, r, loop, place[r].k, half),
         NEW f2, NEW x2, NEW b2, NEW y2, f2 = ForwardsIn(config, r, loop, place[r].k + 1, 0),
         x2 = InputsIn(config, r, loop, place[r].k + 1, 0),
         b2 = BackwardsIn(config, r, loop, place[r].k + 1),
         y2 = GradsIn(config, r, loop, place[r].k + 1, 0),
         TensorsOK(config, r, e, t, f2, x2, b2, y2),
         AllSame(config, r, Range(ops[r]), f, x, b, y, Range(t), f2, x2, b2, y2)
  PROVE  TensorMoved(r)
<1> DEFINE q == Following(r)
           p == place[r]
<1>1. config \in Configs /\ LoopAt(config, p) = loop /\ PlaceOK(config, r, p) /\ p.half = half
  BY Here
<1>2. TurnOver(config, r, p, q)
  BY <1>1, FollowingIs
<1> HIDE DEF q
<1>3. /\ ForwardsAt(config, r, q) = f2 /\ BackwardsAt(config, r, q) = b2
      /\ InputsAt(config, r, q) = x2 /\ GradsAt(config, r, q) = y2
  BY <1>1, <1>2 DEF TurnOver
<1>4. /\ ForwardsAt(config, r, p) = f /\ BackwardsAt(config, r, p) = b
      /\ InputsAt(config, r, p) = x /\ GradsAt(config, r, p) = y
  BY <1>1 DEF ForwardsAt, BackwardsAt, InputsAt, GradsAt
<1>5. DeviceTensors(config, r, e, q, t)
  <2>1. q.half = 0
    BY <1>2 DEF TurnOver
  <2>2. QED BY <1>3, <2>1 DEF DeviceTensors, HalfOK
<1>6. \A side \in Sides, dir \in Dirs :
        Same(config, r, side, dir, Range(ops[r]), CountAt(config, r, p, side, dir),
                                   Range(t), CountAt(config, r, q, side, dir))
  BY <1>3, <1>4 DEF AllSame, CountAt
<1>7. dev' = [dev EXCEPT ![r] = e] /\ place' = [place EXCEPT ![r] = q] /\ config' = config
  BY DEF Becomes, Turn, q
<1>8. QED BY <1>5, <1>6, <1>7 DEF TensorMoved

\* or stops in its middle.
LEMMA HalfTensors ==
  ASSUME Inv, NEW r \in Devices(config), NEW loop, In(r, loop, 0), loop # "done",
         NEW e, Becomes(r, e), HalfTurn(r), NEW t, ops' = [ops EXCEPT ![r] = t],
         NEW f, NEW x, NEW b, NEW y, f = ForwardsIn(config, r, loop, place[r].k, 0),
         x = InputsIn(config, r, loop, place[r].k, 0),
         b = BackwardsIn(config, r, loop, place[r].k),
         y = GradsIn(config, r, loop, place[r].k, 0),
         NEW f2, NEW x2, NEW b2, NEW y2, f2 = ForwardsIn(config, r, loop, place[r].k, 1),
         x2 = InputsIn(config, r, loop, place[r].k, 1),
         b2 = BackwardsIn(config, r, loop, place[r].k),
         y2 = GradsIn(config, r, loop, place[r].k, 1),
         TensorsOK(config, r, e, t, f2, x2, b2, y2),
         config.forwardOnly /\ loop = "steady" => place[r].k + 1 < RemainingOf(config, r),
         AllSame(config, r, Range(ops[r]), f, x, b, y, Range(t), f2, x2, b2, y2)
  PROVE  TensorMoved(r)
<1> DEFINE p == place[r]
           q == [p EXCEPT !.half = 1]
<1>1. config \in Configs /\ LoopAt(config, p) = loop /\ PlaceOK(config, r, p) /\ p.half = 0
      /\ r \in DOMAIN place
  BY Here DEF Inv
<1>2. place' = [place EXCEPT ![r] = q]
  <2>1. place' = [place EXCEPT ![r].half = @ + 1]
    BY DEF HalfTurn
  <2>2. p.half + 1 = 1
    BY <1>1
  <2>3. QED BY <2>1, <2>2
<1>2a. q.loop = p.loop /\ q.k = p.k /\ q.half = 1
  <2> DEFINE D == DOMAIN LoopsOf(config)
  <2>1. p \in [loop : D, k : Nat, half : {0, 1}]
    BY <1>1 DEF PlaceOK
  <2> HIDE DEF D, p
  <2>2. QED BY <2>1
<1> HIDE DEF q
<1>2b. LoopAt(config, q) = loop
  BY <1>1, <1>2a DEF LoopAt
<1>3. /\ ForwardsAt(config, r, q) = f2 /\ BackwardsAt(config, r, q) = b2
      /\ InputsAt(config, r, q) = x2 /\ GradsAt(config, r, q) = y2
  BY <1>2a, <1>2b DEF ForwardsAt, BackwardsAt, InputsAt, GradsAt
<1>4. /\ ForwardsAt(config, r, p) = f /\ BackwardsAt(config, r, p) = b
      /\ InputsAt(config, r, p) = x /\ GradsAt(config, r, p) = y
  BY <1>1 DEF ForwardsAt, BackwardsAt, InputsAt, GradsAt
<1>5. DeviceTensors(config, r, e, q, t)
  BY <1>2a, <1>2b, <1>3 DEF DeviceTensors, HalfOK
<1>6. \A side \in Sides, dir \in Dirs :
        Same(config, r, side, dir, Range(ops[r]), CountAt(config, r, p, side, dir),
                                   Range(t), CountAt(config, r, q, side, dir))
  BY <1>3, <1>4 DEF AllSame, CountAt
<1>7. dev' = [dev EXCEPT ![r] = e] /\ config' = config
  BY DEF Becomes
<1>8. QED BY <1>2, <1>5, <1>6, <1>7 DEF TensorMoved

\* The links of the device agree after it.
LEMMA MovedTensors ==
  ASSUME Inv, TensorInv, NEW r \in Devices(config), TensorMoved(r)
  PROVE  TensorInv'
<1> DEFINE cf == config
<1>1. PICK d, q, t :
        /\ DeviceTensors(cf, r, d, q, t)
        /\ \A side \in Sides, dir \in Dirs :
             Same(cf, r, side, dir, Range(ops[r]), CountAt(cf, r, place[r], side, dir),
                                    Range(t), CountAt(cf, r, q, side, dir))
        /\ dev' = [dev EXCEPT ![r] = d] /\ place' = [place EXCEPT ![r] = q]
        /\ ops' = [ops EXCEPT ![r] = t] /\ config' = config
  BY DEF TensorMoved
<1>2. /\ cf \in Configs /\ DOMAIN dev = Devices(cf) /\ DOMAIN place = Devices(cf)
      /\ ops \in [Devices(cf) -> Seq(AnyOp)] /\ t \in Seq(AnyOp)
  BY <1>1 DEF Inv, TensorInv, DeviceTensors, TensorsOK, PostedOK
<1>3. /\ dev'[r] = d /\ place'[r] = q /\ ops'[r] = t /\ ops' \in [Devices(cf) -> Seq(AnyOp)]
      /\ \A x \in Devices(cf) : x # r =>
           dev'[x] = dev[x] /\ place'[x] = place[x] /\ ops'[x] = ops[x]
  BY <1>1, <1>2
<1>4. ASSUME NEW x \in Devices(cf) PROVE DeviceTensors(cf, x, dev'[x], place'[x], ops'[x])
  <2>1. CASE x = r
    BY <1>1, <1>3, <2>1
  <2>2. CASE x # r
    <3>1. DeviceTensors(cf, x, dev[x], place[x], ops[x])
      BY DEF TensorInv
    <3>2. QED BY <1>3, <2>2, <3>1
  <2>3. QED BY <2>1, <2>2
<1>5. ASSUME NEW a \in Devices(cf), NEW c \in Devices(cf), NEW dir \in Dirs,
             Live(cf, a, "send", dir), c = Peer(cf, a, "send", dir)
      PROVE  LinkAgrees(cf, a, c, ops'[a], ops'[c], place'[a], place'[c], dir)
  <2>1. LinkAgrees(cf, a, c, ops[a], ops[c], place[a], place[c], dir)
    BY <1>5 DEF TensorInv
  <2>2. a # c
    BY <1>2, <1>5, PeerBack
  <2>3. "send" \in Sides /\ "recv" \in Sides
    BY DEF Sides
  <2>4. CASE a = r
    <3>1. /\ Same(cf, a, "send", dir, Range(ops[a]), CountAt(cf, a, place[a], "send", dir),
                                      Range(ops'[a]), CountAt(cf, a, place'[a], "send", dir))
          /\ place'[c] = place[c] /\ ops'[c] = ops[c]
      BY <1>1, <1>3, <2>2, <2>3, <2>4
    <3>2. QED BY <2>1, <3>1 DEF LinkAgrees, Same
  <2>5. CASE c = r
    <3>1. /\ Same(cf, c, "recv", dir, Range(ops[c]), CountAt(cf, c, place[c], "recv", dir),
                                      Range(ops'[c]), CountAt(cf, c, place'[c], "recv", dir))
          /\ place'[a] = place[a] /\ ops'[a] = ops[a]
      BY <1>1, <1>3, <2>2, <2>3, <2>5
    <3>2. QED BY <2>1, <3>1 DEF LinkAgrees, Same
  <2>6. CASE a # r /\ c # r
    BY <1>3, <2>1, <2>6
  <2>7. QED BY <2>4, <2>5, <2>6
<1>6. QED BY <1>1, <1>3, <1>4, <1>5 DEF TensorInv

----
(***************************************************************************)
(* The lists of tensors.                                                   *)
(***************************************************************************)
\* Types of what is made and needed.
LEMMA NeededType ==
  ASSUME NEW cf \in Configs, NEW r \in Devices(cf), NEW dir, NEW c \in ChunksOf(cf), NEW i \in Int
  PROVE  Needed(cf, r, dir, c, i) \in TensorType
<1> DEFINE s == StageOf(cf, r, c)
<1>1. s \in Int
  <2>1. c \in Int /\ cf.P \in Int /\ r \in Int
    BY ConfigType DEF ChunksOf, Devices
  <2>2. QED BY <2>1 DEF StageOf
<1> HIDE DEF s
<1>2. None \in TensorType /\ Act(i, s - 1) \in TensorType /\ Grad(i, s + 1) \in TensorType
  BY <1>1 DEF None, Act, Grad, TensorType
<1>3. QED BY <1>2 DEF Needed, s

\* One more microbatch,
LEMMA KeepsMore ==
  ASSUME NEW cf, NEW r, NEW dir, NEW c, NEW s \in Seq(TensorType), NEW lo \in Nat, NEW hi \in Nat,
         Keeps(cf, r, dir, c, s, lo, hi, FALSE), NEW t \in TensorType,
         t = Needed(cf, r, dir, c, hi)
  PROVE  /\ Append(s, t) \in Seq(TensorType)
         /\ Keeps(cf, r, dir, c, Append(s, t), lo, hi + 1, FALSE)
<1> DEFINE u == Append(s, t)
           n == Len(s)
           m == hi + 1
<1>1. u \in Seq(TensorType) /\ Len(u) = n + 1 /\ n \in Nat /\ u[n + 1] = t
      /\ \A i \in 1 .. n : u[i] = s[i]
  OBVIOUS
<1>2. /\ lo <= hi /\ n = hi - lo
      /\ \A i \in 1 .. n : (i <= hi - lo) => s[i] = Needed(cf, r, dir, c, lo + (i - 1))
  BY DEF Keeps
<1> HIDE DEF u, n
<1>3. lo + ((n + 1) - 1) = hi /\ n + 1 = m - lo /\ lo <= m
  BY <1>1, <1>2
<1>4. ASSUME NEW i \in 1 .. Len(u)
      PROVE  i <= m - lo /\ u[i] = Needed(cf, r, dir, c, lo + (i - 1))
  <2>1. i \in 1 .. n \/ i = n + 1
    BY <1>1
  <2>2. i <= n + 1
    BY <1>1
  <2>3. CASE i \in 1 .. n
    BY <1>1, <1>2, <1>3, <2>2, <2>3
  <2>4. CASE i = n + 1
    BY <1>1, <1>3, <2>2, <2>4
  <2>5. QED BY <2>1, <2>3, <2>4
<1> HIDE DEF m
<1>5. m \in Int
  BY DEF m
<1>6. Keeps(cf, r, dir, c, u, lo, m, FALSE)
  BY <1>1, <1>3, <1>4, <1>5 DEF Keeps
<1>7. QED BY <1>1, <1>6 DEF u, m

\* a None behind the last one,
LEMMA KeepsSurplus ==
  ASSUME NEW cf, NEW r, NEW dir, NEW c, NEW s \in Seq(TensorType), NEW lo \in Nat, NEW hi \in Nat,
         Keeps(cf, r, dir, c, s, lo, hi, TRUE)
  PROVE  /\ Append(s, None) \in Seq(TensorType)
         /\ Keeps(cf, r, dir, c, Append(s, None), lo, hi, TRUE)
<1> DEFINE u == Append(s, None)
           n == Len(s)
<1>0. None \in TensorType
  BY DEF None, TensorType
<1>1. u \in Seq(TensorType) /\ Len(u) = n + 1 /\ n \in Nat /\ u[n + 1] = None
      /\ \A i \in 1 .. n : u[i] = s[i]
  BY <1>0
<1>2. /\ lo <= hi /\ n >= hi - lo
      /\ \A i \in 1 .. n : /\ (i <= hi - lo) => s[i] = Needed(cf, r, dir, c, lo + (i - 1))
                           /\ (i > hi - lo) => s[i] = None
  BY DEF Keeps
<1> HIDE DEF u, n
<1>4. ASSUME NEW i \in 1 .. Len(u)
      PROVE  /\ (i <= hi - lo) => u[i] = Needed(cf, r, dir, c, lo + (i - 1))
             /\ (i > hi - lo) => u[i] = None
  <2>1. i \in 1 .. n \/ i = n + 1
    BY <1>1
  <2>3. CASE i \in 1 .. n
    BY <1>1, <1>2, <2>3
  <2>4. CASE i = n + 1
    <3>1. ~(i <= hi - lo)
      BY <1>1, <1>2, <2>4
    <3>2. QED BY <1>1, <2>4, <3>1
  <2>5. QED BY <2>1, <2>3, <2>4
<1>5. Len(u) >= hi - lo
  BY <1>1, <1>2
<1>6. Keeps(cf, r, dir, c, u, lo, hi, TRUE)
  BY <1>1, <1>2, <1>4, <1>5 DEF Keeps
<1>7. QED BY <1>1, <1>6 DEF u

\* the oldest one less,
LEMMA KeepsLess ==
  ASSUME NEW cf, NEW r, NEW dir, NEW c, NEW s \in Seq(TensorType), NEW lo \in Nat, NEW hi \in Nat,
         NEW end, Keeps(cf, r, dir, c, s, lo, hi, end), lo < hi
  PROVE  /\ s # << >> /\ Head(s) = Needed(cf, r, dir, c, lo) /\ Tail(s) \in Seq(TensorType)
         /\ Keeps(cf, r, dir, c, Tail(s), lo + 1, hi, end)
<1> DEFINE n == Len(s)
           u == Tail(s)
           l == lo + 1
<1>1. /\ n >= hi - lo /\ (~end => n = hi - lo) /\ n \in Nat
      /\ \A i \in 1 .. n : /\ (i <= hi - lo) => s[i] = Needed(cf, r, dir, c, lo + (i - 1))
                           /\ (i > hi - lo) => s[i] = None
  BY DEF Keeps
<1>2. n >= 1 /\ s # << >>
  BY <1>1
<1>3. Head(s) = s[1] /\ u \in Seq(TensorType) /\ Len(u) = n - 1
      /\ \A i \in 1 .. n - 1 : u[i] = s[i + 1]
  BY <1>2
<1> HIDE DEF n, u
<1>4. Head(s) = Needed(cf, r, dir, c, lo)
  <2>1. 1 \in 1 .. n /\ 1 <= hi - lo /\ lo + (1 - 1) = lo
    BY <1>1, <1>2
  <2>2. QED BY <1>1, <1>3, <2>1
<1>5. ASSUME NEW i \in 1 .. Len(u)
      PROVE  /\ (i <= hi - l) => u[i] = Needed(cf, r, dir, c, l + (i - 1))
             /\ (i > hi - l) => u[i] = None
  <2> DEFINE j == i + 1
  <2>1. j \in 1 .. n /\ u[i] = s[j] /\ lo + (j - 1) = l + (i - 1)
    BY <1>1, <1>3
  <2>2. (i <= hi - l <=> j <= hi - lo) /\ (i > hi - l <=> j > hi - lo)
    BY <1>1, <1>3
  <2> HIDE DEF j, l
  <2>3. QED BY <1>1, <2>1, <2>2
<1>6. l <= hi /\ Len(u) >= hi - l /\ (~end => Len(u) = hi - l) /\ l \in Nat
  BY <1>1, <1>3
<1> HIDE DEF l
<1>7. Keeps(cf, r, dir, c, u, l, hi, end)
  BY <1>5, <1>6 DEF Keeps
<1>8. QED BY <1>2, <1>3, <1>4, <1>7 DEF u, l

\* the only one less.
LEMMA KeepsNone ==
  ASSUME NEW cf, NEW r, NEW dir, NEW c, NEW lo \in Nat, NEW end
  PROVE  Keeps(cf, r, dir, c, << >>, lo, lo, end)
<1>1. Len(<< >>) = 0 /\ lo - lo = 0
  OBVIOUS
<1>2. QED BY <1>1 DEF Keeps

\* Where there is exactly one microbatch more than lo, the newest is it.
LEMMA KeepsLast ==
  ASSUME NEW cf, NEW r, NEW dir, NEW c, NEW s \in Seq(TensorType), NEW lo \in Nat, NEW hi \in Nat,
         NEW m, m = hi + 1, Keeps(cf, r, dir, c, s, lo, m, FALSE), lo <= hi
  PROVE  s # << >> /\ Last(s) = Needed(cf, r, dir, c, hi)
<1> DEFINE n == Len(s)
<1>1. n = m - lo /\ \A i \in 1 .. n : (i <= m - lo) => s[i] = Needed(cf, r, dir, c, lo + (i - 1))
  BY DEF Keeps
<1>2. n \in Nat /\ n >= 1 /\ n \in 1 .. n /\ lo + (n - 1) = hi /\ n <= m - lo
  BY <1>1
<1>3. Last(s) = s[n]
  BY DEF Last
<1> HIDE DEF n
<1>4. Last(s) = Needed(cf, r, dir, c, hi)
  BY <1>1, <1>2, <1>3
<1>5. s # << >>
  BY <1>2 DEF n
<1>6. QED BY <1>4, <1>5

\* Lists of None.
LEMMA NoneLists ==
  ASSUME NEW s \in Seq(TensorType), AllNone(s)
  PROVE  /\ Append(s, None) \in Seq(TensorType) /\ AllNone(Append(s, None))
         /\ Len(Append(s, None)) = Len(s) + 1
         /\ s # << >> => /\ Last(s) = None /\ Head(s) = None
                         /\ Tail(s) \in Seq(TensorType) /\ AllNone(Tail(s))
                         /\ Len(Tail(s)) = Len(s) - 1
<1> DEFINE u == Append(s, None)
           n == Len(s)
<1>0. None \in TensorType
  BY DEF None, TensorType
<1>1. u \in Seq(TensorType) /\ Len(u) = n + 1 /\ n \in Nat /\ u[n + 1] = None
      /\ \A i \in 1 .. n : u[i] = s[i] /\ s[i] = None
  BY <1>0 DEF AllNone
<1> HIDE DEF u
<1>2. AllNone(u)
  BY <1>1 DEF AllNone
<1>3. ASSUME s # << >>
      PROVE  /\ Last(s) = None /\ Head(s) = None
             /\ Tail(s) \in Seq(TensorType) /\ AllNone(Tail(s))
             /\ Len(Tail(s)) = Len(s) - 1
  <2>1. Last(s) = s[n] /\ Head(s) = s[1] /\ n >= 1
    BY <1>3 DEF Last
  <2>2. Tail(s) \in Seq(TensorType) /\ Len(Tail(s)) = n - 1
        /\ \A i \in 1 .. n - 1 : Tail(s)[i] = s[i + 1]
    BY <1>3
  <2>3. n \in 1 .. n /\ 1 \in 1 .. n
    BY <1>1, <2>1
  <2>4. AllNone(Tail(s))
    <3>1. \A i \in 1 .. n - 1 : i + 1 \in 1 .. n
      BY <1>1
    <3>2. QED BY <1>1, <2>2, <3>1 DEF AllNone
  <2>5. QED BY <1>1, <2>1, <2>2, <2>3, <2>4
<1>4. QED BY <1>1, <1>2, <1>3 DEF u

\* A list without its last element.
LEMMA FrontIs ==
  ASSUME NEW S, NEW s \in Seq(S), s # << >>
  PROVE  /\ Front(s) \in Seq(S) /\ Len(Front(s)) = Len(s) - 1
         /\ \A j \in 1 .. Len(s) - 1 : Front(s)[j] = s[j]
<1> DEFINE n == Len(s) - 1
<1>1. n \in Nat /\ 1 \in 1 .. Len(s) + 1 /\ n \in 1 - 1 .. Len(s)
  OBVIOUS
<1>2. Front(s) = SubSeq(s, 1, n)
  BY DEF Front
<1>3. n - 1 + 1 = n
  BY <1>1
<1> HIDE DEF n
<1>4. SubSeq(s, 1, n) \in Seq(S) /\ Len(SubSeq(s, 1, n)) = n /\ \A j \in 1 .. n : SubSeq(s, 1, n)[j] = s[j]
  BY <1>1, <1>3 DEF n
<1>5. QED BY <1>2, <1>4 DEF n

----
(***************************************************************************)
(* A tensor arrives.                                                       *)
(***************************************************************************)
SameRest(d, e) ==
  /\ e.outputs = d.outputs /\ e.losses = d.losses
  /\ e.computed = d.computed /\ e.inputGrad = d.inputGrad

\* From d to e the tensor t comes to the inputs of chunk c, or to its gradients.
InputCame(d, e, c, t) ==
  e.inputs = [d.inputs EXCEPT ![c] = Append(@, t)] /\ e.grads = d.grads /\ SameRest(d, e)
GradCame(d, e, c, t) ==
  e.grads = [d.grads EXCEPT ![c] = Append(@, t)] /\ e.inputs = d.inputs /\ SameRest(d, e)

\* The counts of a chunk are numbers.
LEMMA ChunkCounts ==
  ASSUME NEW cf \in Configs, NEW c \in ChunksOf(cf), NEW f \in Nat, NEW b \in Nat, NEW x \in Nat
  PROVE  /\ Kept1(cf, f, b, c) \in Nat /\ Forwards(cf, x, c) \in Nat /\ Backwards(cf, x, c) \in Nat
         /\ Batch1(cf) \in Nat
BY ForwardsNext, BackwardsNext, ConfigType DEF Kept1

LEMMA InputArrives ==
  ASSUME NEW cf \in Configs, NEW r \in Devices(cf), NEW d, NEW e, NEW f \in Nat, NEW b \in Nat,
         NEW x \in Nat, NEW y, Tensed(cf, r, d, f, b, x, y), x < Batch1(cf),
         NEW c, c = ForwardChunk(cf, x), NEW t, t = Needed(cf, r, "act", c, Number(cf, x)),
         InputCame(d, e, c, t)
  PROVE  Tensed(cf, r, e, f, b, x + 1, y)
<1> DEFINE z == x + 1
<1>1. /\ c \in ChunksOf(cf) /\ Number(cf, x) \in Nat /\ Number(cf, x) = Forwards(cf, x, c)
      /\ Forwards(cf, z, c) = Forwards(cf, x, c) + 1
      /\ \A q \in ChunksOf(cf) : q # c => Forwards(cf, z, q) = Forwards(cf, x, q)
  <2>1. ChunkAt(cf, "act", x) \in ChunksOf(cf) /\ Number(cf, x) \in Nat
        /\ Number(cf, x) = Forwards(cf, x, ForwardChunk(cf, x))
    BY NumberIs DEF Dirs
  <2>2. c \in ChunksOf(cf)
    BY <2>1 DEF ChunkAt
  <2>3. QED BY <2>1, <2>2, ForwardsNext
<1>2. /\ d.inputs \in [ChunksOf(cf) -> Seq(TensorType)]
      /\ d.grads \in [ChunksOf(cf) -> Seq(TensorType)]
      /\ f <= x /\ b <= y /\ x <= Batch1(cf) /\ y <= Batch1(cf)
      /\ InputsOK(cf, r, d, f, b, x) /\ GradsOK(cf, r, d, b, y)
      /\ OutputsOK(cf, r, d, b) /\ LossesOK(cf, r, d, f)
      /\ d.computed \in TensorOf(cf) /\ d.inputGrad \in TensorOf(cf)
  BY DEF Tensed
<1>3. /\ e.inputs = [d.inputs EXCEPT ![c] = Append(@, t)] /\ e.grads = d.grads
      /\ e.outputs = d.outputs /\ e.losses = d.losses
      /\ e.computed = d.computed /\ e.inputGrad = d.inputGrad
  BY DEF InputCame, SameRest
<1>4. t \in TensorType
  <2>1. Number(cf, x) \in Int
    BY <1>1
  <2> DEFINE n == Number(cf, x)
  <2> HIDE DEF n
  <2>2. Needed(cf, r, "act", c, n) \in TensorType
    BY <1>1, <2>1, NeededType DEF n
  <2>3. QED BY <2>2 DEF n
<1>5. /\ e.inputs \in [ChunksOf(cf) -> Seq(TensorType)] /\ e.inputs[c] = Append(d.inputs[c], t)
      /\ \A q \in ChunksOf(cf) : q # c => e.inputs[q] = d.inputs[q]
  <2>1. Append(d.inputs[c], t) \in Seq(TensorType)
    BY <1>1, <1>2, <1>4
  <2>2. QED BY <1>1, <1>2, <1>3, <2>1
<1>6. Batch1(cf) \in Nat /\ f # Batch1(cf) /\ z <= Batch1(cf) /\ f <= z /\ z \in Nat
  BY <1>2, ConfigType
<1> HIDE DEF z
<1>7. InputsOK(cf, r, e, f, b, z)
  <2>1. SUFFICES ASSUME NEW q \in ChunksOf(cf)
                 PROVE  /\ Padded(cf, r, "act", q) =>
                             AllNone(e.inputs[q]) /\ Len(e.inputs[q]) >= Len(e.outputs[q])
                        /\ ~Padded(cf, r, "act", q) =>
                             Keeps(cf, r, "act", q, e.inputs[q], Kept1(cf, f, b, q),
                                   Forwards(cf, z, q), f = Batch1(cf))
    BY DEF InputsOK
  <2>2. /\ Padded(cf, r, "act", q) =>
             AllNone(d.inputs[q]) /\ Len(d.inputs[q]) >= Len(d.outputs[q])
        /\ ~Padded(cf, r, "act", q) =>
             Keeps(cf, r, "act", q, d.inputs[q], Kept1(cf, f, b, q),
                   Forwards(cf, x, q), f = Batch1(cf))
    BY <1>2 DEF InputsOK
  <2>3. CASE q # c
    BY <1>1, <1>3, <1>5, <2>2, <2>3
  <2>4. CASE q = c /\ Padded(cf, r, "act", q)
    <3>1. t = None
      BY <2>4 DEF Padded, Needed
    <3>2. d.inputs[q] \in Seq(TensorType) /\ AllNone(d.inputs[q])
          /\ Len(d.inputs[q]) >= Len(d.outputs[q])
      BY <1>2, <2>2, <2>4
    <3>3. AllNone(Append(d.inputs[q], None))
          /\ Len(Append(d.inputs[q], None)) = Len(d.inputs[q]) + 1
      BY <3>2, NoneLists
    <3>4. AllNone(e.inputs[q]) /\ Len(e.inputs[q]) = Len(d.inputs[q]) + 1
      BY <1>5, <2>4, <3>1, <3>3
    <3>5. Len(d.inputs[q]) \in Nat
      BY <3>2
    <3>6. QED BY <1>3, <2>4, <3>2, <3>4, <3>5
  <2>5. CASE q = c /\ ~Padded(cf, r, "act", q)
    <3> DEFINE s == d.inputs[q]
               lo == Kept1(cf, f, b, q)
               hi == Forwards(cf, x, q)
               end == f = Batch1(cf)
    <3>1. Keeps(cf, r, "act", q, s, lo, hi, end)
      BY <2>2, <2>5
    <3>2. s \in Seq(TensorType) /\ lo \in Nat /\ hi \in Nat /\ ~end
      BY <1>2, <1>6, ChunkCounts
    <3>3. t = Needed(cf, r, "act", q, hi) /\ Forwards(cf, z, q) = hi + 1
          /\ e.inputs[q] = Append(s, t)
      BY <1>1, <1>5, <2>5
    <3> HIDE DEF s, lo, hi
    <3>4. Keeps(cf, r, "act", q, s, lo, hi, FALSE)
      BY <3>1, <3>2
    <3>5. Keeps(cf, r, "act", q, Append(s, t), lo, hi + 1, FALSE)
      BY <1>4, <3>2, <3>3, <3>4, KeepsMore
    <3>6. QED BY <2>5, <3>2, <3>3, <3>5 DEF lo
  <2>6. QED BY <2>3, <2>4, <2>5
<1>8. GradsOK(cf, r, e, b, y) /\ OutputsOK(cf, r, e, b) /\ LossesOK(cf, r, e, f)
  BY <1>2, <1>3 DEF GradsOK, OutputsOK, LossesOK
<1>9. e.computed \in TensorOf(cf) /\ e.inputGrad \in TensorOf(cf)
  BY <1>2, <1>3
<1>10. Tensed(cf, r, e, f, b, z, y)
  BY <1>2, <1>3, <1>5, <1>6, <1>7, <1>8, <1>9 DEF Tensed
<1>11. QED BY <1>10 DEF z

LEMMA GradArrives ==
  ASSUME NEW cf \in Configs, NEW r \in Devices(cf), NEW d, NEW e, NEW f \in Nat, NEW b \in Nat,
         NEW x, NEW y \in Nat, Tensed(cf, r, d, f, b, x, y), y < Batch1(cf),
         NEW c, c = BackwardChunk(cf, y), NEW t, t = Needed(cf, r, "grad", c, Number(cf, y)),
         GradCame(d, e, c, t)
  PROVE  Tensed(cf, r, e, f, b, x, y + 1)
<1> DEFINE z == y + 1
<1>1. /\ c \in ChunksOf(cf) /\ Number(cf, y) \in Nat /\ Number(cf, y) = Backwards(cf, y, c)
      /\ Backwards(cf, z, c) = Backwards(cf, y, c) + 1
      /\ \A q \in ChunksOf(cf) : q # c => Backwards(cf, z, q) = Backwards(cf, y, q)
  <2>1. ChunkAt(cf, "grad", y) \in ChunksOf(cf) /\ Number(cf, y) \in Nat
        /\ Number(cf, y) = Backwards(cf, y, BackwardChunk(cf, y))
    BY NumberIs DEF Dirs
  <2>2. c \in ChunksOf(cf)
    BY <2>1 DEF ChunkAt
  <2>3. QED BY <2>1, <2>2, BackwardsNext
<1>2. /\ d.inputs \in [ChunksOf(cf) -> Seq(TensorType)]
      /\ d.grads \in [ChunksOf(cf) -> Seq(TensorType)]
      /\ f <= x /\ b <= y /\ x <= Batch1(cf) /\ y <= Batch1(cf)
      /\ InputsOK(cf, r, d, f, b, x) /\ GradsOK(cf, r, d, b, y)
      /\ OutputsOK(cf, r, d, b) /\ LossesOK(cf, r, d, f)
      /\ d.computed \in TensorOf(cf) /\ d.inputGrad \in TensorOf(cf)
  BY DEF Tensed
<1>3. /\ e.grads = [d.grads EXCEPT ![c] = Append(@, t)] /\ e.inputs = d.inputs
      /\ e.outputs = d.outputs /\ e.losses = d.losses
      /\ e.computed = d.computed /\ e.inputGrad = d.inputGrad
  BY DEF GradCame, SameRest
<1>4. t \in TensorType
  <2>1. Number(cf, y) \in Int
    BY <1>1
  <2> DEFINE n == Number(cf, y)
  <2> HIDE DEF n
  <2>2. Needed(cf, r, "grad", c, n) \in TensorType
    BY <1>1, <2>1, NeededType DEF n
  <2>3. QED BY <2>2 DEF n
<1>5. /\ e.grads \in [ChunksOf(cf) -> Seq(TensorType)] /\ e.grads[c] = Append(d.grads[c], t)
      /\ \A q \in ChunksOf(cf) : q # c => e.grads[q] = d.grads[q]
  <2>1. Append(d.grads[c], t) \in Seq(TensorType)
    BY <1>1, <1>2, <1>4
  <2>2. QED BY <1>1, <1>2, <1>3, <2>1
<1>6. Batch1(cf) \in Nat /\ b # Batch1(cf) /\ z <= Batch1(cf) /\ b <= z /\ z \in Nat
  BY <1>2, ConfigType
<1> HIDE DEF z
<1>7. GradsOK(cf, r, e, b, z)
  <2>1. SUFFICES ASSUME NEW q \in ChunksOf(cf)
                 PROVE  /\ Padded(cf, r, "grad", q) => AllNone(e.grads[q])
                        /\ ~Padded(cf, r, "grad", q) =>
                             Keeps(cf, r, "grad", q, e.grads[q], Backwards(cf, b, q),
                                   Backwards(cf, z, q), b = Batch1(cf))
    BY DEF GradsOK
  <2>2. /\ Padded(cf, r, "grad", q) => AllNone(d.grads[q])
        /\ ~Padded(cf, r, "grad", q) =>
             Keeps(cf, r, "grad", q, d.grads[q], Backwards(cf, b, q),
                   Backwards(cf, y, q), b = Batch1(cf))
    BY <1>2 DEF GradsOK
  <2>3. CASE q # c
    BY <1>1, <1>5, <2>2, <2>3
  <2>4. CASE q = c /\ Padded(cf, r, "grad", q)
    <3>1. t = None
      BY <2>4 DEF Padded, Needed
    <3>2. d.grads[q] \in Seq(TensorType) /\ AllNone(d.grads[q])
      BY <1>2, <2>2, <2>4
    <3>3. AllNone(Append(d.grads[q], None))
      BY <3>2, NoneLists
    <3>4. QED BY <1>5, <2>4, <3>1, <3>3
  <2>5. CASE q = c /\ ~Padded(cf, r, "grad", q)
    <3> DEFINE s == d.grads[q]
               lo == Backwards(cf, b, q)
               hi == Backwards(cf, y, q)
               end == b = Batch1(cf)
    <3>1. Keeps(cf, r, "grad", q, s, lo, hi, end)
      BY <2>2, <2>5
    <3>2. s \in Seq(TensorType) /\ lo \in Nat /\ hi \in Nat /\ ~end
      BY <1>2, <1>6, ChunkCounts
    <3>3. t = Needed(cf, r, "grad", q, hi) /\ Backwards(cf, z, q) = hi + 1
          /\ e.grads[q] = Append(s, t)
      BY <1>1, <1>5, <2>5
    <3> HIDE DEF s, lo, hi
    <3>4. Keeps(cf, r, "grad", q, s, lo, hi, FALSE)
      BY <3>1, <3>2
    <3>5. Keeps(cf, r, "grad", q, Append(s, t), lo, hi + 1, FALSE)
      BY <1>4, <3>2, <3>3, <3>4, KeepsMore
    <3>6. QED BY <2>5, <3>2, <3>3, <3>5 DEF lo
  <2>6. QED BY <2>3, <2>4, <2>5
<1>8. InputsOK(cf, r, e, f, b, x) /\ OutputsOK(cf, r, e, b) /\ LossesOK(cf, r, e, f)
  BY <1>2, <1>3 DEF InputsOK, OutputsOK, LossesOK
<1>9. e.computed \in TensorOf(cf) /\ e.inputGrad \in TensorOf(cf)
  BY <1>2, <1>3
<1>10. Tensed(cf, r, e, f, b, x, z)
  BY <1>2, <1>3, <1>5, <1>6, <1>7, <1>8, <1>9 DEF Tensed
<1>11. QED BY <1>10 DEF z

\* After the last pass a surplus None may come to any chunk.
LEMMA InputSurplus ==
  ASSUME NEW cf \in Configs, NEW r \in Devices(cf), NEW d, NEW e, NEW f \in Nat, NEW b \in Nat,
         NEW x \in Nat, NEW y, Tensed(cf, r, d, f, b, x, y), f = Batch1(cf),
         NEW c \in ChunksOf(cf), InputCame(d, e, c, None)
  PROVE  Tensed(cf, r, e, f, b, x, y)
<1>2. /\ d.inputs \in [ChunksOf(cf) -> Seq(TensorType)]
      /\ d.grads \in [ChunksOf(cf) -> Seq(TensorType)]
      /\ f <= x /\ b <= y /\ x <= Batch1(cf) /\ y <= Batch1(cf)
      /\ InputsOK(cf, r, d, f, b, x) /\ GradsOK(cf, r, d, b, y)
      /\ OutputsOK(cf, r, d, b) /\ LossesOK(cf, r, d, f)
      /\ d.computed \in TensorOf(cf) /\ d.inputGrad \in TensorOf(cf)
  BY DEF Tensed
<1>3. /\ e.inputs = [d.inputs EXCEPT ![c] = Append(@, None)] /\ e.grads = d.grads
      /\ e.outputs = d.outputs /\ e.losses = d.losses
      /\ e.computed = d.computed /\ e.inputGrad = d.inputGrad
  BY DEF InputCame, SameRest
<1>4. None \in TensorType
  BY DEF None, TensorType
<1>5. /\ e.inputs \in [ChunksOf(cf) -> Seq(TensorType)] /\ e.inputs[c] = Append(d.inputs[c], None)
      /\ \A q \in ChunksOf(cf) : q # c => e.inputs[q] = d.inputs[q]
  <2>1. Append(d.inputs[c], None) \in Seq(TensorType)
    BY <1>2, <1>4
  <2>2. QED BY <1>2, <1>3, <2>1
<1>7. InputsOK(cf, r, e, f, b, x)
  <2>1. SUFFICES ASSUME NEW q \in ChunksOf(cf)
                 PROVE  /\ Padded(cf, r, "act", q) =>
                             AllNone(e.inputs[q]) /\ Len(e.inputs[q]) >= Len(e.outputs[q])
                        /\ ~Padded(cf, r, "act", q) =>
                             Keeps(cf, r, "act", q, e.inputs[q], Kept1(cf, f, b, q),
                                   Forwards(cf, x, q), f = Batch1(cf))
    BY DEF InputsOK
  <2>2. /\ Padded(cf, r, "act", q) =>
             AllNone(d.inputs[q]) /\ Len(d.inputs[q]) >= Len(d.outputs[q])
        /\ ~Padded(cf, r, "act", q) =>
             Keeps(cf, r, "act", q, d.inputs[q], Kept1(cf, f, b, q),
                   Forwards(cf, x, q), f = Batch1(cf))
    BY <1>2 DEF InputsOK
  <2>3. CASE q # c
    BY <1>3, <1>5, <2>2, <2>3
  <2>4. CASE q = c /\ Padded(cf, r, "act", q)
    <3>2. d.inputs[q] \in Seq(TensorType) /\ AllNone(d.inputs[q])
          /\ Len(d.inputs[q]) >= Len(d.outputs[q])
      BY <1>2, <2>2, <2>4
    <3>3. AllNone(Append(d.inputs[q], None))
          /\ Len(Append(d.inputs[q], None)) = Len(d.inputs[q]) + 1
      BY <3>2, NoneLists
    <3>4. AllNone(e.inputs[q]) /\ Len(e.inputs[q]) = Len(d.inputs[q]) + 1
      BY <1>5, <2>4, <3>3
    <3>5. Len(d.inputs[q]) \in Nat
      BY <3>2
    <3>6. QED BY <1>3, <2>4, <3>2, <3>4, <3>5
  <2>5. CASE q = c /\ ~Padded(cf, r, "act", q)
    <3> DEFINE s == d.inputs[q]
               lo == Kept1(cf, f, b, q)
               hi == Forwards(cf, x, q)
               end == f = Batch1(cf)
    <3>1. Keeps(cf, r, "act", q, s, lo, hi, end)
      BY <2>2, <2>5
    <3>2. s \in Seq(TensorType) /\ lo \in Nat /\ hi \in Nat /\ end
      BY <1>2, ChunkCounts
    <3>3. e.inputs[q] = Append(s, None)
      BY <1>5, <2>5
    <3> HIDE DEF s, lo, hi
    <3>4. Keeps(cf, r, "act", q, s, lo, hi, TRUE)
      BY <3>1, <3>2
    <3>5. Keeps(cf, r, "act", q, Append(s, None), lo, hi, TRUE)
      BY <3>2, <3>4, KeepsSurplus
    <3>6. QED BY <2>5, <3>2, <3>3, <3>5 DEF lo, hi
  <2>6. QED BY <2>3, <2>4, <2>5
<1>8. GradsOK(cf, r, e, b, y) /\ OutputsOK(cf, r, e, b) /\ LossesOK(cf, r, e, f)
  BY <1>2, <1>3 DEF GradsOK, OutputsOK, LossesOK
<1>9. e.computed \in TensorOf(cf) /\ e.inputGrad \in TensorOf(cf)
  BY <1>2, <1>3
<1>10. QED BY <1>2, <1>3, <1>5, <1>7, <1>8, <1>9 DEF Tensed

LEMMA GradSurplus ==
  ASSUME NEW cf \in Configs, NEW r \in Devices(cf), NEW d, NEW e, NEW f \in Nat, NEW b \in Nat,
         NEW x, NEW y \in Nat, Tensed(cf, r, d, f, b, x, y), b = Batch1(cf),
         NEW c \in ChunksOf(cf), GradCame(d, e, c, None)
  PROVE  Tensed(cf, r, e, f, b, x, y)
<1>2. /\ d.inputs \in [ChunksOf(cf) -> Seq(TensorType)]
      /\ d.grads \in [ChunksOf(cf) -> Seq(TensorType)]
      /\ f <= x /\ b <= y /\ x <= Batch1(cf) /\ y <= Batch1(cf)
      /\ InputsOK(cf, r, d, f, b, x) /\ GradsOK(cf, r, d, b, y)
      /\ OutputsOK(cf, r, d, b) /\ LossesOK(cf, r, d, f)
      /\ d.computed \in TensorOf(cf) /\ d.inputGrad \in TensorOf(cf)
  BY DEF Tensed
<1>3. /\ e.grads = [d.grads EXCEPT ![c] = Append(@, None)] /\ e.inputs = d.inputs
      /\ e.outputs = d.outputs /\ e.losses = d.losses
      /\ e.computed = d.computed /\ e.inputGrad = d.inputGrad
  BY DEF GradCame, SameRest
<1>4. None \in TensorType
  BY DEF None, TensorType
<1>5. /\ e.grads \in [ChunksOf(cf) -> Seq(TensorType)] /\ e.grads[c] = Append(d.grads[c], None)
      /\ \A q \in ChunksOf(cf) : q # c => e.grads[q] = d.grads[q]
  <2>1. Append(d.grads[c], None) \in Seq(TensorType)
    BY <1>2, <1>4
  <2>2. QED BY <1>2, <1>3, <2>1
<1>7. GradsOK(cf, r, e, b, y)
  <2>1. SUFFICES ASSUME NEW q \in ChunksOf(cf)
                 PROVE  /\ Padded(cf, r, "grad", q) => AllNone(e.grads[q])
                        /\ ~Padded(cf, r, "grad", q) =>
                             Keeps(cf, r, "grad", q, e.grads[q], Backwards(cf, b, q),
                                   Backwards(cf, y, q), b = Batch1(cf))
    BY DEF GradsOK
  <2>2. /\ Padded(cf, r, "grad", q) => AllNone(d.grads[q])
        /\ ~Padded(cf, r, "grad", q) =>
             Keeps(cf, r, "grad", q, d.grads[q], Backwards(cf, b, q),
                   Backwards(cf, y, q), b = Batch1(cf))
    BY <1>2 DEF GradsOK
  <2>3. CASE q # c
    BY <1>5, <2>2, <2>3
  <2>4. CASE q = c /\ Padded(cf, r, "grad", q)
    <3>2. d.grads[q] \in Seq(TensorType) /\ AllNone(d.grads[q])
      BY <1>2, <2>2, <2>4
    <3>3. AllNone(Append(d.grads[q], None))
      BY <3>2, NoneLists
    <3>4. QED BY <1>5, <2>4, <3>3
  <2>5. CASE q = c /\ ~Padded(cf, r, "grad", q)
    <3> DEFINE s == d.grads[q]
               lo == Backwards(cf, b, q)
               hi == Backwards(cf, y, q)
               end == b = Batch1(cf)
    <3>1. Keeps(cf, r, "grad", q, s, lo, hi, end)
      BY <2>2, <2>5
    <3>2. s \in Seq(TensorType) /\ lo \in Nat /\ hi \in Nat /\ end
      BY <1>2, ChunkCounts
    <3>3. e.grads[q] = Append(s, None)
      BY <1>5, <2>5
    <3> HIDE DEF s, lo, hi
    <3>4. Keeps(cf, r, "grad", q, s, lo, hi, TRUE)
      BY <3>1, <3>2
    <3>5. Keeps(cf, r, "grad", q, Append(s, None), lo, hi, TRUE)
      BY <3>2, <3>4, KeepsSurplus
    <3>6. QED BY <2>5, <3>2, <3>3, <3>5 DEF lo, hi
  <2>6. QED BY <2>3, <2>4, <2>5
<1>8. InputsOK(cf, r, e, f, b, x) /\ OutputsOK(cf, r, e, b) /\ LossesOK(cf, r, e, f)
  BY <1>2, <1>3 DEF InputsOK, OutputsOK, LossesOK
<1>9. e.computed \in TensorOf(cf) /\ e.inputGrad \in TensorOf(cf)
  BY <1>2, <1>3
<1>10. QED BY <1>2, <1>3, <1>5, <1>7, <1>8, <1>9 DEF Tensed

\* Where nothing of this changes.
LEMMA TensedSame ==
  ASSUME NEW cf, NEW r, NEW d, NEW e, NEW f, NEW b, NEW x, NEW y, Tensed(cf, r, d, f, b, x, y),
         e.inputs = d.inputs, e.grads = d.grads, SameRest(d, e)
  PROVE  Tensed(cf, r, e, f, b, x, y)
BY DEF Tensed, InputsOK, GradsOK, OutputsOK, LossesOK, SameRest

----
(***************************************************************************)
(* A forward pass of the tensors of a device.                              *)
(***************************************************************************)
ForwardTensors(cf, r, d, e, c, out) ==
  /\ e.grads = d.grads /\ e.computed = out /\ e.inputGrad = d.inputGrad
  /\ r = cf.P - 1 /\ c = ChunkNumber(cf) - 1 => e.losses = Append(d.losses, out)
  /\ ~(r = cf.P - 1 /\ c = ChunkNumber(cf) - 1) => e.losses = d.losses
  /\ cf.forwardOnly => /\ e.inputs = [d.inputs EXCEPT ![c] = Front(@)]
                       /\ e.outputs = [d.outputs EXCEPT ![c] = << >>]
  /\ ~cf.forwardOnly => /\ e.inputs = d.inputs
                        /\ \E full : e.outputs = [d.outputs EXCEPT ![c] =
                                                    Append(@, [tensor |-> out, full |-> full])]

\* At the first stage of an interleaved schedule there is an input that has no output yet.
ReadyForward(cf, r, d, c) ==
  Padded(cf, r, "act", c) => Len(d.inputs[c]) > Len(d.outputs[c])

\* The terms of the module.
LEMMA StagesAre ==
  ASSUME config \in Configs, NEW r, NEW c
  PROVE  /\ Stage(r, c) = StageOf(config, r, c)
         /\ IsLastStage(r, c) <=> r = config.P - 1 /\ c = ChunkNumber(config) - 1
         /\ IsFirstStage(r, c) <=> r = 0 /\ c = 0
BY WarmupIs DEF Stage, StageOf, IsLastStage, IsFirstStage

\* From its own input a chunk computes its own tensor.
LEMMA ForwardIsRight ==
  ASSUME config \in Configs, NEW r \in Devices(config), NEW d, Shaped(config, d),
         d.inputs \in [ChunksOf(config) -> Seq(TensorType)],
         NEW c \in ChunksOf(config), NEW full, d.inputs[c] # << >>,
         Last(d.inputs[c]) = Needed(config, r, "act", c, d.fed[c]),
         NEW e, e = Kept(ForwardStep(d, r, c, full), c)
  PROVE  ForwardTensors(config, r, d, e, c, Made(config, r, "act", c, d.fed[c]))
<1> DEFINE i == d.fed[c]
           input == Newest(d.inputs[c])
           right == input = IF IsFirstStage(r, c) THEN None ELSE Act(i, Stage(r, c) - 1)
           out == IF right THEN Act(i, Stage(r, c)) ELSE Wrong
           x == [tensor |-> out, full |-> full]
           g == ForwardStep(d, r, c, full)
           losses == StoreLoss(d, r, c, out)
<1>1. input = Needed(config, r, "act", c, i)
  BY DEF Newest
<1>2. right
  BY <1>1, StagesAre DEF Needed, EndStage
<1>3. out = Made(config, r, "act", c, i)
  BY <1>2, StagesAre DEF Made
<1> HIDE DEF right
<1>4. g = [d EXCEPT !.computed = out, !.fed[c] = @ + 1,
                    !.outputs[c] = Append(@, x), !.losses = losses]
  BY DEF ForwardStep, right
<1>5. losses = IF r = config.P - 1 /\ c = ChunkNumber(config) - 1 THEN Append(d.losses, out)
               ELSE d.losses
  BY StagesAre DEF StoreLoss
<1>6. \E z : x = [tensor |-> out, full |-> z]
  OBVIOUS
<1> HIDE DEF out, losses, g, x
<1>7. /\ DOMAIN g = Fields
      /\ g.outputs = [d.outputs EXCEPT ![c] = Append(@, x)]
      /\ g.inputs = d.inputs /\ g.grads = d.grads /\ g.computed = out
      /\ g.inputGrad = d.inputGrad /\ g.losses = losses
  BY <1>4 DEF Shaped, Fields
<1>8. e = IF config.forwardOnly
          THEN [g EXCEPT !.inputs[c] = Front(@), !.outputs[c] = << >>] ELSE g
  BY DEF Kept, g
<1>9. CASE config.forwardOnly
  <2>1. /\ e.outputs = [g.outputs EXCEPT ![c] = << >>]
        /\ e.inputs = [g.inputs EXCEPT ![c] = Front(@)] /\ e.grads = g.grads
        /\ e.computed = g.computed /\ e.inputGrad = g.inputGrad /\ e.losses = g.losses
    BY <1>7, <1>8, <1>9 DEF Fields
  <2>2. e.outputs = [d.outputs EXCEPT ![c] = << >>]
    BY <1>7, <2>1 DEF Shaped
  <2>3. QED BY <1>3, <1>5, <1>7, <1>9, <2>1, <2>2 DEF ForwardTensors
<1>10. CASE ~config.forwardOnly
  <2>1. e = g
    BY <1>8, <1>10
  <2>2. PICK z : x = [tensor |-> out, full |-> z]
    BY <1>6
  <2>3. e.outputs = [d.outputs EXCEPT ![c] = Append(@, [tensor |-> out, full |-> z])]
    BY <1>7, <2>1, <2>2
  <2>4. \E w : e.outputs = [d.outputs EXCEPT ![c] = Append(@, [tensor |-> out, full |-> w])]
    BY <2>3
  <2> DEFINE made == Made(config, r, "act", c, i)
  <2>5. out = made
    BY <1>3
  <2> HIDE DEF made
  <2>6. ForwardTensors(config, r, d, e, c, made)
    BY <1>5, <1>7, <1>10, <2>1, <2>4, <2>5 DEF ForwardTensors
  <2>7. QED BY <2>6 DEF made
<1>11. QED BY <1>9, <1>10

NewestHere(cf, r, d, c, f, b) ==
  /\ c \in ChunksOf(cf) /\ d.inputs[c] # << >>
  /\ Last(d.inputs[c]) = Needed(cf, r, "act", c, d.fed[c])
  /\ d.fed[c] = Number(cf, f) /\ d.fed[c] \in Nat
  /\ Kept1(cf, f, b, c) <= d.fed[c]
  /\ ~cf.forwardOnly => Backwards(cf, b, c) + Len(d.outputs[c]) = d.fed[c]

\* The newest input is that of the next pass.
LEMMA NewestIs ==
  ASSUME NEW cf \in Configs, NEW r \in Devices(cf), NEW d, NEW f \in Nat, NEW b \in Nat, NEW y,
         f < Batch1(cf), NEW x, x = f + 1, Tensed(cf, r, d, f, b, x, y), Counts(cf, d, f, b),
         NEW c, c = ForwardChunk(cf, f), ReadyForward(cf, r, d, c)
  PROVE  NewestHere(cf, r, d, c, f, b)
<1>1. /\ c \in ChunksOf(cf) /\ Number(cf, f) \in Nat /\ Number(cf, f) = Forwards(cf, f, c)
      /\ Forwards(cf, x, c) = Forwards(cf, f, c) + 1
  <2>1. ChunkAt(cf, "act", f) \in ChunksOf(cf) /\ Number(cf, f) \in Nat
        /\ Number(cf, f) = Forwards(cf, f, ForwardChunk(cf, f))
    BY NumberIs DEF Dirs
  <2>2. c \in ChunksOf(cf)
    BY <2>1 DEF ChunkAt
  <2>3. QED BY <2>1, <2>2, ForwardsNext
<1>2. d.fed[c] = Forwards(cf, f, c) /\ d.summed[c] = Backwards(cf, b, c)
      /\ (~cf.forwardOnly => Len(d.outputs[c]) = d.fed[c] - d.summed[c])
      /\ d.outputs[c] \in Seq(Stored)
  BY <1>1 DEF Counts, Shaped
<1>3. Backwards(cf, b, c) \in Nat
  BY <1>1, BackwardsNext
<1>4. Kept1(cf, f, b, c) <= d.fed[c] /\ Kept1(cf, f, b, c) \in Nat
      /\ (~cf.forwardOnly => Backwards(cf, b, c) + Len(d.outputs[c]) = d.fed[c])
  <2> DEFINE n == Len(d.outputs[c])
  <2>1. n \in Nat
    BY <1>2
  <2>2. ~cf.forwardOnly => n = d.fed[c] - d.summed[c]
    BY <1>2
  <2> HIDE DEF n
  <2>3. Kept1(cf, f, b, c) = IF cf.forwardOnly THEN Forwards(cf, f, c) ELSE Backwards(cf, b, c)
    BY DEF Kept1
  <2>4. CASE cf.forwardOnly
    BY <1>1, <1>2, <2>3, <2>4
  <2>5. CASE ~cf.forwardOnly
    <3>1. Kept1(cf, f, b, c) = d.summed[c] /\ n = d.fed[c] - d.summed[c]
          /\ d.summed[c] \in Nat /\ d.fed[c] \in Nat
      BY <1>1, <1>2, <1>3, <2>2, <2>3, <2>5
    <3>2. QED BY <1>2, <2>1, <3>1 DEF n
  <2>6. QED BY <2>4, <2>5
<1>5. d.inputs[c] \in Seq(TensorType) /\ f # Batch1(cf)
  BY <1>1 DEF Tensed
<1>6. d.inputs[c] # << >> /\ Last(d.inputs[c]) = Needed(cf, r, "act", c, d.fed[c])
  <2>1. CASE Padded(cf, r, "act", c)
    <3>1. AllNone(d.inputs[c])
      BY <1>1, <2>1 DEF Tensed, InputsOK
    <3>2. d.inputs[c] # << >>
      <4>1. Len(d.inputs[c]) > Len(d.outputs[c]) /\ Len(d.outputs[c]) \in Nat
        BY <1>2, <2>1 DEF ReadyForward
      <4>2. Len(d.inputs[c]) # 0
        BY <4>1
      <4>3. QED BY <4>2
    <3>3. Needed(cf, r, "act", c, d.fed[c]) = None
      BY <2>1 DEF Padded, Needed
    <3>4. QED BY <1>5, <3>1, <3>2, <3>3, NoneLists
  <2>2. CASE ~Padded(cf, r, "act", c)
    <3> DEFINE s == d.inputs[c]
               lo == Kept1(cf, f, b, c)
               hi == Forwards(cf, f, c)
               end == f = Batch1(cf)
    <3>1. Keeps(cf, r, "act", c, s, lo, Forwards(cf, x, c), end)
      BY <1>1, <2>2 DEF Tensed, InputsOK
    <3> DEFINE m == Forwards(cf, x, c)
    <3>2. lo \in Nat /\ hi \in Nat /\ lo <= hi /\ ~end /\ m = hi + 1
      BY <1>1, <1>2, <1>4, <1>5
    <3> HIDE DEF s, lo, hi, m
    <3>3. Keeps(cf, r, "act", c, s, lo, m, FALSE) /\ s \in Seq(TensorType)
      BY <1>5, <3>1, <3>2 DEF s, m
    <3>4. s # << >> /\ Last(s) = Needed(cf, r, "act", c, hi)
      <4>1. /\ s \in Seq(TensorType) /\ lo \in Nat /\ hi \in Nat /\ m = hi + 1
            /\ Keeps(cf, r, "act", c, s, lo, m, FALSE) /\ lo <= hi
        BY <3>2, <3>3
      <4>2. s # << >>
        BY <4>1, KeepsLast
      <4>3. Last(s) = Needed(cf, r, "act", c, hi)
        BY <4>1, KeepsLast, ZenonT(60)
      <4>4. QED BY <4>2, <4>3
    <3>5. QED BY <1>2, <3>4 DEF s, hi
  <2>3. QED BY <2>1, <2>2
<1>7. QED BY <1>1, <1>2, <1>4, <1>6 DEF NewestHere

\* What is made is a tensor of the model.
LEMMA MadeType ==
  ASSUME NEW cf \in Configs, NEW r \in Devices(cf), NEW dir \in Dirs, NEW c \in ChunksOf(cf),
         NEW i \in 0 .. cf.M - 1
  PROVE  Made(cf, r, dir, c, i) \in TensorOf(cf)
<1> DEFINE s == StageOf(cf, r, c)
           v == ChunkNumber(cf)
           p == cf.P
<1>1. p \in Nat \ {0} /\ v \in Nat \ {0} /\ c \in 0 .. v - 1 /\ r \in 0 .. p - 1
  BY ConfigType DEF ChunksOf, Devices
<1>2. s \in 0 .. (p * v) - 1
  <2>1. s = c * p + r
    BY DEF StageOf
  <2> HIDE DEF p, v, s
  <2>2. (c + 1) * p <= v * p /\ (c + 1) * p = c * p + p /\ c * p \in Nat /\ v * p \in Nat
    <3>1. c \in Nat /\ c + 1 \in Nat /\ c + 1 <= v
      BY <1>1
    <3>2. QED BY <1>1, <3>1, ProductMonotone, ProductNext, ProductNat
  <2>3. v * p = p * v
    BY <1>1
  <2>4. QED BY <1>1, <2>1, <2>2, <2>3
<1> HIDE DEF s
<1> DEFINE S == 0 .. (p * v) - 1
           Kind == {"act", "grad"}
           I == 0 .. cf.M - 1
<1>3. TensorOf(cf) = {None} \cup [kind : Kind, mb : I, stage : S]
  BY DEF TensorOf
<1>4. Act(i, s) = [kind |-> "act", mb |-> i, stage |-> s]
      /\ Grad(i, s) = [kind |-> "grad", mb |-> i, stage |-> s]
  BY DEF Act, Grad
<1>5. "act" \in Kind /\ "grad" \in Kind /\ i \in I /\ s \in S
  BY <1>2
<1>6. Made(cf, r, dir, c, i) = IF dir = "act" THEN Act(i, s) ELSE Grad(i, s)
  BY DEF Made, s
<1> HIDE DEF Kind, I, S
<1>7. Act(i, s) \in [kind : Kind, mb : I, stage : S] /\ Grad(i, s) \in [kind : Kind, mb : I, stage : S]
  BY <1>4, <1>5
<1>8. QED BY <1>3, <1>6, <1>7

LEMMA TensForward ==
  ASSUME NEW cf \in Configs, NEW r \in Devices(cf), NEW d, NEW f \in Nat, NEW b \in Nat, NEW y,
         f < Batch1(cf), NEW x, x = f + 1, Tensed(cf, r, d, f, b, x, y), Counts(cf, d, f, b),
         NEW c, c = ForwardChunk(cf, f), ReadyForward(cf, r, d, c), NEW e,
         NEW out, out = Made(cf, r, "act", c, d.fed[c]), ForwardTensors(cf, r, d, e, c, out)
  PROVE  Tensed(cf, r, e, x, b, x, y) /\ e.computed = out /\ e.inputGrad = d.inputGrad
<1> DEFINE i == d.fed[c]
           last == ChunkNumber(cf) - 1
<1>1. /\ c \in ChunksOf(cf) /\ d.inputs[c] # << >>
      /\ i = Number(cf, f) /\ i \in Nat
      /\ ~cf.forwardOnly => Backwards(cf, b, c) + Len(d.outputs[c]) = i
  <2>1. NewestHere(cf, r, d, c, f, b)
    BY NewestIs
  <2>2. QED BY <2>1 DEF NewestHere
<1>2. /\ Forwards(cf, f, c) = i /\ Forwards(cf, x, c) = i + 1
      /\ \A q \in ChunksOf(cf) : q # c => Forwards(cf, x, q) = Forwards(cf, f, q)
  <2>1. Forwards(cf, f, c) = i
    BY <1>1 DEF Counts
  <2>2. QED BY <1>1, <2>1, ForwardsNext
<1>3. /\ d.inputs \in [ChunksOf(cf) -> Seq(TensorType)]
      /\ d.grads \in [ChunksOf(cf) -> Seq(TensorType)]
      /\ f <= x /\ b <= y /\ x <= Batch1(cf) /\ y <= Batch1(cf)
      /\ InputsOK(cf, r, d, f, b, x) /\ GradsOK(cf, r, d, b, y)
      /\ OutputsOK(cf, r, d, b) /\ LossesOK(cf, r, d, f)
      /\ d.computed \in TensorOf(cf) /\ d.inputGrad \in TensorOf(cf)
  BY DEF Tensed
<1>4. d.outputs \in [ChunksOf(cf) -> Seq(Stored)] /\ Batch1(cf) \in Nat /\ f # Batch1(cf)
      /\ cf.forwardOnly \in BOOLEAN /\ x \in Nat /\ i \in 0 .. cf.M - 1
  <2>1. Forwards(cf, x, c) <= cf.M /\ cf.M \in Nat
    <3>1. x \in Nat
      OBVIOUS
    <3> HIDE DEF i
    <3>2. QED BY <1>1, <1>3, <3>1, ForwardsNext, ConfigType
  <2>2. QED BY <1>1, <1>2, <2>1, ConfigType DEF Counts, Shaped
<1>5. /\ e.grads = d.grads /\ e.computed = out /\ e.inputGrad = d.inputGrad
      /\ r = cf.P - 1 /\ c = last => e.losses = Append(d.losses, out)
      /\ ~(r = cf.P - 1 /\ c = last) => e.losses = d.losses
      /\ cf.forwardOnly => /\ e.inputs = [d.inputs EXCEPT ![c] = Front(@)]
                           /\ e.outputs = [d.outputs EXCEPT ![c] = << >>]
      /\ ~cf.forwardOnly => /\ e.inputs = d.inputs
                            /\ \E full : e.outputs = [d.outputs EXCEPT ![c] =
                                                    Append(@, [tensor |-> out, full |-> full])]
  BY DEF ForwardTensors
<1>6. out \in TensorOf(cf)
  <2>1. "act" \in Dirs
    BY DEF Dirs
  <2> HIDE DEF i
  <2>2. Made(cf, r, "act", c, i) \in TensorOf(cf)
    BY <1>1, <1>4, <2>1, MadeType
  <2>3. QED BY <2>2 DEF i
<1>7. GradsOK(cf, r, e, b, y)
  BY <1>3, <1>5 DEF GradsOK
<1>8. LossesOK(cf, r, e, x)
  <2>1. last \in ChunksOf(cf)
    BY ConfigType DEF ChunksOf
  <2>2. CASE r # cf.P - 1
    BY <1>3, <1>5, <2>2 DEF LossesOK
  <2>3. CASE r = cf.P - 1 /\ c # last
    <3>1. Forwards(cf, x, last) = Forwards(cf, f, last)
      BY <1>2, <2>1, <2>3
    <3>2. QED BY <1>3, <1>5, <2>3, <3>1 DEF LossesOK
  <2>4. CASE r = cf.P - 1 /\ c = last
    <3> DEFINE A(j) == Act(j - 1, StageOf(cf, r, last))
    <3>1. d.losses = [j \in 1 .. i |-> A(j)]
      BY <1>2, <1>3, <2>4 DEF LossesOK
    <3>2. out = A(i + 1)
      <4>1. (i + 1) - 1 = i
        BY <1>1
      <4>2. out = Act(i, StageOf(cf, r, c))
        BY DEF Made
      <4>3. QED BY <2>4, <4>1, <4>2
    <3>3. e.losses = Append(d.losses, out)
      BY <1>5, <2>4
    <3> HIDE DEF A, i
    <3>4. e.losses = [j \in 1 .. i + 1 |-> A(j)]
      <4>1. Len(d.losses) = i /\ DOMAIN d.losses = 1 .. i
        BY <1>1, <3>1
      <4>2. e.losses = [j \in 1 .. i + 1 |-> IF j = i + 1 THEN out ELSE d.losses[j]]
        BY <3>3, <4>1
      <4>3. \A j \in 1 .. i + 1 : j = i + 1 \/ j \in 1 .. i
        BY <1>1
      <4>4. \A j \in 1 .. i + 1 : (IF j = i + 1 THEN out ELSE d.losses[j]) = A(j)
        BY <3>1, <3>2, <4>3
      <4>5. QED BY <4>2, <4>4
    <3>5. QED BY <1>2, <2>4, <3>4 DEF LossesOK, A
  <2>5. QED BY <2>2, <2>3, <2>4
<1>9. OutputsOK(cf, r, e, b)
  <2>1. SUFFICES ASSUME NEW q \in ChunksOf(cf), NEW j \in DOMAIN e.outputs[q]
                 PROVE  e.outputs[q][j].tensor
                          = Made(cf, r, "act", q, Backwards(cf, b, q) + (j - 1))
    BY DEF OutputsOK
  <2>2. \A n \in DOMAIN d.outputs[q] :
          d.outputs[q][n].tensor = Made(cf, r, "act", q, Backwards(cf, b, q) + (n - 1))
    BY <1>3 DEF OutputsOK
  <2>3. CASE q # c
    <3>1. e.outputs[q] = d.outputs[q]
      BY <1>1, <1>4, <1>5, <2>3
    <3>2. QED BY <2>1, <2>2, <3>1
  <2>4. CASE q = c /\ cf.forwardOnly
    <3>1. e.outputs[q] = << >>
      BY <1>1, <1>4, <1>5, <2>4
    <3>2. QED BY <2>1, <3>1
  <2>5. CASE q = c /\ ~cf.forwardOnly
    <3>1. PICK full : e.outputs = [d.outputs EXCEPT ![c] =
                                     Append(@, [tensor |-> out, full |-> full])]
      BY <1>5, <2>5
    <3> DEFINE u == [tensor |-> out, full |-> full]
               s == d.outputs[q]
               n == Len(s)
               lo == Backwards(cf, b, q)
    <3>2. e.outputs[q] = Append(s, u) /\ s \in Seq(Stored) /\ u.tensor = out /\ n \in Nat
      BY <1>1, <1>4, <2>5, <3>1
    <3>3. lo + n = i /\ lo \in Nat
      BY <1>1, <2>5, BackwardsNext
    <3> HIDE DEF u, s
    <3>4. j \in 1 .. n \/ j = n + 1
      BY <2>1, <3>2
    <3>5. CASE j \in 1 .. n
      <4>1. e.outputs[q][j] = s[j] /\ j \in DOMAIN s
        BY <3>2, <3>5
      <4>2. QED BY <2>2, <4>1 DEF s
    <3>6. CASE j = n + 1
      <4>1. e.outputs[q][j] = u
        BY <3>2, <3>6
      <4>2. lo + (j - 1) = i
        BY <3>2, <3>3, <3>6
      <4>3. QED BY <2>5, <3>2, <4>1, <4>2
    <3>7. QED BY <3>4, <3>5, <3>6
  <2>6. QED BY <1>4, <2>3, <2>4, <2>5
<1> HIDE DEF i
<1>10. /\ e.inputs \in [ChunksOf(cf) -> Seq(TensorType)]
       /\ InputsOK(cf, r, e, x, b, x)
  <2>1. CASE cf.forwardOnly
    <3>1. e.inputs = [d.inputs EXCEPT ![c] = Front(@)] /\ e.outputs = [d.outputs EXCEPT ![c] = << >>]
      BY <1>5, <2>1
    <3> DEFINE s == d.inputs[c]
    <3>2. s \in Seq(TensorType) /\ s # << >>
      BY <1>1, <1>3
    <3>3. Front(s) \in Seq(TensorType) /\ Len(Front(s)) = Len(s) - 1
          /\ \A j \in 1 .. Len(s) - 1 : Front(s)[j] = s[j]
      <4> HIDE DEF s
      <4>1. QED BY <3>2, FrontIs
    <3>4. /\ e.inputs \in [ChunksOf(cf) -> Seq(TensorType)] /\ e.inputs[c] = Front(s)
          /\ e.outputs[c] = << >>
          /\ \A q \in ChunksOf(cf) : q # c => e.inputs[q] = d.inputs[q]
                                              /\ e.outputs[q] = d.outputs[q]
      BY <1>1, <1>3, <1>4, <3>1, <3>3
    <3>5. InputsOK(cf, r, e, x, b, x)
      <4>1. SUFFICES ASSUME NEW q \in ChunksOf(cf)
                     PROVE  /\ Padded(cf, r, "act", q) =>
                                 AllNone(e.inputs[q]) /\ Len(e.inputs[q]) >= Len(e.outputs[q])
                            /\ ~Padded(cf, r, "act", q) =>
                                 Keeps(cf, r, "act", q, e.inputs[q], Kept1(cf, x, b, q),
                                       Forwards(cf, x, q), x = Batch1(cf))
        BY DEF InputsOK
      <4>2. /\ Padded(cf, r, "act", q) =>
                 AllNone(d.inputs[q]) /\ Len(d.inputs[q]) >= Len(d.outputs[q])
            /\ ~Padded(cf, r, "act", q) =>
                 Keeps(cf, r, "act", q, d.inputs[q], Kept1(cf, f, b, q),
                       Forwards(cf, x, q), f = Batch1(cf))
        BY <1>3 DEF InputsOK
      <4>3. Kept1(cf, x, b, q) = Forwards(cf, x, q) /\ Kept1(cf, f, b, q) = Forwards(cf, f, q)
        BY <2>1 DEF Kept1
      <4>4. CASE q # c
        <5> DEFINE lo == Forwards(cf, x, q)
                   end == x = Batch1(cf)
                   over == f = Batch1(cf)
        <5>1. Forwards(cf, f, q) = lo /\ e.inputs[q] = d.inputs[q] /\ e.outputs[q] = d.outputs[q]
              /\ ~over
          BY <1>2, <1>4, <3>4, <4>4
        <5>2. ~Padded(cf, r, "act", q) => Keeps(cf, r, "act", q, d.inputs[q], lo, lo, over)
          BY <4>2, <4>3, <5>1
        <5>3. ~Padded(cf, r, "act", q) => Keeps(cf, r, "act", q, d.inputs[q], lo, lo, end)
          BY <5>1, <5>2 DEF Keeps
        <5>4. QED BY <4>2, <4>3, <5>1, <5>3
      <4>5. CASE q = c /\ Padded(cf, r, "act", q)
        <5>1. AllNone(Front(s))
          BY <3>3, <4>2, <4>5 DEF AllNone
        <5>2. Len(Front(s)) \in Nat /\ Len(<< >>) = 0
          BY <3>3
        <5>3. QED BY <3>4, <4>5, <5>1, <5>2
      <4>6. CASE q = c /\ ~Padded(cf, r, "act", q)
        <5> DEFINE lo == Forwards(cf, f, q)
                   hi == Forwards(cf, x, q)
                   end == x = Batch1(cf)
                   over == f = Batch1(cf)
        <5>1. Keeps(cf, r, "act", q, s, lo, hi, over)
          BY <4>2, <4>3, <4>6
        <5>2. lo = i /\ hi = i + 1 /\ ~over /\ i \in Nat
          BY <1>1, <1>2, <1>4, <4>6
        <5> HIDE DEF s, lo, hi, end, over
        <5>3. Len(s) = 1
          BY <5>1, <5>2 DEF Keeps
        <5>4. Front(s) = << >>
          BY <3>2, <3>3, <5>3
        <5>5. Keeps(cf, r, "act", q, << >>, hi, hi, end)
          BY <5>2, KeepsNone
        <5>6. QED BY <3>4, <4>3, <4>6, <5>4, <5>5 DEF hi, end
      <4>7. QED BY <4>4, <4>5, <4>6
    <3>6. QED BY <3>4, <3>5
  <2>2. CASE ~cf.forwardOnly
    <3>1. e.inputs = d.inputs
      BY <1>5, <2>2
    <3>2. PICK full : e.outputs = [d.outputs EXCEPT ![c] =
                                     Append(@, [tensor |-> out, full |-> full])]
      BY <1>5, <2>2
    <3> DEFINE u == [tensor |-> out, full |-> full]
    <3>3. Len(e.outputs[c]) = Len(d.outputs[c]) + 1
          /\ \A q \in ChunksOf(cf) : q # c => e.outputs[q] = d.outputs[q]
      <4>1. e.outputs[c] = Append(d.outputs[c], u) /\ d.outputs[c] \in Seq(Stored)
        BY <1>1, <1>4, <3>2
      <4> HIDE DEF u
      <4>2. Len(e.outputs[c]) = Len(d.outputs[c]) + 1
        BY <4>1
      <4>3. QED BY <1>4, <3>2, <4>2
    <3>4. InputsOK(cf, r, e, x, b, x)
      <4>1. SUFFICES ASSUME NEW q \in ChunksOf(cf)
                     PROVE  /\ Padded(cf, r, "act", q) =>
                                 AllNone(e.inputs[q]) /\ Len(e.inputs[q]) >= Len(e.outputs[q])
                            /\ ~Padded(cf, r, "act", q) =>
                                 Keeps(cf, r, "act", q, e.inputs[q], Kept1(cf, x, b, q),
                                       Forwards(cf, x, q), x = Batch1(cf))
        BY DEF InputsOK
      <4>2. /\ Padded(cf, r, "act", q) =>
                 AllNone(d.inputs[q]) /\ Len(d.inputs[q]) >= Len(d.outputs[q])
            /\ ~Padded(cf, r, "act", q) =>
                 Keeps(cf, r, "act", q, d.inputs[q], Kept1(cf, f, b, q),
                       Forwards(cf, x, q), f = Batch1(cf))
        BY <1>3 DEF InputsOK
      <4>3. Kept1(cf, x, b, q) = Backwards(cf, b, q) /\ Kept1(cf, f, b, q) = Backwards(cf, b, q)
        BY <2>2 DEF Kept1
      <4>4. CASE ~Padded(cf, r, "act", q)
        <5> DEFINE lo == Backwards(cf, b, q)
                   hi == Forwards(cf, x, q)
                   end == x = Batch1(cf)
                   over == f = Batch1(cf)
        <5>1. Keeps(cf, r, "act", q, d.inputs[q], lo, hi, over)
          BY <4>2, <4>3, <4>4
        <5>2. ~over
          BY <1>4
        <5>3. Keeps(cf, r, "act", q, d.inputs[q], lo, hi, end)
          BY <5>1, <5>2 DEF Keeps
        <5>4. QED BY <3>1, <4>3, <4>4, <5>3
      <4>5. CASE q # c /\ Padded(cf, r, "act", q)
        BY <3>1, <3>3, <4>2, <4>5
      <4>6. CASE q = c /\ Padded(cf, r, "act", q)
        <5>1. Len(d.inputs[c]) > Len(d.outputs[c])
          BY <4>6 DEF ReadyForward
        <5>2. Len(d.inputs[c]) \in Nat /\ Len(d.outputs[c]) \in Nat
          BY <1>1, <1>3, <1>4
        <5>3. Len(d.inputs[c]) >= Len(d.outputs[c]) + 1
          BY <5>1, <5>2
        <5>4. QED BY <3>1, <3>3, <4>2, <4>6, <5>3
      <4>7. QED BY <4>4, <4>5, <4>6
    <3>5. QED BY <1>3, <3>1, <3>4
  <2>3. QED BY <1>4, <2>1, <2>2
<1>11. e.computed \in TensorOf(cf) /\ e.inputGrad \in TensorOf(cf) /\ x <= x
       /\ e.grads \in [ChunksOf(cf) -> Seq(TensorType)]
  BY <1>3, <1>4, <1>5, <1>6
<1>12. Tensed(cf, r, e, x, b, x, y)
  BY <1>3, <1>7, <1>8, <1>9, <1>10, <1>11 DEF Tensed
<1>13. QED BY <1>5, <1>12

----
(***************************************************************************)
(* A backward pass of the tensors of a device.                             *)
(***************************************************************************)
InputGradOf(cf, r, c, i) == IF r = 0 /\ c = 0 THEN None ELSE Made(cf, r, "grad", c, i)

BackwardTensors(d, e, c, t) ==
  /\ e.inputs = [d.inputs EXCEPT ![c] = Popped(@)]
  /\ e.outputs = [d.outputs EXCEPT ![c] = Popped(@)]
  /\ e.grads = [d.grads EXCEPT ![c] = Popped(@)]
  /\ e.inputGrad = t /\ e.computed = d.computed /\ e.losses = d.losses

\* At the last stage there is a None to start from.
ReadyBackward(cf, r, d, c) == Padded(cf, r, "grad", c) => d.grads[c] # << >>

\* From its own gradient a chunk computes its own.
LEMMA BackwardIsRight ==
  ASSUME config \in Configs, NEW r \in Devices(config), NEW d, Shaped(config, d),
         NEW c \in ChunksOf(config), NEW i, d.outputs[c] # << >>,
         Head(d.outputs[c]).tensor = Made(config, r, "act", c, i), d.grads[c] # << >>,
         Head(d.grads[c]) = Needed(config, r, "grad", c, i),
         NEW e, e = BackwardStep(d, r, c)
  PROVE  BackwardTensors(d, e, c, InputGradOf(config, r, c, i))
<1> DEFINE out == IF d.outputs[c] = << >> THEN Wrong ELSE Head(d.outputs[c]).tensor
           right == Oldest(d.grads[c]) =
                      IF IsLastStage(r, c) THEN None ELSE Grad(out.mb, Stage(r, c) + 1)
           ig == IF ~right THEN Wrong
                 ELSE IF IsFirstStage(r, c) THEN None ELSE Grad(out.mb, Stage(r, c))
           g == [d EXCEPT !.inputs[c] = Popped(@), !.outputs[c] = Popped(@),
                          !.grads[c] = Popped(@), !.summed[c] = @ + 1, !.inputGrad = ig]
<1>1. e = IF config.sync # "none" /\ ~d.noSync THEN Reduce(g, c) ELSE g
  BY DEF BackwardStep
<1>2. out.mb = i
  <2>1. out = Act(i, StageOf(config, r, c))
    BY DEF Made
  <2>2. QED BY <2>1 DEF Act
<1> HIDE DEF out
<1>3. right
  BY <1>2, StagesAre DEF Oldest, Needed, EndStage
<1>4. ig = InputGradOf(config, r, c, i)
  BY <1>2, <1>3, StagesAre DEF InputGradOf, Made
<1> HIDE DEF ig, right
<1>5. /\ DOMAIN g = Fields
      /\ g.inputs = [d.inputs EXCEPT ![c] = Popped(@)]
      /\ g.outputs = [d.outputs EXCEPT ![c] = Popped(@)]
      /\ g.grads = [d.grads EXCEPT ![c] = Popped(@)]
      /\ g.inputGrad = ig /\ g.computed = d.computed /\ g.losses = d.losses
  BY DEF Shaped, Fields
<1> HIDE DEF g
<1>6. /\ e.inputs = g.inputs /\ e.outputs = g.outputs /\ e.grads = g.grads
      /\ e.inputGrad = g.inputGrad /\ e.computed = g.computed /\ e.losses = g.losses
  <2>1. CASE config.sync # "none" /\ ~d.noSync
    <3>1. e = [g EXCEPT !.reduced[c] = Append(@, g.summed[c])]
      BY <1>1, <2>1 DEF Reduce
    <3>2. QED BY <1>5, <3>1 DEF Fields
  <2>2. CASE ~(config.sync # "none" /\ ~d.noSync)
    BY <1>1, <2>2
  <2>3. QED BY <2>1, <2>2
<1>7. QED BY <1>4, <1>5, <1>6 DEF BackwardTensors

OldestHere(cf, r, d, c, b, x) ==
  /\ c \in ChunksOf(cf) /\ d.outputs[c] # << >> /\ d.grads[c] # << >>
  /\ Number(cf, b) \in Nat /\ Number(cf, b) = Backwards(cf, b, c)
  /\ Number(cf, b) < cf.M
  /\ Backwards(cf, b, c) < Forwards(cf, x, c)
  /\ Head(d.outputs[c]).tensor = Made(cf, r, "act", c, Number(cf, b))
  /\ Head(d.grads[c]) = Needed(cf, r, "grad", c, Number(cf, b))

\* The oldest tensors are those of the next backward pass.
LEMMA OldestIs ==
  ASSUME NEW cf \in Configs, NEW r \in Devices(cf), NEW d, NEW f \in Nat, NEW b \in Nat, NEW x,
         b < Batch1(cf), NEW y, y = b + 1, Tensed(cf, r, d, f, b, x, y), Counts(cf, d, f, b),
         ~cf.forwardOnly, FarAhead(cf, f, b), Steps(f, x),
         NEW c, c = BackwardChunk(cf, b), ReadyBackward(cf, r, d, c)
  PROVE  OldestHere(cf, r, d, c, b, x)
<1>1. /\ c \in ChunksOf(cf) /\ Number(cf, b) \in Nat /\ Number(cf, b) = Backwards(cf, b, c)
      /\ Backwards(cf, y, c) = Backwards(cf, b, c) + 1
  <2>1. ChunkAt(cf, "grad", b) \in ChunksOf(cf) /\ Number(cf, b) \in Nat
        /\ Number(cf, b) = Backwards(cf, b, BackwardChunk(cf, b))
    BY NumberIs DEF Dirs
  <2>2. c \in ChunksOf(cf)
    BY <2>1 DEF ChunkAt
  <2>3. QED BY <2>1, <2>2, BackwardsNext
<1>2. Backwards(cf, b, c) + 1 <= Forwards(cf, f, c) /\ Forwards(cf, f, c) \in Nat
  <2>1. Forwards(cf, f, c) \in Nat
    BY <1>1, ForwardsNext
  <2>2. Backwards(cf, b, BackwardChunk(cf, b)) + 1 <= Forwards(cf, f, BackwardChunk(cf, b))
    BY ForwardDone
  <2>3. QED BY <2>1, <2>2
<1>3. Backwards(cf, b, c) < Forwards(cf, x, c)
  <2> DEFINE z == f + 1
  <2>1. x = f \/ x = z
    BY DEF Steps
  <2>2. Forwards(cf, z, c) = Forwards(cf, f, c) \/ Forwards(cf, z, c) = Forwards(cf, f, c) + 1
    BY <1>1, ForwardsNext
  <2> HIDE DEF z
  <2>3. CASE x = f
    BY <1>1, <1>2, <2>3
  <2>4. CASE x = z
    BY <1>1, <1>2, <2>2, <2>4
  <2>5. QED BY <2>1, <2>3, <2>4
<1>4. d.outputs[c] \in Seq(Stored) /\ Len(d.outputs[c]) = Forwards(cf, f, c) - Backwards(cf, b, c)
  BY <1>1 DEF Counts, Shaped
<1>5. d.outputs[c] # << >> /\ 1 \in DOMAIN d.outputs[c] /\ Head(d.outputs[c]) = d.outputs[c][1]
  <2> DEFINE s == d.outputs[c]
  <2>1. s \in Seq(Stored) /\ Len(s) >= 1
    BY <1>1, <1>2, <1>4
  <2> HIDE DEF s
  <2>2. s # << >> /\ 1 \in DOMAIN s /\ Head(s) = s[1]
    BY <2>1
  <2>3. QED BY <2>2 DEF s
<1>6. Head(d.outputs[c]).tensor = Made(cf, r, "act", c, Number(cf, b))
  <2>1. d.outputs[c][1].tensor = Made(cf, r, "act", c, Backwards(cf, b, c) + (1 - 1))
    BY <1>1, <1>5 DEF Tensed, OutputsOK
  <2>2. Backwards(cf, b, c) + (1 - 1) = Number(cf, b)
    BY <1>1
  <2>3. QED BY <1>5, <2>1, <2>2
<1>7. d.grads[c] # << >> /\ Head(d.grads[c]) = Needed(cf, r, "grad", c, Number(cf, b))
  <2>1. d.grads[c] \in Seq(TensorType) /\ b # Batch1(cf)
    BY <1>1, ConfigType DEF Tensed
  <2>2. CASE Padded(cf, r, "grad", c)
    <3>1. AllNone(d.grads[c]) /\ d.grads[c] # << >>
      BY <1>1, <2>2 DEF Tensed, GradsOK, ReadyBackward
    <3>2. Needed(cf, r, "grad", c, Number(cf, b)) = None
      BY <2>2 DEF Padded, Needed
    <3>3. QED BY <2>1, <3>1, <3>2, NoneLists
  <2>3. CASE ~Padded(cf, r, "grad", c)
    <3> DEFINE s == d.grads[c]
               lo == Backwards(cf, b, c)
               hi == Backwards(cf, y, c)
               end == b = Batch1(cf)
    <3>1. Keeps(cf, r, "grad", c, s, lo, hi, end)
      BY <1>1, <2>3 DEF Tensed, GradsOK
    <3>2. lo \in Nat /\ hi \in Nat /\ lo < hi /\ s \in Seq(TensorType)
      BY <1>1, <2>1
    <3> HIDE DEF s, lo, hi, end
    <3>3. s \in Seq(TensorType) /\ lo \in Nat /\ hi \in Nat
          /\ Keeps(cf, r, "grad", c, s, lo, hi, end) /\ lo < hi
      BY <3>1, <3>2
    <3>4. s # << >> /\ Head(s) = Needed(cf, r, "grad", c, lo)
      <4>1. s # << >>
        BY <3>3, KeepsLess
      <4>2. Head(s) = Needed(cf, r, "grad", c, lo)
        <5>1. Len(s) >= hi - lo /\ Len(s) \in Nat
          BY <3>3 DEF Keeps
        <5>2. 1 \in 1 .. Len(s) /\ 1 <= hi - lo /\ lo + (1 - 1) = lo
          BY <3>3, <5>1
        <5>3. s[1] = Needed(cf, r, "grad", c, lo + (1 - 1))
          BY <3>3, <5>2 DEF Keeps
        <5>4. QED BY <3>3, <4>1, <5>2, <5>3
      <4>3. QED BY <4>1, <4>2
    <3>5. QED BY <1>1, <3>4 DEF s, lo
  <2>4. QED BY <2>2, <2>3
<1>8. Number(cf, b) < cf.M
  <2>1. f <= Batch1(cf)
    BY ConfigType DEF Counts
  <2>2. Forwards(cf, f, c) <= cf.M
    BY <1>1, <2>1, ForwardsNext
  <2>3. cf.M \in Nat
    BY ConfigType
  <2>4. QED BY <1>1, <1>2, <2>2, <2>3
<1>9. QED BY <1>1, <1>3, <1>5, <1>6, <1>7, <1>8 DEF OldestHere

LEMMA TensBackward ==
  ASSUME NEW cf \in Configs, NEW r \in Devices(cf), NEW d, NEW f \in Nat, NEW b \in Nat, NEW x,
         b < Batch1(cf), NEW y, y = b + 1, Tensed(cf, r, d, f, b, x, y), Counts(cf, d, f, b),
         ~cf.forwardOnly, FarAhead(cf, f, b), Steps(f, x),
         NEW c, c = BackwardChunk(cf, b), ReadyBackward(cf, r, d, c), NEW e,
         NEW t, t = InputGradOf(cf, r, c, Number(cf, b)), BackwardTensors(d, e, c, t)
  PROVE  Tensed(cf, r, e, f, y, x, y) /\ e.inputGrad = t /\ e.computed = d.computed
<1>1. /\ c \in ChunksOf(cf) /\ d.outputs[c] # << >> /\ d.grads[c] # << >>
      /\ Number(cf, b) \in Nat /\ Number(cf, b) = Backwards(cf, b, c) /\ Number(cf, b) < cf.M
      /\ Backwards(cf, b, c) < Forwards(cf, x, c)
  <2>1. OldestHere(cf, r, d, c, b, x)
    BY OldestIs
  <2>2. QED BY <2>1 DEF OldestHere
<1>2. /\ Backwards(cf, y, c) = Backwards(cf, b, c) + 1
      /\ \A q \in ChunksOf(cf) : q # c => Backwards(cf, y, q) = Backwards(cf, b, q)
      /\ \A q \in ChunksOf(cf) : Backwards(cf, b, q) \in Nat /\ Backwards(cf, y, q) \in Nat
  <2>1. c \in ChunksOf(cf)
    BY <1>1
  <2>2. \A q \in ChunksOf(cf) : Backwards(cf, b, q) \in Nat /\ Backwards(cf, y, q) \in Nat
    BY BackwardsNext
  <2>3. Backwards(cf, y, c) = Backwards(cf, b, c) + 1
    BY <2>1, BackwardsNext
  <2>4. \A q \in ChunksOf(cf) : q # c => Backwards(cf, y, q) = Backwards(cf, b, q)
    BY BackwardsNext
  <2>5. QED BY <2>2, <2>3, <2>4
<1>3. /\ d.inputs \in [ChunksOf(cf) -> Seq(TensorType)]
      /\ d.grads \in [ChunksOf(cf) -> Seq(TensorType)]
      /\ f <= x /\ b <= y /\ x <= Batch1(cf) /\ y <= Batch1(cf)
      /\ InputsOK(cf, r, d, f, b, x) /\ GradsOK(cf, r, d, b, y)
      /\ OutputsOK(cf, r, d, b) /\ LossesOK(cf, r, d, f)
      /\ d.computed \in TensorOf(cf) /\ d.inputGrad \in TensorOf(cf)
  BY DEF Tensed
<1>4. d.outputs \in [ChunksOf(cf) -> Seq(Stored)] /\ Batch1(cf) \in Nat /\ b # Batch1(cf)
      /\ x \in Nat /\ y \in Nat
  BY ConfigType DEF Counts, Shaped, Steps
<1>5. /\ e.inputs = [d.inputs EXCEPT ![c] = Popped(@)]
      /\ e.outputs = [d.outputs EXCEPT ![c] = Popped(@)]
      /\ e.grads = [d.grads EXCEPT ![c] = Popped(@)]
      /\ e.inputGrad = t /\ e.computed = d.computed /\ e.losses = d.losses
  BY DEF BackwardTensors
<1>6. t \in TensorOf(cf)
  <2> DEFINE i == Number(cf, b)
  <2>1. "grad" \in Dirs /\ i \in 0 .. cf.M - 1
    BY <1>1, ConfigType DEF Dirs
  <2> HIDE DEF i
  <2>2. Made(cf, r, "grad", c, i) \in TensorOf(cf)
    BY <1>1, <2>1, MadeType
  <2>3. None \in TensorOf(cf)
    BY DEF TensorOf
  <2>4. QED BY <2>2, <2>3 DEF InputGradOf, i
<1>7. \A s : s # << >> => Popped(s) = Tail(s)
  BY DEF Popped
<1>8. /\ e.outputs[c] = Tail(d.outputs[c])
      /\ \A q \in ChunksOf(cf) : q # c => e.outputs[q] = d.outputs[q]
      /\ \A q \in ChunksOf(cf) : d.outputs[q] \in Seq(Stored)
  BY <1>1, <1>4, <1>5, <1>7
<1>9. OutputsOK(cf, r, e, y)
  <2>1. SUFFICES ASSUME NEW q \in ChunksOf(cf), NEW j \in DOMAIN e.outputs[q]
                 PROVE  e.outputs[q][j].tensor
                          = Made(cf, r, "act", q, Backwards(cf, y, q) + (j - 1))
    BY DEF OutputsOK
  <2>2. \A n \in DOMAIN d.outputs[q] :
          d.outputs[q][n].tensor = Made(cf, r, "act", q, Backwards(cf, b, q) + (n - 1))
    BY <1>3 DEF OutputsOK
  <2>3. CASE q # c
    <3>1. e.outputs[q] = d.outputs[q] /\ Backwards(cf, y, q) = Backwards(cf, b, q)
      BY <1>2, <1>8, <2>3
    <3>2. QED BY <2>1, <2>2, <3>1
  <2>4. CASE q = c
    <3> DEFINE s == d.outputs[q]
               u == e.outputs[q]
               lo == Backwards(cf, b, q)
               n == j + 1
    <3>1. u = Tail(s) /\ s \in Seq(Stored) /\ s # << >> /\ j \in DOMAIN u
      BY <1>1, <1>8, <2>1, <2>4
    <3>2. lo \in Nat /\ Backwards(cf, y, q) = lo + 1
      BY <1>2, <2>4
    <3> HIDE DEF u
    <3>3. u[j] = s[j + 1] /\ j + 1 \in DOMAIN s /\ j \in Nat
      <4> HIDE DEF s
      <4>1. QED BY <3>1
    <3>4. u[j] = s[n] /\ n \in DOMAIN s /\ lo + (n - 1) = (lo + 1) + (j - 1)
      BY <3>2, <3>3
    <3> HIDE DEF n
    <3>5. s[n].tensor = Made(cf, r, "act", q, lo + (n - 1))
      BY <2>2, <3>4
    <3>6. QED BY <3>2, <3>4, <3>5 DEF u
  <2>5. QED BY <2>3, <2>4
<1>10. Len(e.outputs[c]) = Len(d.outputs[c]) - 1
  <2> DEFINE s == d.outputs[c]
  <2>1. s \in Seq(Stored) /\ s # << >>
    BY <1>1, <1>8
  <2> HIDE DEF s
  <2>2. Len(Tail(s)) = Len(s) - 1
    BY <2>1
  <2>3. QED BY <1>8, <2>2 DEF s
<1>11. e.inputs \in [ChunksOf(cf) -> Seq(TensorType)] /\ InputsOK(cf, r, e, f, y, x)
  <2> DEFINE s == d.inputs[c]
  <2>1. /\ s \in Seq(TensorType)
        /\ Padded(cf, r, "act", c) => (AllNone(s) /\ Len(s) >= Len(d.outputs[c]))
    BY <1>1, <1>3 DEF InputsOK
  <2>2. s # << >> /\ Tail(s) \in Seq(TensorType)
        /\ (Padded(cf, r, "act", c) => AllNone(Tail(s)) /\ Len(Tail(s)) = Len(s) - 1)
        /\ (~Padded(cf, r, "act", c) =>
             Keeps(cf, r, "act", c, Tail(s), Backwards(cf, y, c), Forwards(cf, x, c),
                   f = Batch1(cf)))
    <3>1. CASE Padded(cf, r, "act", c)
      <4>1. s \in Seq(TensorType) /\ AllNone(s) /\ Len(s) >= Len(d.outputs[c])
        BY <1>1, <1>3, <3>1 DEF InputsOK
      <4>2. s # << >>
        <5>1. Len(d.outputs[c]) \in Nat /\ Len(d.outputs[c]) # 0
          <6> DEFINE u == d.outputs[c]
          <6>1. u \in Seq(Stored) /\ u # << >>
            BY <1>1, <1>8
          <6> HIDE DEF u
          <6>2. Len(u) \in Nat /\ Len(u) # 0
            BY <6>1
          <6>3. QED BY <6>2 DEF u
        <5>2. Len(s) # 0
          BY <4>1, <5>1
        <5>3. QED BY <5>2
      <4> HIDE DEF s
      <4>3. Tail(s) \in Seq(TensorType) /\ AllNone(Tail(s)) /\ Len(Tail(s)) = Len(s) - 1
        BY <4>1, <4>2, NoneLists
      <4>4. QED BY <3>1, <4>2, <4>3
    <3>2. CASE ~Padded(cf, r, "act", c)
      <4> DEFINE lo == Backwards(cf, b, c)
                 hi == Forwards(cf, x, c)
                 end == f = Batch1(cf)
      <4>1. Keeps(cf, r, "act", c, s, lo, hi, end)
        BY <1>1, <1>3, <3>2 DEF InputsOK, Kept1
      <4>2. s \in Seq(TensorType) /\ lo \in Nat /\ hi \in Nat /\ lo < hi
            /\ Backwards(cf, y, c) = lo + 1
        BY <1>1, <1>2, <1>3, <1>4, ForwardsNext
      <4> HIDE DEF s, lo, hi, end
      <4>3. s # << >> /\ Tail(s) \in Seq(TensorType)
        BY <4>1, <4>2, KeepsLess
      <4>4. Keeps(cf, r, "act", c, Tail(s), lo + 1, hi, end)
        BY <4>1, <4>2, KeepsLess
      <4>5. QED BY <3>2, <4>2, <4>3, <4>4 DEF lo, hi, end
    <3>3. QED BY <3>1, <3>2
  <2> HIDE DEF s
  <2>3. /\ e.inputs \in [ChunksOf(cf) -> Seq(TensorType)] /\ e.inputs[c] = Tail(s)
        /\ \A q \in ChunksOf(cf) : q # c => e.inputs[q] = d.inputs[q]
    <3>1. Popped(s) = Tail(s) /\ Tail(s) \in Seq(TensorType)
      BY <1>7, <2>2
    <3>2. QED BY <1>1, <1>3, <1>5, <3>1 DEF s
  <2>4. InputsOK(cf, r, e, f, y, x)
    <3>1. SUFFICES ASSUME NEW q \in ChunksOf(cf)
                   PROVE  /\ Padded(cf, r, "act", q) =>
                               AllNone(e.inputs[q]) /\ Len(e.inputs[q]) >= Len(e.outputs[q])
                          /\ ~Padded(cf, r, "act", q) =>
                               Keeps(cf, r, "act", q, e.inputs[q], Kept1(cf, f, y, q),
                                     Forwards(cf, x, q), f = Batch1(cf))
      BY DEF InputsOK
    <3>2. Kept1(cf, f, y, q) = Backwards(cf, y, q) /\ Kept1(cf, f, b, q) = Backwards(cf, b, q)
      BY DEF Kept1
    <3>3. CASE q # c
      <4>1. /\ Padded(cf, r, "act", q) =>
                 AllNone(d.inputs[q]) /\ Len(d.inputs[q]) >= Len(d.outputs[q])
            /\ ~Padded(cf, r, "act", q) =>
                 Keeps(cf, r, "act", q, d.inputs[q], Kept1(cf, f, b, q),
                       Forwards(cf, x, q), f = Batch1(cf))
        BY <1>3 DEF InputsOK
      <4>2. Kept1(cf, f, y, q) = Kept1(cf, f, b, q)
        BY <1>2, <3>2, <3>3
      <4>3. QED BY <1>8, <2>3, <3>3, <4>1, <4>2
    <3>4. CASE q = c
      <4>1. Len(s) \in Nat /\ Len(d.outputs[c]) \in Nat
        BY <1>1, <1>8, <2>1
      <4>2. Padded(cf, r, "act", c) => Len(Tail(s)) >= Len(e.outputs[c])
        BY <1>10, <2>1, <2>2, <4>1
      <4>3. QED BY <2>2, <2>3, <3>2, <3>4, <4>2
    <3>5. QED BY <3>3, <3>4
  <2>5. QED BY <2>3, <2>4
<1>12. e.grads \in [ChunksOf(cf) -> Seq(TensorType)] /\ GradsOK(cf, r, e, y, y)
  <2> DEFINE s == d.grads[c]
             lo == Backwards(cf, b, c)
             hi == Backwards(cf, y, c)
             over == b = Batch1(cf)
             end == y = Batch1(cf)
  <2>1. s \in Seq(TensorType) /\ s # << >> /\ lo \in Nat /\ hi \in Nat /\ hi = lo + 1 /\ ~over
        /\ lo < hi /\ Popped(s) = Tail(s)
    <3>1. s \in Seq(TensorType) /\ s # << >>
      BY <1>1, <1>3
    <3>2. lo \in Nat /\ hi \in Nat /\ hi = lo + 1
      BY <1>1, <1>2
    <3>3. lo < hi
      BY <3>2
    <3>4. ~over
      BY <1>4
    <3>5. QED BY <1>7, <3>1, <3>2, <3>3, <3>4
  <2>2. /\ Padded(cf, r, "grad", c) => AllNone(s)
        /\ ~Padded(cf, r, "grad", c) => Keeps(cf, r, "grad", c, s, lo, hi, over)
    BY <1>1, <1>3 DEF GradsOK
  <2> HIDE DEF s, lo, hi, over, end
  <2>3. Tail(s) \in Seq(TensorType)
    BY <2>1
  <2>4. Padded(cf, r, "grad", c) => AllNone(Tail(s))
    BY <2>1, <2>2, NoneLists
  <2>5. ~Padded(cf, r, "grad", c) => Keeps(cf, r, "grad", c, Tail(s), hi, hi, end)
    <3>1. SUFFICES ASSUME ~Padded(cf, r, "grad", c) PROVE Keeps(cf, r, "grad", c, Tail(s), hi, hi, end)
      OBVIOUS
    <3>2. Keeps(cf, r, "grad", c, s, lo, hi, over)
      BY <2>2, <3>1
    <3>3. Keeps(cf, r, "grad", c, Tail(s), lo + 1, hi, over)
      BY <2>1, <3>2, KeepsLess
    <3>4. Keeps(cf, r, "grad", c, Tail(s), hi, hi, over)
      BY <2>1, <3>3
    <3>5. QED BY <2>1, <3>4 DEF Keeps
  <2>6. /\ e.grads \in [ChunksOf(cf) -> Seq(TensorType)] /\ e.grads[c] = Tail(s)
        /\ \A q \in ChunksOf(cf) : q # c => e.grads[q] = d.grads[q]
    BY <1>1, <1>3, <1>5, <2>1, <2>3 DEF s
  <2>7. GradsOK(cf, r, e, y, y)
    <3>1. SUFFICES ASSUME NEW q \in ChunksOf(cf)
                   PROVE  /\ Padded(cf, r, "grad", q) => AllNone(e.grads[q])
                          /\ ~Padded(cf, r, "grad", q) =>
                               Keeps(cf, r, "grad", q, e.grads[q], Backwards(cf, y, q),
                                     Backwards(cf, y, q), y = Batch1(cf))
      BY DEF GradsOK
    <3>2. CASE q # c
      <4> DEFINE n == Backwards(cf, y, q)
                 u == d.grads[q]
      <4>1. /\ Padded(cf, r, "grad", q) => AllNone(u)
            /\ ~Padded(cf, r, "grad", q) =>
                 Keeps(cf, r, "grad", q, u, Backwards(cf, b, q), n, b = Batch1(cf))
        BY <1>3 DEF GradsOK
      <4>2. Backwards(cf, b, q) = n
        BY <1>2, <3>2
      <4>3. ~Padded(cf, r, "grad", q) => Keeps(cf, r, "grad", q, u, n, n, over)
        BY <4>1, <4>2 DEF over
      <4> HIDE DEF n, u
      <4>4. ~Padded(cf, r, "grad", q) => Keeps(cf, r, "grad", q, u, n, n, end)
        BY <2>1, <4>3 DEF Keeps
      <4>5. QED BY <2>6, <3>2, <4>1, <4>4 DEF n, u, end
    <3>3. CASE q = c
      BY <2>4, <2>5, <2>6, <3>3 DEF hi, end
    <3>4. QED BY <3>2, <3>3
  <2>8. QED BY <2>6, <2>7
<1>13. LossesOK(cf, r, e, f) /\ e.computed \in TensorOf(cf) /\ e.inputGrad \in TensorOf(cf)
       /\ y <= y
  BY <1>3, <1>4, <1>5, <1>6 DEF LossesOK
<1>14. Tensed(cf, r, e, f, y, x, y)
  BY <1>3, <1>9, <1>11, <1>12, <1>13 DEF Tensed
<1>15. QED BY <1>5, <1>14

----
(***************************************************************************)
(* A step that exchanges tensors: what is free for it, and what arrives at *)
(* once.                                                                   *)
(***************************************************************************)
\* No tensor of the direction is waited for.
DirFree(cf, r, S, dir) == ~Waits(cf, r, S, "send", dir) /\ ~Waits(cf, r, S, "recv", dir)

\* Its requests were waited for, or none was made.
Settled(cf, S, dir, n, m) ==
  ~cf.overlap \/ Quiet(S, CallOf(dir)) \/ (n = 0 /\ m = 0)

LEMMA SettledFree ==
  ASSUME NEW cf \in Configs, NEW r, NEW s, NEW f, NEW x, NEW b, NEW y,
         PostedOK(cf, r, s, f, x, b, y), Quiet(Range(s), "wait")
  PROVE  /\ Settled(cf, Range(s), "act", f, x) => DirFree(cf, r, Range(s), "act")
         /\ Settled(cf, Range(s), "grad", b, y) => DirFree(cf, r, Range(s), "grad")
<1> DEFINE S == Range(s)
<1>1. ASSUME NEW side \in Sides, NEW dir \in Dirs, NEW n, n = Pick(side, dir, f, x, b, y),
             ~cf.overlap \/ Quiet(S, CallOf(dir)) \/ n = 0
      PROVE  ~Waits(cf, r, S, side, dir)
  BY <1>1, FreePort
<1>2. /\ "send" \in Sides /\ "recv" \in Sides /\ "act" \in Dirs /\ "grad" \in Dirs
      /\ f = Pick("send", "act", f, x, b, y) /\ x = Pick("recv", "act", f, x, b, y)
      /\ b = Pick("send", "grad", f, x, b, y) /\ y = Pick("recv", "grad", f, x, b, y)
  BY DEF Sides, Dirs, Pick
<1> HIDE DEF S
<1>3. ASSUME Settled(cf, S, "act", f, x) PROVE DirFree(cf, r, S, "act")
  BY <1>1, <1>2, <1>3 DEF DirFree, Settled
<1>4. ASSUME Settled(cf, S, "grad", b, y) PROVE DirFree(cf, r, S, "grad")
  BY <1>1, <1>2, <1>4 DEF DirFree, Settled
<1>5. QED BY <1>3, <1>4 DEF S

\* A call may be for a direction that is free.
MayCall(cf, r, S, dir, call, n, n2, m, m2) ==
  (n2 = n /\ m2 = m) \/ (DirFree(cf, r, S, dir) /\ CallFor(cf, dir, call))

LEMMA MayCallFree ==
  ASSUME NEW cf, NEW r, NEW S, NEW call, NEW f, NEW x, NEW b, NEW y, NEW f2, NEW x2, NEW b2, NEW y2,
         MayCall(cf, r, S, "act", call, f, f2, x, x2), MayCall(cf, r, S, "grad", call, b, b2, y, y2)
  PROVE  FreeFor(cf, r, S, call, f, x, b, y, f2, x2, b2, y2)
BY DEF FreeFor, MayCall, DirFree, Sides, Dirs, Pick

\* What is not transferred is there at once, after the last pass a None more.
InputAsked(cf, r, d, e, f, x, x2) ==
  \/ /\ x2 # x /\ Skips(cf, r, "recv", "act", x)
     /\ InputCame(d, e, ForwardChunk(cf, x), None)
  \/ /\ ~(x2 # x /\ Skips(cf, r, "recv", "act", x))
     /\ e.inputs = d.inputs /\ e.grads = d.grads /\ SameRest(d, e)
  \/ x2 = x /\ f = Batch1(cf) /\ \E c \in ChunksOf(cf) : InputCame(d, e, c, None)

GradAsked(cf, r, d, e, b, y, y2) ==
  \/ /\ y2 # y /\ Skips(cf, r, "recv", "grad", y)
     /\ GradCame(d, e, BackwardChunk(cf, y), None)
  \/ /\ ~(y2 # y /\ Skips(cf, r, "recv", "grad", y))
     /\ e.inputs = d.inputs /\ e.grads = d.grads /\ SameRest(d, e)
  \/ y2 = y /\ b = Batch1(cf) /\ \E c \in ChunksOf(cf) : GradCame(d, e, c, None)

LEMMA InputAskedIs ==
  ASSUME NEW cf \in Configs, NEW r \in Devices(cf), NEW d, NEW e, NEW f \in Nat, NEW b \in Nat,
         NEW x \in Nat, NEW x2, NEW a \in Nat, NEW y, Tensed(cf, r, d, f, b, a, y),
         x2 # x => a = x /\ x < Batch1(cf), InputAsked(cf, r, d, e, f, x, x2)
  PROVE  Tensed(cf, r, e, f, b, a + Gains(cf, r, "recv", "act", x, x2), y)
<1> DEFINE g == Gains(cf, r, "recv", "act", x, x2)
<1>1. CASE x2 # x /\ Skips(cf, r, "recv", "act", x)
  <2> DEFINE c == ForwardChunk(cf, x)
             t == Needed(cf, r, "act", c, Number(cf, x))
  <2>1. g = 1 /\ a = x /\ x < Batch1(cf) /\ InputCame(d, e, c, None)
    BY <1>1 DEF Gains, One, InputAsked
  <2>2. t = None
    BY <1>1 DEF Skips, AtEnd, WithNext, EndChunk, Needed, EndStage, ForwardChunk
  <2>3. InputCame(d, e, c, t) /\ Tensed(cf, r, d, f, b, x, y)
    BY <2>1, <2>2
  <2> HIDE DEF g, t
  <2>4. Tensed(cf, r, e, f, b, x + 1, y)
    <3>1. t = Needed(cf, r, "act", c, Number(cf, x))
      BY DEF t
    <3> HIDE DEF c
    <3>2. c = ForwardChunk(cf, x)
      BY DEF c
    <3>3. QED BY <2>1, <2>3, <3>1, <3>2, InputArrives
  <2>5. QED BY <2>1, <2>4 DEF g
<1>2. CASE ~(x2 # x /\ Skips(cf, r, "recv", "act", x))
  <2>1. g = 0 /\ a + g = a
    BY <1>2 DEF Gains, One
  <2>2. CASE e.inputs = d.inputs /\ e.grads = d.grads /\ SameRest(d, e)
    <3>1. Tensed(cf, r, e, f, b, a, y)
      BY <2>2, TensedSame
    <3>2. QED BY <2>1, <3>1
  <2>3. CASE f = Batch1(cf) /\ \E c \in ChunksOf(cf) : InputCame(d, e, c, None)
    <3>1. PICK c \in ChunksOf(cf) : InputCame(d, e, c, None)
      BY <2>3
    <3>2. Tensed(cf, r, e, f, b, a, y)
      BY <2>3, <3>1, InputSurplus
    <3>3. QED BY <2>1, <3>2
  <2>4. QED BY <1>2, <2>2, <2>3 DEF InputAsked
<1>3. QED BY <1>1, <1>2

LEMMA GradAskedIs ==
  ASSUME NEW cf \in Configs, NEW r \in Devices(cf), NEW d, NEW e, NEW f \in Nat, NEW b \in Nat,
         NEW y \in Nat, NEW y2, NEW a \in Nat, NEW x, Tensed(cf, r, d, f, b, x, a),
         y2 # y => a = y /\ y < Batch1(cf), GradAsked(cf, r, d, e, b, y, y2)
  PROVE  Tensed(cf, r, e, f, b, x, a + Gains(cf, r, "recv", "grad", y, y2))
<1> DEFINE g == Gains(cf, r, "recv", "grad", y, y2)
<1>1. CASE y2 # y /\ Skips(cf, r, "recv", "grad", y)
  <2> DEFINE c == BackwardChunk(cf, y)
             t == Needed(cf, r, "grad", c, Number(cf, y))
  <2>1. g = 1 /\ a = y /\ y < Batch1(cf) /\ GradCame(d, e, c, None)
    BY <1>1 DEF Gains, One, GradAsked
  <2>2. t = None
    <3>1. r = cf.P - 1 /\ InChunk(y, cf.P, ChunkNumber(cf)) = 0
      BY <1>1 DEF Skips, AtEnd, WithNext, EndChunk
    <3>2. c = ChunkNumber(cf) - 1
      BY <3>1, ConfigType DEF BackwardChunk
    <3>3. QED BY <3>1, <3>2 DEF Needed, EndStage
  <2>3. GradCame(d, e, c, t) /\ Tensed(cf, r, d, f, b, x, y)
    BY <2>1, <2>2
  <2> HIDE DEF g, t
  <2>4. Tensed(cf, r, e, f, b, x, y + 1)
    <3>1. t = Needed(cf, r, "grad", c, Number(cf, y))
      BY DEF t
    <3> HIDE DEF c
    <3>2. c = BackwardChunk(cf, y)
      BY DEF c
    <3>3. QED BY <2>1, <2>3, <3>1, <3>2, GradArrives
  <2>5. QED BY <2>1, <2>4 DEF g
<1>2. CASE ~(y2 # y /\ Skips(cf, r, "recv", "grad", y))
  <2>1. g = 0 /\ a + g = a
    BY <1>2 DEF Gains, One
  <2>2. CASE e.inputs = d.inputs /\ e.grads = d.grads /\ SameRest(d, e)
    <3>1. Tensed(cf, r, e, f, b, x, a)
      BY <2>2, TensedSame
    <3>2. QED BY <2>1, <3>1
  <2>3. CASE b = Batch1(cf) /\ \E c \in ChunksOf(cf) : GradCame(d, e, c, None)
    <3>1. PICK c \in ChunksOf(cf) : GradCame(d, e, c, None)
      BY <2>3
    <3>2. Tensed(cf, r, e, f, b, x, a)
      BY <2>3, <3>1, GradSurplus
    <3>3. QED BY <2>1, <3>2
  <2>4. QED BY <1>2, <2>2, <2>3 DEF GradAsked
<1>3. QED BY <1>1, <1>2

\* With the call the tensors are those of the new counts.
LEMMA AfterCall ==
  ASSUME config \in Configs, NEW r \in Devices(config), NEW call, NEW s, NEW t,
         NEW f, NEW x, NEW b, NEW y, NEW f2, NEW x2, NEW b2, NEW y2,
         Exchange(r, call, s, t, f, x, b, y, f2, x2, b2, y2), NEW e,
         Tensed(config, r, e, f2, b2,
                Arrived(config, r, Range(s), "act", x) + Gains(config, r, "recv", "act", x, x2),
                Arrived(config, r, Range(s), "grad", y) + Gains(config, r, "recv", "grad", y, y2))
  PROVE  /\ TensorsOK(config, r, e, t, f2, x2, b2, y2)
         /\ AllSame(config, r, Range(s), f, x, b, y, Range(t), f2, x2, b2, y2)
<1>1. PostedOK(config, r, t, f2, x2, b2, y2)
  BY CallDone
<1>2. AllSame(config, r, Range(s), f, x, b, y, Range(t), f2, x2, b2, y2)
  BY CallDone
<1>3. Arrived(config, r, Range(t), "act", x2)
        = Arrived(config, r, Range(s), "act", x) + Gains(config, r, "recv", "act", x, x2)
  BY CallDone
<1>4. Arrived(config, r, Range(t), "grad", y2)
        = Arrived(config, r, Range(s), "grad", y) + Gains(config, r, "recv", "grad", y, y2)
  BY CallDone
<1>5. QED BY <1>1, <1>2, <1>3, <1>4 DEF TensorsOK

\* No call is the same as one for nothing.
LEMMA NothingPosted ==
  ASSUME NEW r, NEW call, NEW s \in Seq(AnyOp)
  PROVE  s \o Operations(r, None, None, -1, -1, call) = s
<1>1. Operations(r, None, None, -1, -1, call) = << >>
  BY DEF Operations, If, P2POps
<1>2. s \o << >> = s
  OBVIOUS
<1>3. QED BY <1>1, <1>2

\* What there is to send of a pass.
Carries(cf, r, dir, n, m, t) ==
  /\ m = n => t = None
  /\ m # n => t = Made(cf, r, dir, ChunkAt(cf, dir, n), Number(cf, n))

\* The ends of the direction in the 1F1B schedule.
LEMMA Ends1 ==
  ASSUME NEW cf \in Configs, cf.V = 0, NEW r \in Devices(cf), NEW n \in Nat
  PROVE  /\ Skips(cf, r, "send", "act", n) <=> r = cf.P - 1
         /\ Skips(cf, r, "recv", "act", n) <=> r = 0
         /\ Skips(cf, r, "send", "grad", n) <=> r = 0
         /\ Skips(cf, r, "recv", "grad", n) <=> r = cf.P - 1
         /\ ChunkAt(cf, "act", n) = 0 /\ ChunkAt(cf, "grad", n) = 0
<1>1. ChunkNumber(cf) = 1 /\ ForwardChunk(cf, n) = 0 /\ BackwardChunk(cf, n) = 0
  BY Single
<1>2. InChunk(n, cf.P, ChunkNumber(cf)) = 0 /\ ChunkNumber(cf) - 1 = 0
  BY <1>1 DEF ForwardChunk
<1>3. QED BY <1>1, <1>2 DEF Skips, AtEnd, WithNext, EndChunk, ChunkAt




\* A None comes.
LEMMA NoneComes ==
  ASSUME NEW d, DOMAIN d = Fields, NEW c
  PROVE  InputCame(d, NoInput(d, c), c, None) /\ GradCame(d, NoGrad(d, c), c, None)
BY DEF Fields, NoInput, NoGrad, InputCame, GradCame, SameRest

LEMMA GotIs ==
  ASSUME NEW cf \in Configs, cf = config, cf.V = 0, NEW r \in Devices(cf), NEW d, DOMAIN d = Fields,
         NEW n \in Nat, NEW m, m # n, NEW f
  PROVE  InputAsked(cf, r, d, GotInput(d, r), f, n, m) /\ GradAsked(cf, r, d, GotGrad(d, r), f, n, m)
<1>1. /\ Skips(cf, r, "recv", "act", n) <=> r = 0
      /\ Skips(cf, r, "recv", "grad", n) <=> r = cf.P - 1
      /\ ForwardChunk(cf, n) = 0 /\ BackwardChunk(cf, n) = 0
  BY Ends1, Single
<1>2. (OnFirstDevice(r) <=> r = 0) /\ (OnLastDevice(r) <=> r = cf.P - 1)
  BY DEF OnFirstDevice, OnLastDevice, P
<1>3. InputCame(d, NoInput(d, 0), 0, None) /\ GradCame(d, NoGrad(d, 0), 0, None)
  BY NoneComes
<1>4. /\ r = 0 => GotInput(d, r) = NoInput(d, 0)
      /\ r # 0 => GotInput(d, r) = d
      /\ r = cf.P - 1 => GotGrad(d, r) = NoGrad(d, 0)
      /\ r # cf.P - 1 => GotGrad(d, r) = d
  BY <1>2 DEF GotInput, GotGrad, NoInput, NoGrad
<1> DEFINE e == GotInput(d, r)
           g == GotGrad(d, r)
<1> HIDE DEF e, g
<1>5. InputAsked(cf, r, d, e, f, n, m)
  BY <1>1, <1>3, <1>4 DEF InputAsked, SameRest, e
<1>6. GradAsked(cf, r, d, g, f, n, m)
  BY <1>1, <1>3, <1>4 DEF GradAsked, SameRest, g
<1>7. QED BY <1>5, <1>6 DEF e, g

\* Nothing was asked for.
LEMMA NoneAsked ==
  ASSUME NEW cf, NEW r, NEW d, NEW f, NEW n
  PROVE  InputAsked(cf, r, d, d, f, n, n) /\ GradAsked(cf, r, d, d, f, n, n)
BY DEF InputAsked, GradAsked, SameRest

\* The passes: their tensors, and what they send.
LEMMA ForwardTensed ==
  ASSUME config \in Configs, NEW r \in Devices(config), NEW d, NEW f \in Nat, NEW b \in Nat, NEW y,
         f < Batch1(config), NEW x, x = f + 1, Tensed(config, r, d, f, b, x, y),
         Counts(config, d, f, b), NEW c, c = ForwardChunk(config, f),
         ReadyForward(config, r, d, c), NEW full, NEW e, e = Kept(ForwardStep(d, r, c, full), c)
  PROVE  /\ Tensed(config, r, e, x, b, x, y) /\ e.inputGrad = d.inputGrad
         /\ Carries(config, r, "act", f, x, e.computed)
<1> DEFINE cf == config
           out == Made(config, r, "act", c, d.fed[c])
<1>1. /\ c \in ChunksOf(cf) /\ d.inputs[c] # << >>
      /\ Last(d.inputs[c]) = Needed(cf, r, "act", c, d.fed[c])
      /\ d.fed[c] = Number(cf, f)
  <2>1. NewestHere(cf, r, d, c, f, b)
    BY NewestIs
  <2>2. QED BY <2>1 DEF NewestHere
<1>2. Shaped(cf, d) /\ d.inputs \in [ChunksOf(cf) -> Seq(TensorType)]
  BY DEF Counts, Tensed
<1>3. ForwardTensors(cf, r, d, e, c, out)
  BY <1>1, <1>2, ForwardIsRight
<1>4. out = Made(cf, r, "act", ChunkAt(cf, "act", f), Number(cf, f)) /\ x # f
  BY <1>1 DEF ChunkAt
<1>5. out = Made(cf, r, "act", c, d.fed[c])
  OBVIOUS
<1> HIDE DEF out
<1>6. Tensed(cf, r, e, x, b, x, y) /\ e.computed = out /\ e.inputGrad = d.inputGrad
  BY <1>3, <1>5, TensForward
<1>7. QED BY <1>4, <1>6 DEF Carries

LEMMA BackwardTensed ==
  ASSUME config \in Configs, NEW r \in Devices(config), NEW d, NEW f \in Nat, NEW b \in Nat, NEW x,
         b < Batch1(config), NEW y, y = b + 1, Tensed(config, r, d, f, b, x, y),
         Counts(config, d, f, b), ~config.forwardOnly, FarAhead(config, f, b), Steps(f, x),
         NEW c, c = BackwardChunk(config, b), ReadyBackward(config, r, d, c),
         NEW e, e = BackwardStep(d, r, c)
  PROVE  /\ Tensed(config, r, e, f, y, x, y) /\ e.computed = d.computed
         /\ e.inputGrad = ToSend(config, r, "grad", b, y)
<1> DEFINE cf == config
           i == Number(cf, b)
           t == InputGradOf(cf, r, c, i)
<1>1. OldestHere(cf, r, d, c, b, x)
  BY OldestIs
<1>2. /\ c \in ChunksOf(cf) /\ d.outputs[c] # << >> /\ d.grads[c] # << >>
      /\ Head(d.outputs[c]).tensor = Made(cf, r, "act", c, i)
      /\ Head(d.grads[c]) = Needed(cf, r, "grad", c, i)
  BY <1>1 DEF OldestHere
<1>3. Shaped(cf, d)
  BY DEF Counts
<1> HIDE DEF i
<1>4. BackwardTensors(d, e, c, t)
  BY <1>2, <1>3, BackwardIsRight
<1>5. t = InputGradOf(cf, r, c, Number(cf, b))
  BY DEF i
<1>6. t = ToSend(cf, r, "grad", b, y)
  <2> DEFINE v == ChunkNumber(cf)
             n == InChunk(b, cf.P, v)
  <2>1. c = v - n - 1 /\ n \in 0 .. v - 1 /\ v \in Nat /\ y # b
    BY NumberIs, ConfigType DEF BackwardChunk, Dirs
  <2>2. Skips(cf, r, "send", "grad", b) <=> r = 0 /\ n = v - 1
    BY DEF Skips, AtEnd, WithNext, EndChunk
  <2> HIDE DEF n, v
  <2>3. n = v - 1 <=> c = 0
    BY <2>1
  <2>4. QED BY <2>1, <2>2, <2>3 DEF ToSend, InputGradOf, ChunkAt, i
<1> HIDE DEF t
<1>7. Tensed(cf, r, e, f, y, x, y) /\ e.inputGrad = t /\ e.computed = d.computed
  BY <1>4, <1>5, TensBackward
<1>8. QED BY <1>6, <1>7

----
(***************************************************************************)
(* The steps of a device keep the tensors.                                 *)
(***************************************************************************)
CountsIn(cf, r, loop, k, half, f, x, b, y) ==
  /\ f = ForwardsIn(cf, r, loop, k, half) /\ x = InputsIn(cf, r, loop, k, half)
  /\ b = BackwardsIn(cf, r, loop, k) /\ y = GradsIn(cf, r, loop, k, half)

Come(cf, r, s, dir, n, m) ==
  Arrived(cf, r, Range(s), dir, n) + Gains(cf, r, "recv", dir, n, m)

\* What is known where a device is,
HereNow(r, loop, half, f, x, b, y) ==
  /\ config \in Configs /\ place[r].k \in Nat /\ place[r].k < TurnsOf(config, r, loop)
  /\ ops \in [Devices(config) -> Seq(AnyOp)]
  /\ f \in Nat /\ x \in Nat /\ b \in Nat /\ y \in Nat
  /\ Arrived(config, r, Range(ops[r]), "act", x) \in Nat
  /\ Arrived(config, r, Range(ops[r]), "grad", y) \in Nat
  /\ Tensed(config, r, dev[r], f, b, Arrived(config, r, Range(ops[r]), "act", x),
                                     Arrived(config, r, Range(ops[r]), "grad", y))
  /\ PostedOK(config, r, ops[r], f, x, b, y)
  /\ Counts(config, dev[r], f, b) /\ DOMAIN dev[r] = Fields
  /\ Quiet(Range(ops[r]), "wait")
  /\ config.forwardOnly /\ loop = "steady" /\ half = 1 =>
       place[r].k + 1 < RemainingOf(config, r)

LEMMA HereNowIs ==
  ASSUME Inv, TensorInv, NEW r \in Devices(config), NEW loop, NEW half, In(r, loop, half),
         NEW f, NEW x, NEW b, NEW y,
         CountsIn(config, r, loop, place[r].k, half, f, x, b, y)
  PROVE  /\ HereNow(r, loop, half, f, x, b, y)
         /\ \A call : WaitedFor(r, {call}) => Quiet(Range(ops[r]), call)
<1> DEFINE S == Range(ops[r])
           k == place[r].k
           a == Arrived(config, r, S, "act", x)
           c == Arrived(config, r, S, "grad", y)
<1>1. /\ f = ForwardsIn(config, r, loop, k, half) /\ x = InputsIn(config, r, loop, k, half)
      /\ b = BackwardsIn(config, r, loop, k) /\ y = GradsIn(config, r, loop, k, half)
  BY DEF CountsIn
<1>2. /\ config \in Configs /\ k \in Nat /\ k < TurnsOf(config, r, loop)
      /\ TensorsOK(config, r, dev[r], ops[r], f, x, b, y)
      /\ PostedOK(config, r, ops[r], f, x, b, y)
      /\ Work(config, r, dev[r], f, b)
      /\ f \in Nat /\ x \in Nat /\ b \in Nat /\ y \in Nat
      /\ config.forwardOnly /\ loop = "steady" /\ half = 1 => k + 1 < RemainingOf(config, r)
      /\ Quiet(S, "wait")
      /\ \A call : WaitedFor(r, {call}) => Quiet(S, call)
  BY <1>1, HereTensors
<1>3. Tensed(config, r, dev[r], f, b, a, c)
  BY <1>2 DEF TensorsOK
<1>4. Counts(config, dev[r], f, b) /\ DOMAIN dev[r] = Fields
  BY <1>2 DEF Work, Counts, Shaped
<1>5. a \in Nat /\ c \in Nat
  <2>1. f <= a /\ b <= c
    BY <1>3 DEF Tensed
  <2>2. a \in Int /\ c \in Int
    BY <1>2 DEF Arrived, One
  <2> HIDE DEF a, c
  <2>3. QED BY <1>2, <2>1, <2>2
<1>6. ops \in [Devices(config) -> Seq(AnyOp)]
  BY DEF TensorInv
<1>7. QED BY <1>2, <1>3, <1>4, <1>5, <1>6 DEF HereNow

\* All tensors of a free direction have arrived.
LEMMA AllArrived ==
  ASSUME NEW cf, NEW r, NEW S, NEW dir, NEW n \in Nat, DirFree(cf, r, S, dir)
  PROVE  Arrived(cf, r, S, dir, n) = n
BY DEF Arrived, One, DirFree

\* A turn ends with an exchange,
LEMMA TurnDone ==
  ASSUME Inv, NEW r \in Devices(config), NEW loop, NEW half, In(r, loop, half), loop # "done",
         NEW e, Becomes(r, e), Turn(r), NEW t, ops' = [ops EXCEPT ![r] = t],
         NEW f, NEW x, NEW b, NEW y, NEW f2, NEW x2, NEW b2, NEW y2, NEW call,
         CountsIn(config, r, loop, place[r].k, half, f, x, b, y),
         CountsIn(config, r, loop, place[r].k + 1, 0, f2, x2, b2, y2),
         Exchange(r, call, ops[r], t, f, x, b, y, f2, x2, b2, y2),
         Tensed(config, r, e, f2, b2, Come(config, r, ops[r], "act", x, x2),
                                      Come(config, r, ops[r], "grad", y, y2))
  PROVE  TensorMoved(r)
<1>0. config \in Configs
  BY DEF Inv
<1>1. /\ TensorsOK(config, r, e, t, f2, x2, b2, y2)
      /\ AllSame(config, r, Range(ops[r]), f, x, b, y, Range(t), f2, x2, b2, y2)
  BY <1>0, AfterCall DEF Come
<1> DEFINE k == place[r].k
<1>2. /\ f = ForwardsIn(config, r, loop, k, half) /\ x = InputsIn(config, r, loop, k, half)
      /\ b = BackwardsIn(config, r, loop, k) /\ y = GradsIn(config, r, loop, k, half)
      /\ f2 = ForwardsIn(config, r, loop, k + 1, 0) /\ x2 = InputsIn(config, r, loop, k + 1, 0)
      /\ b2 = BackwardsIn(config, r, loop, k + 1) /\ y2 = GradsIn(config, r, loop, k + 1, 0)
  BY DEF CountsIn
<1>3. QED BY <1>1, <1>2, TurnTensors

\* or is halfway.
LEMMA HalfDone ==
  ASSUME Inv, NEW r \in Devices(config), NEW loop, In(r, loop, 0), loop # "done",
         NEW e, Becomes(r, e), HalfTurn(r), NEW t, ops' = [ops EXCEPT ![r] = t],
         NEW f, NEW x, NEW b, NEW y, NEW f2, NEW x2, NEW b2, NEW y2, NEW call,
         CountsIn(config, r, loop, place[r].k, 0, f, x, b, y),
         CountsIn(config, r, loop, place[r].k, 1, f2, x2, b2, y2),
         Exchange(r, call, ops[r], t, f, x, b, y, f2, x2, b2, y2),
         Tensed(config, r, e, f2, b2, Come(config, r, ops[r], "act", x, x2),
                                      Come(config, r, ops[r], "grad", y, y2)),
         config.forwardOnly /\ loop = "steady" => place[r].k + 1 < RemainingOf(config, r)
  PROVE  TensorMoved(r)
<1>0. config \in Configs
  BY DEF Inv
<1>1. /\ TensorsOK(config, r, e, t, f2, x2, b2, y2)
      /\ AllSame(config, r, Range(ops[r]), f, x, b, y, Range(t), f2, x2, b2, y2)
  BY <1>0, AfterCall DEF Come
<1> DEFINE k == place[r].k
<1>2. /\ f = ForwardsIn(config, r, loop, k, 0) /\ x = InputsIn(config, r, loop, k, 0)
      /\ b = BackwardsIn(config, r, loop, k) /\ y = GradsIn(config, r, loop, k, 0)
      /\ f2 = ForwardsIn(config, r, loop, k, 1) /\ x2 = InputsIn(config, r, loop, k, 1)
      /\ b2 = BackwardsIn(config, r, loop, k) /\ y2 = GradsIn(config, r, loop, k, 1)
  BY DEF CountsIn
<1>3. QED BY <1>1, <1>2, HalfTensors

\* Without overlap nothing is waited for.
Free1(r, f, x, b, y) ==
  /\ config \in Configs /\ ops \in [Devices(config) -> Seq(AnyOp)]
  /\ f \in Nat /\ x \in Nat /\ b \in Nat /\ y \in Nat
  /\ DirFree(config, r, Range(ops[r]), "act") /\ DirFree(config, r, Range(ops[r]), "grad")
  /\ Tensed(config, r, dev[r], f, b, x, y) /\ PostedOK(config, r, ops[r], f, x, b, y)
  /\ Counts(config, dev[r], f, b) /\ DOMAIN dev[r] = Fields

LEMMA Free1Is ==
  ASSUME NEW r \in Devices(config), NEW loop, NEW half, NEW f, NEW x, NEW b, NEW y,
         HereNow(r, loop, half, f, x, b, y), Settled(config, Range(ops[r]), "act", f, x),
         Settled(config, Range(ops[r]), "grad", b, y)
  PROVE  Free1(r, f, x, b, y)
<1> DEFINE S == Range(ops[r])
<1>1. config \in Configs /\ PostedOK(config, r, ops[r], f, x, b, y) /\ Quiet(S, "wait")
      /\ x \in Nat /\ y \in Nat
  BY DEF HereNow
<1>2. DirFree(config, r, S, "act") /\ DirFree(config, r, S, "grad")
  BY <1>1, SettledFree
<1>3. Arrived(config, r, S, "act", x) = x /\ Arrived(config, r, S, "grad", y) = y
  BY <1>1, <1>2, AllArrived
<1> HIDE DEF S
<1>4. Tensed(config, r, dev[r], f, b, x, y)
  BY <1>3 DEF HereNow, S
<1>5. QED BY <1>2, <1>4 DEF HereNow, Free1, S

\* Then every call may be made.
AllSteps(f, x, b, y, f2, x2, b2, y2) ==
  Steps(f, f2) /\ Steps(x, x2) /\ Steps(b, b2) /\ Steps(y, y2)

Calls4(r, call, s, f, x, b, y, f2, x2, b2, y2) ==
  s \o Operations(r, ToSend(config, r, "act", f, f2), ToSend(config, r, "grad", b, b2),
                  ToReceive(config, r, "act", x, x2), ToReceive(config, r, "grad", y, y2), call)

LEMMA Exchange1 ==
  ASSUME NEW r, NEW f, NEW x, NEW b, NEW y, Free1(r, f, x, b, y),
         NEW f2, NEW x2, NEW b2, NEW y2, AllSteps(f, x, b, y, f2, x2, b2, y2),
         NEW t, t = Calls4(r, "wait", ops[r], f, x, b, y, f2, x2, b2, y2)
  PROVE  Exchange(r, "wait", ops[r], t, f, x, b, y, f2, x2, b2, y2)
<1> DEFINE S == Range(ops[r])
<1>1. /\ MayCall(config, r, S, "act", "wait", f, f2, x, x2)
      /\ MayCall(config, r, S, "grad", "wait", b, b2, y, y2)
  BY DEF Free1, MayCall, CallFor
<1>2. FreeFor(config, r, S, "wait", f, x, b, y, f2, x2, b2, y2)
  BY <1>1, MayCallFree
<1>3. "wait" \in Calls /\ "wait" # "shapes"
  BY DEF Calls
<1>4. QED BY <1>2, <1>3 DEF Exchange, Free1, AllSteps, Calls4

\* and what has come is known.
LEMMA Come1 ==
  ASSUME NEW r, NEW f, NEW x, NEW b, NEW y, Free1(r, f, x, b, y), NEW m
  PROVE  /\ Come(config, r, ops[r], "act", x, m) = x + Gains(config, r, "recv", "act", x, m)
         /\ Come(config, r, ops[r], "grad", y, m) = y + Gains(config, r, "recv", "grad", y, m)
<1>1. /\ Arrived(config, r, Range(ops[r]), "act", x) = x
      /\ Arrived(config, r, Range(ops[r]), "grad", y) = y
  BY AllArrived DEF Free1
<1>2. QED BY <1>1 DEF Come

\* Where nothing is asked for, nothing comes.
LEMMA NoGains ==
  ASSUME NEW cf, NEW r, NEW side, NEW dir, NEW n
  PROVE  Gains(cf, r, side, dir, n, n) = 0
BY DEF Gains, One

----
(***************************************************************************)
(* The steps without interleaving.                                         *)
(***************************************************************************)
\* With device e, a call leads from the counts f, x, b, y to the others.
Stepped(r, e, call, f, x, b, y, f2, x2, b2, y2) ==
  \E t : /\ ops' = [ops EXCEPT ![r] = t]
         /\ Exchange(r, call, ops[r], t, f, x, b, y, f2, x2, b2, y2)
         /\ Tensed(config, r, e, f2, b2, Come(config, r, ops[r], "act", x, x2),
                                         Come(config, r, ops[r], "grad", y, y2))

LEMMA TurnStepped ==
  ASSUME Inv, NEW r \in Devices(config), NEW loop, NEW half, In(r, loop, half), loop # "done",
         NEW e, Becomes(r, e), Turn(r),
         NEW f, NEW x, NEW b, NEW y, NEW f2, NEW x2, NEW b2, NEW y2, NEW call,
         CountsIn(config, r, loop, place[r].k, half, f, x, b, y),
         CountsIn(config, r, loop, place[r].k + 1, 0, f2, x2, b2, y2),
         Stepped(r, e, call, f, x, b, y, f2, x2, b2, y2)
  PROVE  TensorMoved(r)
<1>1. PICK t : /\ ops' = [ops EXCEPT ![r] = t]
               /\ Exchange(r, call, ops[r], t, f, x, b, y, f2, x2, b2, y2)
               /\ Tensed(config, r, e, f2, b2, Come(config, r, ops[r], "act", x, x2),
                                               Come(config, r, ops[r], "grad", y, y2))
  BY DEF Stepped
<1>2. QED BY <1>1, TurnDone

LEMMA HalfStepped ==
  ASSUME Inv, NEW r \in Devices(config), NEW loop, In(r, loop, 0), loop # "done",
         NEW e, Becomes(r, e), HalfTurn(r),
         NEW f, NEW x, NEW b, NEW y, NEW f2, NEW x2, NEW b2, NEW y2, NEW call,
         CountsIn(config, r, loop, place[r].k, 0, f, x, b, y),
         CountsIn(config, r, loop, place[r].k, 1, f2, x2, b2, y2),
         Stepped(r, e, call, f, x, b, y, f2, x2, b2, y2),
         config.forwardOnly /\ loop = "steady" => place[r].k + 1 < RemainingOf(config, r)
  PROVE  TensorMoved(r)
<1>1. PICK t : /\ ops' = [ops EXCEPT ![r] = t]
               /\ Exchange(r, call, ops[r], t, f, x, b, y, f2, x2, b2, y2)
               /\ Tensed(config, r, e, f2, b2, Come(config, r, ops[r], "act", x, x2),
                                               Come(config, r, ops[r], "grad", y, y2))
  BY DEF Stepped
<1>2. QED BY <1>1, HalfDone

\* A device that waits for nothing makes a call.
LEMMA Called1 ==
  ASSUME NEW r, NEW f, NEW x, NEW b, NEW y, Free1(r, f, x, b, y), NEW e,
         NEW f2, NEW x2, NEW b2, NEW y2, AllSteps(f, x, b, y, f2, x2, b2, y2),
         ops' = [ops EXCEPT ![r] = Calls4(r, "wait", ops[r], f, x, b, y, f2, x2, b2, y2)],
         Tensed(config, r, e, f2, b2, x + Gains(config, r, "recv", "act", x, x2),
                                      y + Gains(config, r, "recv", "grad", y, y2))
  PROVE  Stepped(r, e, "wait", f, x, b, y, f2, x2, b2, y2)
<1> DEFINE t == Calls4(r, "wait", ops[r], f, x, b, y, f2, x2, b2, y2)
<1>1. ops' = [ops EXCEPT ![r] = t] /\ t = Calls4(r, "wait", ops[r], f, x, b, y, f2, x2, b2, y2)
  OBVIOUS
<1> HIDE DEF t
<1>2. Exchange(r, "wait", ops[r], t, f, x, b, y, f2, x2, b2, y2)
  BY <1>1, Exchange1
<1>3. Tensed(config, r, e, f2, b2, Come(config, r, ops[r], "act", x, x2),
                                   Come(config, r, ops[r], "grad", y, y2))
  BY Come1
<1>4. QED BY <1>1, <1>2, <1>3 DEF Stepped

\* So does every device of a schedule without interleaving.
LEMMA HereFree ==
  ASSUME Inv, TensorInv, config.V = 0, NEW r \in Devices(config), NEW loop, NEW half,
         In(r, loop, half), NEW f, NEW x, NEW b, NEW y,
         CountsIn(config, r, loop, place[r].k, half, f, x, b, y)
  PROVE  /\ Free1(r, f, x, b, y) /\ place[r].k \in Nat
         /\ place[r].k < TurnsOf(config, r, loop)
         /\ config.forwardOnly /\ loop = "steady" /\ half = 1 =>
              place[r].k + 1 < RemainingOf(config, r)
<1>1. HereNow(r, loop, half, f, x, b, y)
  BY HereNowIs
<1>2. ~config.overlap
  BY ConfigsAssumption DEF Inv, Accepted
<1>3. /\ Settled(config, Range(ops[r]), "act", f, x)
      /\ Settled(config, Range(ops[r]), "grad", b, y)
  BY <1>2 DEF Settled
<1>4. Free1(r, f, x, b, y)
  BY <1>1, <1>3, Free1Is
<1>5. QED BY <1>1, <1>4 DEF HereNow

\* Its two calls, when the tensors asked for go from n to m.
CalledNext(r, t, n, m) ==
  (m # n /\ CommunicateNext(r, t, TRUE)) \/ (m = n /\ CommunicateNext(r, t, FALSE))
CalledPrev(r, t, n, m) ==
  (m # n /\ CommunicatePrev(r, t, TRUE)) \/ (m = n /\ CommunicatePrev(r, t, FALSE))

LEMMA NextStepped ==
  ASSUME OneF1B, NEW r \in Devices(config), NEW f, NEW x, NEW b, NEW y, Free1(r, f, x, b, y),
         NEW e, NEW f2, NEW y2, AllSteps(f, x, b, y, f2, x, b, y2), NEW o,
         Carries(config, r, "act", f, f2, o), CalledNext(r, o, y, y2),
         Tensed(config, r, e, f2, b, x, y + Gains(config, r, "recv", "grad", y, y2))
  PROVE  Stepped(r, e, "wait", f, x, b, y, f2, x, b, y2)
<1> DEFINE sn == ToSend(config, r, "act", f, f2)
           nf == ToReceive(config, r, "grad", y, y2)
           s == ops[r] \o Operations(r, sn, None, -1, nf, "wait")
           t == Calls4(r, "wait", ops[r], f, x, b, y, f2, x, b, y2)
<1>1. /\ config \in Configs /\ ops \in [Devices(config) -> Seq(AnyOp)]
      /\ f \in Nat /\ x \in Nat /\ b \in Nat /\ y \in Nat /\ config.V = 0
  BY DEF Free1, OneF1B, V
<1>2. /\ Skips(config, r, "send", "act", f) <=> r = config.P - 1
      /\ Skips(config, r, "recv", "grad", y) <=> r = config.P - 1
      /\ ChunkAt(config, "grad", y) = 0
  BY <1>1, Ends1
<1>3. OnLastDevice(r) <=> r = config.P - 1
  BY DEF OnLastDevice, P
<1>4. t = s
  BY DEF Calls4, ToSend, ToReceive
<1> HIDE DEF t
<1>5. ops' = [ops EXCEPT ![r] = s]
  <2>1. CASE r = config.P - 1
    <3>1. sn = None /\ nf = -1
      BY <1>2, <2>1 DEF ToSend, ToReceive
    <3>2. s = ops[r]
      BY <1>1, <3>1, NothingPosted
    <3>3. ops' = ops
      BY <1>3, <2>1 DEF CalledNext, CommunicateNext, Silent
    <3>4. [ops EXCEPT ![r] = ops[r]] = ops
      BY <1>1
    <3>5. QED BY <3>2, <3>3, <3>4
  <2>2. CASE r # config.P - 1
    <3>1. sn = o
      BY <1>2, <2>2 DEF ToSend, Carries
    <3>2. nf = IF y2 # y THEN 0 ELSE -1
      BY <1>2, <2>2 DEF ToReceive
    <3>3. ops' = [ops EXCEPT ![r] = @ \o Operations(r, o, None, -1, IF y2 # y THEN 0 ELSE -1, "wait")]
      BY <1>3, <2>2 DEF CalledNext, CommunicateNext, Communicate
    <3>4. QED BY <3>1, <3>2, <3>3
  <2>3. QED BY <2>1, <2>2
<1> DEFINE a == x + Gains(config, r, "recv", "act", x, x)
<1>6. a = x
  BY <1>1, NoGains
<1> HIDE DEF s, a
<1>7. Tensed(config, r, e, f2, b, a, y + Gains(config, r, "recv", "grad", y, y2))
  BY <1>6
<1>8. ops' = [ops EXCEPT ![r] = Calls4(r, "wait", ops[r], f, x, b, y, f2, x, b, y2)]
  BY <1>4, <1>5 DEF t
<1>9. QED BY <1>7, <1>8, Called1 DEF a

LEMMA PrevStepped ==
  ASSUME OneF1B, NEW r \in Devices(config), NEW f, NEW x, NEW b, NEW y, Free1(r, f, x, b, y),
         NEW e, NEW b2, NEW x2, AllSteps(f, x, b, y, f, x2, b2, y), NEW o,
         o = ToSend(config, r, "grad", b, b2), CalledPrev(r, o, x, x2),
         Tensed(config, r, e, f, b2, x + Gains(config, r, "recv", "act", x, x2), y)
  PROVE  Stepped(r, e, "wait", f, x, b, y, f, x2, b2, y)
<1> DEFINE pf == ToReceive(config, r, "act", x, x2)
           s == ops[r] \o Operations(r, None, o, pf, -1, "wait")
           t == Calls4(r, "wait", ops[r], f, x, b, y, f, x2, b2, y)
<1>1. /\ config \in Configs /\ ops \in [Devices(config) -> Seq(AnyOp)]
      /\ f \in Nat /\ x \in Nat /\ b \in Nat /\ y \in Nat /\ config.V = 0
  BY DEF Free1, OneF1B, V
<1>2. /\ Skips(config, r, "send", "grad", b) <=> r = 0
      /\ Skips(config, r, "recv", "act", x) <=> r = 0
      /\ ChunkAt(config, "act", x) = 0
  BY <1>1, Ends1
<1>4. t = s
  BY DEF Calls4, ToSend, ToReceive
<1> HIDE DEF t
<1>5. ops' = [ops EXCEPT ![r] = s]
  <2>1. CASE r = 0
    <3>1. o = None /\ pf = -1
      BY <1>2, <2>1 DEF ToSend, ToReceive
    <3>2. s = ops[r]
      BY <1>1, <3>1, NothingPosted
    <3>3. ops' = ops
      BY <2>1 DEF CalledPrev, CommunicatePrev, Silent, OnFirstDevice
    <3>4. [ops EXCEPT ![r] = ops[r]] = ops
      BY <1>1
    <3>5. QED BY <3>2, <3>3, <3>4
  <2>2. CASE r # 0
    <3>1. pf = IF x2 # x THEN 0 ELSE -1
      BY <1>2, <2>2 DEF ToReceive
    <3>2. ops' = [ops EXCEPT ![r] = @ \o Operations(r, None, o, IF x2 # x THEN 0 ELSE -1, -1, "wait")]
      BY <2>2 DEF CalledPrev, CommunicatePrev, Communicate, OnFirstDevice
    <3>3. QED BY <3>1, <3>2
  <2>3. QED BY <2>1, <2>2
<1> DEFINE a == y + Gains(config, r, "recv", "grad", y, y)
<1>6. a = y
  BY <1>1, NoGains
<1> HIDE DEF s, a
<1>7. Tensed(config, r, e, f, b2, x + Gains(config, r, "recv", "act", x, x2), a)
  BY <1>6
<1>8. ops' = [ops EXCEPT ![r] = Calls4(r, "wait", ops[r], f, x, b, y, f, x2, b2, y)]
  BY <1>4, <1>5 DEF t
<1>9. QED BY <1>7, <1>8, Called1 DEF a

\* A call for the next activation.
LEMMA Received1 ==
  ASSUME OneF1B, NEW r \in Devices(config), NEW f, NEW x, NEW b, NEW y, Free1(r, f, x, b, y),
         x < Batch1(config), CommunicatePrev(r, None, TRUE), NEW e, e = GotInput(dev[r], r),
         NEW x2, x2 = x + 1
  PROVE  Stepped(r, e, "wait", f, x, b, y, f, x2, b, y)
<1> DEFINE d == dev[r]
           a == x + Gains(config, r, "recv", "act", x, x2)
           s == ToSend(config, r, "grad", b, b)
<1>1. /\ config \in Configs /\ f \in Nat /\ x \in Nat /\ b \in Nat /\ y \in Nat
      /\ config.V = 0 /\ Tensed(config, r, d, f, b, x, y) /\ DOMAIN d = Fields
  BY DEF Free1, OneF1B, V
<1>2. x2 # x /\ x2 \in Nat
  BY <1>1
<1>3. s = None
  BY DEF ToSend
<1>4. CalledPrev(r, s, x, x2)
  BY <1>2, <1>3 DEF CalledPrev
<1>5. AllSteps(f, x, b, y, f, x2, b, y)
  BY DEF AllSteps, Steps
<1>6. InputAsked(config, r, d, e, f, x, x2)
  <2> HIDE DEF d
  <2>1. config = config
    OBVIOUS
  <2>2. QED BY <1>1, <1>2, <2>1, GotIs DEF d
<1>7. Tensed(config, r, e, f, b, a, y)
  <2> HIDE DEF d
  <2>1. x2 # x => x = x /\ x < Batch1(config)
    OBVIOUS
  <2>2. QED BY <1>1, <1>6, <2>1, InputAskedIs
<1>8. s = ToSend(config, r, "grad", b, b)
  OBVIOUS
<1> HIDE DEF s
<1>9. QED BY <1>4, <1>5, <1>7, <1>8, PrevStepped

\* Its forward pass,
LEMMA SingleTensed ==
  ASSUME config \in Configs, config.V = 0, NEW r \in Devices(config), NEW f, NEW x, NEW b, NEW y,
         Free1(r, f, x, b, y), f < Batch1(config), x = f + 1,
         NEW full, NEW e, e = Kept(ForwardStep(dev[r], r, 0, full), 0)
  PROVE  /\ Tensed(config, r, e, x, b, x, y) /\ Carries(config, r, "act", f, x, e.computed)
         /\ DOMAIN e = Fields
<1> DEFINE d == dev[r]
<1>1. /\ f \in Nat /\ b \in Nat /\ Tensed(config, r, d, f, b, x, y) /\ Counts(config, d, f, b)
  BY DEF Free1
<1>2. ForwardChunk(config, f) = 0
  BY <1>1, Single
<1>3. ReadyForward(config, r, d, 0)
  BY DEF ReadyForward, Padded
<1> DEFINE c == 0
<1>4. c = ForwardChunk(config, f) /\ ReadyForward(config, r, d, c)
      /\ e = Kept(ForwardStep(d, r, c, full), c)
  BY <1>2, <1>3
<1>5. DOMAIN d = Fields
  BY DEF Free1
<1> HIDE DEF c, d
<1>6. DOMAIN e = Fields
  BY <1>4, <1>5 DEF Kept, ForwardStep
<1>7. QED BY <1>1, <1>4, <1>6, ForwardTensed

\* and its backward pass.
LEMMA SingleBackTensed ==
  ASSUME OneF1B, ~config.forwardOnly, NEW r \in Devices(config),
         NEW f, NEW x, NEW b, NEW y, Free1(r, f, x, b, y), b < f, Steps(f, x), y = b + 1,
         NEW e, e = BackwardStep(dev[r], r, 0)
  PROVE  /\ Tensed(config, r, e, f, y, x, y) /\ e.inputGrad = ToSend(config, r, "grad", b, y)
         /\ DOMAIN e = Fields
<1> DEFINE d == dev[r]
<1>1. /\ config \in Configs /\ f \in Nat /\ b \in Nat /\ Tensed(config, r, d, f, b, x, y)
      /\ Counts(config, d, f, b) /\ x \in Nat /\ DOMAIN d = Fields
  BY DEF Free1
<1>2. config.P > 1 /\ config.V = 0 /\ Batch1(config) \in Nat
  BY <1>1, OneF1BIs
<1>3. BackwardChunk(config, b) = 0 /\ FarAhead(config, f, b)
  BY <1>1, <1>2, Single
<1>4. b < Batch1(config)
  BY <1>1, <1>2 DEF Counts
<1>5. ReadyBackward(config, r, d, 0)
  BY <1>2 DEF ReadyBackward, Padded
<1> DEFINE c == 0
<1>6. c = BackwardChunk(config, b) /\ ReadyBackward(config, r, d, c) /\ e = BackwardStep(d, r, c)
  BY <1>3, <1>5
<1> HIDE DEF c, d
<1>7. DOMAIN e = Fields
  BY <1>1, <1>6 DEF BackwardStep, Reduce
<1>8. QED BY <1>1, <1>3, <1>4, <1>6, <1>7, BackwardTensed

LEMMA RecvForwardTensors ==
  ASSUME Inv, TensorInv, NEW r \in Devices(config), RecvForward(r)
  PROVE  TensorMoved(r)
<1> DEFINE k == place[r].k
           w == WarmupOf(config, r)
           m == RemainingOf(config, r)
           n == Batch1(config)
           e == GotInput(dev[r], r)
<1>1. OneF1B /\ Becomes(r, e) /\ CommunicatePrev(r, None, TRUE) /\ e = GotInput(dev[r], r)
  BY DEF RecvForward
<1>2. config \in Configs
  BY DEF Inv
<1>3. /\ config.V = 0 /\ w \in Nat /\ m \in Nat /\ n \in Nat /\ w + m = n
      /\ config.forwardOnly \in BOOLEAN
  BY <1>1, <1>2, OneF1BIs
<1> HIDE DEF e, w, m, n
<1>4. CASE In(r, "warmup", 0) /\ HalfTurn(r)
  <2> DEFINE k1 == k + 1
  <2>1. /\ CountsIn(config, r, "warmup", k, 0, k, k, 0, 0)
        /\ CountsIn(config, r, "warmup", k, 1, k, k1, 0, 0)
    <3>1. k \in Nat
      BY <1>2, <1>4, Here
    <3>2. QED BY <1>3, <3>1 DEF CountsIn, ForwardsIn, InputsIn, BackwardsIn, GradsIn, One
  <2>2. Free1(r, k, k, 0, 0) /\ k \in Nat /\ k < TurnsOf(config, r, "warmup")
    BY <1>3, <1>4, <2>1, HereFree
  <2>3. k < n
    BY <1>3, <2>2 DEF TurnsOf, w
  <2> HIDE DEF k1
  <2>4. Stepped(r, e, "wait", k, k, 0, 0, k, k1, 0, 0)
    <3> HIDE DEF k
    <3>1. k1 = k + 1 /\ k < Batch1(config)
      BY <2>3 DEF k1, n
    <3>2. QED BY <1>1, <2>2, <3>1, Received1
  <2>5. QED BY <1>1, <1>4, <2>1, <2>4, HalfStepped
<1>5. CASE In(r, "first", 0) /\ Turn(r)
  <2> DEFINE w1 == w + 1
  <2>1. k \in Nat /\ k < TurnsOf(config, r, "first")
    BY <1>5, Here
  <2>2. k = 0 /\ m > 0
    BY <1>3, <2>1 DEF TurnsOf, m
  <2>3. /\ CountsIn(config, r, "first", k, 0, w, w, 0, 0)
        /\ CountsIn(config, r, "first", k + 1, 0, w, w1, 0, 0)
    BY <1>3, <2>2 DEF CountsIn, ForwardsIn, InputsIn, BackwardsIn, GradsIn, w
  <2>4. Free1(r, w, w, 0, 0)
    BY <1>3, <1>5, <2>3, HereFree
  <2> HIDE DEF w1
  <2>5. Stepped(r, e, "wait", w, w, 0, 0, w, w1, 0, 0)
    <3>1. w1 = w + 1 /\ w < Batch1(config)
      BY <1>3, <2>2 DEF w1, n
    <3>2. QED BY <1>1, <2>4, <3>1, Received1
  <2>6. QED BY <1>1, <1>5, <2>3, <2>5, TurnStepped
<1>6. CASE In(r, "steady", 1) /\ config.forwardOnly /\ Turn(r)
  <2> DEFINE f == w + k + 1
             f1 == f + 1
  <2>1. k \in Nat /\ k < TurnsOf(config, r, "steady")
    BY <1>6, Here
  <2>2. k < m
    BY <2>1 DEF TurnsOf, m
  <2>3. CountsIn(config, r, "steady", k, 1, f, f, 0, 0)
    BY <1>3, <1>6, <2>1, <2>2
       DEF CountsIn, ForwardsIn, InputsIn, BackwardsIn, GradsIn, SmallerOf, w, n
  <2>4. Free1(r, f, f, 0, 0) /\ k + 1 < m
    <3> HIDE DEF f
    <3>1. /\ Free1(r, f, f, 0, 0)
          /\ config.forwardOnly /\ "steady" = "steady" /\ 1 = 1 =>
               k + 1 < RemainingOf(config, r)
      BY <1>3, <1>6, <2>3, HereFree
    <3>2. QED BY <1>6, <3>1 DEF m
  <2>5. CountsIn(config, r, "steady", k + 1, 0, f, f1, 0, 0)
    BY <1>3, <1>6, <2>1, <2>4
       DEF CountsIn, ForwardsIn, InputsIn, BackwardsIn, GradsIn, SmallerOf, w, n
  <2>6. f1 = f + 1 /\ f < Batch1(config)
    BY <1>3, <2>1, <2>4 DEF n
  <2> HIDE DEF f, f1
  <2>7. Stepped(r, e, "wait", f, f, 0, 0, f, f1, 0, 0)
    BY <1>1, <2>4, <2>6, Received1
  <2>8. QED BY <1>1, <1>6, <2>3, <2>5, <2>7, TurnStepped
<1>7. QED BY <1>4, <1>5, <1>6 DEF RecvForward

LEMMA WarmupForwardTensors ==
  ASSUME Inv, TensorInv, NEW r \in Devices(config), WarmupForward(r)
  PROVE  TensorMoved(r)
<1> DEFINE k == place[r].k
           k1 == k + 1
           d == dev[r]
           full == CheckpointMicrobatch(r, k)
           e == Kept(ForwardStep(d, r, 0, full), 0)
           o == e.computed
<1>1. /\ OneF1B /\ In(r, "warmup", 1) /\ Becomes(r, e) /\ Turn(r)
      /\ CommunicateNext(r, o, FALSE)
  BY DEF WarmupForward, K
<1>2. config \in Configs
  BY DEF Inv
<1>3. config.V = 0 /\ WarmupOf(config, r) \in Nat /\ Batch1(config) \in Nat
      /\ WarmupOf(config, r) <= Batch1(config)
  BY <1>1, <1>2, OneF1BIs
<1>4. /\ CountsIn(config, r, "warmup", k, 1, k, k1, 0, 0)
      /\ CountsIn(config, r, "warmup", k + 1, 0, k1, k1, 0, 0)
  <2>1. k \in Nat
    BY <1>1, Here
  <2>2. QED BY <1>3, <2>1 DEF CountsIn, ForwardsIn, InputsIn, BackwardsIn, GradsIn, One
<1>5. Free1(r, k, k1, 0, 0) /\ k \in Nat /\ k < Batch1(config)
  <2> HIDE DEF k1
  <2>1. Free1(r, k, k1, 0, 0) /\ k \in Nat /\ k < TurnsOf(config, r, "warmup")
    BY <1>1, <1>3, <1>4, HereFree
  <2>2. QED BY <1>3, <2>1 DEF TurnsOf
<1>6. k1 = k + 1 /\ e = Kept(ForwardStep(d, r, 0, full), 0)
  OBVIOUS
<1> HIDE DEF k1, full, e, o
<1>7. Tensed(config, r, e, k1, 0, k1, 0) /\ Carries(config, r, "act", k, k1, o)
  BY <1>2, <1>3, <1>5, <1>6, SingleTensed DEF d, o
<1>8. Stepped(r, e, "wait", k, k1, 0, 0, k1, k1, 0, 0)
  <2> DEFINE c == 0 + Gains(config, r, "recv", "grad", 0, 0)
  <2>1. c = 0
    BY NoGains
  <2> HIDE DEF c, k
  <2>2. Tensed(config, r, e, k1, 0, k1, c)
    BY <1>7, <2>1
  <2>3. CalledNext(r, o, 0, 0)
    BY <1>1 DEF CalledNext
  <2>4. AllSteps(k, k1, 0, 0, k1, k1, 0, 0)
    BY <1>6 DEF AllSteps, Steps
  <2>5. QED BY <1>1, <1>5, <1>7, <2>2, <2>3, <2>4, NextStepped DEF c
<1>9. QED BY <1>1, <1>4, <1>8, TurnStepped

\* Where a gradient comes, or none is asked for.
LEMMA GradTensed ==
  ASSUME config \in Configs, config.V = 0, NEW r \in Devices(config), NEW d, DOMAIN d = Fields,
         NEW f \in Nat, NEW b \in Nat, NEW x, NEW y \in Nat, Tensed(config, r, d, f, b, x, y),
         y < Batch1(config), NEW y2, y2 = y + 1, NEW e, e = GotGrad(d, r)
  PROVE  Tensed(config, r, e, f, b, x, y + Gains(config, r, "recv", "grad", y, y2))
<1>1. y2 # y /\ config = config
  OBVIOUS
<1>2. GradAsked(config, r, d, e, b, y, y2)
  BY <1>1, GotIs
<1>3. y2 # y => y = y /\ y < Batch1(config)
  OBVIOUS
<1>4. QED BY <1>2, <1>3, GradAskedIs

LEMMA InputTensed ==
  ASSUME config \in Configs, config.V = 0, NEW r \in Devices(config), NEW d, DOMAIN d = Fields,
         NEW f \in Nat, NEW b \in Nat, NEW x \in Nat, NEW y, Tensed(config, r, d, f, b, x, y),
         x < Batch1(config), NEW x2, x2 = x + 1, NEW e, e = GotInput(d, r)
  PROVE  Tensed(config, r, e, f, b, x + Gains(config, r, "recv", "act", x, x2), y)
<1>1. x2 # x /\ config = config
  OBVIOUS
<1>2. InputAsked(config, r, d, e, f, x, x2)
  BY <1>1, GotIs
<1>3. x2 # x => x = x /\ x < Batch1(config)
  OBVIOUS
<1>4. QED BY <1>2, <1>3, InputAskedIs

LEMMA SteadyForwardTensors ==
  ASSUME Inv, TensorInv, NEW r \in Devices(config), SteadyForward(r)
  PROVE  TensorMoved(r)
<1> DEFINE k == place[r].k
           w == WarmupOf(config, r)
           m == RemainingOf(config, r)
           n == Batch1(config)
           f == w + k
           x == f + 1
           b == IF config.forwardOnly THEN 0 ELSE k
           y == IF config.forwardOnly THEN 0 ELSE k + 1
           d == dev[r]
           full == CheckpointMicrobatch(r, k + NumWarmup(r))
           g == Kept(ForwardStep(d, r, 0, full), 0)
           e == IF config.forwardOnly THEN g ELSE GotGrad(g, r)
           o == g.computed
           lastOne == k = Remaining(r) - 1
<1>1. /\ OneF1B /\ In(r, "steady", 0) /\ Becomes(r, e)
      /\ CommunicateNext(r, o, ~config.forwardOnly)
      /\ IF config.forwardOnly /\ lastOne THEN Turn(r) ELSE HalfTurn(r)
  BY DEF SteadyForward, K
<1>2. config \in Configs
  BY DEF Inv
<1>3. /\ config.V = 0 /\ w \in Nat /\ m \in Nat /\ n \in Nat /\ w + m = n
      /\ config.forwardOnly \in BOOLEAN /\ (lastOne <=> k = m - 1)
  BY <1>1, <1>2, OneF1BIs
<1>4. k \in Nat /\ k < m
  <2>1. k \in Nat /\ k < TurnsOf(config, r, "steady")
    BY <1>1, Here
  <2>2. QED BY <2>1 DEF TurnsOf
<1> HIDE DEF w, m, n, lastOne
<1>5. CountsIn(config, r, "steady", k, 0, f, x, b, b)
  BY <1>3, <1>4 DEF CountsIn, ForwardsIn, InputsIn, BackwardsIn, GradsIn, SmallerOf, w, n
<1>6. ~(config.forwardOnly /\ lastOne) => CountsIn(config, r, "steady", k, 1, x, x, b, y)
  BY <1>3, <1>4 DEF CountsIn, ForwardsIn, InputsIn, BackwardsIn, GradsIn, SmallerOf, w, n
<1>7. config.forwardOnly /\ lastOne => CountsIn(config, r, "steady", k + 1, 0, x, x, b, y)
  BY <1>3, <1>4 DEF CountsIn, ForwardsIn, InputsIn, BackwardsIn, GradsIn, SmallerOf, w, n
<1>8. /\ f \in Nat /\ b \in Nat /\ x \in Nat /\ x = f + 1 /\ f < n /\ b < n
      /\ (config.forwardOnly => y = b) /\ (~config.forwardOnly => y = b + 1)
  BY <1>3, <1>4
<1>9. g = Kept(ForwardStep(d, r, 0, full), 0)
  OBVIOUS
<1> HIDE DEF f, x, b, y, full, g, o
<1>10. Free1(r, f, x, b, b)
  BY <1>1, <1>3, <1>5, HereFree
<1>11. /\ Tensed(config, r, g, x, b, x, b) /\ Carries(config, r, "act", f, x, o)
       /\ DOMAIN g = Fields
  <2>1. f < Batch1(config)
    BY <1>8 DEF n
  <2>2. QED BY <1>2, <1>3, <1>8, <1>9, <1>10, <2>1, SingleTensed DEF d, o
<1>12. /\ CalledNext(r, o, b, y)
       /\ Tensed(config, r, e, x, b, x, b + Gains(config, r, "recv", "grad", b, y))
  <2>1. CASE config.forwardOnly
    <3>1. y = b /\ e = g
      BY <1>8, <2>1
    <3>2. CommunicateNext(r, o, FALSE)
      BY <1>1, <2>1 DEF CommunicateNext
    <3>3. CalledNext(r, o, b, y)
      BY <3>1, <3>2 DEF CalledNext
    <3> DEFINE a == b + Gains(config, r, "recv", "grad", b, b)
    <3>4. a = b
      BY <1>8, NoGains
    <3> HIDE DEF a
    <3>5. Tensed(config, r, g, x, b, x, a)
      BY <1>11, <3>4
    <3>6. QED BY <3>1, <3>3, <3>5 DEF a
  <2>2. CASE ~config.forwardOnly
    <3>1. y = b + 1 /\ e = GotGrad(g, r) /\ b < Batch1(config)
      BY <1>8, <2>2 DEF n
    <3>2. CommunicateNext(r, o, TRUE)
      BY <1>1, <2>2 DEF CommunicateNext
    <3>2a. y # b
      BY <1>8, <3>1
    <3>3. CalledNext(r, o, b, y)
      BY <3>2, <3>2a DEF CalledNext
    <3> HIDE DEF e
    <3>4. Tensed(config, r, e, x, b, x, b + Gains(config, r, "recv", "grad", b, y))
      BY <1>2, <1>3, <1>8, <1>11, <3>1, GradTensed
    <3>5. QED BY <3>3, <3>4
  <2>3. QED BY <2>1, <2>2
<1> HIDE DEF e
<1>13. AllSteps(f, x, b, b, x, x, b, y)
  BY <1>3, <1>8 DEF AllSteps, Steps
<1>14. Stepped(r, e, "wait", f, x, b, b, x, x, b, y)
  BY <1>1, <1>10, <1>11, <1>12, <1>13, NextStepped
<1>15. CASE config.forwardOnly /\ lastOne
  BY <1>1, <1>5, <1>7, <1>14, <1>15, TurnStepped
<1>16. CASE ~(config.forwardOnly /\ lastOne)
  <2>1. config.forwardOnly => k + 1 < RemainingOf(config, r)
    BY <1>3, <1>4, <1>16 DEF m
  <2>2. HalfTurn(r)
    BY <1>1, <1>16
  <2>3. CountsIn(config, r, "steady", k, 1, x, x, b, y)
    BY <1>6, <1>16
  <2>4. QED BY <1>1, <1>5, <1>14, <2>1, <2>2, <2>3, HalfStepped
<1>17. QED BY <1>15, <1>16

LEMMA SteadyBackwardTensors ==
  ASSUME Inv, TensorInv, NEW r \in Devices(config), SteadyBackward(r)
  PROVE  TensorMoved(r)
<1> DEFINE k == place[r].k
           w == WarmupOf(config, r)
           m == RemainingOf(config, r)
           n == Batch1(config)
           f == w + k + 1
           y == k + 1
           d == dev[r]
           g == BackwardStep(d, r, 0)
           o == g.inputGrad
           lastOne == k = Remaining(r) - 1
           x2 == IF lastOne THEN f ELSE f + 1
           e == IF lastOne THEN g ELSE GotInput(g, r)
<1>1. /\ OneF1B /\ In(r, "steady", 1) /\ Becomes(r, e) /\ Turn(r) /\ ~config.forwardOnly
      /\ CommunicatePrev(r, o, ~lastOne)
  BY DEF SteadyBackward, K
<1>2. config \in Configs
  BY DEF Inv
<1>3. /\ config.V = 0 /\ w \in Nat /\ m \in Nat /\ n \in Nat /\ w + m = n
      /\ (lastOne <=> k = m - 1)
  BY <1>1, <1>2, OneF1BIs
<1>4. k \in Nat /\ k < m
  <2>1. k \in Nat /\ k < TurnsOf(config, r, "steady")
    BY <1>1, Here
  <2>2. QED BY <2>1 DEF TurnsOf
<1> HIDE DEF w, m, n, lastOne
<1>5. CountsIn(config, r, "steady", k, 1, f, f, k, y)
  BY <1>1, <1>3, <1>4 DEF CountsIn, ForwardsIn, InputsIn, BackwardsIn, GradsIn, SmallerOf, w, n
<1>6. CountsIn(config, r, "steady", k + 1, 0, f, x2, y, y)
  BY <1>1, <1>3, <1>4 DEF CountsIn, ForwardsIn, InputsIn, BackwardsIn, GradsIn, SmallerOf, w, n
<1>7. /\ f \in Nat /\ y = k + 1 /\ k < f /\ y \in Nat /\ Steps(f, f)
      /\ (lastOne => x2 = f) /\ (~lastOne => x2 = f + 1 /\ f < n)
  BY <1>3, <1>4 DEF Steps
<1>8. g = BackwardStep(d, r, 0)
  OBVIOUS
<1> HIDE DEF f, y, x2, g, o
<1>9. Free1(r, f, f, k, y)
  BY <1>1, <1>3, <1>5, HereFree
<1>10. /\ Tensed(config, r, g, f, y, f, y) /\ o = ToSend(config, r, "grad", k, y)
       /\ DOMAIN g = Fields
  BY <1>1, <1>7, <1>8, <1>9, SingleBackTensed DEF d, o
<1>11. /\ CalledPrev(r, o, f, x2)
       /\ Tensed(config, r, e, f, y, f + Gains(config, r, "recv", "act", f, x2), y)
  <2>1. CASE lastOne
    <3>1. x2 = f /\ e = g
      BY <1>7, <2>1
    <3>2. CommunicatePrev(r, o, FALSE)
      BY <1>1, <2>1 DEF CommunicatePrev
    <3>3. CalledPrev(r, o, f, x2)
      BY <3>1, <3>2 DEF CalledPrev
    <3> DEFINE a == f + Gains(config, r, "recv", "act", f, f)
    <3>4. a = f
      BY <1>7, NoGains
    <3> HIDE DEF a
    <3>5. Tensed(config, r, g, f, y, a, y)
      BY <1>10, <3>4
    <3>6. QED BY <3>1, <3>3, <3>5 DEF a
  <2>2. CASE ~lastOne
    <3>1. x2 = f + 1 /\ e = GotInput(g, r) /\ f < Batch1(config)
      BY <1>7, <2>2 DEF n
    <3>2. CommunicatePrev(r, o, TRUE)
      BY <1>1, <2>2 DEF CommunicatePrev
    <3>2a. x2 # f
      BY <1>7, <3>1
    <3>3. CalledPrev(r, o, f, x2)
      BY <3>2, <3>2a DEF CalledPrev
    <3> HIDE DEF e
    <3>4. Tensed(config, r, e, f, y, f + Gains(config, r, "recv", "act", f, x2), y)
      BY <1>2, <1>3, <1>7, <1>10, <3>1, InputTensed
    <3>5. QED BY <3>3, <3>4
  <2>3. QED BY <2>1, <2>2
<1> HIDE DEF e
<1>12. AllSteps(f, f, k, y, f, x2, y, y)
  BY <1>7 DEF AllSteps, Steps
<1>13. Stepped(r, e, "wait", f, f, k, y, f, x2, y, y)
  <2> HIDE DEF k
  <2>1. QED BY <1>1, <1>9, <1>10, <1>11, <1>12, PrevStepped
<1>14. QED BY <1>1, <1>5, <1>6, <1>13, TurnStepped

\* The numbers of the cooldown.
LEMMA CooldownIs ==
  ASSUME config \in Configs, OneF1B, NEW r \in Devices(config), NEW k \in Nat,
         k < TurnsOf(config, r, "cooldown"), NEW n, n = Batch1(config),
         NEW b, b = RemainingOf(config, r) + k, NEW y, y = b + 1
  PROVE  /\ ~config.forwardOnly /\ b \in Nat /\ y \in Nat /\ b < n /\ n \in Nat /\ config.V = 0
         /\ CountsIn(config, r, "cooldown", k, 0, n, n, b, b)
         /\ CountsIn(config, r, "cooldown", k, 1, n, n, b, y)
         /\ CountsIn(config, r, "cooldown", k + 1, 0, n, n, y, y)
<1> DEFINE w == WarmupOf(config, r)
           m == RemainingOf(config, r)
<1>1. config.V = 0 /\ w \in Nat /\ m \in Nat /\ n \in Nat /\ w + m = n /\ b = m + k
  BY OneF1BIs
<1>2. ~config.forwardOnly /\ k < w
  BY <1>1 DEF TurnsOf
<1> HIDE DEF w
<1>3. b \in Nat /\ y \in Nat /\ b < n
  <2> HIDE DEF m
  <2>1. QED BY <1>1, <1>2
<1>4. /\ CountsIn(config, r, "cooldown", k, 0, n, n, b, b)
      /\ CountsIn(config, r, "cooldown", k, 1, n, n, b, y)
      /\ CountsIn(config, r, "cooldown", k + 1, 0, n, n, y, y)
  BY <1>1, <1>2, <1>3 DEF CountsIn, ForwardsIn, InputsIn, BackwardsIn, GradsIn
<1>5. QED BY <1>1, <1>2, <1>3, <1>4

LEMMA CooldownRecvTensors ==
  ASSUME Inv, TensorInv, NEW r \in Devices(config), CooldownRecv(r)
  PROVE  TensorMoved(r)
<1> DEFINE k == place[r].k
           n == Batch1(config)
           b == RemainingOf(config, r) + k
           y == b + 1
           d == dev[r]
           enable == K(r) = NumWarmup(r) - 1 /\ (config.sync # "custom" \/ r = 0)
           g == [d EXCEPT !.noSync = @ /\ ~enable]
           e == GotGrad(g, r)
<1>1. /\ OneF1B /\ In(r, "cooldown", 0) /\ Becomes(r, e) /\ HalfTurn(r)
      /\ CommunicateNext(r, None, TRUE)
  BY DEF CooldownRecv
<1>2. config \in Configs
  BY DEF Inv
<1>3. k \in Nat /\ k < TurnsOf(config, r, "cooldown")
  BY <1>1, Here
<1>4. y = b + 1 /\ n = Batch1(config) /\ b = RemainingOf(config, r) + k
      /\ g = [d EXCEPT !.noSync = @ /\ ~enable] /\ e = GotGrad(g, r)
  OBVIOUS
<1> HIDE DEF n, b, y, g, e, enable
<1>5. /\ ~config.forwardOnly /\ b \in Nat /\ y \in Nat /\ b < n /\ n \in Nat /\ config.V = 0
      /\ CountsIn(config, r, "cooldown", k, 0, n, n, b, b)
      /\ CountsIn(config, r, "cooldown", k, 1, n, n, b, y)
  <2> HIDE DEF k
  <2>1. QED BY <1>1, <1>2, <1>3, <1>4, CooldownIs
<1>6. Free1(r, n, n, b, b)
  BY <1>1, <1>5, HereFree
<1>7. Tensed(config, r, g, n, b, n, b) /\ DOMAIN g = Fields
  <2>1. DOMAIN d = Fields /\ Tensed(config, r, d, n, b, n, b)
    BY <1>6 DEF Free1
  <2> HIDE DEF d
  <2>2. DOMAIN g = Fields
    BY <1>4, <2>1
  <2>3. /\ g.inputs = d.inputs /\ g.grads = d.grads /\ g.outputs = d.outputs
        /\ g.losses = d.losses /\ g.computed = d.computed /\ g.inputGrad = d.inputGrad
    BY <1>4, <2>1 DEF Fields
  <2>4. Tensed(config, r, g, n, b, n, b)
    BY <2>1, <2>3, TensedSame DEF SameRest
  <2>5. QED BY <2>2, <2>4
<1>8. Tensed(config, r, e, n, b, n, b + Gains(config, r, "recv", "grad", b, y))
  <2>1. b < Batch1(config)
    BY <1>4, <1>5
  <2>2. QED BY <1>2, <1>4, <1>5, <1>7, <2>1, GradTensed
<1>9. Stepped(r, e, "wait", n, n, b, b, n, n, b, y)
  <2> DEFINE o == None
  <2>1. y # b
    BY <1>4, <1>5
  <2>2. CalledNext(r, o, b, y) /\ Carries(config, r, "act", n, n, o)
    BY <1>1, <2>1 DEF CalledNext, Carries
  <2>3. AllSteps(n, n, b, b, n, n, b, y)
    BY <1>4 DEF AllSteps, Steps
  <2> HIDE DEF o
  <2>4. QED BY <1>1, <1>6, <1>8, <2>2, <2>3, NextStepped
<1>10. QED BY <1>1, <1>5, <1>9, HalfStepped

LEMMA CooldownBackwardTensors ==
  ASSUME Inv, TensorInv, NEW r \in Devices(config), CooldownBackward(r)
  PROVE  TensorMoved(r)
<1> DEFINE k == place[r].k
           n == Batch1(config)
           b == RemainingOf(config, r) + k
           y == b + 1
           d == dev[r]
           e == BackwardStep(d, r, 0)
           o == e.inputGrad
<1>1. /\ OneF1B /\ In(r, "cooldown", 1) /\ Becomes(r, e) /\ Turn(r)
      /\ CommunicatePrev(r, o, FALSE)
  BY DEF CooldownBackward
<1>2. config \in Configs
  BY DEF Inv
<1>3. k \in Nat /\ k < TurnsOf(config, r, "cooldown")
  BY <1>1, Here
<1>4. y = b + 1 /\ n = Batch1(config) /\ b = RemainingOf(config, r) + k
      /\ e = BackwardStep(d, r, 0)
  OBVIOUS
<1> HIDE DEF n, b, y, e, o
<1>5. /\ ~config.forwardOnly /\ b \in Nat /\ y \in Nat /\ b < n /\ n \in Nat /\ config.V = 0
      /\ CountsIn(config, r, "cooldown", k, 1, n, n, b, y)
      /\ CountsIn(config, r, "cooldown", k + 1, 0, n, n, y, y)
  <2> DEFINE k1 == k + 1
  <2> HIDE DEF k
  <2>1. QED BY <1>1, <1>2, <1>3, <1>4, CooldownIs
<1>6. Free1(r, n, n, b, y)
  BY <1>1, <1>5, HereFree
<1>7. Tensed(config, r, e, n, y, n, y) /\ o = ToSend(config, r, "grad", b, y)
  <2>1. Steps(n, n)
    BY DEF Steps
  <2>2. QED BY <1>1, <1>4, <1>5, <1>6, <2>1, SingleBackTensed DEF d, o
<1>8. Stepped(r, e, "wait", n, n, b, y, n, n, y, y)
  <2>1. CalledPrev(r, o, n, n)
    BY <1>1 DEF CalledPrev
  <2>2. AllSteps(n, n, b, y, n, n, y, y)
    BY <1>4 DEF AllSteps, Steps
  <2> DEFINE a == n + Gains(config, r, "recv", "act", n, n)
  <2>3. a = n
    BY <1>5, NoGains
  <2> HIDE DEF a
  <2>4. Tensed(config, r, e, n, y, a, y)
    BY <1>7, <2>3
  <2>5. QED BY <1>1, <1>6, <1>7, <2>1, <2>2, <2>4, PrevStepped DEF a
<1>9. QED BY <1>1, <1>5, <1>8, TurnStepped

\* A turn that exchanges nothing.
LEMMA SilentStepped ==
  ASSUME NEW r \in Devices(config), NEW loop, NEW half, NEW f, NEW x, NEW b, NEW y,
         HereNow(r, loop, half, f, x, b, y), Silent, NEW e,
         Tensed(config, r, e, f, b, Arrived(config, r, Range(ops[r]), "act", x),
                                    Arrived(config, r, Range(ops[r]), "grad", y))
  PROVE  Stepped(r, e, "wait", f, x, b, y, f, x, b, y)
<1> DEFINE t == ops[r]
           S == Range(t)
<1>1. /\ t \in Seq(AnyOp) /\ ops' = [ops EXCEPT ![r] = t]
      /\ f \in Nat /\ x \in Nat /\ b \in Nat /\ y \in Nat /\ PostedOK(config, r, t, f, x, b, y)
      /\ Arrived(config, r, S, "act", x) \in Nat /\ Arrived(config, r, S, "grad", y) \in Nat
  BY DEF HereNow, Silent
<1>2. /\ ToSend(config, r, "act", f, f) = None /\ ToSend(config, r, "grad", b, b) = None
      /\ ToReceive(config, r, "act", x, x) = -1 /\ ToReceive(config, r, "grad", y, y) = -1
  BY DEF ToSend, ToReceive
<1> HIDE DEF t
<1>3. t = t \o Operations(r, ToSend(config, r, "act", f, f), ToSend(config, r, "grad", b, b),
                          ToReceive(config, r, "act", x, x), ToReceive(config, r, "grad", y, y),
                          "wait")
  BY <1>1, <1>2, NothingPosted
<1>4. /\ "wait" \in Calls /\ "wait" # "shapes"
      /\ Steps(f, f) /\ Steps(x, x) /\ Steps(b, b) /\ Steps(y, y)
      /\ FreeFor(config, r, S, "wait", f, x, b, y, f, x, b, y)
  BY DEF Calls, Steps, FreeFor
<1>5. Exchange(r, "wait", t, t, f, x, b, y, f, x, b, y)
  BY <1>1, <1>3, <1>4 DEF Exchange
<1> DEFINE a == Arrived(config, r, S, "act", x)
           c == Arrived(config, r, S, "grad", y)
           a2 == a + Gains(config, r, "recv", "act", x, x)
           c2 == c + Gains(config, r, "recv", "grad", y, y)
<1>6. a2 = a /\ c2 = c
  BY <1>1, NoGains
<1>7. Tensed(config, r, e, f, b, a, c)
  BY DEF t
<1> HIDE DEF a, c, a2, c2
<1>8. Tensed(config, r, e, f, b, a2, c2)
  BY <1>6, <1>7
<1>9. Come(config, r, t, "act", x, x) = a2 /\ Come(config, r, t, "grad", y, y) = c2
  BY DEF Come, a, c, a2, c2
<1>10. Tensed(config, r, e, f, b, Come(config, r, t, "act", x, x), Come(config, r, t, "grad", y, y))
  BY <1>8, <1>9
<1>11. QED BY <1>1, <1>5, <1>10 DEF Stepped, t

\* After the last pass nothing is exchanged any more.
LEMMA FinishTensors ==
  ASSUME Inv, TensorInv, NEW r \in Devices(config), Finish(r) \/ InterleavedFinish(r)
  PROVE  TensorMoved(r)
<1> DEFINE k == place[r].k
           n == Batch1(config)
           b == IF config.forwardOnly THEN 0 ELSE n
           d == dev[r]
<1>1. CountsIn(config, r, "finish", k, 0, n, n, b, b)
      /\ CountsIn(config, r, "finish", k + 1, 0, n, n, b, b)
  BY DEF CountsIn, ForwardsIn, InputsIn, BackwardsIn, GradsIn
<1> HIDE DEF b, n
<1>2. In(r, "finish", 0) /\ Turn(r) /\ Silent
  BY DEF Finish, InterleavedFinish
<1>3. HereNow(r, "finish", 0, n, n, b, b)
  BY <1>1, <1>2, HereNowIs
<1>4. DOMAIN d = Fields
  BY <1>3 DEF HereNow
<1>5. PICK e : /\ Becomes(r, e) /\ e.inputs = d.inputs /\ e.grads = d.grads /\ SameRest(d, e)
  <2>1. CASE Finish(r)
    <3> DEFINE e == IF config.sync = "custom" /\ d.noSync THEN Reduce(d, 0) ELSE d
    <3>1. Becomes(r, e)
      BY <2>1 DEF Finish
    <3>2. e.inputs = d.inputs /\ e.grads = d.grads /\ SameRest(d, e)
      BY <1>4 DEF Reduce, Fields, SameRest
    <3> HIDE DEF e
    <3>3. QED BY <3>1, <3>2
  <2>2. CASE InterleavedFinish(r)
    <3> DEFINE g == [c \in Chunks |-> IF d.reduced[c] = << >> THEN <<d.summed[c]>>
                                       ELSE d.reduced[c]]
               e == IF config.sync # "custom" THEN d ELSE [d EXCEPT !.reduced = g]
    <3>1. Becomes(r, e)
      BY <2>2 DEF InterleavedFinish
    <3> HIDE DEF g
    <3>2. e.inputs = d.inputs /\ e.grads = d.grads /\ SameRest(d, e)
      BY <1>4 DEF Fields, SameRest
    <3> HIDE DEF e
    <3>3. QED BY <3>1, <3>2
  <2>3. QED BY <2>1, <2>2
<1> DEFINE a == Arrived(config, r, Range(ops[r]), "act", n)
           c == Arrived(config, r, Range(ops[r]), "grad", b)
<1>6. Tensed(config, r, d, n, b, a, c)
  BY <1>3 DEF HereNow
<1> HIDE DEF a, c, d
<1>7. Tensed(config, r, e, n, b, a, c)
  BY <1>5, <1>6, TensedSame
<1>8. Stepped(r, e, "wait", n, n, b, b, n, n, b, b)
  BY <1>2, <1>3, <1>7, SilentStepped DEF a, c
<1>9. QED BY <1>1, <1>2, <1>5, <1>8, TurnStepped

\* Without pipelining no tensor is exchanged, the gradients of the last chunk are given.
LEMMA PlainTensors ==
  ASSUME Inv, TensorInv, NEW r \in Devices(config), Plain(r)
  PROVE  TensorMoved(r)
<1> DEFINE k == place[r].k
           f == k + 1
           b == IF config.forwardOnly THEN 0 ELSE k
           y == IF config.forwardOnly THEN 0 ELSE k + 1
           d == dev[r]
           lastOne == k = M - 1
           h == GotInput(d, r)
           input == [d EXCEPT !.inputs[0] = Append(@, None), !.grads[0] = <<None>>,
                              !.noSync = @ /\ ~lastOne]
           full == FALSE
           g == Kept(ForwardStep(input, r, 0, full), 0)
           e == IF config.forwardOnly THEN g ELSE BackwardStep(g, r, 0)
<1>1. In(r, "plain", 0) /\ Becomes(r, e) /\ Turn(r) /\ Silent
  BY DEF Plain, K
<1>2. config \in Configs
  BY DEF Inv
<1>3. config.P = 1 /\ config.V = 0 /\ k \in Nat /\ k < TurnsOf(config, r, "plain")
  BY <1>1, Here, PlainAlone
<1>4. config.M \in Nat /\ k < Batch1(config) /\ ChunksOf(config) = {0} /\ r = 0
      /\ ChunkNumber(config) = 1 /\ Batch1(config) \in Nat /\ config.forwardOnly \in BOOLEAN
  BY <1>2, <1>3, Single, ConfigType DEF TurnsOf, Devices
<1>5. /\ CountsIn(config, r, "plain", k, 0, k, k, b, b)
      /\ CountsIn(config, r, "plain", k + 1, 0, f, f, y, y)
  BY DEF CountsIn, ForwardsIn, InputsIn, BackwardsIn, GradsIn
<1>6. /\ f = k + 1 /\ f \in Nat /\ f # k /\ b \in Nat /\ y \in Nat /\ b <= k
      /\ (config.forwardOnly => y = b) /\ (~config.forwardOnly => y = b + 1 /\ b = k)
  BY <1>3
<1>7. h = GotInput(d, r)
  OBVIOUS
<1> HIDE DEF f, b, y, h, full, lastOne
<1>8. Free1(r, k, k, b, b)
  BY <1>1, <1>3, <1>5, HereFree
<1>9. /\ DOMAIN d = Fields /\ Tensed(config, r, d, k, b, k, b) /\ Counts(config, d, k, b)
      /\ Shaped(config, d)
  BY <1>8 DEF Free1, Counts
<1>10. \A dir \in Dirs, n \in Nat :
         /\ Skips(config, r, "send", dir, n) /\ Skips(config, r, "recv", dir, n)
  BY <1>2, <1>3, <1>4, Ends1 DEF Dirs
<1>11. Tensed(config, r, h, k, b, f, b)
  <2>1. Tensed(config, r, h, k, b, k + Gains(config, r, "recv", "act", k, f), b)
    <3> HIDE DEF k, d
    <3>1. QED BY <1>2, <1>3, <1>4, <1>6, <1>7, <1>9, InputTensed
  <2>2. Gains(config, r, "recv", "act", k, f) = 1
    BY <1>3, <1>6, <1>10 DEF Gains, One, Dirs
  <2>3. QED BY <1>6, <2>1, <2>2
<1>12. Tensed(config, r, input, k, b, f, y)
  <2>1. OnFirstDevice(r)
    BY <1>4 DEF OnFirstDevice
  <2>2. /\ input.inputs = h.inputs /\ SameRest(h, input) /\ h.grads = d.grads
    BY <1>7, <1>9, <2>1 DEF Fields, SameRest, GotInput
  <2>3. input.grads = [h.grads EXCEPT ![0] = <<None>>]
    BY <1>9, <2>2 DEF Fields
  <2> HIDE DEF input
  <2>4. <<None>> \in Seq(TensorType)
    <3>1. None \in TensorType
      BY DEF None, TensorType
    <3>2. QED BY <3>1
  <2>5. h.grads \in [ChunksOf(config) -> Seq(TensorType)]
    BY <1>11 DEF Tensed
  <2>6. input.grads \in [ChunksOf(config) -> Seq(TensorType)] /\ input.grads[0] = <<None>>
    BY <1>4, <2>3, <2>4, <2>5
  <2>7. GradsOK(config, r, input, b, y)
    <3>1. Padded(config, r, "grad", 0)
      BY <1>3, <1>4 DEF Padded, EndStage
    <3>2. AllNone(input.grads[0])
      BY <2>6 DEF AllNone
    <3>3. QED BY <1>4, <3>1, <3>2 DEF GradsOK
  <2>8. b <= y /\ y <= Batch1(config)
    BY <1>3, <1>4, <1>6
  <2>9. QED BY <1>11, <2>2, <2>6, <2>7, <2>8 DEF Tensed, InputsOK, OutputsOK, LossesOK, SameRest
<1>13. Counts(config, input, k, b) /\ DOMAIN input = Fields
  <2>1. /\ SameWork(d, input) /\ input.reduced = d.reduced
        /\ input.noSync = (d.noSync /\ ~lastOne)
    BY <1>9 DEF Fields, SameWork
  <2> HIDE DEF input
  <2>2. input.reduced \in [ChunksOf(config) -> Seq(Nat)] /\ input.noSync \in BOOLEAN
    BY <1>9, <2>1 DEF Shaped
  <2>3. Counts(config, input, k, b)
    BY <1>2, <1>9, <2>1, <2>2, CountsSame
  <2>4. QED BY <1>9, <2>1, <2>3 DEF SameWork
<1>14. g = Kept(ForwardStep(input, r, 0, full), 0)
  OBVIOUS
<1>15. ForwardChunk(config, k) = 0 /\ BackwardChunk(config, b) = 0
       /\ ReadyForward(config, r, input, 0)
  BY <1>2, <1>3, <1>6, Single DEF ReadyForward, Padded
<1>16. input.grads[0] # << >>
  BY <1>9, <1>4, <1>12 DEF Fields, Tensed
<1> HIDE DEF input, g
<1>17. Tensed(config, r, g, f, b, f, y)
  <2> DEFINE c == 0
  <2>1. c = ForwardChunk(config, k) /\ ReadyForward(config, r, input, c)
        /\ g = Kept(ForwardStep(input, r, c, full), c)
    BY <1>14, <1>15
  <2> HIDE DEF c, k
  <2>2. QED BY <1>2, <1>3, <1>4, <1>6, <1>12, <1>13, <2>1, ForwardTensed
<1>18. g.grads = input.grads /\ Counts(config, g, f, b)
  <2>1. g.grads = input.grads
    BY <1>13, <1>14 DEF Kept, ForwardStep, Fields
  <2>2. ForwardDone1(config, input, g, 0, full)
    <3>1. Shaped(config, input) /\ 0 \in ChunksOf(config) /\ full \in BOOLEAN /\ r \in Int
          /\ config.P \in Nat
      BY <1>3, <1>4, <1>13 DEF Counts, full
    <3>2. QED BY <1>2, <1>14, <3>1, ForwardStepDoes
  <2> DEFINE c == 0
  <2>3. c = ForwardChunk(config, k) /\ ForwardDone1(config, input, g, c, full)
    BY <1>15, <2>2
  <2> HIDE DEF c, k
  <2>4. Counts(config, g, k + 1, b)
    BY <1>2, <1>4, <1>13, <2>3, CountsForward
  <2>5. QED BY <1>6, <2>1, <2>4
<1>19. Tensed(config, r, e, f, y, f, y)
  <2>1. CASE config.forwardOnly
    BY <1>6, <1>17, <2>1
  <2>2. CASE ~config.forwardOnly
    <3> DEFINE c == 0
    <3>1. c = BackwardChunk(config, b) /\ ReadyBackward(config, r, g, c) /\ e = BackwardStep(g, r, c)
      BY <1>15, <1>16, <1>18, <2>2 DEF ReadyBackward
    <3>2. FarAhead(config, f, b) /\ Steps(f, f) /\ b < Batch1(config) /\ y = b + 1
      <4>1. b < f
        BY <1>3, <1>6
      <4>2. FarAhead(config, f, b)
        BY <1>2, <1>3, <1>6, <4>1, Single
      <4>3. QED BY <1>3, <1>4, <1>6, <2>2, <4>2 DEF Steps
    <3> HIDE DEF c, e
    <3>3. QED BY <1>2, <1>6, <1>17, <1>18, <2>2, <3>1, <3>2, BackwardTensed
  <2>3. QED BY <2>1, <2>2
<1> HIDE DEF e
<1>20. Stepped(r, e, "wait", k, k, b, b, f, f, y, y)
  <2>1. AllSteps(k, k, b, b, f, f, y, y)
    BY <1>6 DEF AllSteps, Steps
  <2>2. ops' = [ops EXCEPT ![r] = Calls4(r, "wait", ops[r], k, k, b, b, f, f, y, y)]
    <3>1. /\ ToSend(config, r, "act", k, f) = None /\ ToSend(config, r, "grad", b, y) = None
          /\ ToReceive(config, r, "act", k, f) = -1 /\ ToReceive(config, r, "grad", b, y) = -1
      BY <1>3, <1>6, <1>10 DEF ToSend, ToReceive, Dirs
    <3>2. ops \in [Devices(config) -> Seq(AnyOp)]
      BY <1>8 DEF Free1
    <3> DEFINE s == ops[r]
    <3>3. s \in Seq(AnyOp)
      BY <3>2
    <3> HIDE DEF s
    <3>4. Calls4(r, "wait", s, k, k, b, b, f, f, y, y) = s
      BY <3>1, <3>3, NothingPosted DEF Calls4
    <3>5. QED BY <1>1, <3>2, <3>4 DEF Silent, s
  <2> DEFINE a == k + Gains(config, r, "recv", "act", k, f)
             c == b + Gains(config, r, "recv", "grad", b, y)
  <2>3. a = f /\ c = y
    <3>1. Gains(config, r, "recv", "act", k, f) = 1
      BY <1>3, <1>6, <1>10 DEF Gains, One, Dirs
    <3>2. Gains(config, r, "recv", "grad", b, y) = IF config.forwardOnly THEN 0 ELSE 1
      <4>1. ~config.forwardOnly <=> y # b
        BY <1>6
      <4>2. QED BY <1>6, <1>10, <4>1 DEF Gains, One, Dirs
    <3>3. QED BY <1>3, <1>6, <3>1, <3>2
  <2> HIDE DEF a, c
  <2>4. Tensed(config, r, e, f, y, a, c)
    BY <1>19, <2>3
  <2> HIDE DEF k
  <2>5. QED BY <1>8, <2>1, <2>2, <2>4, Called1 DEF a, c
<1>21. QED BY <1>1, <1>5, <1>20, TurnStepped

----
(***************************************************************************)
(* The steps of the interleaved schedule.                                  *)
(***************************************************************************)
\* Padding gives the first stage an input when it has none,
LEMMA PaddedIn ==
  ASSUME NEW cf \in Configs, cf.V > 0, NEW r \in Devices(cf), NEW d, DOMAIN d = Fields,
         NEW f, NEW b, NEW x, NEW y, Tensed(cf, r, d, f, b, x, y), NEW c \in ChunksOf(cf),
         IsFirstStage(r, c) <=> r = 0 /\ c = 0, NEW e, e = PaddedInputs(d, r, c)
  PROVE  /\ Tensed(cf, r, e, f, b, x, y) /\ ReadyForward(cf, r, e, c) /\ DOMAIN e = Fields
         /\ SameWork(d, e) /\ SameSync(d, e) /\ e.inputGrad = d.inputGrad
<1>1. d.inputs \in [ChunksOf(cf) -> Seq(TensorType)]
  BY DEF Tensed
<1>2. Padded(cf, r, "act", c) <=> IsFirstStage(r, c)
  BY DEF Padded, EndStage
<1>3. Padded(cf, r, "act", c) => AllNone(d.inputs[c]) /\ Len(d.inputs[c]) >= Len(d.outputs[c])
  BY DEF Tensed, InputsOK
<1>4. CASE IsFirstStage(r, c) /\ Len(d.inputs[c]) = Len(d.outputs[c])
  <2> DEFINE s == d.inputs[c]
  <2>1. s \in Seq(TensorType) /\ AllNone(s) /\ Len(s) = Len(d.outputs[c])
    BY <1>1, <1>2, <1>3, <1>4
  <2> HIDE DEF s
  <2>2. /\ Append(s, None) \in Seq(TensorType) /\ AllNone(Append(s, None))
        /\ Len(Append(s, None)) = Len(s) + 1
    BY <2>1, NoneLists
  <2>3. e.inputs = [d.inputs EXCEPT ![c] = Append(s, None)]
    BY <1>4 DEF PaddedInputs, Fields, s
  <2>4. /\ e.grads = d.grads /\ SameRest(d, e) /\ DOMAIN e = Fields
        /\ SameWork(d, e) /\ SameSync(d, e)
    BY <1>4 DEF PaddedInputs, Fields, SameRest, SameWork, SameSync
  <2>5. e.inputs \in [ChunksOf(cf) -> Seq(TensorType)] /\ e.inputs[c] = Append(s, None)
        /\ \A q \in ChunksOf(cf) : q # c => e.inputs[q] = d.inputs[q]
    BY <1>1, <2>2, <2>3
  <2>6. Len(s) \in Nat
    BY <2>1
  <2>7. Len(e.inputs[c]) > Len(e.outputs[c])
    BY <2>1, <2>2, <2>4, <2>5, <2>6 DEF SameRest
  <2>8. InputsOK(cf, r, e, f, b, x)
    <3> SUFFICES ASSUME NEW q \in ChunksOf(cf)
                 PROVE  /\ Padded(cf, r, "act", q) =>
                             AllNone(e.inputs[q]) /\ Len(e.inputs[q]) >= Len(e.outputs[q])
                        /\ ~Padded(cf, r, "act", q) =>
                             Keeps(cf, r, "act", q, e.inputs[q], Kept1(cf, f, b, q),
                                   Forwards(cf, x, q), f = Batch1(cf))
      BY DEF InputsOK
    <3>1. CASE q = c
      <4>1. Padded(cf, r, "act", q) /\ AllNone(e.inputs[q])
        BY <1>2, <1>4, <2>2, <2>5, <3>1
      <4>2. Len(e.inputs[c]) >= Len(e.outputs[c])
        BY <2>1, <2>2, <2>4, <2>5, <2>6 DEF SameRest
      <4>3. QED BY <3>1, <4>1, <4>2
    <3>2. CASE q # c
      BY <2>4, <2>5, <3>2 DEF Tensed, InputsOK, SameRest
    <3>3. QED BY <3>1, <3>2
  <2>9. Tensed(cf, r, e, f, b, x, y)
    BY <2>4, <2>5, <2>8 DEF Tensed, GradsOK, OutputsOK, LossesOK, SameRest
  <2>10. QED BY <2>4, <2>7, <2>9 DEF ReadyForward, SameRest
<1>5. CASE ~(IsFirstStage(r, c) /\ Len(d.inputs[c]) = Len(d.outputs[c]))
  <2>1. e = d
    BY <1>5 DEF PaddedInputs
  <2>2. ReadyForward(cf, r, e, c)
    <3>1. SUFFICES ASSUME Padded(cf, r, "act", c) PROVE Len(d.inputs[c]) > Len(d.outputs[c])
      BY <2>1 DEF ReadyForward
    <3>2. Len(d.inputs[c]) # Len(d.outputs[c]) /\ Len(d.inputs[c]) >= Len(d.outputs[c])
      BY <1>2, <1>3, <1>5, <3>1
    <3>3. QED BY <3>2
  <2>3. QED BY <2>1, <2>2 DEF SameWork, SameSync
<1>6. QED BY <1>4, <1>5

\* and the last stage a gradient.
LEMMA PaddedOut ==
  ASSUME NEW cf \in Configs, cf.V > 0, NEW r \in Devices(cf), NEW d, DOMAIN d = Fields,
         NEW f, NEW b, NEW x, NEW y, Tensed(cf, r, d, f, b, x, y), NEW c \in ChunksOf(cf),
         IsLastStage(r, c) <=> r = cf.P - 1 /\ c = ChunkNumber(cf) - 1,
         NEW e, e = PaddedGrads(d, r, c)
  PROVE  /\ Tensed(cf, r, e, f, b, x, y) /\ ReadyBackward(cf, r, e, c) /\ DOMAIN e = Fields
         /\ SameWork(d, e) /\ SameSync(d, e) /\ e.computed = d.computed
<1>1. d.grads \in [ChunksOf(cf) -> Seq(TensorType)]
  BY DEF Tensed
<1>2. Padded(cf, r, "grad", c) <=> IsLastStage(r, c)
  BY DEF Padded, EndStage
<1>3. CASE IsLastStage(r, c) /\ d.grads[c] = << >>
  <2> DEFINE s == <<None>>
  <2>1. s \in Seq(TensorType) /\ AllNone(s) /\ s # << >>
    <3>1. None \in TensorType
      BY DEF None, TensorType
    <3>2. QED BY <3>1 DEF AllNone
  <2> HIDE DEF s
  <2>2. e.grads = [d.grads EXCEPT ![c] = s]
    BY <1>3 DEF PaddedGrads, Fields, s
  <2>3. /\ e.inputs = d.inputs /\ SameRest(d, e) /\ DOMAIN e = Fields
        /\ SameWork(d, e) /\ SameSync(d, e)
    BY <1>3 DEF PaddedGrads, Fields, SameRest, SameWork, SameSync
  <2>4. e.grads \in [ChunksOf(cf) -> Seq(TensorType)] /\ e.grads[c] = s
        /\ \A q \in ChunksOf(cf) : q # c => e.grads[q] = d.grads[q]
    BY <1>1, <2>1, <2>2
  <2>5. GradsOK(cf, r, e, b, y)
    <3> SUFFICES ASSUME NEW q \in ChunksOf(cf)
                 PROVE  /\ Padded(cf, r, "grad", q) => AllNone(e.grads[q])
                        /\ ~Padded(cf, r, "grad", q) =>
                             Keeps(cf, r, "grad", q, e.grads[q], Backwards(cf, b, q),
                                   Backwards(cf, y, q), b = Batch1(cf))
      BY DEF GradsOK
    <3>1. CASE q = c
      BY <1>2, <1>3, <2>1, <2>4, <3>1
    <3>2. CASE q # c
      BY <2>4, <3>2 DEF Tensed, GradsOK
    <3>3. QED BY <3>1, <3>2
  <2>6. Tensed(cf, r, e, f, b, x, y)
    BY <2>3, <2>4, <2>5 DEF Tensed, InputsOK, OutputsOK, LossesOK, SameRest
  <2>7. QED BY <2>1, <2>3, <2>4, <2>6 DEF ReadyBackward, SameRest
<1>4. CASE ~(IsLastStage(r, c) /\ d.grads[c] = << >>)
  <2>1. e = d
    BY <1>4 DEF PaddedGrads
  <2>2. QED BY <1>2, <1>4, <2>1 DEF ReadyBackward, SameWork, SameSync
<1>5. QED BY <1>3, <1>4

\* What is sent to the next device of pass k.
SentNext(r, k, d) == ToNext(r, GetModelChunkId(k, TRUE), d)

\* A forward pass of forward_step_helper, and what it sends,
LEMMA HelperForward ==
  ASSUME config \in Configs, Interleaved, NEW r \in Devices(config), NEW d, NEW f \in Nat,
         NEW b \in Nat, NEW y, f < Batch1(config), NEW x, x = f + 1,
         Tensed(config, r, d, f, b, x, y), WorkV(config, r, d, f, b),
         NEW e, e = ForwardStepHelper(d, r, f)
  PROVE  /\ Tensed(config, r, e, x, b, x, y) /\ WorkV(config, r, e, x, b)
         /\ SentNext(r, f, e) = ToSend(config, r, "act", f, x)
<1> DEFINE c == ForwardChunk(config, f)
           g == ParamSync(d, r, f)
           h == PaddedInputs(g, r, c)
           full == CheckpointMicrobatch(r, f)
<1>0. f # x
  OBVIOUS
<1>1. config.V > 0 /\ c \in ChunksOf(config)
  <2>1. 0 \in ChunksOf(config)
    BY ConfigType DEF ChunksOf
  <2>2. QED BY <2>1, InterleavedIs, ForwardsNext
<1>2. Counts(config, d, f, b) /\ Shaped(config, d) /\ DOMAIN d = Fields
  BY DEF WorkV, Work, Counts, Shaped
<1>3. e = Kept(ForwardStep(h, r, c, full), c) /\ GetModelChunkId(f, TRUE) = c
  BY ChunkIs DEF ForwardStepHelper
<1>4. /\ (IsFirstStage(r, c) <=> r = 0 /\ c = 0)
      /\ (IsLastStage(r, c) <=> r = config.P - 1 /\ c = ChunkNumber(config) - 1)
  BY StagesAre
<1>4a. c = InChunk(f, config.P, ChunkNumber(config))
  BY DEF ForwardChunk
<1> HIDE DEF c, full
<1>5. /\ DOMAIN g = Fields /\ SameRest(d, g) /\ g.inputs = d.inputs /\ g.grads = d.grads
      /\ g.fed = d.fed /\ g.summed = d.summed /\ SameSync(d, g)
  <2> DEFINE now == /\ config.sync = "custom" /\ f + r < Total
                    /\ IsFirstMicrobatchForModelChunk(f + r)
                    /\ 1 < GetModelChunkId(f + r, TRUE) + 1 /\ GetModelChunkId(f + r, TRUE) + 1 < V
             q == GetModelChunkId(f + r, TRUE) + 1
  <2>1. g = IF now THEN [d EXCEPT !.params = @ \cup {q}] ELSE d
    BY DEF ParamSync
  <2> HIDE DEF now, q, g
  <2>2. QED BY <1>2, <2>1 DEF Fields, SameRest, SameSync
<1> HIDE DEF g
<1>6. Tensed(config, r, g, f, b, x, y)
  BY <1>5, TensedSame
<1>7. h = PaddedInputs(g, r, c)
  OBVIOUS
<1> HIDE DEF h
<1>8. /\ Tensed(config, r, h, f, b, x, y) /\ ReadyForward(config, r, h, c)
      /\ DOMAIN h = Fields /\ SameWork(g, h) /\ SameSync(g, h)
  BY <1>1, <1>4, <1>5, <1>6, <1>7, PaddedIn
<1>9. Counts(config, h, f, b)
  <2>1. /\ h.fed = d.fed /\ h.summed = d.summed /\ h.outputs = d.outputs
        /\ h.reduced = d.reduced /\ h.noSync = d.noSync
    BY <1>5, <1>8 DEF SameWork, SameSync, SameRest
  <2>2. Shaped(config, h)
    BY <1>2, <1>8, <2>1 DEF Shaped
  <2>3. Held(config, h) = Held(config, d)
    BY <2>1 DEF Held
  <2>4. QED BY <1>2, <2>1, <2>2, <2>3 DEF Counts
<1>10. Tensed(config, r, e, x, b, x, y) /\ Carries(config, r, "act", f, x, e.computed)
  <2>1. c = ForwardChunk(config, f)
    BY DEF c
  <2>2. QED BY <1>3, <1>8, <1>9, <2>1, ForwardTensed
<1>11. WorkV(config, r, e, x, b)
  <2>1. WorkV(config, r, e, f + 1, b)
    BY ForwardV
  <2>2. QED BY <2>1
<1>12. ToNext(r, c, e) = ToSend(config, r, "act", f, x)
  <2>1. Skips(config, r, "send", "act", f) <=> IsLastStage(r, c)
    BY <1>4, <1>4a DEF Skips, AtEnd, WithNext, EndChunk
  <2>2. QED BY <1>0, <1>10, <2>1 DEF ToNext, ToSend, Carries
<1>13. QED BY <1>3, <1>10, <1>11, <1>12 DEF SentNext

\* and a backward pass of backward_step_helper.
LEMMA HelperBackward ==
  ASSUME config \in Configs, Interleaved, ~config.forwardOnly, NEW r \in Devices(config), NEW d,
         NEW f \in Nat, NEW b \in Nat, NEW x, b < Batch1(config), FarAhead(config, f, b),
         Steps(f, x), NEW y, y = b + 1,
         Tensed(config, r, d, f, b, x, y), WorkV(config, r, d, f, b),
         NEW e, e = BackwardStepHelper(d, r, b)
  PROVE  /\ Tensed(config, r, e, f, y, x, y) /\ WorkV(config, r, e, f, y)
         /\ e.inputGrad = ToSend(config, r, "grad", b, y)
<1> DEFINE c == BackwardChunk(config, b)
           now == config.sync = "torchDDP" /\ IsLastMicrobatchForModelChunk(b)
           g == IF now THEN [d EXCEPT !.noSync = FALSE] ELSE d
           h == PaddedGrads(g, r, c)
           i == BackwardStep(h, r, c)
           j == IF config.sync = "custom" THEN GradSync(i, r, b) ELSE i
<1>1. config.V > 0 /\ c \in ChunksOf(config)
  <2>1. 0 \in ChunksOf(config)
    BY ConfigType DEF ChunksOf
  <2>2. QED BY <2>1, InterleavedIs, BackwardsNext
<1>2. Counts(config, d, f, b) /\ Shaped(config, d) /\ DOMAIN d = Fields
  BY DEF WorkV, Work, Counts, Shaped
<1>3. e = [j EXCEPT !.noSync = config.sync # "none"]
  BY ChunkIs DEF BackwardStepHelper
<1>4. IsLastStage(r, c) <=> r = config.P - 1 /\ c = ChunkNumber(config) - 1
  BY StagesAre
<1> HIDE DEF j, i, h, c, now
<1>5. /\ DOMAIN g = Fields /\ SameRest(d, g) /\ g.inputs = d.inputs /\ g.grads = d.grads
      /\ SameWork(d, g) /\ g.reduced = d.reduced /\ g.noSync \in BOOLEAN
  BY <1>2 DEF Fields, SameRest, SameWork, Shaped
<1> HIDE DEF g
<1>6. Tensed(config, r, g, f, b, x, y)
  BY <1>5, TensedSame
<1>7. h = PaddedGrads(g, r, c)
  BY DEF h
<1>8. /\ Tensed(config, r, h, f, b, x, y) /\ ReadyBackward(config, r, h, c)
      /\ DOMAIN h = Fields /\ SameWork(g, h) /\ SameSync(g, h)
  BY <1>1, <1>4, <1>5, <1>6, <1>7, PaddedOut
<1>9. Counts(config, h, f, b)
  <2>1. SameWork(d, h) /\ h.reduced = d.reduced /\ h.noSync \in BOOLEAN
    BY <1>5, <1>8 DEF SameWork, SameSync
  <2>2. h.reduced \in [ChunksOf(config) -> Seq(Nat)]
    BY <1>2, <2>1 DEF Shaped
  <2>3. QED BY <1>2, <2>1, <2>2, CountsSame
<1>10. /\ Tensed(config, r, i, f, y, x, y) /\ i.inputGrad = ToSend(config, r, "grad", b, y)
  <2>1. c = BackwardChunk(config, b) /\ i = BackwardStep(h, r, c)
    BY DEF c, i
  <2>2. QED BY <1>8, <1>9, <2>1, BackwardTensed
<1>11. /\ DOMAIN i = Fields
  BY <1>8 DEF i, BackwardStep, Reduce
<1>12. /\ DOMAIN j = Fields /\ SameRest(i, j) /\ j.inputs = i.inputs /\ j.grads = i.grads
  <2> DEFINE n == b - r
             q == GetModelChunkId(n, FALSE)
             late == n >= 0 /\ IsLastMicrobatchForModelChunk(n)
             v == i.summed[q]
  <2>1. j = IF config.sync = "custom" /\ late
            THEN [i EXCEPT !.reduced[q] = Append(@, v)] ELSE i
    BY DEF j, GradSync, Reduce
  <2> HIDE DEF q, late, v
  <2>2. QED BY <1>11, <2>1 DEF Fields, SameRest
<1>13. SameRest(i, e) /\ e.inputs = i.inputs /\ e.grads = i.grads
  BY <1>3, <1>12 DEF Fields, SameRest
<1>14. Tensed(config, r, e, f, y, x, y) /\ e.inputGrad = ToSend(config, r, "grad", b, y)
  <2>1. Tensed(config, r, e, f, y, x, y)
    BY <1>10, <1>13, TensedSame
  <2>2. QED BY <1>10, <1>13, <2>1 DEF SameRest
<1>15. WorkV(config, r, e, f, y)
  <2>1. WorkV(config, r, e, f, b + 1)
    BY BackwardV
  <2>2. QED BY <2>1
<1>16. QED BY <1>14, <1>15

\* Where a device of the interleaved schedule is, and what it has.
LEMMA HereWork ==
  ASSUME Inv, TensorInv, Interleaved, NEW r \in Devices(config), NEW loop, NEW half,
         In(r, loop, half), loop # "done", NEW f, NEW x, NEW b, NEW y,
         CountsIn(config, r, loop, place[r].k, half, f, x, b, y)
  PROVE  /\ HereNow(r, loop, half, f, x, b, y) /\ WorkV(config, r, dev[r], f, b)
         /\ \A call : WaitedFor(r, {call}) => Quiet(Range(ops[r]), call)
<1>1. f = ForwardsIn(config, r, loop, place[r].k, half) /\ b = BackwardsIn(config, r, loop, place[r].k)
  BY DEF CountsIn
<1>2. WorkV(config, r, dev[r], f, b)
  BY <1>1, HereV
<1>3. QED BY <1>2, HereNowIs

\* A call after the passes that made g of a device, with what comes at once.
LEMMA SteppedV ==
  ASSUME NEW r \in Devices(config), NEW f, NEW x, NEW b, NEW y, Free1(r, f, x, b, y),
         NEW f2 \in Nat, NEW x2, NEW b2 \in Nat, NEW y2, AllSteps(f, x, b, y, f2, x2, b2, y2),
         ops' = [ops EXCEPT ![r] = Calls4(r, "wait", ops[r], f, x, b, y, f2, x2, b2, y2)],
         NEW g, NEW h, NEW e, Tensed(config, r, g, f2, b2, x, y),
         InputAsked(config, r, g, h, f2, x, x2), GradAsked(config, r, h, e, b2, y, y2),
         x2 # x => x < Batch1(config), y2 # y => y < Batch1(config)
  PROVE  Stepped(r, e, "wait", f, x, b, y, f2, x2, b2, y2)
<1> DEFINE a == x + Gains(config, r, "recv", "act", x, x2)
           c == y + Gains(config, r, "recv", "grad", y, y2)
<1>1. config \in Configs /\ x \in Nat /\ y \in Nat
  BY DEF Free1
<1>2. Tensed(config, r, h, f2, b2, a, y)
  <2>1. x2 # x => x = x /\ x < Batch1(config)
    OBVIOUS
  <2>2. QED BY <1>1, <2>1, InputAskedIs
<1> HIDE DEF a
<1>3. Tensed(config, r, e, f2, b2, a, c)
  <2>1. y2 # y => y = y /\ y < Batch1(config)
    OBVIOUS
  <2>2. QED BY <1>1, <1>2, <2>1, GradAskedIs
<1>4. QED BY <1>3, Called1 DEF a, c

\* The first input.
LEMMA InterleavedFirstTensors ==
  ASSUME Inv, TensorInv, NEW r \in Devices(config), InterleavedFirst(r)
  PROVE  TensorMoved(r)
<1> DEFINE k == place[r].k
           d == dev[r]
           e == IF OnFirstDevice(r) THEN NoInput(d, 0) ELSE d
<1>1. /\ Interleaved /\ In(r, "first", 0) /\ Becomes(r, e) /\ Turn(r)
      /\ IF OnFirstDevice(r) THEN Silent ELSE Communicate(r, None, None, 0, -1, "wait")
  BY DEF InterleavedFirst
<1>2. config \in Configs
  BY DEF Inv
<1>3. config.V # 0 /\ Batch1(config) \in Nat \ {0}
  BY <1>1, <1>2, InterleavedIs, ConfigType
<1>4. k = 0
  <2>1. k \in Nat /\ k < TurnsOf(config, r, "first")
    BY <1>1, Here
  <2>2. TurnsOf(config, r, "first") = 1
    BY <1>1, <1>2, InterleavedIs DEF TurnsOf
  <2>3. QED BY <2>1, <2>2
<1>5. /\ CountsIn(config, r, "first", k, 0, 0, 0, 0, 0)
      /\ CountsIn(config, r, "first", k + 1, 0, 0, 1, 0, 0)
  BY <1>3, <1>4 DEF CountsIn, ForwardsIn, InputsIn, BackwardsIn, GradsIn
<1>6. Free1(r, 0, 0, 0, 0)
  <2>1. HereNow(r, "first", 0, 0, 0, 0, 0)
    BY <1>1, <1>5, HereWork
  <2>2. Settled(config, Range(ops[r]), "act", 0, 0) /\ Settled(config, Range(ops[r]), "grad", 0, 0)
    BY DEF Settled
  <2>3. QED BY <2>1, <2>2, Free1Is
<1>7. /\ Tensed(config, r, d, 0, 0, 0, 0) /\ DOMAIN d = Fields
      /\ ops \in [Devices(config) -> Seq(AnyOp)]
  BY <1>6 DEF Free1
<1>8. ForwardChunk(config, 0) = 0 /\ InChunk(0, config.P, ChunkNumber(config)) = 0
  <2> DEFINE p == config.P
             g == config.P * ChunkNumber(config)
  <2>1. p \in Nat \ {0} /\ g \in Nat \ {0}
    BY <1>2, ConfigType, ProductPositive
  <2> HIDE DEF g, p
  <2>2. 0 % g = 0 /\ 0 \div p = 0
    BY <2>1
  <2>3. (0 % g) \div p = 0
    BY <2>2
  <2>4. QED BY <2>3 DEF ForwardChunk, InChunk, g, p
<1>9. /\ Skips(config, r, "recv", "act", 0) <=> OnFirstDevice(r)
  BY <1>8 DEF Skips, AtEnd, WithNext, EndChunk, OnFirstDevice
<1> HIDE DEF d
<1>10. InputAsked(config, r, d, e, 0, 0, 1) /\ GradAsked(config, r, e, e, 0, 0, 0)
  <2>1. GradAsked(config, r, e, e, 0, 0, 0)
    BY NoneAsked
  <2>2. CASE OnFirstDevice(r)
    <3> DEFINE c == 0
    <3>1. c = ForwardChunk(config, 0) /\ e = NoInput(d, c)
      BY <1>8, <2>2
    <3> HIDE DEF c, e
    <3>2. InputCame(d, e, c, None)
      BY <1>7, <3>1, NoneComes
    <3>3. InputAsked(config, r, d, e, 0, 0, 1)
      BY <1>9, <2>2, <3>1, <3>2 DEF InputAsked
    <3>4. QED BY <2>1, <3>3 DEF e
  <2>3. CASE ~OnFirstDevice(r)
    <3>1. InputAsked(config, r, d, e, 0, 0, 1)
      BY <1>9, <2>3 DEF InputAsked, SameRest
    <3>2. QED BY <2>1, <3>1
  <2>4. QED BY <2>2, <2>3
<1> HIDE DEF e
<1>11. ops' = [ops EXCEPT ![r] = Calls4(r, "wait", ops[r], 0, 0, 0, 0, 0, 1, 0, 0)]
  <2> DEFINE s == ops[r]
             n == ToReceive(config, r, "act", 0, 1)
  <2>1. /\ ToSend(config, r, "act", 0, 0) = None /\ ToSend(config, r, "grad", 0, 0) = None
        /\ ToReceive(config, r, "grad", 0, 0) = -1
        /\ n = IF OnFirstDevice(r) THEN -1 ELSE 0
    BY <1>8, <1>9 DEF ToSend, ToReceive, ChunkAt
  <2>2. s \in Seq(AnyOp)
    BY <1>7
  <2> HIDE DEF n, s
  <2>3. Calls4(r, "wait", s, 0, 0, 0, 0, 0, 1, 0, 0) = s \o Operations(r, None, None, n, -1, "wait")
    BY <2>1 DEF Calls4, n
  <2>4. CASE OnFirstDevice(r)
    <3>1. s \o Operations(r, None, None, n, -1, "wait") = s
      BY <2>1, <2>2, <2>4, NothingPosted
    <3>2. QED BY <1>1, <1>7, <2>3, <2>4, <3>1 DEF Silent, s
  <2>5. CASE ~OnFirstDevice(r)
    BY <1>1, <2>1, <2>3, <2>5 DEF Communicate, s
  <2>6. QED BY <2>4, <2>5
<1>12. Stepped(r, e, "wait", 0, 0, 0, 0, 0, 1, 0, 0)
  <2> DEFINE z == 0
             o == 1
  <2>1. AllSteps(z, z, z, z, z, o, z, z) /\ z \in Nat
    BY DEF AllSteps, Steps
  <2>2. (o # z => z < Batch1(config)) /\ (z # z => z < Batch1(config))
    BY <1>3
  <2>3. /\ Free1(r, z, z, z, z) /\ Tensed(config, r, d, z, z, z, z)
        /\ InputAsked(config, r, d, e, z, z, o) /\ GradAsked(config, r, e, e, z, z, z)
        /\ ops' = [ops EXCEPT ![r] = Calls4(r, "wait", ops[r], z, z, z, z, z, o, z, z)]
    BY <1>6, <1>7, <1>10, <1>11
  <2> HIDE DEF z, o
  <2>4. Stepped(r, e, "wait", z, z, z, z, z, o, z, z)
    BY <2>1, <2>2, <2>3, SteppedV
  <2>5. QED BY <2>4 DEF z, o
<1>13. QED BY <1>1, <1>5, <1>12, TurnStepped
\* A call for one direction only, that makes e of the device.
LEMMA InputCalled ==
  ASSUME NEW r \in Devices(config), NEW loop, NEW half, NEW f, NEW x, NEW b, NEW y,
         HereNow(r, loop, half, f, x, b, y), Settled(config, Range(ops[r]), "act", f, x),
         NEW call \in Calls, CallFor(config, "act", call),
         NEW f2 \in Nat, NEW x2, Steps(f, f2), Steps(x, x2),
         ops' = [ops EXCEPT ![r] = Calls4(r, call, ops[r], f, x, b, y, f2, x2, b, y)],
         NEW e, NEW a, a = Arrived(config, r, Range(ops[r]), "grad", y),
         Tensed(config, r, e, f2, b, x + Gains(config, r, "recv", "act", x, x2), a)
  PROVE  Stepped(r, e, call, f, x, b, y, f2, x2, b, y)
<1> DEFINE S == Range(ops[r])
           t == Calls4(r, call, ops[r], f, x, b, y, f2, x2, b, y)
<1>1. /\ config \in Configs /\ PostedOK(config, r, ops[r], f, x, b, y) /\ Quiet(S, "wait")
      /\ f \in Nat /\ x \in Nat /\ b \in Nat /\ y \in Nat /\ a \in Nat
  BY DEF HereNow
<1>2. DirFree(config, r, S, "act")
  BY <1>1, SettledFree
<1>3. Arrived(config, r, S, "act", x) = x
  BY <1>1, <1>2, AllArrived
<1>4. /\ MayCall(config, r, S, "act", call, f, f2, x, x2)
      /\ MayCall(config, r, S, "grad", call, b, b, y, y)
  BY <1>2 DEF MayCall
<1>5. FreeFor(config, r, S, call, f, x, b, y, f2, x2, b, y)
  BY <1>4, MayCallFree
<1>6. call # "shapes"
  BY DEF CallFor, CallOf
<1>7. Exchange(r, call, ops[r], t, f, x, b, y, f2, x2, b, y)
  BY <1>1, <1>5, <1>6 DEF Exchange, Calls4, Steps
<1> DEFINE c == x + Gains(config, r, "recv", "act", x, x2)
<1>8. Tensed(config, r, e, f2, b, c, a)
  OBVIOUS
<1>9. Come(config, r, ops[r], "act", x, x2) = c
  BY <1>3 DEF Come
<1>10. Come(config, r, ops[r], "grad", y, y) = a
  BY <1>1 DEF Come, Gains, One
<1> HIDE DEF c, t
<1>11. Tensed(config, r, e, f2, b, Come(config, r, ops[r], "act", x, x2),
                                   Come(config, r, ops[r], "grad", y, y))
  BY <1>8, <1>9, <1>10
<1>12. ops' = [ops EXCEPT ![r] = t]
  BY DEF t
<1>13. QED BY <1>7, <1>11, <1>12 DEF Stepped

LEMMA GradCalled ==
  ASSUME NEW r \in Devices(config), NEW loop, NEW half, NEW f, NEW x, NEW b, NEW y,
         HereNow(r, loop, half, f, x, b, y), Settled(config, Range(ops[r]), "grad", b, y),
         NEW call \in Calls, CallFor(config, "grad", call),
         NEW b2 \in Nat, NEW y2, Steps(b, b2), Steps(y, y2),
         ops' = [ops EXCEPT ![r] = Calls4(r, call, ops[r], f, x, b, y, f, x, b2, y2)],
         NEW e, NEW a, a = Arrived(config, r, Range(ops[r]), "act", x),
         Tensed(config, r, e, f, b2, a, y + Gains(config, r, "recv", "grad", y, y2))
  PROVE  Stepped(r, e, call, f, x, b, y, f, x, b2, y2)
<1> DEFINE S == Range(ops[r])
           t == Calls4(r, call, ops[r], f, x, b, y, f, x, b2, y2)
<1>1. /\ config \in Configs /\ PostedOK(config, r, ops[r], f, x, b, y) /\ Quiet(S, "wait")
      /\ f \in Nat /\ x \in Nat /\ b \in Nat /\ y \in Nat /\ a \in Nat
  BY DEF HereNow
<1>2. DirFree(config, r, S, "grad")
  BY <1>1, SettledFree
<1>3. Arrived(config, r, S, "grad", y) = y
  BY <1>1, <1>2, AllArrived
<1>4. /\ MayCall(config, r, S, "act", call, f, f, x, x)
      /\ MayCall(config, r, S, "grad", call, b, b2, y, y2)
  BY <1>2 DEF MayCall
<1>5. FreeFor(config, r, S, call, f, x, b, y, f, x, b2, y2)
  BY <1>4, MayCallFree
<1>6. call # "shapes"
  BY DEF CallFor, CallOf
<1>7. Exchange(r, call, ops[r], t, f, x, b, y, f, x, b2, y2)
  BY <1>1, <1>5, <1>6 DEF Exchange, Calls4, Steps
<1> DEFINE c == y + Gains(config, r, "recv", "grad", y, y2)
<1>8. Tensed(config, r, e, f, b2, a, c)
  OBVIOUS
<1>9. Come(config, r, ops[r], "grad", y, y2) = c
  BY <1>3 DEF Come
<1>10. Come(config, r, ops[r], "act", x, x) = a
  BY <1>1 DEF Come, Gains, One
<1> HIDE DEF c, t
<1>11. Tensed(config, r, e, f, b2, Come(config, r, ops[r], "act", x, x),
                                   Come(config, r, ops[r], "grad", y, y2))
  BY <1>8, <1>9, <1>10
<1>12. ops' = [ops EXCEPT ![r] = t]
  BY DEF t
<1>13. QED BY <1>7, <1>11, <1>12 DEF Stepped

LEMMA GradStepped ==
  ASSUME NEW r \in Devices(config), NEW loop, NEW half, NEW f, NEW x, NEW b, NEW y,
         HereNow(r, loop, half, f, x, b, y), Settled(config, Range(ops[r]), "grad", b, y),
         NEW call \in Calls, CallFor(config, "grad", call),
         NEW b2 \in Nat, NEW y2, Steps(b, b2), Steps(y, y2),
         ops' = [ops EXCEPT ![r] = Calls4(r, call, ops[r], f, x, b, y, f, x, b2, y2)],
         NEW g, NEW e, NEW a, a = Arrived(config, r, Range(ops[r]), "act", x),
         Tensed(config, r, g, f, b2, a, y), GradAsked(config, r, g, e, b2, y, y2),
         y2 # y => y < Batch1(config)
  PROVE  Stepped(r, e, call, f, x, b, y, f, x, b2, y2)
<1> DEFINE c == y + Gains(config, r, "recv", "grad", y, y2)
<1>1. config \in Configs /\ f \in Nat /\ y \in Nat /\ a \in Nat
  BY DEF HereNow
<1>2. Tensed(config, r, e, f, b2, a, c)
  <2>1. y2 # y => y = y /\ y < Batch1(config)
    OBVIOUS
  <2>2. QED BY <1>1, <2>1, GradAskedIs
<1>3. QED BY <1>2, GradCalled

\* The end of a direction lies in the middle of the passes of its device: nothing is asked
\* for, and what is there for that pass stands for it.
LEMMA InputSkipped ==
  ASSUME NEW cf \in Configs, cf.V > 0, NEW r, NEW d, NEW f, NEW b, NEW x \in Nat, NEW y, NEW x2,
         Tensed(cf, r, d, f, b, x, y), Steps(x, x2), x2 # x => x < Batch1(cf), f \in Nat
  PROVE  Tensed(cf, r, d, f, b, x + Gains(cf, r, "recv", "act", x, x2), y)
<1> DEFINE g == Gains(cf, r, "recv", "act", x, x2)
<1>1. CASE ~(x2 # x /\ Skips(cf, r, "recv", "act", x))
  <2>1. x + g = x
    BY <1>1 DEF Gains, One
  <2>2. QED BY <2>1
<1>2. CASE x2 # x /\ Skips(cf, r, "recv", "act", x)
  <2> DEFINE z == x + 1
  <2>1. x + g = z /\ x < Batch1(cf) /\ z \in Nat
    BY <1>2 DEF Gains, One
  <2>2. ForwardChunk(cf, x) = 0 /\ Padded(cf, r, "act", 0)
    BY <1>2 DEF Skips, AtEnd, WithNext, EndChunk, ForwardChunk, Padded, EndStage
  <2>3. ASSUME NEW c \in ChunksOf(cf), ~Padded(cf, r, "act", c)
        PROVE  Forwards(cf, z, c) = Forwards(cf, x, c)
    BY <2>2, <2>3, ForwardsNext
  <2>4. f <= z /\ z <= Batch1(cf)
    <3>1. f <= x /\ Batch1(cf) \in Nat
      BY ConfigType DEF Tensed
    <3>2. QED BY <2>1, <3>1
  <2> HIDE DEF z, g
  <2>5. InputsOK(cf, r, d, f, b, z)
    BY <2>3 DEF InputsOK, Tensed
  <2>6. Tensed(cf, r, d, f, b, z, y)
    BY <2>4, <2>5 DEF Tensed
  <2>7. QED BY <2>1, <2>6 DEF g
<1>3. QED BY <1>1, <1>2

LEMMA GradSkipped ==
  ASSUME NEW cf \in Configs, cf.V > 0, NEW r, NEW d, NEW f, NEW b, NEW y \in Nat, NEW x, NEW y2,
         Tensed(cf, r, d, f, b, x, y), Steps(y, y2), y2 # y => y < Batch1(cf), b \in Nat
  PROVE  Tensed(cf, r, d, f, b, x, y + Gains(cf, r, "recv", "grad", y, y2))
<1> DEFINE g == Gains(cf, r, "recv", "grad", y, y2)
<1>1. CASE ~(y2 # y /\ Skips(cf, r, "recv", "grad", y))
  <2>1. y + g = y
    BY <1>1 DEF Gains, One
  <2>2. QED BY <2>1
<1>2. CASE y2 # y /\ Skips(cf, r, "recv", "grad", y)
  <2> DEFINE z == y + 1
             p == BackwardChunk(cf, y)
  <2>1. y + g = z /\ y < Batch1(cf) /\ z \in Nat
    BY <1>2 DEF Gains, One
  <2>2. Padded(cf, r, "grad", p)
    <3>1. r = cf.P - 1 /\ InChunk(y, cf.P, ChunkNumber(cf)) = 0
      BY <1>2 DEF Skips, AtEnd, WithNext, EndChunk
    <3>2. p = ChunkNumber(cf) - 1
      BY <3>1, ConfigType DEF BackwardChunk
    <3>3. QED BY <3>1, <3>2 DEF Padded, EndStage
  <2> HIDE DEF p
  <2>3. ASSUME NEW c \in ChunksOf(cf), ~Padded(cf, r, "grad", c)
        PROVE  Backwards(cf, z, c) = Backwards(cf, y, c)
    BY <2>2, <2>3, BackwardsNext DEF p
  <2>4. b <= z /\ z <= Batch1(cf)
    <3>1. b <= y /\ Batch1(cf) \in Nat
      BY ConfigType DEF Tensed
    <3>2. QED BY <2>1, <3>1
  <2> HIDE DEF z, g
  <2>5. GradsOK(cf, r, d, b, z)
    BY <2>3 DEF GradsOK, Tensed
  <2>6. Tensed(cf, r, d, f, b, x, z)
    BY <2>4, <2>5 DEF Tensed
  <2>7. QED BY <2>1, <2>6 DEF g
<1>3. QED BY <1>1, <1>2

\* In a direction that is free everything asked for is there; in the other as much as its
\* calls have brought.
LEMMA GradsHere ==
  ASSUME NEW r \in Devices(config), NEW loop, NEW half, NEW f, NEW x, NEW b, NEW y,
         HereNow(r, loop, half, f, x, b, y), Settled(config, Range(ops[r]), "grad", b, y),
         NEW a, a = Arrived(config, r, Range(ops[r]), "act", x), Steps(f, x)
  PROVE  Tensed(config, r, dev[r], f, b, a, y) /\ a \in Nat /\ Steps(f, a)
<1>1. DirFree(config, r, Range(ops[r]), "grad")
  BY SettledFree DEF HereNow
<1>2. Arrived(config, r, Range(ops[r]), "grad", y) = y
  BY <1>1, AllArrived DEF HereNow
<1>3. Tensed(config, r, dev[r], f, b, a, y) /\ a \in Nat /\ f \in Nat
  BY <1>2 DEF HereNow
<1>4. f <= a
  BY <1>3 DEF Tensed
<1>5. a = x \/ a = x - 1
  BY DEF HereNow, Arrived, One
<1> HIDE DEF HereNow
<1>6. Steps(f, a)
  BY <1>3, <1>4, <1>5 DEF Steps
<1>7. QED BY <1>3, <1>6

LEMMA InputsHere ==
  ASSUME NEW r \in Devices(config), NEW loop, NEW half, NEW f, NEW x, NEW b, NEW y,
         HereNow(r, loop, half, f, x, b, y), Settled(config, Range(ops[r]), "act", f, x),
         NEW a, a = Arrived(config, r, Range(ops[r]), "grad", y)
  PROVE  Tensed(config, r, dev[r], f, b, x, a) /\ a \in Nat
<1>1. DirFree(config, r, Range(ops[r]), "act")
  BY SettledFree DEF HereNow
<1>2. Arrived(config, r, Range(ops[r]), "act", x) = x
  BY <1>1, AllArrived DEF HereNow
<1>3. QED BY <1>2 DEF HereNow

\* Before the first backward pass nothing of a gradient is posted.
LEMMA NoGradYet ==
  ASSUME NEW cf, NEW r, NEW t, NEW f, NEW x, PostedOK(cf, r, t, f, x, 0, 0)
  PROVE  DirFree(cf, r, Range(t), "grad")
<1>1. PortOK(cf, r, Range(t), "send", "grad", 0) /\ PortOK(cf, r, Range(t), "recv", "grad", 0)
  BY DEF PostedOK
<1>2. QED BY <1>1 DEF PortOK, TensorOp, DirFree, Waits

\* Two calls, one after the other.
LEMMA SameTwice ==
  ASSUME NEW cf, NEW r, NEW S, NEW f, NEW x, NEW b, NEW y, NEW T, NEW f2, NEW x2, NEW b2, NEW y2,
         NEW U, NEW f3, NEW x3, NEW b3, NEW y3,
         AllSame(cf, r, S, f, x, b, y, T, f2, x2, b2, y2),
         AllSame(cf, r, T, f2, x2, b2, y2, U, f3, x3, b3, y3)
  PROVE  AllSame(cf, r, S, f, x, b, y, U, f3, x3, b3, y3)
BY DEF AllSame, Same

\* The chunk of the first passes.
LEMMA FirstChunk ==
  ASSUME NEW cf \in Configs
  PROVE  /\ InChunk(0, cf.P, ChunkNumber(cf)) = 0 /\ ForwardChunk(cf, 0) = 0
         /\ BackwardChunk(cf, 0) = ChunkNumber(cf) - 1
<1> DEFINE p == cf.P
           v == ChunkNumber(cf)
           g == p * v
<1>1. p \in Nat \ {0} /\ g \in Nat \ {0} /\ v \in Nat
  BY ConfigType, ProductPositive
<1> HIDE DEF g, p, v
<1>2. 0 % g = 0 /\ 0 \div p = 0
  BY <1>1
<1>3. (0 % g) \div p = 0
  BY <1>2
<1>4. v - 0 - 1 = v - 1
  BY <1>1
<1>5. QED BY <1>3, <1>4 DEF ForwardChunk, BackwardChunk, InChunk, g, p, v
\* The first gradient, when all forward passes are warmup passes.
LEMMA InterleavedFlushTensors ==
  ASSUME Inv, TensorInv, NEW r \in Devices(config), InterleavedFlush(r)
  PROVE  TensorMoved(r)
<1> DEFINE k == place[r].k
           d == dev[r]
           e == IF OnLastDevice(r) THEN NoGrad(d, V - 1) ELSE d
           f == Batch1(config)
           z == 0
           o == 1
<1>1. /\ Interleaved /\ In(r, "flush", 0) /\ Becomes(r, e) /\ Turn(r)
      /\ IF OnLastDevice(r) THEN Silent ELSE Communicate(r, None, None, -1, V - 1, "wait")
  BY DEF InterleavedFlush
<1>2. config \in Configs
  BY DEF Inv
<1>3. config.V > 0 /\ config.V # 0 /\ f \in Nat \ {0} /\ V - 1 = ChunkNumber(config) - 1
  BY <1>1, <1>2, InterleavedIs, ConfigType DEF ChunkNumber
<1>4. k = 0 /\ AllAhead(config) /\ RemainingOf(config, r) = 0
  <2>1. k \in Nat /\ k < TurnsOf(config, r, "flush")
    BY <1>1, Here
  <2>2. /\ AllAhead(config) => TurnsOf(config, r, "flush") = 1
        /\ ~AllAhead(config) => TurnsOf(config, r, "flush") = 0
    BY DEF TurnsOf, AllAhead
  <2>3. AllAhead(config) => WarmupOf(config, r) = Batch1(config)
    BY <1>3 DEF WarmupOf, AllAhead
  <2>4. QED BY <1>3, <2>1, <2>2, <2>3 DEF RemainingOf
<1>5. /\ CountsIn(config, r, "flush", k, 0, f, f, z, z)
      /\ CountsIn(config, r, "flush", k + 1, 0, f, f, z, o)
  BY <1>3, <1>4 DEF CountsIn, ForwardsIn, InputsIn, BackwardsIn, GradsIn, AllAhead
<1>6. HereNow(r, "flush", 0, f, f, z, z)
  BY <1>1, <1>5, HereWork
<1>7. Settled(config, Range(ops[r]), "grad", z, z)
  BY DEF Settled
<1> DEFINE a == Arrived(config, r, Range(ops[r]), "act", f)
<1>8. /\ Tensed(config, r, d, f, z, a, z) /\ DOMAIN d = Fields
      /\ ops \in [Devices(config) -> Seq(AnyOp)]
  <2>1. DirFree(config, r, Range(ops[r]), "grad")
    BY <1>2, <1>6, <1>7, SettledFree DEF HereNow
  <2>2. Arrived(config, r, Range(ops[r]), "grad", 0) = 0
    BY <2>1, AllArrived
  <2>3. QED BY <1>6, <2>2 DEF HereNow
<1>9. /\ InChunk(0, config.P, ChunkNumber(config)) = 0
      /\ BackwardChunk(config, 0) = V - 1
  BY <1>2, <1>3, FirstChunk
<1>10. Skips(config, r, "recv", "grad", 0) <=> OnLastDevice(r)
  BY <1>2, <1>9, WarmupIs DEF Skips, AtEnd, WithNext, EndChunk, OnLastDevice
<1> DEFINE c == V - 1
<1>11. c = BackwardChunk(config, z) /\ c \in Int
  BY <1>2, <1>3, <1>9, ConfigType
<1> HIDE DEF c
<1>12. e = IF OnLastDevice(r) THEN NoGrad(d, c) ELSE d
  BY DEF c
<1> HIDE DEF d, a, e
<1>13. GradAsked(config, r, d, e, z, z, o)
  <2>1. GradCame(d, NoGrad(d, c), c, None)
    BY <1>8, NoneComes
  <2>2. CASE OnLastDevice(r)
    <3>1. e = NoGrad(d, c)
      BY <1>12, <2>2
    <3>2. GradCame(d, e, c, None)
      BY <2>1, <3>1
    <3>3. QED BY <1>10, <1>11, <2>2, <3>2 DEF GradAsked
  <2>3. CASE ~OnLastDevice(r)
    BY <1>10, <1>12, <2>3 DEF GradAsked, SameRest
  <2>4. QED BY <2>2, <2>3
<1>14. ops' = [ops EXCEPT ![r] = Calls4(r, "wait", ops[r], f, f, z, z, f, f, z, o)]
  <2> DEFINE s == ops[r]
             n == ToReceive(config, r, "grad", z, o)
  <2>1. /\ ToSend(config, r, "act", f, f) = None /\ ToSend(config, r, "grad", z, z) = None
        /\ ToReceive(config, r, "act", f, f) = -1
        /\ n = IF OnLastDevice(r) THEN -1 ELSE c
    BY <1>10, <1>11 DEF ToSend, ToReceive, ChunkAt
  <2>2. s \in Seq(AnyOp)
    BY <1>8
  <2> HIDE DEF n, s, f
  <2>3. Calls4(r, "wait", s, f, f, z, z, f, f, z, o) = s \o Operations(r, None, None, -1, n, "wait")
    BY <2>1 DEF Calls4, n
  <2>4. CASE OnLastDevice(r)
    <3>1. s \o Operations(r, None, None, -1, n, "wait") = s
      BY <2>1, <2>2, <2>4, NothingPosted
    <3>2. QED BY <1>1, <1>8, <2>3, <2>4, <3>1 DEF Silent, s
  <2>5. CASE ~OnLastDevice(r)
    BY <1>1, <2>1, <2>3, <2>5 DEF Communicate, s, c
  <2>6. QED BY <2>4, <2>5
<1>15. Stepped(r, e, "wait", f, f, z, z, f, f, z, o)
  <2>1. Steps(z, z) /\ Steps(z, o) /\ z \in Nat /\ "wait" \in Calls /\ CallFor(config, "grad", "wait")
    BY DEF Steps, Calls, CallFor
  <2>2. o # z => z < Batch1(config)
    BY <1>3
  <2>3. a = Arrived(config, r, Range(ops[r]), "act", f)
    BY DEF a
  <2> HIDE DEF f, z, o
  <2>4. QED BY <1>6, <1>7, <1>8, <1>13, <1>14, <2>1, <2>2, <2>3, GradStepped
<1>16. QED BY <1>1, <1>5, <1>15, TurnStepped
\* What is asked for after pass n, in a loop with passes of one direction only: for the
\* first stage nothing, and nothing after the last pass; then a None comes at once.
LEMMA InputNext ==
  ASSUME NEW cf \in Configs, cf.V > 0, NEW r \in Devices(cf), NEW n \in Nat, n < Batch1(cf),
         NEW x, x = n + 1, NEW x2, x2 = SmallerOf(n + 2, Batch1(cf)),
         NEW c, c = ForwardChunk(cf, x), NEW q,
         q = IF ~(r = 0 /\ c = 0) /\ n # Batch1(cf) - 1 THEN c ELSE -1,
         NEW d, DOMAIN d = Fields, NEW e, e = IF q = -1 THEN NoInput(d, c) ELSE d
  PROVE  /\ InputAsked(cf, r, d, e, x, x, x2) /\ q = ToReceive(cf, r, "act", x, x2)
         /\ x \in Nat /\ Steps(x, x2) /\ (x2 # x => x < Batch1(cf))
<1> DEFINE B == Batch1(cf)
<1>1. B \in Nat \ {0} /\ x \in Nat
  BY ConfigType
<1>2. c \in ChunksOf(cf) /\ c # -1
  <2>1. 0 \in ChunksOf(cf)
    BY ConfigType DEF ChunksOf
  <2>2. c \in ChunksOf(cf)
    BY <1>1, <2>1, ForwardsNext
  <2>3. QED BY <2>2, ConfigType DEF ChunksOf
<1>3. Skips(cf, r, "recv", "act", x) <=> r = 0 /\ c = 0
  BY DEF Skips, AtEnd, WithNext, EndChunk, ForwardChunk
<1> HIDE DEF B
<1>4. /\ n = B - 1 => x2 = x /\ x = B
      /\ n # B - 1 => x2 = x + 1 /\ x2 # x /\ x < B
  BY <1>1 DEF SmallerOf, B
<1>5. InputCame(d, NoInput(d, c), c, None)
  BY NoneComes
<1>6. ChunkAt(cf, "act", x) = c
  BY DEF ChunkAt
<1>7. InputAsked(cf, r, d, e, x, x, x2)
  <2>1. CASE n = B - 1
    <3>1. x2 = x /\ x = Batch1(cf) /\ e = NoInput(d, c)
      BY <1>4, <2>1 DEF B
    <3>2. InputCame(d, e, c, None)
      BY <1>5, <3>1
    <3>3. QED BY <1>2, <3>1, <3>2 DEF InputAsked
  <2>2. CASE n # B - 1 /\ r = 0 /\ c = 0
    <3>1. x2 # x /\ Skips(cf, r, "recv", "act", x) /\ e = NoInput(d, c)
      BY <1>3, <1>4, <2>2
    <3>2. InputCame(d, e, c, None)
      BY <1>5, <3>1
    <3>3. QED BY <3>1, <3>2 DEF InputAsked
  <2>3. CASE n # B - 1 /\ ~(r = 0 /\ c = 0)
    <3>1. ~Skips(cf, r, "recv", "act", x) /\ e = d
      BY <1>2, <1>3, <2>3 DEF B
    <3>2. QED BY <3>1 DEF InputAsked, SameRest
  <2>4. QED BY <2>1, <2>2, <2>3
<1>8. q = ToReceive(cf, r, "act", x, x2)
  BY <1>3, <1>4, <1>6 DEF ToReceive, B
<1>9. QED BY <1>1, <1>4, <1>7, <1>8 DEF Steps, B

LEMMA GradNext ==
  ASSUME NEW cf \in Configs, cf.V > 0, NEW r \in Devices(cf), NEW n \in Nat, n < Batch1(cf),
         NEW y, y = n + 1, NEW y2, y2 = SmallerOf(n + 2, Batch1(cf)),
         NEW c, c = BackwardChunk(cf, y), NEW q,
         q = IF ~(r = cf.P - 1 /\ c = cf.V - 1) /\ n # Batch1(cf) - 1 THEN c ELSE -1,
         NEW d, DOMAIN d = Fields, NEW e, e = IF q = -1 THEN NoGrad(d, c) ELSE d
  PROVE  /\ GradAsked(cf, r, d, e, y, y, y2) /\ q = ToReceive(cf, r, "grad", y, y2)
         /\ y \in Nat /\ Steps(y, y2) /\ (y2 # y => y < Batch1(cf))
<1> DEFINE B == Batch1(cf)
<1>1. B \in Nat \ {0} /\ y \in Nat
  BY ConfigType
<1>2. c \in ChunksOf(cf) /\ c # -1
  <2>1. 0 \in ChunksOf(cf)
    BY ConfigType DEF ChunksOf
  <2>2. c \in ChunksOf(cf)
    BY <1>1, <2>1, BackwardsNext
  <2>3. QED BY <2>2, ConfigType DEF ChunksOf
<1>3. Skips(cf, r, "recv", "grad", y) <=> r = cf.P - 1 /\ c = cf.V - 1
  <2> DEFINE v == ChunkNumber(cf)
             j == InChunk(y, cf.P, v)
  <2>1. c = v - j - 1 /\ j \in 0 .. v - 1 /\ v \in Nat /\ v = cf.V
    BY <1>1, NumberIs, ConfigType DEF BackwardChunk, Dirs, ChunkNumber
  <2>2. Skips(cf, r, "recv", "grad", y) <=> r = cf.P - 1 /\ j = 0
    BY DEF Skips, AtEnd, WithNext, EndChunk
  <2> HIDE DEF j, v
  <2>3. j = 0 <=> c = cf.V - 1
    BY <2>1
  <2>4. QED BY <2>2, <2>3
<1> HIDE DEF B
<1>4. /\ n = B - 1 => y2 = y /\ y = B
      /\ n # B - 1 => y2 = y + 1 /\ y2 # y /\ y < B
  BY <1>1 DEF SmallerOf, B
<1>5. GradCame(d, NoGrad(d, c), c, None)
  BY NoneComes
<1>6. ChunkAt(cf, "grad", y) = c
  BY DEF ChunkAt
<1>7. GradAsked(cf, r, d, e, y, y, y2)
  <2>1. CASE n = B - 1
    <3>1. y2 = y /\ y = Batch1(cf) /\ e = NoGrad(d, c)
      BY <1>4, <2>1 DEF B
    <3>2. GradCame(d, e, c, None)
      BY <1>5, <3>1
    <3>3. QED BY <1>2, <3>1, <3>2 DEF GradAsked
  <2>2. CASE n # B - 1 /\ r = cf.P - 1 /\ c = cf.V - 1
    <3>1. y2 # y /\ Skips(cf, r, "recv", "grad", y) /\ e = NoGrad(d, c)
      BY <1>3, <1>4, <2>2
    <3>2. GradCame(d, e, c, None)
      BY <1>5, <3>1
    <3>3. QED BY <3>1, <3>2 DEF GradAsked
  <2>3. CASE n # B - 1 /\ ~(r = cf.P - 1 /\ c = cf.V - 1)
    <3>1. ~Skips(cf, r, "recv", "grad", y) /\ e = d
      BY <1>2, <1>3, <2>3 DEF B
    <3>2. QED BY <3>1 DEF GradAsked, SameRest
  <2>4. QED BY <2>1, <2>2, <2>3
<1>8. q = ToReceive(cf, r, "grad", y, y2)
  BY <1>3, <1>4, <1>6 DEF ToReceive, B
<1>9. QED BY <1>1, <1>4, <1>7, <1>8 DEF Steps, B

\* The last backward passes.
LEMMA CooldownVIs ==
  ASSUME config \in Configs, Interleaved, NEW r \in Devices(config), NEW k \in Nat,
         k < TurnsOf(config, r, "cooldown"), NEW n, n = Remaining(r) + k, NEW f, f = Batch1(config),
         NEW y, y = n + 1, NEW y2, y2 = SmallerOf(n + 2, f)
  PROVE  /\ ~config.forwardOnly /\ n \in Nat /\ n < Batch1(config) /\ f \in Nat
         /\ CountsIn(config, r, "cooldown", k, 0, f, f, n, y)
         /\ CountsIn(config, r, "cooldown", k + 1, 0, f, f, y, y2)
<1> DEFINE w == WarmupOf(config, r)
           m == RemainingOf(config, r)
<1>1. w \in Nat /\ m \in Nat /\ w + m = f /\ Remaining(r) = m /\ f \in Nat
      /\ config.V > 0 /\ config.V # 0
  BY InterleavedIs
<1>2. ~config.forwardOnly /\ TurnsOf(config, r, "cooldown") = w
  <2>1. config.forwardOnly => TurnsOf(config, r, "cooldown") = 0
    BY DEF TurnsOf
  <2>2. ~config.forwardOnly => TurnsOf(config, r, "cooldown") = w
    BY DEF TurnsOf
  <2>3. QED BY <2>1, <2>2
<1>3. /\ BackwardsIn(config, r, "cooldown", k) = m + k
      /\ BackwardsIn(config, r, "cooldown", k + 1) = m + (k + 1)
      /\ ForwardsIn(config, r, "cooldown", k, 0) = f /\ ForwardsIn(config, r, "cooldown", k + 1, 0) = f
      /\ InputsIn(config, r, "cooldown", k, 0) = f /\ InputsIn(config, r, "cooldown", k + 1, 0) = f
  BY <1>2 DEF BackwardsIn, ForwardsIn, InputsIn
<1>4. /\ GradsIn(config, r, "cooldown", k, 0) = SmallerOf(m + (k + 1), f)
      /\ GradsIn(config, r, "cooldown", k + 1, 0) = SmallerOf(m + ((k + 1) + 1), f)
  BY <1>1, <1>2 DEF GradsIn
<1> HIDE DEF w, m
<1>5. /\ n = m + k /\ n \in Nat /\ n < f /\ y = m + (k + 1) /\ n + 2 = m + ((k + 1) + 1)
      /\ SmallerOf(y, f) = y
  BY <1>1, <1>2 DEF SmallerOf
<1>6. QED BY <1>1, <1>2, <1>3, <1>4, <1>5 DEF CountsIn

LEMMA InterleavedCooldownTensors ==
  ASSUME Inv, TensorInv, NEW r \in Devices(config), InterleavedCooldown(r)
  PROVE  TensorMoved(r)
<1> DEFINE k == place[r].k
           d == dev[r]
           n == Remaining(r) + k
           next == GetModelChunkId(n + 1, FALSE)
           g == BackwardStepHelper(d, r, n)
           recvNext == ~(OnLastDevice(r) /\ next = V - 1) /\ n # Total - 1
           e == IF recvNext THEN g ELSE NoGrad(g, next)
           q == IF recvNext THEN next ELSE -1
           f == Batch1(config)
           y == n + 1
           y2 == SmallerOf(n + 2, f)
<1>1. /\ Interleaved /\ In(r, "cooldown", 0) /\ WaitedFor(r, {"backward"})
      /\ Becomes(r, e) /\ Turn(r)
      /\ Communicate(r, None, g.inputGrad, -1, q, "wait")
  BY DEF InterleavedCooldown, K
<1>2. config \in Configs /\ k \in Nat /\ k < TurnsOf(config, r, "cooldown")
  BY <1>1, HereV
<1>3. /\ f = Batch1(config) /\ y = n + 1 /\ y2 = SmallerOf(n + 2, f) /\ n = Remaining(r) + k
      /\ next = BackwardChunk(config, y) /\ g = BackwardStepHelper(d, r, n)
      /\ q = IF ~(r = config.P - 1 /\ next = config.V - 1) /\ n # Batch1(config) - 1
             THEN next ELSE -1
  BY <1>2, ChunkIs, WarmupIs DEF OnLastDevice
<1> HIDE DEF n, next, g, f, y, y2
<1>3a. next \in ChunksOf(config) => next # -1
  <2>1. 0 \in ChunksOf(config) /\ ChunkNumber(config) \in Nat
    BY <1>2, ConfigType DEF ChunksOf
  <2>2. QED BY <2>1 DEF ChunksOf
<1>4. /\ ~config.forwardOnly /\ n \in Nat /\ n < Batch1(config) /\ f \in Nat
      /\ CountsIn(config, r, "cooldown", k, 0, f, f, n, y)
      /\ CountsIn(config, r, "cooldown", k + 1, 0, f, f, y, y2)
  BY <1>1, <1>2, <1>3, CooldownVIs
<1>5. /\ HereNow(r, "cooldown", 0, f, f, n, y) /\ WorkV(config, r, d, f, n)
      /\ Quiet(Range(ops[r]), "backward")
  BY <1>1, <1>4, HereWork
<1>6. Settled(config, Range(ops[r]), "grad", n, y)
  BY <1>5 DEF Settled, CallOf
<1> DEFINE a == Arrived(config, r, Range(ops[r]), "act", f)
<1>7. Tensed(config, r, d, f, n, a, y) /\ Steps(f, a)
  <2>1. a = Arrived(config, r, Range(ops[r]), "act", f) /\ Steps(f, f)
    BY DEF Steps
  <2> HIDE DEF a
  <2>2. QED BY <1>5, <1>6, <2>1, GradsHere
<1> HIDE DEF a, d
<1>8. /\ Tensed(config, r, g, f, y, a, y) /\ WorkV(config, r, g, f, y)
      /\ g.inputGrad = ToSend(config, r, "grad", n, y)
  <2>1. FarAhead(config, f, n)
    BY <1>3 DEF FarAhead
  <2>2. QED BY <1>1, <1>2, <1>3, <1>4, <1>5, <1>7, <2>1, HelperBackward DEF d
<1>9. DOMAIN g = Fields
  BY <1>8 DEF WorkV, Work, Counts, Shaped
<1>10. e = IF q = -1 THEN NoGrad(g, next) ELSE g
  <2>1. y \in Nat
    BY <1>3, <1>4
  <2>2. next \in ChunksOf(config)
    <3>1. 0 \in ChunksOf(config)
      BY <1>2, ConfigType DEF ChunksOf
    <3>2. QED BY <1>2, <1>3, <2>1, <3>1, BackwardsNext
  <2> HIDE DEF recvNext
  <2>3. QED BY <1>3a, <2>2
<1> HIDE DEF e, q
<1>11. /\ GradAsked(config, r, g, e, y, y, y2) /\ q = ToReceive(config, r, "grad", y, y2)
       /\ y \in Nat /\ Steps(y, y2) /\ (y2 # y => y < Batch1(config))
  <2>1. config.V > 0 /\ y2 = SmallerOf(n + 2, Batch1(config))
    BY <1>1, <1>2, <1>3, InterleavedIs
  <2>2. QED BY <1>2, <1>3, <1>4, <1>9, <1>10, <2>1, GradNext
<1>12. ops' = [ops EXCEPT ![r] = Calls4(r, "wait", ops[r], f, f, n, y, f, f, y, y2)]
  <2>1. ToSend(config, r, "act", f, f) = None /\ ToReceive(config, r, "act", f, f) = -1
    BY DEF ToSend, ToReceive
  <2>2. QED BY <1>1, <1>8, <1>11, <2>1 DEF Communicate, Calls4
<1>13. Stepped(r, e, "wait", f, f, n, y, f, f, y, y2)
  <2>1. Steps(n, y) /\ "wait" \in Calls /\ CallFor(config, "grad", "wait")
    BY <1>3 DEF Steps, Calls, CallFor
  <2>2. a = Arrived(config, r, Range(ops[r]), "act", f)
    BY DEF a
  <2>3. QED BY <1>5, <1>6, <1>8, <1>11, <1>12, <2>1, <2>2, GradStepped
<1>14. QED BY <1>1, <1>4, <1>13, TurnStepped
\* The counts in the steady state.
LEMMA SteadyVIs ==
  ASSUME config \in Configs, Interleaved, NEW r \in Devices(config), NEW k \in Nat,
         k < TurnsOf(config, r, "steady"), NEW fk, fk = k + NumWarmup(r),
         NEW n, n = fk + 1, NEW x2, x2 = SmallerOf(fk + 2, Batch1(config)),
         NEW y, y = k + 1, NEW y2, y2 = k + 2
  PROVE  /\ ~config.forwardOnly /\ fk \in Nat /\ fk < Batch1(config) /\ n \in Nat /\ y \in Nat
         /\ k < Batch1(config) /\ FarAhead(config, n, k) /\ y < Batch1(config)
         /\ CountsIn(config, r, "steady", k, 0, fk, n, k, y)
         /\ CountsIn(config, r, "steady", k, 1, n, x2, k, y)
         /\ CountsIn(config, r, "steady", k + 1, 0, n, x2, y, y2)
         /\ Steps(n, x2) /\ (x2 # n => n < Batch1(config))
         /\ NextInputFor(r, k) = ToReceive(config, r, "act", n, x2)
         /\ NextGradFor(r, k) = ToReceive(config, r, "grad", y, y2)
<1> DEFINE w == WarmupOf(config, r)
           m == RemainingOf(config, r)
           B == Batch1(config)
<1>1. w \in Nat /\ m \in Nat /\ w + m = B /\ Remaining(r) = m /\ NumWarmup(r) = w /\ B \in Nat
      /\ config.V > 0 /\ config.V # 0
  BY InterleavedIs
<1>2. /\ ~config.forwardOnly /\ fk \in Nat /\ fk < B /\ k < B /\ FarAhead(config, n, k)
      /\ ForwardsIn(config, r, "steady", k, 0) = fk
      /\ ForwardsIn(config, r, "steady", k, 1) = n
      /\ ForwardsIn(config, r, "steady", k + 1, 0) = n
      /\ BackwardsIn(config, r, "steady", k) = k
      /\ BackwardsIn(config, r, "steady", k + 1) = y
  BY SteadyIs
<1>3. k < m /\ ~AllAhead(config) /\ w >= 1
  <2>1. TurnsOf(config, r, "steady") = m
    BY DEF TurnsOf
  <2>2. AllAhead(config) => w = B
    BY <1>1 DEF WarmupOf, AllAhead
  <2>3. m > 0
    BY <1>1, <2>1
  <2>4. w >= (ChunkNumber(config) - 1) * config.P
    BY <2>3, WarmupType
  <2>5. (ChunkNumber(config) - 1) * config.P >= 1
    <3> DEFINE v == ChunkNumber(config) - 1
               p == config.P
    <3>1. v \in Nat \ {0} /\ p \in Nat \ {0}
      BY <1>1, ConfigType DEF ChunkNumber
    <3> HIDE DEF v, p
    <3>2. v * p \in Nat \ {0}
      BY <3>1, ProductPositive
    <3>3. QED BY <3>2 DEF v, p
  <2> DEFINE z == (ChunkNumber(config) - 1) * config.P
  <2>6. z \in Nat
    BY WarmupType
  <2> HIDE DEF z, w, m
  <2>7. w >= 1
    BY <1>1, <2>4, <2>5, <2>6 DEF z
  <2>8. QED BY <1>1, <2>1, <2>2, <2>3, <2>7
<1>4. /\ InputsIn(config, r, "steady", k, 0) = SmallerOf(w + (k + (0 + 1)), B)
      /\ InputsIn(config, r, "steady", k, 1) = SmallerOf(w + (k + (1 + 1)), B)
      /\ InputsIn(config, r, "steady", k + 1, 0) = SmallerOf(w + ((k + 1) + (0 + 1)), B)
  BY <1>1 DEF InputsIn
<1>5. /\ GradsIn(config, r, "steady", k, 0) = k + 1 /\ GradsIn(config, r, "steady", k, 1) = k + 1
      /\ GradsIn(config, r, "steady", k + 1, 0) = (k + 1) + 1
  BY <1>1, <1>2, <1>3 DEF GradsIn, One
<1>6. /\ k = Remaining(r) - 1 => NextInputFor(r, k) = -1
      /\ k # Remaining(r) - 1 => NextInputFor(r, k) = ToReceive(config, r, "act", fk + 1, fk + 2)
      /\ NextGradFor(r, k) = ToReceive(config, r, "grad", k + 1, k + 2)
  BY <1>1, NextIs
<1> HIDE DEF w, m, B
<1>7. /\ w + (k + (0 + 1)) = n /\ w + (k + (1 + 1)) = fk + 2 /\ w + ((k + 1) + (0 + 1)) = fk + 2
      /\ SmallerOf(n, B) = n /\ n \in Nat /\ y \in Nat /\ y < B /\ y2 = (k + 1) + 1
  BY <1>1, <1>2, <1>3 DEF SmallerOf
<1>8. /\ k = Remaining(r) - 1 => x2 = n
      /\ k # Remaining(r) - 1 => x2 = fk + 2 /\ x2 = n + 1 /\ n < B /\ x2 # n
  BY <1>1, <1>2, <1>3 DEF SmallerOf, B
<1>9. NextInputFor(r, k) = ToReceive(config, r, "act", n, x2)
  <2>1. CASE k = Remaining(r) - 1
    BY <1>6, <1>8, <2>1 DEF ToReceive
  <2>2. CASE k # Remaining(r) - 1
    <3>1. NextInputFor(r, k) = ToReceive(config, r, "act", fk + 1, fk + 2)
      BY <1>6, <2>2
    <3>2. x2 = fk + 2
      BY <1>8, <2>2
    <3>3. QED BY <3>1, <3>2
  <2>3. QED BY <2>1, <2>2
<1>10. /\ CountsIn(config, r, "steady", k, 0, fk, n, k, y)
       /\ CountsIn(config, r, "steady", k, 1, n, x2, k, y)
       /\ CountsIn(config, r, "steady", k + 1, 0, n, x2, y, y2)
  <2>1. /\ InputsIn(config, r, "steady", k, 0) = n /\ InputsIn(config, r, "steady", k, 1) = x2
        /\ InputsIn(config, r, "steady", k + 1, 0) = x2
    BY <1>4, <1>7 DEF B
  <2>2. /\ GradsIn(config, r, "steady", k, 0) = y /\ GradsIn(config, r, "steady", k, 1) = y
        /\ GradsIn(config, r, "steady", k + 1, 0) = y2
    BY <1>5, <1>7
  <2>3. QED BY <1>2, <2>1, <2>2 DEF CountsIn
<1>11. Steps(n, x2) /\ (x2 # n => n < B)
  BY <1>8 DEF Steps
<1>12. QED BY <1>2, <1>6, <1>7, <1>9, <1>10, <1>11 DEF B

\* Both passes of a turn.
LEMMA InterleavedSteadyTensors ==
  ASSUME Inv, TensorInv, NEW r \in Devices(config), InterleavedSteady(r)
  PROVE  TensorMoved(r)
<1> DEFINE k == place[r].k
           d == dev[r]
           fk == k + NumWarmup(r)
           n == fk + 1
           g == ForwardStepHelper(d, r, fk)
           e == BackwardStepHelper(g, r, k)
           x2 == SmallerOf(fk + 2, Batch1(config))
           y == k + 1
           y2 == k + 2
           o == ToNext(r, GetModelChunkId(fk, TRUE), g)
           p == NextInputFor(r, k)
           q == NextGradFor(r, k)
<1>1. /\ Interleaved /\ ~config.overlap /\ In(r, "steady", 0) /\ Becomes(r, e) /\ Turn(r)
      /\ Communicate(r, o, e.inputGrad, p, q, "wait")
  BY DEF InterleavedSteady, K
<1>2. config \in Configs /\ k \in Nat /\ k < TurnsOf(config, r, "steady")
  BY <1>1, HereV
<1>3. /\ n = fk + 1 /\ x2 = SmallerOf(fk + 2, Batch1(config)) /\ y = k + 1 /\ y2 = k + 2
      /\ fk = k + NumWarmup(r) /\ g = ForwardStepHelper(d, r, fk) /\ e = BackwardStepHelper(g, r, k)
      /\ o = ToNext(r, GetModelChunkId(fk, TRUE), g) /\ p = NextInputFor(r, k)
      /\ q = NextGradFor(r, k) /\ y # k
  BY <1>2
<1> HIDE DEF k, fk, n, g, e, x2, y, y2, o, p, q
<1>4. /\ ~config.forwardOnly /\ fk \in Nat /\ fk < Batch1(config) /\ n \in Nat /\ y \in Nat
      /\ k < Batch1(config) /\ FarAhead(config, n, k) /\ y < Batch1(config)
      /\ CountsIn(config, r, "steady", k, 0, fk, n, k, y)
      /\ CountsIn(config, r, "steady", k + 1, 0, n, x2, y, y2)
      /\ Steps(n, x2) /\ (x2 # n => n < Batch1(config))
      /\ NextInputFor(r, k) = ToReceive(config, r, "act", n, x2)
      /\ NextGradFor(r, k) = ToReceive(config, r, "grad", y, y2)
  BY <1>1, <1>2, <1>3, SteadyVIs
<1>5. HereNow(r, "steady", 0, fk, n, k, y) /\ WorkV(config, r, d, fk, k)
  BY <1>1, <1>4, HereWork DEF k
<1>6. Free1(r, fk, n, k, y)
  <2>1. /\ Settled(config, Range(ops[r]), "act", fk, n)
        /\ Settled(config, Range(ops[r]), "grad", k, y)
    BY <1>1 DEF Settled
  <2>2. QED BY <1>5, <2>1, Free1Is
<1>7. Tensed(config, r, d, fk, k, n, y)
  BY <1>6 DEF Free1
<1> HIDE DEF d
<1>8. Tensed(config, r, g, n, k, n, y) /\ WorkV(config, r, g, n, k) /\ o = ToSend(config, r, "act", fk, n)
  <2>1. /\ config \in Configs /\ Interleaved /\ r \in Devices(config) /\ fk \in Nat /\ k \in Nat
        /\ fk < Batch1(config) /\ n = fk + 1 /\ g = ForwardStepHelper(d, r, fk)
        /\ Tensed(config, r, d, fk, k, n, y) /\ WorkV(config, r, d, fk, k)
    BY <1>1, <1>2, <1>3, <1>4, <1>5, <1>7
  <2>2. Tensed(config, r, g, n, k, n, y) /\ WorkV(config, r, g, n, k)
    BY <2>1, HelperForward
  <2>3. SentNext(r, fk, g) = ToSend(config, r, "act", fk, n)
    BY <2>1, HelperForward
  <2>4. QED BY <1>3, <2>2, <2>3 DEF SentNext
<1>9. Tensed(config, r, e, n, y, n, y) /\ e.inputGrad = ToSend(config, r, "grad", k, y)
  <2>1. Steps(n, n)
    BY DEF Steps
  <2>2. QED BY <1>1, <1>2, <1>3, <1>4, <1>8, <2>1, HelperBackward
<1> DEFINE a == n + Gains(config, r, "recv", "act", n, x2)
           c == y + Gains(config, r, "recv", "grad", y, y2)
<1>10. Tensed(config, r, e, n, y, a, y)
  <2>1. config.V > 0
    BY <1>1, <1>2, InterleavedIs
  <2>2. QED BY <1>2, <1>4, <1>9, <2>1, InputSkipped
<1>11. Steps(y, y2)
  BY <1>2, <1>3 DEF Steps
<1>12. Tensed(config, r, e, n, y, a, c)
  <2>1. config.V > 0
    BY <1>1, <1>2, InterleavedIs
  <2>2. y2 # y => y < Batch1(config)
    BY <1>4
  <2> HIDE DEF a
  <2>3. QED BY <1>2, <1>4, <1>10, <1>11, <2>1, <2>2, GradSkipped
<1>13. AllSteps(fk, n, k, y, n, x2, y, y2)
  BY <1>3, <1>4, <1>11 DEF AllSteps, Steps
<1>14. ops' = [ops EXCEPT ![r] = Calls4(r, "wait", ops[r], fk, n, k, y, n, x2, y, y2)]
  BY <1>1, <1>3, <1>4, <1>8, <1>9 DEF Communicate, Calls4
<1>15. Stepped(r, e, "wait", fk, n, k, y, n, x2, y, y2)
  BY <1>6, <1>12, <1>13, <1>14, Called1
<1>16. QED BY <1>1, <1>4, <1>15, TurnStepped DEF k
\* With overlap the forward pass of a turn,
LEMMA OverlapForwardTensors ==
  ASSUME Inv, TensorInv, NEW r \in Devices(config), OverlapForward(r)
  PROVE  TensorMoved(r)
<1> DEFINE k == place[r].k
           d == dev[r]
           fk == k + NumWarmup(r)
           n == fk + 1
           e == ForwardStepHelper(d, r, fk)
           x2 == SmallerOf(fk + 2, Batch1(config))
           y == k + 1
           y2 == k + 2
           o == ToNext(r, GetModelChunkId(fk, TRUE), e)
           p == NextInputFor(r, k)
           a == Arrived(config, r, Range(ops[r]), "grad", y)
<1>1. /\ Interleaved /\ config.overlap /\ In(r, "steady", 0) /\ WaitedFor(r, {"forward"})
      /\ Becomes(r, e) /\ HalfTurn(r) /\ Communicate(r, o, None, p, -1, "forward")
  BY DEF OverlapForward, K
<1>2. config \in Configs /\ k \in Nat /\ k < TurnsOf(config, r, "steady")
  BY <1>1, HereV
<1>3. /\ n = fk + 1 /\ x2 = SmallerOf(fk + 2, Batch1(config)) /\ y = k + 1 /\ y2 = k + 2
      /\ fk = k + NumWarmup(r) /\ e = ForwardStepHelper(d, r, fk)
      /\ o = ToNext(r, GetModelChunkId(fk, TRUE), e) /\ p = NextInputFor(r, k)
      /\ a = Arrived(config, r, Range(ops[r]), "grad", y)
  OBVIOUS
<1> HIDE DEF k, fk, n, e, x2, y, y2, o, p, a
<1>4. /\ ~config.forwardOnly /\ fk \in Nat /\ fk < Batch1(config) /\ n \in Nat /\ y \in Nat
      /\ CountsIn(config, r, "steady", k, 0, fk, n, k, y)
      /\ CountsIn(config, r, "steady", k, 1, n, x2, k, y)
      /\ Steps(n, x2) /\ (x2 # n => n < Batch1(config))
      /\ NextInputFor(r, k) = ToReceive(config, r, "act", n, x2)
  BY <1>1, <1>2, <1>3, SteadyVIs
<1>5. /\ HereNow(r, "steady", 0, fk, n, k, y) /\ WorkV(config, r, d, fk, k)
      /\ Quiet(Range(ops[r]), "forward")
  BY <1>1, <1>4, HereWork DEF k
<1>6. Settled(config, Range(ops[r]), "act", fk, n)
  BY <1>5 DEF Settled, CallOf
<1>7. Tensed(config, r, d, fk, k, n, a)
  BY <1>3, <1>5, <1>6, InputsHere
<1> HIDE DEF d
<1>8. Tensed(config, r, e, n, k, n, a) /\ o = ToSend(config, r, "act", fk, n)
  <2>1. /\ config \in Configs /\ Interleaved /\ r \in Devices(config) /\ fk \in Nat /\ k \in Nat
        /\ fk < Batch1(config) /\ n = fk + 1 /\ e = ForwardStepHelper(d, r, fk)
        /\ Tensed(config, r, d, fk, k, n, a) /\ WorkV(config, r, d, fk, k)
    BY <1>1, <1>2, <1>3, <1>4, <1>5, <1>7
  <2>2. Tensed(config, r, e, n, k, n, a)
    BY <2>1, HelperForward
  <2>3. SentNext(r, fk, e) = ToSend(config, r, "act", fk, n)
    BY <2>1, HelperForward
  <2>4. QED BY <1>3, <2>2, <2>3 DEF SentNext
<1>9. Tensed(config, r, e, n, k, n + Gains(config, r, "recv", "act", n, x2), a)
  <2>1. config.V > 0
    BY <1>1, <1>2, InterleavedIs
  <2>2. QED BY <1>2, <1>4, <1>8, <2>1, InputSkipped
<1>10. ops' = [ops EXCEPT ![r] = Calls4(r, "forward", ops[r], fk, n, k, y, n, x2, k, y)]
  <2>1. ToSend(config, r, "grad", k, k) = None /\ ToReceive(config, r, "grad", y, y) = -1
    BY DEF ToSend, ToReceive
  <2>2. QED BY <1>1, <1>3, <1>4, <1>8, <2>1 DEF Communicate, Calls4
<1>11. Stepped(r, e, "forward", fk, n, k, y, n, x2, k, y)
  <2>1. Steps(fk, n) /\ "forward" \in Calls /\ CallFor(config, "act", "forward")
    BY <1>1, <1>3 DEF Steps, Calls, CallFor, CallOf
  <2>2. QED BY <1>3, <1>4, <1>5, <1>6, <1>9, <1>10, <2>1, InputCalled
<1>12. QED BY <1>1, <1>4, <1>11, HalfStepped DEF k

\* and the backward pass.
LEMMA OverlapBackwardTensors ==
  ASSUME Inv, TensorInv, NEW r \in Devices(config), OverlapBackward(r)
  PROVE  TensorMoved(r)
<1> DEFINE k == place[r].k
           d == dev[r]
           fk == k + NumWarmup(r)
           n == fk + 1
           e == BackwardStepHelper(d, r, k)
           x2 == SmallerOf(fk + 2, Batch1(config))
           y == k + 1
           y2 == k + 2
           q == NextGradFor(r, k)
           a == Arrived(config, r, Range(ops[r]), "act", x2)
<1>1. /\ Interleaved /\ config.overlap /\ In(r, "steady", 1) /\ WaitedFor(r, {"backward"})
      /\ Becomes(r, e) /\ Turn(r) /\ Communicate(r, None, e.inputGrad, -1, q, "backward")
  BY DEF OverlapBackward, K
<1>2. config \in Configs /\ k \in Nat /\ k < TurnsOf(config, r, "steady")
  BY <1>1, HereV
<1>3. /\ n = fk + 1 /\ x2 = SmallerOf(fk + 2, Batch1(config)) /\ y = k + 1 /\ y2 = k + 2
      /\ fk = k + NumWarmup(r) /\ e = BackwardStepHelper(d, r, k) /\ q = NextGradFor(r, k)
      /\ a = Arrived(config, r, Range(ops[r]), "act", x2)
  OBVIOUS
<1> HIDE DEF k, fk, n, e, x2, y, y2, q, a
<1>4. /\ ~config.forwardOnly /\ n \in Nat /\ y \in Nat
      /\ k < Batch1(config) /\ FarAhead(config, n, k) /\ y < Batch1(config)
      /\ CountsIn(config, r, "steady", k, 1, n, x2, k, y)
      /\ CountsIn(config, r, "steady", k + 1, 0, n, x2, y, y2)
      /\ Steps(n, x2) /\ NextGradFor(r, k) = ToReceive(config, r, "grad", y, y2)
  BY <1>1, <1>2, <1>3, SteadyVIs
<1>5. /\ HereNow(r, "steady", 1, n, x2, k, y) /\ WorkV(config, r, d, n, k)
      /\ Quiet(Range(ops[r]), "backward")
  BY <1>1, <1>4, HereWork DEF k
<1>6. Settled(config, Range(ops[r]), "grad", k, y)
  BY <1>5 DEF Settled, CallOf
<1>7. Tensed(config, r, d, n, k, a, y) /\ Steps(n, a)
  BY <1>3, <1>4, <1>5, <1>6, GradsHere
<1> HIDE DEF d
<1>8. Tensed(config, r, e, n, y, a, y) /\ e.inputGrad = ToSend(config, r, "grad", k, y)
  BY <1>1, <1>2, <1>3, <1>4, <1>5, <1>7, HelperBackward
<1>9. Steps(y, y2) /\ (y2 # y => y < Batch1(config))
  BY <1>2, <1>3, <1>4 DEF Steps
<1>10. Tensed(config, r, e, n, y, a, y + Gains(config, r, "recv", "grad", y, y2))
  <2>1. config.V > 0
    BY <1>1, <1>2, InterleavedIs
  <2>2. QED BY <1>2, <1>4, <1>8, <1>9, <2>1, GradSkipped
<1>11. ops' = [ops EXCEPT ![r] = Calls4(r, "backward", ops[r], n, x2, k, y, n, x2, y, y2)]
  <2>1. ToSend(config, r, "act", n, n) = None /\ ToReceive(config, r, "act", x2, x2) = -1
    BY DEF ToSend, ToReceive
  <2>2. QED BY <1>1, <1>3, <1>4, <1>8, <2>1 DEF Communicate, Calls4
<1>12. Stepped(r, e, "backward", n, x2, k, y, n, x2, y, y2)
  <2>1. Steps(k, y) /\ "backward" \in Calls /\ CallFor(config, "grad", "backward")
    BY <1>1, <1>3 DEF Steps, Calls, CallFor, CallOf
  <2>2. QED BY <1>3, <1>4, <1>5, <1>6, <1>9, <1>10, <1>11, <2>1, GradCalled
<1>13. QED BY <1>1, <1>4, <1>12, TurnStepped DEF k
\* The calls of the warmup with overlap: one for the inputs, and after it one for the first
\* gradient.
LEMMA CalledTwice ==
  ASSUME NEW r \in Devices(config), NEW f, NEW x, NEW z, z = 0, Free1(r, f, x, z, z), config.overlap,
         NEW f2, NEW x2, NEW y2, AllSteps(f, x, z, z, f2, x2, z, y2), f2 \in Nat, x2 \in Nat,
         NEW s, s = ops[r], NEW t1, t1 = Calls4(r, "forward", s, f, x, z, z, f2, x2, z, z),
         NEW t, t = Calls4(r, "backward", t1, f2, x2, z, z, f2, x2, z, y2), NEW e,
         Tensed(config, r, e, f2, z, x + Gains(config, r, "recv", "act", x, x2),
                                     z + Gains(config, r, "recv", "grad", z, y2))
  PROVE  /\ TensorsOK(config, r, e, t, f2, x2, z, y2)
         /\ AllSame(config, r, Range(s), f, x, z, z, Range(t), f2, x2, z, y2)
<1>1. /\ config \in Configs /\ f \in Nat /\ x \in Nat /\ z \in Nat
      /\ DirFree(config, r, Range(s), "act") /\ DirFree(config, r, Range(s), "grad")
      /\ PostedOK(config, r, s, f, x, z, z)
  BY DEF Free1
<1>2. Steps(f, f2) /\ Steps(x, x2) /\ Steps(z, y2) /\ Steps(z, z) /\ Steps(f2, f2) /\ Steps(x2, x2)
  BY DEF AllSteps, Steps
<1>3. Exchange(r, "forward", s, t1, f, x, z, z, f2, x2, z, z)
  <2>1. /\ MayCall(config, r, Range(s), "act", "forward", f, f2, x, x2)
        /\ MayCall(config, r, Range(s), "grad", "forward", z, z, z, z)
    BY <1>1 DEF MayCall, CallFor, CallOf
  <2>2. FreeFor(config, r, Range(s), "forward", f, x, z, z, f2, x2, z, z)
    BY <2>1, MayCallFree
  <2>3. "forward" \in Calls /\ "forward" # "shapes"
    BY DEF Calls
  <2>4. QED BY <1>1, <1>2, <2>2, <2>3 DEF Exchange, Calls4
<1> DEFINE a == x + Gains(config, r, "recv", "act", x, x2)
           c == z + Gains(config, r, "recv", "grad", z, y2)
<1>4. /\ PostedOK(config, r, t1, f2, x2, z, z)
      /\ AllSame(config, r, Range(s), f, x, z, z, Range(t1), f2, x2, z, z)
  BY <1>1, <1>3, CallDone
<1>5. Arrived(config, r, Range(s), "act", x) = x
  BY <1>1, AllArrived
<1>6. Arrived(config, r, Range(t1), "act", x2) = a
  <2>1. Arrived(config, r, Range(t1), "act", x2)
          = Arrived(config, r, Range(s), "act", x) + Gains(config, r, "recv", "act", x, x2)
    BY <1>1, <1>3, CallDone
  <2>2. QED BY <1>5, <2>1
<1>7. DirFree(config, r, Range(t1), "grad")
  BY <1>4, NoGradYet
<1>8. Arrived(config, r, Range(t1), "grad", z) = z
  BY <1>1, <1>7, AllArrived
<1>9. Exchange(r, "backward", t1, t, f2, x2, z, z, f2, x2, z, y2)
  <2>1. /\ MayCall(config, r, Range(t1), "act", "backward", f2, f2, x2, x2)
        /\ MayCall(config, r, Range(t1), "grad", "backward", z, z, z, y2)
    BY <1>7 DEF MayCall, CallFor, CallOf
  <2>2. FreeFor(config, r, Range(t1), "backward", f2, x2, z, z, f2, x2, z, y2)
    BY <2>1, MayCallFree
  <2>3. "backward" \in Calls /\ "backward" # "shapes"
    BY DEF Calls
  <2>4. QED BY <1>1, <1>2, <1>4, <2>2, <2>3 DEF Exchange, Calls4
<1> HIDE DEF a, c
<1>10. Come(config, r, t1, "act", x2, x2) = a /\ Come(config, r, t1, "grad", z, y2) = c
  <2>1. Arrived(config, r, Range(t1), "act", x2) + Gains(config, r, "recv", "act", x2, x2) = a
    <3>1. Gains(config, r, "recv", "act", x2, x2) = 0
      BY DEF Gains, One
    <3>2. a \in Int
      BY <1>1 DEF a, Gains, One
    <3>3. QED BY <1>6, <3>1, <3>2
  <2>2. QED BY <1>8, <2>1 DEF Come, c
<1>11. Tensed(config, r, e, f2, z, Come(config, r, t1, "act", x2, x2),
                                    Come(config, r, t1, "grad", z, y2))
  BY <1>10 DEF a, c
<1>12. /\ TensorsOK(config, r, e, t, f2, x2, z, y2)
       /\ AllSame(config, r, Range(t1), f2, x2, z, z, Range(t), f2, x2, z, y2)
  BY <1>1, <1>9, <1>11, AfterCall DEF Come
<1>13. QED BY <1>4, <1>12, SameTwice

\* The counts of the warmup.
LEMMA WarmupVIs ==
  ASSUME config \in Configs, Interleaved, NEW r \in Devices(config), NEW k \in Nat,
         k < TurnsOf(config, r, "warmup"), NEW x, x = k + 1,
         NEW x2, x2 = SmallerOf(k + 2, Batch1(config)), NEW z, z = 0, NEW y2,
         y2 = One(k = NumWarmup(r) - 1 /\ ~config.forwardOnly /\ ~AllWarmup)
  PROVE  /\ k < Batch1(config) /\ x \in Nat /\ z \in Nat /\ Steps(z, y2) /\ z < Batch1(config)
         /\ CountsIn(config, r, "warmup", k, 0, k, x, z, z)
         /\ CountsIn(config, r, "warmup", k + 1, 0, x, x2, z, y2)
<1> DEFINE w == WarmupOf(config, r)
           B == Batch1(config)
<1>1. /\ w \in Nat /\ w <= B /\ NumWarmup(r) = w /\ B \in Nat \ {0}
      /\ config.V > 0 /\ config.V # 0 /\ (AllWarmup <=> AllAhead(config))
  <2>1. RemainingOf(config, r) \in Nat /\ w \in Nat /\ w + RemainingOf(config, r) = B
        /\ NumWarmup(r) = w /\ config.V > 0 /\ config.V # 0
    BY InterleavedIs
  <2>2. AllWarmup <=> AllAhead(config)
    BY WarmupIs DEF AllWarmup, AllAhead
  <2>3. B \in Nat \ {0}
    BY ConfigType
  <2> HIDE DEF w, B
  <2>4. w <= B
    BY <2>1, <2>3
  <2>5. QED BY <2>1, <2>2, <2>3, <2>4
<1>2. TurnsOf(config, r, "warmup") = w
  BY DEF TurnsOf
<1>3. /\ InputsIn(config, r, "warmup", k, 0) = SmallerOf(k + 1, B)
      /\ InputsIn(config, r, "warmup", k + 1, 0) = SmallerOf((k + 1) + 1, B)
      /\ ForwardsIn(config, r, "warmup", k, 0) = k /\ ForwardsIn(config, r, "warmup", k + 1, 0) = k + 1
      /\ BackwardsIn(config, r, "warmup", k) = 0 /\ BackwardsIn(config, r, "warmup", k + 1) = 0
  BY <1>1 DEF InputsIn, ForwardsIn, BackwardsIn
<1>4. /\ config.forwardOnly => GradsIn(config, r, "warmup", k, 0) = 0
      /\ config.forwardOnly => GradsIn(config, r, "warmup", k + 1, 0) = 0
      /\ ~config.forwardOnly =>
           GradsIn(config, r, "warmup", k, 0) = One(config.V > 0 /\ ~AllAhead(config) /\ k = w)
      /\ ~config.forwardOnly =>
           GradsIn(config, r, "warmup", k + 1, 0) = One(config.V > 0 /\ ~AllAhead(config) /\ k + 1 = w)
  BY DEF GradsIn
<1> HIDE DEF w, B
<1>5. k < w /\ k < B /\ SmallerOf(k + 1, B) = x /\ SmallerOf((k + 1) + 1, B) = x2
  BY <1>1, <1>2 DEF SmallerOf, B
<1>6. GradsIn(config, r, "warmup", k, 0) = 0
  BY <1>4, <1>5 DEF One
<1>7. GradsIn(config, r, "warmup", k + 1, 0) = y2
  BY <1>1, <1>4 DEF One
<1>8. QED BY <1>1, <1>3, <1>5, <1>6, <1>7 DEF CountsIn, Steps, One, B
\* The warmup.
LEMMA InterleavedWarmupTensors ==
  ASSUME Inv, TensorInv, NEW r \in Devices(config), InterleavedWarmup(r)
  PROVE  TensorMoved(r)
<1> DEFINE k == place[r].k
           d == dev[r]
           next == GetModelChunkId(k + 1, TRUE)
           g == ForwardStepHelper(d, r, k)
           recvPrev == ~(OnFirstDevice(r) /\ next = 0) /\ k # Total - 1
           ahead == k = NumWarmup(r) - 1 /\ ~config.forwardOnly /\ ~AllWarmup
           h == IF recvPrev THEN g ELSE NoInput(g, next)
           c == V - 1
           e == IF ahead /\ OnLastDevice(r) THEN NoGrad(h, c) ELSE h
           q == IF recvPrev THEN next ELSE -1
           p == IF ahead /\ ~OnLastDevice(r) THEN V - 1 ELSE -1
           o == ToNext(r, GetModelChunkId(k, TRUE), g)
           s == ops[r]
           x == k + 1
           x2 == SmallerOf(k + 2, Batch1(config))
           z == 0
           y2 == One(ahead)
           t1 == s \o Operations(r, o, None, q, -1, "forward")
           t == t1 \o Operations(r, None, None, -1, p, "backward")
           u == s \o Operations(r, o, None, q, p, "wait")
<1>1. /\ Interleaved /\ In(r, "warmup", 0) /\ WaitedFor(r, {"forward"}) /\ Becomes(r, e) /\ Turn(r)
      /\ IF config.overlap
         THEN ops' = [ops EXCEPT ![r] = @ \o Operations(r, o, None, q, -1, "forward")
                                          \o Operations(r, None, None, -1, p, "backward")]
         ELSE Communicate(r, o, None, q, p, "wait")
  BY DEF InterleavedWarmup, K
<1>2. config \in Configs /\ k \in Nat /\ k < TurnsOf(config, r, "warmup")
  BY <1>1, HereV
<1>3. /\ config.overlap => ops' = [ops EXCEPT ![r] = t]
      /\ ~config.overlap => ops' = [ops EXCEPT ![r] = u]
  BY <1>1 DEF Communicate
<1>3a. next = ForwardChunk(config, x) /\ x # k
  <2>1. next = ForwardChunk(config, x)
    BY <1>2, ChunkIs
  <2>2. k + 1 # k
    BY <1>2
  <2>3. QED BY <2>1, <2>2
<1>3b. q = IF ~(r = 0 /\ next = 0) /\ k # Batch1(config) - 1 THEN next ELSE -1
  <2>1. Total = Batch1(config)
    BY <1>2, WarmupIs
  <2> HIDE DEF k, next
  <2>2. QED BY <2>1 DEF OnFirstDevice
<1>4. /\ x = k + 1 /\ x2 = SmallerOf(k + 2, Batch1(config)) /\ z = 0
      /\ y2 = One(k = NumWarmup(r) - 1 /\ ~config.forwardOnly /\ ~AllWarmup)
      /\ next = ForwardChunk(config, x) /\ g = ForwardStepHelper(d, r, k) /\ x # k
      /\ o = ToNext(r, GetModelChunkId(k, TRUE), g) /\ s = ops[r]
      /\ q = IF ~(r = 0 /\ next = 0) /\ k # Batch1(config) - 1 THEN next ELSE -1
  BY <1>3a, <1>3b
<1>5. (y2 = 1 <=> ahead) /\ (y2 = 0 <=> ~ahead) /\ y2 \in {0, 1}
  BY DEF One
<1>6. p = IF y2 = 1 /\ ~OnLastDevice(r) THEN c ELSE -1
  BY <1>5
<1>7. e = IF y2 = 1 /\ OnLastDevice(r) THEN NoGrad(h, c) ELSE h
  BY <1>5
<1>8. h = IF recvPrev THEN g ELSE NoInput(g, next)
  OBVIOUS
<1>9. q = IF recvPrev THEN next ELSE -1
  OBVIOUS
<1>10. /\ t1 = s \o Operations(r, o, None, q, -1, "forward")
       /\ t = t1 \o Operations(r, None, None, -1, p, "backward")
       /\ u = s \o Operations(r, o, None, q, p, "wait")
  OBVIOUS
<1>11. c = V - 1
  OBVIOUS
<1> HIDE DEF k, next, g, recvPrev, ahead, h, c, e, q, p, o, s, x, x2, z, y2, t1, t, u
<1>12. /\ k < Batch1(config) /\ x \in Nat /\ z \in Nat /\ Steps(z, y2) /\ z < Batch1(config)
       /\ CountsIn(config, r, "warmup", k, 0, k, x, z, z)
       /\ CountsIn(config, r, "warmup", k + 1, 0, x, x2, z, y2)
  BY <1>1, <1>2, <1>4, WarmupVIs
<1>13. /\ HereNow(r, "warmup", 0, k, x, z, z) /\ WorkV(config, r, d, k, z)
       /\ Quiet(Range(ops[r]), "forward")
  BY <1>1, <1>12, HereWork DEF k
<1>14. Free1(r, k, x, z, z)
  <2>1. /\ Settled(config, Range(ops[r]), "act", k, x)
        /\ Settled(config, Range(ops[r]), "grad", z, z)
    BY <1>4, <1>13 DEF Settled, CallOf
  <2>2. QED BY <1>13, <2>1, Free1Is
<1>15. Tensed(config, r, d, k, z, x, z)
  BY <1>14 DEF Free1
<1> HIDE DEF d
<1>16. /\ Tensed(config, r, g, x, z, x, z) /\ WorkV(config, r, g, x, z)
       /\ o = ToSend(config, r, "act", k, x)
  <2>1. /\ config \in Configs /\ Interleaved /\ r \in Devices(config) /\ k \in Nat /\ z \in Nat
        /\ k < Batch1(config) /\ x = k + 1 /\ g = ForwardStepHelper(d, r, k)
        /\ Tensed(config, r, d, k, z, x, z) /\ WorkV(config, r, d, k, z)
    BY <1>1, <1>2, <1>4, <1>12, <1>13, <1>15
  <2>2. Tensed(config, r, g, x, z, x, z) /\ WorkV(config, r, g, x, z)
    BY <2>1, HelperForward
  <2>3. SentNext(r, k, g) = ToSend(config, r, "act", k, x)
    BY <2>1, HelperForward
  <2>4. QED BY <1>4, <2>2, <2>3 DEF SentNext
<1>17. DOMAIN g = Fields
  BY <1>16 DEF WorkV, Work, Counts, Shaped
<1>18. h = IF q = -1 THEN NoInput(g, next) ELSE g
  <2>1. 0 \in ChunksOf(config) /\ ChunkNumber(config) \in Nat
    BY <1>2, ConfigType DEF ChunksOf
  <2>2. next \in ChunksOf(config)
    BY <1>2, <1>4, <1>12, <2>1, ForwardsNext
  <2>3. next # -1
    BY <2>1, <2>2 DEF ChunksOf
  <2>4. QED BY <1>8, <1>9, <2>3
<1>19. config.V > 0 /\ c = BackwardChunk(config, 0)
       /\ (Skips(config, r, "recv", "grad", 0) <=> OnLastDevice(r)) /\ c \in Int /\ c # -1
  <2>1. config.V > 0 /\ c = ChunkNumber(config) - 1 /\ ChunkNumber(config) \in Nat \ {0}
    BY <1>1, <1>2, <1>11, InterleavedIs, ConfigType DEF ChunkNumber
  <2>2. InChunk(0, config.P, ChunkNumber(config)) = 0 /\ BackwardChunk(config, 0) = c
    BY <1>2, <2>1, FirstChunk
  <2>3. Skips(config, r, "recv", "grad", 0) <=> OnLastDevice(r)
    BY <1>2, <2>2, WarmupIs DEF Skips, AtEnd, WithNext, EndChunk, OnLastDevice
  <2>4. QED BY <2>1, <2>2, <2>3
<1>20. /\ InputAsked(config, r, g, h, x, x, x2) /\ q = ToReceive(config, r, "act", x, x2)
       /\ Steps(x, x2) /\ (x2 # x => x < Batch1(config))
  BY <1>2, <1>4, <1>12, <1>17, <1>18, <1>19, InputNext
<1>21. DOMAIN h = Fields
  BY <1>17, <1>18 DEF Fields, NoInput
<1>22. GradAsked(config, r, h, e, z, z, y2) /\ p = ToReceive(config, r, "grad", z, y2)
  <2>1. CASE y2 = 0
    <3>1. y2 = z /\ e = h /\ p = -1
      BY <1>4, <1>6, <1>7, <2>1
    <3>2. QED BY <3>1, NoneAsked DEF ToReceive
  <2>2. CASE y2 = 1 /\ OnLastDevice(r)
    <3>1. y2 # z /\ e = NoGrad(h, c) /\ p = -1
      BY <1>4, <1>6, <1>7, <2>2
    <3>2. GradCame(h, e, c, None)
      BY <1>21, <3>1, NoneComes
    <3>3. Skips(config, r, "recv", "grad", z) /\ c = BackwardChunk(config, z)
      BY <1>4, <1>19, <2>2
    <3>4. QED BY <3>1, <3>2, <3>3 DEF GradAsked, ToReceive
  <2>3. CASE y2 = 1 /\ ~OnLastDevice(r)
    <3>1. y2 # z /\ e = h /\ p = c
      BY <1>4, <1>6, <1>7, <2>3
    <3>2. ~Skips(config, r, "recv", "grad", z) /\ c = BackwardChunk(config, z)
      BY <1>4, <1>19, <2>3
    <3>3. QED BY <3>1, <3>2 DEF GradAsked, ToReceive, ChunkAt, SameRest
  <2>4. QED BY <1>5, <2>1, <2>2, <2>3
<1>23. AllSteps(k, x, z, z, x, x2, z, y2)
  BY <1>4, <1>12, <1>20 DEF AllSteps, Steps
<1>24. CASE ~config.overlap
  <2>1. ToSend(config, r, "grad", z, z) = None
    BY DEF ToSend
  <2>2. u = Calls4(r, "wait", ops[r], k, x, z, z, x, x2, z, y2)
    BY <1>4, <1>10, <1>16, <1>20, <1>22, <2>1 DEF Calls4
  <2>3. ops' = [ops EXCEPT ![r] = Calls4(r, "wait", ops[r], k, x, z, z, x, x2, z, y2)]
    BY <1>3, <1>24, <2>2
  <2>4. y2 # z => z < Batch1(config)
    BY <1>12
  <2>5. Stepped(r, e, "wait", k, x, z, z, x, x2, z, y2)
    BY <1>12, <1>14, <1>16, <1>20, <1>22, <1>23, <2>3, <2>4, SteppedV
  <2>6. QED BY <1>1, <1>12, <2>5, TurnStepped DEF k
<1>25. CASE config.overlap
  <2> DEFINE a == x + Gains(config, r, "recv", "act", x, x2)
             b == z + Gains(config, r, "recv", "grad", z, y2)
  <2>1. x2 \in Nat
    BY <1>12, <1>20 DEF Steps
  <2>2. Tensed(config, r, h, x, z, a, z)
    <3>1. x2 # x => x = x /\ x < Batch1(config)
      BY <1>20
    <3>2. QED BY <1>2, <1>12, <1>16, <1>20, <3>1, InputAskedIs
  <2>3. a \in Nat
    BY <1>12 DEF Gains, One
  <2> HIDE DEF a
  <2>4. Tensed(config, r, e, x, z, a, b)
    <3>1. y2 # z => z = z /\ z < Batch1(config)
      BY <1>12
    <3>2. QED BY <1>2, <1>12, <1>22, <2>2, <2>3, <3>1, GradAskedIs
  <2>5. /\ ToSend(config, r, "grad", z, z) = None /\ ToReceive(config, r, "grad", z, z) = -1
        /\ ToSend(config, r, "act", x, x) = None /\ ToReceive(config, r, "act", x2, x2) = -1
    BY DEF ToSend, ToReceive
  <2>6. /\ t1 = Calls4(r, "forward", s, k, x, z, z, x, x2, z, z)
        /\ t = Calls4(r, "backward", t1, x, x2, z, z, x, x2, z, y2)
    BY <1>10, <1>16, <1>20, <1>22, <2>5 DEF Calls4
  <2>7. Tensed(config, r, e, x, z, x + Gains(config, r, "recv", "act", x, x2),
                                   z + Gains(config, r, "recv", "grad", z, y2))
    BY <2>4 DEF a
  <2>8. /\ TensorsOK(config, r, e, t, x, x2, z, y2)
        /\ AllSame(config, r, Range(s), k, x, z, z, Range(t), x, x2, z, y2)
    BY <1>4, <1>12, <1>14, <1>23, <1>25, <2>1, <2>6, <2>7, CalledTwice
  <2>9. ops' = [ops EXCEPT ![r] = t]
    BY <1>3, <1>25
  <2> DEFINE l == k + 1
  <2>10. /\ k = ForwardsIn(config, r, "warmup", k, 0) /\ x = InputsIn(config, r, "warmup", k, 0)
         /\ z = BackwardsIn(config, r, "warmup", k) /\ z = GradsIn(config, r, "warmup", k, 0)
         /\ x = ForwardsIn(config, r, "warmup", l, 0) /\ x2 = InputsIn(config, r, "warmup", l, 0)
         /\ z = BackwardsIn(config, r, "warmup", l) /\ y2 = GradsIn(config, r, "warmup", l, 0)
    BY <1>12 DEF CountsIn
  <2>11. AllSame(config, r, Range(ops[r]), k, x, z, z, Range(t), x, x2, z, y2)
    BY <1>4, <2>8
  <2>12. k = place[r].k /\ l = place[r].k + 1
    BY DEF k
  <2> HIDE DEF l
  <2>13. QED BY <1>1, <2>8, <2>9, <2>10, <2>11, <2>12, TurnTensors
<1>26. QED BY <1>24, <1>25
\* Every step of a device.
LEMMA StepTensors ==
  ASSUME Inv, TensorInv, NEW r \in Devices(config), Step(r)
  PROVE  TensorMoved(r)
BY PlainTensors, RecvForwardTensors, WarmupForwardTensors, SteadyForwardTensors,
   SteadyBackwardTensors, CooldownRecvTensors, CooldownBackwardTensors, FinishTensors,
   InterleavedFirstTensors, InterleavedWarmupTensors, InterleavedSteadyTensors,
   OverlapForwardTensors, OverlapBackwardTensors, InterleavedFlushTensors,
   InterleavedCooldownTensors DEF Step

----
(***************************************************************************)
(* A transfer: the first operations of the two ends of a link complete.    *)
(***************************************************************************)
LEMMA RemovedIs ==
  ASSUME NEW S, NEW s \in Seq(S), NEW i \in 1 .. Len(s), NEW t, t = RemoveAt(s, i)
  PROVE  /\ t \in Seq(S) /\ Len(t) = Len(s) - 1
         /\ \A k \in 1 .. Len(t) : t[k] = IF k < i THEN s[k] ELSE s[k + 1]
<1> DEFINE a == SubSeq(s, 1, i - 1)
           b == SubSeq(s, i + 1, Len(s))
<1>1. Len(s) \in Nat /\ i \in Nat
  OBVIOUS
<1>2. a \in Seq(S) /\ Len(a) = i - 1 /\ \A k \in 1 .. i - 1 : a[k] = s[k]
  BY <1>1
<1>3. b \in Seq(S) /\ Len(b) = Len(s) - i /\ \A k \in 1 .. Len(s) - i : b[k] = s[i + k]
  BY <1>1
<1>4. t = a \o b
  BY DEF RemoveAt
<1> HIDE DEF a, b
<1>5. t \in Seq(S) /\ Len(t) = Len(a) + Len(b)
  <2>1. a \in Seq(S) /\ b \in Seq(S) /\ t = a \o b
    BY <1>2, <1>3, <1>4
  <2>2. a \o b \in Seq(S)
    BY <2>1
  <2>3. Len(a \o b) = Len(a) + Len(b)
    BY <2>1
  <2>4. QED BY <2>1, <2>2, <2>3
<1>6. Len(t) = Len(s) - 1
  BY <1>1, <1>2, <1>3, <1>5
<1>7. ASSUME NEW k \in 1 .. Len(t) PROVE t[k] = IF k < i THEN s[k] ELSE s[k + 1]
  <2>1. CASE k < i
    <3>1. t[k] = a[k]
      BY <1>1, <1>2, <1>3, <1>4, <1>6, <2>1
    <3>2. QED BY <1>1, <1>2, <1>6, <2>1, <3>1
  <2>2. CASE ~(k < i)
    <3>1. t[k] = b[k - Len(a)]
      BY <1>1, <1>2, <1>3, <1>4, <1>6, <2>2
    <3>2. k - Len(a) \in 1 .. Len(s) - i /\ i + (k - Len(a)) = k + 1
      BY <1>1, <1>2, <1>6, <2>2
    <3>3. QED BY <1>3, <2>2, <3>1, <3>2
  <2>3. QED BY <2>1, <2>2
<1>8. QED BY <1>5, <1>6, <1>7

LEMMA OthersStay ==
  ASSUME NEW S, NEW s \in Seq(S), Ordered(s), NEW i \in 1 .. Len(s), NEW t, t = RemoveAt(s, i)
  PROVE  t \in Seq(S) /\ Ordered(t) /\ Range(t) = Range(s) \ {s[i]}
<1>1. /\ t \in Seq(S) /\ Len(t) = Len(s) - 1 /\ Len(s) \in Nat
      /\ \A k \in 1 .. Len(t) : t[k] = IF k < i THEN s[k] ELSE s[k + 1]
  BY RemovedIs
<1>2. /\ \A k \in 1 .. Len(t) : k < i => k \in 1 .. Len(s)
      /\ \A k \in 1 .. Len(t) : ~(k < i) => k + 1 \in 1 .. Len(s)
  BY <1>1
<1>3. Ordered(t)
  <2>1. SUFFICES ASSUME NEW k \in 1 .. Len(t), NEW l \in 1 .. Len(t), k < l
                 PROVE  Before(t[k], t[l])
    BY <1>1 DEF Ordered
  <2> DEFINE u == IF k < i THEN k ELSE k + 1
             v == IF l < i THEN l ELSE l + 1
  <2>2. u \in 1 .. Len(s) /\ v \in 1 .. Len(s) /\ u < v
    BY <1>1, <1>2, <2>1
  <2>3. t[k] = s[u] /\ t[l] = s[v]
    BY <1>1
  <2>4. DOMAIN s = 1 .. Len(s)
    OBVIOUS
  <2> HIDE DEF u, v
  <2>5. QED BY <2>2, <2>3, <2>4 DEF Ordered
<1>4. \A k, l \in 1 .. Len(s) : k # l => s[k] # s[l]
  <2>1. SUFFICES ASSUME NEW k \in 1 .. Len(s), NEW l \in 1 .. Len(s), k < l, s[k] = s[l]
                 PROVE  FALSE
    <3>1. \A k, l \in 1 .. Len(s) : k # l => k < l \/ l < k
      BY <1>1
    <3>2. QED BY <3>1
  <2>2. Before(s[k], s[l])
    BY <2>1 DEF Ordered
  <2>3. QED BY <2>1, <2>2 DEF Before
<1>5. Range(t) = Range(s) \ {s[i]}
  <2>1. Range(t) = {t[k] : k \in 1 .. Len(t)} /\ Range(s) = {s[k] : k \in 1 .. Len(s)}
    BY <1>1 DEF Range
  <2>2. ASSUME NEW k \in 1 .. Len(t) PROVE t[k] \in Range(s) \ {s[i]}
    <3> DEFINE u == IF k < i THEN k ELSE k + 1
    <3>1. u \in 1 .. Len(s) /\ u # i
      BY <1>1, <1>2
    <3>2. t[k] = s[u]
      BY <1>1
    <3> HIDE DEF u
    <3>3. QED BY <1>4, <2>1, <3>1, <3>2
  <2>3. ASSUME NEW l \in 1 .. Len(s), s[l] # s[i] PROVE s[l] \in Range(t)
    <3> DEFINE u == IF l < i THEN l ELSE l - 1
    <3>1. u \in 1 .. Len(t) /\ (IF u < i THEN u ELSE u + 1) = l
      BY <1>1, <2>3
    <3> HIDE DEF u
    <3>2. t[u] = s[l]
      BY <1>1, <3>1
    <3>3. QED BY <2>1, <3>1, <3>2
  <2>4. QED BY <2>1, <2>2, <2>3
<1>6. QED BY <1>1, <1>3, <1>5
\* Operation i of s is the first one of a port.
FirstOf(cf, r, s, i, side, dir) ==
  /\ i \in 1 .. Len(s) /\ OfPort(cf, r, s[i], side, dir)
  /\ \A j \in 1 .. i - 1 : ~(s[j].op = s[i].op /\ s[j].peer = s[i].peer)

\* Behind a tensor there is nothing, behind a shape its tensor.
LEMMA BehindFirst ==
  ASSUME NEW cf, NEW r, NEW s \in Seq(AnyOp), Ordered(s), NEW side, NEW dir, NEW i,
         FirstOf(cf, r, s, i, side, dir), NEW z \in Range(s), OfPort(cf, r, z, side, dir),
         z # s[i]
  PROVE  s[i].call = "shapes" /\ z.call # "shapes"
<1>1. PICK l \in 1 .. Len(s) : z = s[l]
  BY DEF Range
<1>2. /\ i \in 1 .. Len(s) /\ s[i].op = side /\ s[i].peer = Peer(cf, r, side, dir)
      /\ \A j \in 1 .. i - 1 : ~(s[j].op = s[i].op /\ s[j].peer = s[i].peer)
      /\ z.op = side /\ z.peer = Peer(cf, r, side, dir) /\ l # i /\ Len(s) \in Nat
  BY <1>1 DEF FirstOf, OfPort
<1>3. ~(l < i)
  <2>1. l < i => l \in 1 .. i - 1
    BY <1>2
  <2>2. QED BY <1>1, <1>2, <2>1
<1>4. i < l
  BY <1>2, <1>3
<1>5. Before(s[i], s[l])
  BY <1>2, <1>4 DEF Ordered
<1>6. QED BY <1>1, <1>2, <1>5 DEF Before

\* What completing the first operation of a port does: for the port,
TookShape(cf, r, s, t, side, dir) ==
  /\ cf.variable
  /\ Waits(cf, r, Range(s), side, dir) /\ WaitsShape(cf, r, Range(s), side, dir)
  /\ Waits(cf, r, Range(t), side, dir) /\ ~WaitsShape(cf, r, Range(t), side, dir)
TookTensor(cf, r, s, t, side, dir) ==
  /\ Waits(cf, r, Range(s), side, dir) /\ ~WaitsShape(cf, r, Range(s), side, dir)
  /\ ~Waits(cf, r, Range(t), side, dir) /\ ~WaitsShape(cf, r, Range(t), side, dir)

LEMMA PortTaken ==
  ASSUME NEW cf, NEW r, NEW s \in Seq(AnyOp), Ordered(s), NEW side, NEW dir, NEW i, NEW n,
         FirstOf(cf, r, s, i, side, dir), NEW o, o = s[i], NEW t, t = RemoveAt(s, i),
         PortOK(cf, r, Range(s), side, dir, n)
  PROVE  /\ PortOK(cf, r, Range(t), side, dir, n)
         /\ o.call = "shapes" => TookShape(cf, r, s, t, side, dir)
         /\ o.call # "shapes" => TensorOp(cf, r, o, side, dir, n) /\ TookTensor(cf, r, s, t, side, dir)
<1> DEFINE S == Range(s)
           T == Range(t)
<1>1. i \in 1 .. Len(s) /\ OfPort(cf, r, o, side, dir)
  BY DEF FirstOf
<1>2. T = S \ {o}
  BY <1>1, OthersStay
<1>3. o \in S
  BY <1>1 DEF Range
<1>4. \A z \in S : OfPort(cf, r, z, side, dir) /\ z # o => o.call = "shapes" /\ z.call # "shapes"
  BY BehindFirst
<1>5. PortOK(cf, r, S, side, dir, n)
  OBVIOUS
<1> HIDE DEF S, T
<1>6. CASE o.call = "shapes"
  <2>1. cf.variable /\ Waits(cf, r, S, side, dir)
    BY <1>1, <1>3, <1>5, <1>6 DEF PortOK
  <2>2. WaitsShape(cf, r, S, side, dir)
    BY <1>1, <1>3, <1>6 DEF WaitsShape
  <2>3. Waits(cf, r, T, side, dir)
    BY <1>2, <1>6, <2>1 DEF Waits
  <2>4. ~WaitsShape(cf, r, T, side, dir)
    BY <1>2, <1>4 DEF WaitsShape
  <2>5. PortOK(cf, r, T, side, dir, n)
    BY <1>2, <1>4, <1>5 DEF PortOK
  <2>6. QED BY <1>6, <2>1, <2>2, <2>3, <2>4, <2>5 DEF S, T, TookShape
<1>7. CASE o.call # "shapes"
  <2>1. \A z \in T : ~OfPort(cf, r, z, side, dir)
    BY <1>2, <1>4, <1>7
  <2>2. \A z \in S : OfPort(cf, r, z, side, dir) => z = o
    BY <1>4, <1>7
  <2>3. TensorOp(cf, r, o, side, dir, n)
    BY <1>1, <1>3, <1>5, <1>7 DEF PortOK
  <2>4. Waits(cf, r, S, side, dir) /\ ~WaitsShape(cf, r, S, side, dir)
    BY <1>1, <1>3, <1>7, <2>2 DEF Waits, WaitsShape
  <2>5. ~Waits(cf, r, T, side, dir) /\ ~WaitsShape(cf, r, T, side, dir)
    BY <2>1 DEF Waits, WaitsShape
  <2>6. PortOK(cf, r, T, side, dir, n)
    BY <2>1 DEF PortOK
  <2>7. QED BY <1>7, <2>3, <2>4, <2>5, <2>6 DEF S, T, TookTensor
<1>8. QED BY <1>6, <1>7

\* and for another one.
LEMMA PortKept ==
  ASSUME NEW cf, NEW r, NEW S, NEW o, NEW T, T = S \ {o}, NEW side, NEW dir, NEW n,
         ~OfPort(cf, r, o, side, dir)
  PROVE  /\ PortOK(cf, r, S, side, dir, n) => PortOK(cf, r, T, side, dir, n)
         /\ Waits(cf, r, T, side, dir) <=> Waits(cf, r, S, side, dir)
         /\ WaitsShape(cf, r, T, side, dir) <=> WaitsShape(cf, r, S, side, dir)
<1>1. \A z : OfPort(cf, r, z, side, dir) => (z \in T <=> z \in S)
  OBVIOUS
<1>2. Waits(cf, r, T, side, dir) <=> Waits(cf, r, S, side, dir)
  BY <1>1 DEF Waits
<1>3. WaitsShape(cf, r, T, side, dir) <=> WaitsShape(cf, r, S, side, dir)
  BY <1>1 DEF WaitsShape
<1>4. PortOK(cf, r, S, side, dir, n) => PortOK(cf, r, T, side, dir, n)
  BY <1>1, <1>2 DEF PortOK
<1>5. QED BY <1>2, <1>3, <1>4

\* An operation belongs to one port.
LEMMA OnePort ==
  ASSUME NEW cf \in Configs, NEW r \in Devices(cf), NEW o, NEW side \in Sides, NEW dir \in Dirs,
         NEW sideB \in Sides, NEW dirB \in Dirs, OfPort(cf, r, o, side, dir),
         OfPort(cf, r, o, sideB, dirB)
  PROVE  side = sideB /\ dir = dirB
<1>1. side = sideB /\ Peer(cf, r, side, dir) = Peer(cf, r, side, dirB)
      /\ Live(cf, r, side, dir) /\ Live(cf, r, side, dirB)
  BY DEF OfPort
<1>2. QED BY <1>1, PortsApart

LEMMA Taken ==
  ASSUME NEW cf \in Configs, NEW r \in Devices(cf), NEW s, NEW f, NEW x, NEW b, NEW y,
         PostedOK(cf, r, s, f, x, b, y), NEW side \in Sides, NEW dir \in Dirs, NEW i,
         FirstOf(cf, r, s, i, side, dir), NEW t, t = RemoveAt(s, i)
  PROVE  /\ PostedOK(cf, r, t, f, x, b, y)
         /\ \A sideB \in Sides, dirB \in Dirs : sideB # side \/ dirB # dir =>
              /\ Waits(cf, r, Range(t), sideB, dirB) <=> Waits(cf, r, Range(s), sideB, dirB)
              /\ WaitsShape(cf, r, Range(t), sideB, dirB) <=> WaitsShape(cf, r, Range(s), sideB, dirB)
<1> DEFINE S == Range(s)
           T == Range(t)
           o == s[i]
<1>1. /\ s \in Seq(AnyOp) /\ Ordered(s) /\ Ported(cf, r, S)
      /\ \A sideB \in Sides, dirB \in Dirs :
           PortOK(cf, r, S, sideB, dirB, Pick(sideB, dirB, f, x, b, y))
  BY PostedPorts
<1>2. i \in 1 .. Len(s) /\ OfPort(cf, r, o, side, dir)
  BY DEF FirstOf
<1>3. t \in Seq(AnyOp) /\ Ordered(t) /\ T = S \ {o}
  BY <1>1, <1>2, OthersStay
<1>4. \A sideB \in Sides, dirB \in Dirs : sideB # side \/ dirB # dir => ~OfPort(cf, r, o, sideB, dirB)
  BY <1>2, OnePort
<1>5. PortOK(cf, r, T, side, dir, Pick(side, dir, f, x, b, y))
  BY <1>1, PortTaken
<1> HIDE DEF S, T, o
<1>6. \A sideB \in Sides, dirB \in Dirs : sideB # side \/ dirB # dir =>
        /\ Waits(cf, r, T, sideB, dirB) <=> Waits(cf, r, S, sideB, dirB)
        /\ WaitsShape(cf, r, T, sideB, dirB) <=> WaitsShape(cf, r, S, sideB, dirB)
        /\ PortOK(cf, r, T, sideB, dirB, Pick(sideB, dirB, f, x, b, y))
  BY <1>1, <1>3, <1>4, PortKept
<1>7. \A sideB \in Sides, dirB \in Dirs : PortOK(cf, r, T, sideB, dirB, Pick(sideB, dirB, f, x, b, y))
  BY <1>5, <1>6
<1>8. Ported(cf, r, T)
  BY <1>1, <1>3 DEF Ported
<1>9. PostedOK(cf, r, t, f, x, b, y)
  BY <1>3, <1>7, <1>8, PostedPorts DEF T
<1>10. QED BY <1>6, <1>9 DEF S, T
\* No more is asked for than there are passes.
LEMMA CountsBounded ==
  ASSUME NEW cf \in Configs, NEW r \in Devices(cf), NEW loop, NEW k \in Nat, NEW half \in {0, 1},
         k < TurnsOf(cf, r, loop), loop = "plain" => cf.V = 0
  PROVE  /\ InputsIn(cf, r, loop, k, half) <= Batch1(cf)
         /\ GradsIn(cf, r, loop, k, half) <= Batch1(cf)
<1> DEFINE w == WarmupOf(cf, r)
           m == RemainingOf(cf, r)
           n == Batch1(cf)
<1>1. w \in Nat /\ m \in Nat /\ n \in Nat /\ w + m = n /\ n > 0
  BY WarmupType, ConfigType
<1>2. loop = "plain" => k < n
  <2>1. loop = "plain" => n = cf.M /\ k < cf.M
    BY ConfigType DEF TurnsOf, Batch1, ChunkNumber
  <2> HIDE DEF n
  <2>2. QED BY <2>1
<1>3. /\ loop = "warmup" => k < w
      /\ loop = "first" => k = 0
      /\ loop = "steady" => k < m
      /\ loop = "flush" => k = 0 /\ AllAhead(cf)
      /\ loop = "cooldown" => k < w
  BY <1>1 DEF TurnsOf, AllAhead
<1> HIDE DEF w, m, n
<1>4. \A a, c \in Nat : SmallerOf(a, c) <= c
  BY DEF SmallerOf
<1> DEFINE s1 == k + 1
           s2 == w + (k + (IF cf.V = 0 THEN 1 ELSE half + 1))
           s3 == m + (k + 1)
<1>5. s1 \in Nat /\ s2 \in Nat /\ s3 \in Nat
  BY <1>1
<1> HIDE DEF s1, s2, s3
<1>6. SmallerOf(s1, n) <= n /\ SmallerOf(s2, n) <= n /\ SmallerOf(s3, n) <= n
  BY <1>1, <1>4, <1>5
<1>7. InputsIn(cf, r, loop, k, half) <= n
  <2> DEFINE a == SmallerOf(s1, n)
             c == SmallerOf(s2, n)
  <2>1. InputsIn(cf, r, loop, k, half) =
          IF loop = "plain" THEN k
          ELSE IF loop = "first" THEN (IF cf.V = 0 THEN w + k ELSE k)
          ELSE IF loop = "warmup" THEN (IF cf.V = 0 THEN k + half ELSE a)
          ELSE IF loop = "steady" THEN c ELSE n
    BY DEF InputsIn, w, n, s1, s2
  <2>2. a <= n /\ c <= n
    BY <1>6
  <2> HIDE DEF a, c
  <2>3. QED BY <1>1, <1>2, <1>3, <2>1, <2>2
<1>8. GradsIn(cf, r, loop, k, half) <= n
  <2> DEFINE a == One(cf.V > 0 /\ ~AllAhead(cf) /\ k = w)
             c == IF cf.V = 0 THEN half ELSE One(~AllAhead(cf))
             e == SmallerOf(s3, n)
  <2>1. GradsIn(cf, r, loop, k, half) =
          IF cf.forwardOnly \/ loop = "first" THEN 0
          ELSE IF loop = "plain" THEN k
          ELSE IF loop = "warmup" THEN a
          ELSE IF loop = "steady" THEN k + c
          ELSE IF loop = "flush" THEN (IF AllAhead(cf) THEN k ELSE m + 1)
          ELSE IF loop = "cooldown" THEN (IF cf.V = 0 THEN m + (k + half) ELSE e) ELSE n
    BY DEF GradsIn, w, m, n, s3
  <2>2. a \in 0 .. 1 /\ c \in 0 .. 1 /\ e <= n
    BY <1>6 DEF One
  <2> HIDE DEF a, c, e
  <2>3. QED BY <1>1, <1>2, <1>3, <2>1, <2>2
<1>9. QED BY <1>7, <1>8 DEF n

\* In every place of the program.
LEMMA PlaceBounded ==
  ASSUME NEW cf \in Configs, NEW r \in Devices(cf), NEW p, PlaceOK(cf, r, p)
  PROVE  /\ InputsAt(cf, r, p) \in Nat /\ InputsAt(cf, r, p) <= Batch1(cf)
         /\ GradsAt(cf, r, p) \in Nat /\ GradsAt(cf, r, p) <= Batch1(cf)
<1> DEFINE loop == LoopAt(cf, p)
<1>1. p.k \in Nat /\ p.half \in {0, 1} /\ p.k < TurnsOf(cf, r, loop) /\ p.loop \in DOMAIN LoopsOf(cf)
  BY DEF PlaceOK
<1>2. loop = "plain" => cf.V = 0
  <2>1. p.loop \in 1 .. Len(LoopsOf(cf))
    BY <1>1, LoopsAre
  <2>2. cf.P = 1 => cf.V = 0
    BY LoopsAre
  <2>4. cf.P # 1 /\ cf.V # 0 => loop # "plain"
    BY <2>1, LoopsAre DEF LoopAt
  <2>5. QED BY <2>2, <2>4
<1> HIDE DEF loop
<1>3. /\ InputsIn(cf, r, loop, p.k, p.half) \in Nat /\ GradsIn(cf, r, loop, p.k, p.half) \in Nat
      /\ InputsIn(cf, r, loop, p.k, p.half) <= Batch1(cf)
      /\ GradsIn(cf, r, loop, p.k, p.half) <= Batch1(cf)
  BY <1>1, <1>2, CountsBounded, CountsAreNumbers
<1>4. QED BY <1>3 DEF InputsAt, GradsAt, loop
\* Lists that wait for the same on a side.
PortSame(cf, r, s, t, side, dir) ==
  /\ Waits(cf, r, Range(t), side, dir) <=> Waits(cf, r, Range(s), side, dir)
  /\ WaitsShape(cf, r, Range(t), side, dir) <=> WaitsShape(cf, r, Range(s), side, dir)

LEMMA LinkKept ==
  ASSUME NEW cf, NEW q, NEW r, NEW s, NEW t, NEW a, NEW c, NEW p, NEW u, NEW dir,
         LinkAgrees(cf, q, r, s, t, p, u, dir), PortSame(cf, q, s, a, "send", dir),
         PortSame(cf, r, t, c, "recv", dir)
  PROVE  LinkAgrees(cf, q, r, a, c, p, u, dir)
<1>1. /\ One(Waits(cf, q, Range(a), "send", dir)) = One(Waits(cf, q, Range(s), "send", dir))
      /\ One(WaitsShape(cf, q, Range(a), "send", dir)) = One(WaitsShape(cf, q, Range(s), "send", dir))
      /\ One(Waits(cf, r, Range(c), "recv", dir)) = One(Waits(cf, r, Range(t), "recv", dir))
      /\ One(WaitsShape(cf, r, Range(c), "recv", dir)) = One(WaitsShape(cf, r, Range(t), "recv", dir))
  BY DEF PortSame, One
<1>2. QED BY <1>1 DEF LinkAgrees, Through, ShapesThrough

\* A link whose ends agree: both give a shape or both give a tensor, and agree.
LEMMA LinkTaken ==
  ASSUME NEW cf \in Configs, NEW q, NEW r, NEW dir, NEW s, NEW t, NEW a, NEW c, NEW p, NEW u,
         NEW n, n = CountAt(cf, q, p, "send", dir), NEW m, m = CountAt(cf, r, u, "recv", dir),
         Transfers(cf, q, "send", dir, n) \in Int, Transfers(cf, r, "recv", dir, m) \in Int,
         LinkAgrees(cf, q, r, s, t, p, u, dir),
         TookShape(cf, q, s, a, "send", dir) \/ TookTensor(cf, q, s, a, "send", dir),
         TookShape(cf, r, t, c, "recv", dir) \/ TookTensor(cf, r, t, c, "recv", dir)
  PROVE  /\ LinkAgrees(cf, q, r, a, c, p, u, dir)
         /\ \/ TookShape(cf, q, s, a, "send", dir) /\ TookShape(cf, r, t, c, "recv", dir)
            \/ /\ TookTensor(cf, q, s, a, "send", dir) /\ TookTensor(cf, r, t, c, "recv", dir)
               /\ Transfers(cf, q, "send", dir, n) = Transfers(cf, r, "recv", dir, m)
<1> DEFINE A == Transfers(cf, q, "send", dir, n)
           B == Transfers(cf, r, "recv", dir, m)
           w1 == Waits(cf, q, Range(s), "send", dir)
           w2 == Waits(cf, r, Range(t), "recv", dir)
           z1 == WaitsShape(cf, q, Range(s), "send", dir)
           z2 == WaitsShape(cf, r, Range(t), "recv", dir)
<1>1. A - One(w1) = B - One(w2) /\ (cf.variable => A - One(z1) = B - One(z2)) /\ A \in Int /\ B \in Int
  BY DEF LinkAgrees, Through, ShapesThrough
<1>2. w1 /\ w2
  BY DEF TookShape, TookTensor
<1> HIDE DEF A, B, w1, w2, z1, z2
<1>3. A = B
  BY <1>1, <1>2 DEF One
<1>4. cf.variable => (z1 <=> z2)
  BY <1>1, <1>3 DEF One
<1>5. CASE TookShape(cf, q, s, a, "send", dir) /\ TookTensor(cf, r, t, c, "recv", dir)
  <2>1. cf.variable /\ z1 /\ ~z2
    BY <1>5 DEF TookShape, TookTensor, z1, z2
  <2>2. QED BY <1>4, <2>1
<1>6. CASE TookTensor(cf, q, s, a, "send", dir) /\ TookShape(cf, r, t, c, "recv", dir)
  <2>1. cf.variable /\ ~z1 /\ z2
    BY <1>6 DEF TookShape, TookTensor, z1, z2
  <2>2. QED BY <1>4, <2>1
<1>7. CASE TookShape(cf, q, s, a, "send", dir) /\ TookShape(cf, r, t, c, "recv", dir)
  <2>1. Through(cf, q, Range(a), "send", dir, n) = A - 1 /\ Through(cf, r, Range(c), "recv", dir, m) = B - 1
    BY <1>7 DEF TookShape, Through, One, A, B
  <2>2. ShapesThrough(cf, q, Range(a), "send", dir, n) = A - 0
        /\ ShapesThrough(cf, r, Range(c), "recv", dir, m) = B - 0
    BY <1>7 DEF TookShape, ShapesThrough, One, A, B
  <2>3. QED BY <1>3, <1>7, <2>1, <2>2 DEF LinkAgrees
<1>8. CASE TookTensor(cf, q, s, a, "send", dir) /\ TookTensor(cf, r, t, c, "recv", dir)
  <2>1. Through(cf, q, Range(a), "send", dir, n) = A - 0 /\ Through(cf, r, Range(c), "recv", dir, m) = B - 0
    BY <1>8 DEF TookTensor, Through, One, A, B
  <2>2. ShapesThrough(cf, q, Range(a), "send", dir, n) = A - 0
        /\ ShapesThrough(cf, r, Range(c), "recv", dir, m) = B - 0
    BY <1>8 DEF TookTensor, ShapesThrough, One, A, B
  <2>3. LinkAgrees(cf, q, r, a, c, p, u, dir)
    BY <1>3, <2>1, <2>2 DEF LinkAgrees
  <2>4. QED BY <1>3, <1>8, <2>3 DEF A, B
<1>9. QED BY <1>5, <1>6, <1>7, <1>8

\* The tensor that comes is the one of the pass that asked for it.
LEMMA TensorComes ==
  ASSUME NEW cf \in Configs, NEW q \in Devices(cf), NEW dir \in Dirs,
         Live(cf, q, "send", dir), NEW r, r = Peer(cf, q, "send", dir),
         NEW n \in Nat, NEW m \in Nat, NEW o, NEW e,
         TensorOp(cf, q, o, "send", dir, n), TensorOp(cf, r, e, "recv", dir, m),
         Transfers(cf, q, "send", dir, n) = Transfers(cf, r, "recv", dir, m)
  PROVE  \E l \in Nat : /\ m = l + 1 /\ e.chunk = ChunkAt(cf, dir, l)
                        /\ e.box = IF dir = "act" THEN "inputs" ELSE "grads"
                        /\ o.tensor = Needed(cf, r, dir, ChunkAt(cf, dir, l), Number(cf, l))
<1> DEFINE k == n - 1
           l == m - 1
<1>1. k \in Nat /\ l \in Nat /\ n = k + 1 /\ m = l + 1
  BY DEF TensorOp
<1>2. /\ ~Skips(cf, q, "send", dir, k) /\ ~Skips(cf, r, "recv", dir, l)
      /\ o = Posted(cf, q, "send", dir, k, o.call) /\ e = Posted(cf, r, "recv", dir, l, e.call)
  BY DEF TensorOp
<1> HIDE DEF k, l
<1>3. "send" \in Sides /\ "recv" \in Sides
  BY DEF Sides
<1>4. /\ Transfers(cf, q, "send", dir, k) \in Int
      /\ Transfers(cf, q, "send", dir, k + 1) = Transfers(cf, q, "send", dir, k) + One(~Skips(cf, q, "send", dir, k))
  BY <1>1, <1>3, TransfersNext
<1>5. /\ Transfers(cf, r, "recv", dir, l) \in Int
      /\ Transfers(cf, r, "recv", dir, l + 1) = Transfers(cf, r, "recv", dir, l) + One(~Skips(cf, r, "recv", dir, l))
  BY <1>1, <1>3, TransfersNext
<1>6. One(~Skips(cf, q, "send", dir, k)) = 1 /\ One(~Skips(cf, r, "recv", dir, l)) = 1
  BY <1>2 DEF One
<1>7. Transfers(cf, q, "send", dir, k + 1) = Transfers(cf, r, "recv", dir, l + 1)
  BY <1>1
<1>8. Transfers(cf, q, "send", dir, k) = Transfers(cf, r, "recv", dir, l)
  BY <1>4, <1>5, <1>6, <1>7
<1>9. Made(cf, q, dir, ChunkAt(cf, dir, k), Number(cf, k))
        = Needed(cf, r, dir, ChunkAt(cf, dir, l), Number(cf, l))
  BY <1>1, <1>2, <1>8, LinkTensor
<1>10. o.tensor = Made(cf, q, dir, ChunkAt(cf, dir, k), Number(cf, k))
  BY <1>2 DEF Posted
<1>11. /\ e.chunk = ChunkAt(cf, dir, l)
       /\ e.box = IF dir = "act" THEN "inputs" ELSE "grads"
  BY <1>2 DEF Posted
<1>12. QED BY <1>1, <1>9, <1>10, <1>11
\* What a delivery changes of a device,
LEMMA DeliverIs ==
  ASSUME NEW d, DOMAIN d = Fields, NEW o, NEW t
  PROVE  /\ o.box = "inputs" => InputCame(d, Deliver(d, o, t), o.chunk, t)
         /\ o.box = "grads" => GradCame(d, Deliver(d, o, t), o.chunk, t)
         /\ o.box = "shape" => Deliver(d, o, t) = d
<1> DEFINE e == Deliver(d, o, t)
<1>1. CASE o.box = "inputs"
  <2>1. e = [d EXCEPT !.inputs[o.chunk] = Append(@, t)]
    BY <1>1 DEF Deliver
  <2> HIDE DEF e
  <2>2. InputCame(d, e, o.chunk, t)
    BY <2>1 DEF Fields, InputCame, SameRest
  <2>3. QED BY <1>1, <2>2 DEF e
<1>2. CASE o.box = "grads"
  <2>1. e = [d EXCEPT !.grads[o.chunk] = Append(@, t)]
    BY <1>2 DEF Deliver
  <2> HIDE DEF e
  <2>2. GradCame(d, e, o.chunk, t)
    BY <2>1 DEF Fields, GradCame, SameRest
  <2>3. QED BY <1>2, <2>2 DEF e
<1>3. CASE o.box = "shape"
  BY <1>3 DEF Deliver
<1>4. QED BY <1>1, <1>2, <1>3

\* Other operations than those of a port stay.
OnlyPort(cf, r, s, t, side, dir) ==
  \A sideB \in Sides, dirB \in Dirs : sideB # side \/ dirB # dir => PortSame(cf, r, s, t, sideB, dirB)

\* The receiver, when a tensor arrives,
LEMMA TensorDelivered ==
  ASSUME NEW cf \in Configs, NEW r \in Devices(cf), NEW d, DOMAIN d = Fields, NEW dir \in Dirs,
         NEW s, NEW t, NEW f \in Nat, NEW x \in Nat, NEW b \in Nat, NEW y \in Nat,
         x <= Batch1(cf), y <= Batch1(cf), TensorsOK(cf, r, d, s, f, x, b, y),
         PostedOK(cf, r, t, f, x, b, y), TookTensor(cf, r, s, t, "recv", dir),
         OnlyPort(cf, r, s, t, "recv", dir), NEW o, NEW z,
         NEW l \in Nat, Pick("recv", dir, f, x, b, y) = l + 1, o.chunk = ChunkAt(cf, dir, l),
         o.box = IF dir = "act" THEN "inputs" ELSE "grads",
         z = Needed(cf, r, dir, ChunkAt(cf, dir, l), Number(cf, l))
  PROVE  TensorsOK(cf, r, Deliver(d, o, z), t, f, x, b, y)
<1> DEFINE e == Deliver(d, o, z)
<1>1. "recv" \in Sides /\ "act" \in Dirs /\ "grad" \in Dirs
  BY DEF Sides, Dirs
<1>2. Tensed(cf, r, d, f, b, Arrived(cf, r, Range(s), "act", x), Arrived(cf, r, Range(s), "grad", y))
  BY DEF TensorsOK
<1>3. CASE dir = "act"
  <2>1. x = l + 1
    BY <1>3 DEF Pick
  <2>2. Arrived(cf, r, Range(s), "act", x) = l /\ Arrived(cf, r, Range(t), "act", x) = l + 1
    BY <1>3, <2>1 DEF Arrived, TookTensor, One
  <2>3. PortSame(cf, r, s, t, "recv", "grad")
    BY <1>1, <1>3 DEF OnlyPort
  <2>4. Arrived(cf, r, Range(t), "grad", y) = Arrived(cf, r, Range(s), "grad", y)
    BY <2>3 DEF PortSame, Arrived, One
  <2>5. Tensed(cf, r, d, f, b, l, Arrived(cf, r, Range(s), "grad", y))
    BY <1>2, <2>2
  <2>6. InputCame(d, e, o.chunk, z)
    BY <1>3, DeliverIs
  <2>7. o.chunk = ForwardChunk(cf, l) /\ z = Needed(cf, r, "act", o.chunk, Number(cf, l))
    BY <1>3 DEF ChunkAt
  <2>8. l < Batch1(cf)
    <3>1. Batch1(cf) \in Nat
      BY ConfigType
    <3>2. QED BY <2>1, <3>1
  <2> DEFINE v == Arrived(cf, r, Range(s), "grad", y)
             c == o.chunk
  <2>9. /\ Tensed(cf, r, d, f, b, l, v) /\ c = ForwardChunk(cf, l)
        /\ z = Needed(cf, r, "act", c, Number(cf, l)) /\ InputCame(d, e, c, z)
    BY <2>5, <2>6, <2>7
  <2> HIDE DEF v, c, e
  <2>10. Tensed(cf, r, e, f, b, l + 1, v)
    BY <2>8, <2>9, InputArrives
  <2>11. QED BY <2>2, <2>4, <2>10 DEF TensorsOK, v, e
<1>4. CASE dir = "grad"
  <2>1. y = l + 1
    BY <1>4 DEF Pick
  <2>2. Arrived(cf, r, Range(s), "grad", y) = l /\ Arrived(cf, r, Range(t), "grad", y) = l + 1
    BY <1>4, <2>1 DEF Arrived, TookTensor, One
  <2>3. PortSame(cf, r, s, t, "recv", "act")
    BY <1>1, <1>4 DEF OnlyPort
  <2>4. Arrived(cf, r, Range(t), "act", x) = Arrived(cf, r, Range(s), "act", x)
    BY <2>3 DEF PortSame, Arrived, One
  <2>5. Tensed(cf, r, d, f, b, Arrived(cf, r, Range(s), "act", x), l)
    BY <1>2, <2>2
  <2>6. GradCame(d, e, o.chunk, z)
    BY <1>4, DeliverIs
  <2>7. o.chunk = BackwardChunk(cf, l) /\ z = Needed(cf, r, "grad", o.chunk, Number(cf, l))
    BY <1>4 DEF ChunkAt
  <2>8. l < Batch1(cf)
    <3>1. Batch1(cf) \in Nat
      BY ConfigType
    <3>2. QED BY <2>1, <3>1
  <2> DEFINE v == Arrived(cf, r, Range(s), "act", x)
             c == o.chunk
  <2>9. /\ Tensed(cf, r, d, f, b, v, l) /\ c = BackwardChunk(cf, l)
        /\ z = Needed(cf, r, "grad", c, Number(cf, l)) /\ GradCame(d, e, c, z)
    BY <2>5, <2>6, <2>7
  <2> HIDE DEF v, c, e
  <2>10. Tensed(cf, r, e, f, b, v, l + 1)
    BY <2>8, <2>9, GradArrives
  <2>11. QED BY <2>2, <2>4, <2>10 DEF TensorsOK, v, e
<1>5. QED BY <1>3, <1>4 DEF Dirs

\* and a device of which only an operation is taken that brings no tensor.
LEMMA NothingDelivered ==
  ASSUME NEW cf \in Configs, NEW r \in Devices(cf), NEW d, NEW side, NEW dir \in Dirs,
         NEW s, NEW t, NEW f, NEW x, NEW b, NEW y, TensorsOK(cf, r, d, s, f, x, b, y),
         PostedOK(cf, r, t, f, x, b, y), OnlyPort(cf, r, s, t, side, dir),
         side = "send" \/ TookShape(cf, r, s, t, side, dir)
  PROVE  TensorsOK(cf, r, d, t, f, x, b, y)
<1>1. "recv" \in Sides /\ "act" \in Dirs /\ "grad" \in Dirs
  BY DEF Sides, Dirs
<1>2. \A dirB \in Dirs : Waits(cf, r, Range(t), "recv", dirB) <=> Waits(cf, r, Range(s), "recv", dirB)
  <2> SUFFICES ASSUME NEW dirB \in Dirs
               PROVE  Waits(cf, r, Range(t), "recv", dirB) <=> Waits(cf, r, Range(s), "recv", dirB)
    OBVIOUS
  <2>1. CASE side # "recv" \/ dir # dirB
    BY <1>1, <2>1 DEF OnlyPort, PortSame
  <2>2. CASE side = "recv" /\ dir = dirB
    BY <2>2 DEF TookShape
  <2>3. QED BY <2>1, <2>2
<1>3. /\ Arrived(cf, r, Range(t), "act", x) = Arrived(cf, r, Range(s), "act", x)
      /\ Arrived(cf, r, Range(t), "grad", y) = Arrived(cf, r, Range(s), "grad", y)
  BY <1>1, <1>2 DEF Arrived, One
<1>4. QED BY <1>3 DEF TensorsOK
\* The ports of an operation that can complete.
LEMMA FirstToComplete ==
  ASSUME NEW cf, NEW r, NEW s \in Seq(AnyOp), NEW i \in DOMAIN s, NEW kind \in Sides, NEW q,
         CanComplete(s, i, kind, q), Ported(cf, r, Range(s))
  PROVE  \E dir \in Dirs : /\ FirstOf(cf, r, s, i, kind, dir) /\ q = Peer(cf, r, kind, dir)
                           /\ Live(cf, r, kind, dir)
<1>1. /\ i \in 1 .. Len(s) /\ s[i] \in Range(s) /\ s[i].op = kind /\ s[i].peer = q
      /\ \A j \in 1 .. i - 1 : ~(s[j].op = kind /\ s[j].peer = q)
  BY DEF CanComplete, Range
<1>2. PICK side \in Sides, dir \in Dirs : OfPort(cf, r, s[i], side, dir)
  BY <1>1 DEF Ported
<1>3. side = kind /\ q = Peer(cf, r, side, dir) /\ Live(cf, r, side, dir)
  BY <1>1, <1>2 DEF OfPort
<1>4. FirstOf(cf, r, s, i, kind, dir)
  BY <1>1, <1>2, <1>3 DEF FirstOf
<1>5. QED BY <1>3, <1>4

\* Taking one from the list of a device.
LEMMA TakenFrom ==
  ASSUME NEW cf \in Configs, NEW r \in Devices(cf), NEW s, NEW f, NEW x, NEW b, NEW y,
         PostedOK(cf, r, s, f, x, b, y), NEW side \in Sides, NEW dir \in Dirs, NEW i,
         FirstOf(cf, r, s, i, side, dir), NEW t, t = RemoveAt(s, i), NEW o, o = s[i]
  PROVE  /\ PostedOK(cf, r, t, f, x, b, y) /\ OnlyPort(cf, r, s, t, side, dir)
         /\ \/ TookShape(cf, r, s, t, side, dir) /\ (side = "recv" => o.box = "shape")
            \/ TookTensor(cf, r, s, t, side, dir)
               /\ TensorOp(cf, r, o, side, dir, Pick(side, dir, f, x, b, y))
<1> DEFINE n == Pick(side, dir, f, x, b, y)
<1>1. s \in Seq(AnyOp) /\ Ordered(s) /\ PortOK(cf, r, Range(s), side, dir, n)
  BY PostedPorts
<1>2. PostedOK(cf, r, t, f, x, b, y)
  BY Taken
<1>3. OnlyPort(cf, r, s, t, side, dir)
  BY Taken DEF OnlyPort, PortSame
<1>4. OfPort(cf, r, o, side, dir) /\ o \in Range(s)
  BY <1>1 DEF FirstOf, Range
<1> HIDE DEF n
<1>8. /\ o.call = "shapes" => TookShape(cf, r, s, t, side, dir)
      /\ o.call # "shapes" => TensorOp(cf, r, o, side, dir, n) /\ TookTensor(cf, r, s, t, side, dir)
  BY <1>1, PortTaken
<1>5. CASE o.call = "shapes"
  <2>1. TookShape(cf, r, s, t, side, dir)
    BY <1>5, <1>8
  <2>2. o = PostedShape(cf, r, side, dir)
    BY <1>1, <1>4, <1>5 DEF PortOK
  <2>3. side = "recv" => o.box = "shape"
    BY <2>2 DEF PostedShape
  <2>4. QED BY <1>2, <1>3, <2>1, <2>3
<1>6. CASE o.call # "shapes"
  <2>1. TookTensor(cf, r, s, t, side, dir) /\ TensorOp(cf, r, o, side, dir, n)
    BY <1>6, <1>8
  <2>2. QED BY <1>2, <1>3, <2>1 DEF n
<1>7. QED BY <1>5, <1>6

\* The two devices of a link, before and after.
LEMMA BothEnds ==
  ASSUME NEW cf \in Configs, NEW q \in Devices(cf), NEW r, NEW dir \in Dirs,
         Live(cf, q, "send", dir), r = Peer(cf, q, "send", dir),
         NEW s, NEW t, NEW p, NEW u, NEW d, NEW e,
         DeviceTensors(cf, q, d, p, s), DeviceTensors(cf, r, e, u, t),
         PlaceOK(cf, q, p), PlaceOK(cf, r, u), DOMAIN e = Fields,
         ForwardsAt(cf, q, p) \in Nat, BackwardsAt(cf, q, p) \in Nat,
         ForwardsAt(cf, r, u) \in Nat, BackwardsAt(cf, r, u) \in Nat,
         LinkAgrees(cf, q, r, s, t, p, u, dir), NEW i, NEW j,
         FirstOf(cf, q, s, i, "send", dir), FirstOf(cf, r, t, j, "recv", dir)
  PROVE  LET a == RemoveAt(s, i)
             c == RemoveAt(t, j)
         IN  /\ DeviceTensors(cf, q, d, p, a)
             /\ DeviceTensors(cf, r, Deliver(e, t[j], s[i].tensor), u, c)
             /\ LinkAgrees(cf, q, r, a, c, p, u, dir)
             /\ OnlyPort(cf, q, s, a, "send", dir) /\ OnlyPort(cf, r, t, c, "recv", dir)
<1> DEFINE a == RemoveAt(s, i)
           c == RemoveAt(t, j)
           f1 == ForwardsAt(cf, q, p)
           x1 == InputsAt(cf, q, p)
           b1 == BackwardsAt(cf, q, p)
           y1 == GradsAt(cf, q, p)
           f2 == ForwardsAt(cf, r, u)
           x2 == InputsAt(cf, r, u)
           b2 == BackwardsAt(cf, r, u)
           y2 == GradsAt(cf, r, u)
           n == Pick("send", dir, f1, x1, b1, y1)
           m == Pick("recv", dir, f2, x2, b2, y2)
           o == s[i]
           z == t[j]
<1>1. "send" \in Sides /\ "recv" \in Sides /\ r \in Devices(cf)
  BY PeerBack DEF Sides
<1>2. /\ TensorsOK(cf, q, d, s, f1, x1, b1, y1) /\ HalfOK(cf, q, p)
      /\ TensorsOK(cf, r, e, t, f2, x2, b2, y2) /\ HalfOK(cf, r, u)
  BY DEF DeviceTensors
<1>3. /\ f1 \in Nat /\ x1 \in Nat /\ b1 \in Nat /\ y1 \in Nat
      /\ f2 \in Nat /\ x2 \in Nat /\ b2 \in Nat /\ y2 \in Nat
      /\ x2 <= Batch1(cf) /\ y2 <= Batch1(cf)
  BY <1>1, PlaceBounded
<1>4. n = CountAt(cf, q, p, "send", dir) /\ m = CountAt(cf, r, u, "recv", dir)
  BY DEF CountAt
<1> HIDE DEF f1, x1, b1, y1, f2, x2, b2, y2
<1>5. n \in Nat /\ m \in Nat
  BY <1>3 DEF Pick
<1>6. PostedOK(cf, q, s, f1, x1, b1, y1) /\ PostedOK(cf, r, t, f2, x2, b2, y2)
  BY <1>2 DEF TensorsOK
<1> HIDE DEF a, c, o, z
<1>7. /\ PostedOK(cf, q, a, f1, x1, b1, y1) /\ OnlyPort(cf, q, s, a, "send", dir)
      /\ \/ TookShape(cf, q, s, a, "send", dir)
         \/ TookTensor(cf, q, s, a, "send", dir) /\ TensorOp(cf, q, o, "send", dir, n)
  BY <1>1, <1>6, TakenFrom DEF a, o
<1>8. /\ PostedOK(cf, r, c, f2, x2, b2, y2) /\ OnlyPort(cf, r, t, c, "recv", dir)
      /\ \/ TookShape(cf, r, t, c, "recv", dir) /\ z.box = "shape"
         \/ TookTensor(cf, r, t, c, "recv", dir) /\ TensorOp(cf, r, z, "recv", dir, m)
  BY <1>1, <1>6, TakenFrom DEF c, z
<1> HIDE DEF n, m
<1>9. Transfers(cf, q, "send", dir, n) \in Int /\ Transfers(cf, r, "recv", dir, m) \in Int
  BY <1>1, <1>5, TransfersNext
<1>10. /\ LinkAgrees(cf, q, r, a, c, p, u, dir)
       /\ \/ TookShape(cf, q, s, a, "send", dir) /\ TookShape(cf, r, t, c, "recv", dir)
          \/ /\ TookTensor(cf, q, s, a, "send", dir) /\ TookTensor(cf, r, t, c, "recv", dir)
             /\ Transfers(cf, q, "send", dir, n) = Transfers(cf, r, "recv", dir, m)
  <2>1. /\ n = CountAt(cf, q, p, "send", dir) /\ m = CountAt(cf, r, u, "recv", dir)
        /\ Transfers(cf, q, "send", dir, n) \in Int /\ Transfers(cf, r, "recv", dir, m) \in Int
        /\ LinkAgrees(cf, q, r, s, t, p, u, dir)
        /\ TookShape(cf, q, s, a, "send", dir) \/ TookTensor(cf, q, s, a, "send", dir)
        /\ TookShape(cf, r, t, c, "recv", dir) \/ TookTensor(cf, r, t, c, "recv", dir)
    BY <1>4, <1>7, <1>8, <1>9
  <2>2. QED BY <2>1, LinkTaken
<1>11. TensorsOK(cf, q, d, a, f1, x1, b1, y1)
  BY <1>2, <1>7, NothingDelivered
<1>12. TensorsOK(cf, r, Deliver(e, z, o.tensor), c, f2, x2, b2, y2)
  <2>1. CASE TookShape(cf, r, t, c, "recv", dir)
    <3>1. z.box = "shape"
      BY <1>8, <2>1 DEF TookShape, TookTensor
    <3>2. Deliver(e, z, o.tensor) = e
      BY <3>1, DeliverIs
    <3>3. TensorsOK(cf, r, e, c, f2, x2, b2, y2)
      BY <1>1, <1>2, <1>8, <2>1, NothingDelivered
    <3>4. QED BY <3>2, <3>3
  <2>2. CASE TookTensor(cf, r, t, c, "recv", dir)
    <3>1. /\ TookTensor(cf, q, s, a, "send", dir)
          /\ Transfers(cf, q, "send", dir, n) = Transfers(cf, r, "recv", dir, m)
      BY <1>10, <2>2 DEF TookShape, TookTensor
    <3>2. TensorOp(cf, q, o, "send", dir, n) /\ TensorOp(cf, r, z, "recv", dir, m)
      BY <1>7, <1>8, <2>2, <3>1 DEF TookShape, TookTensor
    <3>3. PICK l \in Nat : /\ m = l + 1 /\ z.chunk = ChunkAt(cf, dir, l)
                           /\ z.box = IF dir = "act" THEN "inputs" ELSE "grads"
                           /\ o.tensor = Needed(cf, r, dir, ChunkAt(cf, dir, l), Number(cf, l))
      BY <1>5, <3>1, <3>2, TensorComes
    <3>4. Pick("recv", dir, f2, x2, b2, y2) = l + 1
      BY <3>3 DEF m
    <3> DEFINE w == o.tensor
    <3>5. w = Needed(cf, r, dir, ChunkAt(cf, dir, l), Number(cf, l))
      BY <3>3
    <3> HIDE DEF w
    <3>6. TensorsOK(cf, r, Deliver(e, z, w), c, f2, x2, b2, y2)
      BY <1>1, <1>2, <1>3, <1>8, <2>2, <3>3, <3>4, <3>5, TensorDelivered
    <3>7. QED BY <3>6 DEF w
  <2>3. QED BY <1>10, <2>1, <2>2
<1>13. DeviceTensors(cf, q, d, p, a) /\ DeviceTensors(cf, r, Deliver(e, z, o.tensor), u, c)
  BY <1>2, <1>11, <1>12 DEF DeviceTensors, f1, x1, b1, y1, f2, x2, b2, y2
<1>14. QED BY <1>7, <1>8, <1>10, <1>13 DEF a, c, o, z
\* A transfer keeps the invariant about tensors.
LEMMA TransferTensors ==
  ASSUME Inv, TensorInv, Transfer
  PROVE  TensorInv'
<1> DEFINE cf == config
<1>1. /\ cf \in Configs /\ Ranks = Devices(cf) /\ cf' = cf /\ place' = place
      /\ DOMAIN dev = Devices(cf) /\ ops \in [Devices(cf) -> Seq(AnyOp)]
  BY WarmupIs DEF Inv, TensorInv, Transfer
<1>2. PICK q \in Ranks, r \in Ranks : \E i \in DOMAIN ops[q], j \in DOMAIN ops[r] :
        /\ CanComplete(ops[q], i, "send", r) /\ CanComplete(ops[r], j, "recv", q)
        /\ dev' = [dev EXCEPT ![r] = Deliver(@, ops[r][j], ops[q][i].tensor)]
        /\ ops' = [ops EXCEPT ![q] = RemoveAt(@, i), ![r] = RemoveAt(@, j)]
  BY Zenon DEF Transfer
<1>2a. q \in Devices(cf) /\ r \in Devices(cf)
  BY <1>1
<1>3. PICK i \in DOMAIN ops[q], j \in DOMAIN ops[r] :
        /\ CanComplete(ops[q], i, "send", r) /\ CanComplete(ops[r], j, "recv", q)
        /\ dev' = [dev EXCEPT ![r] = Deliver(@, ops[r][j], ops[q][i].tensor)]
        /\ ops' = [ops EXCEPT ![q] = RemoveAt(@, i), ![r] = RemoveAt(@, j)]
  BY <1>2
<1> DEFINE s == ops[q]
           t == ops[r]
           a == RemoveAt(s, i)
           c == RemoveAt(t, j)
           d == Deliver(dev[r], t[j], s[i].tensor)
<1>4. \A x \in Devices(cf) :
        /\ DeviceTensors(cf, x, dev[x], place[x], ops[x]) /\ PlaceOK(cf, x, place[x])
        /\ DOMAIN dev[x] = Fields
        /\ ForwardsAt(cf, x, place[x]) \in Nat /\ BackwardsAt(cf, x, place[x]) \in Nat
  <2> SUFFICES ASSUME NEW x \in Devices(cf)
               PROVE  /\ DeviceTensors(cf, x, dev[x], place[x], ops[x]) /\ PlaceOK(cf, x, place[x])
                      /\ DOMAIN dev[x] = Fields
                      /\ ForwardsAt(cf, x, place[x]) \in Nat /\ BackwardsAt(cf, x, place[x]) \in Nat
    OBVIOUS
  <2>1. DeviceTensors(cf, x, dev[x], place[x], ops[x]) /\ DeviceOK(cf, x, dev[x], place[x])
    BY DEF Inv, TensorInv
  <2> DEFINE f == ForwardsAt(cf, x, place[x])
             b == BackwardsAt(cf, x, place[x])
  <2>2. PlaceOK(cf, x, place[x]) /\ Counts(cf, dev[x], f, b)
    BY <2>1 DEF DeviceOK, Work
  <2> HIDE DEF f, b
  <2>3. f \in 0 .. Batch1(cf) /\ b \in 0 .. f /\ DOMAIN dev[x] = Fields
    BY <2>2 DEF Counts, Shaped
  <2>4. f \in Nat /\ b \in Nat
    BY <1>2a, <1>1, <2>3, ConfigType
  <2>5. QED BY <2>1, <2>2, <2>3, <2>4 DEF f, b
<1>5. PICK dir \in Dirs : FirstOf(cf, q, s, i, "send", dir) /\ r = Peer(cf, q, "send", dir)
                          /\ Live(cf, q, "send", dir)
  <2>1. s \in Seq(AnyOp) /\ Ported(cf, q, Range(s)) /\ "send" \in Sides
    BY <1>2a, <1>4 DEF DeviceTensors, TensorsOK, PostedOK, Sides
  <2>2. QED BY <1>2a, <1>3, <2>1, FirstToComplete
<1>6. FirstOf(cf, r, t, j, "recv", dir)
  <2>1. t \in Seq(AnyOp) /\ Ported(cf, r, Range(t)) /\ "recv" \in Sides
    BY <1>2a, <1>4 DEF DeviceTensors, TensorsOK, PostedOK, Sides
  <2>2. PICK dirB \in Dirs : FirstOf(cf, r, t, j, "recv", dirB) /\ q = Peer(cf, r, "recv", dirB)
                             /\ Live(cf, r, "recv", dirB)
    BY <1>2a, <1>3, <2>1, FirstToComplete
  <2>3. q = Peer(cf, r, "recv", dir) /\ Live(cf, r, "recv", dir)
    BY <1>2a, <1>1, <1>5, PeerBack
  <2>4. dir = dirB
    BY <1>2a, <1>1, <2>1, <2>2, <2>3, PortsApart
  <2>5. QED BY <2>2, <2>4
<1>7. q # r
  BY <1>2a, <1>1, <1>5, PeerBack
<1>8. LinkAgrees(cf, q, r, s, t, place[q], place[r], dir)
  BY <1>2a, <1>5 DEF TensorInv
<1>9. /\ DeviceTensors(cf, q, dev[q], place[q], a) /\ DeviceTensors(cf, r, d, place[r], c)
      /\ LinkAgrees(cf, q, r, a, c, place[q], place[r], dir)
      /\ OnlyPort(cf, q, s, a, "send", dir) /\ OnlyPort(cf, r, t, c, "recv", dir)
  BY <1>2a, <1>1, <1>4, <1>5, <1>6, <1>8, BothEnds
<1>10. a \in Seq(AnyOp) /\ c \in Seq(AnyOp)
  BY <1>2a, <1>9 DEF DeviceTensors, TensorsOK, PostedOK
<1>11. /\ dev'[r] = d /\ ops'[q] = a /\ ops'[r] = c
       /\ \A x \in Devices(cf) : x # r => dev'[x] = dev[x]
       /\ \A x \in Devices(cf) : x # r /\ x # q => ops'[x] = ops[x]
  BY <1>2a, <1>1, <1>3, <1>7
<1>12. ops' \in [Devices(cf) -> Seq(AnyOp)]
  <2>1. ops' = [ops EXCEPT ![q] = a, ![r] = c]
    BY <1>2a, <1>1, <1>3, <1>7
  <2> HIDE DEF a, c
  <2>2. QED BY <1>2a, <1>1, <1>10, <2>1
<1> HIDE DEF a, c, d
<1>13. ASSUME NEW x \in Devices(cf) PROVE DeviceTensors(cf, x, dev'[x], place[x], ops'[x])
  <2>1. CASE x = q
    BY <1>7, <1>9, <1>11, <2>1
  <2>2. CASE x = r
    BY <1>9, <1>11, <2>2
  <2>3. CASE x # q /\ x # r
    BY <1>4, <1>11, <2>3
  <2>4. QED BY <2>1, <2>2, <2>3
<1>14. ASSUME NEW x \in Devices(cf), NEW z \in Devices(cf), NEW way \in Dirs,
              Live(cf, x, "send", way), z = Peer(cf, x, "send", way)
       PROVE  LinkAgrees(cf, x, z, ops'[x], ops'[z], place[x], place[z], way)
  <2>1. LinkAgrees(cf, x, z, ops[x], ops[z], place[x], place[z], way)
    BY <1>14 DEF TensorInv
  <2>2. CASE x = q /\ way = dir
    <3>1. z = r
      BY <1>5, <1>14, <2>2
    <3>2. QED BY <1>9, <1>11, <2>2, <3>1
  <2>3. CASE ~(x = q /\ way = dir)
    <3>1. "send" \in Sides /\ "recv" \in Sides /\ "send" # "recv"
      BY DEF Sides
    <3>2. PortSame(cf, x, ops[x], ops'[x], "send", way)
      <4>1. CASE x = q
        BY <1>9, <1>11, <2>3, <3>1, <4>1 DEF OnlyPort
      <4>2. CASE x = r
        BY <1>9, <1>11, <3>1, <4>2 DEF OnlyPort
      <4>3. CASE x # q /\ x # r
        BY <1>11, <4>3 DEF PortSame
      <4>4. QED BY <4>1, <4>2, <4>3
    <3>3. ~(z = r /\ way = dir)
      <4>1. x = Peer(cf, z, "recv", way)
        BY <1>2a, <1>1, <1>14, PeerBack
      <4>2. q = Peer(cf, r, "recv", dir)
        BY <1>2a, <1>1, <1>5, PeerBack
      <4>3. QED BY <2>3, <4>1, <4>2
    <3>4. PortSame(cf, z, ops[z], ops'[z], "recv", way)
      <4>1. CASE z = r
        BY <1>9, <1>11, <3>1, <3>3, <4>1 DEF OnlyPort
      <4>2. CASE z = q
        BY <1>9, <1>11, <3>1, <4>2 DEF OnlyPort
      <4>3. CASE z # q /\ z # r
        BY <1>11, <4>3 DEF PortSame
      <4>4. QED BY <4>1, <4>2, <4>3
    <3>5. QED BY <2>1, <3>2, <3>4, LinkKept
  <2>4. QED BY <2>2, <2>3
<1>15. QED BY <1>2a, <1>1, <1>12, <1>13, <1>14 DEF TensorInv
\* Before the first turn nothing is there and nothing asked for.
LEMMA NoTransfers ==
  ASSUME NEW cf \in Configs, NEW r, NEW side \in Sides, NEW dir
  PROVE  Transfers(cf, r, side, dir, 0) = 0
<1> DEFINE p == cf.P
           v == ChunkNumber(cf)
           c == EndChunk(cf, side)
<1>1. p \in Nat \ {0} /\ v \in Nat \ {0} /\ c \in 0 .. v - 1
  BY ConfigType DEF EndChunk, Sides
<1>2. c \in ChunksOf(cf)
  BY <1>1 DEF ChunksOf
<1>3. Passes(0, c, p, v) = 0
  BY <1>2, NonePassed DEF Forwards
<1> HIDE DEF c, p, v
<1>4. Transfers(cf, r, side, dir, 0) = IF AtEnd(cf, r, side, dir) THEN 0 - Passes(0, c, p, v) ELSE 0
  BY DEF Transfers, c, p, v
<1>5. QED BY <1>3, <1>4

LEMMA NothingWaits ==
  ASSUME NEW cf, NEW r, NEW side, NEW dir
  PROVE  ~Waits(cf, r, Range(<< >>), side, dir) /\ ~WaitsShape(cf, r, Range(<< >>), side, dir)
<1>1. Range(<< >>) = {}
  BY DEF Range
<1>2. QED BY <1>1 DEF Waits, WaitsShape

LEMMA IdleTensors ==
  ASSUME config \in Configs, NEW r \in Devices(config)
  PROVE  LET q == LoopFrom(r, 1)
         IN  /\ DeviceTensors(config, r, Idle(r), q, << >>)
             /\ \A side \in Sides, dir \in Dirs : CountAt(config, r, q, side, dir) = 0
<1> DEFINE d == Idle(r)
           q == LoopFrom(r, 1)
           C == ChunksOf(config)
           one == 1
           none == 0
<1>1. /\ d.outputs = [c \in C |-> << >>] /\ d.inputs = [c \in C |-> << >>]
      /\ d.grads = [c \in C |-> << >>] /\ d.computed = None /\ d.inputGrad = None
      /\ d.losses = << >>
  <2>1. Chunks = C
    BY WarmupIs
  <2>2. QED BY <2>1 DEF Idle
<1>2. config.P \in Nat \ {0} /\ config.V \in Nat /\ config.M \in Nat \ {0}
      /\ Batch1(config) \in Nat \ {0} /\ ChunkNumber(config) \in Nat \ {0}
  BY ConfigType
<1>3. LoopsOf(config)[1] \in {"plain", "warmup", "first"}
      /\ (LoopsOf(config)[1] = "first" => config.V # 0)
      /\ (LoopsOf(config)[1] = "warmup" => config.V = 0) /\ one \in 1 .. Len(LoopsOf(config))
  <2>1. CASE config.P = 1
    BY <2>1, LoopsAre
  <2>2. CASE config.P # 1 /\ config.V = 0
    BY <2>2, LoopsAre
  <2>3. CASE config.P # 1 /\ config.V # 0
    BY <2>3, LoopsAre
  <2>4. QED BY <2>1, <2>2, <2>3
<1>4. one = 1 /\ none = 0
  OBVIOUS
<1> HIDE DEF one, none
<1>5. Started(config, r, one, LoopFrom(r, one))
  BY <1>3, LoopFromStarts
<1>6. /\ ForwardsAt(config, r, q) = none /\ BackwardsAt(config, r, q) = none
      /\ InputsAt(config, r, q) = none /\ GradsAt(config, r, q) = none /\ q.half = 0
  <2>1. Started(config, r, 1, q)
    BY <1>4, <1>5
  <2> HIDE DEF q
  <2>2. ForwardsIn(config, r, LoopsOf(config)[1], 0, 0) = 0
        /\ BackwardsIn(config, r, LoopsOf(config)[1], 0) = 0
    BY <1>3 DEF ForwardsIn, BackwardsIn
  <2>3. InputsIn(config, r, LoopsOf(config)[1], 0, 0) = 0
    BY <1>3 DEF InputsIn
  <2>4. GradsIn(config, r, LoopsOf(config)[1], 0, 0) = 0
    <3>1. LoopsOf(config)[1] = "warmup" => ~(config.V > 0)
      BY <1>2, <1>3
    <3>2. QED BY <1>3, <3>1 DEF GradsIn, One
  <2>5. QED BY <1>4, <2>1, <2>2, <2>3, <2>4 DEF Started
<1> HIDE DEF q, d
<1>7. Range(<< >>) = {}
  BY DEF Range
<1>8. PostedOK(config, r, << >>, none, none, none, none)
  <2>1. << >> \in Seq(AnyOp) /\ Ordered(<< >>)
    BY DEF Ordered
  <2>2. QED BY <1>7, <2>1 DEF PostedOK, PortOK, Ported
<1>9. ASSUME NEW dir PROVE Arrived(config, r, Range(<< >>), dir, none) = none
  <2>1. ~Waits(config, r, Range(<< >>), "recv", dir)
    BY NothingWaits
  <2>2. One(Waits(config, r, Range(<< >>), "recv", dir)) = 0
    BY <2>1 DEF One
  <2>3. QED BY <1>4, <2>2 DEF Arrived
<1>10. \A c \in C : Forwards(config, none, c) = none /\ Backwards(config, none, c) = none
  BY <1>4, NonePassed DEF C
<1>11. \A c \in C : \A dir, end : Keeps(config, r, dir, c, << >>, none, none, end)
  BY <1>4 DEF Keeps
<1>12. Tensed(config, r, d, none, none, none, none)
  <2>1. /\ d.inputs \in [C -> Seq(TensorType)] /\ d.grads \in [C -> Seq(TensorType)]
        /\ none <= none /\ none <= Batch1(config)
    BY <1>1, <1>2, <1>4
  <2>2. InputsOK(config, r, d, none, none, none)
    <3> SUFFICES ASSUME NEW c \in C
                 PROVE  /\ Padded(config, r, "act", c) =>
                             AllNone(d.inputs[c]) /\ Len(d.inputs[c]) >= Len(d.outputs[c])
                        /\ Keeps(config, r, "act", c, d.inputs[c], Kept1(config, none, none, c),
                                 Forwards(config, none, c), none = Batch1(config))
      BY DEF InputsOK, C
    <3>1. d.inputs[c] = << >> /\ d.outputs[c] = << >>
      BY <1>1
    <3>2. Kept1(config, none, none, c) = none /\ Forwards(config, none, c) = none
      BY <1>10 DEF Kept1
    <3>3. AllNone(d.inputs[c]) /\ Len(d.inputs[c]) >= Len(d.outputs[c])
      BY <3>1 DEF AllNone
    <3> DEFINE end == (none = Batch1(config))
    <3> HIDE DEF end
    <3>4. Keeps(config, r, "act", c, << >>, none, none, end)
      BY <1>11
    <3>5. QED BY <3>1, <3>2, <3>3, <3>4 DEF end
  <2>3. GradsOK(config, r, d, none, none)
    <3> SUFFICES ASSUME NEW c \in C
                 PROVE  /\ AllNone(d.grads[c])
                        /\ Keeps(config, r, "grad", c, d.grads[c], Backwards(config, none, c),
                                 Backwards(config, none, c), none = Batch1(config))
      BY DEF GradsOK, C
    <3>1. d.grads[c] = << >> /\ Backwards(config, none, c) = none
      BY <1>1, <1>10
    <3>2. AllNone(d.grads[c])
      BY <3>1 DEF AllNone
    <3> DEFINE end == (none = Batch1(config))
    <3> HIDE DEF end
    <3>3. Keeps(config, r, "grad", c, << >>, none, none, end)
      BY <1>11
    <3>4. QED BY <3>1, <3>2, <3>3 DEF end
  <2>4. OutputsOK(config, r, d, none)
    <3>1. \A c \in C : DOMAIN d.outputs[c] = {}
      BY <1>1
    <3>2. QED BY <3>1 DEF OutputsOK, C
  <2>5. LossesOK(config, r, d, none)
    <3>1. ChunkNumber(config) - 1 \in C
      BY <1>2 DEF C, ChunksOf
    <3>2. Forwards(config, none, ChunkNumber(config) - 1) = 0
      BY <1>4, <1>10, <3>1
    <3>3. [i \in 1 .. 0 |-> Act(i - 1, StageOf(config, r, ChunkNumber(config) - 1))] = << >>
      OBVIOUS
    <3>4. QED BY <1>1, <3>2, <3>3 DEF LossesOK
  <2>6. d.computed \in TensorOf(config) /\ d.inputGrad \in TensorOf(config)
    BY <1>1 DEF TensorOf
  <2>7. QED BY <2>1, <2>2, <2>3, <2>4, <2>5, <2>6 DEF Tensed, C
<1>13. TensorsOK(config, r, d, << >>, none, none, none, none)
  BY <1>8, <1>9, <1>12 DEF TensorsOK
<1>14. HalfOK(config, r, q)
  BY <1>6 DEF HalfOK
<1>15. DeviceTensors(config, r, d, q, << >>)
  BY <1>6, <1>13, <1>14 DEF DeviceTensors
<1>16. \A side \in Sides, dir \in Dirs : CountAt(config, r, q, side, dir) = 0
  BY <1>4, <1>6 DEF CountAt, Pick
<1>17. QED BY <1>15, <1>16 DEF d, q

LEMMA InitTensors == Init => TensorInv
<1> SUFFICES ASSUME Init PROVE TensorInv
  OBVIOUS
<1>1. config \in Configs
  BY DEF Init
<1>2. Ranks = Devices(config)
  BY <1>1, WarmupIs
<1>3. place = [r \in Devices(config) |-> LoopFrom(r, 1)]
      /\ dev = [r \in Devices(config) |-> Idle(r)] /\ ops = [r \in Devices(config) |-> << >>]
  BY <1>2 DEF Init
<1>4. \A r \in Devices(config) :
        /\ DeviceTensors(config, r, dev[r], place[r], ops[r]) /\ ops[r] = << >>
        /\ \A side \in Sides, dir \in Dirs : CountAt(config, r, place[r], side, dir) = 0
  BY <1>1, <1>3, IdleTensors
<1>5. ops \in [Devices(config) -> Seq(AnyOp)]
  BY <1>3
<1>6. ASSUME NEW q \in Devices(config), NEW r \in Devices(config), NEW dir \in Dirs
      PROVE  LinkAgrees(config, q, r, ops[q], ops[r], place[q], place[r], dir)
  <2>1. "send" \in Sides /\ "recv" \in Sides
    BY DEF Sides
  <2>2. /\ CountAt(config, q, place[q], "send", dir) = 0 /\ CountAt(config, r, place[r], "recv", dir) = 0
        /\ ops[q] = << >> /\ ops[r] = << >>
    BY <1>4, <2>1
  <2>3. /\ Transfers(config, q, "send", dir, 0) = 0 /\ Transfers(config, r, "recv", dir, 0) = 0
    BY <1>1, <2>1, NoTransfers
  <2>4. /\ ~Waits(config, q, Range(<< >>), "send", dir) /\ ~Waits(config, r, Range(<< >>), "recv", dir)
        /\ ~WaitsShape(config, q, Range(<< >>), "send", dir)
        /\ ~WaitsShape(config, r, Range(<< >>), "recv", dir)
    BY NothingWaits
  <2>5. QED BY <2>2, <2>3, <2>4 DEF LinkAgrees, Through, ShapesThrough, One
<1>7. QED BY <1>4, <1>5, <1>6 DEF TensorInv

LEMMA NextTensors == Inv /\ TensorInv /\ [Next]_vars => TensorInv'
<1> SUFFICES ASSUME Inv, TensorInv, [Next]_vars PROVE TensorInv'
  OBVIOUS
<1>1. CASE Transfer
  BY <1>1, TransferTensors
<1>2. CASE \E r \in Ranks : Step(r)
  <2>1. PICK r \in Ranks : Step(r)
    BY <1>2
  <2>2. r \in Devices(config)
    BY WarmupIs DEF Inv
  <2>3. TensorMoved(r)
    BY <2>1, <2>2, StepTensors
  <2>4. QED BY <2>2, <2>3, MovedTensors
<1>3. CASE UNCHANGED vars
  BY <1>3 DEF vars, TensorInv
<1>4. QED BY <1>1, <1>2, <1>3 DEF Next

\* In every schedule the lists of a device hold the tensors of the microbatches its
\* place in the program is about, and the two ends of a link have had as many.
THEOREM TensorsArePlaced == Spec => [](Inv /\ TensorInv)
<1>1. Init => Inv /\ TensorInv
  BY InitInv, InitTensors
<1>2. Inv /\ TensorInv /\ [Next]_vars => (Inv /\ TensorInv)'
  BY NextInv, NextTensors
<1>3. QED BY <1>1, <1>2, PTL DEF Spec
----
(***************************************************************************)
(* The type invariant.                                                     *)
(***************************************************************************)
\* What is needed is a tensor of the model.
LEMMA NeededOf ==
  ASSUME NEW cf \in Configs, NEW r \in Devices(cf), NEW dir \in Dirs, NEW c \in ChunksOf(cf),
         NEW i \in 0 .. cf.M - 1
  PROVE  Needed(cf, r, dir, c, i) \in TensorOf(cf)
<1> DEFINE s == StageOf(cf, r, c)
           p == cf.P
           v == ChunkNumber(cf)
           T == p * v - 1
<1>1. /\ p \in Nat \ {0} /\ v \in Nat \ {0} /\ c \in 0 .. v - 1 /\ r \in 0 .. p - 1
      /\ s = c * p + r
  BY ConfigType DEF ChunksOf, Devices, StageOf
<1> HIDE DEF s, p, v
<1>2. s \in Nat /\ (~(r = 0 /\ c = 0) => s > 0)
  <2> DEFINE h == c * p
  <2>1. h \in Nat /\ (c # 0 => h >= p)
    <3>1. h \in Nat
      BY <1>1, ProductNat
    <3>2. CASE c # 0
      <4>1. 1 * p <= c * p /\ 1 * p = p
        BY <1>1, <3>2, ProductMonotone
      <4>2. QED BY <3>1, <4>1
    <3>3. QED BY <3>1, <3>2
  <2>2. s = h + r
    BY <1>1
  <2> HIDE DEF h
  <2>3. QED BY <1>1, <2>1, <2>2
<1>3. T \in Int /\ s <= T /\ (~(r = p - 1 /\ c = v - 1) => s < T)
  <2> DEFINE h == c * p
             g == v * p
  <2>1. g = p * v /\ g \in Nat /\ h \in Nat
    BY <1>1, ProductNat
  <2>2. h + p <= g
    <3>1. (c + 1) * p <= v * p
      BY <1>1, ProductMonotone
    <3>2. (c + 1) * p = h + p
      BY <1>1
    <3>3. QED BY <3>1, <3>2
  <2>3. c # v - 1 => h + (p + p) <= g
    <3> SUFFICES ASSUME c # v - 1 PROVE h + (p + p) <= g
      OBVIOUS
    <3>1. (c + 2) * p <= v * p
      BY <1>1, ProductMonotone
    <3>2. (c + 2) * p = h + (p + p)
      BY <1>1
    <3>3. QED BY <3>1, <3>2
  <2>4. T = g - 1 /\ s = h + r
    BY <1>1, <2>1
  <2> HIDE DEF h, g, T
  <2>5. QED BY <1>1, <2>1, <2>2, <2>3, <2>4
<1> HIDE DEF T
<1>4. TensorOf(cf) = {None} \cup [kind : {"act", "grad"}, mb : 0 .. cf.M - 1, stage : 0 .. T]
  BY DEF TensorOf, T, p, v
<1>5. CASE EndStage(cf, r, dir, c)
  BY <1>4, <1>5 DEF Needed
<1>6. CASE ~EndStage(cf, r, dir, c)
  <2>1. CASE dir = "act"
    <3>1. s - 1 \in 0 .. T
      BY <1>2, <1>3, <1>6, <2>1 DEF EndStage
    <3>2. Needed(cf, r, dir, c, i) = Act(i, s - 1)
      BY <1>6, <2>1 DEF Needed, s
    <3>3. QED BY <1>4, <3>1, <3>2 DEF Act
  <2>2. CASE dir = "grad"
    <3>1. s + 1 \in 0 .. T
      BY <1>2, <1>3, <1>6, <2>2 DEF EndStage, p, v
    <3>2. Needed(cf, r, dir, c, i) = Grad(i, s + 1)
      BY <1>6, <2>2 DEF Needed, s
    <3>3. QED BY <1>4, <3>1, <3>2 DEF Grad
  <2>3. QED BY <2>1, <2>2 DEF Dirs
<1>7. QED BY <1>5, <1>6

\* So is what a list keeps.
LEMMA KeptOf ==
  ASSUME NEW cf \in Configs, NEW r \in Devices(cf), NEW dir \in Dirs, NEW c \in ChunksOf(cf),
         NEW s \in Seq(TensorType), NEW lo \in Nat, NEW hi \in Nat, hi <= cf.M, NEW end,
         Keeps(cf, r, dir, c, s, lo, hi, end), NEW t \in Range(s)
  PROVE  t \in TensorOf(cf)
<1>1. PICK i \in 1 .. Len(s) : t = s[i]
  BY DEF Range
<1>2. /\ i <= hi - lo => s[i] = Needed(cf, r, dir, c, lo + (i - 1))
      /\ i > hi - lo => s[i] = None
  BY DEF Keeps
<1>3. i \in Nat \ {0}
  BY <1>1
<1>4. CASE i <= hi - lo
  <2> DEFINE j == lo + (i - 1)
  <2>1. j \in 0 .. cf.M - 1
    BY <1>3, <1>4, ConfigType
  <2>2. s[i] = Needed(cf, r, dir, c, j)
    BY <1>2, <1>4
  <2> HIDE DEF j
  <2>3. Needed(cf, r, dir, c, j) \in TensorOf(cf)
    BY <2>1, NeededOf
  <2>4. QED BY <1>1, <2>2, <2>3
<1>5. CASE i > hi - lo
  BY <1>1, <1>2, <1>5 DEF TensorOf
<1>6. QED BY <1>3, <1>4, <1>5

LEMMA NoneOf ==
  ASSUME NEW cf, NEW s, DOMAIN s = 1 .. Len(s), AllNone(s), NEW t \in Range(s)
  PROVE  t = None
BY DEF AllNone, Range

\* The lists of a device.
LEMMA ListsOf ==
  ASSUME NEW cf \in Configs, NEW r \in Devices(cf), NEW d, NEW f \in Nat, NEW b \in Nat,
         NEW x \in Int, NEW y \in Int, Tensed(cf, r, d, f, b, x, y), NEW c \in ChunksOf(cf)
  PROVE  \A t \in Range(d.inputs[c]) \cup Range(d.grads[c]) : t \in TensorOf(cf)
<1>1. /\ d.inputs[c] \in Seq(TensorType) /\ d.grads[c] \in Seq(TensorType)
      /\ x \in Nat /\ y \in Nat /\ x <= Batch1(cf) /\ y <= Batch1(cf)
      /\ InputsOK(cf, r, d, f, b, x) /\ GradsOK(cf, r, d, b, y)
  BY DEF Tensed
<1>2. None \in TensorOf(cf) /\ "act" \in Dirs /\ "grad" \in Dirs
  BY DEF TensorOf, Dirs
<1>3. ASSUME NEW t \in Range(d.inputs[c]) PROVE t \in TensorOf(cf)
  <2>1. CASE Padded(cf, r, "act", c)
    <3>1. AllNone(d.inputs[c]) /\ DOMAIN d.inputs[c] = 1 .. Len(d.inputs[c])
      BY <1>1, <2>1 DEF InputsOK
    <3>2. QED BY <1>2, <3>1, NoneOf
  <2>2. CASE ~Padded(cf, r, "act", c)
    <3> DEFINE lo == Kept1(cf, f, b, c)
               hi == Forwards(cf, x, c)
               end == (f = Batch1(cf))
               s == d.inputs[c]
    <3>1. Keeps(cf, r, "act", c, s, lo, hi, end)
      BY <1>1, <2>2 DEF InputsOK
    <3>2. lo \in Nat /\ hi \in Nat /\ hi <= cf.M /\ s \in Seq(TensorType) /\ t \in Range(s)
      BY <1>1, <1>3, ForwardsNext, BackwardsNext DEF Kept1
    <3> HIDE DEF lo, hi, end, s
    <3>3. QED BY <1>2, <3>1, <3>2, KeptOf
  <2>3. QED BY <2>1, <2>2
<1>4. ASSUME NEW t \in Range(d.grads[c]) PROVE t \in TensorOf(cf)
  <2>1. CASE Padded(cf, r, "grad", c)
    <3>1. AllNone(d.grads[c]) /\ DOMAIN d.grads[c] = 1 .. Len(d.grads[c])
      BY <1>1, <2>1 DEF GradsOK
    <3>2. QED BY <1>2, <3>1, NoneOf
  <2>2. CASE ~Padded(cf, r, "grad", c)
    <3> DEFINE lo == Backwards(cf, b, c)
               hi == Backwards(cf, y, c)
               end == (b = Batch1(cf))
               s == d.grads[c]
    <3>1. Keeps(cf, r, "grad", c, s, lo, hi, end)
      BY <1>1, <2>2 DEF GradsOK
    <3>2. lo \in Nat /\ hi \in Nat /\ hi <= cf.M /\ s \in Seq(TensorType) /\ t \in Range(s)
      BY <1>1, <1>4, BackwardsNext
    <3> HIDE DEF lo, hi, end, s
    <3>3. QED BY <1>2, <3>1, <3>2, KeptOf
  <2>3. QED BY <2>1, <2>2
<1>5. QED BY <1>3, <1>4

\* The activations it stores.
LEMMA StoredOf ==
  ASSUME NEW cf \in Configs, NEW r \in Devices(cf), NEW d, NEW f, NEW b, Counts(cf, d, f, b),
         OutputsOK(cf, r, d, b), NEW c \in ChunksOf(cf), NEW o \in Range(d.outputs[c])
  PROVE  o \in [tensor : TensorOf(cf), full : BOOLEAN]
<1> DEFINE s == d.outputs[c]
<1>1. PICK i \in DOMAIN s : o = s[i]
  BY DEF Range
<1>2. s \in Seq(Stored) /\ f \in 0 .. Batch1(cf) /\ b \in 0 .. f
  BY DEF Counts, Shaped
<1>3. f \in Nat /\ b \in Nat /\ f <= Batch1(cf)
  BY <1>2, ConfigType
<1> DEFINE lo == Backwards(cf, b, c)
           hi == Forwards(cf, f, c)
<1>4. lo \in Nat /\ hi \in Nat /\ hi <= cf.M
  BY <1>3, ForwardsNext, BackwardsNext
<1>5. ~cf.forwardOnly /\ Len(s) = hi - lo
  <2>1. cf.forwardOnly => s = << >>
    BY DEF Counts
  <2>2. ~cf.forwardOnly
    BY <1>1, <2>1
  <2>3. QED BY <2>2 DEF Counts
<1>6. s[i].tensor = Made(cf, r, "act", c, lo + (i - 1))
  BY <1>1 DEF OutputsOK
<1> HIDE DEF s, lo, hi
<1>7. i \in 1 .. Len(s) /\ s[i] \in Stored
  BY <1>1, <1>2
<1> DEFINE j == lo + (i - 1)
<1>8. j \in 0 .. cf.M - 1
  BY <1>4, <1>5, <1>7, ConfigType
<1> HIDE DEF j
<1>9. Made(cf, r, "act", c, j) \in TensorOf(cf)
  BY <1>8, MadeType DEF Dirs
<1>10. s[i].tensor \in TensorOf(cf)
  BY <1>6, <1>9 DEF j
<1> HIDE DEF TensorOf
<1>11. s[i] \in [tensor : TensorOf(cf), full : BOOLEAN]
  BY <1>7, <1>10 DEF Stored
<1>12. QED BY <1>1, <1>11
\* Where a device is and what it has, as the invariants say it.
LEMMA DeviceIs ==
  ASSUME Inv, TensorInv, NEW r \in Devices(config),
         NEW p, p = place[r], NEW d, d = dev[r], NEW f, f = ForwardsAt(config, r, p),
         NEW b, b = BackwardsAt(config, r, p)
  PROVE  /\ config \in Configs /\ PlaceOK(config, r, p) /\ Counts(config, d, f, b)
         /\ f \in Nat /\ b \in Nat /\ f <= Batch1(config) /\ b <= Batch1(config)
         /\ Tensed(config, r, d, f, b,
                   Arrived(config, r, Range(ops[r]), "act", InputsAt(config, r, p)),
                   Arrived(config, r, Range(ops[r]), "grad", GradsAt(config, r, p)))
         /\ InputsAt(config, r, p) \in Nat /\ GradsAt(config, r, p) \in Nat
<1>1. /\ config \in Configs /\ DeviceOK(config, r, d, p)
      /\ DeviceTensors(config, r, d, p, ops[r])
  BY DEF Inv, TensorInv
<1>2. PlaceOK(config, r, p) /\ Counts(config, d, f, b)
  BY <1>1 DEF DeviceOK, Work
<1>3. f \in 0 .. Batch1(config) /\ b \in 0 .. f
  BY <1>2 DEF Counts
<1>4. f \in Nat /\ b \in Nat /\ f <= Batch1(config) /\ b <= Batch1(config)
  BY <1>1, <1>3, ConfigType
<1>5. InputsAt(config, r, p) \in Nat /\ GradsAt(config, r, p) \in Nat
  BY <1>1, <1>2, PlaceBounded
<1>6. QED BY <1>1, <1>2, <1>4, <1>5 DEF DeviceTensors, TensorsOK

LEMMA DeviceTyped ==
  ASSUME Inv, TensorInv, NEW r \in Ranks
  PROVE  /\ place[r].loop \in DOMAIN Loops /\ place[r].half \in {0, 1}
         /\ place[r].k \in 0 .. Turns(r, Loops[place[r].loop]) - 1
         /\ dev[r].computed \in Tensors /\ dev[r].inputGrad \in Tensors
         /\ \A c \in Chunks :
              /\ \A t \in Range(dev[r].inputs[c]) \cup Range(dev[r].grads[c]) : t \in Tensors
              /\ \A o \in Range(dev[r].outputs[c]) : o \in [tensor : Tensors, full : BOOLEAN]
              /\ dev[r].fed[c] \in 0 .. M /\ dev[r].summed[c] \in 0 .. M
<1> DEFINE cf == config
           p == place[r]
           d == dev[r]
           f == ForwardsAt(cf, r, p)
           b == BackwardsAt(cf, r, p)
           x == Arrived(cf, r, Range(ops[r]), "act", InputsAt(cf, r, p))
           y == Arrived(cf, r, Range(ops[r]), "grad", GradsAt(cf, r, p))
<1>1. /\ cf \in Configs /\ r \in Devices(cf) /\ Chunks = ChunksOf(cf) /\ M = cf.M
      /\ P = cf.P /\ NumModelChunks = ChunkNumber(cf)
  BY WarmupIs DEF Inv
<1>2. /\ PlaceOK(cf, r, p) /\ Counts(cf, d, f, b) /\ f \in Nat /\ b \in Nat
      /\ f <= Batch1(cf) /\ b <= Batch1(cf) /\ Tensed(cf, r, d, f, b, x, y)
      /\ InputsAt(cf, r, p) \in Nat /\ GradsAt(cf, r, p) \in Nat
  BY <1>1, DeviceIs
<1>3. x \in Int /\ y \in Int
  BY <1>2 DEF Arrived, One
<1>4. Tensors = TensorOf(cf)
  BY <1>1 DEF Tensors, TensorOf
<1>5. /\ p.loop \in DOMAIN Loops /\ p.half \in {0, 1}
      /\ p.k \in 0 .. Turns(r, Loops[p.loop]) - 1
  <2>1. Loops = LoopsOf(cf) /\ Turns(r, Loops[p.loop]) = TurnsOf(cf, r, LoopAt(cf, p))
    BY <1>1, ProgramIs DEF LoopAt
  <2>2. /\ p.loop \in DOMAIN LoopsOf(cf) /\ p.k \in Nat /\ p.half \in {0, 1}
        /\ p.k < TurnsOf(cf, r, LoopAt(cf, p))
    BY <1>2 DEF PlaceOK
  <2> DEFINE t == TurnsOf(cf, r, LoopAt(cf, p))
             k == p.k
  <2>3. t \in Int
    BY <1>1, ConfigType, WarmupType DEF TurnsOf
  <2> HIDE DEF t, k
  <2>4. k \in Nat /\ k < t
    BY <2>2 DEF t, k
  <2>5. k \in 0 .. t - 1
    BY <2>3, <2>4
  <2>6. QED BY <2>1, <2>2, <2>5 DEF t, k
<1> HIDE DEF p, d, f, b, x, y
<1>6. d.computed \in Tensors /\ d.inputGrad \in Tensors
  BY <1>2, <1>4 DEF Tensed
<1>7. ASSUME NEW c \in Chunks
      PROVE  /\ \A t \in Range(d.inputs[c]) \cup Range(d.grads[c]) : t \in Tensors
             /\ \A o \in Range(d.outputs[c]) : o \in [tensor : Tensors, full : BOOLEAN]
             /\ d.fed[c] \in 0 .. M /\ d.summed[c] \in 0 .. M
  <2>1. c \in ChunksOf(cf)
    BY <1>1
  <2>2. \A t \in Range(d.inputs[c]) \cup Range(d.grads[c]) : t \in TensorOf(cf)
    BY <1>1, <1>2, <1>3, <2>1, ListsOf
  <2>3. OutputsOK(cf, r, d, b)
    BY <1>2 DEF Tensed
  <2>4. \A o \in Range(d.outputs[c]) : o \in [tensor : TensorOf(cf), full : BOOLEAN]
    BY <1>1, <1>2, <2>1, <2>3, StoredOf
  <2>5. d.fed[c] = Forwards(cf, f, c) /\ d.summed[c] = Backwards(cf, b, c)
    BY <1>2, <2>1 DEF Counts
  <2>6. Forwards(cf, f, c) \in 0 .. cf.M /\ Backwards(cf, b, c) \in 0 .. cf.M
    <3>1. Forwards(cf, f, c) \in Nat /\ Forwards(cf, f, c) <= cf.M
      BY <1>1, <1>2, <2>1, ForwardsNext
    <3>2. Backwards(cf, b, c) \in Nat /\ Backwards(cf, b, c) <= cf.M
      BY <1>1, <1>2, <2>1, BackwardsNext
    <3>3. QED BY <1>1, <3>1, <3>2, ConfigType
  <2>7. QED BY <1>1, <1>4, <2>2, <2>4, <2>5, <2>6
<1>8. QED BY <1>5, <1>6, <1>7 DEF p, d

\* Every pass of every device, in every schedule, computes from the activation or
\* the gradient of its own microbatch and stage, though messages carry no tag; no
\* loop runs over its end and no list holds what the model does not have.
THEOREM TensorsOfTheirOwn == Spec => []TypeOK
<1>1. Inv /\ TensorInv => TypeOK
  BY DeviceTyped DEF TypeOK
<1>2. QED BY <1>1, TensorsArePlaced, PTL

----
(***************************************************************************)
(* The end of a training step.                                             *)
(***************************************************************************)
\* A list that keeps no microbatch.
LEMMA KeepsOnlyNone ==
  ASSUME NEW cf, NEW r, NEW dir, NEW c, NEW s \in Seq(TensorType), NEW lo \in Nat, NEW end,
         Keeps(cf, r, dir, c, s, lo, lo, end)
  PROVE  Range(s) \subseteq {None}
<1>1. ASSUME NEW i \in 1 .. Len(s) PROVE s[i] = None
  <2>1. i > lo - lo
    OBVIOUS
  <2>2. QED BY <2>1 DEF Keeps
<1>2. QED BY <1>1 DEF Range

LEMMA LeftOver ==
  ASSUME NEW cf \in Configs, NEW r \in Devices(cf), NEW d, NEW f, NEW b,
         f = Batch1(cf), b = IF cf.forwardOnly THEN 0 ELSE Batch1(cf),
         Tensed(cf, r, d, f, b, f, b), NEW c \in ChunksOf(cf)
  PROVE  Range(d.inputs[c]) \cup Range(d.grads[c]) \subseteq {None}
<1>1. /\ d.inputs[c] \in Seq(TensorType) /\ d.grads[c] \in Seq(TensorType)
      /\ InputsOK(cf, r, d, f, b, f) /\ GradsOK(cf, r, d, b, b)
  BY DEF Tensed
<1>2. f \in Nat /\ b \in Nat
  BY ConfigType
<1>3. Range(d.inputs[c]) \subseteq {None}
  <2>1. CASE Padded(cf, r, "act", c)
    <3>1. AllNone(d.inputs[c]) /\ DOMAIN d.inputs[c] = 1 .. Len(d.inputs[c])
      BY <1>1, <2>1 DEF InputsOK
    <3>2. QED BY <3>1, NoneOf
  <2>2. CASE ~Padded(cf, r, "act", c)
    <3> DEFINE lo == Kept1(cf, f, b, c)
               hi == Forwards(cf, f, c)
               end == (f = Batch1(cf))
               s == d.inputs[c]
    <3>1. Keeps(cf, r, "act", c, s, lo, hi, end)
      BY <1>1, <2>2 DEF InputsOK
    <3>2. lo \in Nat /\ s \in Seq(TensorType)
      BY <1>1, <1>2, ForwardsNext, BackwardsNext DEF Kept1
    <3>3. lo = hi
      <4>1. hi = cf.M
        BY <1>2, ForwardsNext
      <4>2. ~cf.forwardOnly => Backwards(cf, b, c) = cf.M
        BY <1>2, BackwardsNext
      <4>3. QED BY <4>1, <4>2 DEF Kept1
    <3> HIDE DEF lo, hi, end, s
    <3>4. QED BY <3>1, <3>2, <3>3, KeepsOnlyNone DEF s
  <2>3. QED BY <2>1, <2>2
<1>4. Range(d.grads[c]) \subseteq {None}
  <2>1. CASE Padded(cf, r, "grad", c)
    <3>1. AllNone(d.grads[c]) /\ DOMAIN d.grads[c] = 1 .. Len(d.grads[c])
      BY <1>1, <2>1 DEF GradsOK
    <3>2. QED BY <3>1, NoneOf
  <2>2. CASE ~Padded(cf, r, "grad", c)
    <3> DEFINE lo == Backwards(cf, b, c)
               end == (b = Batch1(cf))
               s == d.grads[c]
    <3>1. Keeps(cf, r, "grad", c, s, lo, lo, end)
      BY <1>1, <2>2 DEF GradsOK
    <3>2. lo \in Nat /\ s \in Seq(TensorType)
      BY <1>1, <1>2, BackwardsNext
    <3> HIDE DEF lo, end, s
    <3>3. QED BY <3>1, <3>2, KeepsOnlyNone DEF s
  <2>3. QED BY <2>1, <2>2
<1>5. QED BY <1>3, <1>4

LEMMA LossesDone ==
  ASSUME NEW cf \in Configs, NEW r \in Devices(cf), NEW d, LossesOK(cf, r, d, Batch1(cf))
  PROVE  d.losses = IF r = cf.P - 1
                    THEN [i \in 1 .. cf.M |-> Act(i - 1, cf.P * ChunkNumber(cf) - 1)] ELSE << >>
<1> DEFINE v == ChunkNumber(cf)
           p == cf.P
           n == Batch1(cf)
<1>1. v \in Nat \ {0} /\ p \in Nat \ {0} /\ n \in Nat
  BY ConfigType
<1>2. Forwards(cf, n, v - 1) = cf.M
  <2>1. v - 1 \in ChunksOf(cf)
    BY <1>1 DEF ChunksOf
  <2>2. QED BY <1>1, <2>1, ForwardsNext
<1>3. r = p - 1 => StageOf(cf, r, v - 1) = p * v - 1
  <2>1. StageOf(cf, r, v - 1) = (v - 1) * p + r
    BY DEF StageOf
  <2> HIDE DEF v, p
  <2>2. (v - 1) * p = (p * v) - p /\ p * v \in Int
    BY <1>1
  <2>3. QED BY <1>1, <2>1, <2>2
<1>4. QED BY <1>2, <1>3 DEF LossesOK

\* A device that is done,
LEMMA DoneTensors ==
  ASSUME Inv, TensorInv, NEW r \in Ranks, Done(r)
  PROVE  /\ dev[r].losses = IF OnLastDevice(r)
                            THEN [i \in 1 .. M |-> Act(i - 1, P * NumModelChunks - 1)] ELSE << >>
         /\ \A c \in Chunks : Range(dev[r].inputs[c]) \cup Range(dev[r].grads[c]) \subseteq {None}
<1> DEFINE cf == config
           p == place[r]
           d == dev[r]
           f == ForwardsAt(cf, r, p)
           b == BackwardsAt(cf, r, p)
<1>1. /\ cf \in Configs /\ r \in Devices(cf) /\ Chunks = ChunksOf(cf) /\ M = cf.M
      /\ P = cf.P /\ NumModelChunks = ChunkNumber(cf)
  BY WarmupIs DEF Inv
<1>2. LoopAt(cf, p) = "done" /\ ops[r] = << >>
  BY <1>1, ProgramIs DEF Done, LoopAt
<1>3. /\ f = Batch1(cf) /\ InputsAt(cf, r, p) = f
      /\ b = IF cf.forwardOnly THEN 0 ELSE Batch1(cf)
  BY <1>2 DEF ForwardsAt, BackwardsAt, InputsAt, ForwardsIn, BackwardsIn, InputsIn
<1>4. GradsAt(cf, r, p) = b
  BY <1>2 DEF BackwardsAt, GradsAt, BackwardsIn, GradsIn
<1>5. /\ f \in Nat /\ b \in Nat
      /\ Tensed(cf, r, d, f, b, Arrived(cf, r, Range(ops[r]), "act", f),
                                Arrived(cf, r, Range(ops[r]), "grad", b))
  BY <1>1, <1>3, <1>4, DeviceIs
<1> HIDE DEF d, f, b
<1>6. Arrived(cf, r, Range(ops[r]), "act", f) = f /\ Arrived(cf, r, Range(ops[r]), "grad", b) = b
  <2>1. /\ One(Waits(cf, r, Range(<< >>), "recv", "act")) = 0
        /\ One(Waits(cf, r, Range(<< >>), "recv", "grad")) = 0
    BY NothingWaits DEF One
  <2>2. QED BY <1>2, <1>5, <2>1 DEF Arrived
<1>7. Tensed(cf, r, d, f, b, f, b)
  BY <1>5, <1>6
<1>8. \A c \in Chunks : Range(d.inputs[c]) \cup Range(d.grads[c]) \subseteq {None}
  BY <1>1, <1>3, <1>7, LeftOver
<1>9. d.losses = IF r = cf.P - 1
                 THEN [i \in 1 .. cf.M |-> Act(i - 1, cf.P * ChunkNumber(cf) - 1)] ELSE << >>
  <2>1. LossesOK(cf, r, d, Batch1(cf))
    BY <1>3, <1>7 DEF Tensed
  <2>2. QED BY <1>1, <2>1, LossesDone
<1>10. QED BY <1>1, <1>8, <1>9 DEF OnLastDevice, d

\* When every device is done, in every schedule, each chunk has been fed the whole
\* batch and has its gradient, every loss is stored once and in order, and no list
\* holds a tensor that nobody used.
THEOREM BatchIsDone == Spec => []BatchDone
<1> DEFINE Passed == \A r \in Ranks : Done(r) =>
                       \A c \in Chunks :
                         /\ dev[r].fed[c] = M
                         /\ dev[r].summed[c] = IF config.forwardOnly THEN 0 ELSE M
                         /\ dev[r].outputs[c] = << >>
<1>1. Inv /\ TensorInv /\ Passed => BatchDone
  BY DoneTensors DEF BatchDone, AllDone
<1>2. Spec => []Passed
  BY EveryPassDone
<1> HIDE DEF Passed
<1>3. QED BY <1>1, <1>2, TensorsArePlaced, PTL
=============================================================================
