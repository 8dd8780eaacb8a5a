---------------------------- MODULE Parts_proofs ----------------------------
(***************************************************************************)
(* Proofs about four of the parts that MCParts checks side by side: the    *)
(* layers of a chunk (LayerAssignment), the learning rate and the weight   *)
(* decay of an update (ParamScheduler), the samples of a micro batch       *)
(* (CyclicSampler), and the numbers that dropout draws (RandomStates).     *)
(* For every launch, every number of layers and samples and every place of *)
(* an interruption.  And about PipelineFlow, which the schedule            *)
(* implements, for every number of stages and microbatches.                *)
(***************************************************************************)
EXTENDS LayerAssignment, ParamScheduler, CyclicSampler, RandomStates, SequenceTheorems,
        WellFoundedInduction, TLAPS

----------------------------------------------------------------------------
(***************************************************************************)
(* Layers.  The gradients that the schedule averages belong to the same    *)
(* layers, in both modes, and the symmetric formula cuts the model into    *)
(* equal stages in the order of the pipelines.  What a chunk holds does    *)
(* not depend on when it is built: the invariant BuiltRight says what it   *)
(* is.                                                                     *)
(***************************************************************************)
BuiltRight ==
  /\ status = "building" => Accepted(args)
  /\ status = "building" /\ args.asymmetric => config = FullConfig(args)
  /\ \A r \in Ranks, c \in Chunks :
       IsBuilt(r, c) => status = "building" /\ built[r][c] = LayersOfChunk(r, c)

Shape ==
  /\ args \in Launch
  /\ vrank \in [Ranks -> 0 .. 4]
  /\ DOMAIN built = Ranks
  /\ \A r \in Ranks : DOMAIN built[r] = Chunks

IInv == Shape /\ BuiltRight

LEMMA InvariantKept == Spec => []IInv
<1> USE DEF Ranks, Chunks
<1>1. Init => IInv
  BY LaunchAssumption DEF Init, IInv, Shape, BuiltRight, IsBuilt
<1>2. IInv /\ [Next]_vars => IInv'
  <2> SUFFICES ASSUME IInv, [Next]_vars PROVE IInv'
    OBVIOUS
  <2>1. CASE ValidateArgs
    BY <2>1 DEF ValidateArgs, IInv, Shape, BuiltRight, IsBuilt
  <2>2. ASSUME NEW r \in Ranks, BuildChunk(r) PROVE IInv'
    <3>1. Shape'
      BY <2>2 DEF BuildChunk, IInv, Shape
    <3>2. ASSUME NEW q \in Ranks, NEW c \in Chunks, IsBuilt(q, c)'
          PROVE  status' = "building" /\ built'[q][c] = LayersOfChunk(q, c)
      <4>1. CASE q = r /\ c = vrank[r]
        BY <2>2, <4>1 DEF BuildChunk, IInv, Shape
      <4>2. CASE ~(q = r /\ c = vrank[r])
        <5>1. IsBuilt(q, c)
          BY <2>2, <3>2, <4>2 DEF BuildChunk, IInv, Shape, IsBuilt
        <5>2. built'[q][c] = built[q][c]
          BY <2>2, <4>2 DEF BuildChunk, IInv, Shape
        <5> QED BY <2>2, <5>1, <5>2 DEF BuildChunk, IInv, BuiltRight
      <4> QED BY <4>1, <4>2
    <3>3. \A q \in Ranks, c \in Chunks : LayersOfChunk(q, c)' = LayersOfChunk(q, c)
      BY <2>2 DEF BuildChunk, LayersOfChunk
    <3> QED BY <2>2, <3>1, <3>2, <3>3 DEF BuildChunk, IInv, BuiltRight
  <2>3. CASE UNCHANGED vars
    BY <2>3 DEF vars, IInv, Shape, BuiltRight, IsBuilt, LayersOfChunk
  <2> QED BY <2>1, <2>2, <2>3 DEF Next
<1> QED BY <1>1, <1>2, PTL DEF Spec

----------------------------------------------------------------------------
(***************************************************************************)
(* Two different chunks of the same stage are chunk c of a device and the  *)
(* swapped chunk of its bidirectional partner.                             *)
(***************************************************************************)
LEMMA SameStage ==
  ASSUME NEW r \in Ranks, NEW q \in Ranks, NEW c \in Chunks, NEW d \in Chunks,
         StageOf(r, c) = StageOf(q, d)
  PROVE  \/ r = q /\ c = d
         \/ q = BdPartner(r) /\ d = Swapped(c)
<1>1. c \in {0, 1, 2, 3} /\ d \in {0, 1, 2, 3} /\ r \in Nat /\ q \in Nat /\ P \in Nat /\ r < P /\ q < P
  BY PAssumption DEF Ranks, Chunks
<1> QED BY <1>1 DEF StageOf, BdPartner, Swapped

LEMMA PairedTable ==
  ASSUME NEW a \in Launch, AsymmetricAccepted(a), NEW r \in Ranks, NEW c \in Chunks
  PROVE  FullConfig(a)[BdPartner(r)][Swapped(c)] = FullConfig(a)[r][c]
<1>1. Swapped(c) \in Chunks /\ Swapped(Swapped(c)) = c
  BY DEF Swapped, Chunks
<1>2. BdPartner(r) \in Ranks /\ (BdPartner(r) < Half <=> ~(r < Half)) /\ P - BdPartner(r) = r + 1
  BY PAssumption DEF AsymmetricAccepted, BdPartner, Ranks, Half
<1>3. CASE r < Half
  BY <1>1, <1>2, <1>3 DEF FullConfig
<1>4. CASE ~(r < Half)
  <2>1. BdPartner(r) + 1 = P - r
    BY PAssumption DEF BdPartner, Ranks
  <2> QED BY <1>1, <1>2, <1>4, <2>1 DEF FullConfig
<1> QED BY <1>3, <1>4

LEMMA PairedOffset ==
  ASSUME NEW f, NEW r \in Ranks, NEW c \in Chunks
  PROVE  AsymmetricOffset(f, BdPartner(r), Swapped(c)) = AsymmetricOffset(f, r, c)
<1>1. BdPartner(BdPartner(r)) = r
  BY PAssumption DEF BdPartner, Ranks
<1>2. c \in {0, 1, 2, 3}
  BY DEF Chunks
<1> QED BY <1>1, <1>2 DEF AsymmetricOffset, Swapped

(***************************************************************************)
(* The symmetric formula: stage s starts at s times the layers of a chunk. *)
(***************************************************************************)
LEMMA HalfShare ==
  ASSUME NEW l \in Nat, l % P = 0, (l \div P) % 2 = 0
  PROVE  \E h \in Nat : l = P * (2 * h)
<1>1. l = P * (l \div P) /\ l \div P \in Nat
  BY PAssumption
<1>2. PICK h \in Nat : l \div P = 2 * h
  BY <1>1
<1> QED BY <1>1, <1>2

LEMMA SymmetricLayout ==
  ASSUME NEW a \in Launch, SymmetricAccepted(a),
         NEW r \in Ranks, NEW c \in Chunks
  PROVE  /\ SymmetricNum(a) \in Nat
         /\ a.layers = 2 * P * SymmetricNum(a)
         /\ SymmetricOffset(a, r, c) = StageOf(r, c) * SymmetricNum(a)
<1> DEFINE n == SymmetricNum(a)
<1>1. PICK h \in Nat : a.layers = P * (2 * h)
  BY HalfShare DEF SymmetricAccepted, Launch
<1>2. a.layers \div P = 2 * h /\ n = h
  BY <1>1, PAssumption DEF SymmetricNum
<1>3. c \in {0, 1, 2, 3} /\ P \in Nat /\ r \in Nat
  BY PAssumption DEF Ranks, Chunks
<1>4. a.layers = 2 * P * n /\ a.layers \div 2 = P * n
  BY <1>1, <1>2, <1>3
<1>5. CASE c = 0
  BY <1>2, <1>3, <1>4, <1>5 DEF SymmetricOffset, StageOf, VpIdx
<1>6. CASE c = 1
  BY <1>2, <1>3, <1>4, <1>6 DEF SymmetricOffset, StageOf, VpIdx
<1>7. CASE c = 2
  BY <1>2, <1>3, <1>4, <1>7 DEF SymmetricOffset, StageOf, VpIdx
<1>8. CASE c = 3
  BY <1>2, <1>3, <1>4, <1>8 DEF SymmetricOffset, StageOf, VpIdx
<1> QED BY <1>2, <1>3, <1>4, <1>5, <1>6, <1>7, <1>8

----------------------------------------------------------------------------
(***************************************************************************)
(* The two chunks of a stage, one in each pipeline, hold the same layers,  *)
(* for every accepted launch of either mode: averaging their gradients     *)
(* (allreduce_gradients) averages like with like.                          *)
(***************************************************************************)
THEOREM SameLayers == Spec => []ReplicasMatch
<1>1. IInv => ReplicasMatch
  <2> SUFFICES ASSUME IInv, NEW r \in Ranks, NEW q \in Ranks,
                      NEW c \in Chunks, NEW d \in Chunks,
                      IsBuilt(r, c), IsBuilt(q, d), StageOf(r, c) = StageOf(q, d)
               PROVE  built[r][c] = built[q][d]
    BY DEF ReplicasMatch
  <2>1. /\ Accepted(args) /\ args \in Launch
        /\ built[r][c] = LayersOfChunk(r, c)
        /\ built[q][d] = LayersOfChunk(q, d)
        /\ args.asymmetric => config = FullConfig(args)
    BY DEF IInv, Shape, BuiltRight
  <2>2. CASE r = q /\ c = d
    BY <2>2
  <2>3. CASE q = BdPartner(r) /\ d = Swapped(c) /\ args.asymmetric
    <3>1. config[q][d] = config[r][c]
      BY <2>1, <2>3, PairedTable DEF Accepted
    <3> QED BY <2>1, <2>3, <3>1, PairedOffset DEF LayersOfChunk
  <2>4. CASE ~args.asymmetric
    BY <2>1, <2>4, SymmetricLayout DEF Accepted, LayersOfChunk
  <2> QED BY <2>2, <2>3, <2>4, SameStage
<1> QED BY <1>1, InvariantKept, PTL

(***************************************************************************)
(* In the symmetric mode every pipeline runs the layers once and in order, *)
(* whatever the number of devices and of layers.                           *)
(***************************************************************************)
LEMMA StageNumber ==
  ASSUME NEW r \in Ranks, NEW c \in Chunks
  PROVE  StageOf(r, c) \in Nat
<1>1. c \in {0, 1, 2, 3} /\ r \in Nat /\ P \in Nat /\ r < P
  BY PAssumption DEF Ranks, Chunks
<1> QED BY <1>1 DEF StageOf

THEOREM SymmetricTiles == Spec => [](args.asymmetric \/ StagesTile)
<1>1. IInv => args.asymmetric \/ StagesTile
  <2> SUFFICES ASSUME IInv, ~args.asymmetric,
                      NEW r \in Ranks, NEW q \in Ranks,
                      NEW c \in Chunks, NEW d \in Chunks,
                      IsBuilt(r, c), IsBuilt(q, d)
               PROVE  /\ StageOf(q, d) = StageOf(r, c) + 1
                            => built[q][d].offset = built[r][c].offset + built[r][c].num
                      /\ StageOf(r, c) = 0 => built[r][c].offset = 0
                      /\ StageOf(r, c) = 2 * P - 1
                            => built[r][c].offset + built[r][c].num = args.layers
    BY DEF StagesTile
  <2> DEFINE n == SymmetricNum(args)
  <2>1. SymmetricAccepted(args) /\ args \in Launch
    BY DEF IInv, Shape, BuiltRight, Accepted
  <2>2. n \in Nat /\ args.layers = 2 * P * n
    BY <2>1, SymmetricLayout
  <2>3. built[r][c] = [offset |-> StageOf(r, c) * n, num |-> n]
    BY <2>1, SymmetricLayout DEF IInv, BuiltRight, LayersOfChunk
  <2>4. built[q][d] = [offset |-> StageOf(q, d) * n, num |-> n]
    BY <2>1, SymmetricLayout DEF IInv, BuiltRight, LayersOfChunk
  <2>5. StageOf(r, c) \in Nat /\ StageOf(q, d) \in Nat /\ P \in Nat
    BY StageNumber, PAssumption
  <2> HIDE DEF n
  <2> QED BY <2>2, <2>3, <2>4, <2>5
<1> QED BY <1>1, InvariantKept, PTL

----------------------------------------------------------------------------
(***************************************************************************)
(* Rates.  The values of a launch, as arguments.py and                     *)
(* get_optimizer_param_scheduler give them: the number of updates the      *)
(* weight decay grows over is not zero.                                    *)
(***************************************************************************)
RateValue ==
  [init_lr : Int, max_lr : Int, min_lr : Int, warmup : Nat, decay : Int,
   style : {"constant", "linear"}, start_wd : Int, end_wd : Int, wd_steps : Nat \ {0},
   wd_style : {"constant", "linear"}]

RateLaunch == [values : RateValue, use : BOOLEAN, override : BOOLEAN]

\* What the constructor has asserted of the values in force.
SoundRates(v) ==
  /\ v \in RateValue
  /\ v.warmup < v.decay
  /\ v.wd_style = "constant" => v.start_wd = v.end_wd

\* A value taken from here or there is where the checkpoint or the launch has it.
LEMMA LoadedNames ==
  ASSUME NEW own, NEW filed, NEW names, NEW name \in DOMAIN own
  PROVE  Loaded(own, filed, names)[name]
           = IF name \in names THEN Loaded(own, filed, DOMAIN own)[name] ELSE own[name]
BY DEF Loaded

LEMMA LoadedValues ==
  ASSUME NEW own \in RateValue, NEW filed \in RateValue
  PROVE  /\ launch.override => Loaded(own, filed, DOMAIN own) = own
         /\ ~ launch.override => Loaded(own, filed, DOMAIN own) = [filed EXCEPT !.init_lr = own.init_lr]
<1> DEFINE D == {"init_lr", "max_lr", "min_lr", "warmup", "decay", "style", "start_wd",
                 "end_wd", "wd_steps", "wd_style"}
<1>1. DOMAIN own = D /\ DOMAIN filed = D
  BY DEF RateValue
<1>2. own = [name \in D |-> own[name]] /\ filed = [name \in D |-> filed[name]]
  BY <1>1 DEF RateValue
<1>3. [filed EXCEPT !.init_lr = own.init_lr]
        = [name \in D |-> IF name = "init_lr" THEN own["init_lr"] ELSE filed[name]]
  BY <1>1, <1>2
<1> HIDE DEF D
<1>4. CASE launch.override
  BY <1>1, <1>2, <1>4 DEF Loaded, CheckAndSet
<1>5. CASE ~ launch.override
  <2>1. Loaded(own, filed, DOMAIN own)
          = [name \in D |-> IF name = "init_lr" THEN own[name] ELSE filed[name]]
    BY <1>1, <1>5 DEF Loaded, CheckAndSet
  <2>2. [name \in D |-> IF name = "init_lr" THEN own[name] ELSE filed[name]]
          = [name \in D |-> IF name = "init_lr" THEN own["init_lr"] ELSE filed[name]]
    OBVIOUS
  <2>3. QED BY <1>3, <1>5, <2>1, <2>2
<1>6. QED BY <1>4, <1>5

\* The curves agree with the lines they are.
LEMMA LineEnd ==
  ASSUME NEW a \in Int, NEW w \in Nat \ {0}
  PROVE  (a * w) \div w = a /\ (a * 0) \div w = 0
<1> DEFINE y == a * w
           q == y \div w
<1>1. y \in Int /\ q \in Int
  OBVIOUS
<1>2. y % w \in 0 .. w - 1 /\ y = (w * q) + (y % w)
  BY <1>1
<1> DEFINE m == y % w
<1> HIDE DEF q, m
<1>3. w * (a - q) = m /\ m \in 0 .. w - 1 /\ a - q \in Int
  <2>1. w * (a - q) = (w * a) - (w * q)
    BY <1>1
  <2>2. w * a = y /\ w * q \in Int
    BY <1>1
  <2>3. m \in 0 .. w - 1 /\ y = (w * q) + m
    BY <1>2 DEF m
  <2> HIDE DEF y
  <2>4. w * (a - q) = m
    BY <1>1, <2>1, <2>2, <2>3
  <2>5. QED BY <1>1, <2>3, <2>4
<1>4. a - q = 0
  <2> DEFINE d == a - q
  <2>1. d \in Int /\ w * d = m
    BY <1>3
  <2> HIDE DEF d
  <2>2. CASE d >= 1
    <3>1. w * d >= w
      BY <2>1, <2>2
    <3>2. QED BY <1>3, <2>1, <3>1
  <2>3. CASE d <= -1
    <3>1. w * d <= -w
      BY <2>1, <2>3
    <3>2. QED BY <1>3, <2>1, <3>1
  <2>4. CASE d = 0
    BY <2>4 DEF d
  <2>5. QED BY <2>1, <2>2, <2>3, <2>4
<1>5. q = a
  BY <1>1, <1>4
<1>6. (a * 0) \div w = 0
  <2>1. a * 0 = 0 /\ 0 \div w = 0
    OBVIOUS
  <2>2. QED BY <2>1
<1>7. QED BY <1>5, <1>6 DEF q

\* RightRate and RightDecay of a group and a number of samples.
RateAt(v, g, n) ==
  LET up == ((v.max_lr - v.init_lr) * Smaller(n, v.warmup)) \div Larger(v.warmup, 1)
      down == ((v.max_lr - v.min_lr) * Larger(0, v.decay - n)) \div (v.decay - v.warmup)
  IN  g.lr = IF v.warmup > 0 /\ n <= v.warmup THEN v.init_lr + up
             ELSE IF v.style = "constant" THEN v.max_lr ELSE v.min_lr + down

DecayAt(v, g, n) ==
  g.wd = v.start_wd + ((v.end_wd - v.start_wd) * Smaller(n, v.wd_steps)) \div v.wd_steps

LEMMA CurveIsLine ==
  ASSUME NEW v, SoundRates(v), NEW n \in Nat, NEW g
  PROVE  /\ g.lr = GetLr(v, n) => RateAt(v, g, n)
         /\ g.wd = GetWd(v, n) => DecayAt(v, g, n)
<1>1. /\ v.init_lr \in Int /\ v.max_lr \in Int /\ v.min_lr \in Int /\ v.warmup \in Nat
      /\ v.decay \in Int /\ v.start_wd \in Int /\ v.end_wd \in Int /\ v.wd_steps \in Nat \ {0}
      /\ v.warmup < v.decay
      /\ v.wd_style = "constant" => v.start_wd = v.end_wd
  BY DEF SoundRates, RateValue
<1>2. ASSUME g.lr = GetLr(v, n)
      PROVE  RateAt(v, g, n)
  <2>1. CASE v.warmup > 0 /\ n <= v.warmup
    <3>1. Smaller(n, v.warmup) = n /\ Larger(v.warmup, 1) = v.warmup
      BY <1>1, <2>1 DEF Smaller, Larger
    <3>2. GetLr(v, n) = v.init_lr + ((v.max_lr - v.init_lr) * n) \div v.warmup
      BY <2>1 DEF GetLr
    <3>3. QED BY <1>2, <2>1, <3>1, <3>2 DEF RateAt
  <2>2. CASE ~ (v.warmup > 0 /\ n <= v.warmup) /\ v.style = "constant"
    BY <1>2, <2>2 DEF RateAt, GetLr
  <2>3. CASE ~ (v.warmup > 0 /\ n <= v.warmup) /\ v.style # "constant" /\ n > v.decay
    <3>1. Larger(0, v.decay - n) = 0
      BY <1>1, <2>3 DEF Larger
    <3> DEFINE a == v.max_lr - v.min_lr
               w == v.decay - v.warmup
    <3>2. a \in Int /\ w \in Nat \ {0}
      BY <1>1
    <3> HIDE DEF a, w
    <3>3. (a * 0) \div w = 0
      BY <3>2, LineEnd
    <3>4. v.min_lr + (a * 0) \div w = v.min_lr
      BY <1>1, <3>3
    <3>5. GetLr(v, n) = v.min_lr
      BY <2>3 DEF GetLr
    <3>6. QED BY <1>2, <2>3, <3>1, <3>4, <3>5 DEF RateAt, a, w
  <2>4. CASE ~ (v.warmup > 0 /\ n <= v.warmup) /\ v.style # "constant" /\ ~ (n > v.decay)
    <3>1. Larger(0, v.decay - n) = v.decay - n
      BY <1>1, <2>4 DEF Larger
    <3>2. GetLr(v, n) = v.min_lr + ((v.max_lr - v.min_lr) * (v.decay - n)) \div (v.decay - v.warmup)
      BY <2>4 DEF GetLr
    <3>3. QED BY <1>2, <2>4, <3>1, <3>2 DEF RateAt
  <2>5. QED BY <2>1, <2>2, <2>3, <2>4
<1>3. ASSUME g.wd = GetWd(v, n)
      PROVE  DecayAt(v, g, n)
  <2> DEFINE a == v.end_wd - v.start_wd
             w == v.wd_steps
  <2>1. a \in Int /\ w \in Nat \ {0}
    BY <1>1
  <2>2. CASE v.wd_style = "constant"
    <3>1. a = 0 /\ GetWd(v, n) = v.end_wd /\ v.start_wd = v.end_wd
      BY <1>1, <2>2 DEF GetWd
    <3> DEFINE s == Smaller(n, w)
    <3>2. s \in Int
      BY <2>1 DEF Smaller
    <3> HIDE DEF s, a, w
    <3>3. a * s = 0 /\ 0 \div w = 0
      BY <2>1, <3>1, <3>2
    <3>4. v.start_wd + (a * s) \div w = v.end_wd
      BY <1>1, <3>1, <3>3
    <3>5. QED BY <1>3, <3>1, <3>4 DEF DecayAt, s, a, w
  <2>3. CASE v.wd_style # "constant" /\ n > w
    <3>1. Smaller(n, w) = w /\ GetWd(v, n) = v.end_wd
      BY <2>1, <2>3 DEF Smaller, GetWd
    <3>2. (a * w) \div w = a
      <4> HIDE DEF a, w
      <4>1. QED BY <2>1, LineEnd
    <3>3. v.start_wd + a = v.end_wd
      BY <1>1
    <3> HIDE DEF a, w
    <3>4. v.start_wd + (a * w) \div w = v.end_wd
      BY <3>2, <3>3
    <3>5. QED BY <1>3, <3>1, <3>4 DEF DecayAt, a, w
  <2>4. CASE v.wd_style # "constant" /\ ~ (n > w)
    <3>1. Smaller(n, w) = n
      BY <2>1, <2>4 DEF Smaller
    <3>2. GetWd(v, n) = v.start_wd + ((v.end_wd - v.start_wd) * n) \div v.wd_steps
      BY <2>4 DEF GetWd
    <3>3. QED BY <1>3, <3>1, <3>2 DEF DecayAt
  <2>5. QED BY <2>2, <2>3, <2>4
<1>4. QED BY <1>2, <1>3

\* A checkpoint has sound values, and as many updates as samples learned.
SoundFile(f) ==
  f # << >> =>
    /\ SoundRates(f[1].values) /\ f[1].num_steps \in Nat /\ f[1].learned = f[1].num_steps

\* What is in force: the launch's values, or the checkpoint's.
InForce(l, f) ==
  IF l.override \/ f = << >> THEN l.values
  ELSE [f[1].values EXCEPT !.init_lr = l.values.init_lr]

\* The groups have what the values give for the samples learned; before the
\* first update of a launch the weight decay is that of its own values.
GroupsSet(l, s, g, n, st) ==
  /\ s.num_steps = n /\ n \in Nat
  /\ SoundRates(s.values) /\ SoundRates(l.values)
  /\ g.lr = GetLr(s.values, n)
  /\ g.wd = GetWd(IF ~ st THEN l.values ELSE s.values, n)

RateInv ==
  /\ launch \in RateLaunch
  /\ SoundFile(rate_file)
  /\ scheduler = [values |-> scheduler.values, num_steps |-> scheduler.num_steps]
  /\ scheduler.num_steps >= 0 =>
       /\ GroupsSet(launch, scheduler, group, learned, stepped)
       /\ scheduler.values = InForce(launch, rate_file)

LEMMA RateInvRight ==
  ASSUME RateInv
  PROVE  RatesFollowSamples
<1> SUFFICES ASSUME scheduler.num_steps >= 0
             PROVE  /\ scheduler.num_steps = learned
                    /\ RateAt(scheduler.values, group, learned)
                    /\ DecayAt(IF ~ stepped THEN launch.values ELSE scheduler.values, group, learned)
                    /\ scheduler.values = InForce(launch, rate_file)
  BY DEF RatesFollowSamples, Up, RightRate, RightDecay, RateAt, DecayAt, InForce
<1>1. GroupsSet(launch, scheduler, group, learned, stepped)
      /\ scheduler.values = InForce(launch, rate_file)
  BY DEF RateInv
<1> DEFINE v == IF ~ stepped THEN launch.values ELSE scheduler.values
<1>2. SoundRates(v) /\ group.wd = GetWd(v, learned) /\ learned \in Nat
  BY <1>1 DEF GroupsSet
<1> HIDE DEF v
<1>3. DecayAt(v, group, learned)
  BY <1>2, CurveIsLine
<1>4. RateAt(scheduler.values, group, learned)
  BY <1>1, CurveIsLine DEF GroupsSet
<1>5. QED BY <1>1, <1>3, <1>4 DEF GroupsSet, v

LEMMA RateInit ==
  ASSUME RateLaunches \subseteq RateLaunch, InitRates
  PROVE  RateInv
<1>1. launch \in RateLaunch /\ scheduler.num_steps = -1 /\ rate_file = << >>
      /\ scheduler = [values |-> launch.values, num_steps |-> -1]
  BY DEF InitRates, Down
<1>2. ~ (scheduler.num_steps >= 0)
  BY <1>1
<1>3. QED BY <1>1, <1>2 DEF RateInv, SoundFile

LEMMA Asserted ==
  ASSUME NEW l \in RateLaunch, ConstructorAsserts(l)
  PROVE  SoundRates(l.values)
BY DEF ConstructorAsserts, SoundRates, RateLaunch

LEMMA LaunchKeeps ==
  ASSUME RateInv, LaunchRates
  PROVE  RateInv'
<1>1. /\ launch' = launch /\ rate_file' = rate_file /\ stepped' = FALSE
      /\ launch \in RateLaunch /\ SoundFile(rate_file)
      /\ ~ (scheduler.num_steps >= 0)
  BY DEF RateInv, LaunchRates, Up
<1> DEFINE bad == \/ ~ ConstructorAsserts(launch)
                  \/ rate_file # << >> /\ ChecksFail(launch.values, rate_file[1].values)
<1>2. CASE bad
  <2>1. scheduler' = scheduler
    BY <1>2 DEF LaunchRates
  <2>2. QED BY <1>1, <2>1 DEF RateInv
<1>3. ASSUME ~ bad, rate_file # << >>
      PROVE  RateInv'
  <2> DEFINE own == launch.values
             filed == rate_file[1].values
             n == rate_file[1].num_steps
             rates == Loaded(own, filed, RateNames)
             values == Loaded(own, filed, DOMAIN own)
             sch == scheduler'
             grp == group'
             lrn == learned'
  <2>1. /\ sch = [values |-> values, num_steps |-> n]
        /\ grp = Set(rates, n) /\ lrn = rate_file[1].learned
    BY <1>3 DEF LaunchRates, LoadStateDict
  <2>2. SoundRates(own)
    BY <1>1, <1>3, Asserted
  <2>3. SoundRates(filed) /\ n \in Nat /\ rate_file[1].learned = n
    BY <1>1, <1>3 DEF SoundFile
  <2>4. own \in RateValue /\ filed \in RateValue
    BY <2>2, <2>3 DEF SoundRates
  <2>5. /\ launch.override => values = own
        /\ ~ launch.override => values = [filed EXCEPT !.init_lr = own.init_lr]
    <3> HIDE DEF own, filed
    <3>1. QED BY <2>4, LoadedValues
  <2>6. values = InForce(launch, rate_file)
    BY <1>3, <2>5 DEF InForce
  <2>7. SoundRates(values)
    <3>1. CASE launch.override
      BY <2>2, <2>5, <3>1
    <3>2. CASE ~ launch.override
      <4>1. values = [filed EXCEPT !.init_lr = own.init_lr]
        BY <2>5, <3>2
      <4> HIDE DEF values, own, filed
      <4>2. values \in RateValue
        BY <2>4, <4>1 DEF RateValue
      <4>3. /\ values.warmup = filed.warmup /\ values.decay = filed.decay
            /\ values.wd_style = filed.wd_style
            /\ values.start_wd = filed.start_wd /\ values.end_wd = filed.end_wd
        BY <2>4, <4>1 DEF RateValue
      <4>4. QED BY <2>3, <4>2, <4>3 DEF SoundRates
    <3>3. QED BY <3>1, <3>2
  <2>8. /\ \A name \in RateNames : rates[name] = values[name]
        /\ \A name \in {"start_wd", "end_wd", "wd_steps", "wd_style"} : rates[name] = own[name]
    <3>1. RateNames \subseteq DOMAIN own
          /\ {"start_wd", "end_wd", "wd_steps", "wd_style"} \subseteq DOMAIN own \ RateNames
      BY <2>4 DEF RateValue, RateNames
    <3>2. \A name \in DOMAIN own :
            rates[name] = IF name \in RateNames THEN values[name] ELSE own[name]
      <4> HIDE DEF own, filed
      <4>1. QED BY LoadedNames
    <3> HIDE DEF own, filed, rates, values
    <3>3. QED BY <3>1, <3>2
  <2> HIDE DEF own, filed, rates, values
  <2>9. GetLr(rates, n) = GetLr(values, n)
    <3>1. /\ rates.init_lr = values.init_lr /\ rates.max_lr = values.max_lr
          /\ rates.min_lr = values.min_lr /\ rates.warmup = values.warmup
          /\ rates.decay = values.decay /\ rates.style = values.style
      BY <2>8 DEF RateNames
    <3>2. QED BY <3>1 DEF GetLr
  <2>10. GetWd(rates, n) = GetWd(own, n)
    <3>1. /\ rates.start_wd = own.start_wd /\ rates.end_wd = own.end_wd
          /\ rates.wd_steps = own.wd_steps /\ rates.wd_style = own.wd_style
      BY <2>8
    <3>2. QED BY <3>1 DEF GetWd
  <2>11. grp.lr = GetLr(values, n) /\ grp.wd = GetWd(own, n)
    BY <2>1, <2>9, <2>10 DEF Set
  <2>12. sch.values = values /\ sch.num_steps = n /\ lrn = n
    BY <2>1, <2>3
  <2> HIDE DEF n, sch, grp, lrn
  <2>13. GroupsSet(launch, sch, grp, lrn, FALSE)
    <3>1. launch.values = own
      BY DEF own
    <3>2. QED BY <2>2, <2>3, <2>7, <2>11, <2>12, <3>1 DEF GroupsSet
  <2>14. sch = [values |-> sch.values, num_steps |-> sch.num_steps]
    BY <2>1, <2>12
  <2>15. sch.values = InForce(launch, rate_file)
    BY <2>6, <2>12
  <2>16. QED BY <1>1, <2>13, <2>14, <2>15 DEF RateInv, sch, grp, lrn
<1>4. ASSUME ~ bad, rate_file = << >>
      PROVE  RateInv'
  <2> DEFINE own == launch.values
             sch == scheduler'
             grp == group'
             lrn == learned'
  <2>1. sch = [values |-> own, num_steps |-> 0] /\ grp = Set(own, 0) /\ lrn = 0
    BY <1>4 DEF LaunchRates
  <2>2. SoundRates(own)
    BY <1>1, <1>4, Asserted
  <2>3. own = InForce(launch, rate_file)
    BY <1>4 DEF InForce
  <2>4. grp.lr = GetLr(own, 0) /\ grp.wd = GetWd(own, 0) /\ sch.values = own /\ sch.num_steps = 0
    BY <2>1 DEF Set
  <2> HIDE DEF sch, grp, lrn
  <2>5. GroupsSet(launch, sch, grp, lrn, FALSE)
    BY <2>1, <2>2, <2>4 DEF GroupsSet
  <2>6. sch = [values |-> sch.values, num_steps |-> sch.num_steps]
    BY <2>1, <2>4
  <2>7. QED BY <1>1, <2>3, <2>4, <2>5, <2>6 DEF RateInv, sch, grp, lrn
<1>5. QED BY <1>2, <1>3, <1>4

LEMMA UpdateKeeps ==
  ASSUME BatchSizes \subseteq Nat, RateInv,
         NEW n \in BatchSizes, NEW successful \in BOOLEAN, Update(n, successful)
  PROVE  RateInv'
<1>1. /\ launch' = launch /\ rate_file' = rate_file
      /\ launch \in RateLaunch /\ SoundFile(rate_file) /\ n \in Nat
      /\ scheduler = [values |-> scheduler.values, num_steps |-> scheduler.num_steps]
      /\ GroupsSet(launch, scheduler, group, learned, stepped)
      /\ scheduler.values = InForce(launch, rate_file)
  BY DEF RateInv, Update, Up
<1>2. CASE ~ successful
  BY <1>1, <1>2 DEF RateInv, Update
<1>3. CASE successful
  <2> DEFINE values == scheduler.values
             m == scheduler.num_steps + n
             sch == scheduler'
             grp == group'
             lrn == learned'
  <2>1. /\ sch = [scheduler EXCEPT !.num_steps = @ + n]
        /\ grp = Set(values, m) /\ lrn = learned + n /\ stepped' = TRUE
    BY <1>3 DEF Update
  <2>2. sch = [values |-> values, num_steps |-> m]
    BY <1>1, <2>1
  <2>3. m \in Nat /\ lrn = m /\ SoundRates(values) /\ SoundRates(launch.values)
    BY <1>1, <2>1 DEF GroupsSet
  <2>4. grp.lr = GetLr(values, m) /\ grp.wd = GetWd(values, m)
    BY <2>1 DEF Set
  <2> HIDE DEF m, sch, grp, lrn
  <2>5. sch.values = values /\ sch.num_steps = m
    BY <2>2
  <2>6. GroupsSet(launch, sch, grp, lrn, TRUE)
    BY <2>3, <2>4, <2>5 DEF GroupsSet
  <2>7. sch = [values |-> sch.values, num_steps |-> sch.num_steps]
        /\ sch.values = InForce(launch, rate_file)
    BY <1>1, <2>2, <2>5
  <2>8. QED BY <1>1, <2>1, <2>6, <2>7 DEF RateInv, sch, grp, lrn
<1>4. QED BY <1>2, <1>3

LEMMA SaveKeeps ==
  ASSUME RateInv, SaveRates
  PROVE  RateInv'
<1>1. /\ launch' = launch /\ scheduler' = scheduler /\ group' = group /\ learned' = learned
      /\ stepped' = stepped
      /\ launch \in RateLaunch /\ SoundFile(rate_file)
      /\ scheduler = [values |-> scheduler.values, num_steps |-> scheduler.num_steps]
      /\ GroupsSet(launch, scheduler, group, learned, stepped)
      /\ scheduler.values = InForce(launch, rate_file)
  BY DEF RateInv, SaveRates, Up
<1> DEFINE file == rate_file'
           values == scheduler.values
<1>2. file = << [values |-> values, num_steps |-> scheduler.num_steps, learned |-> learned] >>
  BY DEF SaveRates
<1>3. file # << >> /\ file[1].values = values /\ file[1].num_steps = scheduler.num_steps
      /\ file[1].learned = learned
  BY <1>2
<1> HIDE DEF file
<1>4. SoundFile(file)
  BY <1>1, <1>3 DEF SoundFile, GroupsSet
<1>5. values \in RateValue /\ launch.values \in RateValue
  BY <1>1 DEF GroupsSet, SoundRates
<1>6. ~ launch.override => values.init_lr = launch.values.init_lr
  <2>1. CASE rate_file = << >>
    BY <1>1, <2>1 DEF InForce
  <2>2. CASE rate_file # << >>
    <3>1. SoundRates(rate_file[1].values)
      BY <1>1, <2>2 DEF SoundFile
    <3> DEFINE old == rate_file[1].values
               own == launch.values
    <3>2. old \in RateValue
      BY <3>1 DEF SoundRates
    <3>3. ~ launch.override => values = [old EXCEPT !.init_lr = own.init_lr]
      BY <1>1, <2>2 DEF InForce
    <3> HIDE DEF old, own, values
    <3>4. ~ launch.override => values.init_lr = own.init_lr
      BY <3>2, <3>3 DEF RateValue
    <3>5. QED BY <3>4 DEF own
  <2>3. QED BY <2>1, <2>2
<1>7. ~ launch.override => values = [values EXCEPT !.init_lr = launch.values.init_lr]
  BY <1>5, <1>6 DEF RateValue
<1>8. launch.override => values = launch.values
  BY <1>1 DEF InForce
<1>9. values = InForce(launch, file)
  BY <1>3, <1>7, <1>8 DEF InForce
<1>10. QED BY <1>1, <1>4, <1>9 DEF RateInv, file

LEMMA EndKeeps ==
  ASSUME RateLaunches \subseteq RateLaunch, RateInv, EndRates
  PROVE  RateInv'
<1>1. launch' \in RateLaunch /\ rate_file' = rate_file /\ SoundFile(rate_file)
  BY DEF RateInv, EndRates
<1> DEFINE sch == scheduler'
<1>2. sch = [values |-> launch'.values, num_steps |-> -1]
  BY DEF EndRates
<1> HIDE DEF sch
<1>3. sch.values = launch'.values /\ sch.num_steps = -1
  BY <1>2
<1>4. sch = [values |-> sch.values, num_steps |-> sch.num_steps] /\ ~ (sch.num_steps >= 0)
  BY <1>2, <1>3
<1>5. QED BY <1>1, <1>4 DEF RateInv, sch

\* Every update is made with the learning rate that belongs to the samples of
\* the successful updates before it, over all launches, and with the weight
\* decay that belongs to them, for the values in force: for all launches whose
\* values have the types of the arguments.  The first update behind a restart
\* still has the weight decay of the launch's own values, as load_state_dict
\* (optimizer_param_scheduler.py) sets the groups before it loads those.
THEOREM RatesAreOfSamples ==
  ASSUME RateLaunches \subseteq RateLaunch, BatchSizes \subseteq Nat
  PROVE  SpecRates => []RatesFollowSamples
<1>1. InitRates => RateInv
  BY RateInit
<1>2. RateInv /\ [NextRates]_rate_vars => RateInv'
  <2> SUFFICES ASSUME RateInv, [NextRates]_rate_vars
               PROVE  RateInv'
    OBVIOUS
  <2>1. CASE LaunchRates
    BY <2>1, LaunchKeeps
  <2>2. ASSUME NEW n \in BatchSizes, NEW successful \in BOOLEAN, Update(n, successful)
        PROVE  RateInv'
    BY <2>2, UpdateKeeps
  <2>3. CASE SaveRates
    BY <2>3, SaveKeeps
  <2>4. CASE EndRates
    BY <2>4, EndKeeps
  <2>5. CASE UNCHANGED rate_vars
    BY <2>5 DEF RateInv, rate_vars
  <2>6. QED BY <2>1, <2>2, <2>3, <2>4, <2>5 DEF NextRates
<1>3. RateInv => RatesFollowSamples
  BY RateInvRight
<1>4. QED BY <1>1, <1>2, <1>3, PTL DEF SpecRates

----------------------------------------------------------------------------
(***************************************************************************)
(* Samples.  The launch of a sampler, with what its constructor asserts    *)
(* and a dataset of at least one global micro batch, without which the     *)
(* code divides by zero; randperm gives every number once.                 *)
(***************************************************************************)
SamplerLaunch ==
  {l \in [total : Nat, micro : Nat \ {0}, size : Nat \ {0}, sharding : BOOLEAN, first : Nat] :
     l.micro * l.size <= l.total}

Permutes ==
  \A e, n \in Nat :
    /\ Permuted(e, n) \in [1 .. n -> 0 .. n - 1]
    /\ \A i, k \in 1 .. n : Permuted(e, n)[i] = Permuted(e, n)[k] => i = k

\* Batches of a rank in an epoch, and the length of its share and of what is
\* permuted.
PerRank(l) == l.total \div (l.micro * l.size)
Share(l) == PerRank(l) * l.micro
Mixed(l) == IF l.sharding THEN Share(l) ELSE (l.total \div l.micro) * l.micro

EvenLaunch(l) == l.sharding \/ l.total % (l.micro * l.size) < l.micro

\* Sample i of rank r in epoch e, and batch k.
SampleAt(l, e, r, i) ==
  IF l.sharding THEN (r * Share(l)) + Permuted(e, Mixed(l))[i]
  ELSE Permuted(e, Mixed(l))[r + ((i - 1) * l.size) + 1]

BatchAt(l, e, r, k) == [x \in 1 .. l.micro |-> SampleAt(l, e, r, ((k - 1) * l.micro) + x)]

\* Division is unique.
LEMMA DivMod ==
  ASSUME NEW m \in Nat, m > 0, NEW q \in Nat, NEW x \in 0 .. m - 1
  PROVE  ((q * m) + x) \div m = q /\ ((q * m) + x) % m = x
<1> DEFINE y == (q * m) + x
           a == y \div m
           b == y % m
<1>1. y \in Nat /\ q * m \in Nat
  OBVIOUS
<1>2. a \in Int /\ b \in 0 .. m - 1 /\ y = (a * m) + b
  BY <1>1
<1> HIDE DEF a, b
<1>3. (a - q) * m = x - b
  <2>1. (a - q) * m = (a * m) - (q * m)
    BY <1>2
  <2>2. QED BY <2>1, <1>2, <1>1
<1>4. a - q < 1
  <2>1. ASSUME a - q >= 1 PROVE FALSE
    <3>1. (a - q) * m >= m
      BY <2>1, <1>2
    <3>2. QED BY <3>1, <1>3, <1>2
  <2>2. QED BY <2>1, <1>2
<1>5. a - q > -1
  <2>1. ASSUME a - q <= -1 PROVE FALSE
    <3>1. (a - q) * m <= -m
      BY <2>1, <1>2
    <3>2. QED BY <3>1, <1>3, <1>2
  <2>2. QED BY <2>1, <1>2
<1>6. a = q
  BY <1>4, <1>5, <1>2
<1>7. QED BY <1>6, <1>2, <1>3 DEF a, b

LEMMA SameQuotient ==
  ASSUME NEW m \in Nat, m > 0, NEW p \in Nat, NEW q \in Nat,
         NEW x \in 0 .. m - 1, NEW y \in 0 .. m - 1, (p * m) + x = (q * m) + y
  PROVE  p = q /\ x = y
<1>1. ((p * m) + x) \div m = p /\ ((p * m) + x) % m = x
  BY DivMod
<1>2. ((q * m) + y) \div m = q /\ ((q * m) + y) % m = y
  BY DivMod
<1>3. QED BY <1>1, <1>2

\* What there is per epoch.
LEMMA EpochSizes ==
  ASSUME NEW l \in SamplerLaunch
  PROVE  /\ l.micro \in Nat \ {0} /\ l.size \in Nat \ {0} /\ l.total \in Nat /\ l.first \in Nat
         /\ l.micro * l.size \in Nat \ {0}
         /\ PerRank(l) \in Nat \ {0}
         /\ l.total - (l.total % (l.micro * l.size)) = PerRank(l) * (l.micro * l.size)
         /\ Share(l) \in Nat \ {0}
         /\ (PerRank(l) * (l.micro * l.size)) \div (l.micro * l.size) = PerRank(l)
<1> DEFINE m == l.micro
           s == l.size
           t == l.total
           k == PerRank(l)
           w == m * s
<1>1. m \in Nat \ {0} /\ s \in Nat \ {0} /\ t \in Nat /\ l.first \in Nat /\ w <= t
  BY DEF SamplerLaunch
<1>2. w \in Nat \ {0}
  <2>1. m >= 1 /\ s >= 1
    BY <1>1
  <2>2. m * s >= 1
    BY <1>1, <2>1
  <2>3. QED BY <1>1, <2>2
<1>3. k = t \div w
  BY DEF PerRank
<1> HIDE DEF m, s, t, w, k
<1>4. k \in Int /\ t % w \in 0 .. w - 1 /\ t = (w * k) + (t % w)
  BY <1>1, <1>2, <1>3
<1>5. k >= 1
  <2>1. ASSUME k <= 0 PROVE FALSE
    <3>1. w * k <= 0
      BY <1>2, <1>4, <2>1
    <3>2. QED BY <1>1, <1>2, <1>4, <3>1
  <2>2. QED BY <2>1, <1>4
<1>6. w * k = k * w /\ k * w \in Nat
  BY <1>2, <1>4, <1>5
<1>7. t - (t % w) = k * w
  BY <1>1, <1>2, <1>4, <1>6
<1>8. k * m \in Nat \ {0}
  <2>1. k * m >= 1
    BY <1>1, <1>4, <1>5
  <2>2. k * m \in Int
    BY <1>1, <1>4
  <2>3. QED BY <2>1, <2>2
<1>9. (k * w) \div w = k
  <2>1. ((k * w) + 0) \div w = k
    BY <1>2, <1>4, <1>5, DivMod
  <2>2. QED BY <1>6, <2>1
<1>10. Share(l) = k * m
  BY DEF Share, k, m
<1>11. k \in Nat \ {0}
  BY <1>4, <1>5
<1>12. l.total - (l.total % (l.micro * l.size)) = PerRank(l) * (l.micro * l.size)
  BY <1>7, Zenon DEF m, s, t, w, k
<1>13. (PerRank(l) * (l.micro * l.size)) \div (l.micro * l.size) = PerRank(l)
  BY <1>9, Zenon DEF m, s, w, k
<1>14. l.micro * l.size \in Nat \ {0} /\ PerRank(l) \in Nat \ {0} /\ Share(l) \in Nat \ {0}
  BY <1>2, <1>8, <1>10, <1>11, Zenon DEF m, s, w, k
<1>15. l.micro \in Nat \ {0} /\ l.size \in Nat \ {0} /\ l.total \in Nat /\ l.first \in Nat
  BY <1>1, Zenon DEF m, s, t
<1>16. QED BY <1>12, <1>13, <1>14, <1>15, Zenon

\* The place in an epoch, of a number of samples.
LEMMA PlaceInEpoch ==
  ASSUME loader \in SamplerLaunch, NEW e \in Nat, NEW j \in 0 .. PerRank(loader) - 1,
         NEW n, n = ((e * PerRank(loader)) + j) * MicroTimesSize
  PROVE  /\ Epoch(n) = e /\ CurrentEpochSamples(n) = j * MicroTimesSize
         /\ BucketOffset(n) = j * loader.micro
         /\ n \in Nat
<1> DEFINE m == loader.micro
           s == loader.size
           k == PerRank(loader)
           w == m * s
<1>1. m \in Nat \ {0} /\ s \in Nat \ {0} /\ k \in Nat \ {0} /\ w \in Nat \ {0}
  BY EpochSizes, Zenon
<1>2. ActiveTotal = k * w /\ MicroTimesSize = w
  BY EpochSizes, Zenon DEF ActiveTotal, LastBatchSize, MicroTimesSize
<1>3. j \in 0 .. k - 1
  OBVIOUS
<1>4. n = ((e * k) + j) * w
  BY <1>2
<1>5. w = m * s
  OBVIOUS
<1> HIDE DEF m, s, k, w
<1> DEFINE a == k * w
           x == j * w
<1>6. a \in Nat /\ a > 0 /\ x \in 0 .. a - 1 /\ n = (e * a) + x /\ n \in Nat
  <2>1. a \in Nat /\ x \in Nat
    BY <1>1, <1>3
  <2>2. a > 0
    BY <1>1
  <2>3. a - x = (k - j) * w
    BY <1>1, <1>3
  <2>4. (k - j) * w >= w
    <3> DEFINE d == k - j
    <3>1. d \in Nat /\ d >= 1
      BY <1>1, <1>3
    <3> HIDE DEF d
    <3>2. d * w >= w
      BY <1>1, <3>1
    <3>3. QED BY <3>2 DEF d
  <2>5. x <= a - 1
    BY <1>1, <2>1, <2>3, <2>4
  <2>6. n = (e * k * w) + (j * w)
    BY <1>1, <1>3, <1>4
  <2>7. e * a = e * k * w
    BY <1>1
  <2>8. e * a \in Nat
    BY <2>1
  <2>9. n = (e * a) + x
    BY <2>6, <2>7
  <2> HIDE DEF a, x
  <2>10. n \in Nat
    BY <2>1, <2>8, <2>9
  <2>11. QED BY <2>1, <2>2, <2>5, <2>9, <2>10
<1>7. n \div a = e /\ n % a = x
  <2> HIDE DEF a, x
  <2>1. ((e * a) + x) \div a = e /\ ((e * a) + x) % a = x
    BY <1>6, DivMod
  <2>2. QED BY <1>6, <2>1
<1>8. x \div s = j * m
  <2> DEFINE q == j * m
  <2>1. q \in Nat
    BY <1>1, <1>3
  <2>2. x = (q * s) + 0
    BY <1>1, <1>3, <1>5
  <2> HIDE DEF q, x
  <2>3. ((q * s) + 0) \div s = q
    BY <1>1, <2>1, DivMod
  <2>4. QED BY <2>2, <2>3 DEF q
<1>9. Epoch(n) = e
  BY <1>2, <1>7, Zenon DEF Epoch
<1>10. CurrentEpochSamples(n) = x
  BY <1>2, <1>7, Zenon DEF CurrentEpochSamples
<1>11. BucketOffset(n) = j * m
  BY <1>8, <1>10, Zenon DEF BucketOffset, s
<1>12. CurrentEpochSamples(n) = j * MicroTimesSize
  BY <1>2, <1>10, Zenon
<1>13. QED BY <1>6, <1>9, <1>11, <1>12 DEF m

\* What is left of the share of a rank at that place, with data_sharding,
LEMMA ShardedRest ==
  ASSUME loader \in SamplerLaunch, loader.sharding, NEW r \in LoaderRanks,
         NEW e \in Nat, NEW j \in 0 .. PerRank(loader) - 1,
         NEW n, n = ((e * PerRank(loader)) + j) * MicroTimesSize
  PROVE  IdxRange(r, n) = [i \in 1 .. (PerRank(loader) - j) * loader.micro |->
                             SampleAt(loader, e, r, (j * loader.micro) + i)]
<1>1. Epoch(n) = e /\ BucketOffset(n) = j * loader.micro
  BY PlaceInEpoch
<1>2. (loader.total \div MicroTimesSize) * loader.micro = Share(loader)
  BY DEF Share, PerRank, MicroTimesSize
<1>3. Mixed(loader) = Share(loader)
  BY DEF Mixed
<1>4. IdxRange(r, n) = [i \in 1 .. Share(loader) - (j * loader.micro) |->
                          (r * Share(loader)) + Permuted(e, Share(loader))[(j * loader.micro) + i]]
  BY <1>1, <1>2, Zenon DEF IdxRange, ShardedRange
<1>5. Share(loader) - (j * loader.micro) = (PerRank(loader) - j) * loader.micro
  <2> DEFINE k == PerRank(loader)
             m == loader.micro
  <2>1. k \in Nat /\ m \in Nat /\ j \in Nat
    BY EpochSizes
  <2>2. Share(loader) = k * m
    BY DEF Share
  <2> HIDE DEF k, m
  <2>3. (k * m) - (j * m) = (k - j) * m
    BY <2>1
  <2>4. QED BY <2>2, <2>3 DEF k, m
<1>6. \A i : SampleAt(loader, e, r, (j * loader.micro) + i)
               = (r * Share(loader)) + Permuted(e, Share(loader))[(j * loader.micro) + i]
  BY <1>3, Zenon DEF SampleAt
<1>7. QED BY <1>4, <1>5, <1>6, Zenon

\* and without.  The ranks take turns in what all of them permute.
LEMMA MixedIs ==
  ASSUME NEW l \in SamplerLaunch, ~ l.sharding, EvenLaunch(l)
  PROVE  Mixed(l) = Share(l) * l.size
<1> DEFINE m == l.micro
           s == l.size
           t == l.total
           k == PerRank(l)
           w == m * s
           left == t % w
<1>1. m \in Nat \ {0} /\ s \in Nat \ {0} /\ k \in Nat \ {0} /\ w \in Nat \ {0} /\ t \in Nat
  BY EpochSizes, Zenon
<1>2. t - left = k * w
  BY EpochSizes, Zenon
<1>3. left < m
  BY DEF EvenLaunch
<1>4. left \in Nat /\ w = m * s
  BY <1>1
<1>5. Mixed(l) = (t \div m) * m /\ Share(l) = k * m
  BY DEF Mixed, Share
<1> HIDE DEF m, s, t, k, w, left
<1> DEFINE q == k * s
<1>6. q \in Nat /\ k * w = q * m
  BY <1>1, <1>4
<1>7. t = (q * m) + left /\ left \in 0 .. m - 1
  <2>1. q * m \in Nat
    BY <1>1, <1>6
  <2>2. k * w = q * m
    BY <1>6
  <2> HIDE DEF q
  <2>3. QED BY <1>1, <1>2, <1>3, <1>4, <2>1, <2>2
<1>8. t \div m = q
  <2> HIDE DEF q
  <2>1. ((q * m) + left) \div m = q
    BY <1>1, <1>6, <1>7, DivMod
  <2>2. QED BY <1>7, <2>1
<1>9. q * m = k * m * s
  BY <1>1
<1>10. QED BY <1>5, <1>8, <1>9 DEF s

LEMMA InterleavedRest ==
  ASSUME loader \in SamplerLaunch, ~ loader.sharding, EvenLaunch(loader), Permutes,
         NEW r \in LoaderRanks,
         NEW e \in Nat, NEW j \in 0 .. PerRank(loader) - 1,
         NEW n, n = ((e * PerRank(loader)) + j) * MicroTimesSize
  PROVE  IdxRange(r, n) = [i \in 1 .. (PerRank(loader) - j) * loader.micro |->
                             SampleAt(loader, e, r, (j * loader.micro) + i)]
<1> DEFINE m == loader.micro
           s == loader.size
           k == PerRank(loader)
           size == Mixed(loader)
           random == Permuted(e, size)
           from == j * (m * s)
           active == SubSeq(random, from + 1, size)
           rest == (k - j) * m
<1>1. Epoch(n) = e /\ CurrentEpochSamples(n) = from
  BY PlaceInEpoch DEF MicroTimesSize
<1>2. m \in Nat \ {0} /\ s \in Nat \ {0} /\ k \in Nat \ {0} /\ j \in 0 .. k - 1
  BY EpochSizes
<1>3. size = k * m * s
  BY MixedIs DEF Share
<1>4. (loader.total \div loader.micro) * loader.micro = size
  BY DEF Mixed
<1>5. IdxRange(r, n) = [i \in 1 .. (Len(active) - r + s - 1) \div s |->
                          active[r + ((i - 1) * s) + 1]]
  BY <1>1, <1>4, Zenon DEF IdxRange, InterleavedRange
<1>6. r \in 0 .. s - 1
  BY DEF LoaderRanks
<1>7. \A i : SampleAt(loader, e, r, i) = random[r + ((i - 1) * s) + 1]
  BY Zenon DEF SampleAt
<1>8. size \in Nat => random \in [1 .. size -> 0 .. size - 1]
  BY Zenon DEF Permutes
<1> HIDE DEF m, s, k, size, random, active
<1>9. size \in Nat /\ from \in Nat /\ from <= size /\ size - from = rest * s /\ rest \in Nat
  <2>1. k * m * s \in Nat /\ from \in Nat /\ (k - j) \in Nat
    BY <1>2
  <2>2. rest \in Nat
    BY <1>2, <2>1
  <2>3. size - from = rest * s
    BY <1>2, <1>3
  <2>4. rest * s \in Nat
    BY <1>2, <2>2
  <2> HIDE DEF rest, from
  <2>5. QED BY <1>3, <2>1, <2>2, <2>3, <2>4
<1>11. /\ Len(active) = rest * s
       /\ \A i \in 1 .. rest * s : active[i] = random[from + i]
  <2> DEFINE a == from + 1
             len == rest * s
  <2>2. size - a + 1 = len /\ len \in Nat /\ from \in Nat /\ a = from + 1 /\ size \in Nat
        /\ len = rest * s
    BY <1>2, <1>9
  <2> HIDE DEF from, rest, len, a
  <2>3. \A i \in a .. size : random[i] \in 0 .. size - 1
    BY <1>8, <1>9, <2>2
  <2>4. active = SubSeq(random, a, size)
    BY Zenon DEF active, a
  <2>5. /\ Len(active) = (IF a <= size THEN size - a + 1 ELSE 0)
        /\ \A i \in 1 .. size - a + 1 : active[i] = random[a + i - 1]
    BY <2>2, <2>3, <2>4, SubSeqProperties
  <2>6. QED BY <2>2, <2>5
<1>12. (Len(active) - r + s - 1) \div s = rest
  <2> DEFINE x == s - 1 - r
  <2>1. x \in 0 .. s - 1
    BY <1>2, <1>6
  <2> HIDE DEF rest
  <2>2. rest * s \in Nat
    BY <1>2, <1>9
  <2>3. Len(active) - r + s - 1 = (rest * s) + x
    BY <1>2, <1>6, <1>11, <2>2
  <2> HIDE DEF x
  <2>4. ((rest * s) + x) \div s = rest
    BY <1>2, <1>9, <2>1, DivMod
  <2>5. QED BY <2>3, <2>4
<1>13. ASSUME NEW i \in 1 .. rest
       PROVE  active[r + ((i - 1) * s) + 1] = random[r + ((((j * m) + i) - 1) * s) + 1]
  <2> DEFINE u == i - 1
             p == u * s
             z == r + p + 1
  <2>1. u \in Nat /\ u + 1 <= rest
    BY <1>9
  <2>2. p \in Nat /\ p + s <= rest * s
    <3> HIDE DEF rest, u
    <3>1. (rest - (u + 1)) * s >= 0
      <4> DEFINE d == rest - (u + 1)
      <4>1. d \in Nat
        BY <1>9, <2>1
      <4> HIDE DEF d
      <4>2. d * s >= 0
        BY <1>2, <4>1
      <4>3. QED BY <4>2 DEF d
    <3>2. (rest - (u + 1)) * s = (rest * s) - (u * s) - s
      BY <1>2, <1>9, <2>1
    <3>3. u * s \in Nat /\ rest * s \in Nat
      BY <1>2, <1>9, <2>1
    <3>4. QED BY <1>2, <3>1, <3>2, <3>3
  <2> HIDE DEF rest
  <2>3. rest * s \in Nat
    BY <1>2, <1>9
  <2> HIDE DEF p
  <2>4. z \in 1 .. rest * s
    BY <1>2, <1>6, <2>2, <2>3
  <2>5. active[z] = random[from + z]
    BY <1>11, <2>4
  <2>6. from + z = r + (((j * m) + u) * s) + 1
    <3>1. ((j * m) + u) * s = from + p
      BY <1>2, <2>1 DEF p
    <3> HIDE DEF from, u
    <3>2. QED BY <1>6, <1>9, <2>2, <3>1
  <2>7. (j * m) + u = ((j * m) + i) - 1
    BY <1>2
  <2> HIDE DEF from
  <2>8. QED BY <2>5, <2>6, <2>7 DEF p
<1>14. QED
  <2>1. IdxRange(r, n) = [i \in 1 .. rest |-> active[r + ((i - 1) * s) + 1]]
    BY <1>5, <1>12, Zenon
  <2>2. \A i \in 1 .. rest : SampleAt(loader, e, r, (j * m) + i) = active[r + ((i - 1) * s) + 1]
    <3>1. \A i : SampleAt(loader, e, r, (j * m) + i) = random[r + ((((j * m) + i) - 1) * s) + 1]
      BY <1>7, Zenon
    <3>2. QED BY <1>13, <3>1, Zenon
  <2>3. IdxRange(r, n) = [i \in 1 .. rest |-> SampleAt(loader, e, r, (j * m) + i)]
    BY <2>1, <2>2, Zenon
  <2>4. QED BY <2>3, Zenon DEF m, s, k

\* What is left of epoch e on rank r behind j batches.
Left(l, e, r, j) == [b \in 1 .. PerRank(l) - j |-> BatchAt(l, e, r, j + b)]

\* What an iterator that begins there yields.
LEMMA BatchesOf ==
  ASSUME loader \in SamplerLaunch, EvenLaunch(loader), Permutes, NEW r \in LoaderRanks,
         NEW e \in Nat, NEW j \in 0 .. PerRank(loader) - 1,
         NEW n, n = ((e * PerRank(loader)) + j) * MicroTimesSize
  PROVE  Batches(IdxRange(r, n)) = Left(loader, e, r, j)
<1> DEFINE m == loader.micro
           d == PerRank(loader) - j
           range == IdxRange(r, n)
           Sample(i) == SampleAt(loader, e, r, (j * m) + i)
<1>1. range = [i \in 1 .. d * m |-> Sample(i)]
  BY ShardedRest, InterleavedRest
<1>2. m \in Nat \ {0} /\ d \in Nat \ {0} /\ j \in Nat
  BY EpochSizes
<1>3. Batches(range) = [b \in 1 .. Len(range) \div m |-> SubSeq(range, ((b - 1) * m) + 1, b * m)]
  BY DEF Batches
<1>4. \A b : BatchAt(loader, e, r, j + b)
               = [x \in 1 .. m |-> SampleAt(loader, e, r, (((j + b) - 1) * m) + x)]
  BY Zenon DEF BatchAt
<1> HIDE DEF m, d, range
<1>5. d * m \in Nat /\ (d * m) \div m = d
  <2>1. ((d * m) + 0) \div m = d
    BY <1>2, DivMod
  <2>2. d * m \in Nat
    BY <1>2
  <2>3. QED BY <2>1, <2>2
<1>6. DOMAIN range = 1 .. d * m /\ \A i \in 1 .. d * m : range[i] = Sample(i)
  BY <1>1, Zenon
<1>7. Len(range) = d * m
  <2> DEFINE len == d * m
  <2>1. len \in Nat /\ DOMAIN range = 1 .. len
    BY <1>5, <1>6
  <2> HIDE DEF len
  <2>2. \E S : range \in [1 .. len -> S]
    <3> DEFINE S == {Sample(i) : i \in 1 .. len}
    <3>1. range \in [1 .. len -> S]
      BY <1>1, Zenon DEF len
    <3>2. QED BY <3>1
  <2>3. Len(range) = len
    BY <2>1, <2>2
  <2>4. QED BY <2>3 DEF len
<1>8. ASSUME NEW b \in 1 .. d
      PROVE  SubSeq(range, ((b - 1) * m) + 1, b * m) = BatchAt(loader, e, r, j + b)
  <2> DEFINE from == (b - 1) * m
             till == b * m
             S == {Sample(i) : i \in 1 .. d * m}
             part == SubSeq(range, from + 1, till)
  <2>1. from \in Nat /\ till \in Nat /\ till = from + m /\ till <= d * m
    <3> DEFINE u == b - 1
               z == d - b
    <3>1. u \in Nat /\ z \in Nat /\ b = u + 1 /\ d = b + z
      BY <1>2
    <3> HIDE DEF u, z
    <3>2. u * m \in Nat /\ b * m = (u * m) + m /\ d * m = (b * m) + (z * m) /\ z * m \in Nat
      BY <1>2, <3>1
    <3>3. from = u * m
      BY DEF u
    <3>4. QED BY <1>2, <1>5, <3>2, <3>3
  <2>2. \A i \in from + 1 .. till : range[i] \in S
    <3> HIDE DEF from, till
    <3>1. \A i \in from + 1 .. till : i \in 1 .. d * m
      BY <1>5, <2>1
    <3>2. QED BY <1>6, <3>1, Zenon
  <2> HIDE DEF from, till, S
  <2> DEFINE a == from + 1
  <2>3. a \in Int /\ till \in Int /\ till - a + 1 = m /\ a <= till
    BY <1>2, <2>1
  <2>4. part = SubSeq(range, a, till)
    OBVIOUS
  <2> HIDE DEF a, part
  <2>5. part \in Seq(S) /\ Len(part) = m /\ \A x \in 1 .. m : part[x] = range[a + x - 1]
    <3>1. \A i \in a .. till : range[i] \in S
      BY <2>2 DEF a
    <3>2. /\ part \in Seq(S)
          /\ Len(part) = (IF a <= till THEN till - a + 1 ELSE 0)
          /\ \A i \in 1 .. till - a + 1 : part[i] = range[a + i - 1]
      BY <2>3, <2>4, <3>1, SubSeqProperties
    <3>3. QED BY <2>3, <3>2
  <2>6. \A x \in 1 .. m : part[x] = SampleAt(loader, e, r, (((j + b) - 1) * m) + x)
    <3> SUFFICES ASSUME NEW x \in 1 .. m
                 PROVE  part[x] = SampleAt(loader, e, r, (((j + b) - 1) * m) + x)
      OBVIOUS
    <3>1. a + x - 1 = from + x /\ from + x \in 1 .. d * m
      BY <1>2, <1>5, <2>1 DEF a
    <3>2. range[from + x] = Sample(from + x)
      BY <1>6, <3>1, Zenon
    <3>3. (j * m) + (from + x) = (((j + b) - 1) * m) + x
      <4> DEFINE u == b - 1
      <4>1. u \in Nat /\ (j + b) - 1 = j + u
        BY <1>2
      <4>2. from = u * m
        BY DEF from
      <4> HIDE DEF u
      <4>3. (j + u) * m = (j * m) + (u * m)
        BY <1>2, <4>1
      <4>4. j * m \in Nat /\ u * m \in Nat
        BY <1>2, <4>1
      <4>5. QED BY <1>2, <4>1, <4>2, <4>3, <4>4
    <3>4. Sample(from + x) = SampleAt(loader, e, r, (((j + b) - 1) * m) + x)
      BY <3>3, Zenon
    <3>5. QED BY <2>5, <3>1, <3>2, <3>4, Zenon
  <2>7. part = [x \in 1 .. m |-> SampleAt(loader, e, r, (((j + b) - 1) * m) + x)]
    <3>1. DOMAIN part = 1 .. m /\ part = [x \in 1 .. m |-> part[x]]
      BY <1>2, <2>5
    <3>2. QED BY <2>6, <3>1, Zenon
  <2>8. QED BY <1>4, <2>7, Zenon DEF part, a, from, till
<1>9. Len(range) \div m = d
  BY <1>5, <1>7, Zenon
<1>10. Batches(range) = [b \in 1 .. d |-> SubSeq(range, ((b - 1) * m) + 1, b * m)]
  BY <1>3, <1>9, Zenon
<1>11. Batches(range) = [b \in 1 .. d |-> BatchAt(loader, e, r, j + b)]
  BY <1>8, <1>10, Zenon
<1>12. QED BY <1>11, Zenon DEF range, d, Left

\* An iterator is behind the last of the n global micro batches that are consumed.
InPlace(l, it, r, n) ==
  it # << >> => \E e \in Nat, j \in 1 .. PerRank(l) :
                  n = (e * PerRank(l)) + j /\ it = <<e, Left(l, e, r, j)>>

\* What the ranks read when n global micro batches are consumed.
PlannedAt(l, n) ==
  [r \in 0 .. l.size - 1 |->
     <<n \div PerRank(l), BatchAt(l, n \div PerRank(l), r, (n % PerRank(l)) + 1)>>]

LEMMA LeftFacts ==
  ASSUME NEW l \in SamplerLaunch, NEW e, NEW r, NEW j \in 0 .. PerRank(l)
  PROVE  /\ j = PerRank(l) => Left(l, e, r, j) = << >>
         /\ j < PerRank(l) => /\ Left(l, e, r, j)[1] = BatchAt(l, e, r, j + 1)
                              /\ Tail(Left(l, e, r, j)) = Left(l, e, r, j + 1)
<1> DEFINE k == PerRank(l)
           s == Left(l, e, r, j)
           Batch(i) == BatchAt(l, e, r, i)
           S == {Batch(i) : i \in Nat}
<1>1. k \in Nat \ {0} /\ j \in 0 .. k
  BY EpochSizes
<1>2. s = [b \in 1 .. k - j |-> Batch(j + b)]
  BY DEF Left
<1>3. Left(l, e, r, j + 1) = [b \in 1 .. k - (j + 1) |-> Batch((j + 1) + b)]
  BY Zenon DEF Left
<1> HIDE DEF k, s, Batch
<1>4. \A i \in Nat : Batch(i) \in S
  OBVIOUS
<1> HIDE DEF S
<1>5. s \in [1 .. k - j -> S]
  <2>1. \A b \in 1 .. k - j : Batch(j + b) \in S
    BY <1>1, <1>4
  <2>2. QED BY <1>2, <2>1, Zenon
<1>6. k - j \in Nat
  BY <1>1
<1>7. s \in Seq(S) /\ Len(s) = k - j
  BY <1>5, <1>6
<1>8. j = k => s = << >>
  BY <1>1, <1>7, EmptySeq
<1>9. ASSUME j < k
      PROVE  s[1] = Batch(j + 1) /\ Tail(s) = Left(l, e, r, j + 1)
  <2>1. 1 \in 1 .. k - j
    BY <1>1, <1>9
  <2>2. s[1] = Batch(j + 1)
    BY <1>2, <2>1
  <2>3. s # << >>
    BY <1>7, <2>1
  <2>4. /\ Tail(s) \in Seq(S) /\ Len(Tail(s)) = Len(s) - 1
        /\ \A i \in 1 .. Len(Tail(s)) : Tail(s)[i] = s[i + 1]
    BY <1>7, <2>3, HeadTailProperties
  <2> DEFINE t == Tail(s)
             d == k - (j + 1)
  <2>5. d \in Nat /\ t \in Seq(S) /\ Len(t) = d /\ \A i \in 1 .. d : t[i] = s[i + 1]
    BY <1>1, <1>7, <1>9, <2>4
  <2>6. \A i \in 1 .. d : t[i] = Batch((j + 1) + i)
    <3> SUFFICES ASSUME NEW i \in 1 .. d
                 PROVE  t[i] = Batch((j + 1) + i)
      OBVIOUS
    <3>1. i + 1 \in 1 .. k - j /\ j + (i + 1) = (j + 1) + i
      BY <1>1
    <3>2. s[i + 1] = Batch(j + (i + 1))
      BY <1>2, <3>1
    <3>3. QED BY <2>5, <3>1, <3>2
  <2> HIDE DEF t, d
  <2>7. t = [i \in 1 .. d |-> t[i]]
    BY <2>5
  <2>8. t = [i \in 1 .. d |-> Batch((j + 1) + i)]
    BY <2>6, <2>7, Zenon
  <2>9. QED BY <1>3, <2>2, <2>8, Zenon DEF t, d
<1>10. QED BY <1>8, <1>9, Zenon DEF k, s, Batch

\* What a rank's iterator yields follows from what is consumed.
LEMMA NextIs ==
  ASSUME loader \in SamplerLaunch, EvenLaunch(loader), Permutes, NEW r \in LoaderRanks,
         NEW n \in Nat, consumed[r] = n * MicroTimesSize,
         InPlace(loader, iterators[r], r, n)
  PROVE  /\ n \div PerRank(loader) \in Nat
         /\ n % PerRank(loader) \in 0 .. PerRank(loader) - 1
         /\ n = ((n \div PerRank(loader)) * PerRank(loader)) + (n % PerRank(loader))
         /\ NextOf(r) = <<n \div PerRank(loader),
                          Left(loader, n \div PerRank(loader), r, n % PerRank(loader))>>
<1> DEFINE k == PerRank(loader)
           e == n \div k
           j == n % k
<1>1. k \in Nat \ {0}
  BY EpochSizes
<1>2. e \in Nat /\ j \in 0 .. k - 1 /\ n = (e * k) + j
  BY <1>1
<1>3. k = PerRank(loader)
  OBVIOUS
<1> HIDE DEF k, e, j
<1>4. Epoch(consumed[r]) = e
  BY <1>2, <1>3, PlaceInEpoch
<1>5. Batches(IdxRange(r, consumed[r])) = Left(loader, e, r, j)
  <2> DEFINE c == consumed[r]
  <2>1. c = ((e * PerRank(loader)) + j) * MicroTimesSize
    BY <1>2, <1>3
  <2>2. j \in 0 .. PerRank(loader) - 1
    BY <1>2, <1>3
  <2> HIDE DEF c
  <2>3. Batches(IdxRange(r, c)) = Left(loader, e, r, j)
    BY <1>2, <2>1, <2>2, BatchesOf
  <2>4. QED BY <2>3, Zenon DEF c
<1>6. CASE iterators[r] # << >> /\ iterators[r][2] # << >>
  <2>1. PICK d \in Nat, i \in 1 .. k :
          n = (d * k) + i /\ iterators[r] = <<d, Left(loader, d, r, i)>>
    BY <1>3, <1>6 DEF InPlace
  <2>2. iterators[r][2] = Left(loader, d, r, i)
    BY <2>1
  <2>3. i # k
    <3>1. i = k => Left(loader, d, r, i) = << >>
      BY <1>1, <1>3, LeftFacts
    <3>2. QED BY <1>6, <2>2, <3>1
  <2>4. i \in 0 .. k - 1
    BY <1>1, <2>3
  <2>5. d = e /\ i = j
    BY <1>1, <1>2, <2>1, <2>4, SameQuotient
  <2>6. NextOf(r) = iterators[r]
    BY <1>6, Zenon DEF NextOf
  <2>7. QED BY <1>2, <2>1, <2>5, <2>6, Zenon DEF k, e, j
<1>7. CASE ~ (iterators[r] # << >> /\ iterators[r][2] # << >>)
  <2>1. NextOf(r) = <<Epoch(consumed[r]), Batches(IdxRange(r, consumed[r]))>>
    BY <1>7, Zenon DEF NextOf
  <2>2. NextOf(r) = <<e, Left(loader, e, r, j)>>
    BY <1>4, <1>5, <2>1, Zenon
  <2>3. QED BY <1>2, <2>2, Zenon DEF k, e, j
<1>8. QED BY <1>6, <1>7

SamplerInv ==
  /\ loader \in Samplers
  /\ trained \in 0 .. MaxBatches /\ checkpoint \in 0 .. MaxBatches
  /\ consumed = [r \in LoaderRanks |-> (loader.first + trained) * MicroTimesSize]
  /\ reads = [b \in 1 .. MaxBatches |-> reads[b]]
  /\ EvenLaunch(loader) =>
       /\ \A r \in LoaderRanks : InPlace(loader, iterators[r], r, loader.first + trained)
       /\ \A b \in 1 .. MaxBatches : reads[b] # << >> => reads[b] = PlannedAt(loader, loader.first + (b - 1))

LEMMA SamplerStart ==
  ASSUME MaxBatches \in Nat, Samplers \subseteq SamplerLaunch, InitSampler
  PROVE  SamplerInv
<1>1. /\ loader \in Samplers /\ trained = 0 /\ checkpoint = 0
      /\ iterators = [r \in LoaderRanks |-> << >>]
      /\ consumed = [r \in LoaderRanks |-> loader.first * MicroTimesSize]
      /\ reads = [b \in 1 .. MaxBatches |-> << >>]
  BY DEF InitSampler
<1>2. loader.first + 0 = loader.first
  BY <1>1 DEF SamplerLaunch
<1>3. consumed = [r \in LoaderRanks |-> (loader.first + trained) * MicroTimesSize]
  BY <1>1, <1>2
<1>4. \A r \in LoaderRanks : InPlace(loader, iterators[r], r, loader.first + trained)
  BY <1>1, Zenon DEF InPlace
<1>5. \A b \in 1 .. MaxBatches : reads[b] = << >>
  BY <1>1
<1>6. QED BY <1>1, <1>3, <1>4, <1>5 DEF SamplerInv

LEMMA SamplerTrains ==
  ASSUME MaxBatches \in Nat, Samplers \subseteq SamplerLaunch, Permutes,
         SamplerInv, TrainMicrobatch
  PROVE  SamplerInv'
<1> DEFINE n == loader.first + trained
           k == PerRank(loader)
           it == iterators'
           rd == reads'
<1>1. /\ loader \in SamplerLaunch /\ loader \in Samplers /\ loader' = loader
      /\ trained \in 0 .. MaxBatches /\ trained < MaxBatches /\ trained' = trained + 1
      /\ checkpoint' = checkpoint /\ checkpoint \in 0 .. MaxBatches
      /\ consumed = [r \in LoaderRanks |-> n * MicroTimesSize]
      /\ consumed' = [r \in LoaderRanks |-> consumed[r] + MicroTimesSize]
      /\ reads = [b \in 1 .. MaxBatches |-> reads[b]]
  BY DEF SamplerInv, TrainMicrobatch
<1>2. loader.first \in Nat /\ MicroTimesSize \in Nat /\ n \in Nat /\ k \in Nat \ {0}
  BY <1>1, EpochSizes DEF MicroTimesSize
<1>3. consumed' = [r \in LoaderRanks' |-> ((loader.first + trained) * MicroTimesSize)']
  <2>1. LoaderRanks' = LoaderRanks /\ MicroTimesSize' = MicroTimesSize
    BY <1>1 DEF LoaderRanks, MicroTimesSize
  <2>2. (n * MicroTimesSize) + MicroTimesSize = (loader.first + (trained + 1)) * MicroTimesSize
    <3> DEFINE w == MicroTimesSize
               f == loader.first
    <3>1. w \in Nat /\ f \in Nat /\ trained \in Nat /\ n = f + trained
      BY <1>1, <1>2
    <3> HIDE DEF w, f, n
    <3>2. f + (trained + 1) = n + 1 /\ (n + 1) * w = (n * w) + w
      BY <3>1
    <3>3. QED BY <3>2, Zenon DEF w, f
  <2> HIDE DEF n
  <2>3. \A r \in LoaderRanks : consumed[r] = n * MicroTimesSize
    BY <1>1
  <2>4. consumed' = [r \in LoaderRanks |-> (loader.first + (trained + 1)) * MicroTimesSize]
    BY <1>1, <2>2, <2>3, Zenon
  <2>5. QED BY <1>1, <2>1, <2>4, Zenon
<1>4. /\ rd = [reads EXCEPT ![trained + 1] = [r \in LoaderRanks |-> <<NextOf(r)[1], NextOf(r)[2][1]>>]]
      /\ it = [r \in LoaderRanks |-> <<NextOf(r)[1], Tail(NextOf(r)[2])>>]
  BY DEF TrainMicrobatch
<1>5. rd = [b \in 1 .. MaxBatches |-> rd[b]]
  BY <1>1, <1>4
<1>6. ASSUME EvenLaunch(loader)
      PROVE  /\ \A r \in LoaderRanks : InPlace(loader, it[r], r, loader.first + (trained + 1))
             /\ \A b \in 1 .. MaxBatches :
                  rd[b] # << >> => rd[b] = PlannedAt(loader, loader.first + (b - 1))
  <2> DEFINE e == n \div k
             j == n % k
  <2> HIDE DEF n
  <2>1. /\ e \in Nat /\ j \in 0 .. k - 1 /\ n = (e * k) + j
    BY <1>2
  <2>2. ASSUME NEW r \in LoaderRanks
        PROVE  NextOf(r) = <<e, Left(loader, e, r, j)>>
    <3>1. consumed[r] = n * MicroTimesSize
      BY <1>1
    <3>2. InPlace(loader, iterators[r], r, n)
      BY <1>6 DEF SamplerInv, n
    <3>3. QED BY <1>1, <1>2, <1>6, <3>1, <3>2, NextIs
  <2> HIDE DEF e, j
  <2>3. k = PerRank(loader)
    OBVIOUS
  <2> HIDE DEF k
  <2>4. j \in 0 .. PerRank(loader) /\ j < PerRank(loader)
    BY <1>2, <2>1, <2>3
  <2>5. ASSUME NEW r \in LoaderRanks
        PROVE  /\ NextOf(r)[1] = e /\ NextOf(r)[2][1] = BatchAt(loader, e, r, j + 1)
               /\ Tail(NextOf(r)[2]) = Left(loader, e, r, j + 1)
    <3>1. /\ Left(loader, e, r, j)[1] = BatchAt(loader, e, r, j + 1)
          /\ Tail(Left(loader, e, r, j)) = Left(loader, e, r, j + 1)
      BY <1>1, <2>4, LeftFacts
    <3> DEFINE s == Left(loader, e, r, j)
    <3>2. NextOf(r)[1] = e /\ NextOf(r)[2] = s
      <4> HIDE DEF s
      <4>1. NextOf(r) = <<e, s>>
        BY <2>2, Zenon DEF s
      <4>2. QED BY <4>1
    <3>3. QED BY <3>1, <3>2, Zenon
  <2>6. ASSUME NEW r \in LoaderRanks
        PROVE  InPlace(loader, it[r], r, loader.first + (trained + 1))
    <3>1. it[r] = <<e, Left(loader, e, r, j + 1)>>
      BY <1>4, <2>5, Zenon
    <3>2. loader.first + (trained + 1) = (e * k) + (j + 1) /\ j + 1 \in 1 .. k
      <4>1. e * k \in Nat
        BY <1>2, <2>1
      <4>2. loader.first + (trained + 1) = n + 1
        BY <1>1, <1>2 DEF n
      <4>3. QED BY <1>2, <2>1, <4>1, <4>2
    <3>3. QED BY <2>1, <2>3, <3>1, <3>2, Zenon DEF InPlace
  <2>7. ASSUME NEW b \in 1 .. MaxBatches, rd[b] # << >>
        PROVE  rd[b] = PlannedAt(loader, loader.first + (b - 1))
    <3>1. CASE b = trained + 1
      <4>1. rd[b] = [r \in LoaderRanks |-> <<NextOf(r)[1], NextOf(r)[2][1]>>]
        BY <1>1, <1>4, <3>1
      <4>2. rd[b] = [r \in LoaderRanks |-> <<e, BatchAt(loader, e, r, j + 1)>>]
        BY <2>5, <4>1, Zenon
      <4>3. loader.first + (b - 1) = n
        BY <1>1, <1>2, <3>1 DEF n
      <4>4. QED BY <4>2, <4>3, Zenon DEF PlannedAt, LoaderRanks, e, j, k
    <3>2. CASE b # trained + 1
      <4>1. rd[b] = reads[b]
        BY <1>1, <1>4, <3>2
      <4>2. QED BY <1>6, <2>7, <4>1 DEF SamplerInv
    <3>3. QED BY <3>1, <3>2
  <2>8. QED BY <2>6, <2>7
<1> HIDE DEF rd, it
<1>7. trained + 1 \in 0 .. MaxBatches
  BY <1>1
<1>8. LoaderRanks' = LoaderRanks
  BY <1>1 DEF LoaderRanks
<1>9. QED BY <1>1, <1>3, <1>5, <1>6, <1>7, <1>8 DEF SamplerInv, rd, it

LEMMA SamplerRestarts ==
  ASSUME SamplerInv, SaveSampler \/ Relaunch \/ UNCHANGED sampler_vars
  PROVE  SamplerInv'
<1>1. CASE SaveSampler
  <2>1. loader' = loader /\ iterators' = iterators /\ consumed' = consumed /\ trained' = trained
        /\ reads' = reads /\ checkpoint' = trained
    BY <1>1 DEF SaveSampler
  <2>2. LoaderRanks' = LoaderRanks /\ MicroTimesSize' = MicroTimesSize
    BY <2>1 DEF LoaderRanks, MicroTimesSize
  <2>3. QED BY <2>1, <2>2 DEF SamplerInv
<1>2. CASE Relaunch
  <2>1. loader' = loader /\ trained' = checkpoint /\ checkpoint' = checkpoint /\ reads' = reads
        /\ consumed' = [r \in LoaderRanks |-> (loader.first + checkpoint) * MicroTimesSize]
        /\ iterators' = [r \in LoaderRanks |-> << >>]
    BY <1>2 DEF Relaunch
  <2>2. LoaderRanks' = LoaderRanks /\ MicroTimesSize' = MicroTimesSize
    BY <2>1 DEF LoaderRanks, MicroTimesSize
  <2>3. \A r \in LoaderRanks : InPlace(loader, iterators'[r], r, loader.first + checkpoint)
    BY <2>1, Zenon DEF InPlace
  <2>4. QED BY <2>1, <2>2, <2>3 DEF SamplerInv
<1>3. CASE UNCHANGED sampler_vars
  <2>1. loader' = loader /\ iterators' = iterators /\ consumed' = consumed /\ trained' = trained
        /\ reads' = reads /\ checkpoint' = checkpoint
    BY <1>3 DEF sampler_vars
  <2>2. LoaderRanks' = LoaderRanks /\ MicroTimesSize' = MicroTimesSize
    BY <2>1 DEF LoaderRanks, MicroTimesSize
  <2>3. QED BY <2>1, <2>2 DEF SamplerInv
<1>4. QED BY <1>1, <1>2, <1>3

\* The places of an epoch have different samples, over all ranks.
LEMMA SampleOnce ==
  ASSUME NEW l \in SamplerLaunch, EvenLaunch(l), Permutes, NEW e \in Nat,
         NEW r \in 0 .. l.size - 1, NEW q \in 0 .. l.size - 1,
         NEW i \in 1 .. Share(l), NEW k \in 1 .. Share(l),
         SampleAt(l, e, r, i) = SampleAt(l, e, q, k)
  PROVE  r = q /\ i = k
<1> DEFINE s == l.size
           share == Share(l)
           mixed == Mixed(l)
           random == Permuted(e, mixed)
<1>1. s \in Nat \ {0} /\ share \in Nat \ {0}
  BY EpochSizes
<1>2. mixed \in Nat => random \in [1 .. mixed -> 0 .. mixed - 1]
                       /\ \A x, y \in 1 .. mixed : random[x] = random[y] => x = y
  BY Zenon DEF Permutes
<1>3. CASE l.sharding
  <2>1. mixed = share
    BY <1>3 DEF Mixed
  <2>2. (r * share) + random[i] = (q * share) + random[k]
    BY <1>3, Zenon DEF SampleAt
  <2> HIDE DEF s, share, mixed, random
  <2>3. i \in 1 .. share /\ k \in 1 .. share /\ r \in Nat /\ q \in Nat
    BY <1>1 DEF share
  <2>4. random[i] \in 0 .. share - 1 /\ random[k] \in 0 .. share - 1
    BY <1>1, <1>2, <2>1, <2>3
  <2>5. r = q /\ random[i] = random[k]
    <3> DEFINE x == random[i]
               y == random[k]
    <3>1. x \in 0 .. share - 1 /\ y \in 0 .. share - 1 /\ (r * share) + x = (q * share) + y
      BY <2>2, <2>4
    <3> HIDE DEF x, y
    <3>2. r = q /\ x = y
      BY <1>1, <2>3, <3>1, SameQuotient
    <3>3. QED BY <3>2 DEF x, y
  <2>6. QED BY <1>1, <1>2, <2>1, <2>3, <2>5
<1>4. CASE ~ l.sharding
  <2>1. mixed = share * s
    BY <1>4, MixedIs
  <2> DEFINE x == r + ((i - 1) * s) + 1
             y == q + ((k - 1) * s) + 1
  <2>2. random[x] = random[y]
    BY <1>4, Zenon DEF SampleAt
  <2>3. ASSUME NEW o \in 0 .. s - 1, NEW u \in 1 .. share
        PROVE  /\ o + ((u - 1) * s) + 1 \in 1 .. mixed
               /\ u - 1 \in Nat /\ (u - 1) * s \in Nat
    <3> DEFINE d == share - u
               v == u - 1
    <3>1. d \in Nat /\ v \in Nat /\ share = d + v + 1 /\ u = v + 1
      BY <1>1
    <3> HIDE DEF d, v, s, share, mixed
    <3>2. d * s \in Nat /\ v * s \in Nat /\ mixed = (d * s) + (v * s) + s
      BY <1>1, <2>1, <3>1
    <3> DEFINE ds == d * s
               vs == v * s
    <3>3. ds \in Nat /\ vs \in Nat /\ mixed = ds + vs + s
      BY <3>2
    <3> HIDE DEF ds, vs
    <3>4. o + vs + 1 \in 1 .. mixed
      BY <1>1, <3>3
    <3>5. QED BY <3>1, <3>3, <3>4, Zenon DEF v, vs
  <2>4. x \in 1 .. mixed /\ y \in 1 .. mixed /\ (i - 1) * s \in Nat /\ (k - 1) * s \in Nat
        /\ i - 1 \in Nat /\ k - 1 \in Nat
    BY <2>3
  <2>5. mixed \in Nat
    <3> HIDE DEF s, share, mixed
    <3>1. QED BY <1>1, <2>1
  <2>6. x = y
    <3> HIDE DEF s, share, mixed, x, y, random
    <3>1. QED BY <1>2, <2>2, <2>4, <2>5
  <2> DEFINE u == i - 1
             v == k - 1
             us == u * s
             vs == v * s
  <2>7. us \in Nat /\ vs \in Nat /\ r + us + 1 = q + vs + 1 /\ r \in Nat /\ q \in Nat
    BY <2>4, <2>6
  <2>8. us + r = vs + q
    <3> HIDE DEF us, vs
    <3>1. QED BY <2>7
  <2>9. u \in Nat /\ v \in Nat /\ r \in 0 .. s - 1 /\ q \in 0 .. s - 1
    BY <2>4
  <2>10. (u * s) + r = (v * s) + q
    BY <2>8
  <2>11. u = v /\ r = q
    <3> HIDE DEF u, v, s
    <3>1. QED BY <1>1, <2>9, <2>10, SameQuotient
  <2>12. i = k
    BY <1>1, <2>11
  <2>13. QED BY <2>11, <2>12
<1>5. QED BY <1>3, <1>4

\* and so have its batches.
LEMMA BatchOnce ==
  ASSUME NEW l \in SamplerLaunch, EvenLaunch(l), Permutes, NEW e \in Nat,
         NEW r \in 0 .. l.size - 1, NEW q \in 0 .. l.size - 1,
         NEW i \in 1 .. PerRank(l), NEW k \in 1 .. PerRank(l),
         NEW x \in 1 .. l.micro, NEW y \in 1 .. l.micro,
         BatchAt(l, e, r, i)[x] = BatchAt(l, e, q, k)[y]
  PROVE  r = q /\ i = k /\ x = y
<1> DEFINE m == l.micro
           u == i - 1
           v == k - 1
           share == Share(l)
           n == PerRank(l)
<1>1. m \in Nat \ {0} /\ n \in Nat \ {0} /\ u \in Nat /\ v \in Nat /\ share = n * m
      /\ x \in 1 .. m /\ y \in 1 .. m /\ u + 1 <= n /\ v + 1 <= n
  BY EpochSizes DEF Share
<1>2. SampleAt(l, e, r, (u * m) + x) = SampleAt(l, e, q, (v * m) + y)
  BY DEF BatchAt
<1> HIDE DEF m, u, v, share, n
<1>3. ASSUME NEW w \in Nat, w + 1 <= n, NEW z \in 1 .. m
      PROVE  (w * m) + z \in 1 .. share
  <2> DEFINE d == n - (w + 1)
  <2>1. d \in Nat /\ n = d + w + 1
    BY <1>1, <1>3
  <2> HIDE DEF d
  <2>2. d * m \in Nat /\ w * m \in Nat /\ share = (d * m) + (w * m) + m
    BY <1>1, <2>1
  <2> DEFINE dm == d * m
             wm == w * m
  <2>3. dm \in Nat /\ wm \in Nat /\ share = dm + wm + m
    BY <2>2
  <2> HIDE DEF dm, wm
  <2>4. wm + z \in 1 .. share
    BY <1>1, <2>3
  <2>5. QED BY <2>4 DEF wm
<1>4. r = q /\ (u * m) + x = (v * m) + y
  <2> DEFINE a == (u * m) + x
             b == (v * m) + y
  <2>1. a \in 1 .. Share(l) /\ b \in 1 .. Share(l)
    BY <1>1, <1>3 DEF share
  <2>2. SampleAt(l, e, r, a) = SampleAt(l, e, q, b)
    BY <1>2
  <2> HIDE DEF a, b
  <2>3. r = q /\ a = b
    BY <2>1, <2>2, SampleOnce
  <2>4. QED BY <2>3 DEF a, b
<1>5. (u * m) + (x - 1) = (v * m) + (y - 1)
  <2> DEFINE um == u * m
             vm == v * m
  <2>1. um \in Nat /\ vm \in Nat /\ um + x = vm + y
    BY <1>1, <1>4
  <2> HIDE DEF um, vm
  <2>2. um + (x - 1) = vm + (y - 1)
    BY <1>1, <2>1
  <2>3. QED BY <2>2 DEF um, vm
<1>6. u = v /\ x - 1 = y - 1
  <2>1. x - 1 \in 0 .. m - 1 /\ y - 1 \in 0 .. m - 1
    BY <1>1
  <2>2. QED BY <1>1, <1>5, <2>1, SameQuotient
<1>7. QED BY <1>1, <1>4, <1>6 DEF u, v

LEMMA PlannedIs ==
  ASSUME loader \in SamplerLaunch, EvenLaunch(loader), Permutes, NEW b \in Nat \ {0}
  PROVE  Planned(b) = PlannedAt(loader, loader.first + (b - 1))
<1> DEFINE n == loader.first + (b - 1)
           k == PerRank(loader)
           e == n \div k
           at == (n % k) + 1
<1>1. k \in Nat \ {0} /\ n \in Nat
  BY EpochSizes
<1>2. e \in Nat /\ n % k \in 0 .. k - 1 /\ at \in 1 .. k
  BY <1>1
<1>3. PerEpoch = k /\ ActiveTotal = k * MicroTimesSize
  BY EpochSizes, Zenon DEF PerEpoch, ActiveTotal, LastBatchSize, MicroTimesSize
<1>4. loader.first + b - 1 = n
  BY EpochSizes
<1>5. Planned(b) = [r \in LoaderRanks |-> <<e, Batches(IdxRange(r, e * ActiveTotal))[at]>>]
  BY <1>3, <1>4, Zenon DEF Planned
<1>6. MicroTimesSize \in Nat
  BY EpochSizes DEF MicroTimesSize
<1>7. PlannedAt(loader, n) = [r \in LoaderRanks |-> <<e, BatchAt(loader, e, r, at)>>]
  BY DEF PlannedAt, LoaderRanks
<1>8. k = PerRank(loader)
  OBVIOUS
<1> HIDE DEF n, k, e, at
<1>9. ASSUME NEW r \in LoaderRanks
      PROVE  Batches(IdxRange(r, e * ActiveTotal))[at] = BatchAt(loader, e, r, at)
  <2> DEFINE c == e * ActiveTotal
             j == 0
  <2>1. c = ((e * PerRank(loader)) + j) * MicroTimesSize
    BY <1>1, <1>2, <1>3, <1>6, <1>8
  <2>2. j \in 0 .. PerRank(loader) - 1
    BY <1>1, <1>8
  <2>3. j = 0
    OBVIOUS
  <2> HIDE DEF c, j
  <2>4. Batches(IdxRange(r, c)) = [i \in 1 .. PerRank(loader) - j |-> BatchAt(loader, e, r, j + i)]
    <3>1. Batches(IdxRange(r, c)) = Left(loader, e, r, j)
      BY <1>2, <2>1, <2>2, BatchesOf
    <3>2. QED BY <3>1, Zenon DEF Left
  <2>5. at \in 1 .. PerRank(loader) - j /\ j + at = at
    BY <1>1, <1>2, <1>8, <2>3
  <2>6. Batches(IdxRange(r, c))[at] = BatchAt(loader, e, r, at)
    BY <2>4, <2>5, Zenon
  <2>7. QED BY <2>6, Zenon DEF c
<1>10. QED BY <1>5, <1>7, <1>9, Zenon DEF n

LEMMA SamplerInvRight ==
  ASSUME MaxBatches \in Nat, Samplers \subseteq SamplerLaunch, Permutes, SamplerInv
  PROVE  CyclesAsPlanned
<1> SUFFICES ASSUME Even, NEW b \in 1 .. MaxBatches, reads[b] # << >>
             PROVE  /\ reads[b] = Planned(b)
                    /\ \A a \in 1 .. b, r, q \in LoaderRanks :
                         reads[a] # << >> /\ <<a, r>> # <<b, q>> /\ reads[a][r][1] = reads[b][q][1] =>
                           ToSet(reads[a][r][2]) \cap ToSet(reads[b][q][2]) = {}
                    /\ \A r \in LoaderRanks : IsInjective(reads[b][r][2])
  BY DEF CyclesAsPlanned
<1>1. loader \in SamplerLaunch /\ EvenLaunch(loader)
  BY DEF SamplerInv, Even, EvenLaunch, LastBatchSize, MicroTimesSize
<1> DEFINE k == PerRank(loader)
           f == loader.first
           Ep(c) == (f + (c - 1)) \div k
           At(c) == ((f + (c - 1)) % k) + 1
<1>2. k \in Nat \ {0} /\ f \in Nat
  BY <1>1, EpochSizes
<1>3. ASSUME NEW c \in 1 .. MaxBatches
      PROVE  /\ Ep(c) \in Nat /\ At(c) \in 1 .. k
             /\ f + (c - 1) = (Ep(c) * k) + (At(c) - 1)
  <2> DEFINE n == f + (c - 1)
  <2> HIDE DEF k, f
  <2>1. n \in Nat
    BY <1>2, <1>3
  <2> HIDE DEF n
  <2>2. n \div k \in Nat /\ n % k \in 0 .. k - 1 /\ n = ((n \div k) * k) + (n % k)
    BY <1>2, <2>1
  <2>3. ((n % k) + 1) - 1 = n % k /\ (n % k) + 1 \in 1 .. k
    <3> DEFINE z == n % k
    <3>1. z \in 0 .. k - 1
      BY <2>2
    <3> HIDE DEF z
    <3>2. (z + 1) - 1 = z /\ z + 1 \in 1 .. k
      BY <1>2, <3>1
    <3>3. QED BY <3>2 DEF z
  <2>4. QED BY <2>2, <2>3, Zenon DEF n
<1>4. ASSUME NEW c \in 1 .. MaxBatches, reads[c] # << >>, NEW r \in LoaderRanks
      PROVE  reads[c][r][1] = Ep(c) /\ reads[c][r][2] = BatchAt(loader, Ep(c), r, At(c))
  <2> DEFINE x == Ep(c)
             y == BatchAt(loader, Ep(c), r, At(c))
  <2>1. reads[c] = PlannedAt(loader, f + (c - 1))
    BY <1>1, <1>4 DEF SamplerInv
  <2>2. reads[c][r] = <<x, y>>
    BY <2>1, Zenon DEF PlannedAt, LoaderRanks
  <2> HIDE DEF x, y
  <2>3. reads[c][r][1] = x /\ reads[c][r][2] = y
    BY <2>2
  <2>4. QED BY <2>3, Zenon DEF x, y
<1>5. reads[b] = Planned(b)
  <2>1. reads[b] = PlannedAt(loader, f + (b - 1))
    BY <1>1 DEF SamplerInv
  <2>2. b \in Nat \ {0}
    OBVIOUS
  <2>3. QED BY <1>1, <2>1, <2>2, PlannedIs
<1> DEFINE m == loader.micro
<1>7. ASSUME NEW e, NEW r, NEW i
      PROVE  DOMAIN BatchAt(loader, e, r, i) = 1 .. m
  BY Zenon DEF BatchAt
<1>8. k = PerRank(loader) /\ m = loader.micro
  OBVIOUS
<1>9. LoaderRanks = 0 .. loader.size - 1
  BY DEF LoaderRanks
<1> HIDE DEF k, f, Ep, At, m
<1>10. ASSUME NEW a \in 1 .. b, NEW r \in LoaderRanks, NEW q \in LoaderRanks,
              reads[a] # << >>, <<a, r>> # <<b, q>>, reads[a][r][1] = reads[b][q][1]
       PROVE  ToSet(reads[a][r][2]) \cap ToSet(reads[b][q][2]) = {}
  <2>1. a \in 1 .. MaxBatches
    OBVIOUS
  <2> DEFINE e == Ep(b)
             i == At(a)
             j == At(b)
             s == reads[a][r][2]
             t == reads[b][q][2]
  <2>2. Ep(a) = e /\ e \in Nat /\ i \in 1 .. k /\ j \in 1 .. k
    BY <1>3, <1>4, <1>10, <2>1, Zenon
  <2>3. s = BatchAt(loader, e, r, i) /\ t = BatchAt(loader, e, q, j)
    BY <1>4, <1>10, <2>1, <2>2, Zenon
  <2>4. f + (a - 1) = (e * k) + (i - 1) /\ f + (b - 1) = (e * k) + (j - 1)
    BY <1>3, <2>1, <2>2, Zenon
  <2> HIDE DEF e, i, j, s, t
  <2>5. i = j => a = b
    <3> DEFINE ek == e * k
    <3>1. ek \in Int /\ f + (a - 1) = ek + (i - 1) /\ f + (b - 1) = ek + (j - 1)
      BY <1>2, <2>2, <2>4
    <3> HIDE DEF ek
    <3>2. QED BY <1>2, <2>2, <3>1
  <2>6. DOMAIN s = 1 .. m /\ DOMAIN t = 1 .. m
    BY <1>7, <2>3
  <2>7. ASSUME NEW x \in 1 .. m, NEW y \in 1 .. m, s[x] = t[y]
        PROVE  FALSE
    <3>1. r = q /\ i = j
      BY <1>1, <1>8, <1>9, <2>2, <2>3, <2>7, BatchOnce
    <3>2. QED BY <1>10, <2>5, <3>1
  <2>8. ToSet(s) \cap ToSet(t) = {}
    BY <2>6, <2>7, Zenon DEF ToSet
  <2>9. QED BY <2>8 DEF s, t
<1>11. ASSUME NEW r \in LoaderRanks
       PROVE  IsInjective(reads[b][r][2])
  <2> DEFINE e == Ep(b)
             i == At(b)
             s == reads[b][r][2]
  <2>1. s = BatchAt(loader, e, r, i) /\ e \in Nat /\ i \in 1 .. k
    BY <1>3, <1>4, Zenon
  <2> HIDE DEF e, i, s
  <2>2. DOMAIN s = 1 .. m
    BY <1>7, <2>1
  <2>3. ASSUME NEW x \in 1 .. m, NEW y \in 1 .. m, s[x] = s[y]
        PROVE  x = y
    BY <1>1, <1>8, <1>9, <2>1, <2>3, BatchOnce
  <2>4. QED BY <2>2, <2>3 DEF IsInjective, s
<1>12. QED BY <1>5, <1>10, <1>11

\* All ranks read the batches of a training that is never interrupted, in every
\* epoch all of them different samples, however often the training is launched
\* again from a checkpoint (MegatronPretrainingRandomSampler, data_samplers.py):
\* for every dataset that has a global micro batch, every size of a micro batch
\* and every number of ranks; without data_sharding, when what is over at the
\* end of an epoch fills no micro batch.
THEOREM EpochsAsPlanned ==
  ASSUME MaxBatches \in Nat, Samplers \subseteq SamplerLaunch, Permutes
  PROVE  SpecSampler => []CyclesAsPlanned
<1>1. InitSampler => SamplerInv
  BY SamplerStart
<1>2. SamplerInv /\ [NextSampler]_sampler_vars => SamplerInv'
  BY SamplerTrains, SamplerRestarts DEF NextSampler
<1>3. SamplerInv => CyclesAsPlanned
  BY SamplerInvRight
<1>4. QED BY <1>1, <1>2, <1>3, PTL DEF SpecSampler

----------------------------------------------------------------------------
(***************************************************************************)
(* The abstract bidirectional pipeline, for every number of stages and of  *)
(* microbatches.                                                           *)
(***************************************************************************)
CONSTANTS FlowStages, FlowBatches
VARIABLES forwards, backwards, averaged

Flow == INSTANCE PipelineFlow WITH S <- FlowStages, M <- FlowBatches

\* Every reachable state of the abstract pipeline has its type.
THEOREM FlowTypeCorrect == ASSUME Flow!FlowAssumption PROVE Flow!Spec => []Flow!TypeOK
<1>1. Flow!Init => Flow!TypeOK
  BY Flow!FlowAssumption DEF Flow!FlowAssumption, Flow!Init, Flow!TypeOK, Flow!Stage
<1>2. Flow!TypeOK /\ [Flow!Next]_(Flow!flowVars) => Flow!TypeOK'
  <2> SUFFICES ASSUME Flow!TypeOK, [Flow!Next]_(Flow!flowVars) PROVE Flow!TypeOK'
    OBVIOUS
  <2> USE Flow!FlowAssumption DEF Flow!FlowAssumption, Flow!TypeOK
  <2>1. ASSUME NEW p \in Flow!Pipes, NEW s \in Flow!Stage, Flow!Forward(p, s) PROVE Flow!TypeOK'
    <3>1. Flow!Arrived(p, s) \in 0 .. FlowBatches
      BY DEF Flow!Arrived, Flow!Stage
    <3>2. forwards[p][s] + 1 \in 0 .. FlowBatches
      BY <2>1, <3>1 DEF Flow!Forward
    <3>3. QED BY <2>1, <3>2 DEF Flow!Forward
  <2>2. ASSUME NEW p \in Flow!Pipes, NEW s \in Flow!Stage, Flow!Backward(p, s) PROVE Flow!TypeOK'
    <3>1. Flow!Returned(p, s) \in 0 .. FlowBatches
      BY DEF Flow!Returned, Flow!Stage
    <3>2. backwards[p][s] + 1 \in 0 .. FlowBatches
      BY <2>2, <3>1 DEF Flow!Backward
    <3>3. QED BY <2>2, <3>2 DEF Flow!Backward
  <2>3. ASSUME NEW s \in Flow!Stage, Flow!Average(s) PROVE Flow!TypeOK'
    BY <2>3 DEF Flow!Average
  <2>4. CASE UNCHANGED Flow!flowVars
    BY <2>4 DEF Flow!flowVars
  <2>5. QED BY <2>1, <2>2, <2>3, <2>4 DEF Flow!Next
<1>3. QED BY <1>1, <1>2, PTL DEF Flow!Spec

\* Microbatches keep their order through the stages in both directions.
\* InOrder compares every two stages, not only neighbours: so it is inductive
\* as it stands, given the types.
THEOREM OrderKept == ASSUME Flow!FlowAssumption PROVE Flow!Spec => []Flow!InOrder
<1>1. Flow!Init => Flow!InOrder
  BY Flow!FlowAssumption DEF Flow!FlowAssumption, Flow!Init, Flow!InOrder, Flow!Stage
<1>2. Flow!TypeOK /\ Flow!InOrder /\ [Flow!Next]_(Flow!flowVars) => Flow!InOrder'
  <2> SUFFICES ASSUME Flow!TypeOK, Flow!InOrder, [Flow!Next]_(Flow!flowVars) PROVE Flow!InOrder'
    OBVIOUS
  <2>1. ASSUME NEW p \in Flow!Pipes, NEW s \in Flow!Stage, Flow!Forward(p, s) PROVE Flow!InOrder'
    <3>1. \A t \in Flow!Stage : t < s => forwards[p][s] + 1 <= forwards[p][t]
      <4> SUFFICES ASSUME NEW t \in Flow!Stage, t < s PROVE forwards[p][s] + 1 <= forwards[p][t]
        OBVIOUS
      <4>1. s - 1 \in Flow!Stage /\ t <= s - 1 /\ s # 0
        BY Flow!FlowAssumption DEF Flow!FlowAssumption, Flow!Stage
      <4>2. forwards[p][s - 1] <= forwards[p][t]
        BY <4>1 DEF Flow!InOrder
      <4>3. forwards[p][s] < forwards[p][s - 1]
        BY <2>1, <4>1 DEF Flow!Forward, Flow!Arrived
      <4>4. QED BY <4>1, <4>2, <4>3, Flow!FlowAssumption DEF Flow!FlowAssumption, Flow!TypeOK
    <3>2. forwards[p][s] + 1 \in Int /\ \A q \in Flow!Pipes, t \in Flow!Stage : forwards[q][t] \in Int /\ backwards[q][t] \in Int
      BY Flow!FlowAssumption DEF Flow!FlowAssumption, Flow!TypeOK
    <3>3. forwards' = [forwards EXCEPT ![p][s] = forwards[p][s] + 1] /\ backwards' = backwards
      BY <2>1 DEF Flow!Forward
    <3>4. \A q \in Flow!Pipes, t \in Flow!Stage :
            forwards'[q][t] = IF q = p /\ t = s THEN forwards[p][s] + 1 ELSE forwards[q][t]
      BY <3>3 DEF Flow!TypeOK
    <3>5. \A t \in Flow!Stage : t \in Int
      BY Flow!FlowAssumption DEF Flow!FlowAssumption, Flow!Stage
    <3>6. SUFFICES ASSUME NEW q \in Flow!Pipes, NEW t \in Flow!Stage, NEW u \in Flow!Stage
                   PROVE  /\ t <= u => forwards'[q][u] <= forwards'[q][t]
                          /\ t <= u => backwards'[q][t] <= backwards'[q][u]
                          /\ backwards'[q][t] <= forwards'[q][u]
      BY DEF Flow!InOrder
    <3>7. /\ t <= u => forwards[q][u] <= forwards[q][t]
          /\ t <= u => backwards[q][t] <= backwards[q][u]
          /\ backwards[q][t] <= forwards[q][u]
      BY DEF Flow!InOrder
    <3>8. t <= u => forwards'[q][u] <= forwards'[q][t]
      BY <3>1, <3>2, <3>4, <3>5, <3>7
    <3>9. QED BY <3>2, <3>3, <3>4, <3>7, <3>8
  <2>2. ASSUME NEW p \in Flow!Pipes, NEW s \in Flow!Stage, Flow!Backward(p, s) PROVE Flow!InOrder'
    <3>1. \A t \in Flow!Stage : s < t => backwards[p][s] + 1 <= backwards[p][t]
      <4> SUFFICES ASSUME NEW t \in Flow!Stage, s < t PROVE backwards[p][s] + 1 <= backwards[p][t]
        OBVIOUS
      <4>1. s + 1 \in Flow!Stage /\ s + 1 <= t /\ s # FlowStages - 1
        BY Flow!FlowAssumption DEF Flow!FlowAssumption, Flow!Stage
      <4>2. backwards[p][s + 1] <= backwards[p][t]
        BY <4>1 DEF Flow!InOrder
      <4>3. backwards[p][s] < backwards[p][s + 1]
        BY <2>2, <4>1 DEF Flow!Backward, Flow!Returned
      <4>4. QED BY <4>1, <4>2, <4>3, Flow!FlowAssumption DEF Flow!FlowAssumption, Flow!TypeOK
    <3>2. \A t \in Flow!Stage : backwards[p][s] + 1 <= forwards[p][t]
      <4> SUFFICES ASSUME NEW t \in Flow!Stage PROVE backwards[p][s] + 1 <= forwards[p][t]
        OBVIOUS
      <4>1. CASE s = FlowStages - 1
        <5>1. forwards[p][s] <= forwards[p][t]
          BY <4>1, Flow!FlowAssumption DEF Flow!FlowAssumption, Flow!InOrder, Flow!Stage
        <5>2. QED
          BY <2>2, <4>1, <5>1, Flow!FlowAssumption DEF Flow!FlowAssumption, Flow!Backward, Flow!Returned, Flow!TypeOK
      <4>2. CASE s # FlowStages - 1
        <5>1. s + 1 \in Flow!Stage
          BY <4>2, Flow!FlowAssumption DEF Flow!FlowAssumption, Flow!Stage
        <5>2. backwards[p][s + 1] <= forwards[p][t]
          BY <5>1 DEF Flow!InOrder
        <5>3. QED
          BY <2>2, <4>2, <5>1, <5>2, Flow!FlowAssumption DEF Flow!FlowAssumption, Flow!Backward, Flow!Returned, Flow!TypeOK
      <4>3. QED BY <4>1, <4>2
    <3>3. backwards[p][s] + 1 \in Int /\ \A q \in Flow!Pipes, t \in Flow!Stage : forwards[q][t] \in Int /\ backwards[q][t] \in Int
      BY Flow!FlowAssumption DEF Flow!FlowAssumption, Flow!TypeOK
    <3>4. backwards' = [backwards EXCEPT ![p][s] = backwards[p][s] + 1] /\ forwards' = forwards
      BY <2>2 DEF Flow!Backward
    <3>5. \A q \in Flow!Pipes, t \in Flow!Stage :
            backwards'[q][t] = IF q = p /\ t = s THEN backwards[p][s] + 1 ELSE backwards[q][t]
      BY <3>4 DEF Flow!TypeOK
    <3>6. \A t \in Flow!Stage : t \in Int
      BY Flow!FlowAssumption DEF Flow!FlowAssumption, Flow!Stage
    <3>7. SUFFICES ASSUME NEW q \in Flow!Pipes, NEW t \in Flow!Stage, NEW u \in Flow!Stage
                   PROVE  /\ t <= u => forwards'[q][u] <= forwards'[q][t]
                          /\ t <= u => backwards'[q][t] <= backwards'[q][u]
                          /\ backwards'[q][t] <= forwards'[q][u]
      BY DEF Flow!InOrder
    <3>8. /\ t <= u => forwards[q][u] <= forwards[q][t]
          /\ t <= u => backwards[q][t] <= backwards[q][u]
          /\ backwards[q][t] <= forwards[q][u]
      BY DEF Flow!InOrder
    <3>9. t <= u => backwards'[q][t] <= backwards'[q][u]
      BY <3>1, <3>3, <3>5, <3>6, <3>8
    <3>10. QED BY <3>2, <3>3, <3>4, <3>5, <3>8, <3>9
  <2>3. ASSUME NEW s \in Flow!Stage, Flow!Average(s) PROVE Flow!InOrder'
    BY <2>3 DEF Flow!Average, Flow!InOrder
  <2>4. CASE UNCHANGED Flow!flowVars
    BY <2>4 DEF Flow!flowVars, Flow!InOrder
  <2>5. QED BY <2>1, <2>2, <2>3, <2>4 DEF Flow!Next
<1>3. QED BY <1>1, <1>2, FlowTypeCorrect, PTL DEF Flow!Spec

\* No stage is averaged before the batch is through it and all later stages.
THEOREM AverageComplete == ASSUME Flow!FlowAssumption PROVE Flow!Spec => []Flow!AveragedAfterBatch
<1>1. Flow!Init => Flow!AveragedAfterBatch
  BY DEF Flow!Init, Flow!AveragedAfterBatch
<1>2. Flow!TypeOK /\ Flow!InOrder /\ Flow!AveragedAfterBatch /\ [Flow!Next]_(Flow!flowVars) => Flow!AveragedAfterBatch'
  <2> SUFFICES ASSUME Flow!TypeOK, Flow!InOrder, Flow!AveragedAfterBatch, [Flow!Next]_(Flow!flowVars)
               PROVE  Flow!AveragedAfterBatch'
    OBVIOUS
  <2>1. ASSUME NEW p \in Flow!Pipes, NEW s \in Flow!Stage, Flow!Forward(p, s) PROVE Flow!AveragedAfterBatch'
    \* a stage that is complete has nothing left to run
    <3>1. forwards[p][s] # FlowBatches
      BY <2>1, Flow!FlowAssumption DEF Flow!FlowAssumption, Flow!Forward, Flow!Arrived, Flow!TypeOK, Flow!Stage
    <3>2. \A a \in averaged : ~(a <= s)
      BY <3>1 DEF Flow!AveragedAfterBatch
    <3>3. QED BY <2>1, <3>2 DEF Flow!Forward, Flow!AveragedAfterBatch, Flow!TypeOK
  <2>2. ASSUME NEW p \in Flow!Pipes, NEW s \in Flow!Stage, Flow!Backward(p, s) PROVE Flow!AveragedAfterBatch'
    <3>1. backwards[p][s] # FlowBatches
      BY <2>2, Flow!FlowAssumption DEF Flow!FlowAssumption, Flow!Backward, Flow!Returned, Flow!TypeOK, Flow!Stage
    <3>2. \A a \in averaged : ~(a <= s)
      BY <3>1 DEF Flow!AveragedAfterBatch
    <3>3. QED BY <2>2, <3>2 DEF Flow!Backward, Flow!AveragedAfterBatch, Flow!TypeOK
  <2>3. ASSUME NEW s \in Flow!Stage, Flow!Average(s) PROVE Flow!AveragedAfterBatch'
    <3>1. \A p \in Flow!Pipes, t \in Flow!Stage : s <= t => forwards[p][t] = FlowBatches /\ backwards[p][t] = FlowBatches
      <4> SUFFICES ASSUME NEW p \in Flow!Pipes, NEW t \in Flow!Stage, s <= t
                   PROVE  forwards[p][t] = FlowBatches /\ backwards[p][t] = FlowBatches
        OBVIOUS
      <4>1. backwards[p][s] = FlowBatches
        BY <2>3 DEF Flow!Average
      <4>2. backwards[p][s] <= backwards[p][t] /\ backwards[p][t] <= forwards[p][t]
        BY DEF Flow!InOrder
      <4>3. backwards[p][t] \in 0 .. FlowBatches /\ forwards[p][t] \in 0 .. FlowBatches
        BY DEF Flow!TypeOK
      <4>4. QED BY <4>1, <4>2, <4>3, Flow!FlowAssumption DEF Flow!FlowAssumption
    <3>2. QED BY <2>3, <3>1 DEF Flow!Average, Flow!AveragedAfterBatch
  <2>4. CASE UNCHANGED Flow!flowVars
    BY <2>4 DEF Flow!flowVars, Flow!AveragedAfterBatch
  <2>5. QED BY <2>1, <2>2, <2>3, <2>4 DEF Flow!Next
<1>3. QED BY <1>1, <1>2, FlowTypeCorrect, OrderKept, PTL DEF Flow!Spec

----------------------------------------------------------------------------
(***************************************************************************)
(* Random states.  RandomInv says what the generators are: they stand      *)
(* after the numbers of all forward passes of the training, the saved ones *)
(* after those of the saved step, and every microbatch whose backward pass *)
(* is to come has contexts with the states its layers started from, in     *)
(* dictionaries that are its own: the one in force is none of them, and    *)
(* those of two microbatches do not meet.  The passes are chains of        *)
(* processes, one for each layer; what the chain holds after l layers is   *)
(* shown by induction, on the set of the numbers it is shown for.          *)
(***************************************************************************)
\* A set of naturals that is not empty has a least member.
LEMMA LeastNumber ==
  ASSUME NEW T \in SUBSET Nat, T # {}
  PROVE  \E x \in T : \A y \in T : ~(y < x)
<1> DEFINE R == OpToRel(<, Nat)
<1>1. IsWellFoundedOn(R, Nat)
  BY NatLessThanWellFounded, Zenon
<1>2. \A x, y \in Nat : x < y => <<x, y>> \in R
  BY Zenon DEF OpToRel
<1> HIDE DEF R
<1>3. PICK x \in T : \A y \in T : ~ (<<y, x>> \in R)
  BY <1>1, WFMin, Zenon
<1>4. QED BY <1>2, <1>3

\* Induction for a property given by the set of the numbers that have it.
LEMMA Induct ==
  ASSUME NEW S, 0 \in S, \A n \in Nat : n \in S => n + 1 \in S
  PROVE  Nat \subseteq S
<1> DEFINE T == Nat \ S
<1>1. SUFFICES ASSUME T # {} PROVE FALSE
  OBVIOUS
<1>2. T \in SUBSET Nat
  OBVIOUS
<1> HIDE DEF T
<1>3. PICK x \in T : \A y \in T : ~(y < x)
  BY <1>1, <1>2, LeastNumber
<1>4. x \in Nat /\ x \notin S
  BY DEF T
<1>5. x # 0 /\ x - 1 \in Nat /\ x - 1 < x /\ (x - 1) + 1 = x
  BY <1>4
<1>6. x - 1 \in S
  BY <1>3, <1>5 DEF T
<1>7. QED BY <1>4, <1>5, <1>6

\* The processes of a forward pass through the layers.
ForwardChain(g, xc, n) ==
  g = [l \in 0 .. n |-> IF l = 0 THEN xc ELSE CheckpointForward(g[l - 1])]

LEMMA ForwardChainExists ==
  ASSUME NEW n \in Nat, NEW xc
  PROVE  \E g : ForwardChain(g, xc, n)
<1> DEFINE S == {m \in Nat : \E g : ForwardChain(g, xc, m)}
<1>1. 0 \in S
  <2>1. ForwardChain([l \in 0 .. 0 |-> xc], xc, 0)
    BY DEF ForwardChain
  <2>2. QED BY <2>1
<1>2. ASSUME NEW m \in Nat, m \in S PROVE m + 1 \in S
  <2>1. PICK g : ForwardChain(g, xc, m)
    BY <1>2
  <2> DEFINE h == [l \in 0 .. m + 1 |-> IF l = m + 1 THEN CheckpointForward(g[m]) ELSE g[l]]
  <2>2. ASSUME NEW l \in 0 .. m + 1
        PROVE  h[l] = IF l = 0 THEN xc ELSE CheckpointForward(h[l - 1])
    <3>1. CASE l = m + 1
      BY <3>1
    <3>2. CASE l # m + 1
      <4>1. l \in 0 .. m /\ h[l] = g[l] /\ (l # 0 => l - 1 \in 0 .. m /\ h[l - 1] = g[l - 1])
        BY <3>2
      <4>2. g[l] = IF l = 0 THEN xc ELSE CheckpointForward(g[l - 1])
        BY <2>1, <4>1 DEF ForwardChain
      <4>3. QED BY <4>1, <4>2
    <3>3. QED BY <3>1, <3>2
  <2>3. h = [l \in 0 .. m + 1 |-> h[l]]
    OBVIOUS
  <2> HIDE DEF h
  <2>4. h = [l \in 0 .. m + 1 |-> IF l = 0 THEN xc ELSE CheckpointForward(h[l - 1])]
    BY <2>2, <2>3
  <2>5. ForwardChain(h, xc, m + 1)
    BY <2>4 DEF ForwardChain
  <2>6. QED BY <2>5
<1> HIDE DEF S
<1>3. n \in S
  BY <1>1, <1>2, Induct
<1>4. QED BY <1>3 DEF S

LEMMA ForwardLayersAre ==
  ASSUME NEW xc, Depth \in Nat
  PROVE  \E g : ForwardChain(g, xc, Depth) /\ ForwardLayers(xc) = g[Depth]
<1>1. \E g : ForwardChain(g, xc, Depth)
  BY ForwardChainExists
<1>2. QED BY <1>1, Zenon DEF ForwardLayers, ForwardChain

Streams == [stream : {"data", "model"}, count : Nat]
Data(k) == Stream("data", k)
Model(k) == Stream("model", k)

After(s) == Stream(s.stream, s.count + 1)

\* A process with a dictionary in force.
Process(g, d, c, o, l) == [gen |-> g, dicts |-> d, cur |-> c, orig |-> o, log |-> l]
InUse(d, c) == d \in Seq(Streams) /\ c \in 1 .. Len(d)

LEMMA StreamsAre ==
  /\ \A k \in Nat : Data(k) \in Streams /\ Model(k) \in Streams
  /\ \A k \in Nat : After(Data(k)) = Data(k + 1) /\ After(Model(k)) = Model(k + 1)
  /\ \A s \in Streams : After(s) \in Streams
BY DEF Streams, Data, Model, Stream, After

LEMMA DrawIs ==
  ASSUME NEW g, NEW d, NEW c, NEW o, NEW l
  PROVE  Draw(Process(g, d, c, o, l)) = Process(After(g), d, c, o, Append(l, g))
<1> DEFINE x == Process(g, d, c, o, l)
           a == After(g)
           b == Append(l, g)
<1>1. x.gen = g /\ x.log = l
  BY DEF Process
<1>2. Draw(x) = [[x EXCEPT !.log = b] EXCEPT !.gen = a]
  BY <1>1 DEF Draw, After
<1> HIDE DEF a, b
<1>3. [[x EXCEPT !.log = b] EXCEPT !.gen = a] = Process(a, d, c, o, b)
  <2>1. [x EXCEPT !.log = b] = Process(g, d, c, o, b)
    BY DEF Process
  <2>2. [Process(g, d, c, o, b) EXCEPT !.gen = a] = Process(a, d, c, o, b)
    BY DEF Process
  <2>3. QED BY <2>1, <2>2
<1>4. QED BY <1>2, <1>3 DEF a, b

LEMMA EnterIs ==
  ASSUME NEW g, NEW d, NEW c, NEW o, NEW l
  PROVE  Enter(Process(g, d, c, o, l)) = Process(d[c], d, c, Append(o, g), l)
<1> DEFINE x == Process(g, d, c, o, l)
           a == d[c]
           b == Append(o, g)
<1>1. x.gen = g /\ x.orig = o /\ x.dicts[x.cur] = a
  BY DEF Process
<1>2. Enter(x) = [[x EXCEPT !.orig = b] EXCEPT !.gen = a]
  BY <1>1 DEF Enter
<1> HIDE DEF a, b
<1>3. [[x EXCEPT !.orig = b] EXCEPT !.gen = a] = Process(a, d, c, b, l)
  <2>1. [x EXCEPT !.orig = b] = Process(g, d, c, b, l)
    BY DEF Process
  <2>2. [Process(g, d, c, b, l) EXCEPT !.gen = a] = Process(a, d, c, b, l)
    BY DEF Process
  <2>3. QED BY <2>1, <2>2
<1>4. QED BY <1>2, <1>3 DEF a, b

LEMMA ExitIs ==
  ASSUME NEW g, NEW d, NEW c, NEW o \in Seq(Streams), NEW h \in Streams, NEW l
  PROVE  Exit(Process(g, d, c, Append(o, h), l)) = Process(h, [d EXCEPT ![c] = g], c, o, l)
<1> DEFINE p == Append(o, h)
           x == Process(g, d, c, p, l)
           e == [d EXCEPT ![c] = g]
<1>1. p[Len(p)] = h /\ SubSeq(p, 1, Len(p) - 1) = o
  OBVIOUS
<1> HIDE DEF p
<1>2. x.gen = g /\ x.orig = p /\ x.dicts = d /\ x.cur = c
  BY DEF Process
<1>3. Exit(x) = [[[x EXCEPT !.dicts = e] EXCEPT !.gen = h] EXCEPT !.orig = o]
  <2>1. [x EXCEPT !.dicts[x.cur] = x.gen] = [x EXCEPT !.dicts = e]
    BY <1>2 DEF Process
  <2>2. Exit(x) = [x EXCEPT !.dicts[x.cur] = x.gen, !.gen = h, !.orig = o]
    BY <1>1, <1>2 DEF Exit
  <2>3. QED BY <2>1, <2>2, <1>2
<1> HIDE DEF e
<1>4. [[[x EXCEPT !.dicts = e] EXCEPT !.gen = h] EXCEPT !.orig = o] = Process(h, e, c, o, l)
  <2>1. [x EXCEPT !.dicts = e] = Process(g, e, c, p, l)
    BY DEF Process
  <2>2. [Process(g, e, c, p, l) EXCEPT !.gen = h] = Process(h, e, c, p, l)
    BY DEF Process
  <2>3. [Process(h, e, c, p, l) EXCEPT !.orig = o] = Process(h, e, c, o, l)
    BY DEF Process
  <2>4. QED BY <2>1, <2>2, <2>3
<1>5. QED BY <1>3, <1>4 DEF e, p

\* What a layer draws: with sequence parallelism it is in a fork.
LEMMA LayerIs ==
  ASSUME NEW g \in Streams, NEW d, NEW c, InUse(d, c), NEW o \in Seq(Streams), NEW l
  PROVE  Layer(Process(g, d, c, o, l))
           = IF sp THEN Process(After(After(g)), d, c, o, Append(Append(l, g), After(g)))
             ELSE Process(After(g), [d EXCEPT ![c] = After(d[c])], c, o,
                          Append(Append(l, d[c]), g))
<1>1. CASE sp
  BY <1>1, DrawIs DEF Layer
<1>2. CASE ~sp
  <2>1. Enter(Process(g, d, c, o, l)) = Process(d[c], d, c, Append(o, g), l)
    BY EnterIs
  <2>2. Draw(Process(d[c], d, c, Append(o, g), l))
          = Process(After(d[c]), d, c, Append(o, g), Append(l, d[c]))
    BY DrawIs
  <2>3. Exit(Process(After(d[c]), d, c, Append(o, g), Append(l, d[c])))
          = Process(g, [d EXCEPT ![c] = After(d[c])], c, o, Append(l, d[c]))
    BY ExitIs
  <2>4. Draw(Process(g, [d EXCEPT ![c] = After(d[c])], c, o, Append(l, d[c])))
          = Process(After(g), [d EXCEPT ![c] = After(d[c])], c, o, Append(Append(l, d[c]), g))
    BY DrawIs
  <2>5. QED BY <1>2, <2>1, <2>2, <2>3, <2>4, Zenon DEF Layer
<1>3. QED BY <1>1, <1>2

LEMMA GetStatesIs ==
  ASSUME NEW g, NEW d, NEW c, InUse(d, c), NEW o, NEW l
  PROVE  GetStates(Process(g, d, c, o, l))
           = <<Process(g, Append(d, d[c]), c, o, l), Len(d) + 1>>
<1>1. Len(Process(g, d, c, o, l).dicts) = Len(d)
  BY DEF Process
<1>2. [Process(g, d, c, o, l) EXCEPT !.dicts = Append(@, Process(g, d, c, o, l).dicts[Process(g, d, c, o, l).cur])]
        = Process(g, Append(d, d[c]), c, o, l)
  BY DEF Process
<1>3. QED BY <1>1, <1>2, Zenon DEF GetStates

\* The copy is the dictionary of the others to come: the one in force may change.
LEMMA CopyKept ==
  ASSUME NEW d, NEW c, InUse(d, c)
  PROVE  /\ InUse(Append(d, d[c]), c) /\ Len(Append(d, d[c])) = Len(d) + 1
         /\ \A i \in 1 .. Len(d) : Append(d, d[c])[i] = d[i]
         /\ Append(d, d[c])[Len(d) + 1] = d[c] /\ d[c] \in Streams
BY DEF InUse

LEMMA DictChanged ==
  ASSUME NEW d, NEW c, InUse(d, c), NEW s \in Streams, NEW i \in 1 .. Len(d)
  PROVE  /\ InUse([d EXCEPT ![i] = s], c) /\ Len([d EXCEPT ![i] = s]) = Len(d)
         /\ [d EXCEPT ![i] = s][i] = s
         /\ \A j \in 1 .. Len(d) : j # i => [d EXCEPT ![i] = s][j] = d[j]
BY DEF InUse

\* A forward pass that starts when a numbers of the data stream and b of the model
\* stream are drawn: number k it draws, the generator after its embedding and l
\* layers, and the dictionary in force.
DrawnAt(a, b, k) ==
  IF sp THEN Model(b + k - 1)
  ELSE IF k % 2 = 0 THEN Model(b + (k \div 2) - 1) ELSE Data(a + (k \div 2))

GenAfter(a, b, l)  == IF sp THEN Model(b + 1 + 2 * l) ELSE Data(a + 1 + l)
DictAfter(b, l) == IF sp THEN Model(b + 1) ELSE Model(b + l)

DrawsOf(a, b, n, lg) ==
  lg \in Seq(Streams) /\ Len(lg) = n /\ \A k \in 1 .. n : lg[k] = DrawnAt(a, b, k)

\* Each layer leaves a copy of the dictionary it found behind.
DictsAfter(d0, c, b, l, d) ==
  /\ InUse(d, c) /\ Len(d) = Len(d0) + l
  /\ d[c] = DictAfter(b, l)
  /\ \A i \in 1 .. Len(d0) : i # c => d[i] = d0[i]
  /\ \A j \in 1 .. l : d[Len(d0) + j] = DictAfter(b, j - 1)

ContextAt(n, a, b, j) == [gen |-> GenAfter(a, b, j - 1), tracker |-> n + j]
ContextsAre(n, a, b, l, cs) == cs = [j \in 1 .. l |-> ContextAt(n, a, b, j)]

Outside(a) == IF sp THEN <<Data(a)>> ELSE << >>

InLayers(d0, c, a, b, l, xc) ==
  \E d, lg, cs :
    /\ xc = <<Process(GenAfter(a, b, l), d, c, Outside(a), lg), cs>>
    /\ DictsAfter(d0, c, b, l, d) /\ DrawsOf(a, b, 1 + 2 * l, lg)
    /\ ContextsAre(Len(d0), a, b, l, cs)

LEMMA StreamTypes ==
  ASSUME NEW a \in Nat, NEW b \in Nat, NEW l \in Nat
  PROVE  /\ GenAfter(a, b, l) \in Streams /\ DictAfter(b, l) \in Streams
         /\ Outside(a) \in Seq(Streams)
         /\ DrawnAt(a, b, l + 1) \in Streams
<1>1. Data(a) \in Streams
  BY StreamsAre
<1>2. GenAfter(a, b, l) \in Streams /\ DictAfter(b, l) \in Streams
  BY StreamsAre DEF GenAfter, DictAfter
<1>3. DrawnAt(a, b, l + 1) \in Streams
  <2>1. CASE sp
    <3>1. b + (l + 1) - 1 \in Nat
      OBVIOUS
    <3>2. QED BY <2>1, <3>1, StreamsAre DEF DrawnAt
  <2>2. CASE ~sp /\ (l + 1) % 2 = 0
    <3>1. b + ((l + 1) \div 2) - 1 \in Nat
      BY <2>2
    <3>2. QED BY <2>2, <3>1, StreamsAre DEF DrawnAt
  <2>3. CASE ~sp /\ (l + 1) % 2 # 0
    <3>1. a + ((l + 1) \div 2) \in Nat
      OBVIOUS
    <3>2. QED BY <2>3, <3>1, StreamsAre DEF DrawnAt
  <2>4. QED BY <2>1, <2>2, <2>3
<1>4. QED BY <1>1, <1>2, <1>3 DEF Outside

LEMMA OneMoreDrawn ==
  ASSUME NEW a \in Nat, NEW b \in Nat, NEW n \in Nat, NEW lg, DrawsOf(a, b, n, lg),
         NEW s, s = DrawnAt(a, b, n + 1)
  PROVE  DrawsOf(a, b, n + 1, Append(lg, s))
<1>1. s \in Streams
  BY StreamTypes
<1> DEFINE r == Append(lg, s)
<1>2. r \in Seq(Streams) /\ Len(r) = n + 1 /\ r[n + 1] = s /\ \A k \in 1 .. n : r[k] = lg[k]
  BY <1>1 DEF DrawsOf
<1> HIDE DEF r
<1>3. ASSUME NEW k \in 1 .. n + 1 PROVE r[k] = DrawnAt(a, b, k)
  <2>1. CASE k = n + 1
    BY <1>2, <2>1
  <2>2. CASE k # n + 1
    BY <1>2, <2>2 DEF DrawsOf
  <2>3. QED BY <2>1, <2>2
<1>4. QED BY <1>2, <1>3 DEF DrawsOf, r

\* The two numbers of layer l + 1.
LEMMA LayerDraws ==
  ASSUME NEW a \in Nat, NEW b \in Nat, NEW l \in Nat
  PROVE  /\ sp => /\ DrawnAt(a, b, 2 * l + 2) = GenAfter(a, b, l)
                  /\ DrawnAt(a, b, 2 * l + 3) = After(GenAfter(a, b, l))
                  /\ GenAfter(a, b, l + 1) = After(After(GenAfter(a, b, l)))
         /\ ~sp => /\ DrawnAt(a, b, 2 * l + 2) = DictAfter(b, l)
                   /\ DrawnAt(a, b, 2 * l + 3) = GenAfter(a, b, l)
                   /\ GenAfter(a, b, l + 1) = After(GenAfter(a, b, l))
                   /\ DictAfter(b, l + 1) = After(DictAfter(b, l))
<1>1. CASE sp
  <2>1. /\ b + (2 * l + 2) - 1 = b + 1 + 2 * l /\ b + (2 * l + 3) - 1 = (b + 1 + 2 * l) + 1
        /\ b + 1 + 2 * (l + 1) = ((b + 1 + 2 * l) + 1) + 1 /\ b + 1 + 2 * l \in Nat
        /\ (b + 1 + 2 * l) + 1 \in Nat
    OBVIOUS
  <2>2. QED BY <1>1, <2>1, StreamsAre DEF DrawnAt, GenAfter
<1>2. CASE ~sp
  <2>1. /\ (2 * l + 2) % 2 = 0 /\ (2 * l + 3) % 2 # 0
        /\ (2 * l + 2) \div 2 = l + 1 /\ (2 * l + 3) \div 2 = l + 1
    OBVIOUS
  <2>2. /\ b + (l + 1) - 1 = b + l /\ a + (l + 1) = a + 1 + l /\ a + 1 + (l + 1) = (a + 1 + l) + 1
        /\ b + (l + 1) = (b + l) + 1 /\ b + l \in Nat /\ a + 1 + l \in Nat
    OBVIOUS
  <2>3. QED BY <1>2, <2>1, <2>2, StreamsAre DEF DrawnAt, GenAfter, DictAfter
<1>3. QED BY <1>1, <1>2

LEMMA NextLayer ==
  ASSUME NEW d0, NEW c, InUse(d0, c), NEW a \in Nat, NEW b \in Nat, NEW l \in Nat, NEW xc,
         InLayers(d0, c, a, b, l, xc)
  PROVE  InLayers(d0, c, a, b, l + 1, CheckpointForward(xc))
<1>1. PICK d, lg, cs :
        /\ xc = <<Process(GenAfter(a, b, l), d, c, Outside(a), lg), cs>>
        /\ DictsAfter(d0, c, b, l, d) /\ DrawsOf(a, b, 1 + 2 * l, lg)
        /\ ContextsAre(Len(d0), a, b, l, cs)
  BY DEF InLayers
<1> DEFINE g == GenAfter(a, b, l)
           o == Outside(a)
           n == Len(d0)
           d1 == Append(d, d[c])
           cs1 == Append(cs, [gen |-> g, tracker |-> Len(d) + 1])
<1>2. InUse(d, c) /\ d[c] = DictAfter(b, l) /\ Len(d) = n + l /\ n \in Nat /\ Len(d) \in Nat
  BY <1>1 DEF DictsAfter, InUse
<1>3. GetStates(Process(g, d, c, o, lg)) = <<Process(g, d1, c, o, lg), Len(d) + 1>>
  BY <1>2, GetStatesIs
<1>4. g \in Streams /\ o \in Seq(Streams) /\ d[c] \in Streams
  BY <1>2, StreamTypes
<1>5. /\ InUse(d1, c) /\ Len(d1) = Len(d) + 1 /\ d1[c] = d[c] /\ c \in 1 .. Len(d)
      /\ \A i \in 1 .. Len(d) : d1[i] = d[i]
      /\ d1[Len(d) + 1] = d[c]
  BY <1>2, CopyKept DEF InUse
<1> HIDE DEF d1
<1>6. CheckpointForward(xc) = <<Layer(Process(g, d1, c, o, lg)), cs1>>
  <2>1. xc[1] = Process(g, d, c, o, lg) /\ xc[2] = cs /\ xc[1].gen = g
    BY <1>1 DEF Process
  <2>2. QED BY <1>3, <2>1 DEF CheckpointForward
<1>7. ContextsAre(n, a, b, l + 1, cs1)
  <2> DEFINE t == [gen |-> g, tracker |-> Len(d) + 1]
  <2>1. t = ContextAt(n, a, b, l + 1)
    <3>1. Len(d) + 1 = n + (l + 1) /\ (l + 1) - 1 = l
      BY <1>2
    <3>2. QED BY <3>1 DEF ContextAt
  <2>2. cs = [j \in 1 .. l |-> ContextAt(n, a, b, j)]
    BY <1>1 DEF ContextsAre
  <2> HIDE DEF t
  <2>3. Len(cs) = l /\ Append(cs, t) = [j \in 1 .. l + 1 |-> IF j = l + 1 THEN t ELSE cs[j]]
    BY <2>2 DEF Append
  <2>4. \A j \in 1 .. l + 1 : (IF j = l + 1 THEN t ELSE cs[j]) = ContextAt(n, a, b, j)
    BY <2>1, <2>2
  <2>5. Append(cs, t) = [j \in 1 .. l + 1 |-> ContextAt(n, a, b, j)]
    BY <2>3, <2>4
  <2>6. QED BY <2>5 DEF ContextsAre, t
<1>8. CASE sp
  <2> DEFINE lg1 == Append(Append(lg, g), After(g))
  <2>1. Layer(Process(g, d1, c, o, lg)) = Process(GenAfter(a, b, l + 1), d1, c, o, lg1)
    BY <1>4, <1>5, <1>8, LayerIs, LayerDraws
  <2>2. DrawsOf(a, b, 1 + 2 * (l + 1), lg1)
    <3>1. g = DrawnAt(a, b, (1 + 2 * l) + 1) /\ After(g) = DrawnAt(a, b, ((1 + 2 * l) + 1) + 1)
      <4>1. (1 + 2 * l) + 1 = 2 * l + 2 /\ ((1 + 2 * l) + 1) + 1 = 2 * l + 3
        OBVIOUS
      <4>2. QED BY <1>8, <4>1, LayerDraws
    <3>2. DrawsOf(a, b, (1 + 2 * l) + 1, Append(lg, g))
      BY <1>1, <3>1, OneMoreDrawn
    <3>3. DrawsOf(a, b, ((1 + 2 * l) + 1) + 1, lg1)
      BY <3>1, <3>2, OneMoreDrawn
    <3>4. ((1 + 2 * l) + 1) + 1 = 1 + 2 * (l + 1)
      OBVIOUS
    <3>5. QED BY <3>3, <3>4
  <2>3. DictsAfter(d0, c, b, l + 1, d1)
    <3>1. DictAfter(b, l) = DictAfter(b, l + 1) /\ n + (l + 1) = Len(d) + 1
      BY <1>2, <1>8 DEF DictAfter
    <3>2. ASSUME NEW i \in 1 .. n, i # c PROVE d1[i] = d0[i]
      <4>1. i \in 1 .. Len(d)
        BY <1>2
      <4>2. d1[i] = d[i]
        BY <1>5, <4>1
      <4>3. d[i] = d0[i]
        BY <1>1, <3>2 DEF DictsAfter
      <4>4. QED BY <4>2, <4>3
    <3>3. ASSUME NEW j \in 1 .. l + 1 PROVE d1[n + j] = DictAfter(b, j - 1)
      <4>1. CASE j = l + 1
        BY <1>2, <1>5, <3>1, <4>1
      <4>2. CASE j # l + 1
        BY <1>1, <1>2, <1>5, <4>2 DEF DictsAfter
      <4>3. QED BY <4>1, <4>2
    <3>4. QED BY <1>2, <1>5, <3>1, <3>2, <3>3 DEF DictsAfter
  <2> HIDE DEF lg1
  <2>4. QED BY <1>6, <1>7, <2>1, <2>2, <2>3 DEF InLayers
<1>9. CASE ~sp
  <2> DEFINE lg1 == Append(Append(lg, d[c]), g)
             d2 == [d1 EXCEPT ![c] = After(d[c])]
  <2>1. Layer(Process(g, d1, c, o, lg)) = Process(GenAfter(a, b, l + 1), d2, c, o, lg1)
    <3>1. Layer(Process(g, d1, c, o, lg))
            = Process(After(g), [d1 EXCEPT ![c] = After(d1[c])], c, o, Append(Append(lg, d1[c]), g))
      BY <1>4, <1>5, <1>9, LayerIs
    <3>2. After(g) = GenAfter(a, b, l + 1)
      BY <1>9, LayerDraws
    <3>3. d1[c] = d[c]
      BY <1>5
    <3>4. QED BY <3>1, <3>2, <3>3, Zenon
  <2>2. DrawsOf(a, b, 1 + 2 * (l + 1), lg1)
    <3>1. d[c] = DrawnAt(a, b, (1 + 2 * l) + 1) /\ g = DrawnAt(a, b, ((1 + 2 * l) + 1) + 1)
      <4>1. (1 + 2 * l) + 1 = 2 * l + 2 /\ ((1 + 2 * l) + 1) + 1 = 2 * l + 3
        OBVIOUS
      <4>2. QED BY <1>2, <1>9, <4>1, LayerDraws
    <3>2. DrawsOf(a, b, (1 + 2 * l) + 1, Append(lg, d[c]))
      BY <1>1, <3>1, OneMoreDrawn
    <3>3. DrawsOf(a, b, ((1 + 2 * l) + 1) + 1, lg1)
      BY <3>1, <3>2, OneMoreDrawn
    <3>4. ((1 + 2 * l) + 1) + 1 = 1 + 2 * (l + 1)
      OBVIOUS
    <3>5. QED BY <3>3, <3>4
  <2>3. DictsAfter(d0, c, b, l + 1, d2)
    <3>1. After(d[c]) = DictAfter(b, l + 1) /\ n + (l + 1) = Len(d) + 1 /\ After(d[c]) \in Streams
      BY <1>2, <1>4, <1>9, LayerDraws, StreamsAre
    <3>2. /\ InUse(d2, c) /\ Len(d2) = Len(d1) /\ d2[c] = After(d[c])
          /\ \A i \in 1 .. Len(d1) : i # c => d2[i] = d1[i]
      <4> DEFINE s == After(d[c])
      <4>1. c \in 1 .. Len(d1) /\ s \in Streams
        BY <1>5, <1>2, <3>1
      <4> HIDE DEF s
      <4>2. /\ InUse([d1 EXCEPT ![c] = s], c) /\ Len([d1 EXCEPT ![c] = s]) = Len(d1)
            /\ [d1 EXCEPT ![c] = s][c] = s
            /\ \A i \in 1 .. Len(d1) : i # c => [d1 EXCEPT ![c] = s][i] = d1[i]
        <5>1. InUse(d1, c)
          BY <1>5
        <5>2. QED BY <4>1, <5>1, DictChanged
      <4>3. QED BY <4>2 DEF s
    <3> HIDE DEF d2
    <3>3. ASSUME NEW i \in 1 .. n, i # c PROVE d2[i] = d0[i]
      <4>1. i \in 1 .. Len(d) /\ i \in 1 .. Len(d1)
        BY <1>2, <1>5
      <4>2. d2[i] = d1[i] /\ d1[i] = d[i]
        BY <1>5, <3>2, <3>3, <4>1
      <4>3. d[i] = d0[i]
        BY <1>1, <3>3 DEF DictsAfter
      <4>4. QED BY <4>2, <4>3
    <3>4. ASSUME NEW j \in 1 .. l + 1 PROVE d2[n + j] = DictAfter(b, j - 1)
      <4>0. c <= n
        BY DEF InUse
      <4>1. CASE j = l + 1
        BY <1>2, <1>5, <3>2, <4>0, <4>1 DEF InUse
      <4>2. CASE j # l + 1
        BY <1>1, <1>2, <1>5, <3>2, <4>0, <4>2 DEF DictsAfter, InUse
      <4>3. QED BY <4>1, <4>2
    <3>5. QED BY <1>2, <1>5, <3>1, <3>2, <3>3, <3>4 DEF DictsAfter
  <2> HIDE DEF lg1, d2
  <2>4. QED BY <1>6, <1>7, <2>1, <2>2, <2>3 DEF InLayers
<1>10. QED BY <1>8, <1>9

\* A fork entered with nothing saved.
LEMMA ForkEntered ==
  ASSUME NEW g \in Streams, NEW d, NEW c, NEW l
  PROVE  Enter(Process(g, d, c, << >>, l)) = Process(d[c], d, c, << g >>, l)
<1> DEFINE o == << >>
<1>1. Append(o, g) = << g >>
  OBVIOUS
<1> HIDE DEF o
<1>2. Enter(Process(g, d, c, o, l)) = Process(d[c], d, c, Append(o, g), l)
  BY EnterIs
<1>3. Enter(Process(g, d, c, o, l)) = Process(d[c], d, c, << g >>, l)
  BY <1>1, <1>2
<1>4. QED BY <1>3 DEF o

LEMMA ForkLeft ==
  ASSUME NEW g, NEW d, NEW c, NEW h \in Streams, NEW l
  PROVE  Exit(Process(g, d, c, << h >>, l)) = Process(h, [d EXCEPT ![c] = g], c, << >>, l)
<1> DEFINE o == << >>
<1>1. Append(o, h) = << h >>
  OBVIOUS
<1>2. o \in Seq(Streams)
  OBVIOUS
<1> HIDE DEF o
<1>3. Exit(Process(g, d, c, Append(o, h), l)) = Process(h, [d EXCEPT ![c] = g], c, o, l)
  BY <1>2, ExitIs
<1>4. Exit(Process(g, d, c, << h >>, l)) = Process(h, [d EXCEPT ![c] = g], c, o, l)
  BY <1>1, <1>3
<1>5. QED BY <1>4 DEF o

LEMMA LayersDrawInTurn ==
  ASSUME NEW d0, NEW c, InUse(d0, c), NEW a \in Nat, NEW b \in Nat, NEW xc,
         InLayers(d0, c, a, b, 0, xc), Depth \in Nat
  PROVE  InLayers(d0, c, a, b, Depth, ForwardLayers(xc))
<1>1. PICK g : ForwardChain(g, xc, Depth) /\ ForwardLayers(xc) = g[Depth]
  BY ForwardLayersAre
<1> DEFINE S == {l \in Nat : l <= Depth => InLayers(d0, c, a, b, l, g[l])}
<1>2. 0 \in S
  <2>1. g[0] = xc
    BY <1>1 DEF ForwardChain
  <2>2. QED BY <2>1
<1>3. ASSUME NEW l \in Nat, l \in S PROVE l + 1 \in S
  <2>1. SUFFICES ASSUME l + 1 <= Depth PROVE InLayers(d0, c, a, b, l + 1, g[l + 1])
    OBVIOUS
  <2>2. g[l + 1] = CheckpointForward(g[l])
    <3>1. l + 1 \in 0 .. Depth /\ l + 1 # 0 /\ (l + 1) - 1 = l
      BY <2>1
    <3>2. QED BY <1>1, <3>1 DEF ForwardChain
  <2>3. InLayers(d0, c, a, b, l, g[l])
    BY <1>3, <2>1
  <2>4. InLayers(d0, c, a, b, l + 1, CheckpointForward(g[l]))
    BY <2>3, NextLayer
  <2>5. QED BY <2>2, <2>4
<1> HIDE DEF S
<1>4. Depth \in S
  BY <1>2, <1>3, Induct
<1>5. QED BY <1>1, <1>4 DEF S

\* Before the first layer.
LEMMA LayersEntered ==
  ASSUME NEW d0, NEW c, InUse(d0, c), NEW a \in Nat, NEW b \in Nat, d0[c] = Model(b),
         NEW x, x = Process(Data(a), d0, c, << >>, << >>)
  PROVE  InLayers(d0, c, a, b, 0, <<IF sp THEN Enter(Embedding(x)) ELSE Embedding(x), << >> >>)
<1>1. /\ Data(a) \in Streams /\ Model(b) \in Streams /\ Model(b + 1) \in Streams
      /\ After(Model(b)) = Model(b + 1) /\ After(Data(a)) = Data(a + 1)
  BY StreamsAre
<1>2. c \in 1 .. Len(d0) /\ Len(d0) \in Nat
  BY DEF InUse
<1>3. ContextsAre(Len(d0), a, b, 0, << >>)
  BY DEF ContextsAre
<1> DEFINE first == DrawnAt(a, b, 1)
           lg == << first >>
<1>4. DrawsOf(a, b, 1 + 2 * 0, lg)
  <2>1. first \in Streams
    <3>1. DrawnAt(a, b, 0 + 1) \in Streams
      BY StreamTypes
    <3>2. 0 + 1 = 1
      OBVIOUS
    <3>3. QED BY <3>1, <3>2
  <2> HIDE DEF first
  <2>2. lg \in Seq(Streams) /\ Len(lg) = 1 /\ lg[1] = first
    BY <2>1
  <2>3. QED BY <2>2 DEF DrawsOf, first
<1>5. CASE sp
  <2> DEFINE m == Model(b + 1)
             d == [d0 EXCEPT ![c] = m]
  <2>1. first = Model(b)
    <3>1. b + 1 - 1 = b
      OBVIOUS
    <3>2. QED BY <1>5, <3>1 DEF DrawnAt
  <2>2. InUse(d, c) /\ Len(d) = Len(d0) /\ d[c] = m
        /\ \A j \in 1 .. Len(d0) : j # c => d[j] = d0[j]
    <3>1. m \in Streams
      BY <1>1
    <3> HIDE DEF m
    <3>2. QED BY <1>2, <3>1, DictChanged
  <2>3. Embedding(x) = Process(Data(a), d, c, << >>, lg)
    <3>1. Enter(x) = Process(Model(b), d0, c, << Data(a) >>, << >>)
      BY <1>1, ForkEntered
    <3>2. Draw(Process(Model(b), d0, c, << Data(a) >>, << >>))
            = Process(m, d0, c, << Data(a) >>, lg)
      <4>1. Append(<< >>, Model(b)) = << Model(b) >>
        OBVIOUS
      <4>2. Draw(Process(Model(b), d0, c, << Data(a) >>, << >>))
              = Process(After(Model(b)), d0, c, << Data(a) >>, Append(<< >>, Model(b)))
        BY DrawIs
      <4>3. QED BY <1>1, <2>1, <4>1, <4>2
    <3>3. Exit(Process(m, d0, c, << Data(a) >>, lg)) = Process(Data(a), d, c, << >>, lg)
      <4> HIDE DEF lg, m
      <4>1. QED BY <1>1, ForkLeft
    <3>4. QED BY <1>5, <3>1, <3>2, <3>3, Zenon DEF Embedding
  <2> HIDE DEF lg
  <2>4. Enter(Embedding(x)) = Process(GenAfter(a, b, 0), d, c, Outside(a), lg)
    <3>1. << Data(a) >> = Outside(a)
      BY <1>5 DEF Outside
    <3>2. d[c] = GenAfter(a, b, 0)
      <4>1. b + 1 = b + 1 + 2 * 0
        OBVIOUS
      <4>2. QED BY <1>5, <2>2, <4>1 DEF GenAfter
    <3> HIDE DEF d
    <3>3. Enter(Process(Data(a), d, c, << >>, lg))
            = Process(d[c], d, c, << Data(a) >>, lg)
      BY <1>1, ForkEntered
    <3>4. QED BY <2>3, <3>1, <3>2, <3>3
  <2>5. DictsAfter(d0, c, b, 0, d)
    <3>1. d[c] = DictAfter(b, 0)
      BY <1>5, <2>2 DEF DictAfter
    <3> HIDE DEF d
    <3>2. QED BY <1>2, <2>2, <3>1 DEF DictsAfter
  <2> HIDE DEF d
  <2>6. QED BY <1>3, <1>4, <1>5, <2>4, <2>5 DEF InLayers
<1>6. CASE ~sp
  <2>1. first = Data(a)
    <3>1. 1 % 2 # 0 /\ 1 \div 2 = 0 /\ a + 0 = a
      OBVIOUS
    <3>2. QED BY <1>6, <3>1 DEF DrawnAt
  <2>2. Embedding(x) = Process(GenAfter(a, b, 0), d0, c, Outside(a), lg)
    <3>1. Append(<< >>, Data(a)) = lg /\ Outside(a) = << >>
      BY <1>6, <2>1 DEF Outside
    <3>2. After(Data(a)) = GenAfter(a, b, 0)
      <4>1. a + 1 = a + 1 + 0
        OBVIOUS
      <4>2. QED BY <1>1, <1>6, <4>1 DEF GenAfter
    <3>3. Draw(x) = Process(After(Data(a)), d0, c, << >>, Append(<< >>, Data(a)))
      BY DrawIs
    <3>4. QED BY <1>6, <3>1, <3>2, <3>3 DEF Embedding
  <2> HIDE DEF lg
  <2>3. DictsAfter(d0, c, b, 0, d0)
    <3>1. d0[c] = DictAfter(b, 0)
      <4>1. b + 0 = b
        OBVIOUS
      <4>2. QED BY <1>6, <4>1 DEF DictAfter
    <3>2. QED BY <1>2, <3>1 DEF DictsAfter
  <2>4. QED BY <1>3, <1>4, <1>6, <2>2, <2>3 DEF InLayers
<1>7. QED BY <1>5, <1>6

\* What a forward pass leaves behind.
DictsOfPass(d0, c, b, d) ==
  /\ InUse(d, c) /\ Len(d) = Len(d0) + Depth
  /\ d[c] = Model(b + PerPass.model)
  /\ \A i \in 1 .. Len(d0) : i # c => d[i] = d0[i]
  /\ \A j \in 1 .. Depth : d[Len(d0) + j] = DictAfter(b, j - 1)

Passed(d0, c, a, b, r) ==
  \E d, lg, cs :
    /\ r = <<Process(Data(a + PerPass.data), d, c, << >>, lg), cs>>
    /\ DictsOfPass(d0, c, b, d) /\ DrawsOf(a, b, 1 + 2 * Depth, lg)
    /\ ContextsAre(Len(d0), a, b, Depth, cs)

LEMMA ForwardPassIs ==
  ASSUME NEW d0, NEW c, InUse(d0, c), NEW a \in Nat, NEW b \in Nat, d0[c] = Model(b),
         NEW x, x = Process(Data(a), d0, c, << >>, << >>), Depth \in Nat
  PROVE  Passed(d0, c, a, b, ForwardPass(x))
<1> DEFINE xc == <<IF sp THEN Enter(Embedding(x)) ELSE Embedding(x), << >> >>
           run == ForwardLayers(xc)
<1>1. InLayers(d0, c, a, b, 0, xc)
  BY LayersEntered
<1>2. ForwardPass(x) = <<IF sp THEN Exit(run[1]) ELSE run[1], run[2]>>
  BY DEF ForwardPass
<1> HIDE DEF xc
<1>3. InLayers(d0, c, a, b, Depth, run)
  BY <1>1, LayersDrawInTurn
<1> HIDE DEF run
<1>4. PICK d, lg, cs :
        /\ run = <<Process(GenAfter(a, b, Depth), d, c, Outside(a), lg), cs>>
        /\ DictsAfter(d0, c, b, Depth, d) /\ DrawsOf(a, b, 1 + 2 * Depth, lg)
        /\ ContextsAre(Len(d0), a, b, Depth, cs)
  BY <1>3 DEF InLayers
<1>5. c \in 1 .. Len(d0) /\ Len(d0) \in Nat /\ InUse(d, c) /\ c \in 1 .. Len(d)
  BY <1>4 DEF InUse, DictsAfter
<1>6. CASE sp
  <2>1. /\ PerPass.data = 0 /\ PerPass.model = 1 + 2 * Depth /\ a + PerPass.data = a
        /\ GenAfter(a, b, Depth) = Model(b + PerPass.model) /\ Outside(a) = << Data(a) >>
        /\ GenAfter(a, b, Depth) \in Streams
    <3>1. b + 1 + 2 * Depth = b + (1 + 2 * Depth) /\ a + 0 = a
      OBVIOUS
    <3>2. QED BY <1>6, <3>1, StreamTypes DEF PerPass, GenAfter, Outside
  <2> DEFINE g == GenAfter(a, b, Depth)
             e == [d EXCEPT ![c] = g]
  <2> HIDE DEF g
  <2>2. g \in Streams /\ g = Model(b + PerPass.model)
    BY <2>1 DEF g
  <2>3. Exit(Process(g, d, c, << Data(a) >>, lg)) = Process(Data(a), e, c, << >>, lg)
    <3>1. Data(a) \in Streams
      BY StreamsAre
    <3>2. QED BY <3>1, ForkLeft
  <2>4. InUse(e, c) /\ Len(e) = Len(d) /\ e[c] = g
        /\ \A j \in 1 .. Len(d) : j # c => e[j] = d[j]
    BY <1>5, <2>2, DictChanged
  <2> HIDE DEF e
  <2>5. DictsOfPass(d0, c, b, e)
    <3>1. Len(d) = Len(d0) + Depth
      BY <1>4 DEF DictsAfter
    <3>2. ASSUME NEW i \in 1 .. Len(d0), i # c PROVE e[i] = d0[i]
      <4>1. i \in 1 .. Len(d)
        BY <1>5, <3>1
      <4>2. d[i] = d0[i]
        BY <1>4, <3>2 DEF DictsAfter
      <4>3. QED BY <2>4, <3>2, <4>1, <4>2
    <3>3. ASSUME NEW j \in 1 .. Depth PROVE e[Len(d0) + j] = DictAfter(b, j - 1)
      <4>1. Len(d0) + j \in 1 .. Len(d) /\ Len(d0) + j # c
        BY <1>5, <3>1
      <4>2. d[Len(d0) + j] = DictAfter(b, j - 1)
        BY <1>4 DEF DictsAfter
      <4>3. QED BY <2>4, <4>1, <4>2
    <3>4. QED BY <2>2, <2>4, <3>1, <3>2, <3>3 DEF DictsOfPass
  <2>6. ForwardPass(x) = <<Process(Data(a + PerPass.data), e, c, << >>, lg), cs>>
    <3>1. run[1] = Process(g, d, c, << Data(a) >>, lg) /\ run[2] = cs
      BY <1>4, <2>1 DEF g
    <3>2. QED BY <1>2, <1>6, <2>1, <2>3, <3>1
  <2>7. QED BY <1>4, <2>5, <2>6 DEF Passed
<1>7. CASE ~sp
  <2>1. /\ GenAfter(a, b, Depth) = Data(a + PerPass.data) /\ Outside(a) = << >>
        /\ DictAfter(b, Depth) = Model(b + PerPass.model)
    <3>1. a + 1 + Depth = a + (1 + Depth)
      OBVIOUS
    <3>2. QED BY <1>7, <3>1 DEF PerPass, GenAfter, Outside, DictAfter
  <2>2. ForwardPass(x) = <<Process(Data(a + PerPass.data), d, c, << >>, lg), cs>>
    BY <1>2, <1>4, <1>7, <2>1
  <2>3. DictsOfPass(d0, c, b, d)
    BY <1>4, <2>1 DEF DictsOfPass, DictsAfter
  <2>4. QED BY <1>4, <2>2, <2>3 DEF Passed
<1>8. QED BY <1>6, <1>7

LEMMA SetStatesIs ==
  ASSUME NEW g, NEW d, NEW c, NEW o, NEW l, NEW v
  PROVE  SetStates(Process(g, d, c, o, l), v) = Process(g, d, v, o, l)
BY DEF Process, SetStates

LayerDrawsAre(a, b, l) ==
  /\ sp => /\ DrawnAt(a, b, 2 * l + 2) = GenAfter(a, b, l)
           /\ DrawnAt(a, b, 2 * l + 3) = After(GenAfter(a, b, l))
  /\ ~sp => /\ DrawnAt(a, b, 2 * l + 2) = DictAfter(b, l)
            /\ DrawnAt(a, b, 2 * l + 3) = GenAfter(a, b, l)

LEMMA DrawsOfLayer ==
  ASSUME NEW a \in Nat, NEW b \in Nat, NEW l \in Nat
  PROVE  LayerDrawsAre(a, b, l)
BY LayerDraws DEF LayerDrawsAre

\* The process after a layer is run again from the generator h and dictionary t.
RunOnce(y, d, d1, lg, t, h) ==
  IF sp THEN Process(y, d1, Len(d) + 1, << >>, Append(Append(lg, h), After(h)))
  ELSE Process(y, [d1 EXCEPT ![t] = After(d1[t])], Len(d) + 1, << >>, Append(Append(lg, d1[t]), h))

\* What a context keeps, and the dictionaries after a copy of the one in force.
Keeps(ctx, h, t) == ctx.gen = h /\ ctx.tracker = t
Copied(d, c, d1) == d1 = Append(d, d[c])

\* A layer run again from what its context keeps.
LEMMA LayerRunAgain ==
  ASSUME NEW y, NEW d, NEW c, InUse(d, c), NEW lg, NEW t \in 1 .. Len(d), NEW h \in Streams,
         NEW ctx, Keeps(ctx, h, t), NEW d1, Copied(d, c, d1)
  PROVE  CheckpointBackward(Process(y, d, c, << >>, lg), ctx) = RunOnce(y, d, d1, lg, t, h)
<1> DEFINE o == << >>
<1>5. o \in Seq(Streams)
  OBVIOUS
<1> HIDE DEF o
<1> DEFINE x == Process(y, d, c, o, lg)
           set == SetStates([GetStates(x)[1] EXCEPT !.gen = h], t)
           k == Len(d) + 1
<1>1. GetStates(x) = <<Process(y, d1, c, o, lg), k>>
  BY GetStatesIs DEF Copied
<1>2. set = Process(h, d1, t, o, lg)
  <2>1. [Process(y, d1, c, o, lg) EXCEPT !.gen = h] = Process(h, d1, c, o, lg)
    BY DEF Process
  <2>2. SetStates(Process(h, d1, c, o, lg), t) = Process(h, d1, t, o, lg)
    BY SetStatesIs
  <2>3. QED BY <1>1, <2>1, <2>2
<1>3. CheckpointBackward(x, ctx) = SetStates([Layer(set) EXCEPT !.gen = y], k)
  <2>1. x.gen = y /\ ctx.gen = h /\ ctx.tracker = t /\ GetStates(x)[2] = k
    BY <1>1 DEF Process, Keeps
  <2>2. QED BY <2>1 DEF CheckpointBackward
<1> HIDE DEF x, set, k
<1>4. InUse(d1, t)
  <2>1. InUse(d1, c) /\ Len(d1) = Len(d) + 1 /\ Len(d) \in Nat
    BY CopyKept DEF InUse, Copied
  <2>2. QED BY <2>1 DEF InUse
<1>6. Layer(Process(h, d1, t, o, lg))
        = IF sp THEN Process(After(After(h)), d1, t, o, Append(Append(lg, h), After(h)))
          ELSE Process(After(h), [d1 EXCEPT ![t] = After(d1[t])], t, o, Append(Append(lg, d1[t]), h))
  BY <1>4, <1>5, LayerIs
<1>7. ASSUME NEW g, NEW e, NEW w
      PROVE  SetStates([Process(g, e, t, o, w) EXCEPT !.gen = y], k) = Process(y, e, k, o, w)
  <2>1. [Process(g, e, t, o, w) EXCEPT !.gen = y] = Process(y, e, t, o, w)
    BY DEF Process
  <2>2. SetStates(Process(y, e, t, o, w), k) = Process(y, e, k, o, w)
    BY DEF Process, SetStates
  <2>3. QED BY <2>1, <2>2
<1>8. CheckpointBackward(x, ctx) = SetStates([Layer(Process(h, d1, t, o, lg)) EXCEPT !.gen = y], k)
  BY <1>2, <1>3
<1>9. CASE sp
  BY <1>6, <1>7, <1>8, <1>9 DEF RunOnce, x, k, o
<1>10. CASE ~sp
  BY <1>6, <1>7, <1>8, <1>10 DEF RunOnce, x, k, o
<1>11. QED BY <1>9, <1>10

\* Number k of the recomputation of a microbatch.
RedrawnAt(a, b, k) == DrawnAt(a, b, 2 * (Depth - ((k - 1) \div 2)) + ((k - 1) % 2))

RedrawsOf(a, b, n, lg) ==
  lg \in Seq(Streams) /\ Len(lg) = n /\ \A k \in 1 .. n : lg[k] = RedrawnAt(a, b, k)

LEMMA OneMoreRedrawn ==
  ASSUME NEW a, NEW b, NEW n \in Nat, NEW lg, RedrawsOf(a, b, n, lg),
         NEW s \in Streams, s = RedrawnAt(a, b, n + 1)
  PROVE  RedrawsOf(a, b, n + 1, Append(lg, s))
<1> DEFINE r == Append(lg, s)
<1>1. r \in Seq(Streams) /\ Len(r) = n + 1 /\ r[n + 1] = s /\ \A k \in 1 .. n : r[k] = lg[k]
  BY DEF RedrawsOf
<1> HIDE DEF r
<1>2. ASSUME NEW k \in 1 .. n + 1 PROVE r[k] = RedrawnAt(a, b, k)
  <2>1. CASE k = n + 1
    BY <1>1, <2>1
  <2>2. CASE k # n + 1
    BY <1>1, <2>2 DEF RedrawsOf
  <2>3. QED BY <2>1, <2>2
<1>3. QED BY <1>1, <1>2 DEF RedrawsOf, r

\* What the dictionaries from n + 1 on keep for the layers of a microbatch.
Kept(d, n, b) ==
  n + Depth <= Len(d) /\ \A j \in 1 .. Depth : d[n + j] = DictAfter(b, j - 1)

\* After the last l layers are run again.
Current(d0, c, l) == IF l = 0 THEN c ELSE Len(d0) + l

DictsBack(d0, c, n, l, d) ==
  /\ InUse(d, Current(d0, c, l)) /\ Len(d) = Len(d0) + l
  /\ d[Current(d0, c, l)] = d0[c]
  /\ \A i \in 1 .. Len(d0) : i \notin (n + Depth - l) + 1 .. n + Depth => d[i] = d0[i]

RunAgain(y, d0, c, n, a, b, l, x) ==
  \E d, lg :
    /\ x = Process(y, d, Current(d0, c, l), << >>, lg)
    /\ DictsBack(d0, c, n, l, d) /\ RedrawsOf(a, b, 2 * l, lg)

LEMMA NextRunAgain ==
  ASSUME NEW y, NEW d0, NEW c, InUse(d0, c), NEW n \in Nat, NEW a \in Nat, NEW b \in Nat,
         Depth \in Nat, Kept(d0, n, b), NEW l \in Nat, l < Depth, NEW x,
         RunAgain(y, d0, c, n, a, b, l, x), NEW ctx, ctx = ContextAt(n, a, b, Depth - l)
  PROVE  RunAgain(y, d0, c, n, a, b, l + 1, CheckpointBackward(x, ctx))
<1>1. PICK d, lg :
        /\ x = Process(y, d, Current(d0, c, l), << >>, lg)
        /\ DictsBack(d0, c, n, l, d) /\ RedrawsOf(a, b, 2 * l, lg)
  BY DEF RunAgain
<1> DEFINE cur == Current(d0, c, l)
           j == Depth - l
           t == n + j
           h == GenAfter(a, b, j - 1)
           d1 == Append(d, d[cur])
           m == Len(d0)
<1>2. /\ m \in Nat /\ c \in 1 .. m /\ Len(d) = m + l /\ InUse(d, cur) /\ d[cur] = d0[c]
      /\ j \in Nat /\ j - 1 \in Nat /\ j >= 1 /\ j <= Depth
  BY <1>1 DEF DictsBack, InUse
<1>3. /\ Current(d0, c, l + 1) = Len(d) + 1 /\ t \in 1 .. m /\ t \in 1 .. Len(d)
      /\ t \notin (n + Depth - l) + 1 .. n + Depth
      /\ (n + Depth - (l + 1)) + 1 = t
  <2>1. n + Depth <= m
    BY DEF Kept
  <2>2. QED BY <1>2, <2>1 DEF Current
<1>4. Keeps(ctx, h, t)
  BY DEF ContextAt, Keeps
<1>5. h \in Streams
  BY <1>2, StreamTypes
<1>6. d0[t] = DictAfter(b, j - 1) /\ d[t] = d0[t]
  <2>1. d0[t] = DictAfter(b, j - 1)
    <3>1. j \in 1 .. Depth
      BY <1>2
    <3> HIDE DEF j
    <3>2. QED BY <3>1 DEF Kept
  <2>2. d[t] = d0[t]
    BY <1>1, <1>3 DEF DictsBack
  <2>3. QED BY <2>1, <2>2
<1>7. /\ InUse(d1, cur) /\ Len(d1) = Len(d) + 1 /\ d1[Len(d) + 1] = d0[c]
      /\ \A i \in 1 .. Len(d) : d1[i] = d[i]
  <2>1. InUse(d, cur)
    BY <1>2
  <2> HIDE DEF cur
  <2>2. QED BY <1>2, <2>1, CopyKept
<1> HIDE DEF d1, cur, t, h
<1>8. CheckpointBackward(x, ctx)
           = IF sp THEN Process(y, d1, Len(d) + 1, << >>, Append(Append(lg, h), After(h)))
             ELSE Process(y, [d1 EXCEPT ![t] = After(d1[t])], Len(d) + 1, << >>,
                          Append(Append(lg, d1[t]), h))
  <2>1. x = Process(y, d, cur, << >>, lg)
    BY <1>1 DEF cur
  <2>2. Copied(d, cur, d1)
    BY DEF d1, Copied
  <2>3. InUse(d, cur)
    BY <1>2
  <2>4. CheckpointBackward(Process(y, d, cur, << >>, lg), ctx) = RunOnce(y, d, d1, lg, t, h)
    BY <1>3, <1>4, <1>5, <2>2, <2>3, LayerRunAgain
  <2>5. QED BY <2>1, <2>4 DEF RunOnce
<1>9. /\ RedrawnAt(a, b, 2 * l + 1) = DrawnAt(a, b, 2 * j)
      /\ RedrawnAt(a, b, (2 * l + 1) + 1) = DrawnAt(a, b, 2 * j + 1)
  <2>1. /\ ((2 * l + 1) - 1) \div 2 = l /\ ((2 * l + 1) - 1) % 2 = 0
        /\ (((2 * l + 1) + 1) - 1) \div 2 = l /\ (((2 * l + 1) + 1) - 1) % 2 = 1
    OBVIOUS
  <2>2. 2 * (Depth - l) + 0 = 2 * j
    OBVIOUS
  <2>3. QED BY <2>1, <2>2 DEF RedrawnAt
<1>10. /\ sp => DrawnAt(a, b, 2 * j) = h /\ DrawnAt(a, b, 2 * j + 1) = After(h)
       /\ ~sp => DrawnAt(a, b, 2 * j) = DictAfter(b, j - 1) /\ DrawnAt(a, b, 2 * j + 1) = h
  <2> DEFINE i == j - 1
  <2>0. i \in Nat
    BY <1>2
  <2>1. 2 * i + 2 = 2 * j /\ 2 * i + 3 = 2 * j + 1
    BY <1>2
  <2>2. h = GenAfter(a, b, i)
    BY DEF h
  <2> HIDE DEF i
  <2>3. LayerDrawsAre(a, b, i)
    BY <2>0, DrawsOfLayer
  <2>4. QED BY <2>1, <2>2, <2>3 DEF i, LayerDrawsAre
<1>11. ASSUME NEW e, InUse(e, Len(d) + 1), Len(e) = Len(d) + 1, e[Len(d) + 1] = d0[c],
              \A i \in 1 .. Len(d) : i # t => e[i] = d[i]
       PROVE  DictsBack(d0, c, n, l + 1, e)
  <2>1. ASSUME NEW i \in 1 .. m, i \notin (n + Depth - (l + 1)) + 1 .. n + Depth
        PROVE  e[i] = d0[i]
    <3>1. i # t /\ i \in 1 .. Len(d) /\ i \notin (n + Depth - l) + 1 .. n + Depth
      <4>1. n + Depth \in Nat /\ n + Depth - l = t /\ t \in Nat
        BY <1>3
      <4>2. t <= n + Depth
        BY <4>1
      <4>3. QED BY <1>2, <1>3, <2>1, <4>1, <4>2
    <3>2. d[i] = d0[i]
      BY <1>1, <3>1 DEF DictsBack
    <3>3. QED BY <1>11, <3>1, <3>2
  <2>2. Len(e) = m + (l + 1)
    BY <1>2, <1>11
  <2>3. QED BY <1>3, <1>11, <2>1, <2>2 DEF DictsBack
<1>12. ASSUME NEW s1 \in Streams, NEW s2 \in Streams, s1 = DrawnAt(a, b, 2 * j),
              s2 = DrawnAt(a, b, 2 * j + 1)
       PROVE  RedrawsOf(a, b, 2 * (l + 1), Append(Append(lg, s1), s2))
  <2>1. RedrawsOf(a, b, 2 * l + 1, Append(lg, s1))
    <3>1. s1 = RedrawnAt(a, b, 2 * l + 1) /\ RedrawsOf(a, b, 2 * l, lg) /\ 2 * l \in Nat
      BY <1>1, <1>9, <1>12
    <3>2. QED BY <3>1, OneMoreRedrawn
  <2>2. RedrawsOf(a, b, (2 * l + 1) + 1, Append(Append(lg, s1), s2))
    <3>1. s2 = RedrawnAt(a, b, (2 * l + 1) + 1) /\ 2 * l + 1 \in Nat
      BY <1>9, <1>12
    <3>2. QED BY <2>1, <3>1, OneMoreRedrawn
  <2>3. (2 * l + 1) + 1 = 2 * (l + 1)
    OBVIOUS
  <2>4. QED BY <2>2, <2>3
<1>13. CASE sp
  <2>1. After(h) \in Streams
    BY <1>5, StreamsAre
  <2>2. RedrawsOf(a, b, 2 * (l + 1), Append(Append(lg, h), After(h)))
    BY <1>5, <1>10, <1>12, <1>13, <2>1
  <2>3. DictsBack(d0, c, n, l + 1, d1)
    <3>1. InUse(d1, Len(d) + 1)
      BY <1>2, <1>7 DEF InUse
    <3>2. QED BY <1>7, <1>11, <3>1
  <2>4. CheckpointBackward(x, ctx)
          = Process(y, d1, Current(d0, c, l + 1), << >>, Append(Append(lg, h), After(h)))
    BY <1>3, <1>8, <1>13
  <2>5. QED BY <2>2, <2>3, <2>4 DEF RunAgain
<1>14. CASE ~sp
  <2> DEFINE s == After(d1[t])
             e == [d1 EXCEPT ![t] = s]
             w == Append(Append(lg, d1[t]), h)
  <2>1. d1[t] = DictAfter(b, j - 1) /\ d1[t] \in Streams
    <3>1. d1[t] = DictAfter(b, j - 1)
      BY <1>3, <1>6, <1>7
    <3>2. QED BY <1>2, <3>1, StreamTypes
  <2>2. RedrawsOf(a, b, 2 * (l + 1), w)
    BY <1>5, <1>10, <1>12, <1>14, <2>1
  <2>3. s \in Streams
    BY <2>1, StreamsAre
  <2>4. CheckpointBackward(x, ctx) = Process(y, e, Current(d0, c, l + 1), << >>, w)
    BY <1>3, <1>8, <1>14
  <2> HIDE DEF s, w
  <2>5. DictsBack(d0, c, n, l + 1, e)
    <3> DEFINE k == Len(d) + 1
    <3>1. InUse(d1, k) /\ t \in 1 .. Len(d1) /\ k \in 1 .. Len(d1) /\ k # t
      BY <1>2, <1>3, <1>7 DEF InUse
    <3>2. k = Len(d) + 1
      OBVIOUS
    <3> HIDE DEF k
    <3>3. /\ InUse(e, k) /\ Len(e) = Len(d1) /\ \A i \in 1 .. Len(d1) : i # t => e[i] = d1[i]
      BY <2>3, <3>1, DictChanged
    <3> HIDE DEF e
    <3>4. e[k] = d0[c]
      BY <1>7, <3>1, <3>2, <3>3
    <3>5. \A i \in 1 .. Len(d) : i # t => e[i] = d[i]
      BY <1>2, <1>7, <3>3
    <3>6. QED BY <1>7, <1>11, <3>2, <3>3, <3>4, <3>5
  <2> HIDE DEF e
  <2>6. QED BY <2>2, <2>4, <2>5 DEF RunAgain
<1>15. QED BY <1>13, <1>14

BackwardChain(g, x, ctxs, n) ==
  g = [l \in 0 .. n |-> IF l = 0 THEN x ELSE CheckpointBackward(g[l - 1], ctxs[Depth + 1 - l])]

LEMMA BackwardChainExists ==
  ASSUME NEW n \in Nat, NEW x, NEW ctxs
  PROVE  \E g : BackwardChain(g, x, ctxs, n)
<1> DEFINE S == {m \in Nat : \E g : BackwardChain(g, x, ctxs, m)}
           Step(p, l) == CheckpointBackward(p, ctxs[Depth + 1 - l])
<1>1. 0 \in S
  <2>1. BackwardChain([l \in 0 .. 0 |-> x], x, ctxs, 0)
    BY DEF BackwardChain
  <2>2. QED BY <2>1
<1>2. ASSUME NEW m \in Nat, m \in S PROVE m + 1 \in S
  <2>1. PICK g : BackwardChain(g, x, ctxs, m)
    BY <1>2
  <2> DEFINE h == [l \in 0 .. m + 1 |-> IF l = m + 1 THEN Step(g[m], m + 1) ELSE g[l]]
  <2>2. ASSUME NEW l \in 0 .. m + 1
        PROVE  h[l] = IF l = 0 THEN x ELSE Step(h[l - 1], l)
    <3> HIDE DEF Step
    <3>1. CASE l = m + 1
      BY <3>1
    <3>2. CASE l # m + 1
      <4>1. l \in 0 .. m /\ h[l] = g[l] /\ (l # 0 => l - 1 \in 0 .. m /\ h[l - 1] = g[l - 1])
        BY <3>2
      <4>2. g[l] = IF l = 0 THEN x ELSE Step(g[l - 1], l)
        BY <2>1, <4>1 DEF BackwardChain, Step
      <4>3. QED BY <4>1, <4>2
    <3>3. QED BY <3>1, <3>2
  <2>3. h = [l \in 0 .. m + 1 |-> h[l]]
    OBVIOUS
  <2> HIDE DEF h
  <2>4. h = [l \in 0 .. m + 1 |-> IF l = 0 THEN x ELSE Step(h[l - 1], l)]
    BY <2>2, <2>3
  <2>5. BackwardChain(h, x, ctxs, m + 1)
    BY <2>4 DEF BackwardChain
  <2>6. QED BY <2>5
<1> HIDE DEF S
<1>3. n \in S
  BY <1>1, <1>2, Induct
<1>4. QED BY <1>3 DEF S

LEMMA BackwardPassIsChain ==
  ASSUME NEW x, NEW ctxs, Depth \in Nat
  PROVE  \E g : BackwardChain(g, x, ctxs, Depth) /\ BackwardPass(x, ctxs) = g[Depth]
<1>1. \E g : BackwardChain(g, x, ctxs, Depth)
  BY BackwardChainExists
<1>2. QED BY <1>1, Zenon DEF BackwardPass, BackwardChain

LEMMA BackwardPassIs ==
  ASSUME NEW y, NEW d0, NEW c, InUse(d0, c), NEW n \in Nat, NEW a \in Nat, NEW b \in Nat,
         Depth \in Nat, Kept(d0, n, b), NEW ctxs, ContextsAre(n, a, b, Depth, ctxs),
         NEW x, x = Process(y, d0, c, << >>, << >>)
  PROVE  RunAgain(y, d0, c, n, a, b, Depth, BackwardPass(x, ctxs))
<1>1. PICK g : BackwardChain(g, x, ctxs, Depth) /\ BackwardPass(x, ctxs) = g[Depth]
  BY BackwardPassIsChain
<1> DEFINE S == {l \in Nat : l <= Depth => RunAgain(y, d0, c, n, a, b, l, g[l])}
<1>2. 0 \in S
  <2>1. g[0] = x
    BY <1>1 DEF BackwardChain
  <2>2. Current(d0, c, 0) = c
    BY DEF Current
  <2>3. DictsBack(d0, c, n, 0, d0)
    <3>1. Len(d0) \in Nat
      BY DEF InUse
    <3>2. QED BY <2>2, <3>1 DEF DictsBack
  <2>4. RedrawsOf(a, b, 2 * 0, << >>)
    BY DEF RedrawsOf
  <2>5. RunAgain(y, d0, c, n, a, b, 0, x)
    BY <2>2, <2>3, <2>4 DEF RunAgain
  <2>6. QED BY <2>1, <2>5
<1>3. ASSUME NEW l \in Nat, l \in S PROVE l + 1 \in S
  <2>1. SUFFICES ASSUME l + 1 <= Depth PROVE RunAgain(y, d0, c, n, a, b, l + 1, g[l + 1])
    OBVIOUS
  <2>2. g[l + 1] = CheckpointBackward(g[l], ctxs[Depth - l])
    <3>1. l + 1 \in 0 .. Depth /\ l + 1 # 0 /\ (l + 1) - 1 = l /\ Depth + 1 - (l + 1) = Depth - l
      BY <2>1
    <3>2. QED BY <1>1, <3>1 DEF BackwardChain
  <2>3. RunAgain(y, d0, c, n, a, b, l, g[l]) /\ l < Depth
    BY <1>3, <2>1
  <2>4. ctxs[Depth - l] = ContextAt(n, a, b, Depth - l)
    <3> DEFINE j == Depth - l
    <3>1. j \in 1 .. Depth
      BY <2>1
    <3> HIDE DEF j
    <3>2. ctxs[j] = ContextAt(n, a, b, j)
      BY <3>1 DEF ContextsAre
    <3>3. QED BY <3>2 DEF j
  <2>5. RunAgain(y, d0, c, n, a, b, l + 1, CheckpointBackward(g[l], ctxs[Depth - l]))
    BY <2>3, <2>4, NextRunAgain
  <2>6. QED BY <2>2, <2>5
<1> HIDE DEF S
<1>4. Depth \in S
  BY <1>2, <1>3, Induct
<1>5. QED BY <1>1, <1>4 DEF S

\* The numbers drawn before microbatch n of the training.
DataBefore(n) == (n - 1) * PerPass.data
ModelBefore(n) == 1 + (n - 1) * PerPass.model

LEMMA ExpectedIs ==
  ASSUME NEW n \in Nat, n >= 1, Depth \in Nat
  PROVE  DrawsOf(DataBefore(n), ModelBefore(n), 1 + 2 * Depth, Expected(n))
<1> DEFINE a == DataBefore(n)
           b == ModelBefore(n)
           first == IF sp THEN Model(b + 0) ELSE Data(a + 0)
           ofSp == [k \in 1 .. 2 * Depth |-> Model(b + k)]
           ofNot == [k \in 1 .. 2 * Depth |->
                       IF k % 2 = 1 THEN Model(b + (k \div 2)) ELSE Data(a + (k \div 2))]
           layers == IF sp THEN ofSp ELSE ofNot
           N == 2 * Depth
<1>0. N \in Nat
  OBVIOUS
<1>1. a \in Nat /\ b \in Nat
  <2>1. PerPass.data \in Nat /\ PerPass.model \in Nat
    BY DEF PerPass
  <2>2. n - 1 \in Nat
    OBVIOUS
  <2>3. \A x, y \in Nat : x * y \in Nat
    OBVIOUS
  <2>4. (n - 1) * PerPass.data \in Nat /\ (n - 1) * PerPass.model \in Nat
    BY <2>1, <2>2, <2>3
  <2>5. QED BY <2>4 DEF DataBefore, ModelBefore
<1>2. Expected(n) = << first >> \o layers
  <2>1. \A k : Stream("data", (n - 1) * PerPass.data + k) = Data(a + k)
    BY DEF Data, DataBefore
  <2>2. \A k : Stream("model", 1 + (n - 1) * PerPass.model + k) = Model(b + k)
    BY DEF Model, ModelBefore
  <2> HIDE DEF a, b
  <2>3. QED BY <2>1, <2>2, Zenon DEF Expected
<1> HIDE DEF a, b
<1>3. ASSUME NEW k \in 1 .. N PROVE layers[k] = DrawnAt(a, b, k + 1) /\ layers[k] \in Streams
  <2>1. DrawnAt(a, b, k + 1) \in Streams
    <3>1. k \in Nat
      BY <1>0
    <3>2. QED BY <1>1, <3>1, StreamTypes
  <2>2. CASE sp
    <3>1. b + (k + 1) - 1 = b + k
      BY <1>1
    <3>2. layers[k] = Model(b + k)
      BY <2>2
    <3>3. QED BY <2>1, <2>2, <3>1, <3>2 DEF DrawnAt
  <2>3. CASE ~sp /\ k % 2 = 1
    <3>1. (k + 1) % 2 = 0 /\ b + ((k + 1) \div 2) - 1 = b + (k \div 2)
      BY <1>1, <2>3
    <3>2. layers[k] = Model(b + (k \div 2))
      BY <2>3
    <3>3. QED BY <2>1, <2>3, <3>1, <3>2 DEF DrawnAt
  <2>4. CASE ~sp /\ k % 2 # 1
    <3>1. (k + 1) % 2 # 0 /\ (k + 1) \div 2 = k \div 2
      BY <2>4
    <3>2. layers[k] = Data(a + (k \div 2))
      BY <2>4
    <3>3. QED BY <2>1, <2>4, <3>1, <3>2 DEF DrawnAt
  <2>5. QED BY <2>2, <2>3, <2>4
<1>4. first = DrawnAt(a, b, 1) /\ first \in Streams
  <2>1. b + 0 = b /\ a + 0 = a /\ b + 1 - 1 = b /\ 1 % 2 # 0 /\ 1 \div 2 = 0
    BY <1>1
  <2>2. first = DrawnAt(a, b, 1)
    BY <2>1 DEF DrawnAt
  <2>3. first \in Streams
    BY <1>1, <2>1, StreamsAre
  <2>4. QED BY <2>2, <2>3
<1>5. layers = [k \in 1 .. N |-> layers[k]]
  OBVIOUS
<1> HIDE DEF first, layers, N
<1>6. layers \in Seq(Streams) /\ Len(layers) = N
  BY <1>0, <1>3, <1>5
<1> DEFINE r == << first >> \o layers
<1>7. r \in Seq(Streams) /\ Len(r) = 1 + N /\ r[1] = first
      /\ \A k \in 2 .. 1 + N : r[k] = layers[k - 1]
  BY <1>0, <1>4, <1>6
<1> HIDE DEF r
<1>8. ASSUME NEW k \in 1 .. 1 + N PROVE r[k] = DrawnAt(a, b, k)
  <2>1. CASE k = 1
    BY <1>4, <1>7, <2>1
  <2>2. CASE k # 1
    <3>1. k - 1 \in 1 .. N /\ (k - 1) + 1 = k /\ k \in 2 .. 1 + N
      BY <1>0, <2>2
    <3>2. layers[k - 1] = DrawnAt(a, b, (k - 1) + 1)
      BY <1>3, <3>1
    <3>3. QED BY <1>7, <3>1, <3>2
  <2>3. QED BY <2>1, <2>2
<1>9. DrawsOf(a, b, 1 + N, r)
  BY <1>7, <1>8 DEF DrawsOf
<1>10. QED BY <1>2, <1>9 DEF r, a, b, N

LEMMA DrawsAreExpected ==
  ASSUME NEW n \in Nat, n >= 1, Depth \in Nat, NEW lg,
         DrawsOf(DataBefore(n), ModelBefore(n), 1 + 2 * Depth, lg)
  PROVE  lg = Expected(n)
<1> DEFINE e == Expected(n)
           N == 1 + 2 * Depth
<1>1. DrawsOf(DataBefore(n), ModelBefore(n), N, e)
  BY ExpectedIs
<1>2. N \in Nat
  OBVIOUS
<1> HIDE DEF e
<1>3. /\ e \in Seq(Streams) /\ lg \in Seq(Streams) /\ Len(e) = N /\ Len(lg) = N
      /\ \A k \in 1 .. N : lg[k] = e[k]
  BY <1>1 DEF DrawsOf
<1> HIDE DEF N
<1>4. QED BY <1>2, <1>3 DEF e

LEMMA RedrawsAreExpected ==
  ASSUME NEW n \in Nat, n >= 1, Depth \in Nat, NEW lg,
         RedrawsOf(DataBefore(n), ModelBefore(n), 2 * Depth, lg)
  PROVE  lg = Recomputed(Expected(n))
<1> DEFINE e == Expected(n)
           N == 2 * Depth
           a == DataBefore(n)
           b == ModelBefore(n)
<1>1. DrawsOf(a, b, 1 + 2 * Depth, e)
  BY ExpectedIs
<1>2. N \in Nat
  OBVIOUS
<1> HIDE DEF e, a, b
<1>3. ASSUME NEW k \in 1 .. N
      PROVE  RedrawnAt(a, b, k) = e[1 + 2 * (Depth - 1 - ((k - 1) \div 2)) + ((k - 1) % 2) + 1]
  <2> DEFINE q == (k - 1) \div 2
             r == (k - 1) % 2
             i == 2 * (Depth - q) + r
  <2>1. q \in Nat /\ q <= Depth - 1 /\ r \in {0, 1}
    OBVIOUS
  <2> HIDE DEF q, r
  <2>2. i \in 1 .. 1 + 2 * Depth /\ 1 + 2 * (Depth - 1 - q) + r + 1 = i
    BY <2>1
  <2>3. RedrawnAt(a, b, k) = DrawnAt(a, b, i)
    BY DEF RedrawnAt, q, r
  <2> HIDE DEF i
  <2>4. e[i] = DrawnAt(a, b, i)
    BY <1>1, <2>2 DEF DrawsOf
  <2>5. RedrawnAt(a, b, k) = e[1 + 2 * (Depth - 1 - q) + r + 1]
    BY <2>2, <2>3, <2>4
  <2>6. QED BY <2>5 DEF q, r
<1>4. lg \in Seq(Streams) /\ Len(lg) = N /\ \A k \in 1 .. N : lg[k] = RedrawnAt(a, b, k)
  BY DEF RedrawsOf, a, b
<1> HIDE DEF N
<1>5. lg = [k \in 1 .. N |-> RedrawnAt(a, b, k)]
  BY <1>2, <1>4
<1>6. lg = [k \in 1 .. N |-> e[1 + 2 * (Depth - 1 - ((k - 1) \div 2)) + ((k - 1) % 2) + 1]]
  BY <1>3, <1>5, Zenon
<1>7. QED BY <1>6 DEF N, e, Recomputed

LEMMA Counts ==
  ASSUME NEW n \in Nat, n >= 1, Depth \in Nat
  PROVE  /\ DataBefore(n) \in Nat /\ ModelBefore(n) \in Nat
         /\ DataBefore(n) + PerPass.data = DataBefore(n + 1)
         /\ ModelBefore(n) + PerPass.model = ModelBefore(n + 1)
<1>1. PerPass.data \in Nat /\ PerPass.model \in Nat
  BY DEF PerPass
<1>2. ASSUME NEW p \in Nat
      PROVE  (n - 1) * p \in Nat /\ (n - 1) * p + p = ((n + 1) - 1) * p
  <2> DEFINE q == n - 1
  <2>1. q \in Nat /\ (n + 1) - 1 = q + 1
    OBVIOUS
  <2> HIDE DEF q
  <2>2. q * p \in Nat /\ q * p + p = (q + 1) * p
    BY <2>1
  <2>3. QED BY <2>1, <2>2 DEF q
<1>3. /\ (n - 1) * PerPass.data \in Nat
      /\ (n - 1) * PerPass.data + PerPass.data = ((n + 1) - 1) * PerPass.data
  BY <1>1, <1>2
<1>4. /\ (n - 1) * PerPass.model \in Nat
      /\ (n - 1) * PerPass.model + PerPass.model = ((n + 1) - 1) * PerPass.model
  BY <1>1, <1>2
<1> DEFINE u == (n - 1) * PerPass.model
           v == ((n + 1) - 1) * PerPass.model
<1>5. DataBefore(n) \in Nat /\ DataBefore(n) + PerPass.data = DataBefore(n + 1)
  BY <1>3 DEF DataBefore
<1>6. ModelBefore(n) = 1 + u /\ ModelBefore(n + 1) = 1 + v
  BY DEF ModelBefore
<1>7. u \in Nat /\ u + PerPass.model = v
  BY <1>4
<1> HIDE DEF u, v
<1>8. ModelBefore(n) \in Nat /\ ModelBefore(n) + PerPass.model = ModelBefore(n + 1)
  BY <1>1, <1>6, <1>7
<1>9. QED BY <1>5, <1>8

LEMMA LogCleared ==
  ASSUME NEW g, NEW d, NEW c, NEW o, NEW l
  PROVE  /\ [Process(g, d, c, o, l) EXCEPT !.log = << >>] = Process(g, d, c, o, << >>)
         /\ Process(g, d, c, o, l).log = l
BY DEF Process

Contexts == Seq([gen : Streams, tracker : Nat])

LEMMA ContextsTyped ==
  ASSUME NEW n \in Nat, NEW a \in Nat, NEW b \in Nat, NEW cs, ContextsAre(n, a, b, Depth, cs),
         Depth \in Nat
  PROVE  cs \in Contexts
<1>1. ASSUME NEW j \in 1 .. Depth PROVE ContextAt(n, a, b, j) \in [gen : Streams, tracker : Nat]
  <2>1. j - 1 \in Nat /\ n + j \in Nat
    OBVIOUS
  <2>2. GenAfter(a, b, j - 1) \in Streams
    BY <2>1, StreamTypes
  <2>3. QED BY <2>1, <2>2 DEF ContextAt
<1>2. cs = [j \in 1 .. Depth |-> ContextAt(n, a, b, j)]
  BY DEF ContextsAre
<1>3. QED BY <1>1, <1>2 DEF Contexts

\* The microbatches of a training before step i.
Before(i) == i * PerStep

\* A process r in step i, with the contexts cs of the forward passes made and k
\* backward passes done: its dictionaries are d, c is in force, and those of
\* microbatch m are the ones after at[m].
FreshAt(i, n, d, c) ==
  /\ InUse(d, c) /\ d[c] = Model(ModelBefore(Before(i) + n + 1))

MicrobatchKept(i, cs, d, c, m, s) ==
  /\ s \in Nat
  /\ ContextsAre(s, DataBefore(Before(i) + m), ModelBefore(Before(i) + m), Depth, cs[m])
  /\ Kept(d, s, ModelBefore(Before(i) + m))
  /\ c \notin s + 1 .. s + Depth

AllKept(i, cs, k, d, c, at) ==
  /\ \A m \in k + 1 .. Len(cs) : MicrobatchKept(i, cs, d, c, m, at[m])
  /\ \A m, q \in k + 1 .. Len(cs) : m < q => at[m] + Depth <= at[q]

GoesOn(i, r, cs, k) ==
  \E d, c, at :
    /\ r = Process(Data(DataBefore(Before(i) + Len(cs) + 1)), d, c, << >>, << >>)
    /\ FreshAt(i, Len(cs), d, c) /\ AllKept(i, cs, k, d, c, at)

\* What a forward pass leaves: one more microbatch is kept, the others as they were.
ForwardGoesOn(i, cs, k, run) ==
  /\ GoesOn(i, [run[1] EXCEPT !.log = << >>], Append(cs, run[2]), k)
  /\ run[1].log = Expected(Before(i) + Len(cs) + 1)
  /\ run[2] \in Contexts

\* Dictionaries are kept where a pass changes none of them.
LEMMA KeptStays ==
  ASSUME NEW d, NEW d1, NEW s \in Nat, NEW b, Kept(d, s, b), Len(d) <= Len(d1),
         Len(d) \in Nat, Len(d1) \in Nat, Depth \in Nat,
         \A i \in s + 1 .. s + Depth : d1[i] = d[i]
  PROVE  Kept(d1, s, b)
<1>1. s + Depth <= Len(d1)
  BY DEF Kept
<1>2. ASSUME NEW j \in 1 .. Depth PROVE d1[s + j] = DictAfter(b, j - 1)
  <2>1. s + j \in s + 1 .. s + Depth
    OBVIOUS
  <2>2. d1[s + j] = d[s + j]
    BY <2>1
  <2>3. QED BY <2>2 DEF Kept
<1>3. QED BY <1>1, <1>2 DEF Kept

LEMMA ForwardStep ==
  ASSUME Depth \in Nat, PerStep \in Nat, NEW i \in Nat, NEW cs \in Seq(Contexts),
         NEW k \in Nat, k <= Len(cs), NEW r, GoesOn(i, r, cs, k)
  PROVE  ForwardGoesOn(i, cs, k, ForwardPass(r))
<1>1. PICK d, c, at :
        /\ r = Process(Data(DataBefore(Before(i) + Len(cs) + 1)), d, c, << >>, << >>)
        /\ FreshAt(i, Len(cs), d, c) /\ AllKept(i, cs, k, d, c, at)
  BY DEF GoesOn
<1> DEFINE z == Len(cs)
           n == Before(i) + z + 1
           a == DataBefore(n)
           b == ModelBefore(n)
           run == ForwardPass(r)
<1>2. z \in Nat /\ Before(i) \in Nat /\ n \in Nat /\ n >= 1 /\ Before(i) + (z + 1) = n
      /\ Before(i) + (z + 1) + 1 = n + 1
  <2>1. z \in Nat
    OBVIOUS
  <2>2. Before(i) \in Nat
    BY DEF Before
  <2> HIDE DEF z
  <2>3. QED BY <2>1, <2>2
<1>3. InUse(d, c) /\ d[c] = Model(b)
  BY <1>1 DEF FreshAt
<1>4. r = Process(Data(a), d, c, << >>, << >>)
  BY <1>1
<1> HIDE DEF z, n, run
<1>5. a \in Nat /\ b \in Nat /\ a + PerPass.data = DataBefore(n + 1)
      /\ b + PerPass.model = ModelBefore(n + 1)
  BY <1>2, Counts
<1> HIDE DEF a, b
<1>6. Passed(d, c, a, b, run)
  BY <1>3, <1>4, <1>5, ForwardPassIs DEF run
<1>7. PICK e, lg, ct :
        /\ run = <<Process(Data(a + PerPass.data), e, c, << >>, lg), ct>>
        /\ DictsOfPass(d, c, b, e) /\ DrawsOf(a, b, 1 + 2 * Depth, lg)
        /\ ContextsAre(Len(d), a, b, Depth, ct)
  BY <1>6 DEF Passed
<1>8. run[1].log = lg /\ run[2] = ct
      /\ [run[1] EXCEPT !.log = << >>] = Process(Data(DataBefore(n + 1)), e, c, << >>, << >>)
  BY <1>5, <1>7, LogCleared
<1>9. lg = Expected(n)
  BY <1>2, <1>7, DrawsAreExpected DEF a, b
<1>10. Len(d) \in Nat /\ c \in 1 .. Len(d) /\ Len(e) = Len(d) + Depth /\ Len(e) \in Nat
       /\ InUse(e, c)
  BY <1>3, <1>7 DEF InUse, DictsOfPass
<1>11. ct \in Contexts
  BY <1>5, <1>7, <1>10, ContextsTyped
<1> DEFINE cs1 == Append(cs, ct)
           at1 == [m \in 1 .. z + 1 |-> IF m = z + 1 THEN Len(d) ELSE at[m]]
<1>12. Len(cs1) = z + 1 /\ cs1[z + 1] = ct /\ \A m \in 1 .. z : cs1[m] = cs[m]
  BY <1>11 DEF z
<1>13. at1[z + 1] = Len(d) /\ \A m \in 1 .. z : at1[m] = at[m]
  BY <1>2
<1> HIDE DEF cs1, at1
<1>14. FreshAt(i, z + 1, e, c)
  BY <1>2, <1>5, <1>7, <1>10 DEF FreshAt, DictsOfPass
<1>15. ASSUME NEW m \in k + 1 .. z
       PROVE  m \in 1 .. z /\ MicrobatchKept(i, cs, d, c, m, at[m])
  BY <1>1, <1>2 DEF AllKept, z
<1>16. ASSUME NEW m \in k + 1 .. z + 1 PROVE MicrobatchKept(i, cs1, e, c, m, at1[m])
  <2>1. CASE m = z + 1
    <3>1. ContextsAre(Len(d), DataBefore(Before(i) + m), ModelBefore(Before(i) + m), Depth, cs1[m])
      BY <1>2, <1>7, <1>12, <2>1 DEF a, b
    <3>2. Kept(e, Len(d), ModelBefore(Before(i) + m))
      BY <1>2, <1>7, <1>10, <2>1 DEF Kept, DictsOfPass, b
    <3>3. c \notin Len(d) + 1 .. Len(d) + Depth
      BY <1>10
    <3>4. QED BY <1>10, <1>13, <2>1, <3>1, <3>2, <3>3 DEF MicrobatchKept
  <2>2. CASE m # z + 1
    <3> DEFINE s == at[m]
    <3>1. m \in k + 1 .. z
      BY <1>2, <2>2
    <3>2. MicrobatchKept(i, cs, d, c, m, s) /\ cs1[m] = cs[m] /\ at1[m] = s
      BY <1>12, <1>13, <1>15, <3>1
    <3> HIDE DEF s
    <3>3. s \in Nat /\ Kept(d, s, ModelBefore(Before(i) + m)) /\ s + Depth <= Len(d)
          /\ c \notin s + 1 .. s + Depth
      BY <3>2 DEF MicrobatchKept, Kept
    <3>4. ASSUME NEW v \in s + 1 .. s + Depth PROVE e[v] = d[v]
      <4>1. v \in 1 .. Len(d) /\ v # c
        BY <1>10, <3>3
      <4>2. QED BY <1>7, <4>1 DEF DictsOfPass
    <3>5. Len(d) <= Len(e)
      BY <1>10
    <3>6. Kept(e, s, ModelBefore(Before(i) + m))
      BY <1>10, <3>3, <3>4, <3>5, KeptStays
    <3>7. QED BY <3>2, <3>3, <3>6 DEF MicrobatchKept
  <2>3. QED BY <2>1, <2>2
<1>17. ASSUME NEW m \in k + 1 .. z + 1, NEW q \in k + 1 .. z + 1, m < q
       PROVE  at1[m] + Depth <= at1[q]
  <2>1. m \in k + 1 .. z /\ m \in 1 .. z
    BY <1>2, <1>17
  <2>2. CASE q = z + 1
    <3>1. at[m] \in Nat /\ at[m] + Depth <= Len(d)
      BY <1>15, <2>1 DEF MicrobatchKept, Kept
    <3>2. QED BY <1>13, <2>1, <2>2, <3>1
  <2>3. CASE q # z + 1
    <3>1. q \in k + 1 .. z /\ q \in 1 .. z
      BY <1>2, <2>3
    <3>2. at[m] + Depth <= at[q]
      BY <1>1, <1>17, <2>1, <3>1 DEF AllKept, z
    <3>3. QED BY <1>13, <2>1, <3>1, <3>2
  <2>4. QED BY <2>2, <2>3
<1>18. AllKept(i, cs1, k, e, c, at1)
  BY <1>12, <1>16, <1>17 DEF AllKept
<1>19. GoesOn(i, Process(Data(DataBefore(n + 1)), e, c, << >>, << >>), cs1, k)
  <2>1. Before(i) + Len(cs1) + 1 = n + 1
    BY <1>2, <1>12
  <2>2. FreshAt(i, Len(cs1), e, c)
    BY <1>12, <1>14
  <2>3. QED BY <1>18, <2>1, <2>2 DEF GoesOn
<1>20. QED BY <1>8, <1>9, <1>11, <1>19 DEF ForwardGoesOn, cs1, n, z, run

\* What a backward pass leaves: its microbatch is done, the others are kept.
BackwardGoesOn(i, cs, k, run) ==
  /\ GoesOn(i, [run EXCEPT !.log = << >>], cs, k + 1)
  /\ run.log = Recomputed(Expected(Before(i) + (k + 1)))

LEMMA BackwardStep ==
  ASSUME Depth \in Nat, PerStep \in Nat, NEW i \in Nat, NEW cs \in Seq(Contexts),
         NEW k \in Nat, k < Len(cs), NEW r, GoesOn(i, r, cs, k)
  PROVE  BackwardGoesOn(i, cs, k, BackwardPass(r, cs[k + 1]))
<1>1. PICK d, c, at :
        /\ r = Process(Data(DataBefore(Before(i) + Len(cs) + 1)), d, c, << >>, << >>)
        /\ FreshAt(i, Len(cs), d, c) /\ AllKept(i, cs, k, d, c, at)
  BY DEF GoesOn
<1> DEFINE z == Len(cs)
           y == Data(DataBefore(Before(i) + z + 1))
           p == k + 1
           n == Before(i) + p
           a == DataBefore(n)
           b == ModelBefore(n)
           s == at[p]
           ct == cs[p]
           run == BackwardPass(r, ct)
           c1 == Current(d, c, Depth)
<1>2. z \in Nat /\ Before(i) \in Nat /\ n \in Nat /\ n >= 1 /\ p \in Nat /\ p \in k + 1 .. z
  <2>1. z \in Nat
    OBVIOUS
  <2>2. Before(i) \in Nat
    BY DEF Before
  <2>3. k < z
    OBVIOUS
  <2> HIDE DEF z
  <2>4. QED BY <2>1, <2>2, <2>3
<1>3. r = Process(y, d, c, << >>, << >>) /\ InUse(d, c)
  BY <1>1 DEF FreshAt
<1> HIDE DEF z, y, p
<1>4. MicrobatchKept(i, cs, d, c, p, s)
  BY <1>1, <1>2 DEF AllKept, z
<1> HIDE DEF n
<1>5. a \in Nat /\ b \in Nat
  BY <1>2, Counts
<1>6. s \in Nat /\ ContextsAre(s, a, b, Depth, ct) /\ Kept(d, s, b)
  BY <1>4 DEF MicrobatchKept, n
<1> HIDE DEF a, b, s, ct, run
<1>7. RunAgain(y, d, c, s, a, b, Depth, run)
  BY <1>3, <1>5, <1>6, BackwardPassIs DEF run
<1> HIDE DEF c1
<1>8. PICK e, lg :
        /\ run = Process(y, e, c1, << >>, lg)
        /\ DictsBack(d, c, s, Depth, e) /\ RedrawsOf(a, b, 2 * Depth, lg)
  BY <1>7 DEF RunAgain, c1
<1>9. run.log = lg /\ [run EXCEPT !.log = << >>] = Process(y, e, c1, << >>, << >>)
  BY <1>8, LogCleared
<1>10. lg = Recomputed(Expected(n))
  BY <1>2, <1>8, RedrawsAreExpected DEF a, b
<1>11. /\ Len(d) \in Nat /\ c \in 1 .. Len(d) /\ Len(e) = Len(d) + Depth /\ Len(e) \in Nat
       /\ InUse(e, c1) /\ e[c1] = d[c]
       /\ \A v \in 1 .. Len(d) : v \notin s + 1 .. s + Depth => e[v] = d[v]
  <2>1. (s + Depth - Depth) + 1 = s + 1
    BY <1>6
  <2>2. Len(d) \in Nat /\ c \in 1 .. Len(d)
    BY <1>3 DEF InUse
  <2>3. QED BY <1>8, <2>1, <2>2 DEF DictsBack, c1
<1>12. FreshAt(i, z, e, c1)
  BY <1>1, <1>11 DEF FreshAt, z
<1>13. ASSUME NEW m \in (k + 1) + 1 .. z
       PROVE  MicrobatchKept(i, cs, e, c1, m, at[m])
  <2> DEFINE t == at[m]
  <2>1. m \in k + 1 .. z /\ p < m
    BY <1>2 DEF p
  <2>2. MicrobatchKept(i, cs, d, c, m, t)
    BY <1>1, <2>1 DEF AllKept, z
  <2>3. s + Depth <= t
    BY <1>1, <1>2, <2>1 DEF AllKept, z, s
  <2> HIDE DEF t
  <2>4. t \in Nat /\ Kept(d, t, ModelBefore(Before(i) + m)) /\ t + Depth <= Len(d)
        /\ c \notin t + 1 .. t + Depth
    BY <2>2 DEF MicrobatchKept, Kept
  <2>5. ASSUME NEW v \in t + 1 .. t + Depth PROVE e[v] = d[v]
    <3>1. v \in 1 .. Len(d) /\ v \notin s + 1 .. s + Depth
      BY <1>6, <1>11, <2>3, <2>4
    <3>2. QED BY <1>11, <3>1
  <2>6. Len(d) <= Len(e)
    BY <1>11
  <2>7. Kept(e, t, ModelBefore(Before(i) + m))
    BY <1>11, <2>4, <2>5, <2>6, KeptStays
  <2>8. c1 \notin t + 1 .. t + Depth
    BY <1>11, <2>4 DEF c1, Current
  <2>9. MicrobatchKept(i, cs, e, c1, m, t)
    BY <2>2, <2>4, <2>7, <2>8 DEF MicrobatchKept
  <2>10. QED BY <2>9 DEF t
<1>14. ASSUME NEW m \in (k + 1) + 1 .. z, NEW q \in (k + 1) + 1 .. z, m < q
       PROVE  at[m] + Depth <= at[q]
  <2>1. m \in k + 1 .. z /\ q \in k + 1 .. z
    BY <1>2
  <2>2. QED BY <1>1, <1>14, <2>1 DEF AllKept, z
<1>15. AllKept(i, cs, k + 1, e, c1, at)
  BY <1>13, <1>14 DEF AllKept, z
<1>16. GoesOn(i, Process(y, e, c1, << >>, << >>), cs, k + 1)
  BY <1>12, <1>15 DEF GoesOn, y, z
<1>17. QED BY <1>9, <1>10, <1>16 DEF BackwardGoesOn, n, p, run, ct

\* The generators between two steps of a training.
Resumed(i) ==
  [gen |-> Data(DataBefore(Before(i) + 0 + 1)), tracker |-> Model(ModelBefore(Before(i) + 0 + 1)),
   iteration |-> i]

LEMMA StepBegins ==
  ASSUME NEW i \in Nat, NEW r, NEW g, NEW v, g = Data(DataBefore(Before(i) + 0 + 1)),
         v = Model(ModelBefore(Before(i) + 0 + 1)), r = Process(g, << v >>, 1, << >>, << >>),
         Depth \in Nat, PerStep \in Nat
  PROVE  GoesOn(i, r, << >>, 0)
<1> DEFINE cs == << >>
           d == << v >>
           at == << >>
<1>1. Len(cs) = 0
  OBVIOUS
<1>2. v \in Streams
  <2> DEFINE n == Before(i) + 0 + 1
  <2>1. n \in Nat /\ n >= 1
    BY DEF Before
  <2> HIDE DEF n
  <2>2. ModelBefore(n) \in Nat
    BY <2>1, Counts
  <2>3. v = Model(ModelBefore(n))
    BY DEF n
  <2>4. QED BY <2>2, <2>3, StreamsAre
<1>3. InUse(d, 1) /\ d[1] = v
  BY <1>2 DEF InUse
<1> HIDE DEF d
<1>4. FreshAt(i, Len(cs), d, 1)
  BY <1>1, <1>3 DEF FreshAt
<1>5. AllKept(i, cs, 0, d, 1, at)
  BY <1>1 DEF AllKept
<1>6. r = Process(Data(DataBefore(Before(i) + Len(cs) + 1)), d, 1, << >>, << >>)
  BY <1>1 DEF d
<1> HIDE DEF cs, at
<1>7. GoesOn(i, r, cs, 0)
  BY <1>4, <1>5, <1>6 DEF GoesOn
<1>8. QED BY <1>7 DEF cs

\* A checkpoint resumes the step it names.
StoredRight == stored = << >> \/ \E i \in Nat : stored = << Resumed(i) >>

\* A process that is up stands in its step after the forward passes made so far.
UnderWay ==
  /\ contexts \in Seq(Contexts) /\ done \in Nat
  /\ Len(contexts) <= PerStep /\ done <= Len(contexts)
  /\ step = << >> => contexts = << >> /\ done = 0
  /\ step # << >> => \E i \in Nat : \E r, cs, k :
                        /\ step = << i >> /\ r = rng /\ cs = contexts /\ k = done
                        /\ GoesOn(i, r, cs, k)

\* What was drawn is what is expected.
DrawnRight ==
  /\ DOMAIN drawn = 1 .. MaxSteps * PerStep /\ DOMAIN redrawn = DOMAIN drawn
  /\ DrawsAsPlain

RandomInv == sp \in BOOLEAN /\ StoredRight /\ UnderWay /\ DrawnRight

\* Nothing of what is expected changes in a launch.
LEMMA ExpectedStays ==
  ASSUME sp' = sp, NEW n
  PROVE  /\ Expected(n)' = Expected(n)
         /\ Recomputed(Expected(n))' = Recomputed(Expected(n))
<1>1. PerPass' = PerPass
  BY DEF PerPass
<1>2. Expected(n)' = Expected(n)
  BY <1>1 DEF Expected, Stream
<1>3. QED BY <1>2 DEF Recomputed

LEMMA BeforeStays ==
  ASSUME sp' = sp, NEW n
  PROVE  DataBefore(n)' = DataBefore(n) /\ ModelBefore(n)' = ModelBefore(n)
<1>1. PerPass' = PerPass
  BY DEF PerPass
<1>2. QED BY <1>1 DEF DataBefore, ModelBefore

LEMMA ResumedStays ==
  ASSUME sp' = sp, NEW i
  PROVE  Resumed(i)' = Resumed(i)
BY BeforeStays DEF Resumed

LEMMA GoesOnStays ==
  ASSUME sp' = sp, NEW i, NEW r, NEW cs, NEW k, GoesOn(i, r, cs, k)
  PROVE  GoesOn(i, r, cs, k)'
<1>1. ASSUME NEW a, NEW b, NEW l
      PROVE  GenAfter(a, b, l)' = GenAfter(a, b, l) /\ DictAfter(b, l)' = DictAfter(b, l)
  BY DEF GenAfter, DictAfter
<1>2. ASSUME NEW n, NEW a, NEW b, NEW l, NEW c PROVE ContextsAre(n, a, b, l, c)' <=> ContextsAre(n, a, b, l, c)
  BY <1>1 DEF ContextsAre, ContextAt
<1>3. ASSUME NEW d, NEW n, NEW b PROVE Kept(d, n, b)' <=> Kept(d, n, b)
  BY <1>1 DEF Kept
<1>4. ASSUME NEW d, NEW c, NEW m, NEW s
      PROVE  MicrobatchKept(i, cs, d, c, m, s)' <=> MicrobatchKept(i, cs, d, c, m, s)
  BY <1>2, <1>3, BeforeStays DEF MicrobatchKept
<1>5. ASSUME NEW d, NEW c, NEW at PROVE AllKept(i, cs, k, d, c, at)' <=> AllKept(i, cs, k, d, c, at)
  BY <1>4 DEF AllKept
<1>6. ASSUME NEW n, NEW d, NEW c PROVE FreshAt(i, n, d, c)' <=> FreshAt(i, n, d, c)
  BY BeforeStays DEF FreshAt
<1>7. PICK d, c, at :
        /\ r = Process(Data(DataBefore(Before(i) + Len(cs) + 1)), d, c, << >>, << >>)
        /\ FreshAt(i, Len(cs), d, c) /\ AllKept(i, cs, k, d, c, at)
  BY DEF GoesOn
<1>8. r = Process(Data(DataBefore(Before(i) + Len(cs) + 1)'), d, c, << >>, << >>)
  BY <1>7, BeforeStays
<1>9. FreshAt(i, Len(cs), d, c)' /\ AllKept(i, cs, k, d, c, at)'
  BY <1>5, <1>6, <1>7
<1>10. QED BY <1>8, <1>9 DEF GoesOn

LEMMA UnderWayNext ==
  ASSUME sp' = sp, NEW i \in Nat, step' = << i >>, GoesOn(i, rng', contexts', done'),
         contexts' \in Seq(Contexts), done' \in Nat, Len(contexts') <= PerStep,
         done' <= Len(contexts')
  PROVE  UnderWay'
<1>1. PICK r, cs, k : r = rng' /\ cs = contexts' /\ k = done' /\ GoesOn(i, r, cs, k)
  OBVIOUS
<1>2. GoesOn(i, r, cs, k)'
  BY <1>1, GoesOnStays
<1>3. step' # << >>
  OBVIOUS
<1>4. QED BY <1>1, <1>2, <1>3 DEF UnderWay

LEMMA StoredStays ==
  ASSUME sp' = sp, stored' = stored, StoredRight
  PROVE  StoredRight'
BY ResumedStays DEF StoredRight

LEMMA DrawnNext ==
  ASSUME sp' = sp, DOMAIN drawn' = 1 .. MaxSteps * PerStep, DOMAIN redrawn' = DOMAIN drawn',
         \A n \in DOMAIN drawn' : drawn'[n] # << >> => drawn'[n] = Expected(n),
         \A n \in DOMAIN drawn' : redrawn'[n] # << >> => redrawn'[n] = Recomputed(Expected(n))
  PROVE  DrawnRight'
<1>1. ASSUME NEW n \in DOMAIN drawn'
      PROVE  /\ drawn'[n] # << >> => drawn'[n] = Expected(n)'
             /\ redrawn'[n] # << >> => redrawn'[n] = Recomputed(Expected(n))'
  BY <1>1, ExpectedStays
<1>2. DrawsAsPlain'
  BY <1>1 DEF DrawsAsPlain
<1>3. QED BY <1>2 DEF DrawnRight

LEMMA DrawnStays ==
  ASSUME sp' = sp, drawn' = drawn, redrawn' = redrawn, DrawnRight
  PROVE  DrawnRight'
<1>1. ASSUME NEW n \in DOMAIN drawn'
      PROVE  /\ drawn'[n] # << >> => drawn'[n] = Expected(n)'
             /\ redrawn'[n] # << >> => redrawn'[n] = Recomputed(Expected(n))'
  BY <1>1, ExpectedStays DEF DrawnRight, DrawsAsPlain
<1>2. DrawsAsPlain'
  BY <1>1 DEF DrawsAsPlain
<1>3. QED BY <1>2 DEF DrawnRight

LEMMA RandomInvInit == RandomAssumption /\ InitRandomStates => RandomInv
<1> SUFFICES ASSUME RandomAssumption, InitRandomStates PROVE RandomInv
  OBVIOUS
<1>1. PerStep \in Nat
  BY DEF RandomAssumption
<1>2. UnderWay
  BY <1>1 DEF InitRandomStates, UnderWay
<1>3. DrawnRight
  BY DEF InitRandomStates, DrawnRight, DrawsAsPlain
<1>4. QED BY <1>2, <1>3 DEF InitRandomStates, RandomInv, StoredRight

LEMMA RandomInvNext ==
  RandomAssumption /\ RandomInv /\ [NextRandomStates]_rng_vars => RandomInv'
<1> SUFFICES ASSUME RandomAssumption, RandomInv, [NextRandomStates]_rng_vars PROVE RandomInv'
  OBVIOUS
<1>1. Depth \in Nat /\ PerStep \in Nat /\ PerStep >= 1 /\ MaxSteps \in Nat
  BY DEF RandomAssumption
<1>2. /\ contexts \in Seq(Contexts) /\ done \in Nat /\ Len(contexts) \in Nat
      /\ Len(contexts) <= PerStep /\ done <= Len(contexts)
  BY DEF RandomInv, UnderWay
<1>3. ASSUME Alive
      PROVE  step[1] \in Nat /\ step = << step[1] >> /\ GoesOn(step[1], rng, contexts, done)
  BY <1>3 DEF Alive, RandomInv, UnderWay
<1>5. CASE Forward
  <2> DEFINE i == step[1]
             r == [rng EXCEPT !.log = << >>]
             run == ForwardPass(r)
  <2>1. i \in Nat /\ step = << i >> /\ GoesOn(i, rng, contexts, done)
    BY <1>3, <1>5 DEF Forward
  <2>2. /\ contexts' = Append(contexts, run[2]) /\ rng' = [run[1] EXCEPT !.log = << >>]
        /\ drawn' = [drawn EXCEPT ![Before(i) + Len(contexts) + 1] = run[1].log]
        /\ UNCHANGED <<sp, step, done, redrawn, stored>> /\ Len(contexts) < PerStep
    <3>1. i * PerStep + (Len(contexts) + 1) = i * PerStep + Len(contexts) + 1
      <4> DEFINE v == i * PerStep
      <4>1. v \in Nat
        BY <1>1, <2>1
      <4> HIDE DEF v
      <4>2. v + (Len(contexts) + 1) = v + Len(contexts) + 1
        BY <1>2, <4>1
      <4>3. QED BY <4>2 DEF v
    <3>2. QED BY <1>5, <3>1 DEF Forward, Number, Iteration, Forwarded, Before
  <2>3. r = rng
    <3>1. PICK g, d, c : rng = Process(g, d, c, << >>, << >>)
      BY <2>1 DEF GoesOn
    <3>2. QED BY <3>1, LogCleared
  <2> HIDE DEF r
  <2>4. ForwardGoesOn(i, contexts, done, run)
    BY <1>1, <1>2, <2>1, <2>3, ForwardStep
  <2> HIDE DEF i, run
  <2>5. UnderWay'
    <3>1. contexts' \in Seq(Contexts) /\ Len(contexts') = Len(contexts) + 1
      BY <1>2, <2>2, <2>4 DEF ForwardGoesOn
    <3>2. GoesOn(i, rng', contexts', done')
      BY <2>2, <2>4 DEF ForwardGoesOn
    <3>3. step' = << i >> /\ done' = done /\ sp' = sp
      BY <2>1, <2>2
    <3>4. Len(contexts') <= PerStep /\ done' <= Len(contexts') /\ done' \in Nat
      BY <1>1, <1>2, <2>2, <3>1, <3>3
    <3>5. QED BY <2>1, <3>1, <3>2, <3>3, <3>4, UnderWayNext
  <2>6. DrawnRight'
    <3> DEFINE q == Before(i) + Len(contexts) + 1
    <3>1. drawn' = [drawn EXCEPT ![q] = Expected(q)] /\ redrawn' = redrawn
      BY <2>2, <2>4 DEF ForwardGoesOn
    <3> HIDE DEF q
    <3>2. DOMAIN drawn' = DOMAIN drawn
      BY <3>1
    <3>3. ASSUME NEW n \in DOMAIN drawn, drawn'[n] # << >> PROVE drawn'[n] = Expected(n)
      BY <3>1, <3>3 DEF RandomInv, DrawnRight, DrawsAsPlain
    <3>4. ASSUME NEW n \in DOMAIN drawn, redrawn'[n] # << >>
          PROVE  redrawn'[n] = Recomputed(Expected(n))
      BY <3>1, <3>4 DEF RandomInv, DrawnRight, DrawsAsPlain
    <3>5. QED BY <2>2, <3>1, <3>2, <3>3, <3>4, DrawnNext DEF RandomInv, DrawnRight
  <2>7. QED BY <2>2, <2>5, <2>6, StoredStays DEF RandomInv
<1>6. CASE Backward
  <2> DEFINE i == step[1]
             r == [rng EXCEPT !.log = << >>]
             run == BackwardPass(r, contexts[done + 1])
  <2>1. i \in Nat /\ step = << i >> /\ GoesOn(i, rng, contexts, done)
    BY <1>3, <1>6 DEF Backward
  <2>2. /\ done' = done + 1 /\ done < Len(contexts) /\ rng' = [run EXCEPT !.log = << >>]
        /\ redrawn' = [redrawn EXCEPT ![Before(i) + (done + 1)] = run.log]
        /\ UNCHANGED <<sp, step, contexts, drawn, stored>>
    BY <1>6 DEF Backward, Number, Iteration, Forwarded, Before
  <2>3. r = rng
    <3>1. PICK g, d, c : rng = Process(g, d, c, << >>, << >>)
      BY <2>1 DEF GoesOn
    <3>2. QED BY <3>1, LogCleared
  <2> HIDE DEF r
  <2>4. BackwardGoesOn(i, contexts, done, run)
    BY <1>1, <1>2, <2>1, <2>2, <2>3, BackwardStep
  <2> HIDE DEF i, run
  <2>5. UnderWay'
    <3>1. GoesOn(i, rng', contexts', done')
      BY <2>2, <2>4 DEF BackwardGoesOn
    <3>2. step' = << i >> /\ contexts' = contexts /\ sp' = sp
      BY <2>1, <2>2
    <3>3. /\ contexts' \in Seq(Contexts) /\ done' \in Nat
          /\ Len(contexts') <= PerStep /\ done' <= Len(contexts')
      BY <1>2, <2>2
    <3>4. QED BY <2>1, <3>1, <3>2, <3>3, UnderWayNext
  <2>6. DrawnRight'
    <3> DEFINE q == Before(i) + (done + 1)
    <3>1. redrawn' = [redrawn EXCEPT ![q] = Recomputed(Expected(q))] /\ drawn' = drawn
      BY <2>2, <2>4 DEF BackwardGoesOn
    <3> HIDE DEF q
    <3>2. DOMAIN redrawn' = DOMAIN redrawn
      BY <3>1
    <3>3. ASSUME NEW n \in DOMAIN drawn, redrawn'[n] # << >>
          PROVE  redrawn'[n] = Recomputed(Expected(n))
      BY <3>1, <3>3 DEF RandomInv, DrawnRight, DrawsAsPlain
    <3>4. ASSUME NEW n \in DOMAIN drawn, drawn'[n] # << >> PROVE drawn'[n] = Expected(n)
      BY <3>1, <3>4 DEF RandomInv, DrawnRight, DrawsAsPlain
    <3>5. QED BY <2>2, <3>1, <3>2, <3>3, <3>4, DrawnNext DEF RandomInv, DrawnRight
  <2>7. QED BY <2>2, <2>5, <2>6, StoredStays DEF RandomInv
<1>7. CASE EndStep
  <2> DEFINE i == step[1]
  <2>1. i \in Nat /\ step = << i >> /\ GoesOn(i, rng, contexts, done)
    BY <1>3, <1>7 DEF EndStep
  <2>2. /\ step' = << i + 1 >> /\ done' = 0 /\ contexts' = << >> /\ done = PerStep
        /\ rng' = [rng EXCEPT !.dicts = << rng.dicts[rng.cur] >>, !.cur = 1]
        /\ UNCHANGED <<sp, drawn, redrawn, stored>>
    BY <1>7 DEF EndStep, Iteration
  <2> HIDE DEF i
  <2>3. PICK d, c :
          /\ rng = Process(Data(DataBefore(Before(i) + Len(contexts) + 1)), d, c, << >>, << >>)
          /\ FreshAt(i, Len(contexts), d, c)
    BY <2>1 DEF GoesOn
  <2> DEFINE g == Data(DataBefore(Before(i) + Len(contexts) + 1))
             v == d[c]
             o == << v >>
             w == << >>
  <2>4. rng' = Process(g, o, 1, w, w)
    <3>1. rng.dicts[rng.cur] = v
      BY <2>3 DEF Process
    <3> HIDE DEF g, v, w
    <3>2. rng = Process(g, d, c, w, w)
      BY <2>3 DEF g, w
    <3>3. rng' = [[rng EXCEPT !.dicts = o] EXCEPT !.cur = 1]
      BY <2>2, <3>1
    <3> HIDE DEF o
    <3>4. [Process(g, d, c, w, w) EXCEPT !.dicts = o] = Process(g, o, c, w, w)
      BY DEF Process
    <3>5. [Process(g, o, c, w, w) EXCEPT !.cur = 1] = Process(g, o, 1, w, w)
      BY DEF Process
    <3>6. QED BY <3>2, <3>3, <3>4, <3>5
  <2>5. Before(i) + Len(contexts) + 1 = Before(i + 1) + 0 + 1
    <3>1. Len(contexts) = PerStep
      BY <1>1, <1>2, <2>2
    <3>2. i * PerStep + PerStep = (i + 1) * PerStep /\ i * PerStep \in Nat
      BY <1>1, <2>1
    <3>3. QED BY <1>1, <3>1, <3>2 DEF Before
  <2>6. /\ g = Data(DataBefore(Before(i + 1) + 0 + 1))
        /\ v = Model(ModelBefore(Before(i + 1) + 0 + 1))
    BY <2>3, <2>5 DEF FreshAt
  <2> HIDE DEF g, v
  <2>7. i + 1 \in Nat
    BY <2>1
  <2>8. rng' = Process(g, << v >>, 1, << >>, << >>)
    BY <2>4
  <2>9. GoesOn(i + 1, rng', << >>, 0)
    BY <1>1, <2>6, <2>7, <2>8, StepBegins
  <2>10. UnderWay'
    <3>1. /\ contexts' \in Seq(Contexts) /\ done' \in Nat
          /\ Len(contexts') <= PerStep /\ done' <= Len(contexts')
      BY <1>1, <2>2
    <3>2. GoesOn(i + 1, rng', contexts', done')
      BY <2>2, <2>9
    <3>3. sp' = sp /\ step' = << i + 1 >>
      BY <2>2
    <3> DEFINE j == i + 1
    <3>4. j \in Nat /\ GoesOn(j, rng', contexts', done') /\ step' = << j >>
      BY <2>7, <3>2, <3>3
    <3> HIDE DEF j
    <3>5. QED BY <3>1, <3>3, <3>4, UnderWayNext
  <2>11. QED BY <2>2, <2>10, StoredStays, DrawnStays DEF RandomInv
<1>8. CASE Save
  <2> DEFINE i == step[1]
  <2>1. i \in Nat /\ step = << i >> /\ GoesOn(i, rng, contexts, done)
    BY <1>3, <1>8 DEF Save
  <2>2. /\ Len(contexts) = 0
        /\ stored' = << [gen |-> rng.gen, tracker |-> rng.dicts[rng.cur], iteration |-> i] >>
        /\ UNCHANGED <<sp, rng, step, contexts, done, drawn, redrawn>>
    BY <1>8 DEF Save, Forwarded, Iteration
  <2> HIDE DEF i
  <2>3. PICK d, c :
          /\ rng = Process(Data(DataBefore(Before(i) + Len(contexts) + 1)), d, c, << >>, << >>)
          /\ FreshAt(i, Len(contexts), d, c)
    BY <2>1 DEF GoesOn
  <2>4. rng.gen = Data(DataBefore(Before(i) + 0 + 1)) /\ rng.dicts[rng.cur] = d[c]
    BY <2>2, <2>3 DEF Process
  <2>5. d[c] = Model(ModelBefore(Before(i) + 0 + 1))
    BY <2>2, <2>3 DEF FreshAt
  <2>6. stored' = << Resumed(i) >>
    BY <2>2, <2>4, <2>5 DEF Resumed
  <2>7. StoredRight'
    <3>1. PICK n \in Nat : stored' = << Resumed(n) >>
      BY <2>1, <2>6
    <3>2. Resumed(n)' = Resumed(n)
      BY <2>2, ResumedStays
    <3>3. QED BY <3>1, <3>2 DEF StoredRight
  <2>8. UnderWay'
    BY <1>2, <2>1, <2>2, UnderWayNext
  <2>9. QED BY <2>2, <2>7, <2>8, DrawnStays DEF RandomInv
<1>9. CASE Crash
  <2>1. UnderWay'
    BY <1>1, <1>9 DEF Crash, UnderWay
  <2>2. QED BY <1>9, <2>1, StoredStays, DrawnStays DEF Crash, RandomInv
<1>10. CASE Start
  <2>1. /\ step = << >> /\ contexts = << >> /\ done = 0
        /\ UNCHANGED <<sp, contexts, done, drawn, redrawn, stored>>
    BY <1>10 DEF Start, Alive, RandomInv, UnderWay
  <2>2. \E i \in Nat : step' = << i >> /\ GoesOn(i, rng', << >>, 0)
    <3>1. CASE stored = << >>
      <4> DEFINE g == Data(0)
                 m == Model(0)
                 v == Model(1)
                 w == << >>
      <4>1. g \in Streams /\ m \in Streams /\ v \in Streams /\ After(m) = v
        <5>1. Data(0) \in Streams /\ Model(0) \in Streams /\ After(Model(0)) = Model(0 + 1)
          BY StreamsAre
        <5>2. 0 + 1 = 1 /\ Model(1) \in Streams
          BY StreamsAre
        <5>3. QED BY <5>1, <5>2
      <4>2. Seeded = Exit(Draw(Enter(Process(g, << m >>, 1, w, w))))
        BY DEF Seeded, Process, Data, Model
      <4>3. g = Data(DataBefore(Before(0) + 0 + 1)) /\ v = Model(ModelBefore(Before(0) + 0 + 1))
        <5>1. PerPass.data \in Nat /\ PerPass.model \in Nat
          BY <1>1 DEF PerPass
        <5>2. Before(0) + 0 + 1 = 1
          BY <1>1 DEF Before
        <5>3. DataBefore(1) = 0 /\ ModelBefore(1) = 1
          BY <5>1 DEF DataBefore, ModelBefore
        <5>4. QED BY <5>2, <5>3
      <4> HIDE DEF g, m, v
      <4> DEFINE d == << m >>
                 e == << v >>
      <4>4. d[1] = m /\ [d EXCEPT ![1] = v] = e
        OBVIOUS
      <4> HIDE DEF d, e
      <4>5. Enter(Process(g, d, 1, << >>, w)) = Process(m, d, 1, << g >>, w)
        BY <4>1, <4>4, ForkEntered
      <4>6. Draw(Process(m, d, 1, << g >>, w)) = Process(v, d, 1, << g >>, Append(w, m))
        BY <4>1, DrawIs
      <4> DEFINE l == Append(w, m)
      <4> HIDE DEF l
      <4>7. Exit(Process(v, d, 1, << g >>, l)) = Process(g, e, 1, << >>, l)
        BY <4>1, <4>4, ForkLeft
      <4>8. [Seeded EXCEPT !.log = << >>] = Process(g, e, 1, << >>, << >>)
        <5>1. Seeded = Process(g, e, 1, << >>, l)
          BY <4>2, <4>5, <4>6, <4>7 DEF d, l
        <5>2. QED BY <5>1, LogCleared
      <4>9. rng' = Process(g, << v >>, 1, << >>, << >>) /\ step' = << 0 >>
        BY <1>10, <3>1, <4>8 DEF Start, e
      <4>10. GoesOn(0, rng', << >>, 0)
        BY <1>1, <4>3, <4>9, StepBegins
      <4>11. QED BY <4>9, <4>10
    <3>2. CASE stored # << >>
      <4>1. PICK i \in Nat : stored = << Resumed(i) >>
        BY <3>2 DEF RandomInv, StoredRight
      <4> DEFINE g == Data(DataBefore(Before(i) + 0 + 1))
                 v == Model(ModelBefore(Before(i) + 0 + 1))
      <4>2. stored[1].gen = g /\ stored[1].tracker = v /\ stored[1].iteration = i
        BY <4>1 DEF Resumed
      <4>3. rng' = Process(g, << v >>, 1, << >>, << >>) /\ step' = << i >>
        BY <1>10, <3>2, <4>2 DEF Start, Process
      <4>4. g = Data(DataBefore(Before(i) + 0 + 1)) /\ v = Model(ModelBefore(Before(i) + 0 + 1))
        OBVIOUS
      <4> HIDE DEF g, v
      <4>5. GoesOn(i, rng', << >>, 0)
        BY <1>1, <4>3, <4>4, StepBegins
      <4>6. QED BY <4>3, <4>5
    <3>3. QED BY <3>1, <3>2
  <2>3. UnderWay'
    <3>1. /\ contexts' \in Seq(Contexts) /\ done' \in Nat
          /\ Len(contexts') <= PerStep /\ done' <= Len(contexts')
      BY <1>2, <2>1
    <3>2. PICK i \in Nat : step' = << i >> /\ GoesOn(i, rng', contexts', done')
      BY <2>1, <2>2
    <3>3. QED BY <2>1, <3>1, <3>2, UnderWayNext
  <2>4. QED BY <2>1, <2>3, StoredStays, DrawnStays DEF RandomInv
<1>11. CASE UNCHANGED rng_vars
  <2>1. UNCHANGED <<sp, rng, step, contexts, done, drawn, redrawn, stored>>
    BY <1>11 DEF rng_vars
  <2>2. UnderWay'
    <3>1. CASE step = << >>
      BY <2>1, <3>1 DEF RandomInv, UnderWay
    <3>2. CASE step # << >>
      <4>1. /\ step[1] \in Nat /\ step = << step[1] >> /\ GoesOn(step[1], rng, contexts, done)
        BY <1>3, <3>2 DEF Alive
      <4> DEFINE i == step[1]
      <4>2. i \in Nat /\ step' = << i >> /\ GoesOn(i, rng', contexts', done') /\ sp' = sp
        BY <2>1, <4>1
      <4> HIDE DEF i
      <4>3. /\ contexts' \in Seq(Contexts) /\ done' \in Nat
            /\ Len(contexts') <= PerStep /\ done' <= Len(contexts')
        BY <1>2, <2>1
      <4>4. QED BY <4>2, <4>3, UnderWayNext
    <3>3. QED BY <3>1, <3>2
  <2>3. QED BY <2>1, <2>2, StoredStays, DrawnStays DEF RandomInv
<1>12. QED BY <1>5, <1>6, <1>7, <1>8, <1>9, <1>10, <1>11 DEF NextRandomStates

\* Dropout: what every forward pass draws, and what the recomputation of its layers
\* draws, is what a training of one stream that neither recomputes nor stops draws
\* there, for every number of layers, microbatches and steps, with and without
\* sequence parallelism.
THEOREM DropsAsPlain == SpecRandomStates => []DrawsAsPlain
<1>1. InitRandomStates => RandomInv
  BY RandomInvInit, RandomAssumption
<1>2. RandomInv /\ [NextRandomStates]_rng_vars => RandomInv'
  BY RandomInvNext, RandomAssumption
<1>3. RandomInv => DrawsAsPlain
  BY DEF RandomInv, DrawnRight
<1>4. QED BY <1>1, <1>2, <1>3, PTL DEF SpecRandomStates
=============================================================================
