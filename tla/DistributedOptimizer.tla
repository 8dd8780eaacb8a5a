-------------------------- MODULE DistributedOptimizer --------------------------
(***************************************************************************)
(* The distributed optimizer: the gradients of a model chunk lie in one    *)
(* buffer, each data-parallel rank owns an equal slice of it, whatever     *)
(* parameters the slice cuts through, and keeps master values and Adam's   *)
(* moments for its slice only.  A step reduce-scatters the gradients,      *)
(* updates the shards, and all-gathers the weights through the storage the *)
(* gradients were in.  A checkpoint gathers the shards, and a launch with  *)
(* another number of ranks cuts them again.                                *)
(*                                                                         *)
(* One action is a collective with what the ranks do on their own up to    *)
(* the next one; nothing of that is seen by another rank.  Gradients and   *)
(* weights have the same width, so that a weight covers one gradient.      *)
(***************************************************************************)
EXTENDS Integers, Sequences, FiniteSetsExt

CONSTANTS Models,         \* the model chunks, each the sizes of its parameters
          Worlds,         \* the data-parallel sizes of launches
          Batch,          \* the samples of a global batch
          Initial(_),     \* the weight an element starts with
          Grad(_, _, _),  \* the gradient of an element on a sample at a weight
          Adam(_, _),     \* what the inner optimizer makes of a master element
          Round(_),       \* the precision of the model
          Inf,            \* what overflows
          InitialScale, MinScale, GrowthInterval, Hysteresis,
          MaxIterations   \* bound on the iterations of a training

VARIABLES opt_phase,  \* what the ranks have done of the step
          opt_world,  \* the data-parallel size of this launch
          iteration,  \* iterations done, as the checkpoint counts them
          weights,    \* per rank, the elements of the model
          storage,    \* per rank and chunk, the buffer of gradients and weights
          shards,     \* per rank and owned parameter, master values and moments
          allocated,  \* whether the inner optimizer has its moments
          scaler,     \* per rank, the dynamic loss scale and its trackers
          disk        \* << >> or the checkpoint

opt_vars == <<opt_phase, opt_world, iteration, weights, storage, shards,
              allocated, scaler, disk>>

CeilDiv(a, b) == (a + b - 1) \div b
MaxOf(a, b) == IF a > b THEN a ELSE b
MinOf(a, b) == IF a < b THEN a ELSE b

Chunks == 1 .. Len(Models)
Params == UNION {{m} \X (1 .. Len(Models[m])) : m \in Chunks}
Size(q) == Models[q[1]][q[2]]
Element == UNION {{<<q[1], q[2], j>> : j \in 0 .. Size(q) - 1} : q \in Params}

\* The buffer of a chunk: the parameters from the last to the first, padded
\* so that every rank has an equal part.
Numel(m) == MapThenSumSet(LAMBDA p : Models[m][p], 1 .. Len(Models[m]))
Padded(d, m) == d * CeilDiv(Numel(m), d)
ParamStart(q) ==
  MapThenSumSet(LAMBDA p : Models[q[1]][p], q[2] + 1 .. Len(Models[q[1]]))
ParamEnd(q) == ParamStart(q) + Size(q)
BufferIndex(e) == ParamStart(<<e[1], e[2]>>) + e[3]
Cell == [m \in Chunks |-> [i \in 0 .. Numel(m) - 1 |->
          CHOOSE e \in Element : e[1] = m /\ BufferIndex(e) = i]]

\* The range of a chunk's buffer that rank r owns, and of it the part that
\* holds parameter q: in the buffer, in the slice, and within the parameter.
WorldRange(d, r, m) ==
  LET s == CeilDiv(Numel(m), d)
  IN  [start |-> r * s, end |-> MinOf(Numel(m), r * s + s)]

SubParamStart_OfSlice(range, q) == 0
SubParamStart(range, q) == MaxOf(0, range.start - ParamStart(q))

ParamRange(d, r, q) ==
  LET range == WorldRange(d, r, q[1])
      first == MaxOf(0, ParamStart(q) - range.start)
      last  == MinOf(range.end - range.start, ParamEnd(q) - range.start)
  IN  [local |-> first, world |-> first + range.start,
       sub |-> SubParamStart(range, q), size |-> last - first]

Owned(d, r) == {q \in Params : ParamRange(d, r, q).size > 0}

Ranks == 0 .. opt_world - 1

(***************************************************************************)
(* Launching: the shards are cloned from the model, and filled from the    *)
(* checkpoint, which rank 0 cuts into as many parts as there are ranks.    *)
(***************************************************************************)
CloneShards(d, w) ==
  [r \in 0 .. d - 1 |-> [q \in Owned(d, r) |->
     LET range == ParamRange(d, r, q)
     IN  [k \in 0 .. range.size - 1 |->
            [param |-> w[<<q[1], q[2], range.sub + k>>], avg |-> 0]]]]

\* Scatter needs parts of one size, the last one included.
Cuts(d) == \A m \in Chunks : Padded(d, m) <= Len(disk[1].state[m])

LoadShards(d) ==
  [r \in 0 .. d - 1 |-> [q \in Owned(d, r) |->
     LET range == ParamRange(d, r, q)
         part  == r * (Padded(d, q[1]) \div d)
     IN  [k \in 0 .. range.size - 1 |->
            disk[1].state[q[1]][part + range.local + k + 1]]]]

FreshScaler == [scale |-> InitialScale, growth |-> 0, hysteresis |-> Hysteresis]

Launch(d, it, w, s, alloc, sc) ==
  /\ opt_phase' = "ready"
  /\ opt_world' = d
  /\ iteration' = it
  /\ weights' = [r \in 0 .. d - 1 |-> w]
  /\ storage' = [r \in 0 .. d - 1 |-> [m \in Chunks |->
                   [i \in 0 .. Padded(d, m) - 1 |-> <<"grad", 0>>]]]
  /\ shards' = s
  /\ allocated' = alloc
  /\ scaler' = [r \in 0 .. d - 1 |-> sc]
  /\ UNCHANGED disk

Begin(d) ==
  /\ opt_phase = "down" /\ disk = << >>
  /\ LET w == [e \in Element |-> Initial(e)]
     IN  Launch(d, 0, w, CloneShards(d, w), FALSE, FreshScaler)

Resume(d) ==
  /\ opt_phase = "down" /\ disk # << >> /\ Cuts(d)
  /\ Launch(d, disk[1].iteration, disk[1].model, LoadShards(d), TRUE, disk[1].scaler)

\* With --finetune or --no-load-optim: reload_model_params.
Finetune(d) ==
  /\ opt_phase = "down" /\ disk # << >>
  /\ Launch(d, 0, disk[1].model, CloneShards(d, disk[1].model), FALSE, FreshScaler)

(***************************************************************************)
(* A training step.                                                        *)
(***************************************************************************)
Plus(a, b) == IF Inf \in {a, b} THEN Inf ELSE a + b
Divide(a, b) == IF a = Inf THEN Inf ELSE a \div b

\* The samples of a rank, by microbatches of one sample for each, and its gradient
\* of an element: the mean over them, of the scaled loss.
SamplesOf(r) == {s \in Batch : s % opt_world = r}
LocalGrad(r, e) ==
  (MapThenSumSet(LAMBDA s : Grad(e, s, weights[r][e]), SamplesOf(r))
     * scaler[r].scale) \div Cardinality(SamplesOf(r))

\* The buffers are zeroed, and the hooks of the backward pass fill them.
\* overflow: where a rank's gradient does not fit its type.
ForwardBackward ==
  /\ opt_phase = "ready"
  /\ iteration < MaxIterations
  /\ iteration' = iteration + 1
  /\ opt_phase' = "backward"
  /\ \E overflow \in {{}} \cup {{<<r, e>>} : r \in Ranks, e \in Element} :
       storage' = [r \in Ranks |-> [m \in Chunks |->
         [i \in 0 .. Padded(opt_world, m) - 1 |->
            <<"grad", IF i >= Numel(m) THEN 0
                      ELSE IF <<r, Cell[m][i]>> \in overflow THEN Inf
                      ELSE LocalGrad(r, Cell[m][i])>>]]]
  /\ UNCHANGED <<opt_world, weights, shards, allocated, scaler, disk>>

ShardSize(m) == Padded(opt_world, m) \div opt_world
Mine(r, m, i) == i \div ShardSize(m) = r

ReduceModelGrads ==
  LET Sum(m, i) ==
        FoldSet(LAMBDA r, a : Plus(Divide(storage[r][m][i][2], opt_world), a), 0, Ranks)
  IN  /\ opt_phase = "backward"
      /\ opt_phase' = "reduced"
      /\ storage' = [r \in Ranks |-> [m \in Chunks |->
           [i \in DOMAIN storage[r][m] |->
              <<"grad", IF Mine(r, m, i) THEN Sum(m, i)
                        ELSE Divide(storage[r][m][i][2], opt_world)>>]]]
      /\ UNCHANGED <<opt_world, iteration, weights, shards, allocated, scaler, disk>>

\* DynamicGradScaler.update, with the factors 1/2 and 2.
UpdateScaler(s, found_inf) ==
  IF found_inf
  THEN LET h == s.hysteresis - 1
       IN  [scale |-> IF h <= 0 THEN MaxOf(s.scale \div 2, MinScale) ELSE s.scale,
            growth |-> 0, hysteresis |-> h]
  ELSE IF s.growth + 1 = GrowthInterval
       THEN [scale |-> 2 * s.scale, growth |-> 0, hysteresis |-> Hysteresis]
       ELSE [s EXCEPT !.growth = @ + 1]

\* The gradient of element k of the shard of q: a view of main_grad, which is
\* itself a view of the buffer.
MainGrad(r, q, k) ==
  storage[r][q[1]][ParamStart(q) + ParamRange(opt_world, r, q).sub + k][2]

LocalInf(r) ==
  \E q \in DOMAIN shards[r] : \E k \in DOMAIN shards[r][q] : MainGrad(r, q, k) = Inf

\* The model-parallel group of the distributed optimizer is the whole world.
FoundInf_OwnShard(r) == LocalInf(r)
FoundInf(r) == \E o \in Ranks : LocalInf(o)

Stepped(r) ==
  [q \in DOMAIN shards[r] |-> [k \in DOMAIN shards[r][q] |->
     Adam(shards[r][q][k], Divide(MainGrad(r, q, k), scaler[r].scale))]]

\* _copy_main_params_to_model_params, into the storage of the gradients.
WithParams(r, m, s) ==
  [i \in DOMAIN storage[r][m] |->
     LET at == {<<q, k>> \in UNION {{q} \X DOMAIN s[q] : q \in DOMAIN s} :
                  q[1] = m /\ ParamRange(opt_world, r, q).world + k = i}
     IN  IF at = {} THEN storage[r][m][i]
         ELSE LET o == CHOOSE x \in at : TRUE IN <<"param", Round(s[o[1]][o[2]].param)>>]

Step ==
  LET done == {r \in Ranks : ~ FoundInf(r)}
  IN  /\ opt_phase = "reduced"
      /\ scaler' = [r \in Ranks |-> UpdateScaler(scaler[r], FoundInf(r))]
      /\ shards' = [r \in Ranks |-> IF r \in done THEN Stepped(r) ELSE shards[r]]
      /\ storage' = [r \in Ranks |-> [m \in Chunks |->
                       IF r \in done THEN WithParams(r, m, shards'[r]) ELSE storage[r][m]]]
      /\ allocated' = (allocated \/ done # {})
      /\ opt_phase' = IF done = {} THEN "ready" ELSE "updated"
      /\ UNCHANGED <<opt_world, iteration, weights, disk>>

\* All-gather of every rank's slice, and the copy to the parameters.
GatherModelParams ==
  LET gathered(m, i) == storage[i \div ShardSize(m)][m][i]
  IN  /\ opt_phase = "updated"
      /\ opt_phase' = "ready"
      /\ storage' = [r \in Ranks |-> [m \in Chunks |->
                       [i \in DOMAIN storage[r][m] |-> gathered(m, i)]]]
      /\ weights' = [r \in Ranks |-> [e \in Element |->
                       storage'[r][e[1]][BufferIndex(e)][2]]]
      /\ UNCHANGED <<opt_world, iteration, shards, allocated, scaler, disk>>

(***************************************************************************)
(* Checkpoints.  Rank 0 joins the ranks' slices; the padding of a slice is *)
(* whatever memory it was made of.                                         *)
(***************************************************************************)
Padding == [param |-> Inf, avg |-> Inf]

LocalSlice(r, m) ==
  [i \in 0 .. ShardSize(m) - 1 |->
     LET at == {q \in DOMAIN shards[r] : q[1] = m /\
                  i - ParamRange(opt_world, r, q).local \in DOMAIN shards[r][q]}
     IN  IF at = {} THEN Padding
         ELSE LET q == CHOOSE x \in at : TRUE
              IN  shards[r][q][i - ParamRange(opt_world, r, q).local]]

SaveCheckpoint ==
  /\ opt_phase = "ready"
  /\ allocated
  /\ disk' = << [iteration |-> iteration, model |-> weights[0], scaler |-> scaler[0],
                 state |-> [m \in Chunks |-> [i \in 1 .. Padded(opt_world, m) |->
                   LocalSlice((i - 1) \div ShardSize(m), m)[(i - 1) % ShardSize(m)]]]] >>
  /\ UNCHANGED <<opt_phase, opt_world, iteration, weights, storage, shards, allocated, scaler>>

\* What a process that ends leaves behind is the checkpoint.
End ==
  /\ opt_phase' = "down" /\ opt_world' = 0 /\ iteration' = 0
  /\ weights' = << >> /\ storage' = << >> /\ shards' = << >>
  /\ allocated' = FALSE /\ scaler' = << >>
  /\ UNCHANGED disk

\* Before the first update the moments do not exist: save_parameter_state
\* ends in a KeyError.
SaveFails == opt_phase = "ready" /\ ~ allocated /\ End

Crash == opt_phase # "down" /\ End

InitOptimizer ==
  /\ opt_phase = "down" /\ opt_world = 0 /\ iteration = 0
  /\ weights = << >> /\ storage = << >> /\ shards = << >>
  /\ allocated = FALSE /\ scaler = << >> /\ disk = << >>

NextOptimizer ==
  \/ \E d \in Worlds : Begin(d) \/ Resume(d) \/ Finetune(d)
  \/ ForwardBackward
  \/ ReduceModelGrads
  \/ Step
  \/ GatherModelParams
  \/ SaveCheckpoint
  \/ SaveFails
  \/ Crash

SpecOptimizer == InitOptimizer /\ [][NextOptimizer]_opt_vars
=================================================================================
