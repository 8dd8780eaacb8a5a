----------------------------- MODULE ModelOptimizer -----------------------------
(***************************************************************************)
(* The optimizers that are not distributed (megatron/optimizer): one in    *)
(* single precision, and one for half-precision models that keeps a single *)
(* precision copy of every parameter, in a model divided over pipeline     *)
(* stages, tensor-parallel and data-parallel ranks.                        *)
(*                                                                         *)
(* A gradient is a tensor that several attributes may point to: main_grad  *)
(* and grad of a parameter, and grad of its copy.  What is added, reduced, *)
(* unscaled and clipped in place changes all that point to it.  Every      *)
(* parameter has a gradient in every step, so that the attributes of all   *)
(* parameters point alike.  An action is a collective, or a backward pass, *)
(* with what the ranks do on their own up to the next one.                 *)
(***************************************************************************)
EXTENDS Integers, FiniteSetsExt

CONSTANTS Jobs,           \* how models are divided and what the flags are
          Worlds,         \* the data-parallel sizes of launches
          Samples,        \* the samples of a global batch, one per microbatch
          Layers,
          Initial(_),     \* the weight an element starts with
          GradAt(_, _, _, _), \* of an element, from a place of the model, on a sample
          Offset,         \* what sequence-parallel ranks' parts differ by
          Adam(_, _, _),  \* what the inner optimizer makes of a master element
          Clip(_, _),     \* a gradient, scaled down by the sum of squares
          Round(_, _),    \* the precision of the model
          Inf,            \* what overflows
          InitialScale, MinScale, GrowthInterval, Hysteresis,
          Overflows,      \* the elements whose gradients may overflow
          MaxSteps        \* bound on the steps of all launches

VARIABLES flags,     \* the job
          turn,      \* what the ranks have done of the step
          replicas,  \* the data-parallel size of this launch
          steps,     \* steps behind the weights, those before a finetuning included
          passes,    \* backward passes of this step
          model,     \* per rank and element, the weight
          mains,     \* per rank and element, master value and moment
          tensors,   \* per rank and element, the tensors a gradient may be in
          points,    \* which of them grad, main_grad and the copy's grad are
          loss_scaler,
          model_file \* << >> or the checkpoint

model_vars == <<flags, turn, replicas, steps, passes, model, mains, tensors, points,
                loss_scaler, model_file>>

----------------------------------------------------------------------------
(***************************************************************************)
(* The model.  An element is <<kind, layer, part>>; the word embedding and *)
(* the dense layers are divided over the tensor-parallel ranks.  The word  *)
(* embedding is used in the encoder, or below the layers, in the decoder,  *)
(* and, tied, as the head.                                                 *)
(***************************************************************************)
Divided == {"word", "dense"}
Element ==
  {<<"word", 0, j>> : j \in 0 .. 1} \cup {<<"position", 0, 0>>}
    \cup {<<"dense", l, j>> : l \in Layers, j \in 0 .. 1} \cup {<<"norm", l, 0>> : l \in Layers}

Places(e) ==
  CASE e[1] = "word"     -> {"encoder", "decoder", "head"}
    [] e[1] = "position" -> {"encoder", "decoder"}
    [] OTHER             -> {"layer"}

\* One layer per stage, or all on one; the decoder starts at the split rank.
Stage(j, e, place) ==
  CASE place = "encoder" -> 0
    [] place = "decoder" -> IF j.split THEN 1 ELSE 0
    [] place = "head"    -> j.stages - 1
    [] place = "layer"   -> IF j.stages = 1 THEN 0 ELSE e[2] - 1

Ranks(j, d) ==
  [data : 0 .. d - 1, stage : 0 .. j.stages - 1, tensor : 0 .. j.tensor - 1]

Held(j, x) ==
  {e \in Element : /\ \E place \in Places(e) : Stage(j, e, place) = x.stage
                   /\ e[1] \in Divided /\ j.tensor > 1 => e[3] = x.tensor}

Everyone == Ranks(flags, replicas)

\* What the copy on a later stage is marked with.
Shared(x, e) == e[1] \in {"word", "position"} /\ x.stage > 0

Duplicate(x, e) == e[1] \notin Divided /\ x.tensor # 0

\* The weight decay leaves one-dimensional parameters alone.
Decayed(e) == e[1] # "norm"

----------------------------------------------------------------------------
(***************************************************************************)
(* Launching.  The copies are made of the model as it was built; then the  *)
(* checkpoint is read, or only its model.                                  *)
(***************************************************************************)
IsHalf(j) == j.precision \in {"fp16", "bf16"}
Local(j) == j.ddp = "local"

\* Given a constant, the scaler is constant; otherwise only fp16 has one.
ScalerKind(j) ==
  CASE ~ IsHalf(j)             -> "none"
    [] j.loss_scale # 0        -> "constant"
    [] j.precision = "fp16"    -> "dynamic"
    [] OTHER                   -> "none"

FreshScaler(j) ==
  [scale |-> CASE ScalerKind(j) = "none"     -> 1
               [] ScalerKind(j) = "constant" -> j.loss_scale
               [] ScalerKind(j) = "dynamic"  -> InitialScale,
   growth |-> 0, hysteresis |-> Hysteresis]

Tensors == [buffer |-> 0, own |-> 0, copy |-> 0]
Unset(j) ==
  [grad |-> "none", copy_grad |-> "none",
   main_grad |-> IF Local(j) /\ j.contiguous THEN "buffer" ELSE "missing"]

FreshMains(m) == [x \in DOMAIN m |-> [e \in DOMAIN m[x] |-> [param |-> m[x][e], avg |-> 0]]]

Built(d) == [x \in Ranks(flags, d) |-> [e \in Held(flags, x) |-> Initial(e)]]

\* A file holds what the rank of its stage and tensor-parallel number with
\* data-parallel number 0 has.
Reader(x) == [x EXCEPT !.data = 0]
LoadedModel(d) == [x \in Ranks(flags, d) |-> model_file[1].model[Reader(x)]]
LoadedMains(d) == [x \in Ranks(flags, d) |-> model_file[1].mains[Reader(x)]]

Launch(d, n, m, s, scaler_state) ==
  /\ turn = "down"
  /\ turn' = "ready"
  /\ replicas' = d /\ steps' = n /\ passes' = 0
  /\ model' = m /\ mains' = s
  /\ tensors' = [x \in Ranks(flags, d) |-> [e \in Held(flags, x) |-> Tensors]]
  /\ points' = Unset(flags)
  /\ loss_scaler' = scaler_state
  /\ UNCHANGED <<flags, model_file>>

Begin(d) ==
  /\ model_file = << >>
  /\ Launch(d, 0, Built(d), FreshMains(Built(d)), FreshScaler(flags))

\* A constant scaler has no state to load.
Resume(d) ==
  /\ model_file # << >>
  /\ Launch(d, model_file[1].steps, LoadedModel(d), LoadedMains(d),
            IF ScalerKind(flags) = "dynamic" THEN model_file[1].loss_scaler
            ELSE FreshScaler(flags))

\* With --finetune or --no-load-optim: reload_model_params makes the copies again.
Finetune(d) ==
  /\ model_file # << >>
  /\ Launch(d, model_file[1].steps, LoadedModel(d), FreshMains(LoadedModel(d)), FreshScaler(flags))

----------------------------------------------------------------------------
(***************************************************************************)
(* A training step.                                                        *)
(***************************************************************************)
Plus(a, b) == IF Inf \in {a, b} THEN Inf ELSE a + b
Divide(a, b) == IF a = Inf THEN Inf ELSE a \div b

\* In-place operations on the tensor an attribute points to.
Written(t, where, Value(_, _)) ==
  [x \in DOMAIN t |-> [e \in DOMAIN t[x] |-> [t[x][e] EXCEPT ![where] = Value(x, e)]]]

ZeroGradBuffer ==
  IF Local(flags) /\ flags.contiguous THEN Written(tensors, "buffer", LAMBDA x, e : 0)
  ELSE tensors

\* Of the parameters and of their copies: dropped, not filled with zeros.
ZeroGrad == [points EXCEPT !.grad = "none", !.copy_grad = "none"]

StartStep ==
  /\ turn = "ready" /\ steps < MaxSteps
  /\ tensors' = ZeroGradBuffer
  /\ points' = ZeroGrad
  /\ steps' = steps + 1 /\ passes' = 0
  /\ turn' = "backward"
  /\ UNCHANGED <<flags, replicas, model, mains, loss_scaler, model_file>>

Microbatches == Cardinality(Samples) \div replicas

\* The gradient of the scaled loss of a sample on rank x.  With sequence parallelism
\* the normalizations see a part of the sequence.
PassGrad(x, e, sample) ==
  LET full == MapThenSumSet(LAMBDA place : GradAt(e, place, sample, model[x][e]),
                            {place \in Places(e) : Stage(flags, e, place) = x.stage})
      part == IF flags.sequence_parallel /\ e[1] = "norm"
              THEN IF x.tensor = 0 THEN full - Offset ELSE Offset
              ELSE full
  IN  (part * loss_scaler.scale) \div Microbatches

\* Autograd adds to grad, or makes a tensor; the hook of a contiguous buffer takes
\* it over and drops it.
Accumulated(g) ==
  LET added == IF points.grad = "none"
               THEN Written(tensors, "own", LAMBDA x, e : g[x][e])
               ELSE Written(tensors, points.grad,
                            LAMBDA x, e : Plus(tensors[x][e][points.grad], g[x][e]))
      into == IF points.grad = "none" THEN "own" ELSE points.grad
  IN  IF Local(flags) /\ flags.contiguous
      THEN Written(added, "buffer", LAMBDA x, e : Plus(added[x][e].buffer, added[x][e][into]))
      ELSE added

\* The mean over the data-parallel ranks.
Mean(t, where) ==
  Written(t, where, LAMBDA x, e :
    FoldSet(LAMBDA d, a : Plus(Divide(t[[x EXCEPT !.data = d]][e][where], replicas), a),
            0, 0 .. replicas - 1))

SampleOf(x) == (x.data * Microbatches) + passes + 1

\* overflow: where a gradient does not fit half precision.
BackwardPass ==
  LET last == passes + 1 = Microbatches
  IN  /\ turn = "backward"
      /\ \E overflow \in {{}} \cup
             (IF flags.precision = "fp16" THEN {{<<x, e>>} : x \in Everyone, e \in Overflows} ELSE {}) :
           /\ \A o \in overflow : o[2] \in Held(flags, o[1])
           /\ LET gradient == [x \in Everyone |-> [e \in Held(flags, x) |->
                    IF <<x, e>> \in overflow THEN Inf ELSE PassGrad(x, e, SampleOf(x))]]
                  now == Accumulated(gradient)
              IN  tensors' = IF last /\ ~ Local(flags) THEN Mean(now, "own") ELSE now
      /\ points' = IF Local(flags) /\ flags.contiguous THEN points
                   ELSE [points EXCEPT !.grad = "own"]
      /\ passes' = passes + 1
      /\ turn' = IF last THEN "reduce" ELSE "backward"
      /\ UNCHANGED <<flags, replicas, steps, model, mains, loss_scaler, model_file>>

\* What local DDP has the gradients in when reduce_model_grads begins.
Reduced == IF Local(flags) THEN points.main_grad ELSE points.grad

NormsToReduce == flags.tensor > 1 /\ flags.sequence_parallel

\* The sum over the tensor-parallel ranks of what saw parts of the sequence, the
\* mean over the data-parallel ranks, and the sum over the stages that have a copy
\* of an embedding.
SummedNorms(t) ==
  IF ~ NormsToReduce THEN t
  ELSE Written(t, Reduced, LAMBDA x, e :
         IF e[1] # "norm" THEN t[x][e][Reduced]
         ELSE FoldSet(LAMBDA r, a : Plus(t[[x EXCEPT !.tensor = r]][e][Reduced], a),
                      0, 0 .. flags.tensor - 1))

EmbeddingStages(e) ==
  IF flags.stages = 1 \/ (e[1] = "position" /\ ~ flags.split) THEN {}
  ELSE {Stage(flags, e, place) : place \in Places(e)}

SummedEmbeddings(t, where) ==
  Written(t, where, LAMBDA x, e :
    IF e[1] \in {"word", "position"} /\ EmbeddingStages(e) # {}
    THEN FoldSet(LAMBDA s, a : Plus(t[[x EXCEPT !.stage = s]][e][where], a),
                 0, EmbeddingStages(e))
    ELSE t[x][e][where])

\* Without contiguous buffers main_grad does not exist yet, or is None, when the
\* normalizations are reduced: the launch ends in an AttributeError.
CanReduceNorms == NormsToReduce => Reduced \notin {"missing", "none"}

ReduceModelGrads ==
  LET norms == SummedNorms(tensors)
      where == IF flags.contiguous THEN "buffer" ELSE "own"
  IN  /\ turn = "reduce" /\ CanReduceNorms
      /\ tensors' = IF Local(flags) THEN SummedEmbeddings(Mean(norms, where), where)
                    ELSE SummedEmbeddings(norms, "own")
      /\ points' = IF Local(flags) /\ ~ flags.contiguous
                   THEN [points EXCEPT !.main_grad = "own"] ELSE points
      /\ turn' = "step"
      /\ UNCHANGED <<flags, replicas, steps, passes, model, mains, loss_scaler, model_file>>

----------------------------------------------------------------------------
(***************************************************************************)
(* optimizer.step.  The copy of a parameter gets a copy of its gradient;   *)
(* one that is in single precision already is taken as it is.              *)
(***************************************************************************)
FromModel == IF Local(flags) THEN points.main_grad ELSE points.grad

InSingle == FromModel = "buffer" /\ flags.fp32_accumulate

CopyGrad == IF InSingle THEN "buffer" ELSE "copy"

CopiedGrads ==
  IF InSingle THEN tensors
  ELSE Written(tensors, "copy", LAMBDA x, e : tensors[x][e][FromModel])

\* Only contiguous buffers outlive the step.
KeptMainGrad == IF Local(flags) /\ ~ flags.contiguous THEN "none" ELSE points.main_grad

\* Unscaled, and looked through for what overflowed, by every rank of the model.
Unscaled(t) ==
  IF ScalerKind(flags) = "none" THEN t
  ELSE Written(t, CopyGrad, LAMBDA x, e : Divide(t[x][e][CopyGrad], loss_scaler.scale))

ModelGroup(x) == {y \in Everyone : y.data = x.data}

FoundInf(t) ==
  /\ ScalerKind(flags) # "none"
  /\ \E x \in Everyone : \E y \in ModelGroup(x) : \E e \in DOMAIN t[y] : t[y][e][CopyGrad] = Inf

\* Every element once: not the copies on later stages, nor the other ranks'.
ForNorm(x) == {e \in Held(flags, x) : ~ Shared(x, e) /\ ~ Duplicate(x, e)}

Squares(t, where, x) ==
  MapThenSumSet(LAMBDA y : MapThenSumSet(LAMBDA e : t[y][e][where] * t[y][e][where],
                                         ForNorm(y)),
                ModelGroup(x))

Clipped(t, where) ==
  Written(t, where, LAMBDA x, e : Clip(t[x][e][where], Squares(t, where, x)))

\* DynamicGradScaler.update, with the factors 1/2 and 2.
NextScaler(found_inf) ==
  LET s == loss_scaler
      h == s.hysteresis - 1
  IN  CASE ScalerKind(flags) # "dynamic" -> s
        [] ScalerKind(flags) = "dynamic" /\ found_inf ->
             [scale |-> IF h > 0 THEN s.scale
                        ELSE IF s.scale \div 2 > MinScale THEN s.scale \div 2 ELSE MinScale,
              growth |-> 0, hysteresis |-> h]
        [] OTHER ->
             IF s.growth + 1 = GrowthInterval
             THEN [scale |-> 2 * s.scale, growth |-> 0, hysteresis |-> Hysteresis]
             ELSE [s EXCEPT !.growth = @ + 1]

\* The inner optimizer's step.
Advanced(t, where) ==
  [x \in Everyone |-> [e \in Held(flags, x) |->
     Adam(mains[x][e], t[x][e][where], Decayed(e))]]

\* _copy_main_params_to_model_params.
ToModel(m) ==
  [x \in Everyone |-> [e \in Held(flags, x) |-> Round(m[x][e].param, flags.precision)]]

StepHalf ==
  LET unscaled == Unscaled(CopiedGrads)
      skip     == FoundInf(unscaled)
      clipped  == Clipped(unscaled, CopyGrad)
  IN  /\ turn = "step" /\ IsHalf(flags)
      /\ points' = [grad |-> "none", main_grad |-> KeptMainGrad, copy_grad |-> CopyGrad]
      /\ loss_scaler' = NextScaler(skip)
      /\ IF skip THEN tensors' = unscaled /\ UNCHANGED <<mains, model>>
         ELSE /\ tensors' = clipped
              /\ mains' = Advanced(clipped, CopyGrad)
              /\ model' = ToModel(mains')
      /\ turn' = "ready"
      /\ UNCHANGED <<flags, replicas, steps, passes, model_file>>

\* In single precision the parameters are the master values, and main_grad, clipped
\* in place, is their gradient.
StepSingle ==
  /\ turn = "step" /\ ~ IsHalf(flags)
  /\ points' = [points EXCEPT !.grad = FromModel, !.main_grad = KeptMainGrad]
  /\ tensors' = Clipped(tensors, FromModel)
  /\ mains' = Advanced(tensors', FromModel)
  /\ model' = [x \in Everyone |-> [e \in Held(flags, x) |-> mains'[x][e].param]]
  /\ turn' = "ready"
  /\ UNCHANGED <<flags, replicas, steps, passes, loss_scaler, model_file>>

----------------------------------------------------------------------------
\* One file per stage and tensor-parallel number.
SaveCheckpoint ==
  LET writers == {x \in Everyone : x.data = 0}
  IN  /\ turn = "ready"
      /\ model_file' = << [steps |-> steps, loss_scaler |-> loss_scaler,
                           model |-> [x \in writers |-> model[x]],
                           mains |-> [x \in writers |-> mains[x]]] >>
      /\ UNCHANGED <<flags, turn, replicas, steps, passes, model, mains, tensors, points,
                     loss_scaler>>

Down ==
  /\ turn = "down" /\ replicas = 0 /\ steps = 0 /\ passes = 0
  /\ model = << >> /\ mains = << >> /\ tensors = << >> /\ points = << >>
  /\ loss_scaler = << >>

\* A process dies, or raises: all that is left is the checkpoint.
End ==
  /\ turn # "down"
  /\ turn' = "down" /\ replicas' = 0 /\ steps' = 0 /\ passes' = 0
  /\ model' = << >> /\ mains' = << >> /\ tensors' = << >> /\ points' = << >>
  /\ loss_scaler' = << >>
  /\ UNCHANGED <<flags, model_file>>

InitModelOptimizer == flags \in Jobs /\ Down /\ model_file = << >>

NextModelOptimizer ==
  \/ \E d \in Worlds : Begin(d) \/ Resume(d) \/ Finetune(d)
  \/ StartStep
  \/ BackwardPass
  \/ ReduceModelGrads
  \/ StepHalf
  \/ StepSingle
  \/ SaveCheckpoint
  \/ End

SpecModelOptimizer == InitModelOptimizer /\ [][NextModelOptimizer]_model_vars
=================================================================================
