------------------------------ MODULE RandomStates ------------------------------
(***************************************************************************)
(* The random numbers of dropout.  A process has one CUDA generator and a  *)
(* tracker with the state of a second, model-parallel stream that is       *)
(* swapped in where activations are divided.  A checkpointed layer is run  *)
(* once more in the backward pass and must drop what it dropped before,    *)
(* while other microbatches are under way and the streams have moved on;   *)
(* and a training that is resumed must go on where it was.                 *)
(*                                                                         *)
(* A state is a stream and the count of numbers drawn from it.  The        *)
(* tracker's dictionaries are objects: what is set, read and copied is a   *)
(* reference.  A pass touches no other process; it is one step.            *)
(***************************************************************************)
EXTENDS Integers, Sequences

CONSTANTS Depth,    \* layers of the model chunk, each a checkpoint
          PerStep,  \* microbatches per step
          MaxSteps  \* bound on the training

ASSUME RandomAssumption == Depth \in Nat /\ PerStep \in Nat \ {0} /\ MaxSteps \in Nat

VARIABLES sp,        \* sequence_parallel, of the launch
          rng,       \* [gen, dicts, cur, orig, log]: the process
          step,      \* << >> when down, or <<iteration>>
          contexts,  \* per microbatch, of its layers, what CheckpointFunction kept
          done,      \* microbatches whose backward pass is done
          drawn,     \* per microbatch of the training, what the forward pass drew
          redrawn,   \* the same, what the backward pass drew in its layers
          stored     \* << >> or the checkpoint

rng_vars == <<sp, rng, step, contexts, done, drawn, redrawn, stored>>

Stream(name, n) == [stream |-> name, count |-> n]

Draw(x) ==
  [x EXCEPT !.log = Append(@, x.gen), !.gen = Stream(x.gen.stream, x.gen.count + 1)]

(***************************************************************************)
(* CudaRNGStatesTracker.  fork is a context: entering it and leaving it.   *)
(***************************************************************************)
Enter(x) ==
  [x EXCEPT !.orig = Append(@, x.gen), !.gen = x.dicts[x.cur]]

Exit(x) ==
  [x EXCEPT !.dicts[x.cur] = x.gen,
            !.gen = x.orig[Len(x.orig)],
            !.orig = SubSeq(@, 1, Len(@) - 1)]

\* get_states copies the dictionary: a new object.  The result is the process
\* and the reference.
GetStates_Reference(x) == <<x, x.cur>>
GetStates(x) ==
  <<[x EXCEPT !.dicts = Append(@, x.dicts[x.cur])], Len(x.dicts) + 1>>

\* set_states does not.
SetStates(x, ref) == [x EXCEPT !.cur = ref]

\* model_parallel_cuda_manual_seed, and the weights drawn in a fork.
Seeded ==
  Exit(Draw(Enter([gen |-> Stream("data", 0), dicts |-> << Stream("model", 0) >>,
                   cur |-> 1, orig |-> << >>, log |-> << >>])))

(***************************************************************************)
(* The model.  With sequence parallelism the embedding's dropout and all   *)
(* layers are in a fork; without it the dropout of the attention is.       *)
(***************************************************************************)
Embedding(x) == IF sp THEN Exit(Draw(Enter(x))) ELSE Draw(x)
Layer(x) == IF sp THEN Draw(Draw(x)) ELSE Draw(Exit(Draw(Enter(x))))

\* CheckpointFunction.forward, a function of <<process, contexts>>.
CheckpointForward(xc) ==
  LET copied == GetStates(xc[1])
  IN  <<Layer(copied[1]), Append(xc[2], [gen |-> xc[1].gen, tracker |-> copied[2]])>>

\* The layers in order,
ForwardLayers(xc) ==
  LET run[l \in 0 .. Depth] == IF l = 0 THEN xc ELSE CheckpointForward(run[l - 1])
  IN  run[Depth]

ForwardPass(x) ==
  LET embedded == Embedding(x)
      run == ForwardLayers(<<IF sp THEN Enter(embedded) ELSE embedded, << >> >>)
  IN  <<IF sp THEN Exit(run[1]) ELSE run[1], run[2]>>

\* CheckpointFunction.backward: the states of the forward pass are set, and
\* after the recomputation those there were before.
CheckpointBackward(x, context) ==
  LET copied == GetStates(x)
      set    == SetStates([copied[1] EXCEPT !.gen = context.gen], context.tracker)
  IN  SetStates([Layer(set) EXCEPT !.gen = x.gen], copied[2])

\* and back, the last one first.
BackwardPass(x, ctxs) ==
  LET run[l \in 0 .. Depth] ==
        IF l = 0 THEN x ELSE CheckpointBackward(run[l - 1], ctxs[Depth + 1 - l])
  IN  run[Depth]

(***************************************************************************)
(* A step: forward passes in order, backward passes in order, each after   *)
(* its forward pass.                                                       *)
(***************************************************************************)
Alive == step # << >>
Iteration == step[1]
Number(m) == Iteration * PerStep + m
Forwarded == Len(contexts)

Forward ==
  LET run == ForwardPass([rng EXCEPT !.log = << >>])
  IN  /\ Alive /\ Iteration < MaxSteps /\ Forwarded < PerStep
      /\ contexts' = Append(contexts, run[2])
      /\ rng' = [run[1] EXCEPT !.log = << >>]
      /\ drawn' = [drawn EXCEPT ![Number(Forwarded + 1)] = run[1].log]
      /\ UNCHANGED <<sp, step, done, redrawn, stored>>

Backward ==
  LET run == BackwardPass([rng EXCEPT !.log = << >>], contexts[done + 1])
  IN  /\ Alive /\ done < Forwarded
      /\ done' = done + 1
      /\ rng' = [run EXCEPT !.log = << >>]
      /\ redrawn' = [redrawn EXCEPT ![Number(done + 1)] = run.log]
      /\ UNCHANGED <<sp, step, contexts, drawn, stored>>

\* The contexts are freed with the graph; dictionaries nobody refers to too.
EndStep ==
  /\ Alive /\ done = PerStep
  /\ step' = <<Iteration + 1>>
  /\ done' = 0 /\ contexts' = << >>
  /\ rng' = [rng EXCEPT !.dicts = << rng.dicts[rng.cur] >>, !.cur = 1]
  /\ UNCHANGED <<sp, drawn, redrawn, stored>>

\* get_rng_state, and what is read from the file again.
Save ==
  /\ Alive /\ Forwarded = 0
  /\ stored' = << [gen |-> rng.gen, tracker |-> rng.dicts[rng.cur], iteration |-> Iteration] >>
  /\ UNCHANGED <<sp, rng, step, contexts, done, drawn, redrawn>>

Crash ==
  /\ Alive
  /\ step' = << >> /\ rng' = << >> /\ contexts' = << >> /\ done' = 0
  /\ UNCHANGED <<sp, drawn, redrawn, stored>>

Start ==
  /\ ~ Alive
  /\ IF stored = << >>
     THEN rng' = [Seeded EXCEPT !.log = << >>] /\ step' = <<0>>
     ELSE /\ rng' = [gen |-> stored[1].gen, dicts |-> << stored[1].tracker >>, cur |-> 1,
                     orig |-> << >>, log |-> << >>]
          /\ step' = <<stored[1].iteration>>
  /\ UNCHANGED <<sp, contexts, done, drawn, redrawn, stored>>

InitRandomStates ==
  /\ sp \in BOOLEAN
  /\ rng = << >> /\ step = << >> /\ contexts = << >> /\ done = 0
  /\ drawn = [n \in 1 .. MaxSteps * PerStep |-> << >>]
  /\ redrawn = drawn
  /\ stored = << >>

NextRandomStates == Forward \/ Backward \/ EndStep \/ Save \/ Crash \/ Start

SpecRandomStates == InitRandomStates /\ [][NextRandomStates]_rng_vars

(***************************************************************************)
(* The numbers of a training of one stream after the other, without        *)
(* recomputation and without interruption.                                 *)
(***************************************************************************)
PerPass == [data |-> IF sp THEN 0 ELSE 1 + Depth, model |-> IF sp THEN 1 + 2 * Depth ELSE Depth]

Expected(n) ==
  LET data(k)  == Stream("data", (n - 1) * PerPass.data + k)
      model(k) == Stream("model", 1 + (n - 1) * PerPass.model + k)
      layers   == IF sp THEN [k \in 1 .. 2 * Depth |-> model(k)]
                  ELSE [k \in 1 .. 2 * Depth |->
                          IF k % 2 = 1 THEN model(k \div 2) ELSE data(k \div 2)]
  IN  <<IF sp THEN model(0) ELSE data(0)>> \o layers

\* The layers, last one first, two numbers each.
Recomputed(log) ==
  [k \in 1 .. 2 * Depth |->
     log[1 + 2 * (Depth - 1 - ((k - 1) \div 2)) + ((k - 1) % 2) + 1]]

\* Every microbatch draws what it would in a training that neither recomputes
\* nor stops, and its layers draw the same again in the backward pass, however
\* passes alternate and wherever a resumed training was interrupted.
DrawsAsPlain ==
  \A n \in DOMAIN drawn :
    /\ drawn[n] # << >> => drawn[n] = Expected(n)
    /\ redrawn[n] # << >> => redrawn[n] = Recomputed(Expected(n))
=================================================================================
