----------------------------- MODULE TrainStep -----------------------------
(***************************************************************************)
(* Parameters and gradients from the building of the model through several *)
(* training steps, on the two end devices 0 and P-1 of a pipeline: one     *)
(* bidirectional group, and the devices that hold the word embeddings and  *)
(* the heads of both pipelines                                             *)
(* (megatron/model/module.py, megatron/training.py, bitpipe_4vr.py,        *)
(* megatron/model/distributed.py, megatron/optimizer/optimizer.py).        *)
(*                                                                         *)
(* A chunk has two parameters: "layers" stands for all the parameters of   *)
(* its own, "word" for the word embedding or the head that shares its      *)
(* weight.  Values are integers; a gradient is a number that depends on    *)
(* the device, the chunk and the parameter.  The optimizer subtracts the   *)
(* gradient: what matters is which gradients are in it.                    *)
(***************************************************************************)
EXTENDS BitPipeOrder

CONSTANTS
  InitialWeight,   \* [Ends -> [Chunks -> [layers, word : Int]]], from init_method
  MbGrad,          \* the same for the gradient of one microbatch
  MaxIters         \* bound on the number of training steps

Ends   == {0, P - 1}
Params == {"layers", "word"}

Table == [Ends -> [Chunks -> [Params -> Int]]]

\* Two averages over two devices are taken of a gradient: 4 keeps them whole.
ASSUME ValuesAssumption ==
  /\ InitialWeight \in Table /\ MbGrad \in Table
  /\ \A r \in Ends, c \in Chunks, x \in Params : MbGrad[r][c][x] % 4 = 0
ASSUME MaxItersAssumption == MaxIters \in Nat

VARIABLES
  place,      \* where each device is in its program: [phase, k]
  iteration,  \* training steps begun
  weight,     \* weight[r][c][x]
  buffer,     \* the contiguous gradient buffers of local DDP
  rebound     \* head.main_grad is the embedding's main_grad, on device r

vars == <<place, iteration, weight, buffer, rebound>>

----------------------------------------------------------------------------
Other(r) == BdPartner(r)

EmbeddingChunk(r) == IF r = 0 THEN 0 ELSE 1
HeadChunk(r)      == IF r = 0 THEN 2 ELSE 3

HasWord(r, c) == c \in {EmbeddingChunk(r), HeadChunk(r)}

Held(r, c) == IF HasWord(r, c) THEN Params ELSE {"layers"}

\* The buffer slot main_grad of a parameter is a view of.
SlotChunk(r, c, x) ==
  IF x = "word" /\ c = HeadChunk(r) /\ rebound[r] THEN EmbeddingChunk(r) ELSE c

MainGrad(r, c, x) == buffer[r][SlotChunk(r, c, x)][x]

InPhase(r, phase) == place[r].phase = phase

\* Device r goes on in its phase, or to `next` after n turns.
Onward(r, n, next) ==
  IF place[r].k + 1 < n THEN [place[r] EXCEPT !.k = @ + 1]
                        ELSE [phase |-> next, k |-> 0]

Move(r, n, next) == place' = [place EXCEPT ![r] = Onward(r, n, next)]

MoveBoth(n, next) == place' = [r \in Ends |-> Onward(r, n, next)]

----------------------------------------------------------------------------
(***************************************************************************)
(* Building.  initialize_word_embeddings runs in the constructor of each   *)
(* chunk: a head starts at zero, the embedding of the last device is set   *)
(* to zero, and the chunks of the embedding group add up what they have.   *)
(***************************************************************************)
Created(r, c, x) ==
  IF x = "word" /\ (c = HeadChunk(r) \/ r # 0) THEN 0 ELSE InitialWeight[r][c][x]

Init ==
  /\ place = [r \in Ends |-> [phase |-> "build", k |-> 0]]
  /\ iteration = [r \in Ends |-> 0]
  /\ weight = [r \in Ends |-> [c \in Chunks |-> [x \in Params |-> Created(r, c, x)]]]
  /\ buffer = [r \in Ends |-> [c \in Chunks |-> [x \in Params |-> 0]]]
  /\ rebound = [r \in Ends |-> FALSE]

\* A chunk outside of the embedding group takes part in no all-reduce.
BuildChunk(r) ==
  /\ InPhase(r, "build") /\ ~HasWord(r, place[r].k)
  /\ Move(r, 4, "broadcast")
  /\ UNCHANGED <<iteration, weight, buffer, rebound>>

\* The all-reduce over the embedding group: each device calls it for its own
\* next chunk of the group.
EmbeddingAllReduce ==
  /\ \A r \in Ends : InPhase(r, "build") /\ HasWord(r, place[r].k)
  /\ LET sum == weight[0][place[0].k]["word"] + weight[P-1][place[P-1].k]["word"]
     IN  weight' = [r \in Ends |-> [weight[r] EXCEPT ![place[r].k]["word"] = sum]]
  /\ MoveBoth(4, "broadcast")
  /\ UNCHANGED <<iteration, buffer, rebound>>

(***************************************************************************)
(* The end of get_model: the first member of the bidirectional group sends *)
(* its parameters to the second, which goes through its chunks in another  *)
(* order.                                                                  *)
(***************************************************************************)
BroadcastChunk_SameOrder(r, k) ==  \* mutant: both halves in the order of the chunks
  k

BroadcastChunk(r, k) == IF r < Half THEN k ELSE (IF k % 2 = 0 THEN k + 1 ELSE k - 1)

Broadcast ==
  LET c == BroadcastChunk(0, place[0].k)
      d == BroadcastChunk(P - 1, place[P - 1].k)
  IN  /\ \A r \in Ends : InPhase(r, "broadcast")
      /\ weight' = [weight EXCEPT ![P - 1][d] =
                      [x \in Params |-> IF x \in Held(0, c) \cap Held(P - 1, d)
                                        THEN weight[0][c][x] ELSE @[x]]]
      /\ MoveBoth(4, "zero")
      /\ UNCHANGED <<iteration, buffer, rebound>>

----------------------------------------------------------------------------
(***************************************************************************)
(* train_step: zero the buffers, run the schedule, reduce, update.         *)
(***************************************************************************)
ZeroGradBuffer_First(r) ==         \* mutant: only before the first training step
  IF iteration[r] = 0 THEN [c \in Chunks |-> [x \in Params |-> 0]] ELSE buffer[r]

ZeroGradBuffer(r) == [c \in Chunks |-> [x \in Params |-> 0]]

ZeroGrad(r) ==
  /\ InPhase(r, "zero") /\ iteration[r] < MaxIters
  /\ buffer' = [buffer EXCEPT ![r] = ZeroGradBuffer(r)]
  /\ iteration' = [iteration EXCEPT ![r] = @ + 1]
  /\ Move(r, 1, "schedule")
  /\ UNCHANGED <<weight, rebound>>

ChunkAt(r) == BackwardChunk(r, place[r].k \div 2)

(***************************************************************************)
(* The schedule, as far as gradients go: the backward order of the device. *)
(* A place of the order takes two turns; a backward pass does all of it in *)
(* the first, a synchronization marker reduces one chunk in each.  The     *)
(* hooks of the chunk add the gradient to main_grad.                       *)
(***************************************************************************)
Backward(r) ==
  LET c == ChunkAt(r)
  IN  /\ InPhase(r, "schedule") /\ c # Sync
      /\ buffer' = [buffer EXCEPT ![r] =
           [d \in Chunks |-> [x \in Params |->
              buffer[r][d][x] +
                IF x \in Held(r, c) /\ d = SlotChunk(r, c, x) THEN MbGrad[r][c][x] ELSE 0]]]
      /\ place' = [place EXCEPT ![r].k = @ + 2]
      /\ UNCHANGED <<iteration, weight, rebound>>

SyncedChunk(r) ==
  LET k == place[r].k
      turn == k % 2
  IN  (IF k \div 2 < TotalNumMicrobatches + 1 THEN 2 ELSE 0)
        + (IF r < Half THEN turn ELSE 1 - turn)

\* allreduce_gradients: main_grad of both devices becomes the average.
AllReduceGradients ==
  LET c == [r \in Ends |-> SyncedChunk(r)]
      mean(x) == (MainGrad(0, c[0], x) + MainGrad(P-1, c[P-1], x)) \div 2
  IN  /\ \A r \in Ends : InPhase(r, "schedule") /\ ChunkAt(r) = Sync
      /\ buffer' = [r \in Ends |-> [d \in Chunks |-> [x \in Params |->
           IF d = SlotChunk(r, c[r], x) /\ x \in Held(r, c[r])
           THEN mean(x) ELSE buffer[r][d][x]]]]
      /\ MoveBoth(2 * (TotalNumMicrobatches + 2), "reduce")
      /\ UNCHANGED <<iteration, weight, rebound>>

(***************************************************************************)
(* allreduce_word_embedding_grads: the head's gradient is added to the     *)
(* embedding's, and the head's main_grad becomes the embedding's tensor.   *)
(***************************************************************************)
ReduceModelGrads(r) ==
  /\ InPhase(r, "reduce")
  /\ buffer' = [buffer EXCEPT ![r][EmbeddingChunk(r)]["word"] =
                  @ + MainGrad(r, HeadChunk(r), "word")]
  /\ rebound' = [rebound EXCEPT ![r] = TRUE]
  /\ Move(r, 1, "update")
  /\ UNCHANGED <<iteration, weight>>

(***************************************************************************)
(* optimizer.step on the devices of the model: each looks for inf in its   *)
(* own gradients, and the update is skipped when any device has found one. *)
(***************************************************************************)
FoundInf_Local(inf, r) ==          \* mutant: without the all-reduce of found_inf
  inf[r]

FoundInf(inf, r) == \E q \in Ends : inf[q]

OptimizerStep ==
  /\ \A r \in Ends : InPhase(r, "update")
  /\ \E inf \in [Ends -> BOOLEAN] :
       weight' = [r \in Ends |-> [c \in Chunks |-> [x \in Params |->
         IF FoundInf(inf, r) \/ x \notin Held(r, c) THEN weight[r][c][x]
         ELSE weight[r][c][x] - MainGrad(r, c, x)]]]
  /\ MoveBoth(1, "zero")
  /\ UNCHANGED <<iteration, buffer, rebound>>

Trained == \A r \in Ends : InPhase(r, "zero") /\ iteration[r] = MaxIters

Terminated == Trained /\ UNCHANGED vars

Next ==
  \/ \E r \in Ends : BuildChunk(r) \/ ZeroGrad(r) \/ Backward(r) \/ ReduceModelGrads(r)
  \/ EmbeddingAllReduce
  \/ Broadcast
  \/ AllReduceGradients
  \/ OptimizerStep
  \/ Terminated

Spec == Init /\ [][Next]_vars

----------------------------------------------------------------------------
\* Microbatches of each pipeline.
PerPipe == N \div 2

\* The average over the two pipelines of the gradient of a whole batch.
BatchGrad(r, c, d, x) ==
  PerPipe * ((MbGrad[r][c][x] + MbGrad[Other(r)][d][x]) \div 2)

\* Whenever both devices are between two training steps, the parameters of a
\* stage are the same in both pipelines, although no step copies them: the
\* broadcast pairs the right chunks, both update with the same average, and
\* both skip the same updates.
ReplicasAgree ==
  (\A r \in Ends : InPhase(r, "zero")) =>
    \A r \in Ends, c, d \in Chunks : StageOf(r, c) = StageOf(Other(r), d) =>
      \A x \in Held(r, c) : weight[r][c][x] = weight[Other(r)][d][x]

\* The update of a device is the right one for all that it shares.  Layers are
\* updated with the average of the whole batch over both pipelines: no microbatch
\* is counted twice, left out or left over from the last step.  The embedding
\* and the head of a device change by the same amount ("... to ensure that every
\* applied weight update is the same on both stages", initialize_word_embeddings).
UpdatesRight ==
  [][\A r \in Ends : InPhase(r, "update") /\ InPhase(r, "zero")' =>
       /\ \A c, d \in Chunks :
            StageOf(r, c) = StageOf(Other(r), d) =>
              weight[r][c]["layers"] - weight'[r][c]["layers"] \in
                {0, BatchGrad(r, c, d, "layers")}
       /\ weight'[r][EmbeddingChunk(r)]["word"] - weight[r][EmbeddingChunk(r)]["word"]
            = weight'[r][HeadChunk(r)]["word"] - weight[r][HeadChunk(r)]["word"]]_vars

\* "Ensure that first and last stages have the same initial parameter values"
\* (comment of initialize_word_embeddings).
SameInitialWord ==
  \A r \in Ends :
    InPhase(r, "zero") /\ iteration[r] = 0 =>
      weight[r][HeadChunk(r)]["word"] = weight[r][EmbeddingChunk(r)]["word"]

\* "Reduce grads across first and last stages" (allreduce_word_embedding_grads):
\* the gradient the word embeddings are updated with is the gradient of the
\* embedding plus the gradient of the head.
WordGradientReduced ==
  \A r \in Ends :
    InPhase(r, "update") =>
      MainGrad(r, EmbeddingChunk(r), "word") =
        BatchGrad(r, EmbeddingChunk(r), EmbeddingChunk(Other(r)), "word")
          + BatchGrad(r, HeadChunk(r), HeadChunk(Other(r)), "word")
============================================================================
