----------------------------- MODULE BitPipe4VR -----------------------------
(***************************************************************************)
(* One call of forward_backward_pipelining_with_bitpipe_4vr on the P       *)
(* devices of a pipeline group                                             *)
(* (megatron/core/pipeline_parallel/schedule_impl/bitpipe/bitpipe_4vr.py). *)
(*                                                                         *)
(* Every device runs the same straight-line program; pc[r] says which loop *)
(* body of it device r runs next.  A loop body computes, posts a           *)
(* point-to-point operation and waits for it: the action is the body up to *)
(* the wait, and Transfer is the network moving one tensor between two     *)
(* devices that have posted the matching send and receive.                 *)
(*                                                                         *)
(* A Python exception (popping an empty list) is a device whose next       *)
(* action is not enabled: NoIndexError names those states.                 *)
(***************************************************************************)
EXTENDS BitPipeOrder, P2PCommunication

CONSTANTS
  ForwardOnly,    \* forward_only
  OverlapP2P,     \* config.overlap_p2p_comm
  GradSyncFunc    \* config.grad_sync_func is not None

ASSUME FlagAssumption == {ForwardOnly, OverlapP2P, GradSyncFunc} \subseteq BOOLEAN

VARIABLES
  pc,                  \* which loop body comes next: [phase, loop, k]
  vrank,               \* _VIRTUAL_PIPELINE_MODEL_PARALLEL_RANK
  inputTensors,        \* input_tensors[chunk]
  outputTensors,       \* output_tensors[chunk]
  outputTensorGrads,   \* output_tensor_grads[chunk]
  comm,                \* the operation the device waits for
  fed,                 \* how often data_iterator[chunk] was advanced
  losses,              \* forward_data_store
  mainGrad,            \* microbatches whose gradient is in main_grad[chunk]
  synced,              \* all-reduces done at the marker the device is at
  reduced,             \* number of bidirectional all-reduces of a chunk
  synchronizedChunks   \* synchronized_model_chunks

lists == <<inputTensors, outputTensors, outputTensorGrads>>
results == <<fed, losses, mainGrad, reduced, synchronizedChunks>>
vars == <<pc, vrank, lists, comm, synced, results>>

----------------------------------------------------------------------------
(***************************************************************************)
(* The program: how many times each loop runs, and what follows.  The      *)
(* loops of the middle part are mid1 .. mid4; last and cooldown come after *)
(* them and use the same index arithmetic with loop = NLoop.               *)
(***************************************************************************)
Phases == {"recv", "warmup", "mid1", "mid2", "mid3", "mid4",
           "last", "cooldown", "finish", "done"}

PhaseLength(r, phase) ==
  LET w == NumWarmupMicrobatches(r)
      u == UnitRemaining(r)
  IN  CASE phase = "warmup"            -> IF ForwardOnly THEN TotalNumMicrobatches ELSE w
        [] phase \in {"mid1", "last"}  -> 2 * u
        [] phase \in {"mid2", "mid4"}  -> w - u + 1
        [] phase = "mid3"              -> 2 * (u - 1)
        [] phase = "cooldown"          -> 2 * P - u + 2
        [] OTHER                       -> 1

At(phase, loop) == [phase |-> phase, loop |-> loop, k |-> 0]

LoopOrLast_OneMore(loop) ==        \* mutant: <= for <
  IF loop <= NLoop THEN At("mid1", loop) ELSE At("last", NLoop)

LoopOrLast(loop) == IF loop < NLoop THEN At("mid1", loop) ELSE At("last", NLoop)

NextPhase(r, p) ==
  CASE p.phase = "recv"     -> At("warmup", 0)
    [] p.phase = "warmup"   -> IF ForwardOnly THEN At("finish", 0) ELSE LoopOrLast(0)
    [] p.phase = "mid1"     -> At("mid2", p.loop)
    [] p.phase = "mid2"     -> At(IF UnitRemaining(r) > 1 THEN "mid3" ELSE "mid4", p.loop)
    [] p.phase = "mid3"     -> At("mid4", p.loop)
    [] p.phase = "mid4"     -> LoopOrLast(p.loop + 1)
    [] p.phase = "last"     -> At("cooldown", NLoop)
    [] p.phase = "cooldown" -> At("finish", 0)
    [] OTHER                -> At("done", 0)

NextPlace(r, p) ==
  IF p.k + 1 < PhaseLength(r, p.phase) THEN [p EXCEPT !.k = @ + 1] ELSE NextPhase(r, p)

Step(r) == pc' = [pc EXCEPT ![r] = NextPlace(r, pc[r])]

\* forward_k and backward_k: the places in the two orders a loop body uses.
ForwardK(r, p) ==
  LET base == p.loop * 2 * P
  IN  CASE p.phase \in {"mid1", "last"} -> base + NumWarmupMicrobatches(r) + (p.k \div 2)
        [] p.phase = "mid3"             -> base + 2 * P + (p.k \div 2)
        [] p.phase = "mid4"             -> base + 2 * P + UnitRemaining(r) - 1 + p.k
        [] OTHER                        -> p.k

BackwardK(r, p) ==
  LET base == p.loop * 2 * P
  IN  CASE p.phase \in {"mid1", "last"}     -> base + (p.k \div 2)
        [] p.phase \in {"mid2", "cooldown"} -> base + UnitRemaining(r) + p.k
        [] OTHER                            -> base + NumWarmupMicrobatches(r) + 1 + (p.k \div 2)

FK(r) == ForwardK(r, pc[r])
BK(r) == BackwardK(r, pc[r])

Idle(r) == comm[r].to = Nobody /\ comm[r].from = Nobody

InPhase(r, phases) == Idle(r) /\ pc[r].phase \in phases

----------------------------------------------------------------------------
(***************************************************************************)
(* Communication.  `box` is the list the received tensor goes to; "drop"   *)
(* when the caller does not keep it.                                       *)
(***************************************************************************)
Post(r, op, box, c) ==
  comm' = [comm EXCEPT ![r] = [to |-> op.to, tensor |-> op.tensor, from |-> op.from,
                               box |-> box, chunk |-> c]]

\* What the caller appends at once: None, when nothing is to be received.
AtOnce(op) == IF op.from = Nobody THEN <<None>> ELSE << >>

Add(list, r, c, tensors) == [list EXCEPT ![r][c] = @ \o tensors]

\* The lists of one device with chunk c's replaced and `tensors` added to d's.
ReplaceAndAdd(row, c, new, d, tensors) ==
  [x \in Chunks |-> (IF x = c THEN new ELSE row[x]) \o (IF x = d THEN tensors ELSE << >>)]

HandedOverBackward_Never(r, next) ==   \* mutant: the gradient is sent even to oneself
  FALSE

\* Output of this device's last stage of a pipeline half feeds its own other half.
HandedOverForward(r, next)  == (r = P - 1 /\ next = 2) \/ (r = 0 /\ next = 3)
HandedOverBackward(r, next) == (r = P - 1 /\ next = 0) \/ (r = 0 /\ next = 1)

(***************************************************************************)
(* forward_step_helper: on a first stage an input of None is added when    *)
(* there is none for this pass; the pass reads the last input and the next *)
(* sample of the chunk's iterator, and a last stage stores the loss.       *)
(***************************************************************************)
PaddedInputs(r, c) ==
  IF IsFirstStage(r, c) /\ Len(inputTensors[r][c]) = Len(outputTensors[r][c])
  THEN Append(inputTensors[r][c], None)
  ELSE inputTensors[r][c]

LastInput_Oldest(r, c) ==          \* mutant: input_tensors[c][0]
  Head(PaddedInputs(r, c))

LastInput(r, c) == PaddedInputs(r, c)[Len(PaddedInputs(r, c))]

ForwardOutput(r, c) ==
  IF LastInput(r, c) = None
  THEN Act(Pipe(c), fed[r][c], 1)
  ELSE [LastInput(r, c) EXCEPT !.stage = @ + 1]

\* A last stage turns its output into the loss and sends nothing on.
ToSend(r, c) == IF IsLastStage(r, c) THEN None ELSE ForwardOutput(r, c)

\* The loss pairs the activation's microbatch with the sample the labels are of.
StoreLoss(r, c) ==
  IF IsLastStage(r, c)
  THEN [losses EXCEPT ![r] = Append(@, <<ForwardOutput(r, c).mb, fed[r][c]>>)]
  ELSE losses

ForwardStepHelper(r, c) ==
  /\ PaddedInputs(r, c) # << >>
  /\ vrank' = [vrank EXCEPT ![r] = c]
  /\ outputTensors' = Add(outputTensors, r, c, <<ForwardOutput(r, c)>>)
  /\ fed' = [fed EXCEPT ![r][c] = @ + 1]
  /\ losses' = StoreLoss(r, c)
  /\ UNCHANGED <<mainGrad, synced, reduced, synchronizedChunks>>

\* input_tensors after the pass of chunk c, with `tensors` added for chunk d.
InputsAfter(r, c, d, tensors) ==
  [inputTensors EXCEPT ![r] = ReplaceAndAdd(@, c, PaddedInputs(r, c), d, tensors)]

(***************************************************************************)
(* backward_step_helper: a last stage adds a gradient of None when it has  *)
(* none; whether this is a last stage is read from the virtual rank v,     *)
(* which cooldown has not set yet.  The heads of the three lists are       *)
(* consumed, and the chunk's weights accumulate the microbatch's gradient. *)
(***************************************************************************)
PaddedGrads_Front(r, c, v) ==      \* mutant: None goes first, list not tested
  IF IsLastStage(r, v) THEN <<None>> \o outputTensorGrads[r][c]
                       ELSE outputTensorGrads[r][c]

PaddedGrads_Untested(r, c, v) ==   \* mutant: None is added to a list that has a gradient
  IF IsLastStage(r, v) THEN Append(outputTensorGrads[r][c], None)
                       ELSE outputTensorGrads[r][c]

PaddedGrads(r, c, v) ==
  IF IsLastStage(r, v) /\ outputTensorGrads[r][c] = << >>
  THEN <<None>> ELSE outputTensorGrads[r][c]

\* The gradient of the input that is popped; None for a chunk that read data.
InputGrad(r, c) ==
  LET t == Head(inputTensors[r][c])
  IN  IF t = None THEN None ELSE [t EXCEPT !.kind = "grad"]

OutputsPopped_Kept(r, c) ==        \* mutant: the output is read, not popped
  outputTensors

OutputsPopped(r, c) == [outputTensors EXCEPT ![r][c] = Tail(@)]

BackwardStepHelper(r, c, v, m) ==
  LET out == Head(outputTensors[r][c])
  IN  /\ inputTensors[r][c] # << >>
      /\ outputTensors[r][c] # << >>
      /\ PaddedGrads(r, c, v) # << >>
      /\ outputTensors' = OutputsPopped(r, c)
      /\ mainGrad' = [mainGrad EXCEPT ![r][c] = @ \cup {<<out.pipe, out.mb>>}]
      /\ synchronizedChunks' =
           IF IsLastMicrobatchForModelChunk(m)
           THEN [synchronizedChunks EXCEPT ![r] = @ \cup {c}]
           ELSE synchronizedChunks
      /\ vrank' = [vrank EXCEPT ![r] = c]
      /\ UNCHANGED <<fed, losses, synced, reduced>>

\* The lists after the pops of a backward pass of c, with `tensors` added for d.
InputsPopped(r, c, d, tensors) ==
  [inputTensors EXCEPT ![r] = ReplaceAndAdd(@, c, Tail(@[c]), d, tensors)]

GradsPopped(r, c, v, d, tensors) ==
  [outputTensorGrads EXCEPT ![r] = ReplaceAndAdd(@, c, Tail(PaddedGrads(r, c, v)), d, tensors)]

----------------------------------------------------------------------------
Init ==
  /\ pc = [r \in Ranks |-> At("recv", 0)]
  /\ vrank = [r \in Ranks |-> 0]
  /\ inputTensors      = [r \in Ranks |-> [c \in Chunks |-> << >>]]
  /\ outputTensors     = [r \in Ranks |-> [c \in Chunks |-> << >>]]
  /\ outputTensorGrads = [r \in Ranks |-> [c \in Chunks |-> << >>]]
  /\ comm = [r \in Ranks |-> [to |-> Nobody, tensor |-> None, from |-> Nobody,
                              box |-> "drop", chunk |-> 0]]
  /\ fed      = [r \in Ranks |-> [c \in Chunks |-> 0]]
  /\ losses   = [r \in Ranks |-> << >>]
  /\ mainGrad = [r \in Ranks |-> [c \in Chunks |-> {}]]
  /\ synced   = [r \in Ranks |-> 0]
  /\ reduced  = [r \in Ranks |-> [c \in Chunks |-> 0]]
  /\ synchronizedChunks = [r \in Ranks |-> {}]

\* The receive before the warmup loop.
InitialRecv(r) ==
  LET v  == IF r < Half THEN 0 ELSE 1
      op == RecvForward(r, v)
  IN  /\ InPhase(r, {"recv"})
      /\ vrank' = [vrank EXCEPT ![r] = v]
      /\ inputTensors' = Add(inputTensors, r, v, AtOnce(op))
      /\ Post(r, op, "in", v)
      /\ Step(r)
      /\ UNCHANGED <<outputTensors, outputTensorGrads, synced, results>>

(***************************************************************************)
(* What a forward-only loop body (warmup and mid4) sends and receives      *)
(* after running chunk c when chunk `next` comes next: nothing with        *)
(* overlap_p2p_comm; the tensor itself when the next chunk is on this      *)
(* device; otherwise a p2p operation.                                      *)
(***************************************************************************)
ForwardExchange(r, c, next, local, op) ==
  IF OverlapP2P
  THEN /\ inputTensors' = InputsAfter(r, c, c, << >>)
       /\ UNCHANGED comm
  ELSE IF local
  THEN /\ inputTensors' = InputsAfter(r, c, next, <<ToSend(r, c)>>)
       /\ UNCHANGED comm
  ELSE /\ inputTensors' = InputsAfter(r, c, next, AtOnce(op))
       /\ Post(r, op, "in", next)

\* The loop of initial forward passes; all passes are here in forward-only mode.
Warmup(r) ==
  LET k      == FK(r)
      c      == ForwardChunk(r, k)
      isLast == k = TotalNumMicrobatches - 1
      next   == IF isLast THEN 1 ELSE ForwardChunk(r, k + 1)
      op     == IF c = next
                THEN SendForwardRecvForward(r, c, ToSend(r, c),
                       ~IsFirstStage(r, c) /\ ~(isLast /\ ForwardOnly))
                ELSE SendForwardRecvForwardBd0(r, c, ToSend(r, c),
                       ~IsLastStage(r, c) /\ ~(isLast /\ ForwardOnly))
  IN  /\ InPhase(r, {"warmup"})
      /\ ForwardStepHelper(r, c)
      /\ ForwardExchange(r, c, next, c # next /\ HandedOverForward(r, next), op)
      /\ Step(r)
      /\ UNCHANGED outputTensorGrads

\* The fourth loop of the middle part.
WarmupAgain(r) ==
  LET k    == FK(r)
      c    == ForwardChunk(r, k)
      next == ForwardChunk(r, k + 1)
      op   == SendForwardRecvForwardBd0(r, c, ToSend(r, c), ~IsLastStage(r, c))
  IN  /\ InPhase(r, {"mid4"})
      /\ ForwardStepHelper(r, c)
      /\ ForwardExchange(r, c, next, HandedOverForward(r, next), op)
      /\ Step(r)
      /\ UNCHANGED outputTensorGrads

\* The forward half of a 1F1B loop body (mid1, mid3, last).
ForwardPass(r) ==
  LET c    == ForwardChunk(r, FK(r))
      next == BackwardChunk(r, BK(r))
      op   == SendForwardRecvBackward(r, c, ToSend(r, c))
  IN  /\ InPhase(r, {"mid1", "mid3", "last"}) /\ pc[r].k % 2 = 0
      /\ ForwardStepHelper(r, c)
      /\ inputTensors' = InputsAfter(r, c, c, << >>)
      /\ IF IsLastStage(r, c) THEN UNCHANGED comm ELSE Post(r, op, "grad", next)
      /\ Step(r)
      /\ UNCHANGED outputTensorGrads

\* The last turn of mid1 and last receives a gradient, not a forward input.
FinalTurn(r) == pc[r].k = 2 * UnitRemaining(r) - 1 /\ pc[r].phase # "mid3"

\* mid3 exchanges nothing when this is a first stage.
Quiet(r, c) == pc[r].phase = "mid3" /\ IsFirstStage(r, c)

(***************************************************************************)
(* The backward half of a 1F1B loop body (mid1, mid3, last).               *)
(***************************************************************************)
BackwardPass(r) ==
  LET k == BK(r)
      c == BackwardChunk(r, k)
      nextChunk == IF FinalTurn(r) THEN BackwardChunk(r, k + 1)
                                   ELSE ForwardChunk(r, FK(r) + 1)
      grad      == IF IsFirstStage(r, c) THEN None ELSE InputGrad(r, c)
      op        == IF FinalTurn(r) THEN SendBackwardRecvBackwardBd(r, c, grad, TRUE)
                                   ELSE SendBackwardRecvForward(r, c, grad)
  IN  /\ InPhase(r, {"mid1", "mid3", "last"}) /\ pc[r].k % 2 = 1
      /\ BackwardStepHelper(r, c, c, BkMicrobatchIdx[r][k])
      /\ IF Quiet(r, c) THEN UNCHANGED comm
         ELSE Post(r, op, IF FinalTurn(r) THEN "grad" ELSE "in", nextChunk)
      /\ inputTensors' = InputsPopped(r, c, nextChunk,
                           IF Quiet(r, c) \/ FinalTurn(r) THEN << >> ELSE AtOnce(op))
      /\ outputTensorGrads' = GradsPopped(r, c, c, c, << >>)
      /\ Step(r)

(***************************************************************************)
(* The second loop of the middle part: backward passes only.  The final    *)
(* turn receives a forward input, unless this is a first stage; the other  *)
(* turns receive the next gradient, or hand it over on the device.         *)
(***************************************************************************)
CooldownBackward(r) ==
  LET k        == BK(r)
      c        == BackwardChunk(r, k)
      grad     == IF IsFirstStage(r, c) THEN None ELSE InputGrad(r, c)
      final    == pc[r].k = NumWarmupMicrobatches(r) - UnitRemaining(r)
      nextFwd  == ForwardChunk(r, (pc[r].loop + 1) * 2 * P)
      nextBwd  == BackwardChunk(r, k + 1)
      recvFwd  == SendBackwardRecvForward(r, c, grad)
      recvBwd  == SendBackwardRecvBackwardBd(r, c, grad, ~IsFirstStage(r, c))
  IN  /\ InPhase(r, {"mid2"})
      /\ BackwardStepHelper(r, c, c, BkMicrobatchIdx[r][k])
      /\ inputTensors' = InputsPopped(r, c, c, << >>)
      /\ \/ /\ final /\ IsFirstStage(r, c)
            /\ outputTensorGrads' = GradsPopped(r, c, c, c, << >>)
            /\ UNCHANGED comm
         \/ /\ final /\ ~IsFirstStage(r, c)
            /\ outputTensorGrads' = GradsPopped(r, c, c, c, << >>)
            /\ Post(r, recvFwd, "in", nextFwd)
         \/ /\ ~final /\ HandedOverBackward(r, nextBwd)
            /\ outputTensorGrads' = GradsPopped(r, c, c, nextBwd, <<grad>>)
            /\ UNCHANGED comm
         \/ /\ ~final /\ ~HandedOverBackward(r, nextBwd)
            /\ outputTensorGrads' = GradsPopped(r, c, c, nextBwd, AtOnce(recvBwd))
            /\ Post(r, recvBwd, "grad", nextBwd)
      /\ Step(r)

(***************************************************************************)
(* A backward pass of the final cooldown.  The helper runs before          *)
(* set_virtual_pipeline_model_parallel_rank, so it sees the previous       *)
(* chunk's virtual rank.  The two or three last passes only send.          *)
(***************************************************************************)
FinalBackward(r) ==
  LET k    == BK(r)
      c    == BackwardChunk(r, k)
      next == BackwardChunk(r, k + 1)
      v    == vrank[r]
      grad == IF IsFirstStage(r, c) THEN None ELSE InputGrad(r, c)
      sendOnly == \/ k = TotalNumMicrobatches - 2 /\ next = Sync
                  \/ k \in {TotalNumMicrobatches - 1, TotalNumMicrobatches}
      sameChunk == k < TotalNumMicrobatches - 2 /\ c = next
      local == k < TotalNumMicrobatches - 2 /\ c # next /\ HandedOverBackward(r, next)
      op   == IF sendOnly THEN SendBackwardRecvBackward(r, c, grad, FALSE)
              ELSE IF sameChunk THEN SendBackwardRecvBackward(r, c, grad, TRUE)
              ELSE SendBackwardRecvBackwardBd(r, c, grad, ~IsFirstStage(r, c))
  IN  /\ InPhase(r, {"cooldown"}) /\ c # Sync
      /\ BackwardStepHelper(r, c, v, BkMicrobatchIdx[r][k])
      /\ inputTensors' = InputsPopped(r, c, c, << >>)
      /\ \/ /\ sendOnly
            /\ outputTensorGrads' = GradsPopped(r, c, v, c, << >>)
            /\ Post(r, op, "drop", 0)
         \/ /\ local
            /\ outputTensorGrads' = GradsPopped(r, c, v, next, <<grad>>)
            /\ UNCHANGED comm
         \/ /\ ~sendOnly /\ ~local
            /\ outputTensorGrads' = GradsPopped(r, c, v, next, AtOnce(op))
            /\ Post(r, op, "grad", next)
      /\ Step(r)

(***************************************************************************)
(* The synchronization markers.  A device all-reduces chunks 2 and 3 at    *)
(* the first marker and 0 and 1 at the second, in the order given by its   *)
(* half of the pipeline.  allreduce_gradients is a barrier and an          *)
(* all-reduce over the bidirectional group: it takes both members.         *)
(***************************************************************************)
AtSync(r) == InPhase(r, {"cooldown"}) /\ BackwardChunk(r, BK(r)) = Sync

SyncChunk_SameOrder(r) ==          \* mutant: both halves go through the chunks alike
  (IF BK(r) < TotalNumMicrobatches + 1 THEN 2 ELSE 0) + synced[r]

SyncChunk_Swapped(r) ==            \* mutant: chunks 0 and 1 at the first marker
  (IF BK(r) < TotalNumMicrobatches + 1 THEN 0 ELSE 2)
    + (IF r < Half THEN synced[r] ELSE 1 - synced[r])

SyncChunk_Upper(r) ==              \* mutant: chunks 2 and 3 at both markers
  2 + (IF r < Half THEN synced[r] ELSE 1 - synced[r])

SyncChunk(r) ==
  (IF BK(r) < TotalNumMicrobatches + 1 THEN 2 ELSE 0)
    + (IF r < Half THEN synced[r] ELSE 1 - synced[r])

AllReduceGradients(r) ==
  LET q   == BdPartner(r)
      c   == SyncChunk(r)
      d   == SyncChunk(q)
      sum == mainGrad[r][c] \cup mainGrad[q][d]
  IN  /\ r < q
      /\ AtSync(r) /\ synced[r] < 2
      /\ AtSync(q) /\ synced[q] < 2
      /\ mainGrad' = [mainGrad EXCEPT ![r][c] = sum, ![q][d] = sum]
      /\ reduced' = [reduced EXCEPT ![r][c] = reduced[r][c] + 1, ![q][d] = reduced[q][d] + 1]
      /\ synced' = [synced EXCEPT ![r] = synced[r] + 1, ![q] = synced[q] + 1]
      /\ UNCHANGED <<pc, vrank, lists, comm, fed, losses, synchronizedChunks>>

\* After both all-reduces; the first marker may be followed by a receive.
LeaveSync(r) ==
  LET next == IF BK(r) < TotalNumMicrobatches + 1 THEN BackwardChunk(r, BK(r) + 1) ELSE Sync
      op   == RecvBackward(r, vrank[r])
  IN  /\ AtSync(r) /\ synced[r] = 2
      /\ synced' = [synced EXCEPT ![r] = 0]
      /\ IF next = Sync
         THEN UNCHANGED <<comm, outputTensorGrads>>
         ELSE /\ outputTensorGrads' = Add(outputTensorGrads, r, next, AtOnce(op))
              /\ Post(r, op, "grad", next)
      /\ Step(r)
      /\ UNCHANGED <<vrank, inputTensors, outputTensors, results>>

\* The chunks not yet handed to grad_sync_func are handed to it now.
Finish(r) ==
  /\ InPhase(r, {"finish"})
  /\ synchronizedChunks' =
       IF GradSyncFunc THEN [synchronizedChunks EXCEPT ![r] = Chunks] ELSE synchronizedChunks
  /\ Step(r)
  /\ UNCHANGED <<vrank, lists, comm, synced, fed, losses, mainGrad, reduced>>

\* The network: a send posted by a meets the receive posted by b.
Transfer(a, b) ==
  /\ comm[a].to = b /\ comm[b].from = a
  /\ comm' = [r \in Ranks |->
                [comm[r] EXCEPT !.to     = IF r = a THEN Nobody ELSE @,
                                !.tensor = IF r = a THEN None ELSE @,
                                !.from   = IF r = b THEN Nobody ELSE @]]
  /\ inputTensors' = IF comm[b].box = "in"
                     THEN Add(inputTensors, b, comm[b].chunk, <<comm[a].tensor>>)
                     ELSE inputTensors
  /\ outputTensorGrads' = IF comm[b].box = "grad"
                          THEN Add(outputTensorGrads, b, comm[b].chunk, <<comm[a].tensor>>)
                          ELSE outputTensorGrads
  /\ UNCHANGED <<pc, vrank, outputTensors, synced, results>>

Done == \A r \in Ranks : pc[r].phase = "done" /\ Idle(r)

Terminated == Done /\ UNCHANGED vars

DeviceStep(r) ==
  \/ InitialRecv(r)
  \/ Warmup(r)
  \/ WarmupAgain(r)
  \/ ForwardPass(r)
  \/ BackwardPass(r)
  \/ CooldownBackward(r)
  \/ FinalBackward(r)
  \/ AllReduceGradients(r)
  \/ LeaveSync(r)
  \/ Finish(r)

Next ==
  \/ \E r \in Ranks : DeviceStep(r)
  \/ \E a, b \in Ranks : Transfer(a, b)
  \/ Terminated

Spec == Init /\ [][Next]_vars

\* req.wait() goes on while an operation is open, and the barrier while the other
\* member of the group is elsewhere, changing nothing: devices that wait for
\* each other do so for ever, which is what Termination excludes.
StillWaiting == (\E r \in Ranks : ~Idle(r) \/ AtSync(r)) /\ UNCHANGED vars

\* A device keeps executing its program, and a matched transfer completes.
FairSpec ==
  /\ Init /\ [][Next \/ StillWaiting]_vars
  /\ \A r \in Ranks : WF_vars(DeviceStep(r))
  /\ \A a, b \in Ranks : WF_vars(Transfer(a, b))
----------------------------------------------------------------------------
\* Microbatches of each of the two pipelines.
PerPipe == N \div 2

Tensor ==
  [kind : {"none", "act", "grad"}, pipe : {0, 1}, mb : Nat, stage : Nat]

PC == [phase : Phases, loop : 0 .. NLoop, k : Nat]

\* The type invariant of the schedule's state.
TypeOK ==
  /\ pc \in [Ranks -> PC]
  /\ \A r \in Ranks :
       /\ pc[r].k < PhaseLength(r, pc[r].phase)
       /\ pc[r].phase \in {"mid1", "mid2", "mid3", "mid4"} => pc[r].loop < NLoop
       /\ pc[r].phase \in {"last", "cooldown"} => pc[r].loop = NLoop
  /\ vrank \in [Ranks -> Chunks]
  /\ inputTensors      \in [Ranks -> [Chunks -> Seq(Tensor)]]
  /\ outputTensors     \in [Ranks -> [Chunks -> Seq(Tensor)]]
  /\ outputTensorGrads \in [Ranks -> [Chunks -> Seq(Tensor)]]
  /\ comm \in [Ranks -> [to : Ranks \cup {Nobody}, tensor : Tensor,
                         from : Ranks \cup {Nobody},
                         box : {"in", "grad", "drop"}, chunk : Chunks]]
  /\ fed \in [Ranks -> [Chunks -> Nat]]
  /\ losses \in [Ranks -> Seq(Nat \X Nat)]
  /\ mainGrad \in [Ranks -> [Chunks -> SUBSET ({0, 1} \X Nat)]]
  /\ synced \in [Ranks -> 0 .. 2]
  /\ reduced \in [Ranks -> [Chunks -> Nat]]
  /\ synchronizedChunks \in [Ranks -> SUBSET Chunks]

ForwardNext(r) ==
  \/ InPhase(r, {"warmup", "mid4"})
  \/ InPhase(r, {"mid1", "mid3", "last"}) /\ pc[r].k % 2 = 0

BackwardNext(r) ==
  \/ InPhase(r, {"mid2"})
  \/ InPhase(r, {"mid1", "mid3", "last"}) /\ pc[r].k % 2 = 1
  \/ InPhase(r, {"cooldown"}) /\ BackwardChunk(r, BK(r)) # Sync

\* The gradients a backward pass will find, under the virtual rank it will see.
GradsFound(r, c) ==
  PaddedGrads(r, c, IF pc[r].phase = "cooldown" THEN vrank[r] ELSE c)

\* How many backward passes of chunk c device r has run.
Backwarded(r, c) == fed[r][c] - Len(outputTensors[r][c])

\* A device that is about to compute finds what it needs in its lists: no
\* input_tensors[c][-1], input_tensors[c].pop(0), output_tensors[c].pop(0) or
\* output_tensor_grads[c].pop(0) is ever evaluated on an empty list.
NoIndexError ==
  \A r \in Ranks :
    /\ ForwardNext(r) => PaddedInputs(r, ForwardChunk(r, FK(r))) # << >>
    /\ BackwardNext(r) =>
         LET c == BackwardChunk(r, BK(r))
         IN  /\ inputTensors[r][c] # << >>
             /\ outputTensors[r][c] # << >>
             /\ GradsFound(r, c) # << >>

\* A forward pass runs on the activation of the very microbatch its data
\* iterator is at, of the chunk's own pipeline, coming out of the stage just
\* before; only the two first stages run without an input.  Untagged messages
\* between the same two devices carry both pipelines: nothing but the order
\* of the schedule keeps them apart.
RightActivation ==
  \A r \in Ranks : ForwardNext(r) =>
    LET c == ForwardChunk(r, FK(r))
    IN  LastInput(r, c) = IF IsFirstStage(r, c) THEN None
                          ELSE Act(Pipe(c), fed[r][c], StageOf(r, c))

\* A backward pass pairs an input, an output and an output gradient that
\* belong to the same microbatch and to this device's place in the pipeline.
RightGradient ==
  \A r \in Ranks : BackwardNext(r) =>
    LET c == BackwardChunk(r, BK(r))
        i == Backwarded(r, c)
        s == StageOf(r, c)
    IN  /\ Head(outputTensors[r][c]) = Act(Pipe(c), i, s + 1)
        /\ Head(inputTensors[r][c]) =
             IF IsFirstStage(r, c) THEN None ELSE Act(Pipe(c), i, s)
        /\ Head(GradsFound(r, c)) =
             IF IsLastStage(r, c) THEN None ELSE Grad(Pipe(c), i, s + 1)

\* No tensor is missing or taken for another: every pass of every device finds
\* the tensors of its own microbatch and stage.
RightTensor == NoIndexError /\ RightActivation /\ RightGradient

\* The activations a device keeps for its backward passes never exceed what
\* the warmup of a 1F1B schedule needs, however many microbatches there are.
ActivationsBounded ==
  ForwardOnly \/
  \A r \in Ranks :
    Len(outputTensors[r][0]) + Len(outputTensors[r][1])
      + Len(outputTensors[r][2]) + Len(outputTensors[r][3])
    <= NumWarmupMicrobatches(r) + 1

\* At the end every list is empty again: no tensor was received and not used,
\* and no activation is left without its backward pass.
NothingLeft ==
  Done /\ ~ForwardOnly =>
    \A r \in Ranks, c \in Chunks :
      /\ inputTensors[r][c] = << >>
      /\ outputTensors[r][c] = << >>
      /\ outputTensorGrads[r][c] = << >>

\* Lists neither grow beyond the warmup nor keep anything for the next step.
StorageBounded == ActivationsBounded /\ NothingLeft

\* At the end the first and the last device, and only they, have the loss of
\* every microbatch of their pipeline, once, each computed with the labels of
\* that same microbatch.
LossOfEveryMicrobatch ==
  Done => \A r \in Ranks :
    losses[r] = IF r \in {0, P - 1} THEN [i \in 1 .. PerPipe |-> <<i - 1, i - 1>>]
                                    ELSE << >>

\* At the end every chunk has been all-reduced exactly once and its gradient
\* holds every microbatch of both pipelines.
GradientsComplete ==
  Done /\ ~ForwardOnly =>
    \A r \in Ranks, c \in Chunks :
      /\ reduced[r][c] = 1
      /\ mainGrad[r][c] = {0, 1} \X (0 .. PerPipe - 1)

\* What a step leaves behind: all gradients and all losses, each once.
StepComplete == GradientsComplete /\ LossOfEveryMicrobatch

\* When the two members of a bidirectional group meet in an all-reduce, they
\* have called it for the replicas of the same layers.
SameLayersReduced ==
  \A r \in Ranks :
    LET q == BdPartner(r)
    IN  AtSync(r) /\ AtSync(q) /\ synced[r] < 2 /\ synced[q] < 2
        => StageOf(r, SyncChunk(r)) = StageOf(q, SyncChunk(q))

\* A chunk is handed to grad_sync_func (or gets its synchronized backward)
\* only when the last backward pass of the chunk is done.
SynchronizedWhenComplete ==
  [][\A r \in Ranks, c \in Chunks :
       c \in synchronizedChunks'[r] \ synchronizedChunks[r]
         => Backwarded(r, c)' = IF ForwardOnly THEN 0 ELSE PerPipe]_vars

\* Every device gets to the end of its program.
Termination == <>Done

----------------------------------------------------------------------------
\* Where stage s of pipeline p is.
DeviceOf(p, s) == CHOOSE r \in Ranks : \E c \in Chunks : Pipe(c) = p /\ StageOf(r, c) = s
ChunkOf(p, s)  == CHOOSE c \in Chunks : \E r \in Ranks : Pipe(c) = p /\ StageOf(r, c) = s

Flow == INSTANCE PipelineFlow WITH
          S <- 2 * P,
          M <- PerPipe,
          forwards <- [p \in {0, 1} |-> [s \in Stages |-> fed[DeviceOf(p, s)][ChunkOf(p, s)]]],
          backwards <- [p \in {0, 1} |-> [s \in Stages |->
                                            Backwarded(DeviceOf(p, s), ChunkOf(p, s))]],
          averaged <- {s \in Stages : reduced[DeviceOf(0, s)][ChunkOf(0, s)] > 0}

ASSUME FlowInstance == Flow!FlowAssumption

\* The schedule implements the abstract pipeline: stages in order, microbatches
\* in order, gradients averaged after the batch.
ImplementsFlow == Flow!Spec
=============================================================================
