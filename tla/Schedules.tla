------------------------------ MODULE Schedules ------------------------------
(***************************************************************************)
(* The schedules of one pipeline that get_forward_backward_func returns    *)
(* when BitPipe is not enabled                                             *)
(* (megatron/core/pipeline_parallel/schedules.py): no pipelining, 1F1B,    *)
(* and interleaved 1F1B, on the P devices of a pipeline group, over the    *)
(* point-to-point calls of p2p_communication.py.                           *)
(*                                                                         *)
(* Which schedule runs and how is the record `config`, chosen at the start *)
(* and kept.  place[r] is the loop and turn device r is in; a turn that    *)
(* waits in its middle is split there.  dev[r] is what the device holds.   *)
(***************************************************************************)
EXTENDS Integers, Sequences, FiniteSets, SequencesExt

CONSTANT Configs
  \* P: devices; V: model chunks of a device, 0 if not interleaved;
  \* M: num_microbatches; forwardOnly; overlap: overlap_p2p_comm;
  \* batched: batch_p2p_comm; sync: who suppresses and launches the reduction
  \* of gradients: "none" (local DDP), "torchDDP", or "custom"
  \* (no_sync_func, grad_sync_func and param_sync_func of the config);
  \* variable: variable_seq_lengths;
  \* partial: num_microbatches_with_partial_activation_checkpoints, -1 if None

\* What the functions raise or assert on, and virtual pipelines of 2 devices,
\* which initialize_model_parallel refuses.
Accepted(c) ==
  /\ c.overlap => c.V > 0 /\ ~c.batched
  /\ c.V > 0 => c.V > 1 /\ c.P > 2 /\ c.M % c.P = 0
  /\ c.M > 0

ASSUME ConfigsAssumption ==
  /\ Configs \subseteq [P : Nat \ {0}, V : Nat, M : Nat, forwardOnly : BOOLEAN,
                        overlap : BOOLEAN, batched : BOOLEAN, variable : BOOLEAN,
                        sync : {"none", "torchDDP", "custom"}, partial : Int]
  /\ \A c \in Configs : Accepted(c)

VARIABLES config, place, dev, ops
vars == <<config, place, dev, ops>>

P == config.P
V == config.V
M == config.M

Ranks  == 0 .. P - 1
NumModelChunks == IF V = 0 THEN 1 ELSE V
Chunks == 0 .. NumModelChunks - 1
Total  == M * NumModelChunks          \* total_num_microbatches

NextRank(r) == (r + 1) % P
PrevRank(r) == (r - 1) % P
OnFirstDevice(r) == r = 0             \* is_pipeline_first_stage(ignore_virtual=True)
OnLastDevice(r)  == r = P - 1
IsFirstStage(r, c) == r = 0 /\ c = 0
IsLastStage(r, c)  == r = P - 1 /\ c = NumModelChunks - 1

\* The position of chunk c of device r in the model.
Stage(r, c) == c * P + r

----------------------------------------------------------------------------
(***************************************************************************)
(* Tensors: the activation leaving a stage for a microbatch, or the        *)
(* gradient entering it from behind.  Wrong is what a pass computes from   *)
(* anything but its own input.                                             *)
(***************************************************************************)
None  == [kind |-> "none", mb |-> -1, stage |-> -1]
Wrong == [kind |-> "wrong", mb |-> -1, stage |-> -1]
Act(i, s)  == [kind |-> "act", mb |-> i, stage |-> s]
Grad(i, s) == [kind |-> "grad", mb |-> i, stage |-> s]

(***************************************************************************)
(* The order of the passes.  Microbatches go through the chunks in groups  *)
(* of P.                                                                   *)
(***************************************************************************)
GetModelChunkId(k, forward) ==
  LET c == (k % (P * NumModelChunks)) \div P
  IN  IF forward THEN c ELSE NumModelChunks - c - 1

LastGroup(k) == k \div (P * NumModelChunks) = Total \div (P * NumModelChunks) - 1

IsFirstMicrobatchForModelChunk(k) == k < P * NumModelChunks /\ k % P = 0

IsLastMicrobatchForModelChunk_Group(k) ==    \* mutant: in every group
  k % P = P - 1

IsLastMicrobatchForModelChunk(k) == LastGroup(k) /\ k % P = P - 1

SmallerOf(x, y) == IF x < y THEN x ELSE y

AllWarmup == V > 0 /\ ~config.forwardOnly /\ M = P

NumWarmup(r) ==
  CASE V = 0 -> SmallerOf(P - r - 1, M)
    [] V > 0 /\ (config.forwardOnly \/ AllWarmup) -> Total
    [] OTHER -> SmallerOf((P - r - 1) * 2 + (V - 1) * P, Total)

Remaining(r) == Total - NumWarmup(r)

CheckpointMicrobatch_OneMore(r, k) ==        \* mutant: > for >=
  config.partial >= 0 /\ k % (NumWarmup(r) + 1) > config.partial

\* checkpoint_activations_microbatch: recompute all layers of this microbatch.
CheckpointMicrobatch(r, k) ==
  config.partial >= 0 /\ k % (NumWarmup(r) + 1) >= config.partial

----------------------------------------------------------------------------
(***************************************************************************)
(* The passes, as functions of what a device holds.  forward_step reads    *)
(* the last of the chunk's inputs and the next sample of its iterator.     *)
(***************************************************************************)
Idle(r) ==
  [inputs  |-> [c \in Chunks |-> << >>],   \* input_tensors
   outputs |-> [c \in Chunks |-> << >>],   \* output_tensors
   grads   |-> [c \in Chunks |-> << >>],   \* output_tensor_grads
   computed |-> None,                      \* output_tensor
   inputGrad |-> None,                     \* input_tensor_grad
   fed     |-> [c \in Chunks |-> 0],       \* data_iterator[c]: samples read
   summed  |-> [c \in Chunks |-> 0],       \* microbatches in the chunk's gradient
   reduced |-> [c \in Chunks |-> << >>],   \* `summed` at each reduction of it
   params  |-> {c \in Chunks : c < 2},     \* chunks param_sync_func was called for
   noSync  |-> config.sync # "none",       \* inside no_sync_context
   losses  |-> << >>]                      \* forward_data_store

\* Taking from an empty list raises: what is computed with it is Wrong.
Newest(s) == IF s = << >> THEN Wrong ELSE Last(s)
Oldest(s) == IF s = << >> THEN Wrong ELSE Head(s)
Popped(s) == IF s = << >> THEN s ELSE Tail(s)

StoreLoss_LastDevice(d, r, c, out) ==        \* mutant: asks for the last device only
  IF OnLastDevice(r) THEN Append(d.losses, out) ELSE d.losses

StoreLoss(d, r, c, out) == IF IsLastStage(r, c) THEN Append(d.losses, out) ELSE d.losses

ForwardStep(d, r, c, full) ==
  LET input == Newest(d.inputs[c])
      i     == d.fed[c]
      right == input = IF IsFirstStage(r, c) THEN None ELSE Act(i, Stage(r, c) - 1)
      out   == IF right THEN Act(i, Stage(r, c)) ELSE Wrong
  IN  [d EXCEPT !.computed = out,
                !.fed[c] = @ + 1,
                !.outputs[c] = Append(@, [tensor |-> out, full |-> full]),
                !.losses = StoreLoss(d, r, c, out)]

\* What the chunk's gradient is worth when it is reduced, by the hooks of a
\* backward pass outside of no_sync or by grad_sync_func.
Reduce(d, c) == [d EXCEPT !.reduced[c] = Append(@, d.summed[c])]

\* backward_step, with the heads of the lists; the hooks reduce unless told not.
BackwardStep(d, r, c) ==
  LET out   == IF d.outputs[c] = << >> THEN Wrong ELSE Head(d.outputs[c]).tensor
      right == Oldest(d.grads[c]) =
                 IF IsLastStage(r, c) THEN None ELSE Grad(out.mb, Stage(r, c) + 1)
      e     == [d EXCEPT !.inputs[c] = Popped(@), !.outputs[c] = Popped(@),
                         !.grads[c] = Popped(@),
                         !.summed[c] = @ + 1,
                         !.inputGrad = IF ~right THEN Wrong
                                       ELSE IF IsFirstStage(r, c) THEN None
                                       ELSE Grad(out.mb, Stage(r, c))]
  IN  IF config.sync # "none" /\ ~d.noSync THEN Reduce(e, c) ELSE e

\* The chunk the parameters of which are launched before the pass number k.
ParamSync(d, r, k) ==
  LET c == GetModelChunkId(k + r, TRUE) + 1
  IN  IF /\ config.sync = "custom" /\ k + r < Total
         /\ IsFirstMicrobatchForModelChunk(k + r)
         /\ 1 < c /\ c < V
      THEN [d EXCEPT !.params = @ \cup {c}] ELSE d

PaddedInputs(d, r, c) ==
  IF IsFirstStage(r, c) /\ Len(d.inputs[c]) = Len(d.outputs[c])
  THEN [d EXCEPT !.inputs[c] = Append(@, None)] ELSE d

Kept_Always(d, c) == d                       \* mutant: forward_only is not asked

\* Only for a backward pass are the two tensors kept.
Kept(d, c) ==
  IF config.forwardOnly
  THEN [d EXCEPT !.inputs[c] = Front(@), !.outputs[c] = << >>] ELSE d

ForwardStepHelper(d, r, k) ==
  LET c == GetModelChunkId(k, TRUE)
  IN  Kept(ForwardStep(PaddedInputs(ParamSync(d, r, k), r, c), r, c,
                       CheckpointMicrobatch(r, k)), c)

PaddedGrads(d, r, c) ==
  IF IsLastStage(r, c) /\ d.grads[c] = << >>
  THEN [d EXCEPT !.grads[c] = <<None>>] ELSE d

\* grad_sync_func is called for all devices of the pipeline at the same time:
\* device r asks for the pass that many turns ago.
GradSync(d, r, k) ==
  LET c == GetModelChunkId(k - r, FALSE)
  IN  IF k - r >= 0 /\ IsLastMicrobatchForModelChunk(k - r) THEN Reduce(d, c) ELSE d

BackwardStepHelper(d, r, k) ==
  LET c     == GetModelChunkId(k, FALSE)
      begin == IF config.sync = "torchDDP" /\ IsLastMicrobatchForModelChunk(k)
               THEN [d EXCEPT !.noSync = FALSE] ELSE d
      pass  == BackwardStep(PaddedGrads(begin, r, c), r, c)
      end   == IF config.sync = "custom" THEN GradSync(pass, r, k) ELSE pass
  IN  [end EXCEPT !.noSync = config.sync # "none"]

----------------------------------------------------------------------------
(***************************************************************************)
(* p2p_communication.  A call posts up to four operations.  batch_isend_   *)
(* irecv lets them complete in any order; without it a device issues them  *)
(* one by one, on one stream, in an order that depends on the parity of    *)
(* the rank.  What is received goes to the list `box` of chunk `chunk`.    *)
(* Requests carry the name of the call whose caller waits for them.        *)
(***************************************************************************)
Shape == [kind |-> "shape", mb |-> -1, stage |-> -1]

Send(q, t, call) == [op |-> "send", peer |-> q, tensor |-> t, box |-> "none",
                     chunk |-> 0, call |-> call]
Recv(q, box, c, call) == [op |-> "recv", peer |-> q, tensor |-> None, box |-> box,
                          chunk |-> c, call |-> call]

\* An operation that is not needed is left out.
If(needed, o) == IF needed THEN <<o>> ELSE << >>

P2POps_Alike(r, sendPrev, recvPrev, sendNext, recvNext) ==   \* mutant: without the parity
  sendNext \o recvPrev \o sendPrev \o recvNext

P2POps(r, sendPrev, recvPrev, sendNext, recvNext) ==
  IF r % 2 = 0 THEN sendNext \o recvPrev \o sendPrev \o recvNext
               ELSE recvPrev \o sendNext \o recvNext \o sendPrev

\* _communicate: the tensors to send (None: nothing to send) and the chunks
\* to receive for (-1: nothing to receive).  With variable_seq_lengths the
\* shapes are exchanged first, always as a batch, and always waited for.
Operations(r, sendNext, sendPrev, prevFor, nextFor, call) ==
  LET toPrev == sendPrev # None
      toNext == sendNext # None
      fromPrev == prevFor >= 0
      fromNext == nextFor >= 0
      sp == If(toPrev, Send(PrevRank(r), sendPrev, call))
      rp == If(fromPrev, Recv(PrevRank(r), "inputs", prevFor, call))
      sn == If(toNext, Send(NextRank(r), sendNext, call))
      rn == If(fromNext, Recv(NextRank(r), "grads", nextFor, call))
      shapes == If(toPrev, Send(PrevRank(r), Shape, "shapes"))
             \o If(fromPrev, Recv(PrevRank(r), "shape", 0, "shapes"))
             \o If(toNext, Send(NextRank(r), Shape, "shapes"))
             \o If(fromNext, Recv(NextRank(r), "shape", 0, "shapes"))
  IN  (IF config.variable THEN shapes ELSE << >>)
        \o IF config.batched THEN sp \o rp \o sn \o rn ELSE P2POps(r, sp, rp, sn, rn)

Communicate(r, sendNext, sendPrev, prevFor, nextFor, call) ==
  ops' = [ops EXCEPT ![r] = @ \o Operations(r, sendNext, sendPrev, prevFor, nextFor, call)]

Silent == UNCHANGED ops

\* The calls of the 1F1B schedule do nothing at the ends of the pipeline, where
\* the received tensor is None.
CommunicateNext(r, t, recv) ==
  IF OnLastDevice(r) THEN Silent ELSE Communicate(r, t, None, -1, IF recv THEN 0 ELSE -1, "wait")

CommunicatePrev(r, t, recv) ==
  IF OnFirstDevice(r) THEN Silent ELSE Communicate(r, None, t, IF recv THEN 0 ELSE -1, -1, "wait")

GotInput(d, r) == IF OnFirstDevice(r) THEN [d EXCEPT !.inputs[0] = Append(@, None)] ELSE d
GotGrad(d, r)  == IF OnLastDevice(r) THEN [d EXCEPT !.grads[0] = Append(@, None)] ELSE d

\* Operation i can complete: those before it belong to the same batch, and none
\* of them is of the same kind for the same peer.
Batch(o) == config.batched \/ o.call = "shapes"

CanComplete(s, i, kind, q) ==
  /\ s[i].op = kind /\ s[i].peer = q
  /\ \A j \in 1 .. i - 1 :
       /\ Batch(s[i]) /\ s[j].call = s[i].call
       /\ ~(s[j].op = kind /\ s[j].peer = q)

Deliver(d, o, t) ==
  CASE o.box = "inputs" -> [d EXCEPT !.inputs[o.chunk] = Append(@, t)]
    [] o.box = "grads"  -> [d EXCEPT !.grads[o.chunk] = Append(@, t)]
    [] OTHER            -> d

Transfer ==
  \E q, r \in Ranks : \E i \in DOMAIN ops[q], j \in DOMAIN ops[r] :
    /\ CanComplete(ops[q], i, "send", r) /\ CanComplete(ops[r], j, "recv", q)
    /\ dev' = [dev EXCEPT ![r] = Deliver(@, ops[r][j], ops[q][i].tensor)]
    /\ ops' = [ops EXCEPT ![q] = RemoveAt(@, i), ![r] = RemoveAt(@, j)]
    /\ UNCHANGED <<config, place>>

WaitedFor_Nothing(r, calls) ==     \* mutant: the handles are not waited for
  \A i \in DOMAIN ops[r] : ops[r][i].call \notin {"wait", "shapes"}

\* req.wait() for the requests of these calls.
WaitedFor(r, calls) == \A i \in DOMAIN ops[r] : ops[r][i].call \notin calls

----------------------------------------------------------------------------
(***************************************************************************)
(* The program of a device: its loops in order, and their turns.           *)
(***************************************************************************)
Loops ==
  CASE P = 1 -> <<"plain", "done">>
    [] P > 1 /\ V = 0 -> <<"warmup", "first", "steady", "cooldown", "finish", "done">>
    [] OTHER -> <<"first", "warmup", "steady", "flush", "cooldown", "finish", "done">>

Turns(r, loop) ==
  CASE loop = "plain"    -> M
    [] loop = "warmup"   -> NumWarmup(r)
    [] loop = "first"    -> IF V > 0 \/ Remaining(r) > 0 THEN 1 ELSE 0
    [] loop = "steady"   -> Remaining(r)
    [] loop = "flush"    -> IF AllWarmup THEN 1 ELSE 0
    [] loop = "cooldown" -> IF config.forwardOnly THEN 0 ELSE NumWarmup(r)
    [] OTHER             -> 1

\* The first loop from number n on that has a turn.
LoopFrom(r, n) ==
  LET m == CHOOSE i \in n .. Len(Loops) :
             Turns(r, Loops[i]) > 0 /\ \A j \in n .. i - 1 : Turns(r, Loops[j]) = 0
  IN  [loop |-> m, k |-> 0, half |-> 0]

Following(r) ==
  IF place[r].k + 1 < Turns(r, Loops[place[r].loop])
  THEN [place[r] EXCEPT !.k = @ + 1, !.half = 0] ELSE LoopFrom(r, place[r].loop + 1)

Init ==
  /\ config \in Configs
  /\ place = [r \in Ranks |-> LoopFrom(r, 1)]
  /\ dev = [r \in Ranks |-> Idle(r)]
  /\ ops = [r \in Ranks |-> << >>]

In(r, loop, half) ==
  Loops[place[r].loop] = loop /\ place[r].half = half /\ WaitedFor(r, {"wait", "shapes"})

K(r) == place[r].k

Becomes(r, d) == dev' = [dev EXCEPT ![r] = d] /\ UNCHANGED config
Turn(r) == place' = [place EXCEPT ![r] = Following(r)]
HalfTurn(r) == place' = [place EXCEPT ![r].half = @ + 1]

----------------------------------------------------------------------------
\* forward_backward_no_pipelining: the last microbatch runs outside of no_sync.
Plain(r) ==
  LET lastOne == K(r) = M - 1
      input   == [dev[r] EXCEPT !.inputs[0] = Append(@, None), !.grads[0] = <<None>>,
                                !.noSync = @ /\ ~lastOne]
      forward == Kept(ForwardStep(input, r, 0, FALSE), 0)
  IN  /\ In(r, "plain", 0)
      /\ Becomes(r, IF config.forwardOnly THEN forward ELSE BackwardStep(forward, r, 0))
      /\ Turn(r)
      /\ Silent

(***************************************************************************)
(* forward_backward_pipelining_without_interleaving.                       *)
(***************************************************************************)
OneF1B == P > 1 /\ V = 0

RecvForward(r) ==
  /\ OneF1B
  /\ \/ In(r, "warmup", 0) /\ HalfTurn(r)
     \/ In(r, "first", 0) /\ Turn(r)
     \/ In(r, "steady", 1) /\ config.forwardOnly /\ Turn(r)
  /\ Becomes(r, GotInput(dev[r], r))
  /\ CommunicatePrev(r, None, TRUE)

WarmupForward(r) ==
  LET d == Kept(ForwardStep(dev[r], r, 0, CheckpointMicrobatch(r, K(r))), 0)
  IN  /\ OneF1B /\ In(r, "warmup", 1)
      /\ Becomes(r, d)
      /\ CommunicateNext(r, d.computed, FALSE)
      /\ Turn(r)

SteadyForward(r) ==
  LET lastOne == K(r) = Remaining(r) - 1
      full == CheckpointMicrobatch(r, K(r) + NumWarmup(r))
      d == Kept(ForwardStep(dev[r], r, 0, full), 0)
  IN  /\ OneF1B /\ In(r, "steady", 0)
      /\ Becomes(r, IF config.forwardOnly THEN d ELSE GotGrad(d, r))
      /\ CommunicateNext(r, d.computed, ~config.forwardOnly)
      /\ IF config.forwardOnly /\ lastOne THEN Turn(r) ELSE HalfTurn(r)

SteadyBackward(r) ==
  LET lastOne == K(r) = Remaining(r) - 1
      d == BackwardStep(dev[r], r, 0)
  IN  /\ OneF1B /\ In(r, "steady", 1) /\ ~config.forwardOnly
      /\ Becomes(r, IF lastOne THEN d ELSE GotInput(d, r))
      /\ CommunicatePrev(r, d.inputGrad, ~lastOne)
      /\ Turn(r)

\* Reduction is enabled before the last backward pass of the cooldown; with a
\* grad_sync_func on the first device only, the others reduce at the end.
CooldownRecv(r) ==
  LET enable == K(r) = NumWarmup(r) - 1 /\ (config.sync # "custom" \/ r = 0)
  IN  /\ OneF1B /\ In(r, "cooldown", 0)
      /\ Becomes(r, GotGrad([dev[r] EXCEPT !.noSync = @ /\ ~enable], r))
      /\ CommunicateNext(r, None, TRUE)
      /\ HalfTurn(r)

CooldownBackward(r) ==
  LET d == BackwardStep(dev[r], r, 0)
  IN  /\ OneF1B /\ In(r, "cooldown", 1)
      /\ Becomes(r, d)
      /\ CommunicatePrev(r, d.inputGrad, FALSE)
      /\ Turn(r)

\* "Launch any remaining grad reductions".
Finish(r) ==
  LET d == dev[r]
  IN  /\ OneF1B /\ In(r, "finish", 0)
      /\ Becomes(r, IF config.sync = "custom" /\ d.noSync THEN Reduce(d, 0) ELSE d)
      /\ Turn(r)
      /\ Silent

----------------------------------------------------------------------------
(***************************************************************************)
(* forward_backward_pipelining_with_interleaving.                          *)
(***************************************************************************)
Interleaved == V > 0

\* What is sent of an output: nothing at the last stage.
ToNext(r, c, d) == IF IsLastStage(r, c) THEN None ELSE d.computed

\* A list gets None at once when nothing is to be received for it.
NoInput(d, c) == [d EXCEPT !.inputs[c] = Append(@, None)]
NoGrad(d, c)  == [d EXCEPT !.grads[c] = Append(@, None)]

InterleavedFirst(r) ==
  /\ Interleaved /\ In(r, "first", 0)
  /\ Becomes(r, IF OnFirstDevice(r) THEN NoInput(dev[r], 0) ELSE dev[r])
  /\ IF OnFirstDevice(r) THEN Silent ELSE Communicate(r, None, None, 0, -1, "wait")
  /\ Turn(r)

\* The last turn also asks for the first gradient; with overlap_p2p_comm by a
\* call of its own, and neither call is waited for.
InterleavedWarmup(r) ==
  LET k    == K(r)
      c    == GetModelChunkId(k, TRUE)
      next == GetModelChunkId(k + 1, TRUE)
      d    == ForwardStepHelper(dev[r], r, k)
      recvPrev == ~(OnFirstDevice(r) /\ next = 0) /\ k # Total - 1
      ahead    == k = NumWarmup(r) - 1 /\ ~config.forwardOnly /\ ~AllWarmup
      e == IF recvPrev THEN d ELSE NoInput(d, next)
      gradFor == IF ahead /\ ~OnLastDevice(r) THEN V - 1 ELSE -1
      inputFor == IF recvPrev THEN next ELSE -1
  IN  /\ Interleaved /\ In(r, "warmup", 0) /\ WaitedFor(r, {"forward"})
      /\ Becomes(r, IF ahead /\ OnLastDevice(r) THEN NoGrad(e, V - 1) ELSE e)
      /\ IF config.overlap
         THEN ops' = [ops EXCEPT ![r] = @
                        \o Operations(r, ToNext(r, c, d), None, inputFor, -1, "forward")
                        \o Operations(r, None, None, -1, gradFor, "backward")]
         ELSE Communicate(r, ToNext(r, c, d), None, inputFor, gradFor, "wait")
      /\ Turn(r)

\* For which chunk the next input and the next gradient are in the steady
\* state; -1 when the neighbour sends none.  The first device is P - 1 turns
\* ahead of the last one, which feeds it, and the last one of the first.
NextInputFor(r, k) ==
  LET fk == k + NumWarmup(r)
      c  == IF OnFirstDevice(r) THEN GetModelChunkId(fk - (P - 1), TRUE) + 1
                                ELSE GetModelChunkId(fk + 1, TRUE)
  IN  IF k = Remaining(r) - 1 \/ c = V THEN -1 ELSE c

NextGradFor(r, k) ==
  IF OnLastDevice(r) THEN GetModelChunkId(k - (P - 1), FALSE) - 1
                     ELSE GetModelChunkId(k + 1, FALSE)

\* Without overlap: both passes, then one exchange with both neighbours.
InterleavedSteady(r) ==
  LET k  == K(r)
      fk == k + NumWarmup(r)
      d  == ForwardStepHelper(dev[r], r, fk)
      e  == BackwardStepHelper(d, r, k)
  IN  /\ Interleaved /\ ~config.overlap /\ In(r, "steady", 0)
      /\ Becomes(r, e)
      /\ Communicate(r, ToNext(r, GetModelChunkId(fk, TRUE), d), e.inputGrad,
                     NextInputFor(r, k), NextGradFor(r, k), "wait")
      /\ Turn(r)

\* With overlap: each pass waits for the tensors of its own direction only.
OverlapForward(r) ==
  LET k  == K(r)
      fk == k + NumWarmup(r)
      d  == ForwardStepHelper(dev[r], r, fk)
  IN  /\ Interleaved /\ config.overlap /\ In(r, "steady", 0) /\ WaitedFor(r, {"forward"})
      /\ Becomes(r, d)
      /\ Communicate(r, ToNext(r, GetModelChunkId(fk, TRUE), d), None,
                     NextInputFor(r, k), -1, "forward")
      /\ HalfTurn(r)

OverlapBackward(r) ==
  LET d == BackwardStepHelper(dev[r], r, K(r))
  IN  /\ Interleaved /\ config.overlap /\ In(r, "steady", 1) /\ WaitedFor(r, {"backward"})
      /\ Becomes(r, d)
      /\ Communicate(r, None, d.inputGrad, -1, NextGradFor(r, K(r)), "backward")
      /\ Turn(r)

InterleavedFlush(r) ==
  /\ Interleaved /\ In(r, "flush", 0)
  /\ Becomes(r, IF OnLastDevice(r) THEN NoGrad(dev[r], V - 1) ELSE dev[r])
  /\ IF OnLastDevice(r) THEN Silent ELSE Communicate(r, None, None, -1, V - 1, "wait")
  /\ Turn(r)

InterleavedCooldown(r) ==
  LET k    == Remaining(r) + K(r)
      next == GetModelChunkId(k + 1, FALSE)
      d    == BackwardStepHelper(dev[r], r, k)
      recvNext == ~(OnLastDevice(r) /\ next = V - 1) /\ k # Total - 1
  IN  /\ Interleaved /\ In(r, "cooldown", 0) /\ WaitedFor(r, {"backward"})
      /\ Becomes(r, IF recvNext THEN d ELSE NoGrad(d, next))
      /\ Communicate(r, None, d.inputGrad, -1, IF recvNext THEN next ELSE -1, "wait")
      /\ Turn(r)

\* The chunks grad_sync_func was not called for yet.
InterleavedFinish(r) ==
  LET d == dev[r]
  IN  /\ Interleaved /\ In(r, "finish", 0)
      /\ Becomes(r, IF config.sync # "custom" THEN d
                    ELSE [d EXCEPT !.reduced = [c \in Chunks |->
                            IF d.reduced[c] = << >> THEN <<d.summed[c]>> ELSE d.reduced[c]]])
      /\ Turn(r)
      /\ Silent

----------------------------------------------------------------------------
Step(r) ==
  \/ Plain(r)
  \/ RecvForward(r) \/ WarmupForward(r) \/ SteadyForward(r) \/ SteadyBackward(r)
  \/ CooldownRecv(r) \/ CooldownBackward(r) \/ Finish(r)
  \/ InterleavedFirst(r) \/ InterleavedWarmup(r) \/ InterleavedSteady(r)
  \/ OverlapForward(r) \/ OverlapBackward(r)
  \/ InterleavedFlush(r) \/ InterleavedCooldown(r) \/ InterleavedFinish(r)

Done(r) == Loops[place[r].loop] = "done" /\ ops[r] = << >>

AllDone == \A r \in Ranks : Done(r)

Next ==
  \/ Transfer
  \/ \E r \in Ranks : Step(r)
  \/ AllDone /\ UNCHANGED vars

Spec == Init /\ [][Next]_vars

\* req.wait() goes on while an operation is open, changing nothing: calls that
\* match none of the neighbour's are waited for for ever.
StillWaiting == (\E r \in Ranks : ops[r] # << >>) /\ UNCHANGED vars

\* Devices and links do not stop while they have something to do.
FairSpec ==
  /\ Init /\ [][Next \/ StillWaiting]_vars
  /\ WF_vars(Transfer \/ \E r \in Ranks : Step(r))

----------------------------------------------------------------------------
Tensors == {None} \cup [kind : {"act", "grad"}, mb : 0 .. M - 1, stage : 0 .. P * NumModelChunks - 1]

\* The type invariant.  Its content: no tensor is Wrong, that is, every pass of
\* every device computes from the activation or gradient of its own microbatch
\* and stage, although messages carry no tag; and no loop runs over its end.
TypeOK ==
  \A r \in Ranks :
    /\ place[r].loop \in DOMAIN Loops /\ place[r].half \in {0, 1}
    /\ place[r].k \in 0 .. Turns(r, Loops[place[r].loop]) - 1
    /\ dev[r].computed \in Tensors /\ dev[r].inputGrad \in Tensors
    /\ \A c \in Chunks :
         /\ \A t \in Range(dev[r].inputs[c]) \cup Range(dev[r].grads[c]) : t \in Tensors
         /\ \A o \in Range(dev[r].outputs[c]) : o \in [tensor : Tensors, full : BOOLEAN]
         /\ dev[r].fed[c] \in 0 .. M /\ dev[r].summed[c] \in 0 .. M

\* The activations device r keeps, each as its chunk and its place in the list.
Outstanding(r) == {o \in Chunks \X (1 .. M) : o[2] \in DOMAIN dev[r].outputs[o[1]]}

\* "the maximum outstanding micro-batch backpropagations" (comment of the
\* schedules) is the number of warmup passes plus one; forward-only runs keep
\* nothing.
ActivationsBounded ==
  \A r \in Ranks :
    Cardinality(Outstanding(r)) <= IF config.forwardOnly THEN 0 ELSE NumWarmup(r) + 1

\* In the 1F1B schedule no more of the microbatches waiting for their backward
\* pass keep all their activations than the "window of micro-batches" allows,
\* num_microbatches_with_partial_activation_checkpoints.
PartialCheckpointBound ==
  \A r \in Ranks :
    OneF1B /\ config.partial >= 0 =>
      Cardinality({o \in Outstanding(r) : ~dev[r].outputs[o[1]][o[2]].full}) <= config.partial

\* Both bounds on the memory of activations.
StorageBounded == ActivationsBounded /\ PartialCheckpointBound

\* A chunk's gradient is reduced at most once in a training step, and only when
\* the backward passes of the whole batch are in it.
ReducedWhole ==
  ~config.forwardOnly =>
    \A r \in Ranks, c \in Chunks : dev[r].reduced[c] \in {<< >>, <<M>>}

\* A chunk's first pass comes after param_sync_func was called for it.
ParamsBeforeUse ==
  config.sync = "custom" =>
    \A r \in Ranks, c \in Chunks : dev[r].fed[c] > 0 => c \in dev[r].params

\* Gradients and parameters are synchronized in time: what is reduced is whole,
\* what is used is there.
SyncInTime == ReducedWhole /\ ParamsBeforeUse

\* In the end every chunk has the gradient of the whole batch, every loss is
\* stored once and in order, and no tensor is left over.
BatchDone ==
  AllDone =>
    \A r \in Ranks :
      /\ dev[r].losses = IF OnLastDevice(r)
                         THEN [i \in 1 .. M |-> Act(i - 1, P * NumModelChunks - 1)] ELSE << >>
      /\ \A c \in Chunks :
           /\ dev[r].fed[c] = M /\ dev[r].summed[c] = IF config.forwardOnly THEN 0 ELSE M
           /\ dev[r].outputs[c] = << >>
           /\ Range(dev[r].inputs[c]) \cup Range(dev[r].grads[c]) \subseteq {None}

Termination == <>AllDone

\* "Enable async grad reduction in the last backward pass" (comment of the
\* 1F1B schedule): after a training step every gradient has been reduced by
\* the hooks of torch DDP or by grad_sync_func.
EveryGradientReduced ==
  AllDone /\ ~config.forwardOnly /\ config.sync # "none" =>
    \A r \in Ranks, c \in Chunks : dev[r].reduced[c] # << >>
============================================================================
