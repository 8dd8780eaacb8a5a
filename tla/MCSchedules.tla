----------------------------- MODULE MCSchedules -----------------------------
(***************************************************************************)
(* Schedules for TLC: the schedules on two to five devices.  The program   *)
(* of a device has no choice in it; what varies is the configuration, and  *)
(* how fast devices and tensors move.                                      *)
(***************************************************************************)
EXTENDS Schedules

Call(p, v, m, flags, sync, partial) ==
  [P |-> p, V |-> v, M |-> m, forwardOnly |-> "eval" \in flags,
   overlap |-> "overlap" \in flags, batched |-> "batched" \in flags,
   variable |-> "variable" \in flags, sync |-> sync, partial |-> partial]

\* The ways to communicate: one by one or as a batch, of tensors of variable
\* length or not; overlapping only one by one and with interleaving.
Flags(v) ==
  SUBSET {"batched", "variable"} \cup
    IF v > 0 THEN {{"overlap"}, {"overlap", "variable"}} ELSE {}

Training(p, v, m, sync, partial) == {Call(p, v, m, f, sync, partial) : f \in Flags(v)}

Evaluation(p, v, m) == {Call(p, v, m, f \cup {"eval"}, "none", -1) : f \in Flags(v)}

\* Fewer microbatches than devices, as many, and more; an odd number of devices
\* closes the ring between two devices of the same parity.
OnePass ==
       Training(1, 0, 3, "torchDDP", -1) \cup Training(2, 0, 3, "custom", 1)
  \cup Training(3, 0, 2, "custom", -1) \cup Training(4, 0, 3, "torchDDP", 1)
  \cup Training(4, 0, 6, "none", 2) \cup Training(5, 0, 5, "custom", 1)

\* As many microbatches as devices (all passes in warmup), twice and three
\* times as many; a third chunk, whose parameters are launched late.
Interleavings ==
       Training(3, 2, 3, "torchDDP", -1) \cup Training(3, 2, 6, "custom", -1)
  \cup Training(3, 3, 6, "custom", -1) \cup Training(4, 2, 4, "custom", -1)
  \cup Training(4, 2, 8, "torchDDP", -1) \cup Training(4, 3, 8, "custom", -1)
  \cup Training(3, 2, 9, "none", -1)

Evaluations ==
  Evaluation(1, 0, 2) \cup Evaluation(4, 0, 3) \cup Evaluation(3, 2, 6) \cup Evaluation(4, 2, 4)

AllCalls == OnePass \cup Interleavings \cup Evaluations

\* A training step of the 1F1B schedule on two devices, with torch DDP.
DDPCalls == Training(2, 0, 2, "torchDDP", -1) \cup Training(4, 0, 4, "torchDDP", -1)
==============================================================================
