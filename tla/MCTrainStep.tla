---------------------------- MODULE MCTrainStep ----------------------------
(***************************************************************************)
(* Instances of TrainStep for TLC: four devices, one unit of microbatches. *)
(* Every initial weight and every gradient is different, so that a wrong   *)
(* partner, a missing or a double contribution changes a sum.              *)
(***************************************************************************)
EXTENDS TrainStep

FourDevices == 4

\* A different number for every device, chunk and parameter.
Distinct ==
  [r \in {0, 3} |-> [c \in 0 .. 3 |->
     [layers |-> 4 * (1 + c + 2 * r), word |-> 4 * (20 + 3 * c + 5 * r)]]]
============================================================================
