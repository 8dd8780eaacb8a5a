---------------------------- MODULE PipelineFlow ----------------------------
(***************************************************************************)
(* What a bidirectional pipeline schedule promises, with no devices in it. *)
(*                                                                         *)
(* Two pipelines carry M microbatches each through the same S layer        *)
(* blocks ("stages"), of which each has its own replica.  A microbatch     *)
(* goes forward through the stages in order, then backward in the opposite *)
(* order; microbatches stay in order.  When both replicas of a stage have  *)
(* seen the backward passes of all microbatches, their gradients are       *)
(* averaged, once.                                                         *)
(***************************************************************************)
EXTENDS Integers

CONSTANTS
  S,          \* number of stages
  M           \* microbatches per pipeline

\* What the theorems assume of the constants (BitPipe4VR: FlowInstance).
FlowAssumption == S \in Nat \ {0} /\ M \in Nat

Pipes == {0, 1}
Stage == 0 .. S - 1

VARIABLES
  forwards,   \* forwards[p][s]: microbatches that went forward through s
  backwards,  \* backwards[p][s]: microbatches that went backward through s
  averaged    \* the stages whose two gradients have been averaged

flowVars == <<forwards, backwards, averaged>>

TypeOK ==
  /\ forwards  \in [Pipes -> [Stage -> 0 .. M]]
  /\ backwards \in [Pipes -> [Stage -> 0 .. M]]
  /\ averaged  \subseteq Stage

Init ==
  /\ forwards  = [p \in Pipes |-> [s \in Stage |-> 0]]
  /\ backwards = [p \in Pipes |-> [s \in Stage |-> 0]]
  /\ averaged  = {}

\* How many microbatches have reached stage s going forward, going backward.
Arrived_OneMore(p, s) ==     \* mutant: the data never runs out
  IF s = 0 THEN M + 1 ELSE forwards[p][s - 1]

Arrived(p, s) == IF s = 0 THEN M ELSE forwards[p][s - 1]

Returned_Early(p, s) ==      \* mutant: a gradient exists as soon as the activation does
  forwards[p][s]

Returned_Never(p, s) ==      \* mutant: the last stage waits for a gradient from the first
  IF s = S - 1 THEN backwards[p][0] ELSE backwards[p][s + 1]

Returned(p, s) == IF s = S - 1 THEN forwards[p][s] ELSE backwards[p][s + 1]

Forward(p, s) ==
  /\ forwards[p][s] < Arrived(p, s)
  /\ forwards' = [forwards EXCEPT ![p][s] = @ + 1]
  /\ UNCHANGED <<backwards, averaged>>

Backward(p, s) ==
  /\ backwards[p][s] < Returned(p, s)
  /\ backwards' = [backwards EXCEPT ![p][s] = @ + 1]
  /\ UNCHANGED <<forwards, averaged>>

Average_OnePipe(s) ==        \* mutant: one of the two replicas has to be ready
  /\ s \notin averaged
  /\ \E p \in Pipes : backwards[p][s] = M
  /\ averaged' = averaged \cup {s}
  /\ UNCHANGED <<forwards, backwards>>

Average(s) ==
  /\ s \notin averaged
  /\ \A p \in Pipes : backwards[p][s] = M
  /\ averaged' = averaged \cup {s}
  /\ UNCHANGED <<forwards, backwards>>

Next ==
  \/ \E p \in Pipes, s \in Stage : Forward(p, s) \/ Backward(p, s)
  \/ \E s \in Stage : Average(s)

Spec == Init /\ [][Next]_flowVars

----------------------------------------------------------------------------
\* A microbatch has gone forward through every earlier stage of its pipeline
\* when it goes forward through a stage, and through all stages forward and all
\* later stages backward when it goes backward through one.
InOrder ==
  \A p \in Pipes, s, t \in Stage :
    /\ s <= t => forwards[p][t] <= forwards[p][s]
    /\ s <= t => backwards[p][s] <= backwards[p][t]
    /\ backwards[p][s] <= forwards[p][t]

\* The weights of a stage are averaged only when the whole batch has gone
\* forward and backward through that and every later stage of both pipelines.
AveragedAfterBatch ==
  \A s \in averaged, p \in Pipes, t \in Stage :
    s <= t => forwards[p][t] = M /\ backwards[p][t] = M

\* In the end every stage is averaged.
BatchCompletes == <>(averaged = Stage)
=============================================================================
