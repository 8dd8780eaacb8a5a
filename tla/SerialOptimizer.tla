---------------------------- MODULE SerialOptimizer ----------------------------
(***************************************************************************)
(* What the optimizer of a training promises, whatever the number of       *)
(* processes that share its work: every element of every parameter has one *)
(* master value and one moment, an update advances all of them with the    *)
(* gradients of the whole batch at the weights the model had, or none, the *)
(* model then receives the rounded master values, and a checkpoint brings  *)
(* all of it back.                                                         *)
(***************************************************************************)
EXTENDS Integers, FiniteSetsExt

CONSTANTS Element,        \* the elements of the parameters
          Batch,          \* the samples of a global batch
          Initial(_),     \* the weight an element starts with
          Grad(_, _, _),  \* the gradient of an element on a sample at a weight
          Clip(_, _),     \* a gradient, scaled down by the sum of all squares
          Decayed(_),     \* the elements with weight decay
          Adam(_, _, _),  \* what the inner optimizer makes of a master element
          Round(_, _)     \* a value in the precision of the model

VARIABLES precision, \* of the model, chosen once
          phase,   \* "down", "ready" or "updated"
          params,  \* the weights of the model
          masters, \* master value and moment of every element
          saved    \* << >> or what the checkpoint holds

vars == <<precision, phase, params, masters, saved>>

FreshMasters(weights) == [e \in Element |-> [param |-> weights[e], avg |-> 0]]

FreshParams == [e \in Element |-> Initial(e)]

Init ==
  /\ phase = "down"
  /\ params = FreshParams
  /\ masters = FreshMasters(FreshParams)
  /\ saved = << >>

\* The mean over the whole batch.
BatchGrad(e) ==
  MapThenSumSet(LAMBDA s : Grad(e, s, params[e]), Batch) \div Cardinality(Batch)

Advanced ==
  LET gradient == [e \in Element |-> BatchGrad(e)]
      squares  == MapThenSumSet(LAMBDA e : gradient[e] * gradient[e], Element)
  IN  [e \in Element |-> Adam(masters[e], Clip(gradient[e], squares), Decayed(e))]

Published(m) == [e \in Element |-> Round(m[e].param, precision)]

\* The model receives the new values later, or in the same step.
Update ==
  /\ phase = "ready"
  /\ masters' = Advanced
  /\ \/ phase' = "updated" /\ UNCHANGED params
     \/ phase' = "ready" /\ params' = Published(masters')
  /\ UNCHANGED saved

Publish ==
  /\ phase = "updated"
  /\ params' = Published(masters)
  /\ phase' = "ready"
  /\ UNCHANGED <<masters, saved>>

Save ==
  /\ phase = "ready"
  /\ saved' = <<params, masters>>
  /\ UNCHANGED <<phase, params, masters>>

Stop ==
  /\ phase' = "down"
  /\ params' = FreshParams
  /\ masters' = FreshMasters(FreshParams)
  /\ UNCHANGED saved

\* From nothing, from a checkpoint, or from the weights of one.
Start ==
  /\ phase = "down"
  /\ phase' = "ready"
  /\ \/ saved = << >> /\ UNCHANGED <<params, masters>>
     \/ saved # << >> /\ params' = saved[1] /\ masters' = saved[2]
     \/ saved # << >> /\ params' = saved[1] /\ masters' = FreshMasters(params')
  /\ UNCHANGED saved

Next == (Update \/ Publish \/ Save \/ Stop \/ Start) /\ UNCHANGED precision

Spec == Init /\ [][Next]_vars
================================================================================
