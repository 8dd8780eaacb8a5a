-------------------------- MODULE MCLayerAssignment --------------------------
(***************************************************************************)
(* Instances of LayerAssignment for TLC.  Four devices, so that a half has *)
(* a device at the end of the pipeline and one in the middle.  The tables  *)
(* are ones except for two chunks: empty chunks, wrong totals and unequal  *)
(* layers on any two chunks occur.  Malformed files are those with a       *)
(* missing device and with a missing virtual rank.                         *)
(***************************************************************************)
EXTENDS LayerAssignment

FourDevices == 4

Asymmetric(tables, layers) ==
  {[asymmetric |-> TRUE, devices |-> t, layers |-> l] : t \in tables, l \in layers}

Symmetric(layers) ==
  {[asymmetric |-> FALSE, devices |-> << >>, layers |-> l] : l \in layers}

\* Layer counts up to two layers per chunk, and the counts that do not divide.
SymmetricLaunches == Symmetric(1 .. 16)

Malformed == Asymmetric({<< <<1, 1, 1, 1>> >>, << <<1, 1, 1, 1>>, <<2, 1, 1>> >>}, {4, 8})

Chunk == (1 .. 2) \X (1 .. 4)

\* The table of ones with x for one chunk and y for another.
Except(i, j, x, y) ==
  [d \in 1 .. 2 |-> [v \in 1 .. 4 |->
     IF <<d, v>> = i THEN x ELSE IF <<d, v>> = j THEN y ELSE 1]]

AlmostOnes ==
  {Except(i, j, x, y) : i \in Chunk, j \in Chunk, x \in {0, 1, 3}, y \in {1, 2}}

\* The example in the docstring of get_asymmetric_offset.
DocTable == << <<2, 4, 2, 3>>, <<2, 1, 1, 1>> >>

SmallLaunches ==
  SymmetricLaunches \cup Malformed \cup Asymmetric(AlmostOnes, {8, 11})
                    \cup Asymmetric({DocTable}, {16})
==============================================================================
