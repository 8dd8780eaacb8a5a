--------------------------- MODULE MCTrainingLoop ---------------------------
(***************************************************************************)
(* TrainingLoop for TLC: rank 0 and another rank that write files, and one *)
(* that writes none.  Deadlock is checked: a job that is over or cannot be *)
(* restarted stutters (Ended).                                             *)
(***************************************************************************)
EXTENDS TrainingLoop

ThreeRanks == 0 .. 2
TwoWriters == 0 .. 1
=============================================================================
