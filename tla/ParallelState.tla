--------------------------- MODULE ParallelState ---------------------------
(***************************************************************************)
(* The pipeline topology of megatron/core/parallel_state.py when the       *)
(* BitPipe schedule is enabled.                                            *)
(*                                                                         *)
(* A pipeline of P devices carries two pipelines at once.  Every device    *)
(* holds four model chunks ("virtual ranks"): chunks 0 and 2 belong to     *)
(* pipeline 0, chunks 1 and 3 to pipeline 1.  Pipeline 0 runs down the     *)
(* devices with chunk 0 and back up with chunk 2; pipeline 1 is its mirror *)
(* image.  Who is "next" therefore depends on the virtual rank.            *)
(***************************************************************************)
EXTENDS Integers, Sequences

CONSTANT P      \* pipeline_model_parallel_size

\* initialize_model_parallel raises unless the size is greater than 2
ASSUME PAssumption == P \in Nat /\ P > 2

Ranks  == 0 .. P - 1
Chunks == 0 .. 3        \* virtual_pipeline_model_parallel_size = 4
Half   == P \div 2

(***************************************************************************)
(* The process group lists global ranks in increasing order, and the       *)
(* pipeline uses them in another order: even positions stay, odd position  *)
(* k is taken from P - k.  PipelineGlobalRank(k) is the position in the    *)
(* group of pipeline rank k, PipelineRank(g) the pipeline rank of the      *)
(* process at position g of the group.                                     *)
(***************************************************************************)
PipelineGlobalRank(k) == IF k % 2 = 0 THEN k ELSE P - k

PipelineRank(g) == IF g % 2 = 0 THEN g ELSE P - g

\* The virtual ranks 1 and 2 run up the devices, 0 and 3 run down.
NextRank(r, v) == IF v \in {1, 2} THEN (r - 1) % P ELSE (r + 1) % P

PrevRank(r, v) == IF v \in {1, 2} THEN (r + 1) % P ELSE (r - 1) % P

IsFirstStage(r, v) == (r = P - 1 /\ v = 1) \/ (r = 0 /\ v = 0)

IsLastStage(r, v) == (r = 0 /\ v = 2) \/ (r = P - 1 /\ v = 3)

\* The member of r's bidirectional group that is not r.
BdPartner(r) == P - 1 - r

----------------------------------------------------------------------------
(***************************************************************************)
(* Reading aids for the properties: the pipeline a chunk belongs to and    *)
(* the position of <<device, chunk>> on the path of that pipeline.         *)
(***************************************************************************)
Pipe(c) == c % 2

Stages == 0 .. 2 * P - 1

StageOf(r, c) == CASE c = 0 -> r
                   [] c = 1 -> P - 1 - r
                   [] c = 2 -> 2 * P - 1 - r
                   [] c = 3 -> P + r
============================================================================
