--------------------------- MODULE LayerAssignment ---------------------------
(***************************************************************************)
(* Which transformer layers a model chunk holds.  The arguments are        *)
(* validated (megatron/arguments.py); then every device builds its four    *)
(* chunks one after the other, virtual rank by virtual rank (get_model in  *)
(* megatron/training.py), and a chunk computes its first layer and its     *)
(* number of layers (megatron/model/transformer.py), in the symmetric mode *)
(* from a formula, in the asymmetric mode from the table of                *)
(* megatron/core/pipeline_parallel/asymmetric/config_utils.py.             *)
(***************************************************************************)
EXTENDS ParallelState, Functions

\* A launch: the mode, first_half_devices of the JSON file, and num_layers.
CONSTANT Launches

Launch == [asymmetric : BOOLEAN, devices : Seq(Seq(Int)), layers : Nat \ {0}]

ASSUME LaunchAssumption == Launches \subseteq Launch

VARIABLES
  args,     \* the launch
  status,   \* "parsing", "rejected", "building"
  config,   \* args.asymmetric_layers_full_config
  vrank,    \* the loop index of get_model; 4 when the device is done
  built     \* what a chunk holds: its first layer and their number

vars == <<args, status, config, vrank, built>>

NotBuilt == [offset |-> 0, num |-> 0]

NoConfig == [r \in Ranks |-> [c \in Chunks |-> 0]]

----------------------------------------------------------------------------
(***************************************************************************)
(* Validation.                                                             *)
(***************************************************************************)
SequenceSum(s) == SumFunctionOnSet(s, 1 .. Len(s))

DeviceAccepted(d) == Len(d) = 4 /\ \A i \in 1 .. Len(d) : d[i] >= 1

\* [VR0, VR1, VR2, VR3] -> [VR1, VR0, VR3, VR2]
Swapped_None(c) == c               \* mutant: the paired device gets a plain copy

Swapped(c) == IF c % 2 = 0 THEN c + 1 ELSE c - 1

\* The second half of the devices mirrors the first, with the chunks swapped.
FullConfig(a) ==
  [r \in Ranks |-> [c \in Chunks |->
     IF r < Half THEN a.devices[r + 1][c + 1]
                 ELSE a.devices[P - r][Swapped(c) + 1]]]

\* The pairing constraint at the end of the generation.
Paired(f) == \A r \in Ranks :
  SumFunctionOnSet(f[r], Chunks) = SumFunctionOnSet(f[BdPartner(r)], Chunks)

AsymmetricAccepted(a) ==
  /\ P % 2 = 0
  /\ Len(a.devices) = Half
  /\ \A i \in 1 .. Len(a.devices) : DeviceAccepted(a.devices[i])
  /\ SequenceSum([i \in 1 .. Len(a.devices) |-> SequenceSum(a.devices[i])]) = a.layers
  /\ Paired(FullConfig(a))

SymmetricAccepted(a) == a.layers % P = 0 /\ (a.layers \div P) % 2 = 0

Accepted(a) == IF a.asymmetric THEN AsymmetricAccepted(a) ELSE SymmetricAccepted(a)

----------------------------------------------------------------------------
(***************************************************************************)
(* The layers of a chunk.                                                  *)
(***************************************************************************)
\* _get_num_layers doubles the share of a stage; a stage has four chunks.
SymmetricNum(a) == (2 * (a.layers \div P)) \div 4

VpIdx(v) == IF v < 2 THEN v ELSE (v - 1) % 2

SymmetricOffset(a, r, v) ==
  r * SymmetricNum(a)
    + VpIdx(v) * (P - 1 - 2 * r) * SymmetricNum(a)
    + (v \div 2) * (a.layers \div 2)

LayersOn(f, v, devices) == SumFunctionOnSet([d \in devices |-> f[d][v]], devices)

AsymmetricOffset_NoSplit(f, r, v) ==   \* mutant: the layers of VR0 are not skipped
  CASE v = 0 -> LayersOn(f, 0, 0 .. r - 1)
    [] v = 1 -> LayersOn(f, 0, 0 .. BdPartner(r) - 1)
    [] v = 2 -> LayersOn(f, 2, r + 1 .. P - 1)
    [] v = 3 -> LayersOn(f, 2, BdPartner(r) + 1 .. P - 1)

AsymmetricOffset(f, r, v) ==
  CASE v = 0 -> LayersOn(f, 0, 0 .. r - 1)
    [] v = 1 -> LayersOn(f, 0, 0 .. BdPartner(r) - 1)
    [] v = 2 -> LayersOn(f, 0, Ranks) + LayersOn(f, 2, r + 1 .. P - 1)
    [] v = 3 -> LayersOn(f, 0, Ranks) + LayersOn(f, 2, BdPartner(r) + 1 .. P - 1)

LayersOfChunk(r, v) ==
  IF args.asymmetric
  THEN [offset |-> AsymmetricOffset(config, r, v), num |-> config[r][v]]
  ELSE [offset |-> SymmetricOffset(args, r, v), num |-> SymmetricNum(args)]

----------------------------------------------------------------------------
Init ==
  /\ args \in Launches
  /\ status = "parsing"
  /\ config = NoConfig
  /\ vrank = [r \in Ranks |-> 0]
  /\ built = [r \in Ranks |-> [c \in Chunks |-> NotBuilt]]

ValidateArgs ==
  /\ status = "parsing"
  /\ status' = IF Accepted(args) THEN "building" ELSE "rejected"
  /\ config' = IF args.asymmetric /\ Accepted(args) THEN FullConfig(args) ELSE NoConfig
  /\ UNCHANGED <<args, vrank, built>>

\* One turn of the loop of get_model; a symmetric chunk asserts that the
\* number of layers is a multiple of four.
BuildChunk(r) ==
  /\ status = "building" /\ vrank[r] \in Chunks
  /\ args.asymmetric \/ args.layers % 4 = 0
  /\ built' = [built EXCEPT ![r][vrank[r]] = LayersOfChunk(r, vrank[r])]
  /\ vrank' = [vrank EXCEPT ![r] = @ + 1]
  /\ UNCHANGED <<args, status, config>>

Next == ValidateArgs \/ \E r \in Ranks : BuildChunk(r)

Spec == Init /\ [][Next]_vars

----------------------------------------------------------------------------
IsBuilt(r, c) == c < vrank[r]

\* Each of the two pipelines runs every layer once and in order: whatever the
\* mode and the table, a stage starts where the stage before it on the path of
\* its pipeline stops, the first at layer 0 and the last ending the model.
StagesTile ==
  \A r, q \in Ranks, c, d \in Chunks :
    IsBuilt(r, c) /\ IsBuilt(q, d) /\ Pipe(c) = Pipe(d) =>
      /\ StageOf(q, d) = StageOf(r, c) + 1
           => built[q][d].offset = built[r][c].offset + built[r][c].num
      /\ StageOf(r, c) = 0 => built[r][c].offset = 0
      /\ StageOf(r, c) = 2 * P - 1
           => built[r][c].offset + built[r][c].num = args.layers

\* The schedule averages the gradients of a stage of the one pipeline with
\* those of the same stage of the other, chunk by chunk and parameter by
\* parameter: the two chunks hold the same layers.
ReplicasMatch ==
  \A r, q \in Ranks, c, d \in Chunks :
    IsBuilt(r, c) /\ IsBuilt(q, d) /\ StageOf(r, c) = StageOf(q, d)
      => built[r][c] = built[q][d]
==============================================================================
