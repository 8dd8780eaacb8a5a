------------------------------ MODULE ShardedCheckpoint ------------------------------
(***************************************************************************)
(* core/dist_checkpointing: a model that many ranks hold in parts is saved *)
(* as whole arrays, and loaded by another number of ranks.                 *)
(*                                                                         *)
(* The model is core's GPT.  Its tensors are arrays of two axes, the layer *)
(* and the divided one; all tensors that are divided alike, or are whole   *)
(* alike, stand for each other.  What a tensor holds is told by the names  *)
(* of its elements, <<key, layer, row>>, in the undivided model.           *)
(***************************************************************************)
EXTENDS Integers, Sequences, FiniteSets, FiniteSetsExt

CONSTANT ShardedJobs
  \* from, to: sizes [tp, pp, vp, dp] that save and that load; layers; rows of
  \* a divided tensor; vocab and divisible: the vocabulary and what, times tp,
  \* it is padded to a multiple of; gated: gated units; tied: the head shares
  \* the embedding's weight; strategy: that of the load

VARIABLES task,       \* one of ShardedJobs
          life,       \* "save", "load", or "none" between the lives of a job
          spot,       \* how far each rank is
          directory,  \* [common, objects, arrays, config]
          read,       \* what a load has put into each rank's model, or << >>
          outcome     \* the last life and how it ended: "done", "raised", "killed"

sharded_vars == <<task, life, spot, directory, read, outcome>>

Sizes == IF life = "load" THEN task.to ELSE task.from
Members(s) == (0 .. s.tp - 1) \X (0 .. s.pp - 1) \X (0 .. s.dp - 1)
RankZero == <<0, 0, 0>>

-----------------------------------------------------------------------------
(***************************************************************************)
(* sharded_state_dict of rank r among sizes s.                             *)
(***************************************************************************)
PaddedVocab(s) ==
  LET unit == task.divisible * s.tp
  IN  ((task.vocab + unit - 1) \div unit) * unit

\* _get_layer_offset of a chunk, and the layers it builds.
LayersOf(s, p) ==
  LET each == (task.layers \div s.pp) \div s.vp
      Offset(v) == IF s.vp > 1 THEN v * (task.layers \div s.vp) + p * each ELSE p * each
  IN  UNION {Offset(v) .. Offset(v) + each - 1 : v \in 0 .. s.vp - 1}

\* A ShardedTensor: shape and place in layers and rows, rank offsets turned
\* into offsets; loose: allow_shape_mismatch; rows: the elements it holds.
Sharded(key, shape, offset, rows, replica, loose) ==
  [key |-> key, shape |-> shape, offset |-> offset, size |-> Len(rows),
   replica |-> replica, loose |-> loose, rows |-> rows]

Elements(key, layer, first, n) == [i \in 1 .. n |-> <<key, layer, first + i - 1>>]

\* make_tp_sharded_tensor_for_checkpoint, and the layers' divided tensors.
Divided(s, r, key, layer, layers, all, replica, loose) ==
  LET n == all \div s.tp
  IN  Sharded(key, <<layers, all>>, <<layer, r[1] * n>>,
              Elements(key, layer, r[1] * n, n), replica, loose)

\* make_sharded_tensor_for_checkpoint: replicated over the ranks of a stage.
Replicated(s, r, key, layer, layers) ==
  Sharded(key, <<layers, 1>>, <<layer, 0>>, Elements(key, layer, 0, 1), r[3] * s.dp + r[1], FALSE)

\* The two halves of a gated unit lie one behind the other on each rank, and in
\* the whole array.
GluOffsets_Adjacent(s, r) == <<2 * r[1], 2 * r[1] + 1>>  \* mutant: each rank's halves together
GluOffsets(s, r) == <<r[1], s.tp + r[1]>>

GatedHalves(s, r, layer) ==
  LET n == task.rows \div s.tp
  IN  [h \in 1 .. 2 |->
         Sharded("fc1", <<task.layers, 2 * task.rows>>, <<layer, GluOffsets(s, r)[h] * n>>,
                 Elements("fc1", layer, (h - 1) * task.rows + r[1] * n, n), r[3], FALSE)]

\* The bias of a gated unit has both halves on each rank, but goes into the whole
\* array as it is.
GatedBias(s, r, layer) ==
  LET n == task.rows \div s.tp
  IN  Sharded("bias", <<task.layers, 2 * task.rows>>, <<layer, r[1] * 2 * n>>,
              Elements("bias", layer, r[1] * n, n) \o Elements("bias", layer, task.rows + r[1] * n, n),
              r[3], FALSE)

LayerTensors(s, r, layer) ==
  {Divided(s, r, "qkv", layer, task.layers, task.rows, r[3], FALSE),
   Replicated(s, r, "layernorm", layer, task.layers)}
  \cup IF task.gated THEN {GatedHalves(s, r, layer)[h] : h \in 1 .. 2} \cup {GatedBias(s, r, layer)}
       ELSE {Divided(s, r, "fc1", layer, task.layers, task.rows, r[3], FALSE)}

\* The copy of a tied embedding on the last stage is a replica of the first's.
HeadTensors(s, r) ==
  IF ~ task.tied THEN {Divided(s, r, "head", 0, 1, PaddedVocab(s), r[3], TRUE)}
  ELSE IF r[2] # 0 THEN {Divided(s, r, "word", 0, 1, PaddedVocab(s), r[3] + s.dp, TRUE)}
  ELSE {}

StateDict(s, r) ==
  UNION {LayerTensors(s, r, l) : l \in LayersOf(s, r[2])}
  \cup (IF r[2] = 0 THEN {Divided(s, r, "word", 0, 1, PaddedVocab(s), r[3], TRUE),
                          Replicated(s, r, "position", 0, 1)} ELSE {})
  \cup (IF r[2] = s.pp - 1 THEN {Replicated(s, r, "final", 0, 1)} \cup HeadTensors(s, r) ELSE {})

\* The ShardedObjects, one per layer: [shard, replica].
ObjectsOf(s, r) ==
  {[shard |-> <<l, task.layers>>, replica |-> r[3] * s.dp + r[1]] : l \in LayersOf(s, r[2])}

IsMainReplica(x) == x.replica = 0
MainTensors(s, r) == {x \in StateDict(s, r) : IsMainReplica(x)}

-----------------------------------------------------------------------------
(***************************************************************************)
(* Validation, by rank 0, of what the ranks have gathered.                 *)
(***************************************************************************)
\* A key's tensors are alike, and every part has one main replica.
ValidForKey(s, key) ==
  LET mine == UNION {{<<r, x>> : x \in {y \in StateDict(s, r) : y.key = key}} : r \in Members(s)}
      some == (CHOOSE a \in mine : TRUE)[2]
      parts == {<<l, o * some.size>> : l \in 0 .. some.shape[1] - 1,
                                       o \in 0 .. (some.shape[2] \div some.size) - 1}
  IN  /\ \A a \in mine : a[2].shape = some.shape /\ a[2].size = some.size
      /\ \A part \in parts :
           Cardinality({a \in mine : IsMainReplica(a[2]) /\ a[2].offset = part}) = 1

KeysOf(s) == {x.key : x \in UNION {StateDict(s, r) : r \in Members(s)}}
ShardingValid(s) == \A key \in KeysOf(s) : ValidForKey(s, key)

-----------------------------------------------------------------------------
(***************************************************************************)
(* The lives of a job, and what its ranks do together.                     *)
(***************************************************************************)
NoOutcome == <<"none", "none">>
EmptyDirectory == [common |-> FALSE, objects |-> {}, arrays |-> << >>, config |-> "none"]

AtRanks(place) == \A r \in DOMAIN spot : spot[r] = place
All(place) == [r \in DOMAIN spot |-> place]

Start(what, s) ==
  /\ life = "none"
  /\ life' = what
  /\ spot' = [r \in Members(s) |-> "entry"]
  /\ read' = [r \in Members(s) |-> << >>]
  /\ outcome' = NoOutcome
  /\ UNCHANGED <<task, directory>>

StartSave == Start("save", task.from)
StartLoad == Start("load", task.to)

\* A rank raises, or the job is killed; the others are lost with it.
EndLife(how) ==
  /\ life' = "none"
  /\ spot' = << >>
  /\ read' = << >>
  /\ outcome' = <<life, how>>
  /\ UNCHANGED <<task, directory>>

Kill == life # "none" /\ EndLife("killed")

\* Every rank is through: the model is used, and the job ends.
Leave == AtRanks("end") /\ life # "none" /\ EndLife("done")

\* A collective of all ranks: none goes on before all have come.
Together(from, to) ==
  /\ life # "none" /\ AtRanks(from)
  /\ spot' = All(to)
  /\ UNCHANGED <<task, life, directory, read, outcome>>

Go(r, from, to) == r \in DOMAIN spot /\ spot[r] = from /\ spot' = [spot EXCEPT ![r] = to]

(***************************************************************************)
(* save                                                                    *)
(***************************************************************************)
\* Rank 0 looks whether the directory is empty, then all gather their tensors
\* and rank 0 validates them, then their objects.
CheckAndValidate ==
  /\ life = "save" /\ AtRanks("entry")
  /\ IF directory # EmptyDirectory \/ ~ ShardingValid(Sizes) THEN EndLife("raised")
     ELSE Together("entry", "objects")

\* Behind the gather of the objects, of which each layer has one main replica,
\* every rank writes its own, and rank 0 the common dictionary.
SaveObjects(r) ==
  /\ life = "save" /\ Go(r, "objects", "arrays")
  /\ directory' = [directory EXCEPT
       !.objects = @ \cup {o.shard : o \in {x \in ObjectsOf(Sizes, r) : IsMainReplica(x)}},
       !.common = @ \/ r = RankZero]
  /\ UNCHANGED <<task, life, read, outcome>>

\* _should_create_array; the elements of a new array are unwritten.
Created(r) == {x \in MainTensors(Sizes, r) : x.offset = <<0, 0>>}
NewArray(x) ==
  [shape |-> x.shape, cells |-> [c \in (0 .. x.shape[1] - 1) \X (0 .. x.shape[2] - 1) |-> << >>]]

CreateArrays(r) ==
  /\ life = "save" /\ Go(r, "arrays", "created")
  /\ LET new == Created(r)
         keys == {x.key : x \in new}
     IN  directory' = [directory EXCEPT
           !.arrays = [k \in DOMAIN @ \cup keys |->
             IF k \in keys THEN NewArray(CHOOSE x \in new : x.key = k) ELSE @[k]]]
  /\ UNCHANGED <<task, life, read, outcome>>

CreatedBarrier == life = "save" /\ Together("created", "write")

\* _save_to_existing_array, of the main replicas.
Stored(arrays, x) ==
  [arrays EXCEPT ![x.key].cells =
     [c \in DOMAIN @ |->
        IF c[1] = x.offset[1] /\ c[2] \in x.offset[2] .. x.offset[2] + x.size - 1
        THEN x.rows[c[2] - x.offset[2] + 1] ELSE @[c]]]

WriteArrays(r) ==
  /\ life = "save" /\ Go(r, "write", "written")
  /\ directory' = [directory EXCEPT
       !.arrays = FoldSet(LAMBDA x, arrays : Stored(arrays, x), @, MainTensors(Sizes, r))]
  /\ UNCHANGED <<task, life, read, outcome>>

WrittenBarrier == life = "save" /\ Together("written", "config")

\* save_config: every rank opens the file, which empties it, and writes it.
OpenConfig(r) ==
  /\ life = "save" /\ Go(r, "config", "opened")
  /\ directory' = [directory EXCEPT !.config = "torn"]
  /\ UNCHANGED <<task, life, read, outcome>>

WriteConfig(r) ==
  /\ life = "save" /\ Go(r, "opened", "end")
  /\ directory' = [directory EXCEPT !.config = "whole"]
  /\ UNCHANGED <<task, life, read, outcome>>

(***************************************************************************)
(* load                                                                    *)
(***************************************************************************)
\* The common dictionary, the objects of the layers, the metadata.
Readable(r) ==
  /\ directory.common
  /\ \A o \in ObjectsOf(Sizes, r) : o.shard \in directory.objects
  /\ directory.config = "whole"

OpenCheckpoint(r) ==
  /\ life = "load"
  /\ r \in DOMAIN spot /\ spot[r] = "entry"
  /\ IF Readable(r)
     THEN Go(r, "entry", "common") /\ UNCHANGED <<task, life, directory, read, outcome>>
     ELSE EndLife("raised")

ValidateLoad ==
  /\ life = "load" /\ AtRanks("common")
  /\ IF ShardingValid(Sizes) THEN Together("common", "load") ELSE EndLife("raised")

\* What a strategy reads for a tensor: tensorstore refuses a part that starts
\* behind the end of the stored array, zarr reads nothing of it.  What is
\* missing is padded.
Refused(x) ==
  \/ x.key \notin DOMAIN directory.arrays
  \/ LET stored == directory.arrays[x.key].shape
     IN  stored # x.shape /\ (~ x.loose \/ (task.strategy # "zarr" /\ x.offset[2] >= stored[2]))

LoadedRows(x) ==
  LET cells == directory.arrays[x.key].cells
  IN  [i \in 1 .. x.size |->
         LET c == <<x.offset[1], x.offset[2] + i - 1>>
         IN  IF c \in DOMAIN cells THEN cells[c] ELSE <<"zero">>]

Filled(tensors) == {[x EXCEPT !.rows = LoadedRows(x)] : x \in tensors}

\* Each rank reads its own tensors.
LoadTensors(r) ==
  /\ life = "load" /\ task.strategy # "two-stage"
  /\ r \in DOMAIN spot /\ spot[r] = "load"
  /\ IF \E x \in StateDict(Sizes, r) : Refused(x) THEN EndLife("raised")
     ELSE /\ Go(r, "load", "end")
          /\ read' = [read EXCEPT ![r] = Filled(StateDict(Sizes, r))]
          /\ UNCHANGED <<task, life, directory, outcome>>

\* Two stages: in a data-parallel group the lowest rank that has a part reads
\* it and broadcasts it, part by part in the order of keys and offsets.
ChunkId(x) == <<x.key, x.offset>>

LoadInGroup(t, p) ==
  LET group == {r \in DOMAIN spot : r[1] = t /\ r[2] = p}
      tensors == UNION {StateDict(Sizes, r) : r \in group}
      Source(id) == Min({r[3] : r \in {q \in group :
                           \E x \in StateDict(Sizes, q) : ChunkId(x) = id}})
      Sent(id) == CHOOSE x \in StateDict(Sizes, <<t, p, Source(id)>>) : ChunkId(x) = id
  IN  /\ life = "load" /\ task.strategy = "two-stage"
      /\ group # {} /\ \A r \in group : spot[r] = "load"
      /\ IF \E x \in tensors : Refused(Sent(ChunkId(x))) THEN EndLife("raised")
         ELSE /\ spot' = [r \in DOMAIN spot |-> IF r \in group THEN "end" ELSE spot[r]]
              /\ read' = [r \in DOMAIN read |->
                   IF r \in group
                   THEN {[x EXCEPT !.rows = LoadedRows(Sent(ChunkId(x)))] : x \in StateDict(Sizes, r)}
                   ELSE read[r]]
              /\ UNCHANGED <<task, life, directory, outcome>>

-----------------------------------------------------------------------------
InitSharded ==
  /\ task \in ShardedJobs
  /\ life = "none"
  /\ spot = << >>
  /\ directory = EmptyDirectory
  /\ read = << >>
  /\ outcome = NoOutcome

NextSharded ==
  \/ StartSave \/ StartLoad \/ Kill \/ Leave
  \/ CheckAndValidate \/ CreatedBarrier \/ WrittenBarrier
  \/ ValidateLoad
  \/ \E r \in DOMAIN spot :
       \/ SaveObjects(r) \/ CreateArrays(r) \/ WriteArrays(r) \/ OpenConfig(r) \/ WriteConfig(r)
       \/ OpenCheckpoint(r) \/ LoadTensors(r)
  \/ life = "load" /\ \E t \in 0 .. task.to.tp - 1, p \in 0 .. task.to.pp - 1 : LoadInGroup(t, p)

SpecSharded == InitSharded /\ [][NextSharded]_sharded_vars

-----------------------------------------------------------------------------
(***************************************************************************)
(* Properties.                                                             *)
(***************************************************************************)
\* Elements that only pad the vocabulary may be anything.
Same(a, b) ==
  Len(a) = Len(b) /\ \A i \in 1 .. Len(a) :
    a[i] = b[i] \/ (b[i][1] \in {"word", "head"} /\ b[i][3] >= task.vocab)

\* The gated bias is stored as the saving ranks cut it.
BiasMixed == task.gated /\ task.from.tp # task.to.tp

\* What a rank has read is what it would hold if the model had been divided
\* for its sizes from the start.
ReadsItsPart(r) ==
  LET mine == StateDict(Sizes, r)
  IN  /\ {<<ChunkId(y), y.replica>> : y \in read[r]} = {<<ChunkId(x), x.replica>> : x \in mine}
      /\ \A x \in mine, y \in read[r] :
           ChunkId(y) = ChunkId(x) =>
             Same(y.rows, x.rows) \/ (x.key = "bias" /\ BiasMixed)

Complete ==
  /\ directory.common
  /\ directory.objects = {<<l, task.layers>> : l \in 0 .. task.layers - 1}
  /\ \A key \in DOMAIN directory.arrays :
       \A c \in DOMAIN directory.arrays[key].cells :
         LET cell == directory.arrays[key].cells[c]
         IN  cell # << >> /\ (key # "bias" => cell = <<key, c[1], c[2]>>)

\* The layers that no stage builds, and a part that is all padding.
LayersLeftOut(s) == UNION {LayersOf(s, p) : p \in 0 .. s.pp - 1} # 0 .. task.layers - 1
OnlyPadding ==
  /\ task.strategy # "zarr"
  /\ PaddedVocab(task.to) - PaddedVocab(task.to) \div task.to.tp >= PaddedVocab(task.from)

\* The metadata names a complete checkpoint, whatever was killed when; a rank
\* that has read it has its part of the same model, the bias of a gated unit
\* excepted when the tensor-parallel size is another; a load without kill fails
\* only if the metadata is missing or torn, a stage leaves out layers, or a
\* part of the vocabulary is all padding; a save, only if the directory is not
\* empty or layers are left out.
ShardedAsWhole ==
  /\ directory.config = "whole" => Complete
  /\ \A r \in DOMAIN spot : life = "load" /\ spot[r] = "end" => ReadsItsPart(r)
  /\ outcome = <<"load", "raised">> /\ directory.config = "whole" =>
       LayersLeftOut(task.to) \/ OnlyPadding
  /\ outcome = <<"save", "raised">> /\ directory = EmptyDirectory => LayersLeftOut(task.from)
======================================================================================
