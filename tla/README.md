# A verification of BitPipe

BitPipe trains a transformer on `P` devices with *two* pipelines at once: each
device holds four model chunks, pipeline 0 runs down the devices with chunk 0
and back up with chunk 2, pipeline 1 is its mirror image (chunks 1 and 3).  The
repository is a fork of Megatron-LM; BitPipe is its own schedule
(`megatron/core/pipeline_parallel/schedule_impl/bitpipe/bitpipe_4vr.py`), its
own topology in `parallel_state.py`, its own layer assignment, and changes in
the initialization of the model and in the optimizer.  Around it stands what it
relies on: the schedules it falls back to, tensor and data parallelism, the
distributed optimizer, datasets and samplers, checkpoints of three kinds, the
preparation of data, the models themselves, and text generation from what was trained.

These modules specify both in TLA+: TLC checks small instances, TLAPS proves
what holds for every number of devices, microbatches, layers and ranks.

Paths below are relative to the repository, mostly to `megatron/`;
`bitpipe_4vr.py` stands for the file above.

## 1. The system

| component | state | operations | what makes it correct |
|---|---|---|---|
| BitPipe schedule (`bitpipe_4vr.py`) | three lists of tensors per chunk, the current virtual rank, the place in nine loops, the data iterators, the losses | first receive, forward pass, backward pass, hand-over on the device, synchronization marker, final `grad_sync_func` | no deadlock; each pass reads the tensors of its own microbatch and pipeline; every microbatch is counted once; the eager all-reduce is not too early and pairs replicas; memory stays bounded |
| 1F1B and interleaved schedules (`schedules.py`) | the same lists, the partial-checkpoint windows, the handles of overlapped calls | no pipelining, 1F1B, interleaved 1F1B, `enable_grad_sync`, parameter synchronization | as above, in each way to communicate |
| Point-to-point communication (`p2p_communication.py`) | none (NCCL's queues) | combinations of sends and receives, batched or one by one, with or without an exchange of shapes, blocking or by handles | sends and receives meet pairwise |
| Arguments of a launch (`arguments.py`, `checkpointing.py`) | the command line, `args`, what a checkpoint says | parse, complete from a checkpoint, validate, build the chunks, compare with a checkpoint | a launch that starts holds every layer once, if the layers of its stages divide among their chunks, and fits the checkpoint it takes up |
| Process groups (`parallel_state.py`) | rank lists and groups, virtual and split ranks | initialize, ask, destroy, initialize again | groups of each kind partition the world and fit together; neighbours are inverse, partners hold replicas |
| Layer assignment (`arguments.py`, `asymmetric/config_utils.py`, `model/transformer.py`) | `args`, the full table, the chunks being built | validation, generation of the table, building of a chunk | the stages of each pipeline tile the model, replicas hold the same layers |
| Parameters and gradients (`module.py`, `training.py`, `distributed.py`, `optimizer.py`) | weights, contiguous gradient buffers, the `main_grad` attributes | initialization of embeddings and heads, broadcast, zeroing, accumulation, averaging, reduction of the word embeddings, update or skip | the pipelines never diverge; the update uses the gradient of the whole batch, once |
| Optimizers, scaler, clipping (`optimizer/`, `model/distributed.py`) | buffers, slices, copies of parameters, where gradients point, moments, scale and trackers | zeroing, accumulation, the reductions, found-inf, clipping, update, gather, save, load | the same training as with one process |
| Tensor parallelism (`core/tensor_parallel/`, `fused_kernels` left out) | weights in parts, the memory buffer, the generators of random numbers | embedding, column and row products, head, loss, forks, recomputation | the same numbers as undivided |
| Training loop (`training.py`, `dist_signal_handler.py`) | iteration, consumed samples, `saved_checkpoint`, the signal flags | train step, save, the exits | every launch makes progress, an exit saves |
| Microbatch calculators (`microbatches.py`) | current batch size | update | the iterations counted in advance fit the sizes the loop meets |
| Learning-rate scheduler (`optimizer_param_scheduler.py`) | samples learned, the values in force | step, state, load with the launch's values or the checkpoint's | the rate belongs to the samples, over all launches |
| Datasets and samplers (`data/`) | index and mapping files, iterators | split, indices, blend, sentences with masks and queries, sequential and cyclic sampling | every sample once, also after a restart; complete files are read |
| Checkpointing (`checkpointing.py`) | the files of each writer, the tracker file | save, load | the tracker names a complete checkpoint; a restart works and repeats little |
| Sharded checkpoints (`core/dist_checkpointing/`) | shards, `metadata.json`, arrays, common state | save, validate, load with other sizes | the same model, whatever sizes wrote and read it |
| Checkpoint conversion (`tools/checkpoint_*.py`) | a queue, the stage being built | loader, saver | the model of the new sizes; neither side waits for a dead one |
| Preprocessing (`tools/preprocess_data.py`, `data/indexed_dataset.py`) | partitions, data and index files | split, encode, merge | exactly the documents, also after a killed launch |
| Web corpus (`tools/openwebtext/`) | lists of urls, documents, groups of copies, ngrams | the scripts, in the order of their README | one copy of each document, none with a text of the evaluation tasks |
| Models (`model/gpt_model.py`, `bert_model.py`, `t5_model.py`, `language_model.py`, `transformer.py`) | the layers of a stage, the hidden states, what backward needs, the counts behind fp8 casts | build, embed, layers with self and cross attention, loss, backward | an output depends on what it may and nothing else, wherever the stages are cut; the gradient reaches every layer once |
| Retrieval database (`tools/retro/`, `tools/bert_embedding/`) | block files, databases, index, neighbours | the steps of the task `build` | what one process would make in one go |
| Text generation (`text_generation/`, `text_generation_server.py`) | the server's lock, the key and value memory, tokens and lengths | request, generate, score, beam search, communicate | each client gets the answer to its request |

Not modelled: the arithmetic of models and kernels, vision models, tokenizers, the
tasks and the other tools, profiling, examples and scripts (section 7).

**How they interact.**  `validate_args` fixes the topology's size and the layer
table; every device builds its chunks; `get_model` broadcasts the parameters
inside each bidirectional group (devices `r` and `P-1-r`).  `train_step` zeroes
the buffers and calls the schedule, which runs the chunks, exchanges activations
and gradients with the two neighbours by blocking p2p calls, and averages the
gradients of the two replicas of a stage at two *synchronization markers* in
the backward order.  Then `optimizer.reduce_model_grads` adds the gradients of
the head and the embedding and `optimizer.step` updates, unless a device of the
model has found an inf.  Without BitPipe `get_forward_backward_func` returns one
of the schedules of `schedules.py`, which use the same p2p calls.

`train` repeats this until the iterations computed from `--train-samples` are
done.  After each it may save, and may exit because a rank got a SIGTERM, the
time is over or the exit interval is reached.  All ranks save together: those
with data-parallel rank 0 write a file each, then rank 0 writes the iteration to
the tracker file, from which the next launch starts.  Consumed samples, the
learning-rate scheduler, the optimizer's shards and the random states are in
these files; the indices of the datasets are files of their own, which every
launch looks for before it builds them.

Offline, the preparation of a corpus and of a retrieval database are jobs of many
processes that go by the files earlier launches left; the conversion of
checkpoints is two processes with a queue; the server is threads in front of
ranks that follow rank 0's broadcasts.

**What is hard.**  All devices run different straight-line programs without a
coordinator, and messages have no tag: that a received tensor belongs to the
chunk it is appended to is a consequence of the order of both programs.  A wrong
order either blocks everybody or, worse, trains on wrong data without any sign.
Virtual rank, `main_grad`, the gradient buffers, the memory buffer of the
sequence-parallel gather and the module-wide groups are shared mutable state that
outlives the call that set it.  A job is killed and launched again, and what it
finds on disk was left by processes that died at any point of a write; the sizes of
a launch may differ from those of the one that wrote.  `PROJECT.json` lists these
hazards at their lines, with the properties aimed at each.

## 2. The modules

```
ParallelState ── P2PCommunication ──┐
      │                             ├── BitPipe4VR ──(implements)──> PipelineFlow
      ├── BitPipeOrder ─────────────┤
      │                             └── TrainStep  (BitPipeOrder)
      └── LayerAssignment ── MCLayerAssignment ──┐
                                                 │
DistributedOptimizer, ModelOptimizer
       ──(implement)──> SerialOptimizer           │
TensorParallel  RandomStates  Datasets           ├── MCParts
CyclicSampler  CheckpointConversion              │
ProcessGroups  ParamScheduler                    │
ShardedCheckpoint  Preprocessing                 │
RetrievalDatabase  SentenceDatasets              │
LaunchArguments  WebCorpus  LanguageModel        ┘
Schedules       TextGeneration       TrainingLoop
```

Each `MC…` module gives the constants of a module their values for TLC; each
`…_proofs` module extends one with its theorems (ScheduleTensors_proofs goes on where
Schedules_proofs ends).  Operators whose name has a
suffix and whose comment says "mutant" are deliberate faults: with one of them
in place of the original the property it is meant for must fail.  The `map` of
`PROJECT.json` names the lines every definition stands for; a helper whose lines
lie inside those of the operation that uses it has no entry of its own.

`MCParts` holds the instances of the parts that divide layers, tensors, optimizer
state or samples among processes, keep them in files, or carry them from stage to stage.  They share no state, so
a behavior is one of one part while the variables of the others keep still; one run
checks them side by side and the property of each part is about that part only.

### The schedule and its surroundings

**ParallelState** is the topology as functions of the pipeline rank and the
virtual rank: `NextRank`, `PrevRank`, `IsFirstStage`, `IsLastStage`, `BdPartner`,
and the reordering of the process group (`PipelineGlobalRank`, `PipelineRank`).
`Pipe` and `StageOf` are reading aids: chunk 0 of device `r` is stage `r` of
pipeline 0, chunk 2 stage `2P-1-r`, chunks 1 and 3 the mirror image.

**P2PCommunication**: an operation is what `_communicate` posts, at most one
send and one receive.  A tensor is what it stands for: the activation or the
gradient that leaves stage `s` of pipeline `p` for microbatch `i`.

**BitPipeOrder**: the two lists `get_microbatch_idx` and `get_bkmicrobatch_idx`
build, as functions (no recursion), with the two markers (`-1` in the code,
`Sync` here).  `N` is `num_microbatches`.

**BitPipe4VR**: one call of the schedule on all devices.

| code | model |
|---|---|
| the position of a device in its loops | `pc[r] = [phase, loop, k]`; phases `recv`, `warmup`, `mid1`…`mid4`, `last`, `cooldown`, `finish` in the order of the code; `PhaseLength` is each loop's `range` |
| `input_tensors`, `output_tensors`, `output_tensor_grads` | `inputTensors`, `outputTensors`, `outputTensorGrads`: sequences per device and chunk |
| `_VIRTUAL_PIPELINE_MODEL_PARALLEL_RANK` | `vrank` |
| a blocking p2p call | the loop body posts it in `comm[r]`; the device's next action needs `comm[r]` empty again; `Transfer(a, b)` moves one tensor |
| `data_iterator[c]` | `fed[r][c]`, how often it was advanced |
| `forward_data_store` | `losses`: which microbatch met which labels |
| `main_grad` of a chunk | `mainGrad`: the set of (pipeline, microbatch) whose gradient is in it |
| `allreduce_gradients` (barrier and all-reduce) | one joint step of the two members of a bidirectional group |

An action is a loop body up to its wait: `Warmup` (lines 534–594), `ForwardPass`
and `BackwardPass` (the two halves of the 1F1B loops mid1 604–669, mid3 713–763
and last 818–888), `CooldownBackward` (mid2, 674–710), `WarmupAgain` (mid4,
766–814), `FinalBackward`, `AllReduceGradients` and `LeaveSync` (the final
cooldown, 899–997), `Finish` (999–1008).  The differences between loops that
share an action are `FinalTurn` and `Quiet`.  A Python exception is a state in
which the device has no action; `NoIndexError` names these states.  A device that waits
goes on waiting (`StillWaiting`, a step of `FairSpec` that changes nothing): calls that do
not match violate `Termination`, in `Schedules` likewise.

**PipelineFlow** is the promise: two pipelines of `S` stages, counters of the
microbatches that went forward and backward through each stage, and an average
per stage after the batch.  `BitPipe4VR!Flow` maps the schedule's state to it
(`forwards` from `fed`, `backwards` from the passes whose output was popped,
`averaged` from `reduced`).

**Schedules**: the schedules of one pipeline.  Which one runs and how is the record
`config`, chosen at the start.  `place[r]` is the loop and turn of a device, split
where a turn waits; `dev[r]` what it holds; the operations a device has posted wait
in order, one by one or as a batch, and the links move one tensor at a time.  With
variable shapes each exchange is preceded by one of shapes, with overlapping the
device goes on and waits for the handle later.  A pass that finds no tensor, or
another one than its own, leaves the mark `Wrong`, which `TypeOK` excludes.

**LayerAssignment**: a launch (mode, table, number of layers) is validated or
rejected; then devices build their chunks in the order of `get_model`'s loop,
interleaved freely.  Rejection is each `raise` or `assert` in turn; tables are
sequences of any length, so that malformed files occur.

**LaunchArguments**: launches over directories of checkpoints.  `Parse`, the completion from
a checkpoint, `Validate` assertion by assertion with what it completes, the layers and
tensor sizes of every chunk for contiguous, interleaved, bidirectional and
encoder-decoder models, and the checks of a load.  A launch stops where the code raises.

**TrainStep**: the two end devices 0 and `P-1` from the building of the model
over several training steps.  A chunk has the parameter `"layers"`, standing for
all its own, and, at the ends, `"word"`: the embedding or the head that shares
its weight.  `SlotChunk` is where a `main_grad` attribute points, which the
optimizer changes (`rebound`).  Values are integers; the update subtracts the
gradient, because the properties are about *which* gradients arrive there.  The
backward order is BitPipeOrder's.

**TrainingLoop**: a job over several lives.  The state in memory is lost when the
job stops, files and tracker stay.

| code | model |
|---|---|
| the place in `pretrain`/`train` | `phase`: `start`, `train`, then the checks after a step in the code's order, `signals`, `interval`, `duration`, `exit`; `save` inside `save_checkpoint`, with `after` the phase it returns to; `stopped`, `over`, `failed` |
| `args.consumed_train_samples` | `consumed`, in batches (below) |
| the samplers of the chunks' iterators | `position[p]`, the next batch of pipeline `p` |
| the batches that were read | `trained`, a history variable: it is saved and restored with the parameters, for which it stands |
| the place of a rank in `save_checkpoint` | `step[r]`: `begin`, `writing`, `barrier`; on rank 0 `publish`, `truncated`; `end` |
| `iter_*/mp_rank_*/…pt` | `files[w][i]`, absent, partial, or the saved state |
| `latest_checkpointed_iteration.txt` | `tracker`: absent, empty, or an iteration |
| `_signal_received` | `flagged` |

A *batch* is one microbatch on every data-parallel rank, so that batch sizes are
numbers of microbatches (`NumMicrobatches`).  `TrainStep` there is a whole
training step of all ranks, which its collectives join; the ranks take separate
steps in `save_checkpoint` only.  `Crash`, `Signal` and `Launch` are the
environment.

**TextGeneration**: threads of the server take the lock and announce a request;
ranks other than 0 loop in `run_text_generation_server.py`.  `dev[r]` is what a rank
holds, `op[r]` the communication it waits in: a broadcast of the world, of the
model-parallel group or between the first and the last stage, or a tensor passed to
the next stage.  `Collective` completes when the members of a group wait in the
same call; that they wait in *different* ones is a deadlock for TLC.  A token that is
sampled carries the row and the positions it was computed from.

### Parts that divide or keep

**SerialOptimizer** is one process with all elements: one master value, one moment.
**DistributedOptimizer** has the buffer of each chunk, the slices of the ranks
(which cut parameters anywhere), the weights in the storage of the gradients, the
dynamic scaler with its two trackers, and checkpoints that another number of ranks
reads.  An action is a collective with what ranks do alone up to the next.  The
refinement mapping takes the master values from their owners.

**ModelOptimizer**: the two optimizers that are not distributed, in models divided over
stages, tensor- and data-parallel ranks.  `points` says which tensor `grad`, `main_grad` and
the grad of the copy are, so that in-place operations reach all that share one; `tensors`
are the contiguous buffer, autograd's own and the copy.  It implements the same
**SerialOptimizer**.

**TensorParallel**: the smallest model with every kind of layer, from the embedding to
the loss, on whole numbers; a value is a function of the rank and a layer one step.
Sequence parallelism, asynchronous sums, frozen weights and the shared memory buffer
are configurations.  The reference is the undivided model, computed by operators
that know no ranks.

**RandomStates**: the generator and the tracker's dictionaries as *references*, so that
what is copied and what is shared shows; forks, `CheckpointFunction` and saving.

**Datasets**: split, epochs, document, sample and shuffle index, blend, and the files of
each with rank 0's writes, which a death or a full disk cuts short, and the counting
all-reduces behind them.  **CyclicSampler**: iterators that each follow the consumed
samples with no word among them.

**SentenceDatasets**: the mappings of sentences that rank 0 writes, found by later
launches by a name that leaves out the split and the binary head, and the sample made
from a run of them: BERT's segments, truncation token by token and masking candidate by
candidate, T5's sentinels, the query of the cloze task.  A token is its place in the
corpus, so that a property can say what a sample was made of.

**ProcessGroups**: `initialize_model_parallel` with all its lists for any sizes, the
getters, `destroy_model_parallel`, one initialization after another.
**ParamScheduler**: the scheduler over updates, saves and launches with other values,
the two flags and the assertions.

**CheckpointConversion**: each message of the queue, the stage being built, the cuts.
**ShardedCheckpoint**: shards of core's GPT, `validate_sharding_integrity`, the three
load strategies, ranks that save one by one and may be killed.  Elements carry the name
they have in the undivided model, `<<key, layer, row>>`, so that a load is right when
every name is where another division wants it.

**LanguageModel**: a microbatch on its way through the stages of GPT, Bert, T5 or Retro.
A hidden state is, per position and column, the tokens it was computed from, with the
layers it passed; a gradient is the layers it came back through.  `station` is where
the microbatch is, `wire` what is between two stages, `tape` what a stage keeps for its
backward pass, `meters` the two counts by which a chunk tells the first microbatch of a
step, whose fp8 copies of weights the others use.

| code | model |
|---|---|
| `get_model`, `ParallelTransformer.__init__` | `Build`: which layers of which type each stage has |
| `set_input_tensor`, the head of `TransformerLanguageModel.forward` | `Arrive` |
| `ParallelTransformerLayer.forward` | `Layer`, with `SelfAttention`, `CrossAttention`, `RetroDecoderCrossAttention` |
| the decoder behind the encoder on one stage | `DecoderEmbedding` |
| `send_forward`, `deallocate_output_tensor` | `Depart` |
| `backward_step` with its skip connection | `BackwardStep` |

**Preprocessing**: launches of `preprocess_data.py` with a child per partition, the data
file and the index that `finalize` writes, merging; children and launches may die.
**WebCorpus**: the scripts of `tools/openwebtext` line by line, the results of their pools in
the order of the input, bins of equal hashes compared side by side, kills and launches
that begin again.  Words have one letter and texts a few characters.
**RetrievalDatabase**: launches of the task `build`; each rank takes the blocks that are
missing, writes a file per block and meets the others at barriers.  A chunk stands
for its text, embedding and code.

## 3. The runs

| run | what it checks | result |
|---|---|---|
| `train` | 4 devices, 12 microbatches: `TypeOK`, `RightTensor`, `StorageBounded`, `StepComplete`, `SameLayersReduced`, `ImplementsFlow`, `Termination` | holds, 5222 states |
| `six` | 6 devices, 12 microbatches, with `grad_sync_func`: `RightTensor`, `SynchronizedWhenComplete` | holds, 96936 states |
| `schedules` | 1 to 5 devices, no pipelining, 1F1B and interleaved, each way to communicate: `TypeOK`, `StorageBounded`, `SyncInTime`, `BatchDone`, `Termination` | holds, 113085 states |
| `trainstep` | three training steps, updates skipped at will: `ReplicasAgree`, `UpdatesRight` | holds, 654 states |
| `loop` | 3 ranks, one pipeline and a ramp-up, with crashes, signals, exits and restarts: `TypeOK`, `DamageOnlyInWindow`, `DataFollowsSamples`, `PublishedComplete`, `LosesAtMostInterval`, `Ends` | holds, 10026 states |
| `generation` | 2 clients, 8 kinds of request, 3 stages: `OwnContext`, `AnswerRight`, `BestKept`, `EveryRequestAnswered` | holds, 312602 states |
| `parts` | the parts of `MCParts`, one property each: `StagesTile` and `ReplicasMatch` (layers), `ImplementsSerial`, `SplitAsWhole`, `DrawsAsPlain`, `SamplesAsPromised`, `CyclesAsPlanned`, `ConvertedWhole`, `GroupsFit`, `RatesFollowSamples`, `ShardedAsWhole`, `PreparedAsWritten`, `RetrievalAsBuilt`, `SentencesAsWritten` | holds, about 247000 states |
| `rotary` | the rotary embedding of a prompt in micro batches | `QueriesRotated` fails |
| `frozen` | the gradient of the input of a frozen product | `FrozenGivesInputGradient` fails |
| `sync` | 1F1B with torch's data parallelism | `EveryGradientReduced` fails |
| `word_grad` | the gradient of the word embeddings | `WordGradientReduced` fails |
| `once` | the batches of two pipelines | `EachBatchOnce` fails |

What the properties say, in the terms of the code:

- `RightTensor` (`NoIndexError`, `RightActivation`, `RightGradient`): whenever a pass
  starts, `input_tensors[c][-1]`, or the three heads that are popped, are there and
  belong to the microbatch the chunk is at, to its pipeline, and to its place in it.
- `StorageBounded`: at the end all lists are empty, and a device never keeps more
  activations than its warmup and one more, however many units follow.  In
  `schedules` the bound is each schedule's warmup, and that of partial activation
  checkpoints the window.
- `StepComplete` (`LossOfEveryMicrobatch`, `GradientsComplete`): each loss was computed
  once with its own labels, and every chunk's gradient holds all microbatches of both
  pipelines and was averaged once.  `BatchDone` is the same for one pipeline.
- `SynchronizedWhenComplete`, `SameLayersReduced`, `SyncInTime`: the eager
  synchronization is neither early nor between chunks with different layers, and
  parameters are gathered before a pass uses them.
- `ImplementsFlow`, `Termination`: every behaviour is one of the abstract
  pipeline, and every device reaches the end of its program.
- `StagesTile`, `ReplicasMatch`: each pipeline runs every layer once and in order,
  whatever the table, and replicas hold the same layers.
- `ReplicasAgree`: between steps the two pipelines have equal parameters although
  nothing copies them after the start; `UpdatesRight`: the update of the layers
  uses the average of the whole batch, nothing twice and nothing left over, and
  embedding and head change by the same amount.
- `PublishedComplete`: the tracker is given an iteration only when the files of all
  writers hold the state of this life of the job, also when an earlier life left
  files of the same iteration.  `DamageOnlyInWindow`: what the tracker names is
  unreadable only while rank 0 rewrites the tracker, and in the save after the
  last iteration, which may write the named files again (`training.py:164`).
- `LosesAtMostInterval`, `Ends`: a restart repeats at most `save_interval`
  iterations, and with finitely many crashes the launches come to an end.
- `DataFollowsSamples` (`EachBatchOnce`, `ResumesAsUninterrupted`,
  `TrainsTrainSamples`): over all lives no batch is read twice or left out, each step
  reads what it would have without a restart, and less than one global batch of
  `--train-samples` is left.
- `OwnContext`: a token is computed from its own row's positions so far and from no
  other's, in whatever micro batches rows travel; `AnswerRight`: a reply is what the
  stopping rule of that request makes of its prompts; `BestKept`: beam search returns
  the best hypotheses it met; `EveryRequestAnswered`: no thread and no rank waits for ever.
- `ImplementsSerial`: shards together are the master values one process would have, at
  every collective and through every checkpoint, and so are the copies all ranks keep without the distributed
  optimizer.  `SplitAsWhole`: loss and gradients
  are those of the undivided model; a position's output is made of the tokens and the
  neighbours it may depend on and of no others (`OutputAsAsked`), the gradient reaches every
  layer, and the encoder from every layer of the decoder, once (`GradientOfAll`), and no
  layer computes with copies of older weights (`WeightsFresh`).  `DrawsAsPlain`: recomputation and restarts draw
  the same random numbers.
- `SamplesAsPromised`: samples are the pieces of the stream, each document once per epoch,
  a blend does not run out, and only complete files are read.  `CyclesAsPlanned`:
  all launches together read the batches of an uninterrupted training, no sample
  twice in an epoch.
- `SentencesAsWritten`: every process reads a whole mapping whose runs tile the documents
  of the launch that wrote it; with the labels put back, a sample of BERT is two pieces
  of its run on the two sides of a cut, masked by whole words, the spans of T5's
  decoder fill its encoder's sentinels to the text again, a query is a sentence of its
  block; what is refused has one of the reasons named.
- `RatesFollowSamples`: every update has the rate that belongs to the samples learned in
  all launches.  `GroupsFit`: an initialization divides the processes into groups that
  fit together, or raises; a launch that took up a checkpoint has the model that was
  written; one that repeats a command repeats the launch.  No layer of a running launch is
  in two chunks, and none is missing if and only if the layers of a stage divide among its
  chunks: the others run as well, and lack layers (*Launches*, below).
- `ConvertedWhole`, `ShardedAsWhole`: what a conversion, or a load by other sizes, gives is
  the same model; they end without it only for the reasons the property names.
- `PreparedAsWritten`, `RetrievalAsBuilt`: a launch that ends has the dataset, or database,
  that one process would have made in one go, whatever killed launches had left;
  the exceptions are named in the property.  In a corpus from the web one document
  of each group of copies stays, and no text of the tasks.

### Disagreements found

With a run:

1. `optimizer.py:229`: `weight1.main_grad = weight.main_grad` is never undone, so
   from the second step on embedding and head accumulate in one tensor and `+=`
   doubles it (`word_grad`).  After the rebinding `clip_grads.py:101` also scales that
   tensor twice.
2. `training.py:124`: the iterators of both pipelines read the same batches, while
   the notes give each pipeline its own and `consumed_train_samples` counts both
   (`once`).  A restart then begins at twice the batches that were read.
3. `schedules.py:1296`: in 1F1B the last device has no cooldown, where the reduction is
   switched on again: with torch's data parallelism its gradients are never reduced (`sync`).
4. `core/tensor_parallel/layers.py:256`: the operator for a frozen weight does not sum
   the gradient of its input over the ranks, although the caller has left the sum to
   it (`frozen`).  It gives no gradient of the bias either.
5. `transformer.py:656`: with a prompt in micro batches only the first allocates the
   memory, and the others rotate their queries by one position (`rotary`).

Met while reading, without a run of their own:

- *BitPipe.*  With `overlap_p2p_comm` the warmup loop communicates not at all
  (`bitpipe_4vr.py:559`).  Heads start with zeros instead of the embeddings' weights:
  the all-reduce pairs embedding with embedding and head with head (`module.py:103`).
  The example at `config_utils.py:124` gives offset 2 for device 0 in virtual rank 1, the
  code 5; the code is consistent.  The symmetric mode accepts an odd number of devices
  (`arguments.py:240`), which README.md:332 excludes; the groups are then lists with
  repetitions.  A ramp-up whose sizes are not multiples of the pipeline raises in the
  middle of a run (`microbatches.py:141`, `bitpipe_4vr.py:185`).  With both replicas of a
  stage the gradient norm counts it twice, a factor of the square root of two
  (`clip_grads.py:92` against `:37`).  `get_pipeline_model_parallel_first_rank` and
  `_last_rank` are wrong for virtual ranks 3 and 0; nothing calls them.
- *Schedules.*  The interleaved schedule keeps more partially checkpointed activations
  than its window, as `k % (W + 1)` presumes first in, first out.  Forward-only with a
  `grad_sync_func` launches reductions (`schedules.py:913`, `1324`).
- *Groups and seeds.*  `destroy_model_parallel` leaves the bidirectional, Gloo and split
  state, so BitPipe cannot be initialized again (`parallel_state.py:718–747`); a call that
  fails changes the virtual rank first; `_initialize_distributed` initializes the process
  group a second time.  Seeds `seed + 100·pp + 10·dp` collide from ten replicas on.
- *Launches.*  Interleaving is asked for by layers, but the assertion at
  `transformer.py:1447` divides all layers by the number of chunks while its message speaks of
  a stage's: 20 layers on 4 stages with 2 per chunk start, and lose four (`GroupsFit` holds
  with this exception, and only this).
  `--standalone-embedding-stage` never starts: its layer number exceeds the list of
  drop-path rates.  `--use-checkpoint-args` with the encoder's own options, which the T5 scripts
  give, is refused by `validate_args`.  `check_checkpoint_args` compares neither the
  virtual size nor `rotary_percent` nor `apply_layernorm_1p` (`checkpointing.py:36`), which
  change what the same tensors mean.  In a directory with files of both namings
  `find_checkpoint_rank_0` takes the one without a pipeline, however old.
- *Optimizer.*  With sequence parallelism and local data parallelism without contiguous
  buffers the gradients of the normalizations are reduced before `main_grad` exists: the first
  step raises AttributeError (`optimizer.py:288`).  A checkpoint saved before the first update raises KeyError
  (`distrib_optimizer.py:616–628`); the group order of mixed types differs between 237 and
  340.  `load_state_dict` of the scheduler steps before the weight-decay values are set.
  Label smoothing uses the size of the part of the vocabulary (`cross_entropy.py:71–88`).
- *Checkpoints.*  The tracker is truncated before it is written (`checkpointing.py:282`); a
  crash in between needs an edit by hand.  Sharded: every rank truncates and rewrites
  `metadata.json` without a barrier; a part that is padding only is refused by one
  strategy; layers that the stages do not divide are found by validation only; gated
  biases are mixed when the tensor size changes (`transformer_layer.py:200`).
  Conversion: an untied head is not padded again, and the loader waits for ever on a full
  queue when the saver has died.
- *Data.*  Rounding a split may give a negative first document; a blend too small fails
  at its last access; the cache of indices is keyed by description, not contents, and a
  cut last file makes later launches fail.  Without `data_sharding` cyclic sampling drifts
  when the last partial batch is at least a micro batch.
- *Sentences.*  The name of a mapping has neither the split nor the binary head
  (`dataset_utils.py:740`): one made without the head has samples of one sentence, which
  fail an assertion later.  A corpus without a document that qualifies is gone through
  2³¹ times (`:737`); no samples raise; a mask probability of zero gives four values
  where five are unpacked (`:233`).  `num_to_predict` may be less than one (`:236`), and a
  short sample then has no label.  A piece that continues a word belongs, at the start
  of the second segment, to the last word of the first.  T5's sentinels or decoder may be
  too few for what was drawn.  Titles of the cloze task are looked up by the document's
  number within its split, so that validation and test have those of the corpus's
  first documents (`ict_dataset.py:83`, against `realm_dataset_utils.py:80`).
- *Preprocessing.*  Only the last of several `--json-keys` gets an index
  (`preprocess_data.py:178`); a child's death is not noticed; files of a killed launch are
  taken as complete (`:301`, `:340`); one partition with `--split-sentences` only splits
  (`:354`).  The index of modes is written and read in different places
  (`indexed_dataset.py:368`, `430`).
- *Web corpus.*  A comma is missing between `'.7z'` and `'.ai'`, so neither is refused
  (`blacklist_urls.py:136`).  `ftfy_fix_text` excludes `general_cleaning`
  (`cleanup_fix_dataset.py:53`).  A line that is no json is caught and then fails with an
  unbound name (`filter_ngrams.py:171`); a list of ngrams without any, or all of them too
  frequent, raises (`:281`), and texts shorter than the longest ngram are not
  looked through for shorter ones (`:131`).  The README speaks of a similarity of 0.9, the script of
  0.7 (`group_duplicate_url.py:18`).  The last shingle of a text is left out, so that texts of up
  to five characters are never copies; what an exact search keeps depends on
  the order of a set.
- *Models.*  With Transformer Engine a chunk of BitPipe sees half of the passes that
  `get_num_microbatches()` counts, so that its fp8 weights are cast in every second step only
  (`transformer.py:1707`; `WeightsFresh` is about the other schedules).  More decoder than
  encoder layers run past the list of drop-path rates (`:1407`).  Recomputation in pieces that
  do not divide the layers of a stage indexes past the last one (`:1567`).
  `NoopTransformerLayer.forward` lacks the parameters the others are called with.  Retro with less
  than six layers never reads a neighbour; a sequence its chunks do not divide raises
  (`:984`).  A fused causal softmax does not look at the mask, so that
  `--reset-attention-mask` has no effect with it (`fused_softmax.py:178-184`).
- *Retrieval.*  A merged file of embeddings that a kill cut is trained on
  (`index/build.py:59`); a kill between counts and offsets leaves a database accepted
  without its last offsets (`db/build.py:459`); `faiss_par_add.py:147` raises when deletion is
  asked for; a slow rank's look at an earlier launch's file makes the collectives differ
  (`index/build.py:131`); the neighbour `-1` reads the last chunk (`retro_dataset.py:74`).
- *Generation.*  Beam search returns whole padded rows.

## 4. Bounds, and why they are enough

- *BitPipe.*  `P = 4` is the smallest even size the code accepts and has both an end
  and a middle device in each half; `P = 6` adds devices that are neither, an odd half
  (`num_initial` and its complement differ) and turns of mid3 on several devices.
  `N = 12` on four devices is three units: the loops mid1–mid4 run once after the
  warmup and once after themselves, before the last unit.  More units repeat them
  with the same lengths and offsets.  On six devices two units are enough.
- *Schedules.*  One to five devices; fewer microbatches than devices, as many and more;
  an odd number closes the ring between devices of equal parity; two and three chunks
  per device, the third being the one whose parameters are launched late.
- *Layers.*  A table of the asymmetric mode is ones except for at most two chunks with 0
  to 3 layers: any two chunks of the first half may differ, be empty or make the total
  wrong.  Symmetric launches have 1 to 16 layers.
- *TrainStep.*  Three steps: the first, the first with a rebound `main_grad`, and one
  that starts from the second's buffers.  All initial weights and gradients of
  `MCTrainStep` are different multiples of four: a wrong partner or a double
  contribution changes a sum, and the two averages stay whole numbers.
- *TrainingLoop.*  Three ranks: rank 0, another writer, and one that writes nothing; more
  of either kind wait at the same barrier.  `MaxStops` bounds crashes, signals and ends
  of the allotted time together; two let a crash follow a save that a first one, or
  a signal, left behind.  Launches are not bounded.  Five iterations, a save after
  2 and 4, an exit after 3: jobs exit with and without a save just before.
  The ramp-up has the sizes 2, 2, 4, 6, 6 and leaves one of 21 batches,
  so that sizes repeat, grow and stay, and the last partial batch is dropped.
- *TextGeneration.*  Three stages, so that one is neither first nor last; two threads, so
  that one waits for the lock; a threshold of four tokens, so that prompts of two rows and
  more travel in micro batches, the last of which may be smaller; eight requests,
  one for each stopping rule and refusal and three beam searches.
- *Parts.*  Plain optimizers: ten combinations of flags, three layers on one or three stages,
  with and without a split rank; two steps, with and without a skipped one, one or two
  replicas in each launch.  Distributed optimizer: two chunks with parameters that every division cuts, one to three
  ranks, one of them with padding only.  Tensors: four words, four units, two
  microbatches, one and two ranks.  Random states: two layers and three microbatches, so
  that one is forward, one kept and one backward.  Datasets: corpora that need one to
  three epochs with and without a last one apart, two replicas of two stages.  Sampler:
  numbers of samples that divide and that do not.  Conversion and sharded checkpoints: to
  fewer, other and more of each size, from interleaved chunks, with vocabularies that are
  padded otherwise.  Groups: sizes that divide the world and that do not, two or three
  initializations.  Rates: values that differ in every curve.  Preprocessing: one partition
  and several, one empty, two launches.  Retrieval: two corpora, blocks that do not divide
  them, two or three ranks, two kills in three launches.  Arguments: three launches over a
  directory to train in and one to finetune in, on four and eight processes.  Sentences: five documents, one
  with a sentence that is too long and one with a single sentence, seven jobs of one to
  three launches that share mappings or do not.  Web corpus: a handful of urls and documents with
  chains of copies, texts around the length of the ngrams, a kill.  Models: one to
  four stages, a split rank, five to sixteen layers of Retro with chunks that divide the sequence
  and that do not; two samples, of which one is padded; three steps with another
  number of microbatches, skipped updates and evaluations between them.
- No state constraints are used; counters are bounded by the programs themselves,
  and by the constants `Max…`, `launches` and `kills` named in the modules.

The schedules' processes are deterministic, and only the order of their steps is
not: the small numbers of states are all interleavings, not a sample.

## 5. Fairness

`FairSpec` of BitPipe4VR asks weak fairness of each device and of each transfer: a
process that can go on with its program does (Python runs it, nothing preempts it
for ever), and a send and receive that are both posted complete (NCCL's progress
guarantee; without it the job is killed by its timeout, which the program does not
survive).  Schedules and TextGeneration ask it of the devices, threads, links and
collectives *together*, which is weaker: in a program without choices that is enough.
`PipelineFlow` asks the same of its next-state relation.  TrainingLoop asks weak
fairness of the program's own steps and of `Launch`: a stopped job is launched again,
as the exits after an interval or a duration presume.  Nothing is asked of `Crash` and
`Signal`, nor of clients to ask.  Nothing else is assumed; safety properties use no
fairness, and the parts have none.  A transfer needs both ends posted: a backend that
buffers sends can only complete earlier, in the same order per pair.

Deadlock is TLC's own check in every run but those of `MCParts`, whose parts end, and of
`train` and `schedules`, where it is `Termination`: an open wait is a step there.

## 6. What is proved

All theorems are about the specifications TLC runs, for every value of the
constants under their assumptions: `P > 2` (raised in `parallel_state.py:142`),
`P` even (documented in README.md:332; in BitPipeOrder), `N` a positive
multiple of `P` (raised in `bitpipe_4vr.py:185`).

**BitPipeOrder_proofs**, without any state: `MarkerPlaces` (where the markers are
in the backward order of each device), `RingInverse`, `NextStage` (the next rank
holds the next stage of the same pipeline), `PartnerReplicas` (the partner holds
the replicas), `PermutationInverse` (the rank computed from the process group
inverts its reordering).  The orders themselves are given a closed form: a place
`k` of a device has a *role* 0..3 (`RoleAt`), a role has a count of places before `k`
(`RoleCount`, `RoleDone`), and the chunk of a place is the chunk of its role.
`ForwardOrder` and `BackwardOrder` say that the next place of a chunk is its next
microbatch and that every chunk gets as many as a pipeline has; `LastIsLast` and
`LastBackwardPass` say what `is_last_microbatch_for_model_chunk` means.

**BitPipe4VR_proofs**
- `CountersGood`: the invariant `GoodCounters`, that every `pc[r]` is inside a loop
  of its device, with `NextPlace` staying there; it needs arithmetic about the
  lengths of the loops (`2P = warmup + unit_remaining`).
- `TypeCorrect`: `TypeOK` is not inductive, because typed lists need typed tensors
  in transit and chunk numbers that are never the marker.  The invariant is
  `GoodCounters /\ DataOK`; one lemma per action shows that the orders are read
  inside their domain (`ForwardPlaces`, `BackwardPlaces`), where chunk ids are
  chunks.
- `SameLayers`: `SameLayersReduced` holds because both members of a bidirectional
  group have always met equally often.  The strengthening `MarkerInv` says that
  `2 * MarkersPassed(r) + synced[r]`, the number of all-reduces device `r` has
  taken part in, is the same on both; with `MarkerPlaces` that number determines
  which replicas the next all-reduce is for.

- `PassesCounted`: the invariant `CountInv`, that `fed` and the lengths of
  `output_tensors` are the numbers of forward and backward passes before the device's
  place (`Forwards`, `Backwards`): what a device has done follows from its place alone.
  `SynchronizedComplete` (`SynchronizedWhenComplete`)
  follows with `LastIsLast`, `OutputsBounded` (`ActivationsBounded`) with how far the
  counts of roles can be apart.
- For BitPipeLinks_proofs, the order in which a device uses one of its two links is put
  in a closed form as well (`PathKind`, `PathShare`): it is a fixed sequence of roles
  that does not depend on the device.

**BitPipeLinks_proofs**, all devices together, under `~OverlapP2P` (the default of
`model_parallel_config.py:140`; section 3 has what the other does):
- `TensorsInOrder` (`RightTensor`).  Nothing but the order keeps the untagged messages of
  two pipelines apart, so the invariant `TensorInv` has to relate neighbours: on each
  link the number of tensors the device above has put there (`Put`) is the number the
  one below has taken off (`Got`), which is `LinksAgree`; and each of the three
  lists of a chunk holds exactly the tensors of its microbatches from the first
  not yet consumed to the last received (`TensorsAt`).  A transfer pairs the tensor
  after `Put` with the receive after `Got`; the closed forms of the two devices'
  orders give both the same pipeline, microbatch and direction.  The virtual rank that
  the first backward pass after a marker sees is right because of `MarkerChunk`.
- `StorageStaysBounded` (`StorageBounded`): at the end the lists of `TensorsAt` are
  empty.
- `StepIsComplete` (`StepComplete`) with two more invariants: `LossInv`, the losses so
  far are those of the forward passes so far, in order; and `GradInv`, the gradient of a
  chunk holds its own microbatches before its all-reduce and all of both pipelines
  after it, where `SyncPlace` says which of the device's four all-reduces it is.
- `SchedulesImplementFlow` (`ImplementsFlow`): a forward pass is a step of the abstract
  pipeline because the tensor it consumes was put on the link by the stage before
  (`ForwardPrecedes`), a backward pass because of the stage after
  (`BackwardPrecedes`); an all-reduce averages a stage whose replicas have both done their
  batch (`ReducePair`); all other steps change none of the mapped counters.

**Schedules_proofs**, for every accepted configuration of the three schedules (`ConfigsAssumption`,
what the functions raise or assert on):
- `PlaceTellsWork`: the invariant `Inv`, that every device holds what its place in its program
  says (`DeviceOK`).  `StorageBounded` and `SyncInTime` compare what a device keeps
  with how far it is; neither says how far that is, so `Inv` does.  `Counts` has the forward and
  backward passes of each chunk among the first `n` in closed form (`Passes`: groups of `P`
  microbatches, chunk by chunk); `PartialOK` that the output `i` of a list is that of
  microbatch `summed + i - 1` and has the flag of its number; `ParamsOK` which chunks have been
  launched, counted `r` passes ahead as `param_sync_func` is; `Synced` what has been reduced,
  in the interleaved schedule by `SyncV`, counted `r` passes late as `grad_sync_func` is.
  There is one lemma per action (`PlainMoves`, ..., `InterleavedFinishMoves`); the
  step to the next loop that has a turn is `LoopFromStarts`.  A transfer, of whatever content,
  changes no counts (`TransferInv`): the theorems hold for any network.
- `StorageStaysBounded` (`StorageBounded`): the forward passes are at most the warmup and
  one ahead (`AheadBound`); of `warmup + 1` consecutive numbers no more than `partial` are
  below it modulo the window (`PartialBound`).
- `SynchronizedInTime` (`SyncInTime`): the pass that reduces a chunk is its last one
  (`LastPass`), also `r` turns late.
- `EveryPassDone`: at the end of its program a device has passed the whole batch through each
  chunk and keeps no activation (the counters of `BatchDone`).

**ScheduleTensors_proofs**, all devices of such a configuration together, whatever the
interleaving of their steps and of the transfers:
- `TensorsArePlaced`: the invariant `Inv /\ TensorInv`.  What a device holds depends on the
  order of all messages, which `Inv` does not speak of.  `TensorInv` counts them: a port (a
  side and a direction) of a device has been asked for `CountAt` tensors, a number its place
  gives; at most the last of these is in flight (`PortOK`), because no call posts a second
  before the first is waited for; so `Through`, the tensors that have passed the port, is
  known but for that one.  `LinkAgrees` says that the two ends of a link have had equally many
  through, and `Tensed` that every list holds the tensors of the microbatches from the first not
  yet consumed to the last that has arrived.  Both directions are treated at once, in the order of
  their own passes: at an end device the passes of one chunk send, or receive, nothing (`Skips`,
  `Transfers`), and with several chunks the direction goes on to the first device in the next
  chunk.  A transfer matches operations by kind, peer and order
  only (`CanComplete`); that these are the ones with the same pass number, so the tensor that arrives
  is the one that is next in the list, is `TensorComes`, from the counts alone.  Before
  and behind it: what each step posts (`Exchange` with `FreeFor`: the ports it uses are free, the
  shapes of an exchange included),
  what a pass makes of the lists (`ForwardTensors`, `BackwardTensors`), and one lemma per
  step of the programs.
- `TensorsOfTheirOwn` (`TypeOK`): a tensor placed by `Tensed` is a tensor of the model, never
  `Wrong`.
- `BatchIsDone` (`BatchDone`): at the end of every program nothing is left to come, and what
  the lists keep is the `None` of the ends.

**TrainStep_proofs**:
- `ReplicaInvariant` and `ReplicasStayEqual` (`ReplicasAgree`): `ReplicasAgree` is about the
  time between two steps only.  `ReplicaInv` says where in a step the two ends can be
  relative to each other, what differs at each of these places, and by what.
- `UpdatesAreRight` (`UpdatesRight`) with `LayersInv`, what the gradient of each layer
  has collected at each place of the step.

**TrainingLoop_proofs**, under `LoopAssumption` (what the argument checks and
`microbatches.py:104-115` assert), `EvenAssumption` (a step's microbatches divide over
the pipelines) and `ItersAssumption` (`train_iters` is not negative):
- `TypeCorrect` (`TypeOK`); the history and the iteration agree in memory and in
  every file.
- `NamedIsComplete` (`PublishedComplete`) and `DamageConfined`
  (`DamageOnlyInWindow`) from the inductive invariant `Good`.  Neither is inductive:
  that a named checkpoint is complete needs that writers past the barrier have
  written (`Written`), that the ranks are in step around the barriers (`Ordered`),
  that a file labelled `i` holds iteration `i` (`Labelled`), and that a save writes
  files the tracker names only after the last iteration (`Behind`).
- `RepeatsAtMostInterval` (`LosesAtMostInterval`) with, in addition, `Recent`: the
  tracker has reached the last multiple of `SaveInterval` before the iteration.
- `TrainsEverySampleOnce` (`DataFollowsSamples`), for one pipeline and a training no
  shorter than its ramp-up (`LongerThanRampUp`; two pipelines read the same batches,
  finding `once`).  The invariant `Uninterrupted` says that the state in memory, and that in every
  checkpoint on the disk, `Follows` the training without interruptions, so that no
  crash and no restart can leave it.  What is left is about `ConsumedAfter` and
  `RampUp`, two recursive functions: that they satisfy their equations, by
  induction over partial functions (`ConsumedStep`, `RampUpValue`); that the loop which
  counts the iterations of the ramp-up passes through the values training
  consumes (`RampFollows`); and that `train_iters` fits (`IterationsFit`).
  Induction itself is `Induct`, stated for a set of numbers and derived from the
  well-foundedness of `<`, because the library's theorem takes an operator.

**Parts_proofs**, of the parts LayerAssignment, ParamScheduler, CyclicSampler and
RandomStates, and of the abstract pipeline:
- `FlowTypeCorrect`, `OrderKept` and `AverageComplete` of an instance of PipelineFlow with any
  number of stages and microbatches, under its `FlowAssumption`; BitPipe4VR assumes that its
  own instance satisfies it (`FlowInstance`), which TLC evaluates.  With `ImplementsFlow`
  they describe the schedule.
- `SameLayers` (`ReplicasMatch`, in both modes, for every accepted table) from the invariant
  that a built chunk is what `LayersOfChunk` computes from the configuration that was
  accepted; `SymmetricTiles` (`StagesTile` in the symmetric mode).
- `RatesAreOfSamples` (`RatesFollowSamples`) for launches of `RateLaunch` (integers; the
  constructor asserts the rest, and the weight decay grows over a number of updates that is not
  zero) and any batch sizes.  `RateInv` says that the values in force are those the launch and
  the file lead to (`InForce`), that each group has the rate these values give for the samples
  learned (`GroupsSet`), and that a file holds values a constructor has accepted
  (`SoundFile`); the curves of `get_lr` and `get_wd` are the lines of the property
  (`CurveIsLine`).
- `EpochsAsPlanned` (`CyclesAsPlanned`) for launches of `SamplerLaunch` (what the constructor
  asserts, and at least one global micro batch, without which `__iter__` divides by zero) and a
  `randperm` that has every number once (`Permutes`).  The property is about reads; the
  invariant `SamplerInv` also says that each rank's iterator holds what is left of its epoch
  (`InPlace`), so that it does not matter whether a batch comes from an iterator
  that has gone on or from one made anew after a restart (`ShardedRest`, `InterleavedRest`).  That
  no sample is read twice (`SampleOnce`, `BatchOnce`) is nonlinear arithmetic: where a
  rank's `i`-th sample is in the permutation determines both.
- `DropsAsPlain` (`DrawsAsPlain`) for any number of layers, microbatches and steps, with and
  without sequence parallelism.  The property compares what was drawn; the invariant
  `RandomInv` says what is going to be: the generators stand after the numbers of the forward
  passes made so far, those of the file after the numbers of the saved step, and each
  microbatch whose backward pass is to come keeps the states its layers started from
  (`MicrobatchKept`), in dictionaries that no later pass changes: the one in force is not
  among them, and those of two microbatches do not meet (`AllKept`).  A pass is a chain of processes,
  one per layer; `LayersDrawInTurn` and `BackwardPassIs` follow it by induction, again
  on the set of the numbers a statement is shown for.

**Only model-checked.**  Liveness and `ENABLED` are outside the prover.  Not attempted
yet are the tiling of an arbitrary asymmetric table (sums over devices) and the parts whose
reference is a fold (`SplitAsWhole`, `SamplesAsPromised`, `ImplementsSerial`).
TextGeneration has no theorems yet, nor have the parts of `MCParts` other than the layers, the
rates, the cyclic sampler and the random states.

## 7. Assumptions and what is not modelled

- The schedules have one pipeline, data- and tensor-parallel size 1: those collectives
  are inside a step and do not touch the order of the pipeline.  Encoder-decoder
  models with a split rank are left out of Schedules.  In BitPipe4VR `param_sync_func` is
  `None`, as the training script never sets it.
- A process does not crash in the middle of a training step: its collectives stop
  the others until the launcher kills the job.  TrainingLoop has the crashes between
  steps and between any two steps of a save.
- TrainingLoop: sample-based training with the sequential sampler and `--save`,
  `--save-interval`, `--exit-interval`, `--exit-signal-handler` and
  `--exit-duration-in-mins` on; a dataset longer than the training; the ramp-up in
  exact arithmetic where the code divides in floating point.  Evaluation (commented out
  in `train`), autoresume and release checkpoints are left out.
- TrainStep: only the end devices; contiguous buffers of the local DDP, tied
  embeddings, no clipping or weight decay.  An update's size, momentum and precision
  play no part.
- TextGeneration: a sample is any token a stopping rule tells apart, so the filters, the
  temperature and the seed are left out; one tensor-parallel rank per stage.
- DistributedOptimizer: gradients of one type, as wide as the weights; parameter groups and
  clipping are in ModelOptimizer.
- The parts name what they leave out in `PROJECT.json`, under "components".
- Floating point is whole numbers or exact fractions wherever a property does not ask
  for rounding.
- LanguageModel sends one microbatch after the other and has no tensor-parallel parts:
  the schedules and TensorParallel have these.  That an output is a set of tokens says
  what it depends on, not how.
- Profiling and logging are left out: they change no list.
- Not modelled at all: the arithmetic of models and kernels, the downstream tasks, the vision models, the profiler, examples and scripts.

## 8. Plan

Done: the schedules with the abstract specification of BitPipe's, layers, a training
step, the training loop with its checkpoints and restarts, what divides tensors,
optimizer state and samples, the files data is prepared in, generation, and the first
theorems.  Next, in this order:

1. *Proofs*: `OwnContext` of generation, by the argument of ScheduleTensors_proofs.
2. *Composition* of Schedules with TrainStep under data parallelism, and clipping in it.
3. *Encoder-decoder* pipelines with a split rank in Schedules.
