--------------------------------- MODULE MCParts ---------------------------------
(***************************************************************************)
(* Instances, for TLC, of the parts of the program that divide layers,     *)
(* tensors, optimizer state or samples among processes, or hold them over  *)
(* time in files.  The parts share nothing, so they are checked side by    *)
(* side: a behavior is one of one part, and the variables of the others    *)
(* keep still.  The parts that theorems are stated of (layers, sampler,    *)
(* rates and random states) are the modules extended here, and the others  *)
(* are instances.                                                          *)
(***************************************************************************)
EXTENDS MCLayerAssignment, CyclicSampler, ParamScheduler, RandomStates, TLC, FiniteSetsExt

CONSTANTS RunParts,        \* the parts that are run
          TensorParallels, \* the configurations of the tensor-parallel part
          Absent           \* None, for an option

VARIABLES
  part,
  opt_phase, opt_world, iteration, weights, storage, shards, allocated, scaler, disk,
  tp, pass, flows, kept, buffer, grads, losses, reduced,
  data, indices, files, at, failed,
  conv, loading, sent, queue, saving, got, stage, converted, written,
  job, globals, called, raised,
  task, life, spot, directory, read, outcome,
  prep, launched, main, child, folder, merging, died, killed,
  build, worker, store, tally, past,
  sentence_job, sentence_launch, mappings, builders, held_mappings, sample, sentence_ending,
  directories, standing, command, arguments, source, launch_times,
  flags, turn, replicas, steps, passes, model, mains, tensors, points, loss_scaler, model_file,
  web, desk, shelf, clean_urls, pairs, groups, bench, web_raised,
  net, stacks, station, hidden, encoded, wire, tape, meters, clock, net_raised

None == << >>

(***************************************************************************)
(* The distributed optimizer.  Two model chunks, each with a parameter     *)
(* that every division cuts; three ranks leave one with padding only.      *)
(* Gradients are multiples of the batch, so that means are whole.          *)
(***************************************************************************)
Overflow == 100000
InitialWeight(e) == 4 * e[2] + 4 * e[3]
SampleGrad(e, s, w) == 6 * (((w + s + e[1] * e[3]) % 3) - 1)
AdamStep(x, g) ==
  LET a == (x.avg \div 2 + g) % 8 IN [param |-> (x.param + a) % 16, avg |-> a]
LowPrecision(v) == v - (v % 4)
InPrecision(v, p) == IF p = "fp32" THEN v ELSE LowPrecision(v)
Unclipped(g, squares) == g
NeverDecayed(e) == FALSE
AdamUndecayed(x, g, decayed) == AdamStep(x, g)

DO == INSTANCE DistributedOptimizer WITH
        Models <- << <<1, 3>>, <<2>> >>, Worlds <- 1 .. 3, Batch <- 0 .. 5,
        Initial <- InitialWeight, Grad <- SampleGrad, Adam <- AdamStep,
        Round <- LowPrecision, Inf <- Overflow, InitialScale <- 4, MinScale <- 2,
        GrowthInterval <- 2, Hysteresis <- 2, MaxIterations <- 3

BufferIndex == [e \in DO!Element |-> DO!BufferIndex(e)]
SliceSize == [d \in 1 .. 3 |-> [m \in DO!Chunks |-> DO!Padded(d, m) \div d]]
ParamStart == [q \in DO!Params |-> DO!ParamStart(q)]

\* The master value of an element, as its owner has it.
MasterOf(e) ==
  LET q == <<e[1], e[2]>>
      slice == SliceSize[opt_world][e[1]]
      r == BufferIndex[e] \div slice
  IN  shards[r][q][BufferIndex[e] - DO!MaxOf(ParamStart[q], r * slice)]

WeightOf(e) ==
  IF \A r \in DO!Ranks : weights[r][e] = weights[0][e] THEN weights[0][e] ELSE Overflow

OptimizerRuns == opt_phase # "down"

Serial ==
  INSTANCE SerialOptimizer WITH
    Element <- DO!Element, Batch <- 0 .. 5, Initial <- InitialWeight,
    Grad <- SampleGrad, Clip <- Unclipped, Decayed <- NeverDecayed,
    Adam <- AdamUndecayed, Round <- InPrecision, precision <- "fp16",
    phase <- IF opt_phase \in {"backward", "reduced"} THEN "ready" ELSE opt_phase,
    params <- [e \in DO!Element |->
                 IF OptimizerRuns THEN WeightOf(e) ELSE InitialWeight(e)],
    masters <- [e \in DO!Element |->
                  IF OptimizerRuns THEN MasterOf(e)
                  ELSE [param |-> InitialWeight(e), avg |-> 0]],
    saved <- IF disk = None THEN None
             ELSE << disk[1].model,
                     [e \in DO!Element |-> disk[1].state[e[1]][BufferIndex[e] + 1]] >>

(***************************************************************************)
(* The other optimizers, in jobs whose model is divided in each way, with  *)
(* gradients in each place.  Two samples are two microbatches, or one on   *)
(* each of two ranks.                                                      *)
(***************************************************************************)
ModelJob(p, ddp, c, a, t, s, norms, scale) ==
  [precision |-> p, ddp |-> ddp, contiguous |-> c, fp32_accumulate |-> a, tensor |-> t,
   stages |-> s[1], split |-> s[2], sequence_parallel |-> norms, loss_scale |-> scale]
ModelJobs ==
  {ModelJob("fp16", "local", TRUE, FALSE, 2, <<3, FALSE>>, TRUE, 0),
   ModelJob("fp16", "local", TRUE, TRUE, 1, <<3, TRUE>>, FALSE, 0),
   ModelJob("fp16", "local", FALSE, FALSE, 2, <<1, FALSE>>, FALSE, 4),
   ModelJob("fp16", "torch", TRUE, FALSE, 2, <<1, FALSE>>, TRUE, 0),
   ModelJob("bf16", "local", TRUE, TRUE, 2, <<3, TRUE>>, TRUE, 0),
   ModelJob("bf16", "local", TRUE, TRUE, 1, <<3, FALSE>>, FALSE, 4),
   ModelJob("fp32", "local", TRUE, FALSE, 2, <<1, FALSE>>, TRUE, 0),
   ModelJob("fp32", "local", FALSE, FALSE, 1, <<3, TRUE>>, FALSE, 0),
   ModelJob("fp32", "local", FALSE, FALSE, 2, <<1, FALSE>>, TRUE, 0),
   ModelJob("fp32", "torch", FALSE, FALSE, 1, <<1, FALSE>>, FALSE, 0)}

ModelInitial(e) == (4 * e[2]) + (8 * e[3])
PlaceNumber(place) ==
  CASE place = "encoder" -> 1 [] place = "decoder" -> 2 [] place = "head" -> 4 [] OTHER -> 0
PlaceGrad(e, place, s, w) == 20 * (((w + (3 * s) + PlaceNumber(place) + e[2]) % 5) - 2)
Root(n) == CHOOSE r \in 0 .. 500 : r * r <= n /\ n < (r + 1) * (r + 1)
ClipGrad(g, squares) == IF squares <= 1600 THEN g ELSE (40 * g) \div Root(squares)
AdamDecayed(x, g, decayed) ==
  LET a == ((x.avg \div 2) + g) % 64
      d == IF decayed THEN x.param \div 8 ELSE 0
  IN  [param |-> (x.param + a - d) % 128, avg |-> a]

MO == INSTANCE ModelOptimizer WITH
        Jobs <- ModelJobs, Worlds <- 1 .. 2, Samples <- 1 .. 2, Layers <- 1 .. 3,
        Initial <- ModelInitial, GradAt <- PlaceGrad, Offset <- 6, Adam <- AdamDecayed,
        Clip <- ClipGrad, Round <- InPrecision, Inf <- Overflow, InitialScale <- 4,
        MinScale <- 2, GrowthInterval <- 2, Hysteresis <- 1, MaxSteps <- 2,
        Overflows <- {<<"word", 0, 1>>, <<"norm", 2, 0>>}

WholeGrad(e, s, w) ==
  MapThenSumSet(LAMBDA place : PlaceGrad(e, place, s, w), MO!Places(e))

\* What all that hold an element have, if they have the same.
Common(held) ==
  [e \in MO!Element |->
     LET have == {held[x][e] : x \in {y \in DOMAIN held : e \in DOMAIN held[y]}}
     IN  IF Cardinality(have) = 1 THEN CHOOSE v \in have : TRUE ELSE Overflow]

FreshModel == [e \in MO!Element |-> ModelInitial(e)]
FreshMaster == [e \in MO!Element |-> [param |-> ModelInitial(e), avg |-> 0]]

SerialToo ==
  INSTANCE SerialOptimizer WITH
    Element <- MO!Element, Batch <- 1 .. 2, Initial <- ModelInitial, Grad <- WholeGrad,
    Clip <- ClipGrad, Decayed <- MO!Decayed, Adam <- AdamDecayed, Round <- InPrecision,
    precision <- flags.precision,
    phase <- IF turn = "down" THEN "down" ELSE "ready",
    params <- IF turn = "down" THEN FreshModel ELSE Common(model),
    masters <- IF turn = "down" THEN FreshMaster ELSE Common(mains),
    saved <- IF model_file = None THEN None
             ELSE << Common(model_file[1].model), Common(model_file[1].mains) >>

\* The optimizers are the serial one: at every collective the shards of all ranks
\* together, or the copy of every rank that holds an element, are the master values
\* and moments that one process would have, every rank has the weights made of them,
\* and a checkpoint is the same whatever number of ranks wrote it.
ImplementsSerial == Serial!Spec /\ SerialToo!Spec

(***************************************************************************)
(* Tensor parallelism: four words, four hidden units, two microbatches.    *)
(***************************************************************************)
Config(w, s, a, f) == [world |-> w, sequence_parallel |-> s, async |-> a, frozen |-> f]
SoundConfigs ==
  {Config(1, FALSE, TRUE, TRUE), Config(2, FALSE, TRUE, FALSE), Config(2, FALSE, FALSE, FALSE),
   Config(2, FALSE, FALSE, TRUE), Config(2, TRUE, FALSE, FALSE)}
FrozenAsyncConfigs == {Config(2, FALSE, TRUE, TRUE)}

TPar == INSTANCE TensorParallel WITH
  Configs <- TensorParallels,
  Weights <-
    [E |-> << <<1, 0>>, <<0, 1>>, <<-1, 1>>, <<1, 1>> >>, g |-> << <<1, 2>> >>,
     A |-> << <<1, -1>>, <<0, 1>>, <<1, 1>>, <<2, -1>> >>, a |-> << <<0, 1, -1, 0>> >>,
     B |-> << <<1, 0, -1, 1>>, <<0, 1, 1, -1>> >>, b |-> << <<1, 0>> >>],
  Tokens <- << <<0, 3>>, <<2, 1>> >>,
  Targets <- << <<3, 1>>, <<1, 0>> >>

\* "performs mathematically-identical forward and DGRAD": the layer before a
\* product whose weight is frozen gets the gradient it would get without the
\* division.
FrozenGivesInputGradient ==
  part = "tensor" /\ reduced =>
    TPar!Joined("g") = TPar!Add(TPar!WholeMicrobatch(1).g, TPar!WholeMicrobatch(2).g)

(***************************************************************************)
(* Datasets: two blended corpora; one with every number of epochs from one *)
(* to three, with and without a last epoch apart; two replicas of two      *)
(* stages; a split, a blend and a last sample that are refused.            *)
(***************************************************************************)
Corpus(sizes, w) == [sizes |-> sizes, weight |-> w]
DataLaunch(corpora, splits, wanted, length, seed, cached, grid) ==
  [corpora |-> corpora, splits |-> splits, wanted |-> wanted, seq_length |-> length,
   seed |-> seed, cached |-> cached, grid |-> grid]

BlendLaunches ==
  {DataLaunch(<< Corpus(<<3, 1, 2, 4>>, 3), Corpus(<<2, 5, 1>>, 1) >>, <<2, 1, 0>>,
              <<9, 2, 1>>, 2, 1, c, <<1, 1>>) : c \in BOOLEAN}
EpochLaunches ==
  {DataLaunch(<<Corpus(<<3, 1, 2, 4, 1, 1>>, 1)>>, <<1, 0, 0>>, <<n, 1, 1>>, l, s, TRUE, <<1, 1>>)
     : n \in {1, 5, 9, 13}, l \in 1 .. 3, s \in 1 .. 2}
GridLaunches ==
  {DataLaunch(<<Corpus(<<3, 1, 2, 4>>, 1)>>, <<1, 1, 0>>, <<4, 1, 1>>, 2, 1, TRUE, <<2, 2>>)}
RefusedLaunches ==
  {DataLaunch(<<Corpus(<<3, 1, 2>>, 1)>>, <<0, 1, 1>>, <<1, 1, 1>>, 2, 1, TRUE, <<1, 1>>),
   DataLaunch(<< Corpus(<<3, 1, 2>>, 1), Corpus(<<6>>, 1) >>, <<2, 1, 0>>, <<4, 1, 1>>,
              2, 1, FALSE, <<1, 1>>),
   DataLaunch(<<Corpus(<<3, 4>>, 14)>> \o [i \in 1 .. 4 |-> Corpus(<<3>>, 1)], <<1, 0, 0>>,
              <<3, 1, 1>>, 2, 1, FALSE, <<1, 1>>)}

Rotated(s) == IF s = << >> THEN s ELSE Append(Tail(s), s[1])
Backwards(s) == [i \in 1 .. Len(s) |-> s[Len(s) + 1 - i]]
Rearranged(seed, k, s) == IF (seed + k) % 2 = 0 THEN Rotated(s) ELSE Backwards(s)

DS == INSTANCE Datasets WITH
  DataLaunches <- BlendLaunches \cup EpochLaunches \cup GridLaunches \cup RefusedLaunches,
  Rearrange <- Rearranged

\* The samples are the pieces of the stream of documents, each piece once and
\* each document once per epoch; a blend does not run out of them; every
\* process read them from complete files; and only the last write of an index,
\* when cut short, makes later launches fail.
SamplesAsPromised == part = "data" => DS!SamplesAsPromised

(***************************************************************************)
(* The cyclic sampler, with numbers of samples that divide and that do not.*)
(***************************************************************************)
EpochPermutation(e, n) ==
  [i \in 1 .. n |-> IF e % 2 = 0 THEN (i + e) % n ELSE (n + e - i) % n]

AllSamplers ==
  {[total |-> t, micro |-> m, size |-> d, sharding |-> s, first |-> f] :
     t \in 6 .. 9, m \in 1 .. 2, d \in 1 .. 3, s \in BOOLEAN, f \in {0, 2}}

(***************************************************************************)
(* Conversion of checkpoints: from one device, from stages and tensor      *)
(* ranks, from interleaved chunks; to fewer, other and more of each.       *)
(***************************************************************************)
Conversion(f, t, gated, untied, bert, known) ==
  [tp |-> f[1], pp |-> f[2], vp |-> f[3], to_tp |-> t[1], to_pp |-> t[2], layers |-> f[4],
   gated |-> gated, untied |-> untied, bert |-> bert, known |-> known, vocab |-> 5, divisible |-> 2]

AllConversions ==
  {Conversion(f, t, g, u, FALSE, k) :
     f \in {<<1, 1, 1, 4>>, <<2, 2, 1, 4>>, <<2, 4, 2, 8>>}, t \in {<<1, 2>>, <<2, 1>>, <<4, 4>>},
     g \in BOOLEAN, u \in BOOLEAN, k \in BOOLEAN}
  \cup {Conversion(<<2, 2, 1, 4>>, <<1, 1>>, FALSE, FALSE, TRUE, TRUE)}

CC == INSTANCE CheckpointConversion WITH
  Conversions <- AllConversions, RowsPerTensor <- 4, QueueSize <- 2,
  built <- converted, stored <- written

\* A conversion that ends has written, for every rank, what a training of the
\* new sizes would hold; it fails only on a head that is padded otherwise, a
\* vocabulary it cannot divide, or when a process dies.
ConvertedWhole == part = "conversion" => CC!ConvertedWhole

(***************************************************************************)
(* Launches over two directories, one for checkpoints of a training and    *)
(* one for what is fine-tuned from them.  Sixteen layers divide into the   *)
(* same number of chunks in more than one way, and 20 make uneven chunks.  *)
(***************************************************************************)
InTraining == [load |-> "training", save |-> "training", save_interval |-> 1]
FineTuned == [finetune |-> TRUE, load |-> "training", save |-> "tuned", save_interval |-> 1]
ModelSize ==
  [num_layers |-> 8, hidden_size |-> 96, num_attention_heads |-> 4, seq_length |-> 8,
   max_position_embeddings |-> 8, micro_batch_size |-> 1, vocab_size |-> 200,
   tokenizer_type |-> "NullTokenizer"]
Translator ==
  [encoder_and_decoder |-> TRUE, encoder_num_layers |-> 4, decoder_num_layers |-> 4,
   encoder_seq_length |-> 8, decoder_seq_length |-> 4, hidden_size |-> 96,
   num_attention_heads |-> 4, max_position_embeddings |-> 8, micro_batch_size |-> 1,
   vocab_file |-> "words", pipeline_model_parallel_split_rank |-> 2]
OnStages(n) == [pipeline_model_parallel_size |-> n]
LayersInChunk(n) == [num_layers_per_virtual_pipeline_stage |-> n]
BitPipeTraining == [enable_bitpipe_schedule |-> TRUE, num_layers |-> 16]

LaunchCommands ==
  {InTraining @@ c @@ ModelSize : c \in
     {OnStages(1), OnStages(4), [num_attention_heads |-> 8],
      OnStages(4) @@ [tensor_model_parallel_size |-> 2, sequence_parallel |-> TRUE],
      OnStages(4) @@ LayersInChunk(1), OnStages(4) @@ BitPipeTraining,
      OnStages(4) @@ LayersInChunk(2) @@ [num_layers |-> 16],
      OnStages(4) @@ LayersInChunk(2) @@ [num_layers |-> 20],
      OnStages(4) @@ BitPipeTraining @@
        [enable_bitpipe_asymmetric |-> TRUE,
         bitpipe_asymmetric_config |-> << <<1, 3, 2, 2>>, <<2, 1, 3, 2>> >>],
      [swiglu |-> TRUE, add_bias_linear |-> FALSE, bf16 |-> TRUE,
       use_rotary_position_embeddings |-> TRUE],
      OnStages(2) @@ [standalone_embedding_stage |-> TRUE]}}
  \union {InTraining @@ OnStages(4) @@ Translator}
  \union {FineTuned @@ ModelSize,
          FineTuned @@ OnStages(4) @@ [num_attention_heads |-> 8] @@ ModelSize,
          [load |-> "tuned", save |-> "tuned", save_interval |-> 1, fp16 |-> TRUE,
           group_query_attention |-> TRUE, num_query_groups |-> 2] @@ ModelSize}

LA == INSTANCE LaunchArguments WITH
        Commands <- LaunchCommands, Worlds <- {4, 8}, Directories <- {"training", "tuned"},
        Vocabulary <- 300, MaxLaunches <- 3

(***************************************************************************)
(* Process groups: one initialization after another, with and without      *)
(* BitPipe, of sizes that divide the world and that do not.                *)
(***************************************************************************)
Asks(t, p, v, s, f) == [tp |-> t, pp |-> p, vp |-> v, split |-> s, fp8 |-> f]
NoNumber == -1

PlainAsks ==
  {Asks(t, p, v, NoNumber, f) :
     t \in 1 .. 3, p \in 1 .. 4, v \in {NoNumber, 2}, f \in BOOLEAN}
SplitAsks == {Asks(t, p, NoNumber, s, FALSE) : t \in 1 .. 2, p \in 3 .. 4, s \in 0 .. 2}

AllGroupJobs ==
  {[world |-> w, bitpipe |-> FALSE, requests |-> <<q, r>>] :
     w \in {8, 12}, r \in PlainAsks \cup SplitAsks,
     q \in {Asks(2, 2, NoNumber, NoNumber, TRUE), Asks(2, 4, NoNumber, 1, FALSE)}}
  \cup {[world |-> w, bitpipe |-> TRUE,
          requests |-> <<Asks(t, p, 4, NoNumber, f), Asks(1, 2, 4, NoNumber, FALSE)>>] :
           w \in {8, 12, 16}, t \in 1 .. 2, p \in {4, 6, 8}, f \in BOOLEAN}

PG == INSTANCE ProcessGroups WITH GroupJobs <- AllGroupJobs

\* Whatever was asked for before, an initialization that succeeds divides the
\* processes into groups that fit together; it raises for sizes that do not
\* divide or a virtual pipeline of two, and for BitPipe in any process that had
\* its groups before.  A launch that takes up a checkpoint has the model it was
\* written for, in all of its processes.  A launch that runs has no layer twice,
\* and every layer, with one exception: where the layers of a stage do not divide
\* among its chunks (20 layers, 4 stages, chunks of 2) it runs, and lacks some.
GroupsFit ==
  /\ part = "groups" => PG!GroupsFit
  /\ part = "launch" => LA!LaunchFits

(***************************************************************************)
(* The learning rate: values of a launch that differ in every curve, taken *)
(* from the launch, from the checkpoint, or from either if they are equal. *)
(***************************************************************************)
RateValues(init, max, min, warmup, decay, start_wd, end_wd, wd_steps, wd_style) ==
  [init_lr |-> init, max_lr |-> max, min_lr |-> min, warmup |-> warmup, decay |-> decay,
   style |-> "linear", start_wd |-> start_wd, end_wd |-> end_wd, wd_steps |-> wd_steps,
   wd_style |-> wd_style]

AllRateLaunches ==
  {[values |-> v, use |-> u, override |-> o] : u \in BOOLEAN, o \in BOOLEAN,
     v \in {RateValues(0, 12, 2, 3, 8, 0, 8, 8, "linear"),
            RateValues(0, 12, 2, 3, 6, 4, 4, 6, "constant"),
            RateValues(3, 9, 0, 0, 5, 1, 7, 3, "linear")}}

(***************************************************************************)
(* Sharded checkpoints: from and to sizes that divide other axes, a        *)
(* vocabulary that is padded otherwise, three ways to load, an interleaved *)
(* pipeline, and layers that the stages do not divide.                     *)
(***************************************************************************)
Shards(t, p, v, d) == [tp |-> t, pp |-> p, vp |-> v, dp |-> d]
ShardedJob(f, t, l, g, ti, st) ==
  [from |-> f, to |-> t, layers |-> l, rows |-> 4, vocab |-> 5, divisible |-> 2,
   gated |-> g, tied |-> ti, strategy |-> st]

AllShardedJobs ==
  {ShardedJob(f, t, 4, TRUE, ti, st) :
     f \in {Shards(1, 1, 1, 1), Shards(2, 1, 1, 2), Shards(1, 2, 1, 2), Shards(2, 2, 1, 1)},
     t \in {Shards(1, 1, 1, 1), Shards(2, 2, 1, 1), Shards(4, 1, 1, 1), Shards(1, 2, 2, 2)},
     ti \in BOOLEAN, st \in {"tensorstore", "two-stage", "zarr"}}
  \cup {ShardedJob(Shards(2, 1, 1, 1), Shards(1, 2, 1, 1), 3, FALSE, TRUE, "zarr"),
        ShardedJob(Shards(1, 2, 1, 1), Shards(2, 1, 1, 1), 3, FALSE, TRUE, "zarr"),
        ShardedJob(Shards(1, 2, 2, 1), Shards(2, 1, 1, 1), 4, FALSE, FALSE, "zarr")}

SH == INSTANCE ShardedCheckpoint WITH ShardedJobs <- AllShardedJobs

\* Metadata only ever names a complete checkpoint; any number of ranks reads
\* its parts of the same model from it, but for the bias of gated units; and it
\* fails only for torn metadata, layers no stage has, or a part of padding.
ShardedAsWhole == part = "sharded" => SH!ShardedAsWhole

(***************************************************************************)
(* Preprocessing: sentences and a document without tokens; one partition   *)
(* and several, one of them empty; several keys; a builder that is no mmap *)
(* builder; two launches.                                                  *)
(***************************************************************************)
Preparation(docs, keys, partitions, sequential, split, eod, mmap, launches) ==
  [docs |-> docs, keys |-> keys, partitions |-> partitions, sequential |-> sequential,
   split |-> split, eod |-> eod, mmap |-> mmap, launches |-> launches]

ThreeDocs == << <<2, 1>>, <<0>>, <<1, 0, 2>> >>
FourDocs == << <<1, 2>>, <<1>>, <<2>>, <<1, 1>> >>

AllPreparations ==
  {Preparation(ThreeDocs, 1, p, q, s, e, TRUE, 2) :
     p \in 1 .. 2, q \in BOOLEAN, s \in BOOLEAN, e \in BOOLEAN}
  \cup {Preparation(ThreeDocs, 2, p, FALSE, FALSE, FALSE, TRUE, 2) : p \in 1 .. 2}
  \cup {Preparation(ThreeDocs, 1, 1, FALSE, FALSE, FALSE, FALSE, 2),
        Preparation(FourDocs, 1, 3, TRUE, TRUE, TRUE, TRUE, 1)}

PP == INSTANCE Preprocessing WITH Preparations <- AllPreparations

(***************************************************************************)
(* The retrieval database: two corpora, one with a chunk that has no BERT  *)
(* tokens, blocks that do not divide them, two or three ranks and both     *)
(* ways to fill the index; up to two kills in three launches; what the     *)
(* program refuses.                                                        *)
(***************************************************************************)
Document(n, e) == [len |-> n, eod |-> e]
RetroJob ==
  [corpora |-> << <<Document(3, TRUE), Document(2, FALSE), Document(2, FALSE)>>,
                  <<Document(4, FALSE), Document(1, FALSE)>> >>,
   ratios |-> <<2, 1>>, blank |-> {<<1, 2, 0, 2>>}, chunk |-> 2, doc_block |-> 2, block |-> 2,
   train |-> 67, ntrain |-> 2, train_load |-> 100, add_load |-> 100, parallel |-> TRUE,
   delete_embeddings |-> TRUE, delete_codes |-> FALSE,
   samples |-> << << [corpus |-> 2, docs |-> {1}], [corpus |-> 1, docs |-> {1, 2}] >> >>,
   sample_chunks |-> 2, query |-> 2, save |-> 2, ranks |-> 2, procs |-> <<2, 2, 1>>,
   launches |-> 3, kills |-> 2]
WorkingJobs ==
  {RetroJob,
   [RetroJob EXCEPT !.parallel = FALSE, !.ranks = 3, !.delete_embeddings = FALSE,
                    !.doc_block = 1, !.blank = {}, !.kills = 1],
   [RetroJob EXCEPT !.chunk = 1, !.blank = {<<1, 2, 0, 1>>, <<2, 1, 1, 2>>}, !.block = 3,
                    !.ntrain = 6, !.train_load = 67, !.add_load = 67, !.train = 100, !.kills = 1]}
RefusedJobs ==
  {[j EXCEPT !.kills = 0, !.launches = 2] : j \in
     {[RetroJob EXCEPT !.delete_codes = TRUE], [RetroJob EXCEPT !.doc_block = 1],
      [RetroJob EXCEPT !.train = 34], [RetroJob EXCEPT !.ntrain = 6],
      [RetroJob EXCEPT !.train_load = 40]}}

RD == INSTANCE RetrievalDatabase WITH
  RetroJobs <- WorkingJobs \cup RefusedJobs, job <- build, disk <- store

\* A launch that ends has made the database, the index and the neighbours that
\* one process would make in one go, whatever killed launches had left; one
\* raises, or loses step, only for the reasons named.
RetrievalAsBuilt == part = "retrieval" => RD!RetrievalAsBuilt

(***************************************************************************)
(* The datasets of sentences.  Of five documents one has a sentence that   *)
(* is too long, one a single sentence and one a piece of its own; every    *)
(* launch asks for three datasets.  Mappings are left behind by a launch   *)
(* that is killed, and by launches with another split, another number of   *)
(* least sentences or another share of masks; the last job is of the       *)
(* arguments that are refused.                                             *)
(***************************************************************************)
SentencesAsked(kind, binary, bounds, wanted, prob, in_block, one_sent) ==
  [kind |-> kind, binary |-> binary, bounds |-> bounds, wanted |-> wanted, prob |-> prob,
   in_block |-> in_block, one_sent |-> one_sent]
SentenceDocuments ==
  << << <<TRUE>>, <<TRUE, FALSE>>, <<TRUE>> >>,
     << <<TRUE, TRUE>> >>,
     << <<TRUE, TRUE, TRUE, TRUE, TRUE>>, <<TRUE>> >>,
     << <<TRUE, TRUE>>, <<FALSE>>, <<TRUE>>, <<TRUE, FALSE>> >>,
     << <<TRUE>>, <<TRUE>> >> >>
SentenceJob(grid, seq, ratio, asked, killable) ==
  [docs |-> SentenceDocuments, titles |-> <<1, 1, 2, 0, 1>>, grid |-> grid, seq |-> seq,
   dec |-> 6, sentinels |-> 2, random |-> <<3, 4, 7, 2, 6>>, ratio |-> ratio, long |-> 4,
   ngrams |-> 2, launches |-> asked, killable |-> killable]
BertAsks(binary) ==
  SentencesAsked("bert", binary, <<0, 4, 5, 5>>, <<3, 1, 1>>, <<1, 3>>, FALSE, FALSE)
T5Asks == SentencesAsked("t5", FALSE, <<0, 5, 5, 5>>, <<6, 1, 1>>, <<1, 2>>, FALSE, FALSE)
ClozeAsks(in_block, one_sent) ==
  SentencesAsked("ict", TRUE, <<0, 4, 5, 5>>, <<3, 1, 1>>, <<1, 3>>, in_block, one_sent)

SE == INSTANCE SentenceDatasets WITH
        job <- sentence_job, launch <- sentence_launch, files <- mappings, ranks <- builders,
        held <- held_mappings, ending <- sentence_ending,
        SentenceJobs <-
          { SentenceJob(<<2, 2>>, 7, 2, <<BertAsks(TRUE), BertAsks(FALSE)>>, {1}),
            SentenceJob(<<1, 1>>, 8, 0,
                        <<BertAsks(FALSE), [BertAsks(TRUE) EXCEPT !.bounds = <<0, 3, 5, 5>>]>>, {}),
            SentenceJob(<<1, 1>>, 8, 2, <<T5Asks, [T5Asks EXCEPT !.prob = <<1, 4>>]>>, {}),
            [SentenceJob(<<1, 1>>, 8, 0, <<T5Asks>>, {}) EXCEPT !.sentinels = 1],
            [SentenceJob(<<1, 1>>, 8, 0, <<T5Asks>>, {}) EXCEPT !.dec = 4],
            SentenceJob(<<2, 1>>, 8, 0, <<ClozeAsks(FALSE, FALSE), ClozeAsks(TRUE, TRUE)>>, {1}),
            SentenceJob(<<1, 1>>, 7, 0,
                        <<[BertAsks(TRUE) EXCEPT !.prob = <<0, 1>>],
                          [T5Asks EXCEPT !.wanted = <<0, 0, 0>>],
                          [BertAsks(TRUE) EXCEPT !.bounds = <<0, 0, 1, 2>>]>>, {}) }

\* Whatever mappings earlier launches left, every process reads a whole mapping
\* of runs of sentences, a sample of BERT, T5 or the cloze task is made of its run
\* and tells again what it masks, and a launch fails only for the known reasons.
SentencesAsWritten == part = "sentences" => SE!SentencesAsWritten



(***************************************************************************)
(* The web corpus: the whole chain from lists with urls of every kind of   *)
(* refusal; the search for duplicates in sequence and side by side, exact  *)
(* and by one url of a bucket, with fingerprints of an earlier crawl and   *)
(* all three similarities; both cleanups; lines that are no json; an       *)
(* evaluation task that gives no ngrams.  Scripts may be killed.           *)
(***************************************************************************)
Spaced(ws) == [i \in 1 .. 2 * Len(ws) |-> IF i = 2 * Len(ws) THEN "." ELSE
                                          IF i % 2 = 0 THEN " " ELSE ws[(i + 1) \div 2]]
Page(text) == [json |-> TRUE, language |-> "en", text |-> text]
WebLine(u, page) == [url |-> u, json |-> page.json, language |-> page.language,
                     text |-> page.text, split |-> << >>, id |-> 0]
NoPage == [json |-> FALSE, language |-> "none", text |-> << >>]
SoundUrl == [domain |-> "example", extension |-> "", short |-> FALSE, formed |-> TRUE]
AB == Spaced(<<"a", "b">>)
ABC == Spaced(<<"a", "b", "c">>)
WebJob ==
  [route |-> <<"urls", "merge", "clean", "find", "group", "remove", "ngrams", "id">>,
   listed |-> << <<"u1", "u2", "v1", "v2">>, <<"v3", "u3", "u1", "v4", "u4">> >>,
   urls |-> [u \in {"u1", "u2", "u3", "u4", "v1", "v2", "v3", "v4"} |->
               CASE u = "v1" -> [SoundUrl EXCEPT !.domain = "flickr"]
                 [] u = "v2" -> [SoundUrl EXCEPT !.extension = ".pdf"]
                 [] u = "v3" -> [SoundUrl EXCEPT !.short = TRUE]
                 [] u = "v4" -> [SoundUrl EXCEPT !.formed = FALSE]
                 [] u = "u4" -> [SoundUrl EXCEPT !.extension = ".7z"]
                 [] OTHER -> SoundUrl],
   shards |-> << <<"u1", "u4">>, <<"u3", "v1", "u2">> >>,
   pages |-> [u \in {"u1", "u2", "u3", "u4", "v1"} |->
                CASE u = "u1" -> Page(ABC \o AB \o Spaced(<<"c", "#", "a", "c">>))
                  [] u = "u3" -> Page(AB)
                  [] u = "u4" -> [Page(ABC) EXCEPT !.language = "other"]
                  [] OTHER -> Page(ABC \o AB \o Spaced(<<"c", "#", "a", "b">>))],
   data |-> << >>, min_document |-> 2, char_ngram |-> 2, tasks |-> {},
   earlier |-> << >>, jaccard |-> "union", threshold |-> 7, heuristic_iter |-> 1, parallel |-> FALSE,
   task_texts |-> {Spaced(<<"b", "c", "d", "a">>), AB, Spaced(<<"c", "a">>)},
   min |-> 2, max |-> 3, filter |-> 3, key_threshold |-> 2, splits |-> 2, remove |-> 1]
OnData(chain, file) == [WebJob EXCEPT !.route = chain, !.data = file]
Crawl == << WebLine("u1", Page(ABC)), WebLine("u2", Page(Spaced(<<"a", "b", "d">>))),
            WebLine("u3", NoPage), WebLine("u4", Page(AB)) >>
Readable == <<Crawl[1], Crawl[2], Crawl[4]>>
Dull == Spaced(<<"d", "d", "d", "d">>)
Search == <<"find", "group", "remove", "id">>
WebChains ==
  {WebJob, OnData(Search, Crawl),
   [OnData(<<"fix", "find", "group", "remove">>, Readable) EXCEPT
      !.tasks = {"remove_512_non_english", "ftfy_fix_text", "general_cleaning"}, !.min_document = 6],
   [OnData(<<"fix", "merge">>, <<WebLine("u1", Page(<<"a", " ", " ", "b">>)), WebLine("u3", NoPage)>>)
      EXCEPT !.tasks = {"remove_512", "general_cleaning"}],
   [OnData(<<"ngrams">>, Readable) EXCEPT !.task_texts = {<<"a">>}],
   [OnData(<<"ngrams", "ngrams">>,
           <<WebLine("u1", Page(Dull \o ABC \o Dull \o ABC \o Dull)),
             WebLine("u2", Page(Spaced(<<"d", "d", "d", "d", "c", "b">>))),
             WebLine("u3", Page(Dull \o ABC \o Dull))>>) EXCEPT
      !.task_texts = {ABC, Spaced(<<"c", "b">>)}, !.key_threshold = 3, !.remove = 0],
   OnData(SubSeq(Search, 1, 3),
          <<WebLine("u1", Page(Spaced(<<"a", "b", "c", "d", "a", "c">>))),
            WebLine("u2", Page(Spaced(<<"a", "b", "c", "d", "a", "b">>))),
            WebLine("u3", Page(Spaced(<<"c", "b", "c", "d", "a", "b">>))),
            WebLine("u4", Page(Spaced(<<"c", "b", "c", "d", "a", "d">>)))>>)}
  \cup { [OnData(SubSeq(Search, 1, 3), Readable) EXCEPT
            !.jaccard = j, !.heuristic_iter = -1, !.parallel = TRUE,
            !.earlier = [u \in {"u5"} |-> Spaced(<<"a", "b", "d", "a">>)]] :
           j \in {"union", "min", "max"} }

WC == INSTANCE WebCorpus WITH WebJobs <- WebChains

\* A launch that ends without the death of a child makes a dataset of exactly
\* the documents in the partitions, whatever earlier launches left; lines are
\* lost only behind a death, and only the last ones of a partition; and of
\* several keys only the last gets an index.
\* And what the chain of the web corpus writes (tools/openwebtext): the urls that no rule refuses; the
\* groups of duplicates are the connected components of the pairs found, no two
\* duplicates are overlooked by the exact search, and of every group one document
\* stays; no piece of a document longer than the longest ngram holds an ngram it
\* was cut for, and no two lines have the same id; whatever was killed.
PreparedAsWritten == /\ part = "preprocess" => PP!PreparedAsWritten
                     /\ part = "corpus" => WC!CorpusAsAsked

(***************************************************************************)
(* The language models: every kind on one stage and on several, as many    *)
(* layers as it takes for the neighbours to be read twice, recomputation   *)
(* in pieces that fit and that do not, a ramp-up of the microbatches, and  *)
(* what is refused.                                                        *)
(***************************************************************************)
OneStage ==
  [kind |-> "gpt", impl |-> "local", layers |-> 2, decoders |-> 0, stages |-> 1, split |-> 0,
   standalone |-> FALSE, rows |-> 3, target |-> 2, samples |-> 2, chunk |-> 2, neighbours |-> 2,
   retrieved |-> 2, retriever |-> 2, recompute |-> "none", pieces |-> 2,
   microbatches |-> <<2, 2, 1>>, bitpipe |-> FALSE, fused |-> FALSE, eods |-> {}]
Gpt == [OneStage EXCEPT !.impl = "te", !.microbatches = <<2, 3, 3>>]
Bert == [OneStage EXCEPT !.kind = "bert"]
EncDec == [OneStage EXCEPT !.kind = "t5", !.decoders = 2]
Retro == [OneStage EXCEPT !.kind = "retro", !.layers = 9, !.rows = 4, !.microbatches = <<1, 1, 1>>]
ModelNets ==
  {Gpt, [Gpt EXCEPT !.stages = 2, !.rows = 5, !.eods = {1, 3}], [Gpt EXCEPT !.fused = TRUE, !.eods = {1}], [Gpt EXCEPT !.stages = 2, !.layers = 4, !.microbatches = <<2, 2, 3>>],
   [Gpt EXCEPT !.stages = 3, !.layers = 4, !.standalone = TRUE],
   [Gpt EXCEPT !.bitpipe = TRUE, !.microbatches = <<2, 4, 4>>],
   [Gpt EXCEPT !.layers = 4, !.recompute = "uniform"], [Gpt EXCEPT !.layers = 3, !.recompute = "uniform"],
   [Gpt EXCEPT !.layers = 3, !.recompute = "block"],
   Bert, [Bert EXCEPT !.stages = 2], [Bert EXCEPT !.impl = "te"],
   EncDec, [EncDec EXCEPT !.decoders = 1], [EncDec EXCEPT !.decoders = 3],
   [EncDec EXCEPT !.stages = 2, !.split = 1], [EncDec EXCEPT !.stages = 3, !.split = 1],
   [EncDec EXCEPT !.stages = 4, !.split = 2], [EncDec EXCEPT !.stages = 3, !.split = 2, !.standalone = TRUE],
   Retro, [Retro EXCEPT !.layers = 5], [Retro EXCEPT !.layers = 6], [Retro EXCEPT !.rows = 3],
   [Retro EXCEPT !.layers = 16, !.rows = 2], [Retro EXCEPT !.retriever = 1, !.chunk = 1],
   [Retro EXCEPT !.recompute = "block"]}

LM == INSTANCE LanguageModel WITH Nets <- ModelNets, MaxUpdates <- 3

\* The ranks of a tensor-parallel group together have the gradients, and each of them has
\* the losses, that the undivided model gives (core/tensor_parallel).  And a model divided
\* over pipeline stages computes what the undivided one does: each position from all it
\* may see and nothing else, through every layer in order, with fresh weights, and the
\* gradient comes back through all of them (model/transformer.py, language_model.py).
SplitAsWhole == /\ part = "tensor" => TPar!SplitAsWhole
                /\ part = "forward" => LM!ForwardAndBack

(***************************************************************************)
(* One part at a time.                                                     *)
(***************************************************************************)

SomeLaunch == [asymmetric |-> FALSE, devices |-> << >>, layers |-> 8]
LayersIdle ==
  /\ args = SomeLaunch /\ status = "parsing" /\ config = NoConfig
  /\ vrank = [r \in Ranks |-> 0]
  /\ built = [r \in Ranks |-> [c \in Chunks |-> NotBuilt]]
TensorIdle ==
  /\ tp = None /\ pass = None /\ flows = None /\ kept = None /\ buffer = None
  /\ grads = None /\ losses = None /\ reduced = FALSE
RandomIdle ==
  /\ sp = None /\ rng = None /\ step = None /\ contexts = None /\ done = None
  /\ drawn = None /\ redrawn = None /\ stored = None
DataIdle == data = None /\ indices = None /\ files = None /\ at = None /\ failed = None
SamplerIdle ==
  /\ loader = (CHOOSE l \in Samplers : TRUE) /\ iterators = None /\ consumed = None
  /\ trained = None /\ checkpoint = None /\ reads = [b \in 1 .. MaxBatches |-> << >>]
ConversionIdle ==
  /\ conv = None /\ loading = None /\ sent = None /\ queue = None /\ saving = None
  /\ got = None /\ stage = None /\ converted = None /\ written = None
GroupsIdle == job = None /\ globals = None /\ called = None /\ raised = None
RatesIdle ==
  /\ launch = (CHOOSE l \in RateLaunches : TRUE) /\ scheduler = Down /\ group = None /\ learned = None
  /\ stepped = None /\ rate_file = None /\ rate_failed = None
ShardedIdle ==
  /\ task = None /\ life = None /\ spot = None /\ directory = None /\ read = None
  /\ outcome = None
PreprocessIdle ==
  /\ prep = None /\ launched = None /\ main = None /\ child = None /\ folder = None
  /\ merging = None /\ died = None /\ killed = None
NoRetrieval ==
  /\ build = None /\ worker = None /\ store = None /\ tally = None /\ past = None
SentencesIdle ==
  /\ sentence_job = None /\ sentence_launch = None /\ mappings = None /\ builders = None /\ held_mappings = None
  /\ sample = None /\ sentence_ending = None
NoLaunch ==
  /\ directories = None /\ standing = None /\ command = None /\ arguments = None /\ source = None
  /\ launch_times = None
ModelIdle == flags = (CHOOSE j \in ModelJobs : TRUE) /\ MO!Down /\ model_file = None
CorpusIdle ==
  /\ web = None /\ desk = None /\ shelf = None /\ clean_urls = None /\ pairs = None
  /\ groups = None /\ bench = None /\ web_raised = None
ForwardIdle ==
  /\ net = None /\ stacks = None /\ station = None /\ hidden = None /\ encoded = None
  /\ wire = None /\ tape = None /\ meters = None /\ clock = None /\ net_raised = None


PartsInit ==
  /\ part \in RunParts
  /\ IF part = "layers" THEN Init ELSE LayersIdle
  /\ DO!InitOptimizer
  /\ IF part = "tensor" THEN TPar!InitTensorParallel ELSE TensorIdle
  /\ IF part = "random" THEN InitRandomStates ELSE RandomIdle
  /\ IF part = "data" THEN DS!InitData ELSE DataIdle
  /\ IF part = "sampler" THEN InitSampler ELSE SamplerIdle
  /\ IF part = "conversion" THEN CC!InitConversion ELSE ConversionIdle
  /\ IF part = "groups" THEN PG!InitGroups ELSE GroupsIdle
  /\ IF part = "rates" THEN InitRates ELSE RatesIdle
  /\ IF part = "sharded" THEN SH!InitSharded ELSE ShardedIdle
  /\ IF part = "preprocess" THEN PP!InitPreprocessing ELSE PreprocessIdle
  /\ IF part = "retrieval" THEN RD!InitRetro ELSE NoRetrieval
  /\ IF part = "sentences" THEN SE!InitSentences ELSE SentencesIdle
  /\ IF part = "launch" THEN LA!InitLaunch ELSE NoLaunch
  /\ IF part = "model" THEN MO!InitModelOptimizer ELSE ModelIdle
  /\ IF part = "corpus" THEN WC!InitWeb ELSE CorpusIdle
  /\ IF part = "forward" THEN LM!InitNet ELSE ForwardIdle

optimizer_vars == <<opt_phase, opt_world, iteration, weights, storage, shards,
                    allocated, scaler, disk>>
tensor_vars == <<tp, pass, flows, kept, buffer, grads, losses, reduced>>
dataset_vars == <<data, indices, files, at, failed>>
conversion_vars == <<conv, loading, sent, queue, saving, got, stage, converted, written>>
group_vars == <<job, globals, called, raised>>
sharded_vars == <<task, life, spot, directory, read, outcome>>
preprocess_vars == <<prep, launched, main, child, folder, merging, died, killed>>
retrieval_vars == <<build, worker, store, tally, past>>
sentence_vars == <<sentence_job, sentence_launch, mappings, builders, held_mappings, sample, sentence_ending>>
launch_arg_vars == <<directories, standing, command, arguments, source, launch_times>>
model_optimizer_vars == <<flags, turn, replicas, steps, passes, model, mains, tensors, points, loss_scaler, model_file>>
corpus_vars == <<web, desk, shelf, clean_urls, pairs, groups, bench, web_raised>>
forward_vars == <<net, stacks, station, hidden, encoded, wire, tape, meters, clock, net_raised>>

\* What keeps still while another part runs.
Others(p) ==
  /\ UNCHANGED part
  /\ p = "layers" \/ UNCHANGED vars
  /\ p = "optimizer" \/ UNCHANGED optimizer_vars
  /\ p = "tensor" \/ UNCHANGED tensor_vars
  /\ p = "random" \/ UNCHANGED rng_vars
  /\ p = "data" \/ UNCHANGED dataset_vars
  /\ p = "sampler" \/ UNCHANGED sampler_vars
  /\ p = "conversion" \/ UNCHANGED conversion_vars
  /\ p = "groups" \/ UNCHANGED group_vars
  /\ p = "rates" \/ UNCHANGED rate_vars
  /\ p = "sharded" \/ UNCHANGED sharded_vars
  /\ p = "preprocess" \/ UNCHANGED preprocess_vars
  /\ p = "retrieval" \/ UNCHANGED retrieval_vars
  /\ p = "sentences" \/ UNCHANGED sentence_vars
  /\ p = "launch" \/ UNCHANGED launch_arg_vars
  /\ p = "model" \/ UNCHANGED model_optimizer_vars
  /\ p = "corpus" \/ UNCHANGED corpus_vars
  /\ p = "forward" \/ UNCHANGED forward_vars

PartsNext ==
  \/ part = "layers" /\ Next /\ Others("layers")
  \/ part = "optimizer" /\ DO!NextOptimizer /\ Others("optimizer")
  \/ part = "tensor" /\ TPar!NextTensorParallel /\ Others("tensor")
  \/ part = "random" /\ NextRandomStates /\ Others("random")
  \/ part = "data" /\ DS!NextData /\ Others("data")
  \/ part = "sampler" /\ NextSampler /\ Others("sampler")
  \/ part = "conversion" /\ CC!NextConversion /\ Others("conversion")
  \/ part = "groups" /\ PG!NextGroups /\ Others("groups")
  \/ part = "rates" /\ NextRates /\ Others("rates")
  \/ part = "sharded" /\ SH!NextSharded /\ Others("sharded")
  \/ part = "preprocess" /\ PP!NextPreprocessing /\ Others("preprocess")
  \/ part = "retrieval" /\ RD!NextRetro /\ Others("retrieval")
  \/ part = "sentences" /\ SE!NextSentences /\ Others("sentences")
  \/ part = "launch" /\ LA!NextLaunch /\ Others("launch")
  \/ part = "model" /\ MO!NextModelOptimizer /\ Others("model")
  \/ part = "corpus" /\ WC!NextWeb /\ Others("corpus")
  \/ part = "forward" /\ LM!NextNet /\ Others("forward")

part_vars == <<part, vars, optimizer_vars, tensor_vars, rng_vars, dataset_vars,
               sampler_vars, conversion_vars, group_vars, rate_vars,
               sharded_vars,
               preprocess_vars,
               retrieval_vars,
               sentence_vars,
               launch_arg_vars,
               model_optimizer_vars,
               corpus_vars,
               forward_vars>>

PartsSpec == PartsInit /\ [][PartsNext]_part_vars
==================================================================================
