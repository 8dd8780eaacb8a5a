--------------------------- MODULE LaunchArguments ---------------------------
(***************************************************************************)
(* The arguments of a launch (megatron/arguments.py): parsed from a        *)
(* command line, with --use-checkpoint-args completed from a checkpoint    *)
(* (load_args_from_checkpoint of megatron/checkpointing.py), validated     *)
(* and thereby completed further; and what they make: the layers and the   *)
(* tensor sizes of the model chunks of every process, which a checkpoint   *)
(* of an earlier launch must fit.                                          *)
(*                                                                         *)
(* All processes of a launch compute the same arguments; an assertion or   *)
(* an exception in one of them stops the launch.                           *)
(***************************************************************************)
EXTENDS Integers, Sequences, TLC

CONSTANTS
  Commands,     \* command lines: records of the options that are given
  Worlds,       \* numbers of processes
  Directories,  \* of checkpoints
  Vocabulary,   \* the number of words in a vocabulary file
  MaxLaunches,
  Absent        \* None

VARIABLES
  directories,  \* the checkpoint in every directory
  standing,     \* "down", "parsed", "completed", "running", "stopped"
  command,      \* of the launch
  arguments,    \* args
  source,       \* the checkpoint the launch took up
  launch_times

launch_vars == <<directories, standing, command, arguments, source, launch_times>>

----------------------------------------------------------------------------
(***************************************************************************)
(* parse_args: every option has a default.  Probabilities and percentages  *)
(* are whole numbers here; options without influence on this module's      *)
(* questions are left out.                                                 *)
(***************************************************************************)
NetworkSize ==
  [num_layers |-> Absent, encoder_num_layers |-> Absent, decoder_num_layers |-> Absent,
   hidden_size |-> Absent, ffn_hidden_size |-> Absent, num_attention_heads |-> Absent,
   kv_channels |-> Absent, group_query_attention |-> FALSE, num_query_groups |-> 1,
   max_position_embeddings |-> Absent, position_embedding_type |-> "learned_absolute",
   use_rotary_position_embeddings |-> FALSE, rotary_percent |-> 100,
   add_position_embedding |-> TRUE, make_vocab_size_divisible_by |-> 128,
   apply_layernorm_1p |-> FALSE, swiglu |-> FALSE,
   untie_embeddings_and_output_weights |-> FALSE]

Regularization ==
  [weight_decay |-> 1, start_weight_decay |-> Absent, end_weight_decay |-> Absent,
   weight_decay_incr_style |-> "constant"]

Training ==
  [micro_batch_size |-> Absent, batch_size |-> Absent, global_batch_size |-> Absent,
   rampup_batch_size |-> Absent, recompute_activations |-> FALSE,
   recompute_granularity |-> Absent, distribute_saved_activations |-> FALSE,
   recompute_method |-> Absent, recompute_num_layers |-> Absent,
   checkpoint_activations |-> FALSE, train_iters |-> Absent, train_samples |-> Absent,
   bias_gelu_fusion |-> TRUE, add_bias_linear |-> TRUE, dataloader_type |-> Absent,
   async_tensor_model_parallel_allreduce |-> TRUE, sequence_parallel |-> FALSE]

LearningRate ==
  [lr |-> Absent, min_lr |-> 0, lr_decay_iters |-> Absent, lr_decay_samples |-> Absent,
   lr_warmup_fraction |-> Absent, lr_warmup_iters |-> 0, lr_warmup_samples |-> 0,
   warmup |-> Absent]

Checkpointing ==
  [save |-> Absent, save_interval |-> Absent, load |-> Absent, finetune |-> FALSE,
   use_checkpoint_args |-> FALSE, exit_on_missing_checkpoint |-> FALSE]

MixedPrecision ==
  [fp16 |-> FALSE, bf16 |-> FALSE, fp32_residual_connection |-> FALSE,
   accumulate_allreduce_grads_in_fp32 |-> FALSE, fp16_lm_cross_entropy |-> FALSE]

Distributed ==
  [tensor_model_parallel_size |-> 1, pipeline_model_parallel_size |-> 1,
   pipeline_model_parallel_split_rank |-> Absent, model_parallel_size |-> Absent,
   num_layers_per_virtual_pipeline_stage |-> Absent, overlap_p2p_comm |-> FALSE,
   DDP_impl |-> "local", use_contiguous_buffers_in_local_ddp |-> TRUE,
   standalone_embedding_stage |-> FALSE, use_distributed_optimizer |-> FALSE,
   enable_bitpipe_schedule |-> FALSE, enable_bitpipe_asymmetric |-> FALSE,
   bitpipe_asymmetric_config |-> Absent]

Data ==
  [vocab_size |-> Absent, vocab_file |-> Absent, seq_length |-> Absent,
   encoder_seq_length |-> Absent, decoder_seq_length |-> Absent,
   tokenizer_type |-> Absent]

\* Attributes that no option sets and the environment.
Attributes ==
  [virtual_pipeline_model_parallel_size |-> Absent, padded_vocab_size |-> Absent,
   retro_add_retriever |-> FALSE, CUDA_DEVICE_MAX_CONNECTIONS |-> "1",
   encoder_and_decoder |-> FALSE]

Parse(c, world) ==
  c @@ [world_size |-> world] @@ NetworkSize @@ Regularization @@ Training @@ LearningRate
    @@ Checkpointing @@ MixedPrecision @@ Distributed @@ Data @@ Attributes

----------------------------------------------------------------------------
(***************************************************************************)
(* load_args_from_checkpoint.                                              *)
(***************************************************************************)
TakenWhenMissing ==
  {"num_layers", "hidden_size", "ffn_hidden_size", "seq_length", "num_attention_heads",
   "kv_channels", "max_position_embeddings", "tokenizer_type", "padded_vocab_size",
   "num_layers_per_virtual_pipeline_stage"}

Taken ==
  {"position_embedding_type", "add_position_embedding", "use_rotary_position_embeddings",
   "rotary_percent", "add_bias_linear", "swiglu", "untie_embeddings_and_output_weights",
   "apply_layernorm_1p", "tensor_model_parallel_size", "pipeline_model_parallel_size",
   "virtual_pipeline_model_parallel_size"}

FromCheckpoint(a, saved) ==
  [o \in DOMAIN a |->
     IF /\ o \in Taken \/ (o \in TakenWhenMissing /\ a[o] = Absent)
        /\ saved[o] # Absent
     THEN saved[o] ELSE a[o]]

----------------------------------------------------------------------------
(***************************************************************************)
(* validate_args, part by part: what is completed, and what is refused.    *)
(***************************************************************************)
Least(x, y) == IF x < y THEN x ELSE y
Given(v) == v # Absent
Truthy(v) == Given(v) /\ v # 0

ParallelSizes(a) ==
  LET tp == Least(a.tensor_model_parallel_size, a.world_size)
      pp == Least(a.pipeline_model_parallel_size, a.world_size \div tp)
  IN  [tensor_model_parallel_size |-> tp, pipeline_model_parallel_size |-> pp,
       transformer_pipeline_model_parallel_size |->
         IF a.standalone_embedding_stage THEN pp - 1 ELSE pp,
       data_parallel_size |-> a.world_size \div (tp * pp)] @@ a

SizesAccepted(a) ==
  /\ a.world_size % a.tensor_model_parallel_size = 0
  /\ a.world_size % (a.pipeline_model_parallel_size * a.tensor_model_parallel_size) = 0
  /\ a.pipeline_model_parallel_size > 1 /\ Given(a.pipeline_model_parallel_split_rank) =>
       a.pipeline_model_parallel_split_rank < a.pipeline_model_parallel_size

NotDeprecated(a) ==
  ~Given(a.batch_size) /\ ~Given(a.warmup) /\ ~Given(a.model_parallel_size)
    /\ ~a.checkpoint_activations

\* The defaults of the script fill what was not given.
WithDefaults(a) ==
  LET tokenizer == IF a.encoder_and_decoder THEN "BertWordPieceLowerCase"
                                            ELSE "GPT2BPETokenizer"
  IN  [a EXCEPT
         !.recompute_granularity = IF a.recompute_activations THEN "selective" ELSE @,
         !.tokenizer_type = IF Given(@) THEN @ ELSE tokenizer]

Batches(a) ==
  [a EXCEPT !.global_batch_size =
     IF Given(@) \/ ~Given(a.micro_batch_size) THEN @
     ELSE a.micro_batch_size * a.data_parallel_size]

BatchesAccepted(a) ==
  Given(a.micro_batch_size) /\ a.micro_batch_size > 0 /\ a.global_batch_size > 0

\* The assignment of layers under BitPipe, for n devices.
DeviceCounts == UNION {1 .. w : w \in Worlds}

Bit(n) == INSTANCE LayerAssignment WITH
            P <- n, Launches <- {}, args <- 0, status <- 0, config <- 0, vrank <- 0, built <- 0

BitPipeTable(a) ==
  [asymmetric |-> a.enable_bitpipe_asymmetric, layers |-> a.num_layers,
   devices |-> IF a.enable_bitpipe_asymmetric THEN a.bitpipe_asymmetric_config ELSE << >>]

\* The layers of a stage, and how many chunks or layers in a chunk they make.
ScheduleAccepted(a) ==
  LET stages == a.transformer_pipeline_model_parallel_size
      per == a.num_layers_per_virtual_pipeline_stage
  IN  /\ Given(per) => /\ a.pipeline_model_parallel_size > 2
                       /\ Given(a.num_layers)
                       /\ a.enable_bitpipe_asymmetric \/ a.num_layers % per = 0
      /\ a.enable_bitpipe_schedule =>
           /\ a.enable_bitpipe_asymmetric => Given(a.bitpipe_asymmetric_config)
           /\ Given(a.num_layers)
           /\ \E n \in DeviceCounts : n = stages /\ Bit(n)!Accepted(BitPipeTable(a))

Scheduled(a) ==
  LET stages == a.transformer_pipeline_model_parallel_size
      per == a.num_layers_per_virtual_pipeline_stage
  IN  [a EXCEPT
         !.virtual_pipeline_model_parallel_size =
           CASE a.enable_bitpipe_schedule -> 4
             [] ~a.enable_bitpipe_schedule /\ Given(per) -> (a.num_layers \div stages) \div per
             [] OTHER -> Absent,
         !.num_layers_per_virtual_pipeline_stage =
           IF a.enable_bitpipe_schedule /\ ~a.enable_bitpipe_asymmetric
           THEN (a.num_layers \div stages) \div 2 ELSE @]

Precision(a) ==
  [params_dtype |-> CASE a.fp16 -> "half" [] a.bf16 /\ ~a.fp16 -> "bfloat16" [] OTHER -> "float"]
    @@ [a EXCEPT
          !.accumulate_allreduce_grads_in_fp32 = @ \/ a.bf16,
          !.use_contiguous_buffers_in_local_ddp = @ /\ a.DDP_impl # "torch",
          !.dataloader_type = IF Given(@) THEN @ ELSE "single"]

\* On the arguments as they were before the last completion: --DDP-impl torch
\* is refused with buffers that it could not use.
PrecisionAccepted(a) ==
  /\ ~(a.fp16 /\ a.bf16)
  /\ a.accumulate_allreduce_grads_in_fp32 \/ a.bf16 \/ a.use_distributed_optimizer =>
       a.DDP_impl = "local" /\ a.use_contiguous_buffers_in_local_ddp
  /\ a.fp16_lm_cross_entropy => a.fp16
  /\ a.fp32_residual_connection => a.fp16 \/ a.bf16

TrainingLengthAccepted(a) ==
  /\ Truthy(a.train_iters) =>
       /\ ~Given(a.train_samples) /\ ~Given(a.lr_decay_samples)
       /\ a.lr_warmup_samples = 0 /\ ~Given(a.rampup_batch_size)
       /\ Given(a.lr_warmup_fraction) => a.lr_warmup_iters = 0
  /\ Truthy(a.train_samples) =>
       /\ ~Given(a.train_iters) /\ ~Given(a.lr_decay_iters) /\ a.lr_warmup_iters = 0
       /\ Given(a.lr_warmup_fraction) => a.lr_warmup_samples = 0

\* num_layers and encoder_num_layers are two names of one number, seq_length
\* and encoder_seq_length likewise; one of the two names must be used, not both.
OneOf(x, y) == Given(x) # Given(y)
WhicheverGiven(x, y) == IF Given(x) THEN x ELSE y

NamesAccepted(a) ==
  /\ OneOf(a.num_layers, a.encoder_num_layers)
  /\ \A o \in {"hidden_size", "num_attention_heads", "max_position_embeddings"} : Given(a[o])
  /\ Given(a.kv_channels) \/ a.hidden_size % a.num_attention_heads = 0
  /\ OneOf(a.seq_length, a.encoder_seq_length)
  /\ a.max_position_embeddings >= WhicheverGiven(a.seq_length, a.encoder_seq_length)
  /\ Given(a.decoder_seq_length) => a.max_position_embeddings >= a.decoder_seq_length

Named(a) ==
  LET layers == WhicheverGiven(a.num_layers, a.encoder_num_layers)
      seq == WhicheverGiven(a.seq_length, a.encoder_seq_length)
  IN  [a EXCEPT
         !.num_layers = layers, !.encoder_num_layers = layers,
         !.seq_length = seq, !.encoder_seq_length = seq,
         !.ffn_hidden_size =
            CASE a.swiglu -> ((a.hidden_size * 8) \div (3 * 64)) * 64
              [] ~a.swiglu /\ Given(@) -> @
              [] OTHER -> 4 * a.hidden_size,
         !.kv_channels = IF Given(@) THEN @ ELSE a.hidden_size \div a.num_attention_heads]

RatesAccepted(a) ==
  /\ Given(a.lr) => a.min_lr <= a.lr
  /\ Given(a.save) => Given(a.save_interval)
  /\ IF a.weight_decay_incr_style = "constant"
     THEN ~Given(a.start_weight_decay) /\ ~Given(a.end_weight_decay)
     ELSE Given(a.start_weight_decay) /\ Given(a.end_weight_decay)

Decayed(a) ==
  IF a.weight_decay_incr_style # "constant" THEN a
  ELSE [a EXCEPT !.start_weight_decay = a.weight_decay, !.end_weight_decay = a.weight_decay]

\* Sequence parallelism needs a group to divide among, and takes the place of
\* the asynchronous reduction.
Flagged(a) ==
  LET sp == a.sequence_parallel /\ a.tensor_model_parallel_size > 1
  IN  [a EXCEPT
         !.sequence_parallel = sp,
         !.async_tensor_model_parallel_allreduce = @ /\ ~sp,
         !.bias_gelu_fusion = @ /\ a.add_bias_linear,
         !.position_embedding_type =
            IF a.use_rotary_position_embeddings THEN "rope" ELSE @]

\* On the arguments as Flagged leaves them.
FlagsAccepted(a) ==
  /\ a.distribute_saved_activations =>
       /\ a.tensor_model_parallel_size > 1
       /\ a.recompute_granularity = "full" /\ Given(a.recompute_method)
  /\ a.recompute_granularity = "selective" => ~Given(a.recompute_method)
  /\ a.CUDA_DEVICE_MAX_CONNECTIONS # "1" =>
       ~a.sequence_parallel /\ ~a.async_tensor_model_parallel_allreduce
  /\ a.retro_add_retriever => ~a.sequence_parallel /\ a.pipeline_model_parallel_size = 1
  /\ a.add_position_embedding \/ a.position_embedding_type = "rope"

Sized(a) == Batches(WithDefaults(ParallelSizes(a)))
Shaped(a) == Named(Precision(Scheduled(Sized(a))))
Validated(a) == Flagged(Decayed(Shaped(a)))

Valid(a) ==
  /\ SizesAccepted(Sized(a)) /\ NotDeprecated(a)
  /\ BatchesAccepted(Sized(a)) /\ ScheduleAccepted(Sized(a))
  /\ PrecisionAccepted(a) /\ TrainingLengthAccepted(a) /\ NamesAccepted(a)
  /\ RatesAccepted(a) /\ FlagsAccepted(Validated(a))

----------------------------------------------------------------------------
(***************************************************************************)
(* What the arguments make: the vocabulary, the configuration of the core, *)
(* and the layers of every chunk.                                          *)
(***************************************************************************)
TokenizerAccepted(a) ==
  IF a.tokenizer_type = "NullTokenizer" THEN Given(a.vocab_size) ELSE Given(a.vocab_file)

Words(a) == IF a.tokenizer_type = "NullTokenizer" THEN a.vocab_size + 1 ELSE Vocabulary

\* _vocab_size_with_padding: the next multiple.
WithVocabulary(a) ==
  LET multiple == a.make_vocab_size_divisible_by * a.tensor_model_parallel_size
  IN  [a EXCEPT !.padded_vocab_size = ((Words(a) + multiple - 1) \div multiple) * multiple]

\* initialize_model_parallel
GroupsAccepted(a) ==
  Given(a.virtual_pipeline_model_parallel_size) => a.pipeline_model_parallel_size > 2

\* core_transformer_config_from_args, then __post_init__ of TransformerConfig.
Config(a) ==
  [num_query_groups |-> IF a.group_query_attention THEN a.num_query_groups
                        ELSE a.num_attention_heads,
   gated_linear_unit |-> a.swiglu,
   bias_gelu_fusion |-> a.bias_gelu_fusion /\ ~a.swiglu,
   batch_p2p_comm |-> ~a.overlap_p2p_comm]

ConfigAccepted(a) ==
  LET c == Config(a)
      granularity == a.recompute_granularity
  IN  /\ a.num_attention_heads % a.tensor_model_parallel_size = 0
      /\ c.num_query_groups % a.tensor_model_parallel_size = 0
      /\ Given(granularity) =>
           /\ Given(a.recompute_method) \/ granularity = "selective"
           /\ Given(a.recompute_num_layers) <=> granularity # "selective"
           /\ ~(a.distribute_saved_activations /\ a.sequence_parallel)
           /\ Given(a.virtual_pipeline_model_parallel_size) =>
                a.num_layers % a.virtual_pipeline_model_parallel_size = 0
      /\ c.bias_gelu_fusion => a.add_bias_linear

Stages(a) == 0 .. a.pipeline_model_parallel_size - 1

\* get_model builds one chunk, or one for every virtual rank.
VirtualRanks(a) ==
  IF Given(a.virtual_pipeline_model_parallel_size)
  THEN 0 .. a.virtual_pipeline_model_parallel_size - 1 ELSE {0}

\* The ranks of the encoder, one of them taken by a stage of the embedding.
EncoderRanks(a) ==
  IF a.standalone_embedding_stage THEN a.pipeline_model_parallel_split_rank - 1
  ELSE a.pipeline_model_parallel_split_rank

DecoderRanks(a) == a.transformer_pipeline_model_parallel_size - EncoderRanks(a)

\* The assertions of _get_num_layers.
StagesAccepted(a) ==
  IF a.pipeline_model_parallel_size = 1
  THEN a.encoder_and_decoder => Given(a.decoder_num_layers)
  ELSE IF a.encoder_and_decoder
  THEN /\ Given(a.pipeline_model_parallel_split_rank) /\ Given(a.decoder_num_layers)
       /\ EncoderRanks(a) > 0
       /\ a.encoder_num_layers % EncoderRanks(a) = 0
       /\ a.decoder_num_layers % DecoderRanks(a) = 0
  ELSE \/ a.enable_bitpipe_asymmetric
       \/ a.num_layers % a.transformer_pipeline_model_parallel_size = 0

\* _get_num_layers
NumLayers(a, r, decoder) ==
  CASE a.pipeline_model_parallel_size = 1 ->
         IF decoder THEN a.decoder_num_layers ELSE a.encoder_num_layers
    [] a.pipeline_model_parallel_size > 1 /\ decoder -> a.decoder_num_layers \div DecoderRanks(a)
    [] OTHER ->
         IF a.standalone_embedding_stage /\ r = 0 THEN 0
         ELSE IF a.encoder_and_decoder THEN a.encoder_num_layers \div EncoderRanks(a)
         ELSE (a.num_layers \div a.transformer_pipeline_model_parallel_size)
                * (IF a.enable_bitpipe_schedule THEN 2 ELSE 1)

\* The number of layers of a chunk and those before its first: interleaved,
\* bidirectional (no stage of the embedding is combined with it here) or, as
\* _get_num_layers gives them, contiguous.
Interleaved_OfStage(a, r, v) ==    \* mutant: the layers of a stage, not of the model
  LET num == NumLayers(a, r, FALSE) \div a.virtual_pipeline_model_parallel_size
  IN  [num |-> num, offset |-> v * NumLayers(a, r, FALSE) + r * num]

Interleaved(a, r, v) ==
  LET chunks == a.virtual_pipeline_model_parallel_size
      num == NumLayers(a, r, FALSE) \div chunks
  IN  [num |-> num, offset |-> v * (a.num_layers \div chunks) + r * num]

Bidirectional(a, r, v) ==
  LET T == BitPipeTable(a)
      chunk == [n \in DeviceCounts |->
        IF a.enable_bitpipe_asymmetric
        THEN [num |-> Bit(n)!FullConfig(T)[r][v],
              offset |-> Bit(n)!AsymmetricOffset(Bit(n)!FullConfig(T), r, v)]
        ELSE [num |-> Bit(n)!SymmetricNum(T), offset |-> Bit(n)!SymmetricOffset(T, r, v)]]
  IN  chunk[a.pipeline_model_parallel_size]

Contiguous(a, r, decoder) ==
  LET num == NumLayers(a, r, decoder)
      first == IF decoder /\ a.pipeline_model_parallel_size > 1
               THEN a.pipeline_model_parallel_split_rank ELSE 0
  IN  [num |-> num, offset |-> (r - first) * num]

Numbers(part) == [i \in 1 .. part.num |-> part.offset + i]

\* Encoder and decoder share a pipeline: one side of the split has the one.
BeforeSplit(a, r) ==
  a.pipeline_model_parallel_size = 1 \/ r < a.pipeline_model_parallel_split_rank
AfterSplit(a, r) ==
  a.pipeline_model_parallel_size = 1 \/ r >= a.pipeline_model_parallel_split_rank

LayersOf(a, r, v) ==
  IF ~a.encoder_and_decoder
  THEN [encoder |-> Numbers(CASE ~Given(a.virtual_pipeline_model_parallel_size) ->
                                   Contiguous(a, r, FALSE)
                              [] a.enable_bitpipe_schedule -> Bidirectional(a, r, v)
                              [] OTHER -> Interleaved(a, r, v)),
        decoder |-> << >>]
  ELSE [encoder |-> IF BeforeSplit(a, r) THEN Numbers(Contiguous(a, r, FALSE)) ELSE << >>,
        decoder |-> IF AfterSplit(a, r) THEN Numbers(Contiguous(a, r, TRUE)) ELSE << >>]

LastRank(a) == a.pipeline_model_parallel_size - 1

\* pre_process and post_process
Ends(a, r, v) ==
  IF Given(a.virtual_pipeline_model_parallel_size)
  THEN IF a.enable_bitpipe_schedule
       THEN LET stage == [n \in DeviceCounts |->
                            [pre |-> Bit(n)!IsFirstStage(r, v), post |-> Bit(n)!IsLastStage(r, v)]]
            IN  stage[a.pipeline_model_parallel_size]
       ELSE [pre |-> v = 0 /\ r = 0,
             post |-> v = a.virtual_pipeline_model_parallel_size - 1 /\ r = LastRank(a)]
  ELSE IF a.encoder_and_decoder /\ LastRank(a) > 0
  THEN [pre |-> r \in {0, a.pipeline_model_parallel_split_rank},
        post |-> r \in {a.pipeline_model_parallel_split_rank - 1, LastRank(a)}]
  ELSE [pre |-> r = 0, post |-> r = LastRank(a)]

\* A layer takes the drop path rate of its number, of which there are
\* num_layers; an empty list of chunks has no first.
BuildAccepted(a) ==
  /\ VirtualRanks(a) # {}
  /\ Given(a.virtual_pipeline_model_parallel_size) =>
       /\ ~a.encoder_and_decoder
       /\ \/ a.enable_bitpipe_asymmetric
          \/ a.num_layers % a.virtual_pipeline_model_parallel_size = 0
  /\ StagesAccepted(a)
  /\ a.ffn_hidden_size % a.tensor_model_parallel_size = 0
  /\ a.encoder_and_decoder => ~a.group_query_attention
  /\ \A r \in Stages(a), v \in VirtualRanks(a) :
       LET held == LayersOf(a, r, v).encoder \o LayersOf(a, r, v).decoder
       IN  \A i \in 1 .. Len(held) : held[i] <= a.num_layers

----------------------------------------------------------------------------
(***************************************************************************)
(* What a checkpoint file of a process holds, as load_state_dict compares  *)
(* it: the names, which count the layers of a chunk from zero, and sizes.  *)
(***************************************************************************)
Sizes(a) ==
  LET c == Config(a)
      tp == a.tensor_model_parallel_size
  IN  [hidden |-> a.hidden_size, bias |-> a.add_bias_linear,
       query_key_value |->
         ((a.num_attention_heads + 2 * c.num_query_groups) * a.kv_channels) \div tp,
       attention |-> (a.num_attention_heads * a.kv_channels) \div tp,
       h_to_4h |-> (IF c.gated_linear_unit THEN 2 * a.ffn_hidden_size
                    ELSE a.ffn_hidden_size) \div tp,
       words |-> a.padded_vocab_size \div tp,
       positions |-> IF a.position_embedding_type = "learned_absolute"
                     THEN a.max_position_embeddings ELSE Absent,
       untied |-> a.untie_embeddings_and_output_weights]

Chunk(a, r, v) ==
  [ends |-> Ends(a, r, v), encoder |-> Len(LayersOf(a, r, v).encoder),
   decoder |-> Len(LayersOf(a, r, v).decoder)]

\* get_checkpoint_name puts the rank of the pipeline into the name of a file
\* only when there is one, and load_checkpoint takes one unnumbered chunk or
\* as many numbered ones as the model has.
Fits(a, saved) ==
  /\ a.tensor_model_parallel_size <= saved.tensor_model_parallel_size
  /\ a.pipeline_model_parallel_size <= saved.pipeline_model_parallel_size
  /\ LastRank(a) > 0 <=> LastRank(saved) > 0
  /\ Sizes(a) = Sizes(saved)
  /\ VirtualRanks(a) = {0} <=> VirtualRanks(saved) = {0}
  /\ VirtualRanks(a) \subseteq VirtualRanks(saved)
  /\ \A r \in Stages(a), v \in VirtualRanks(a) : Chunk(a, r, v) = Chunk(saved, r, v)

\* check_checkpoint_args
Compared_NotHeads(a, saved, o) ==  \* mutant: the number of heads is left out
  o = "num_attention_heads" \/ a[o] = saved[o]

Compared(a, saved, o) == a[o] = saved[o]

CheckArguments(a, saved) ==
  /\ \A o \in {"num_layers", "hidden_size", "num_attention_heads", "add_position_embedding",
               "tensor_model_parallel_size", "pipeline_model_parallel_size"} :
       Compared(a, saved, o)
  /\ Given(a.vocab_file) =>
       \A o \in {"max_position_embeddings", "make_vocab_size_divisible_by",
                 "padded_vocab_size", "tokenizer_type"} : Compared(a, saved, o)

----------------------------------------------------------------------------
(***************************************************************************)
(* Launches, one after the other, over the same directories.               *)
(***************************************************************************)
InitLaunch ==
  /\ directories = [d \in Directories |-> Absent]
  /\ standing = "down"
  /\ command = Absent /\ arguments = Absent /\ source = Absent
  /\ launch_times = 0

\* The command of the checkpoint once more, without what the checkpoint knows.
Again(d) ==
  LET saved == directories[d]
      kept == DOMAIN saved.command \ (TakenWhenMissing \union Taken)
  IN  [use_checkpoint_args |-> TRUE, load |-> d, save |-> d]
        @@ [o \in kept |-> saved.command[o]]

Saved == {d \in Directories : directories[d] # Absent}

\* A user who saves into a directory goes on from what is there.
Launch(c, world) ==
  /\ standing = "down" /\ launch_times < MaxLaunches
  /\ LET a == Parse(c, world)
     IN  /\ Given(a.save) => a.load = a.save \/ a.save \notin Saved
         /\ arguments' = a
  /\ command' = c /\ standing' = "parsed"
  /\ launch_times' = launch_times + 1
  /\ UNCHANGED <<directories, source>>

\* initialize_megatron, up to validate_args
Complete ==
  /\ standing = "parsed"
  /\ standing' = IF arguments.use_checkpoint_args /\ ~Given(arguments.load)
                 THEN "stopped" ELSE "completed"
  /\ arguments' = IF arguments.use_checkpoint_args /\ arguments.load \in Saved
                  THEN FromCheckpoint(arguments, directories[arguments.load].arguments)
                  ELSE arguments
  /\ UNCHANGED <<directories, command, source, launch_times>>

\* validate_args, the global variables, the groups and the model
Initialize ==
  /\ standing = "completed"
  /\ LET a == WithVocabulary(Validated(arguments))
     IN  IF /\ Valid(arguments) /\ TokenizerAccepted(Validated(arguments))
            /\ GroupsAccepted(a) /\ ConfigAccepted(a) /\ BuildAccepted(a)
         THEN standing' = "built" /\ arguments' = a
         ELSE standing' = "stopped" /\ UNCHANGED arguments
  /\ UNCHANGED <<directories, command, source, launch_times>>

\* load_checkpoint
LoadCheckpoint ==
  /\ standing = "built"
  /\ IF arguments.load \in Saved
     THEN LET saved == directories[arguments.load].arguments
          IN  IF (arguments.finetune \/ CheckArguments(arguments, saved)) /\ Fits(arguments, saved)
              THEN standing' = "running" /\ source' = saved
              ELSE standing' = "stopped" /\ UNCHANGED source
     ELSE /\ standing' = IF Given(arguments.load) /\ arguments.exit_on_missing_checkpoint
                         THEN "stopped" ELSE "running"
          /\ UNCHANGED source
  /\ UNCHANGED <<directories, command, arguments, launch_times>>

SaveCheckpoint ==
  /\ standing = "running" /\ Given(arguments.save)
  /\ directories' = [directories EXCEPT ![arguments.save] =
                       [arguments |-> arguments, command |-> command]]
  /\ UNCHANGED <<standing, command, arguments, source, launch_times>>

End ==
  /\ standing \in {"running", "stopped"}
  /\ standing' = "down" /\ command' = Absent /\ arguments' = Absent /\ source' = Absent
  /\ UNCHANGED <<directories, launch_times>>

NextLaunch ==
  \/ \E world \in Worlds : \E c \in Commands \union {Again(d) : d \in Saved} : Launch(c, world)
  \/ Complete \/ Initialize \/ LoadCheckpoint \/ SaveCheckpoint \/ End

----------------------------------------------------------------------------
\* The weights a launch goes on with are those of its own model: the same
\* layers in the same chunks of the same processes, and the same heads in
\* them, whatever the options and the number of processes it was given.
Meaning(a) ==
  [layers |-> [r \in Stages(a) |-> [v \in VirtualRanks(a) |-> LayersOf(a, r, v)]],
   ends |-> [r \in Stages(a) |-> [v \in VirtualRanks(a) |-> Ends(a, r, v)]],
   sizes |-> Sizes(a), heads |-> a.num_attention_heads, kv_channels |-> a.kv_channels]

SameModel ==
  standing = "running" /\ source # Absent /\ ~arguments.finetune =>
    Meaning(arguments) = Meaning(source)

\* Repeating the command of a checkpoint with --use-checkpoint-args and
\* without the options that the checkpoint can give makes, with the same
\* number of processes, the launch that wrote it.  Numbers that were given
\* under their encoder's name are excluded: the checkpoint gives them under
\* the other name too, and validate_args refuses both.
RestartsAlike ==
  \A d \in Saved :
    LET saved == directories[d]
    IN  /\ command = Again(d)
        /\ arguments.world_size = saved.arguments.world_size
        /\ DOMAIN command \intersect {"encoder_num_layers", "encoder_seq_length"} = {}
        => /\ standing # "stopped"
           /\ standing = "running" =>
                \A o \in DOMAIN arguments \ {"load", "save", "use_checkpoint_args"} :
                  arguments[o] = saved.arguments[o]

Holds(a, n, side) ==
  {h \in Stages(a) \X VirtualRanks(a) :
     LET held == LayersOf(a, h[1], h[2])[side]
     IN  \E i \in 1 .. Len(held) : held[i] = n}

Size(S) == IF S = {} THEN 0 ELSE IF \E x \in S : S = {x} THEN 1
           ELSE IF \E x, y \in S : S = {x, y} THEN 2 ELSE 3

EvenChunks(a) ==
  ~Given(a.virtual_pipeline_model_parallel_size) \/ a.enable_bitpipe_schedule
    \/ (a.num_layers \div a.transformer_pipeline_model_parallel_size)
         % a.virtual_pipeline_model_parallel_size = 0

\* No layer of the model is in more than one chunk of the pipeline, under BitPipe
\* in more than one of each direction; and every layer is in one, except in
\* the launches where the layers of a stage do not divide among its chunks.
\* These run as well (what ParallelTransformer asserts, against its message, is
\* that the layers of the model divide), and leave layers out.
LayersComplete ==
  standing = "running" =>
    LET copies == IF arguments.enable_bitpipe_schedule THEN 2 ELSE 1
        held == [n \in 1 .. arguments.num_layers |-> Size(Holds(arguments, n, "encoder"))]
    IN  /\ \A n \in DOMAIN held : held[n] <= copies
        /\ (\A n \in DOMAIN held : held[n] = copies) <=> EvenChunks(arguments)
        /\ arguments.encoder_and_decoder =>
             \A n \in 1 .. arguments.decoder_num_layers :
               Size(Holds(arguments, n, "decoder")) = 1

LaunchFits == SameModel /\ RestartsAlike /\ LayersComplete
===============================================================================
