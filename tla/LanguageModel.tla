----------------------------- MODULE LanguageModel -----------------------------
(***************************************************************************)
(* The forward and the backward pass of a language model over the stages   *)
(* of a pipeline (megatron/model/language_model.py, transformer.py): GPT,  *)
(* Bert, T5 with its encoder and decoder on stages of their own, and Retro *)
(* with its retriever.  A hidden state is what it was computed from: per   *)
(* position and column the tokens behind it, and the layers it passed.     *)
(* A gradient is the layers it came back through.  The numbers, and the    *)
(* parts of tensor-parallel ranks, are left out; how the microbatches of a *)
(* step overlap is in the modules of the schedules.                        *)
(***************************************************************************)
EXTENDS Integers, Sequences, FiniteSetsExt

CONSTANTS Nets,        \* models, how they are divided, and what is asked of them
          MaxUpdates   \* bound on the optimizer's steps

VARIABLES net,         \* the model
          stacks,      \* per stage, the layers of its encoder and of its decoder
          station,     \* stage, part and layer the microbatch is at
          hidden,      \* << >> or the hidden states there
          encoded,     \* << >> or the encoder's output as this stage has it
          wire,        \* what the stage before, or after, sent
          tape,        \* per stage, what backward needs
          meters,      \* per stage, what tells the first microbatch of a step
          clock,       \* the step, its microbatches so far, the weights' version
          net_raised   \* << >> or why the job ended

net_vars == <<net, stacks, station, hidden, encoded, wire, tape, meters, clock, net_raised>>

----------------------------------------------------------------------------
(***************************************************************************)
(* Which layers a stage builds.                                            *)
(***************************************************************************)
T5 == net.kind = "t5"
Stages == 0 .. net.stages - 1
BeforeSplit(s) == net.stages = 1 \/ ~T5 \/ s < net.split
AfterSplit(s) == net.stages = 1 \/ ~T5 \/ s >= net.split
HasEncoder(s) == ~T5 \/ BeforeSplit(s)
HasDecoder(s) == T5 /\ AfterSplit(s)

\* The stages that embed: the first one, and the decoder's first.
PreProcess(s) == s = 0 \/ (T5 /\ s = net.split)
Last(s) == s = net.stages - 1

Alone == IF net.standalone THEN 1 ELSE 0

NumLayers(s, part) ==
  CASE part = "decoder" -> net.decoders \div (net.stages - net.split)
    [] net.standalone /\ s = 0 -> 0
    [] OTHER -> net.layers \div ((IF T5 /\ net.stages > 1 THEN net.split ELSE net.stages) - Alone)

LayerOffset(s, part) ==
  IF part = "decoder" THEN (s - net.split) * NumLayers(s, part) ELSE s * NumLayers(s, part)

\* Every third layer reads the neighbours; from the sixth on, or the ninth.
RetroStart == IF net.layers <= 15 THEN 6 ELSE 9
RetroNumbers == {n \in RetroStart .. net.layers : (n - RetroStart) % 3 = 0}

LayerKind(part, n) ==
  CASE net.kind # "retro" \/ n \notin RetroNumbers -> part
    [] n = RetroStart -> "retro_decoder_with_retriever"
    [] OTHER          -> "retro_decoder"

\* Numbers count from one.  A stage without layers gets one that does nothing; with a
\* stage that only embeds no model is ever built, the numbers run past the last layer.
BuiltLayers(s, part) ==
  IF NumLayers(s, part) = 0 THEN << [number |-> 1, type |-> "noop"] >>
  ELSE [i \in 1 .. NumLayers(s, part) |->
          LET n == i + LayerOffset(s, part) IN [number |-> n, type |-> LayerKind(part, n)]]

Stack(s) ==
  [encoder |-> IF HasEncoder(s) THEN BuiltLayers(s, "encoder") ELSE << >>,
   decoder |-> IF HasDecoder(s) THEN BuiltLayers(s, "decoder") ELSE << >>]

\* A rate of drop path is looked up per layer number; there is one per encoder layer.
RateMissing(s) ==
  \E part \in {"encoder", "decoder"} : \E i \in DOMAIN Stack(s)[part] :
    LET l == Stack(s)[part][i] IN l.type # "noop" /\ l.number > net.layers

----------------------------------------------------------------------------
(***************************************************************************)
(* What a layer makes of hidden states: cells are <<position, column>>, a  *)
(* column is a sample, or a chunk or a neighbour of one.  A residual       *)
(* connection keeps what a cell held.                                      *)
(***************************************************************************)
Source(word, x) == {<<word>> \o x}

Cells(rows, columns) == (0 .. rows - 1) \X (0 .. columns - 1)

Column(cells, c) == UNION {cells[x] : x \in {y \in DOMAIN cells : y[2] = c}}

\* The samples of Bert and of T5's encoder are padded, here the second one by a token.
Length(b) == IF net.kind \in {"bert", "t5"} THEN net.rows - b ELSE net.rows
Real(x) == x[1] < Length(x[2])
Masked == net.kind \in {"bert", "t5"} /\ station.part = "encoder"

\* Documents packed into a row are kept apart by the mask, which a fused causal softmax
\* does not look at.
SameDocument(x, y) == net.fused \/ \A e \in net.eods : x[1] > e => y[1] > e

\* The positions count from zero again behind every end of a document.
PositionIds ==
  LET Reset[i \in -1 .. net.rows - 1] ==
        CASE i = -1 -> [ids |-> [p \in 0 .. net.rows - 1 |-> p], prev |-> 0]
          [] i \notin net.eods -> Reset[i - 1]
          [] OTHER ->
               [ids |-> [p \in 0 .. net.rows - 1 |->
                           Reset[i - 1].ids[p] - IF p > i THEN i + 1 - Reset[i - 1].prev ELSE 0],
                prev |-> i + 1]
  IN Reset[net.rows - 1].ids

\* Attention within a column, to all of it or to what is not later; the mask keeps
\* padding from what is not.
Sees(x, y, causal) ==
  /\ y[2] = x[2]
  /\ causal => y[1] <= x[1] /\ SameDocument(x, y)
  /\ Masked /\ Real(x) => Real(y)
SelfAttention(cells, causal) ==
  [x \in DOMAIN cells |-> UNION {cells[y] : y \in {z \in DOMAIN cells : Sees(x, z, causal)}}]
Unpadded(cells) == [x \in {y \in DOMAIN cells : Real(y)} |-> cells[x]]

\* Attention to the same column of other hidden states.
CrossAttention(cells, others) == [x \in DOMAIN cells |-> cells[x] \cup Column(others, x[2])]

Embedding(word, rows) == [x \in Cells(rows, net.samples) |-> Source(word, x)]

\* The chunks of the samples as columns, sample by sample; cells past the end are zero.
ChunkCount == -((-net.rows) \div net.chunk)
Chunked(cells, from) ==
  [x \in Cells(net.chunk, net.samples * ChunkCount) |->
     LET row == from + (x[2] % ChunkCount) * net.chunk + x[1] IN
       IF row < net.rows THEN cells[<<row, x[2] \div ChunkCount>>] ELSE {}]

Neighbours ==
  [x \in Cells(net.retrieved, net.samples * ChunkCount * net.neighbours) |-> Source("neighbour", x)]

\* The retriever's first layer: every neighbour, one after the other, reads its chunk;
\* they are stacked in front of the chunks.
RetroEncoderCrossAttention(cells, chunks) ==
  LET columns == net.samples * ChunkCount
  IN [x \in DOMAIN cells |->
        LET column == x[2] % columns IN
          cells[<<x[1], column * net.neighbours + x[2] \div columns>>] \cup Column(chunks, column)]

\* A transformer of layers that see both ways, the first one with cross attention.
Retriever(chunks) ==
  LET After[n \in 1 .. net.retriever] ==
        IF n = 1 THEN RetroEncoderCrossAttention(SelfAttention(Neighbours, FALSE), chunks)
        ELSE SelfAttention(After[n - 1], FALSE)
  IN After[net.retriever]

\* [r, k * bs * l] read as [r * k, bs * l].
AsRetrieved(cells) ==
  LET columns == net.samples * ChunkCount
  IN [x \in Cells(net.retrieved * net.neighbours, columns) |->
        cells[<<x[1] \div net.neighbours, (x[1] % net.neighbours) * columns + x[2]>>]]

\* Chunks that begin at the last token of each chunk read that chunk's neighbours.
RetroDecoderCrossAttention(cells, retrieved) ==
  LET pad == (net.rows - 1) % net.chunk
      attended == CrossAttention(Chunked(cells, pad), retrieved)
  IN [x \in DOMAIN cells |->
        LET row == x[1] - pad IN
          cells[x] \cup IF row < 0 THEN {}
                        ELSE attended[<<row % net.chunk, x[2] * ChunkCount + row \div net.chunk>>]]

----------------------------------------------------------------------------
(***************************************************************************)
(* One microbatch on its way.                                              *)
(***************************************************************************)
Tensor(cells) == [cells |-> cells, passed |-> << >>]
NoGradient == [walked |-> << >>, encoder |-> [n \in 1 .. net.decoders |-> 0]]

At(phase, s, part, index) == [phase |-> phase, stage |-> s, part |-> part, index |-> index]

InitNet ==
  /\ net \in Nets
  /\ stacks = << >> /\ hidden = << >> /\ encoded = << >> /\ wire = << >>
  /\ station = At("build", 0, "encoder", 1)
  /\ tape = << >> /\ meters = << >>
  /\ clock = [step |-> 1, micro |-> 0, weights |-> 1, training |-> TRUE]
  /\ net_raised = << >>

Fail(why) ==
  /\ net_raised' = <<why>>
  /\ station' = At("failed", station.stage, station.part, station.index)
  /\ UNCHANGED <<net, stacks, hidden, encoded, wire, tape, meters, clock>>

\* Retro is built of local layers, without recomputing; other models but GPT are refused
\* the transformer engine once they are built.
Refused ==
  CASE net.kind = "retro" /\ (net.recompute # "none" \/ net.impl = "te") -> <<"not supported">>
    [] \E s \in Stages : RateMissing(s)     -> <<"no rate">>
    [] net.impl = "te" /\ net.kind # "gpt"  -> <<"not approved">>
    [] OTHER                                -> << >>

Build ==
  /\ station.phase = "build"
  /\ IF Refused # << >> THEN Fail(Refused[1])
     ELSE /\ stacks' = [s \in Stages |-> Stack(s)]
          /\ station' = At("arrive", 0, "encoder", 1)
          /\ tape' = [s \in Stages |-> [inputs |-> 0, freed |-> FALSE, gradient |-> NoGradient]]
          /\ meters' = [s \in Stages |-> [count |-> 0, previous |-> -1, cast |-> 0]]
          /\ UNCHANGED <<net, hidden, encoded, wire, clock, net_raised>>

\* The microbatches of a step, and how many passes a model chunk sees; an evaluation has
\* the microbatches of the full batch size.
NumMicrobatches == net.microbatches[clock.step]
Passes ==
  LET asked == IF clock.training THEN NumMicrobatches ELSE net.microbatches[MaxUpdates]
  IN IF net.bitpipe THEN asked \div 2 ELSE asked

\* Fp8 weights are cast for the first microbatch and kept for the others.
FirstMicrobatch(meter) ==
  \/ meter.previous # NumMicrobatches
  \/ meter.count % NumMicrobatches = 0
Metered(meter) ==
  [count |-> IF meter.previous # NumMicrobatches THEN 0 ELSE meter.count,
   previous |-> NumMicrobatches,
   cast |-> IF FirstMicrobatch(meter) THEN clock.weights ELSE meter.cast]

\* Of a decoder's stage a single tensor is the encoder's output, the second of two is.
EncoderHiddenState == IF HasEncoder(station.stage) THEN << >> ELSE << wire[Len(wire)] >>
InputTensor ==
  IF HasEncoder(station.stage) \/ Len(wire) = 2 THEN SubSeq(wire, 1, 1) ELSE << >>

\* forward_step hands a stage what was received and embeds what is to be embedded.
Arrive ==
  /\ station.phase = "arrive"
  /\ LET s == station.stage
         part == IF HasEncoder(s) THEN "encoder" ELSE "decoder"
         embedded == Tensor(IF part = "decoder" THEN Embedding("decoder", net.target)
                            ELSE Embedding("token", net.rows))
         input == IF PreProcess(s) THEN <<embedded>> ELSE InputTensor
     IN IF input = << >> THEN Fail("no input")
        ELSE /\ hidden' = input
             /\ encoded' = EncoderHiddenState
             /\ station' = At("layers", s, part, 1)
             /\ tape' = [tape EXCEPT ![s] =
                           [inputs |-> Len(wire), freed |-> FALSE, gradient |-> NoGradient]]
             /\ meters' = [meters EXCEPT ![s] = Metered(@)]
             /\ wire' = << >>
             /\ UNCHANGED <<net, stacks, clock, net_raised>>

Layers == stacks[station.stage][station.part]

\* Layers may be run again in backward, and then in pieces of a number of layers.
PastTheEnd ==
  /\ net.recompute = "uniform"
  /\ station.index - 1 + net.pieces > Len(Layers) /\ (station.index - 1) % net.pieces = 0

Causal == net.kind \in {"gpt", "retro"} \/ station.part = "decoder"
Mixed == SelfAttention(hidden[1].cells, Causal)

\* The retriever's output stays for the layers that follow.
Retrieved(layer) ==
  IF layer.type = "retro_decoder_with_retriever"
  THEN << Tensor(AsRetrieved(Retriever(Chunked(Mixed, 0)))) >> ELSE encoded

Crossed(layer) ==
  CASE layer.type = "encoder" -> Mixed
    [] layer.type = "decoder" -> CrossAttention(Mixed, Unpadded(encoded[1].cells))
    [] OTHER -> RetroDecoderCrossAttention(Mixed, Retrieved(layer)[1].cells)

Layer ==
  /\ station.phase = "layers" /\ station.index <= Len(Layers)
  /\ LET layer == Layers[station.index] IN
       CASE PastTheEnd -> Fail("no such layer")
         [] layer.type = "retro_decoder_with_retriever" /\ net.rows % net.chunk > 0 ->
              Fail("test this case.")
         [] OTHER ->
              /\ hidden' = << [cells |-> Crossed(layer),
                               passed |-> Append(hidden[1].passed, layer.number)] >>
              /\ encoded' = Retrieved(layer)
              /\ station' = [station EXCEPT !.index = @ + 1]
              /\ UNCHANGED <<net, stacks, wire, tape, meters, clock, net_raised>>

\* On a stage with both parts the decoder follows, on the encoder's output.
DecoderEmbedding ==
  /\ station.phase = "layers" /\ station.index > Len(Layers)
  /\ station.part = "encoder" /\ HasDecoder(station.stage)
  /\ encoded' = hidden
  /\ hidden' = << Tensor(Embedding("decoder", net.target)) >>
  /\ station' = At("layers", station.stage, "decoder", 1)
  /\ UNCHANGED <<net, stacks, wire, tape, meters, clock, net_raised>>

\* The tensors that go from a stage to the next one, and back.
TensorShapes(s) == IF T5 /\ ~BeforeSplit(s) THEN 2 ELSE 1
Zip(tensors, s) == SubSeq(tensors, 1, Min({Len(tensors), TensorShapes(s)}))

\* The data of an output is freed once it is sent, the last stage's too; what is left can
\* only go backward where the output was freed or is the loss.
Deallocated == clock.training /\ net.stages > 1
NotScalar(s) == ~tape[s].freed /\ ~Last(s)

\* The model of a stage is through.
Depart ==
  /\ station.phase = "layers" /\ station.index > Len(Layers)
  /\ ~(station.part = "encoder" /\ HasDecoder(station.stage))
  /\ LET s == station.stage
         outputs == IF T5 /\ AfterSplit(s) /\ net.stages > 1 THEN hidden \o encoded ELSE hidden
     IN /\ wire' = IF Last(s) THEN << >> ELSE Zip(outputs, s)
        /\ meters' = IF clock.training THEN [meters EXCEPT ![s].count = @ + 1] ELSE meters
        /\ station' = CASE ~Last(s) -> At("arrive", s + 1, "encoder", 1)
                        [] clock.training -> At("loss", s, station.part, 1)
                        [] OTHER    -> At("evaluated", s, station.part, 1)
        /\ tape' = [tape EXCEPT ![s].freed = Deallocated]
        /\ encoded' = IF T5 THEN encoded ELSE << >>
        /\ UNCHANGED <<net, stacks, hidden, clock, net_raised>>

----------------------------------------------------------------------------
(***************************************************************************)
(* Backward, and what follows a microbatch.                                *)
(***************************************************************************)
\* Per sample and position, from the logits there and the label of the position.
Losses ==
  [x \in {<<y[2], y[1]>> : y \in DOMAIN hidden[1].cells} |->
     hidden[1].cells[<<x[2], x[1]>>] \cup Source("label", <<x[2], x[1]>>)]

Loss ==
  /\ station.phase = "loss"
  /\ station' = At("backward", station.stage, station.part, 1)
  /\ hidden' = << >> /\ encoded' = << >>
  /\ UNCHANGED <<net, stacks, wire, tape, meters, clock, net_raised>>

\* The layers of a stage, last first.
Walk(s) ==
  LET layers == stacks[s].encoder \o stacks[s].decoder
  IN [i \in DOMAIN layers |-> layers[Len(layers) + 1 - i].number]

ReachesEncoder(s) ==
  [n \in 1 .. net.decoders |-> Cardinality({i \in DOMAIN stacks[s].decoder : stacks[s].decoder[i].number = n})]
Sum(f, g) == [n \in DOMAIN f |-> f[n] + g[n]]

\* The encoder's output came past this stage, so what later stages made of it is added to
\* what this one did.
BackwardStep ==
  /\ station.phase = "backward"
  /\ LET s == station.stage
         out == IF wire = << >> THEN NoGradient ELSE wire[1]
         skipped == IF T5 /\ AfterSplit(s) /\ Len(wire) = 2 THEN wire[2].encoder ELSE NoGradient.encoder
         walked == out.walked \o Walk(s)
         encoder == IF HasDecoder(s) THEN Sum(ReachesEncoder(s), skipped) ELSE out.encoder
         gradient == [walked |-> walked, encoder |-> encoder]
         encoders == [walked |-> << >>, encoder |-> encoder]
         inputs == CASE HasEncoder(s)        -> <<gradient>>
                     [] tape[s].inputs = 1   -> <<encoders>>
                     [] OTHER                -> <<gradient, encoders>>
     IN IF NotScalar(s) THEN Fail("not freed")
        ELSE /\ tape' = [tape EXCEPT ![s].gradient = gradient]
             /\ wire' = IF s = 0 THEN << >> ELSE Zip(inputs, s - 1)
             /\ station' = IF s = 0 THEN At("done", 0, "encoder", 1)
                           ELSE At("backward", s - 1, "encoder", 1)
             /\ UNCHANGED <<net, stacks, hidden, encoded, meters, clock, net_raised>>

NextMicrobatch ==
  /\ station.phase \in {"done", "evaluated"}
  /\ clock.micro + 1 < Passes
  /\ clock' = [clock EXCEPT !.micro = @ + 1]
  /\ station' = At("arrive", 0, "encoder", 1)
  /\ hidden' = << >> /\ encoded' = << >>
  /\ UNCHANGED <<net, stacks, wire, tape, meters, net_raised>>

\* The step of the optimizer, which an overflow may skip; an evaluation may follow.
Update ==
  /\ station.phase = "done"
  /\ clock.micro + 1 = Passes /\ clock.step < MaxUpdates
  /\ \E skip, evaluate \in BOOLEAN :
       clock' = [step |-> IF evaluate THEN clock.step ELSE clock.step + 1, micro |-> 0,
                 weights |-> IF skip THEN clock.weights ELSE clock.weights + 1,
                 training |-> ~evaluate]
  /\ station' = At("arrive", 0, "encoder", 1)
  /\ UNCHANGED <<net, stacks, hidden, encoded, wire, tape, meters, net_raised>>

Resume ==
  /\ station.phase = "evaluated"
  /\ clock.micro + 1 = Passes
  /\ clock' = [clock EXCEPT !.step = @ + 1, !.micro = 0, !.training = TRUE]
  /\ station' = At("arrive", 0, "encoder", 1)
  /\ hidden' = << >> /\ encoded' = << >>
  /\ UNCHANGED <<net, stacks, wire, tape, meters, net_raised>>

NetIdle ==
  /\ \/ station.phase = "failed"
     \/ station.phase = "done" /\ clock.micro + 1 = Passes /\ clock.step = MaxUpdates
  /\ UNCHANGED net_vars

NextNet ==
  Build \/ Arrive \/ Layer \/ DecoderEmbedding \/ Depart \/ Loss \/ BackwardStep
    \/ NextMicrobatch \/ Update \/ Resume \/ NetIdle

----------------------------------------------------------------------------
(***************************************************************************)
(* What the passes must come to.                                           *)
(***************************************************************************)
Pooled == [b \in 0 .. net.samples - 1 |-> hidden[1].cells[<<0, b>>]]

Tokens(b, upto) == UNION {Source("token", <<t, b>>) : t \in 0 .. upto}
NeighboursOf(b, upto) ==
  UNION {Source("neighbour", <<p, (b * ChunkCount + c) * net.neighbours + n>>) :
           p \in 0 .. net.retrieved - 1, n \in 0 .. net.neighbours - 1,
           c \in {d \in 0 .. ChunkCount - 1 : (d + 1) * net.chunk - 1 <= upto}}

DocumentStart(p) == Max({0} \cup {e + 1 : e \in {f \in net.eods : f < p}})

Asked(x) ==
  CASE net.kind = "gpt"  ->
         Tokens(x[2], x[1]) \ IF net.fused THEN {} ELSE Tokens(x[2], DocumentStart(x[1]) - 1)
    [] net.kind = "bert" -> Tokens(x[2], Length(x[2]) - 1)
    [] net.kind = "t5"   -> Tokens(x[2], Length(x[2]) - 1)
                              \cup UNION {Source("decoder", <<t, x[2]>>) : t \in 0 .. x[1]}
    [] OTHER -> Tokens(x[2], x[1])
                  \cup CASE net.layers < RetroStart -> {}
                         [] net.layers = RetroStart -> NeighboursOf(x[2], x[1]) \ NeighboursOf(x[2], x[1] - net.chunk)
                         [] OTHER -> NeighboursOf(x[2], x[1])

Numbers(n) == [i \in 1 .. n |-> i]

\* A position of the output is made of all that it may depend on and of nothing else, in
\* particular of no later token, no padding and no neighbour of a chunk that has not ended, and
\* every layer was passed once and in order, wherever the stages are divided.
OutputAsAsked ==
  station.phase \in {"loss", "evaluated"} =>
    /\ \A x \in DOMAIN Losses : Real(<<x[2], x[1]>>) =>
         Losses[x] = Asked(<<x[2], x[1]>>) \cup Source("label", <<x[2], x[1]>>)
    /\ hidden[1].passed = Numbers(IF T5 THEN net.decoders ELSE net.layers)
    /\ T5 => encoded[1].passed = Numbers(net.layers)
    /\ \A p \in 0 .. net.rows - 1 : PositionIds[p] = p - DocumentStart(p)
    /\ net.kind = "bert" => \A b \in DOMAIN Pooled : Pooled[b] = Tokens(b, Length(b) - 1)

\* The gradient comes back through every layer, and to the encoder from every layer of
\* the decoder once, whatever stages these are on.
GradientOfAll ==
  station.phase = "done" =>
    LET back(n) == [i \in 1 .. n |-> n + 1 - i] IN
    IF T5 /\ net.stages > 1
    THEN /\ tape[net.split].gradient.walked = back(net.decoders)
         /\ tape[0].gradient.walked = back(net.layers)
         /\ \A n \in 1 .. net.decoders : tape[0].gradient.encoder[n] = 1
    ELSE tape[0].gradient.walked =
           (IF T5 THEN back(net.decoders) ELSE << >>) \o back(net.layers)

\* Layers compute with the weights of the last step, not with fp8 copies of older ones.
WeightsFresh ==
  station.phase = "layers" /\ ~net.bitpipe => meters[station.stage].cast = clock.weights

\* A job ends early only for what it was refused or where a layer cannot be run.
EndsEarlyOnlyIf ==
  net_raised # << >> =>
    CASE net_raised[1] = "no such layer"       -> net.recompute = "uniform"
      [] net_raised[1] = "no rate"             -> net.standalone \/ net.decoders > net.layers
      [] net_raised[1] = "test this case."     -> net.rows % net.chunk > 0
      [] OTHER -> net_raised[1] \in {"not approved", "not supported"}

ForwardAndBack == OutputAsAsked /\ GradientOfAll /\ WeightsFresh /\ EndsEarlyOnlyIf
================================================================================
