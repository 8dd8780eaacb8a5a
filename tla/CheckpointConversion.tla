-------------------------- MODULE CheckpointConversion --------------------------
(***************************************************************************)
(* tools/checkpoint_util.py: a checkpoint of one tensor- and pipeline-     *)
(* parallel size becomes one of another.  A loader puts the parts of every *)
(* tensor together and sends them, layer by layer, through a bounded queue *)
(* to a saver in another process, which builds the new stages one after    *)
(* the other, cuts the tensors and writes the files of a stage when it is  *)
(* full.  Either process may end with an error.                            *)
(*                                                                         *)
(* The tensors of a layer are three, by how they are divided: not at all   *)
(* (norms, biases of sums), into equal parts (qkv, dense, the second       *)
(* product of the MLP, their divided biases), and the first product of the *)
(* MLP, which with gated units is two matrices in one.  A tensor is a      *)
(* sequence of rows, or of columns; a row is a tuple.                      *)
(***************************************************************************)
EXTENDS Integers, Sequences, SequencesExt

CONSTANTS Conversions, \* see conv
          RowsPerTensor, QueueSize

VARIABLES conv,   \* tensor, pipeline and virtual size of the old and tensor and pipeline
                  \* size of the new; layers, gated units, untied head, BERT, vocabulary
                  \* true and padded, to a multiple of what, and whether it is known
          loading, \* the loader: "sending", "raised", "ended"
          sent,   \* messages put, metadata first
          queue,
          saving, \* the saver: "receiving", "writing", "ended", or how it failed
          got,    \* messages taken
          stage,  \* the stage being built, and of it the files written
          built,  \* by tensor-parallel rank: the tensors of that stage
          stored  \* the files: <<tensor rank, stage>> and tensors

conv_vars == <<conv, loading, sent, queue, saving, got, stage, built, stored>>

Rows(name, n) == [i \in 1 .. n |-> <<name, i>>]
Cat(parts) == FlattenSeq(parts)
Ceil(a, b) == (a + b - 1) \div b

\* torch.chunk: parts of equal length, perhaps fewer than were asked for.
Chunk(x, n, k) ==
  LET size == Ceil(Len(x), n)
  IN  SubSeq(x, (k - 1) * size + 1, IF k * size > Len(x) THEN Len(x) ELSE k * size)

(***************************************************************************)
(* The old checkpoint: what the rank k of n has of a tensor.               *)
(***************************************************************************)
Divided(x, n, k) == SubSeq(x, (k - 1) * (Len(x) \div n) + 1, k * (Len(x) \div n))

GatedPart(w, v, n, k) == Divided(w, n, k) \o Divided(v, n, k)

LayerOf(l, n, k) ==
  [same |-> Rows(<<"same", l>>, 1),
   split |-> Divided(Rows(<<"split", l>>, RowsPerTensor), n, k),
   up |-> IF conv.gated
          THEN GatedPart(Rows(<<"W", l>>, RowsPerTensor), Rows(<<"V", l>>, RowsPerTensor), n, k)
          ELSE Divided(Rows(<<"up", l>>, RowsPerTensor), n, k)]

\* The layers of a chunk of a stage, numbered from 0.
ChunkLayers(p, v) ==
  LET n == conv.layers \div (conv.pp * conv.vp)
  IN  [j \in 1 .. n |-> (v * conv.pp + p) * n + j - 1]

PaddedTo(tensor_size) ==
  LET multiple == conv.divisible * tensor_size
  IN  multiple * Ceil(conv.vocab, multiple)

OldWord(k) == Divided(Rows("word", PaddedTo(conv.tp)), conv.tp, k)
OldHead(k) == Divided(Rows("head", PaddedTo(conv.tp)), conv.tp, k)

(***************************************************************************)
(* The loader.                                                             *)
(***************************************************************************)
Halves(x) == <<SubSeq(x, 1, Len(x) \div 2), SubSeq(x, Len(x) \div 2 + 1, Len(x))>>

JoinUp_Concatenated(parts) == [W |-> Halves(Cat(parts))[1], V |-> Halves(Cat(parts))[2]]
JoinUp(parts) ==
  [W |-> Cat([k \in DOMAIN parts |-> Halves(parts[k])[1]]),
   V |-> Cat([k \in DOMAIN parts |-> Halves(parts[k])[2]])]

LayerMessage(number, l) ==
  LET part(k) == LayerOf(l, conv.tp, k)
      up == [k \in 1 .. conv.tp |-> part(k).up]
  IN  [name |-> <<"transformer layer", number>>,
       body |-> [same |-> part(1).same,
                 split |-> Cat([k \in 1 .. conv.tp |-> part(k).split]),
                 up |-> IF conv.gated THEN JoinUp(up) ELSE Cat(up)]]

LayerOrder ==
  Cat([v \in 1 .. conv.vp |-> Cat([p \in 1 .. conv.pp |-> ChunkLayers(p - 1, v - 1)])])

Plain(name) == [name |-> <<name>>, body |-> Rows(name, 1)]

Messages ==
  << Plain("metadata"), [name |-> <<"embeddings">>, body |-> Cat([k \in 1 .. conv.tp |-> OldWord(k)])] >>
  \o [i \in 1 .. Len(LayerOrder) |-> LayerMessage(i - 1, LayerOrder[i])]
  \o << Plain("final layernorm") >>
  \o (IF conv.untied
      THEN << [name |-> <<"output layer">>, body |-> Cat([k \in 1 .. conv.tp |-> OldHead(k)])] >>
      ELSE << >>)
  \o (IF conv.bert THEN << Plain("pooler"), Plain("lm head"), Plain("binary head") >> ELSE << >>)
  \o << [name |-> <<"done">>, body |-> << >>] >>

Exit == [name |-> <<"exit">>, body |-> << >>]

Put ==
  /\ loading = "sending" /\ Len(queue) < QueueSize
  /\ queue' = Append(queue, Messages[sent + 1])
  /\ sent' = sent + 1
  /\ loading' = IF sent' = Len(Messages) THEN "ended" ELSE "sending"
  /\ UNCHANGED <<conv, saving, got, stage, built, stored>>

\* Whatever is raised, "exit" is sent first.
Raise ==
  /\ loading = "sending"
  /\ loading' = "raised"
  /\ UNCHANGED <<conv, sent, queue, saving, got, stage, built, stored>>

PutExit ==
  /\ loading = "raised" /\ Len(queue) < QueueSize
  /\ queue' = Append(queue, Exit)
  /\ loading' = "ended"
  /\ UNCHANGED <<conv, sent, saving, got, stage, built, stored>>

(***************************************************************************)
(* The saver.  What it waits for follows from what it has.                 *)
(***************************************************************************)
NewRanks == 1 .. conv.to_tp
LayersPerStage == conv.layers \div conv.to_pp
IsLast(p) == p = conv.to_pp - 1

\* The vocabulary is padded again, by repeating the last row, or cut.
Repadded(word) ==
  LET size == PaddedTo(conv.to_tp)
  IN  IF ~ conv.known THEN word
      ELSE [i \in 1 .. size |-> IF i <= Len(word) THEN word[i] ELSE word[Len(word)]]

\* copy_ into a tensor of the new model.
VocabPart == IF conv.known THEN PaddedTo(conv.to_tp) \div conv.to_tp
             ELSE PaddedTo(conv.tp) \div conv.to_tp
FitsVocab(x) == \A k \in NewRanks : Len(Chunk(x, conv.to_tp, k)) = VocabPart

CutLayer(body, k) ==
  [same |-> body.same,
   split |-> Chunk(body.split, conv.to_tp, k),
   up |-> IF conv.gated THEN Chunk(body.up.W, conv.to_tp, k) \o Chunk(body.up.V, conv.to_tp, k)
          ELSE Chunk(body.up, conv.to_tp, k)]

Empty == [word |-> << >>, layers |-> << >>, last |-> << >>, head |-> << >>]

Fill(F(_)) == built' = [k \in NewRanks |-> F(k)]

StageFull == Len(built[1].layers) = LayersPerStage

\* The names the saver accepts next, with what check_message demands.
Expected ==
  CASE got = 0 -> {<<"metadata">>}
    [] got = 1 -> {<<"embeddings">>}
    [] got > 1 /\ ~ StageFull ->
         {<<"transformer layer", stage[1] * LayersPerStage + Len(built[1].layers)>>}
    [] StageFull /\ built[1].last = << >> -> {<<"final layernorm">>}
    [] StageFull /\ built[1].last # << >> /\ conv.untied /\ built[1].head = << >> ->
         {<<"output layer">>}
    [] OTHER -> {<<"pooler">>, <<"lm head">>, <<"binary head">>, <<"done">>}

TakeMessage(m) ==
  LET name == m.name[1]
      fails == name \in {"embeddings", "output layer"} /\
                 ~ FitsVocab(IF name = "embeddings" THEN Repadded(m.body) ELSE m.body)
  IN  /\ saving' = CASE m = Exit -> "loader exited"
                     [] m # Exit /\ m.name \notin Expected -> "unexpected"
                     [] fails -> "mismatch"
                     [] name = "done" -> "writing"
                     [] name = "transformer layer" /\ Len(built[1].layers) + 1 = LayersPerStage
                          /\ ~ IsLast(stage[1]) -> "writing"
                     [] OTHER -> "receiving"
      /\ IF saving' \notin {"receiving", "writing"} THEN UNCHANGED built
         ELSE Fill(LAMBDA k :
           CASE name = "embeddings" ->
                  [built[k] EXCEPT !.word = Chunk(Repadded(m.body), conv.to_tp, k)]
             [] name = "transformer layer" ->
                  [built[k] EXCEPT !.layers = Append(@, CutLayer(m.body, k))]
             [] name \in {"final layernorm", "pooler", "lm head", "binary head"} ->
                  [built[k] EXCEPT !.last = @ \o m.body]
             [] name = "output layer" ->
                  [built[k] EXCEPT !.head = Chunk(m.body, conv.to_tp, k)]
             [] OTHER -> built[k])

\* The last stage has a copy of the word embeddings of the first, for its head.
Receive ==
  /\ saving = "receiving" /\ queue # << >>
  /\ TakeMessage(Head(queue))
  /\ queue' = Tail(queue)
  /\ got' = got + 1
  /\ UNCHANGED <<conv, loading, sent, stage, stored>>

WriteFileOf(k) ==
  LET p == stage[1]
      word == IF p # 0 /\ IsLast(p) /\ ~ conv.untied
              THEN stored[<<k, 0>>].word ELSE built[k].word
  IN  /\ saving = "writing" /\ k = stage[2] + 1
      /\ stored' = [q \in DOMAIN stored \cup {<<k, p>>} |->
                      IF q = <<k, p>> THEN [built[k] EXCEPT !.word = word] ELSE stored[q]]
      /\ IF k < conv.to_tp
         THEN stage' = <<p, k>> /\ UNCHANGED <<saving, built>>
         ELSE /\ stage' = <<p + 1, 0>>
              /\ saving' = IF IsLast(p) THEN "ended" ELSE "receiving"
              /\ Fill(LAMBDA r : Empty)
      /\ UNCHANGED <<conv, loading, sent, queue, got>>

SaverDies ==
  /\ saving \in {"receiving", "writing"}
  /\ saving' = "died"
  /\ UNCHANGED <<conv, loading, sent, queue, got, stage, built, stored>>

InitConversion ==
  /\ conv \in Conversions
  /\ loading = "sending" /\ sent = 0 /\ queue = << >>
  /\ saving = "receiving" /\ got = 0 /\ stage = <<0, 0>>
  /\ built = [k \in NewRanks |-> Empty]
  /\ stored = << >>

NextConversion ==
  \/ Put \/ Raise \/ PutExit
  \/ Receive \/ \E k \in NewRanks : WriteFileOf(k)
  \/ SaverDies

SpecConversion == InitConversion /\ [][NextConversion]_conv_vars

(***************************************************************************)
(* The new checkpoint as a training with its sizes would have it.          *)
(***************************************************************************)
NewLayers(p, k) ==
  [j \in 1 .. LayersPerStage |-> LayerOf(p * LayersPerStage + j - 1, conv.to_tp, k)]

\* The rows of tokens that exist; the others are never read.
RealRows(part, name, k) ==
  \A i \in DOMAIN part :
    LET row == (k - 1) * Len(part) + i IN row <= conv.vocab => part[i] = <<name, row>>

HasWord(p) == p = 0 \/ (IsLast(p) /\ ~ conv.untied)

\* A conversion that ends has written, for every rank, what a training of the
\* new sizes would hold; while both processes live no message is out of place,
\* the saver fails only on a head that is padded otherwise or a vocabulary it
\* cannot divide, and the loader waits for room only while the saver has
\* messages to take or died.
ConvertedWhole ==
  /\ saving = "ended" =>
       /\ DOMAIN stored = NewRanks \X (0 .. conv.to_pp - 1)
       /\ \A q \in DOMAIN stored :
            /\ stored[q].layers = NewLayers(q[2], q[1])
            /\ HasWord(q[2]) => stored[q].word # << >> /\ RealRows(stored[q].word, "word", q[1])
            /\ IsLast(q[2]) /\ conv.untied => RealRows(stored[q].head, "head", q[1])
            /\ IsLast(q[2]) <=> stored[q].last # << >>
       /\ loading = "ended" /\ queue = << >>
  /\ saving # "unexpected"
  /\ saving = "mismatch" =>
       (IF conv.known THEN conv.untied /\ PaddedTo(conv.tp) # PaddedTo(conv.to_tp)
        ELSE PaddedTo(conv.tp) % conv.to_tp # 0)
  /\ loading # "ended" /\ Len(queue) = QueueSize /\ saving \in {"ended", "loader exited"} => FALSE
================================================================================
