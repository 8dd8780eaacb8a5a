----------------------------- MODULE TensorParallel -----------------------------
(***************************************************************************)
(* Tensor parallelism: the matrices of a layer are divided among the ranks *)
(* of a tensor-parallel group, columns here and rows there, and so is the  *)
(* vocabulary of the embedding, of the head and of the loss.  With         *)
(* sequence parallelism the rows of the activations are divided too, where *)
(* they are not multiplied.  Modelled on the smallest model that has every *)
(* kind of layer: word embedding, norm, the two products of an MLP, the    *)
(* head that shares the embedding's matrix, and the loss.                  *)
(*                                                                         *)
(* A value that the ranks have is a function of the rank.  The ranks meet  *)
(* in every collective and touch nothing of each other in between, so a    *)
(* layer is one step.  Numbers are whole; Exp and the division of the      *)
(* softmax are rounded, alike with one rank and with several.              *)
(***************************************************************************)
EXTENDS Integers, Sequences, SequencesExt, FiniteSetsExt

CONSTANTS Configs,   \* [world, sequence_parallel, async, frozen]
          Weights,   \* the undivided model: [E, g, A, a, B, b]
          Tokens,    \* of every microbatch
          Targets    \* of every microbatch

VARIABLES tp,       \* the configuration of the launch
          pass,     \* << >> or <<microbatch, next layer>>
          flows,    \* per microbatch, what goes from layer to layer, by rank
          kept,     \* per microbatch, what layers kept for the backward pass
          buffer,   \* the global memory buffer "mpu", by rank
          grads,    \* the main_grad of every parameter, by rank
          losses,   \* per microbatch, by rank
          reduced   \* whether reduce_model_grads is done

tp_vars == <<tp, pass, flows, kept, buffer, grads, losses, reduced>>

(***************************************************************************)
(* Matrices: sequences of rows.                                            *)
(***************************************************************************)
\* Appending nothing makes TLC compute the entries once.
Mat(rows, cols, Entry(_, _)) ==
  [i \in 1 .. rows |-> [j \in 1 .. cols |-> Entry(i, j)] \o << >>] \o << >>
SumUpTo(n, Term(_)) == MapThenSumSet(Term, 1 .. n)
Times(x, y) ==
  Mat(Len(x), Len(y[1]), LAMBDA i, j : SumUpTo(Len(y), LAMBDA k : x[i][k] * y[k][j]))
Transposed(x) == Mat(Len(x[1]), Len(x), LAMBDA i, j : x[j][i])
Add(x, y) == Mat(Len(x), Len(x[1]), LAMBDA i, j : x[i][j] + y[i][j])
Zeros(x) == Mat(Len(x), Len(x[1]), LAMBDA i, j : 0)
AddRow(x, v) == Mat(Len(x), Len(v[1]), LAMBDA i, j : x[i][j] + v[1][j])
ScaleColumns(x, v) == Mat(Len(x), Len(v[1]), LAMBDA i, j : x[i][j] * v[1][j])
SumRows(x) == Mat(1, Len(x[1]), LAMBDA i, j : SumUpTo(Len(x), LAMBDA k : x[k][j]))
Hadamard(x, y) == Mat(Len(x), Len(x[1]), LAMBDA i, j : x[i][j] * y[i][j])
Relu(v) == IF v > 0 THEN v ELSE 0
SquaredRelu(x) == Mat(Len(x), Len(x[1]), LAMBDA i, j : Relu(x[i][j]) * Relu(x[i][j]))
SquaredReluGrad(x, d) == Mat(Len(x), Len(x[1]), LAMBDA i, j : 2 * Relu(x[i][j]) * d[i][j])

(***************************************************************************)
(* The collectives, on a function of the rank.                             *)
(***************************************************************************)
World == tp.world
TPRanks == 0 .. World - 1
PerRank(F(_)) == [r \in TPRanks |-> F(r)]

Part(x, r, n) == SubSeq(x, r * (Len(x) \div n) + 1, (r + 1) * (Len(x) \div n))

Reduce(x) == LET sum == FoldSet(LAMBDA r, s : Add(x[r], s), Zeros(x[0]), TPRanks)
             IN  PerRank(LAMBDA r : sum)
SplitAlongFirstDim(x) == PerRank(LAMBDA r : Part(x[r], r, World))
Concatenated(x) == FlattenSeq([i \in 1 .. World |-> x[i - 1]])
GatherAlongFirstDim(x) == PerRank(LAMBDA r : Concatenated(x))
ReduceScatterAlongFirstDim(x) == SplitAlongFirstDim(Reduce(x))

SP == tp.sequence_parallel

(***************************************************************************)
(* The parameters of a rank: E, A and a divided along the first dimension, *)
(* B along the second, g and b whole on every rank.                        *)
(***************************************************************************)
Shard(r) ==
  [E |-> Part(Weights.E, r, World),
   g |-> Weights.g,
   A |-> Part(Weights.A, r, World),
   a |-> Transposed(Part(Transposed(Weights.a), r, World)),
   B |-> Transposed(Part(Transposed(Weights.B), r, World)),
   b |-> Weights.b]

VocabStart(r) == r * (Len(Weights.E) \div World)
Masked(r, t) == t < VocabStart(r) \/ t >= VocabStart(r + 1)

Accumulate(more) ==
  grads' = [r \in TPRanks |-> [p \in DOMAIN grads[r] |->
              IF p \in DOMAIN more THEN Add(grads[r][p], more[p][r]) ELSE grads[r][p]]]

(***************************************************************************)
(* The layers.  Total is the input of a product: with sequence parallelism *)
(* all rows, gathered into the one buffer that every layer uses.           *)
(***************************************************************************)
Total(x) == IF SP THEN GatherAlongFirstDim(x) ELSE x
Buffered(x) == buffer' = IF SP THEN GatherAlongFirstDim(x) ELSE buffer

\* The input for the gradient of the weight: gathered anew.
InputForWeight_Buffer(x) == IF SP THEN buffer ELSE x
InputForWeight(x) == Total(x)

\* The gradient of the input of a column-parallel product.  The operator for
\* a frozen weight leaves the sum to the operator in front of it, which is
\* the identity when the sum was to be asynchronous.
GradInput(d, weight, frozen) ==
  LET mine == PerRank(LAMBDA r : Times(d[r], weight[r]))
  IN  IF SP THEN ReduceScatterAlongFirstDim(mine)
      ELSE IF tp.async /\ World > 1 /\ frozen THEN mine
      ELSE Reduce(mine)

At(pc) == pass # << >> /\ pass[2] = pc
Mb == pass[1]
Flow == flows[Mb]
W == PerRank(Shard)

Go(value, next) ==
  /\ flows' = [flows EXCEPT ![Mb] = value]
  /\ pass' = IF next = "end" THEN << >> ELSE <<Mb, next>>
  /\ UNCHANGED <<tp, reduced>>

\* What a forward pass leaves for the backward pass, which frees it.
NothingKept ==
  [norm |-> << >>, column |-> << >>, activation |-> << >>, row |-> << >>,
   head |-> << >>, loss |-> << >>]

Keep(layer, value) == kept' = [kept EXCEPT ![Mb] = [@ EXCEPT ![layer] = value]]

Embedded ==
  Reduce(PerRank(LAMBDA r :
    Mat(Len(Tokens[Mb]), Len(Weights.E[1]), LAMBDA i, j :
      LET t == Tokens[Mb][i]
      IN  IF Masked(r, t) THEN 0 ELSE W[r].E[t - VocabStart(r) + 1][j])))

EmbeddingForward ==
  /\ At("embedding")
  /\ Go(IF SP THEN SplitAlongFirstDim(Embedded) ELSE Embedded, "norm")
  /\ UNCHANGED <<kept, buffer, grads, losses>>

\* The part of a norm that is learned.
NormForward ==
  /\ At("norm")
  /\ Keep("norm", Flow)
  /\ Go(PerRank(LAMBDA r : ScaleColumns(Flow[r], W[r].g)), "column")
  /\ UNCHANGED <<buffer, grads, losses>>

ColumnForward ==
  LET total == Total(Flow)
      pre == PerRank(LAMBDA r : AddRow(Times(total[r], Transposed(W[r].A)), W[r].a))
  IN  /\ At("column")
      /\ Buffered(Flow)
      /\ kept' = [kept EXCEPT ![Mb] = [@ EXCEPT !["column"] = Flow, !["activation"] = pre]]
      /\ Go(PerRank(LAMBDA r : SquaredRelu(pre[r])), "row")
      /\ UNCHANGED <<grads, losses>>

\* The bias is added to the sum, not to the parts.
RowForward ==
  LET parts == PerRank(LAMBDA r : Times(Flow[r], Transposed(W[r].B)))
      whole == IF SP THEN ReduceScatterAlongFirstDim(parts) ELSE Reduce(parts)
  IN  /\ At("row")
      /\ Keep("row", Flow)
      /\ Go(PerRank(LAMBDA r : AddRow(whole[r], W[r].b)), "head")
      /\ UNCHANGED <<buffer, grads, losses>>

HeadForward ==
  LET total == Total(Flow)
  IN  /\ At("head")
      /\ Buffered(Flow)
      /\ Keep("head", Flow)
      /\ Go(PerRank(LAMBDA r : Times(total[r], Transposed(W[r].E))), "loss")
      /\ UNCHANGED <<grads, losses>>

(***************************************************************************)
(* The loss and its gradient.                                              *)
(***************************************************************************)
Exp(v) == IF v < -8 THEN 0 ELSE 2 ^ (8 + v)
Probability(e, sum) == (256 * e) \div sum

RowMax(x, i) == Max({x[i][j] : j \in 1 .. Len(x[i])})
LogitsMax(logits, i) == Max({RowMax(logits[r], i) : r \in TPRanks})

\* The loss is log(sum of the exponentials) minus the target's logit.
LossForward ==
  LET rows == 1 .. Len(Flow[0])
      less == PerRank(LAMBDA r : Mat(Len(Flow[r]), Len(Flow[r][1]), LAMBDA i, j :
                Flow[r][i][j] - LogitsMax(Flow, i)))
      predicted == Reduce(PerRank(LAMBDA r : [i \in rows |->
                <<IF Masked(r, Targets[Mb][i]) THEN 0
                  ELSE less[r][i][Targets[Mb][i] - VocabStart(r) + 1]>>]))
      sums == Reduce(PerRank(LAMBDA r : [i \in rows |->
                <<SumUpTo(Len(less[r][i]), LAMBDA j : Exp(less[r][i][j]))>>]))
      softmax == PerRank(LAMBDA r : Mat(Len(less[r]), Len(less[r][1]), LAMBDA i, j :
                Probability(Exp(less[r][i][j]), sums[r][i][1])))
  IN  /\ At("loss")
      /\ losses' = [losses EXCEPT ![Mb] =
                      PerRank(LAMBDA r : [i \in rows |-> <<sums[r][i][1], predicted[r][i][1]>>])]
      /\ Keep("loss", softmax)
      /\ Go(<< >>, "end")
      /\ UNCHANGED <<buffer, grads>>

LossBackward ==
  /\ At("loss backward")
  /\ Go(PerRank(LAMBDA r : Mat(Len(kept[Mb].loss[r]), Len(kept[Mb].loss[r][1]),
          LAMBDA i, j : kept[Mb].loss[r][i][j] -
            IF ~ Masked(r, Targets[Mb][i]) /\ Targets[Mb][i] - VocabStart(r) + 1 = j
            THEN 256 ELSE 0)), "head backward")
  /\ UNCHANGED <<kept, buffer, grads, losses>>

HeadBackward ==
  LET total == InputForWeight(kept[Mb].head)
  IN  /\ At("head backward")
      /\ Buffered(kept[Mb].head)
      /\ Accumulate([E |-> PerRank(LAMBDA r : Times(Transposed(Flow[r]), total[r]))])
      /\ Go(GradInput(Flow, PerRank(LAMBDA r : W[r].E), FALSE), "row backward")
      /\ UNCHANGED <<kept, losses>>

RowBackward ==
  LET d == Total(Flow)
  IN  /\ At("row backward")
      /\ Accumulate([b |-> PerRank(LAMBDA r : SumRows(Flow[r])),
                     B |-> PerRank(LAMBDA r : Times(Transposed(d[r]), kept[Mb].row[r]))])
      /\ Go(PerRank(LAMBDA r : Times(d[r], W[r].B)), "column backward")
      /\ UNCHANGED <<kept, buffer, losses>>

ColumnBackward ==
  LET d == PerRank(LAMBDA r : SquaredReluGrad(kept[Mb].activation[r], Flow[r]))
      total == InputForWeight(kept[Mb].column)
      a == PerRank(LAMBDA r : SumRows(d[r]))
  IN  /\ At("column backward")
      /\ IF tp.frozen
         THEN Accumulate([a |-> a]) /\ UNCHANGED buffer
         ELSE /\ Accumulate([a |-> a,
                             A |-> PerRank(LAMBDA r : Times(Transposed(d[r]), total[r]))])
              /\ Buffered(kept[Mb].column)
      /\ Go(GradInput(d, PerRank(LAMBDA r : W[r].A), tp.frozen), "norm backward")
      /\ UNCHANGED <<kept, losses>>

NormBackward ==
  /\ At("norm backward")
  /\ Accumulate([g |-> PerRank(LAMBDA r : SumRows(Hadamard(Flow[r], kept[Mb].norm[r])))])
  /\ Go(PerRank(LAMBDA r : ScaleColumns(Flow[r], W[r].g)), "embedding backward")
  /\ UNCHANGED <<kept, buffer, losses>>

EmbeddingBackward ==
  LET d == Total(Flow)
  IN  /\ At("embedding backward")
      /\ Accumulate([E |-> PerRank(LAMBDA r : Mat(Len(W[r].E), Len(W[r].E[1]), LAMBDA v, j :
            SumUpTo(Len(d[r]), LAMBDA i :
              IF Tokens[Mb][i] = VocabStart(r) + v - 1 THEN d[r][i][j] ELSE 0)))])
      /\ kept' = [kept EXCEPT ![Mb] = NothingKept]
      /\ Go(<< >>, "end")
      /\ UNCHANGED <<buffer, losses>>

(***************************************************************************)
(* The passes of a schedule: forward in order, backward in order, several  *)
(* microbatches under way.                                                 *)
(***************************************************************************)
Microbatches == 1 .. Len(Tokens)

StartForward(m) ==
  /\ pass = << >> /\ losses[m] = << >> /\ \A n \in 1 .. m - 1 : losses[n] # << >>
  /\ pass' = <<m, "embedding">>
  /\ UNCHANGED <<tp, flows, kept, buffer, grads, losses, reduced>>

StartBackward(m) ==
  /\ pass = << >> /\ ~ reduced
  /\ kept[m] # NothingKept /\ \A n \in 1 .. m - 1 : kept[n] = NothingKept
  /\ pass' = <<m, "loss backward">>
  /\ UNCHANGED <<tp, flows, kept, buffer, grads, losses, reduced>>

\* Parameters that see divided rows have the attribute sequence_parallel.
AllreduceLayernormGrads ==
  LET sum(p) == Reduce([r \in TPRanks |-> grads[r][p]])
  IN  /\ pass = << >> /\ ~ reduced
      /\ \A m \in Microbatches : losses[m] # << >> /\ kept[m] = NothingKept
      /\ reduced' = TRUE
      /\ grads' = IF SP
                  THEN [r \in TPRanks |-> [grads[r] EXCEPT !.g = sum("g")[r], !.b = sum("b")[r]]]
                  ELSE grads
      /\ UNCHANGED <<tp, pass, flows, kept, buffer, losses>>

InitTensorParallel ==
  /\ tp \in Configs
  /\ pass = << >>
  /\ flows = [m \in Microbatches |-> << >>]
  /\ kept = [m \in Microbatches |-> NothingKept]
  /\ buffer = << >>
  /\ grads = [r \in TPRanks |-> [p \in DOMAIN Weights |-> Zeros(Shard(r)[p])]]
  /\ losses = [m \in Microbatches |-> << >>]
  /\ reduced = FALSE

NextTensorParallel ==
  \/ \E m \in Microbatches : StartForward(m) \/ StartBackward(m)
  \/ EmbeddingForward \/ NormForward \/ ColumnForward \/ RowForward \/ HeadForward
  \/ LossForward \/ LossBackward
  \/ HeadBackward \/ RowBackward \/ ColumnBackward \/ NormBackward \/ EmbeddingBackward
  \/ AllreduceLayernormGrads

(***************************************************************************)
(* The same model undivided, on one microbatch.                            *)
(***************************************************************************)
WholeMicrobatch(m) ==
  LET tokens == Tokens[m]
      X  == [i \in 1 .. Len(tokens) |-> Weights.E[tokens[i] + 1]]
      N  == ScaleColumns(X, Weights.g)
      Y  == AddRow(Times(N, Transposed(Weights.A)), Weights.a)
      H  == SquaredRelu(Y)
      Z  == AddRow(Times(H, Transposed(Weights.B)), Weights.b)
      L  == Times(Z, Transposed(Weights.E))
      less == Mat(Len(L), Len(L[1]), LAMBDA i, j : L[i][j] - RowMax(L, i))
      sum(i) == SumUpTo(Len(L[i]), LAMBDA j : Exp(less[i][j]))
      dL == Mat(Len(L), Len(L[1]), LAMBDA i, j :
              Probability(Exp(less[i][j]), sum(i)) - IF Targets[m][i] + 1 = j THEN 256 ELSE 0)
      dZ == Times(dL, Weights.E)
      dY == SquaredReluGrad(Y, Times(dZ, Weights.B))
      dN == Times(dY, Weights.A)
      dX == ScaleColumns(dN, Weights.g)
  IN  [loss |-> [i \in 1 .. Len(L) |-> <<sum(i), less[i][Targets[m][i] + 1]>>],
       E |-> Add(Times(Transposed(dL), Z),
                 Mat(Len(Weights.E), Len(Weights.E[1]), LAMBDA v, j :
                   SumUpTo(Len(tokens), LAMBDA i : IF tokens[i] + 1 = v THEN dX[i][j] ELSE 0))),
       g |-> SumRows(Hadamard(dN, X)),
       A |-> IF tp.frozen THEN Zeros(Weights.A) ELSE Times(Transposed(dY), N),
       a |-> SumRows(dY),
       B |-> Times(Transposed(dZ), H),
       b |-> SumRows(dZ)]

\* A gradient put together again: what is whole on the ranks must be equal.
Joined(p) ==
  LET parts == PerRank(LAMBDA r : grads[r][p])
  IN  CASE p \in {"E", "A"} -> Concatenated(parts)
        [] p \in {"a", "B"} -> Transposed(Concatenated(PerRank(LAMBDA r : Transposed(parts[r]))))
        [] OTHER -> IF \A r \in TPRanks : parts[r] = parts[0] THEN parts[0] ELSE << >>

\* When a step is reduced, every rank has the losses, and the ranks together
\* have the gradients, that the undivided model gives for its microbatches.
SplitAsWhole ==
  reduced =>
    /\ \A m \in Microbatches, r \in TPRanks : losses[m][r] = WholeMicrobatch(m).loss
    /\ \A p \in DOMAIN Weights :
         Joined(p) = FoldSet(LAMBDA m, s : Add(WholeMicrobatch(m)[p], s),
                             Zeros(Weights[p]), Microbatches)

SpecTensorParallel == InitTensorParallel /\ [][NextTensorParallel]_tp_vars
=================================================================================
