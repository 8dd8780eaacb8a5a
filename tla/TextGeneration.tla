--------------------------- MODULE TextGeneration ---------------------------
(***************************************************************************)
(* Text generation with a pipeline of P devices: the server's threads and  *)
(* the loops of the other ranks (text_generation_server.py,                *)
(* tools/run_text_generation_server.py), the generation of tokens, the     *)
(* scoring of prompts and the beam search (text_generation/), the key and  *)
(* value memory of the layers (InferenceParams, transformer.py).           *)
(*                                                                         *)
(* Every rank runs the same functions and makes its own way through them;  *)
(* what holds them together are the broadcasts, of three kinds of group,   *)
(* and the tensors passed from stage to stage.  dev[r] is what rank r      *)
(* holds, op[r] the communication it waits in.  Positions and rows count   *)
(* from 1, context is the source's context_length.                         *)
(***************************************************************************)
EXTENDS Integers, Sequences, FiniteSets, SequencesExt

CONSTANTS
  P,            \* pipeline_model_parallel_size
  Threads,      \* the server's threads, a request each
  Requests,     \* what clients may ask
  LogProb,      \* LogProb[t][v]: the model's log probability of v after t
  MaxPosition,  \* max_position_embeddings
  MaxTokens,    \* max_tokens_to_oom
  Threshold     \* inference_batch_times_seqlen_threshold

\* The tokens the stopping rules look at; all others are words.
Eod == 0
Eol == 1         \* 198
DoubleEol == 2   \* 628
Vocabulary == DOMAIN LogProb

\* prompts: tokenized, with the leading token of add_BOS; mode: which flag of
\* the stopping rule is set; beam: beam_width, of one prompt.
Request ==
  [kind : {"generate", "beam"}, prompts : Seq(Seq(Vocabulary)), toGenerate : Nat,
   logprobs : BOOLEAN, mode : {"eod", "eol", "double"}, beam : Nat, penalty : {0, 1}]

\* The checks of put().
Accepted(q) ==
  /\ q.prompts # << >> /\ \A i \in DOMAIN q.prompts : q.prompts[i] # << >>
  /\ q.kind = "generate" /\ q.toGenerate = 0 => q.logprobs
  /\ q.kind = "beam" => q.beam >= 1 /\ Len(q.prompts) = 1

ASSUME GenerationAssumption ==
  /\ P \in Nat \ {0} /\ {MaxPosition, MaxTokens, Threshold} \subseteq Nat \ {0}
  /\ \A q \in Requests : q \in Request /\ Accepted(q)

VARIABLES asked, answer, lock, dev, op
vars == <<asked, answer, lock, dev, op>>

Ranks == 0 .. P - 1
IsFirst(r) == r = 0
IsLast(r)  == r = P - 1

----------------------------------------------------------------------------
(***************************************************************************)
(* Communication.  A rank waits until its operation is done.               *)
(***************************************************************************)
NoOp == [group |-> "none", site |-> "", value |-> << >>]

\* The process groups; a broadcast over the embedding group or the pipeline
\* comes from the last stage, over all ranks from rank 0.
Members(group) == IF group = "embedding" THEN {0, P - 1} ELSE Ranks
Source(group)  == IF group = "world" THEN 0 ELSE P - 1

\* Rank r calls a broadcast; ranks outside of the group go on.
Broadcast(r, group, site, value) ==
  op' = [op EXCEPT ![r] = IF r \in Members(group)
                          THEN [group |-> group, site |-> site, value |-> value] ELSE NoOp]

Free(r) == op[r].group = "none"

\* What the last operation has brought; dev[r].got is empty before.
Got(d) == d.got[1]

\* A broadcast is over when all members have called one on the group.
Collective ==
  \E group \in {"world", "pipeline", "embedding"} :
    /\ \A r \in Members(group) : op[r].group = group
    /\ op' = [r \in Ranks |-> IF r \in Members(group) THEN NoOp ELSE op[r]]
    /\ dev' = [r \in Ranks |-> IF r \in Members(group)
                               THEN [dev[r] EXCEPT !.got = <<op[Source(group)].value>>] ELSE dev[r]]
    /\ UNCHANGED <<asked, answer, lock>>

\* A tensor goes to the next stage, when sizes agree.
Transfer ==
  \E r \in Ranks \ {P - 1} :
    /\ op[r].group = "next" /\ op[r + 1].group = "previous"
    /\ Len(op[r].value) = op[r + 1].value
    /\ op' = [op EXCEPT ![r] = NoOp, ![r + 1] = NoOp]
    /\ dev' = [dev EXCEPT ![r + 1].got = <<op[r].value>>]
    /\ UNCHANGED <<asked, answer, lock>>

----------------------------------------------------------------------------
(***************************************************************************)
(* Scores of beams: a sum of log probabilities over a power of the length, *)
(* a fraction.  BeamHypotheses keeps a list with the score of its worst.   *)
(***************************************************************************)
Below(x, y) == x.num * y.den < y.num * x.den
Lower(x, y) == IF Below(x, y) THEN x ELSE y

NoHyps == [beams |-> << >>, worst |-> [num |-> 1000, den |-> 1]]   \* worst_score 1e9

----------------------------------------------------------------------------
(***************************************************************************)
(* A request: rank 0 announces what is to be done in five broadcasts.      *)
(***************************************************************************)
Reset(r) ==
  [phase |-> IF IsFirst(r) THEN "idle" ELSE "announce",
   k |-> 1, got |-> << >>, heard |-> << >>,
   kind |-> "", values |-> << >>, tokens |-> << >>, lengths |-> << >>,
   context |-> 0, previous |-> 0, micro |-> 1,   \* context_length, prev_context_length
   seqOffset |-> 0, batchOffset |-> 0,           \* of InferenceParams
   cache |-> << >>,                              \* key_value_memory_dict
   rotated |-> << >>,                            \* positions of q_pos_emb
   logits |-> << >>, logprobs |-> << >>, ends |-> << >>, over |-> << >>,
   scores |-> << >>, hyps |-> NoHyps, best |-> << >>,   \* beam_hyp, best_batches
   offered |-> {},                               \* all that was given to beam_hyp
   results |-> << >>]

\* _tokenize_prompts_and_batch: prompts, padded to the longest and the room for
\* the tokens to generate.
Padded(q) ==
  LET longest == Max({Len(q.prompts[i]) : i \in DOMAIN q.prompts})
  IN  [i \in DOMAIN q.prompts |->
         q.prompts[i] \o [j \in 1 .. longest + q.toGenerate - Len(q.prompts[i]) |-> Eod]]

Announcements == <<"choice", "values", "sizes", "tokens", "lengths">>

Announced(q, site) ==
  CASE site = "choice"  -> q.kind
    [] site = "values"  -> [toGenerate |-> q.toGenerate, logprobs |-> q.logprobs,
                            mode |-> q.mode, beam |-> q.beam, penalty |-> q.penalty]
    [] site = "sizes"   -> <<Len(q.prompts), Len(Padded(q)[1])>>
    [] site = "tokens"  -> Padded(q)
    [] site = "lengths" -> [i \in DOMAIN q.prompts |-> Len(q.prompts[i])]

\* A thread of the server gets the lock; it is the thread rank 0 works in.
TakeLock(t) ==
  /\ lock = "none" /\ answer[t] = "none"
  /\ lock' = t
  /\ dev' = [dev EXCEPT ![0].phase = "announce"]
  /\ UNCHANGED <<asked, answer, op>>

Announce(r) ==
  LET d == dev[r]
      site == Announcements[d.k]
  IN  /\ Free(r) /\ d.phase = "announce" /\ d.k <= Len(Announcements)
      /\ dev' = [dev EXCEPT ![r].k = @ + 1,
                            ![r].got = << >>,
                            ![r].heard = IF d.k = 1 THEN @ ELSE Append(@, Got(d))]
      /\ Broadcast(r, "world", site,
                   IF IsFirst(r) THEN Announced(asked[lock], site) ELSE << >>)
      /\ UNCHANGED <<asked, answer, lock>>

Smaller(x, y) == IF x < y THEN x ELSE y

\* The lengths that are refused: "context length + tokens_to_generate too
\* large", "longer than allowed", "Too many tokens".
Refused(kind, rows, width, lengths) ==
  IF kind = "beam" THEN lengths[1] >= Smaller(width, MaxPosition)
  ELSE width > MaxPosition \/ width * rows > MaxTokens

\* The end of the contexts: tokens are generated up to this length.
Width(d) ==
  IF d.kind = "beam" THEN Smaller(Len(d.tokens[1]), MaxPosition) ELSE Len(d.tokens[1])

Scoring(d) == d.kind = "generate" /\ d.values.toGenerate = 0

\* The first pass takes the part all prompts have in common; scoring has one
\* pass, of whole prompts.
Started(d, kind, values, tokens, lengths) ==
  LET rows == IF kind = "beam" THEN [b \in 1 .. values.beam |-> tokens[1]] ELSE tokens
      shortest == Min({lengths[i] : i \in DOMAIN lengths})
  IN  [d EXCEPT
         !.phase = "receive", !.k = 1,
         !.kind = kind, !.values = values, !.tokens = rows, !.lengths = lengths,
         !.context = IF kind = "generate" /\ values.toGenerate = 0
                     THEN Len(tokens[1]) ELSE shortest,
         !.logprobs = [b \in DOMAIN rows |-> << >>],
         !.ends   = [b \in DOMAIN rows |-> Len(rows[b])],  \* generated_sequence_lengths
         !.over   = [b \in DOMAIN rows |-> FALSE],         \* is_generation_done
         !.scores = [b \in DOMAIN rows |-> 0]]

\* All ranks have the same sizes and raise the same ValueError; the loops of
\* the other ranks ignore it, the server answers with it.
Begin(r) ==
  LET d == dev[r]
      h == Append(d.heard, Got(d))
  IN  /\ Free(r) /\ d.phase = "announce" /\ d.k > Len(Announcements)
      /\ dev' = [dev EXCEPT ![r] =
           IF Refused(h[1], h[3][1], h[3][2], h[5])
           THEN IF IsFirst(r) THEN [Reset(r) EXCEPT !.phase = "refuse"] ELSE Reset(r)
           ELSE Started(Reset(r), h[1], h[2], h[4], h[5])]
      /\ UNCHANGED <<asked, answer, lock, op>>

----------------------------------------------------------------------------
(***************************************************************************)
(* ForwardStep: the tokens from `previous` to `context` go through the     *)
(* stages, in micro batches of rows when there are enough of them.  What a *)
(* stage computes for a position stands for the tokens it depends on:      *)
(* attention combines what the key and value memory holds of the row.      *)
(***************************************************************************)
Wrong   == << >>
Garbage == <<"garbage">>   \* torch.empty

NewPositions(d) == d.context - d.previous

MicroBatchSize(d) ==
  IF P > 1 /\ Len(d.tokens) * NewPositions(d) >= Threshold
  THEN Max({1, Threshold \div NewPositions(d)}) ELSE Len(d.tokens)

\* Rows of the micro batch at hand; the last one may be smaller.
FirstRow(d) == (d.micro - 1) * MicroBatchSize(d) + 1
LastRow(d)  == Smaller(d.micro * MicroBatchSize(d), Len(d.tokens))
MicroRows(d) == LastRow(d) - FirstRow(d) + 1

\* The size of recv_buffer: one for all full micro batches, a new one for a
\* smaller last one.
RecvBuffer(d) == MicroRows(d)

Receive(r) ==
  LET d == dev[r]
  IN  /\ Free(r) /\ d.phase = "receive"
      /\ dev' = [dev EXCEPT ![r].phase = "compute"]
      /\ op' = [op EXCEPT ![r] = IF IsFirst(r) THEN NoOp
                  ELSE [group |-> "previous", site |-> "forward", value |-> RecvBuffer(d)]]
      /\ UNCHANGED <<asked, answer, lock>>

\* The memory of the layers, allocated by the first pass.
Memory(d) ==
  IF d.cache # << >> THEN d.cache
  ELSE [b \in DOMAIN d.tokens |-> [p \in 1 .. Width(d) |-> Garbage]]

\* The input of a stage: rows of the micro batch, positions of this pass.
Input(r, d) ==
  IF IsFirst(r)
  THEN [i \in 1 .. MicroRows(d) |->
          SubSeq(d.tokens[FirstRow(d) + i - 1], d.previous + 1, d.context)]
  ELSE Got(d)

\* Keys and values are copied to [batch_start, batch_end) x [sequence_start,
\* sequence_end) of the memory.
Stored(r, d) ==
  [b \in DOMAIN d.tokens |-> [p \in 1 .. Width(d) |->
     LET i == b - d.batchOffset
         j == p - d.seqOffset
     IN  IF i \in 1 .. MicroRows(d) /\ j \in 1 .. NewPositions(d)
         THEN Input(r, d)[i][j] ELSE Memory(d)[b][p]]]

\* What the queries at position p find: the row as far as p.
Attention(r, memory, b, p) ==
  LET h == memory[b][p]
  IN  IF IsFirst(r) THEN SubSeq(memory[b], 1, p)
      ELSE IF \A q \in 1 .. p : memory[b][q] = SubSeq(h, 1, q) THEN h ELSE Wrong

\* q_pos_emb: all positions of the pass that allocates the memory, and the last
\* one alone otherwise.
QueryPositions(d) ==
  [j \in 1 .. NewPositions(d) |->
     IF d.cache = << >> THEN j ELSE d.seqOffset + NewPositions(d)]

BatchOffset(d) ==
  IF LastRow(d) < Len(d.tokens) THEN d.batchOffset + MicroRows(d) ELSE 0

Compute(r) ==
  LET d == dev[r]
      memory == Stored(r, d)
      output == [i \in 1 .. MicroRows(d) |-> [j \in 1 .. NewPositions(d) |->
                   Attention(r, memory, d.batchOffset + i, d.seqOffset + j)]]
      more == LastRow(d) < Len(d.tokens)
  IN  /\ Free(r) /\ d.phase = "compute"
      /\ dev' = [dev EXCEPT ![r] = [d EXCEPT
           !.phase = IF more THEN "receive" ELSE "sample",
           !.micro = IF more THEN @ + 1 ELSE 1,
           !.cache = memory, !.rotated = QueryPositions(d), !.got = << >>,
           !.seqOffset = IF more THEN @ ELSE @ + NewPositions(d),
           !.batchOffset = BatchOffset(d),
           !.logits = IF ~IsLast(r) THEN @ ELSE IF d.micro = 1 THEN output ELSE @ \o output]]
      /\ op' = [op EXCEPT ![r] = IF IsLast(r) THEN NoOp
                  ELSE [group |-> "next", site |-> "forward", value |-> output]]
      /\ UNCHANGED <<asked, answer, lock>>

----------------------------------------------------------------------------
(***************************************************************************)
(* Generation: the last stage samples a token for every row, and takes it  *)
(* for the rows whose prompt has ended.                                    *)
(***************************************************************************)
\* The tokens a stopping rule tells apart, a word among them.
Sampled(mode) == IF mode = "eod" THEN {Eod, 3} ELSE {Eol, DoubleEol, 3}

HasStarted(d, b) == d.lengths[b] <= d.context

Extended(d, sample) ==
  [b \in DOMAIN d.tokens |-> IF HasStarted(d, b)
                             THEN [d.tokens[b] EXCEPT ![d.context + 1] = sample[b]]
                             ELSE d.tokens[b]]

\* The log probability of a token is that of the prefix it follows: here, the
\* prefix and the token.
Gathered(d, tokens) ==
  [b \in DOMAIN tokens |-> d.logprobs[b] \o
     [j \in 1 .. Smaller(NewPositions(d), Len(tokens[b]) - 1) |->
        Append(d.logits[b][j], tokens[b][d.previous + j + 1])]]

\* done_token, for a token that comes after `before`.
Stops(mode, before, token) ==
  CASE mode = "double" -> token = DoubleEol \/ (token = Eol /\ before = Eol)
    [] mode = "eol"    -> token \in {Eol, DoubleEol}
    [] mode = "eod"    -> token = Eod

JustFinished_Again(d, b, sample) ==    \* mutant: also for rows that were finished before
  HasStarted(d, b) /\ Stops(d.values.mode, d.tokens[b][d.context], sample[b])

JustFinished(d, b, sample) ==
  /\ HasStarted(d, b) /\ Stops(d.values.mode, d.tokens[b][d.context], sample[b])
  /\ ~d.over[b]

Sample(r) ==
  LET d == dev[r]
  IN  /\ Free(r) /\ d.phase = "sample" /\ d.kind = "generate" /\ ~Scoring(d)
      /\ IF IsLast(r)
         THEN \E sample \in [DOMAIN d.tokens -> Sampled(d.values.mode)] :
                LET tokens == Extended(d, sample)
                    finished(b) == JustFinished(d, b, sample)
                IN  /\ dev' = [dev EXCEPT ![r] = [d EXCEPT
                         !.phase = "done", !.tokens = tokens, !.logits = << >>,
                         !.logprobs = IF d.values.logprobs THEN Gathered(d, tokens) ELSE @,
                         !.ends = [b \in DOMAIN @ |-> IF finished(b) THEN d.context + 1 ELSE @[b]],
                         !.over = [b \in DOMAIN @ |-> finished(b) \/ @[b]]]]
                    /\ Broadcast(r, "embedding", "column",
                                 [b \in DOMAIN tokens |-> tokens[b][d.context + 1]])
         ELSE /\ dev' = [dev EXCEPT ![r].phase = "done"]
              /\ Broadcast(r, "embedding", "column", << >>)
      /\ UNCHANGED <<asked, answer, lock>>

\* The first stage has the new column; all stages learn whether to stop.
CheckDone(r) ==
  LET d == dev[r]
      column(b) == [d.tokens[b] EXCEPT ![d.context + 1] = Got(d)[b]]
  IN  /\ Free(r) /\ d.phase = "done"
      /\ dev' = [dev EXCEPT ![r] = [d EXCEPT !.phase = "next", !.got = << >>,
           !.tokens = IF IsFirst(r) /\ ~IsLast(r) THEN [b \in DOMAIN @ |-> column(b)] ELSE @]]
      /\ Broadcast(r, "pipeline", "done", \A b \in DOMAIN d.over : d.over[b])
      /\ UNCHANGED <<asked, answer, lock>>

\* The next round of the loop, or what comes after it.
GoOn(d) == [d EXCEPT !.phase = "receive", !.got = << >>,
                     !.previous = d.context, !.context = @ + 1]

Leave(d) == [d EXCEPT !.phase = "return", !.k = 1, !.got = << >>, !.logits = << >>]

Stopped_Any(r, d) ==           \* mutant: the last stage stops for a finished row
  IF IsLast(r) THEN \E b \in DOMAIN d.over : d.over[b] ELSE Got(d)

Stopped(r, d) == Got(d)

NextToken(r) ==
  LET d == dev[r]
  IN  /\ Free(r) /\ d.phase = "next"
      /\ dev' = [dev EXCEPT ![r] =
                   IF Stopped(r, d) \/ d.context + 1 >= Width(d) THEN Leave(d) ELSE GoOn(d)]
      /\ UNCHANGED <<asked, answer, lock, op>>

\* score_and_return_on_first_stage: the log probabilities of the prompts.
Score(r) ==
  LET d == dev[r]
  IN  /\ Free(r) /\ d.phase = "sample" /\ Scoring(d)
      /\ dev' = [dev EXCEPT ![r] = Leave([d EXCEPT
                   !.logprobs = IF IsLast(r) THEN Gathered(d, d.tokens) ELSE @])]
      /\ UNCHANGED <<asked, answer, lock, op>>

----------------------------------------------------------------------------
(***************************************************************************)
(* Beam search.                                                            *)
(***************************************************************************)
Fraction(sum, length, penalty) ==
  [num |-> sum, den |-> IF penalty = 0 THEN 1 ELSE length]

\* BeamHypotheses.add: the worst leaves a list that has grown too long.
\* Indices of a list in the order of its scores; of equal ones the first is first.
Sorted(beams, before(_, _)) ==
  SortSeq([i \in DOMAIN beams |-> i],
          LAMBDA i, j : \/ before(beams[i].score, beams[j].score)
                        \/ ~before(beams[j].score, beams[i].score) /\ i < j)

AddHyp_SecondWorst(h, size, hyp) ==   \* mutant: the wrong one leaves
  LET beams == Append(h.beams, hyp)
      order == Sorted(beams, Below)
  IN  CASE Len(h.beams) < size -> [beams |-> beams, worst |-> Lower(hyp.score, h.worst)]
        [] Len(h.beams) >= size /\ Below(h.worst, hyp.score) ->
             [beams |-> RemoveAt(beams, order[2]), worst |-> beams[order[1]].score]
        [] OTHER -> h

AddHyp(h, size, hyp) ==
  LET beams == Append(h.beams, hyp)
      order == Sorted(beams, Below)
  IN  CASE Len(h.beams) < size ->
             [beams |-> beams, worst |-> Lower(hyp.score, h.worst)]
        [] Len(h.beams) >= size /\ Below(h.worst, hyp.score) ->
             [beams |-> RemoveAt(beams, order[1]), worst |-> beams[order[2]].score]
        [] OTHER -> h

\* is_done: the list is full, and no candidate is better than its worst now.
IsDone(h, size, best) == Len(h.beams) >= size /\ ~Below(h.worst, best)

\* The hypotheses of a sequence, added in order.
AddAll(d, hyps) ==
  [d EXCEPT !.hyps = FoldLeft(LAMBDA h, x : AddHyp(h, d.values.beam, x), @, hyps),
            !.offered = @ \cup Range(hyps)]

\* The candidates: a beam and a token, best first; in the first round all beams
\* are the same and one is looked at.  torch.sort leaves the order of equal
\* scores open, here it is that of the index.
CandidateScore(d, c) == d.scores[c[1]] + LogProb[Last(Last(d.logits[c[1]]))][c[2]]

Candidates(d) ==
  LET beams == IF d.context = d.lengths[1] THEN 1 ELSE Len(d.tokens)
      size  == Cardinality(Vocabulary)
      flat  == [n \in 1 .. beams * size |-> <<(n - 1) \div size + 1, (n - 1) % size>>]
      before(x, y) ==
        \/ CandidateScore(d, x) > CandidateScore(d, y)
        \/ /\ CandidateScore(d, x) = CandidateScore(d, y)
           /\ x[1] < y[1] \/ (x[1] = y[1] /\ x[2] < y[2])
      sorted == SortSeq(flat, before)
  IN  SubSeq(sorted, 1, Smaller(2 * d.values.beam, Len(sorted)))

IsStop(c) == c[2] = Eod

\* Beams that end are hypotheses if they are among the best `beam`; the others
\* go on, until there are `beam` of them.
BeamStep(d) ==
  LET candidates == Candidates(d)
      length  == d.context + 1 - d.lengths[1]
      open(n) == SelectSeq(SubSeq(candidates, 1, n), LAMBDA c : ~IsStop(c))
      reached == {n \in DOMAIN candidates : Len(open(n)) = d.values.beam}
      last    == IF reached = {} THEN Len(candidates) ELSE Min(reached)
      ended   == SelectSeq(SubSeq(candidates, 1, Smaller(last, d.values.beam)), IsStop)
      next    == open(last)
      added   == AddAll(d, [i \in DOMAIN ended |->
                   [score |-> Fraction(CandidateScore(d, ended[i]), length, d.values.penalty),
                    tokens |-> d.tokens[ended[i][1]]]])
      best    == Fraction(CandidateScore(d, candidates[1]), length, d.values.penalty)
  IN  [added EXCEPT
         !.over   = [b \in DOMAIN @ |-> IsDone(added.hyps, d.values.beam, best)],
         !.best   = [i \in DOMAIN next |-> next[i][1]],
         !.tokens = [i \in DOMAIN next |->
                       [d.tokens[next[i][1]] EXCEPT ![d.context + 1] = next[i][2]]],
         !.scores = [i \in DOMAIN next |-> CandidateScore(d, next[i])],
         !.logits = << >>]

Beam(r) ==
  LET d == IF IsLast(r) THEN BeamStep(dev[r]) ELSE dev[r]
  IN  /\ Free(r) /\ dev[r].phase = "sample" /\ dev[r].kind = "beam"
      /\ dev' = [dev EXCEPT ![r] = [d EXCEPT !.phase = "decided"]]
      /\ Broadcast(r, "pipeline", "done", d.over[1])
      /\ UNCHANGED <<asked, answer, lock>>

\* After the loop the open beams are hypotheses too, if it was not cut short.
AddOpen(d, cut) ==
  IF cut THEN d
  ELSE AddAll(d, [b \in DOMAIN d.tokens |->
         [score |-> Fraction(d.scores[b], d.context + 1 - d.lengths[1], d.values.penalty),
          tokens |-> d.tokens[b]]])

LeaveBeam(r, d, cut) == Leave(IF IsLast(r) THEN AddOpen(d, cut) ELSE d)

BeamDecided(r) ==
  LET d == dev[r]
  IN  /\ Free(r) /\ d.phase = "decided"
      /\ IF Got(d) THEN /\ dev' = [dev EXCEPT ![r] = LeaveBeam(r, d, TRUE)]
                        /\ UNCHANGED op
                   ELSE /\ dev' = [dev EXCEPT ![r].phase = "copied", ![r].got = << >>]
                        /\ Broadcast(r, "embedding", "beams", d.tokens)
      /\ UNCHANGED <<asked, answer, lock>>

\* The first stage has the tokens of the beams; all stages learn which rows of
\* the memory they continue.
BeamCopied(r) ==
  LET d == dev[r]
  IN  /\ Free(r) /\ d.phase = "copied"
      /\ dev' = [dev EXCEPT ![r] = [d EXCEPT !.phase = "swap", !.got = << >>,
                   !.tokens = IF IsFirst(r) /\ ~IsLast(r) THEN Got(d) ELSE @]]
      /\ Broadcast(r, "pipeline", "best_batches", d.best)
      /\ UNCHANGED <<asked, answer, lock>>

SwapKeyValue_Never(d) == d.cache   \* mutant: rows stay where they are

SwapKeyValue(d) == [b \in DOMAIN d.cache |-> d.cache[Got(d)[b]]]

BeamSwap(r) ==
  LET d == [dev[r] EXCEPT !.cache = SwapKeyValue(dev[r])]
  IN  /\ Free(r) /\ dev[r].phase = "swap"
      /\ dev' = [dev EXCEPT ![r] =
                   IF d.context + 1 >= Width(d) THEN LeaveBeam(r, d, FALSE) ELSE GoOn(d)]
      /\ UNCHANGED <<asked, answer, lock, op>>

----------------------------------------------------------------------------
(***************************************************************************)
(* The results go to the first stage.                                      *)
(***************************************************************************)
\* The hypotheses, best first; equal ones in the order they were added.
Ranked(d) ==
  LET order == Sorted(d.hyps.beams, LAMBDA x, y : Below(y, x))
  IN  [i \in DOMAIN order |-> d.hyps.beams[order[i]]]

ReturnCalls(d) ==
  IF d.kind = "beam" THEN << <<"pipeline", "scores_size">>, <<"pipeline", "tokens_size">>,
                             <<"embedding", "scores">>, <<"embedding", "tokens">> >>
  ELSE (IF Scoring(d) THEN << >> ELSE << <<"embedding", "lengths">> >>)
         \o (IF d.values.logprobs THEN << <<"embedding", "logprobs">> >> ELSE << >>)

Returned(d, site) ==
  CASE site = "lengths"     -> d.ends
    [] site = "logprobs"    -> d.logprobs
    [] site = "scores_size" -> Len(d.hyps.beams)
    [] site = "tokens_size" -> <<Len(d.hyps.beams), Len(d.tokens[1])>>
    [] site = "scores"      -> [i \in DOMAIN d.hyps.beams |-> Ranked(d)[i].score]
    [] site = "tokens"      -> [i \in DOMAIN d.hyps.beams |-> Ranked(d)[i].tokens]

Return(r) ==
  LET d == dev[r]
      call == ReturnCalls(d)[d.k]
  IN  /\ Free(r) /\ d.phase = "return" /\ d.k <= Len(ReturnCalls(d))
      /\ dev' = [dev EXCEPT ![r] = [d EXCEPT !.k = @ + 1, !.got = << >>,
           !.results = IF IsFirst(r) /\ d.k > 1 THEN Append(@, Got(d)) ELSE @]]
      /\ Broadcast(r, call[1], call[2], IF IsLast(r) THEN Returned(d, call[2]) ELSE << >>)
      /\ UNCHANGED <<asked, answer, lock>>

\* The other ranks are back in their loop, rank 0 has its results; the tensors
\* of generated tokens end at the last context.
ReturnDone(r) ==
  LET d == dev[r]
  IN  /\ Free(r) /\ d.phase = "return" /\ d.k > Len(ReturnCalls(d))
      /\ dev' = [dev EXCEPT ![r] = IF ~IsFirst(r) THEN Reset(r) ELSE
                   [d EXCEPT !.phase = "reply", !.results = Append(@, Got(d)), !.got = << >>,
                             !.tokens = IF Scoring(d) THEN @ ELSE
                               [b \in DOMAIN @ |-> SubSeq(@[b], 1, d.context + 1)]]]
      /\ UNCHANGED <<asked, answer, lock, op>>

\* The thread answers and lets go of the lock.
Reply_Retries ==                   \* mutant: a refused request is tried again
  /\ dev[0].phase \in {"reply", "refuse"}
  /\ answer' = [answer EXCEPT ![lock] = IF dev[0].phase = "reply" THEN "text" ELSE "none"]
  /\ lock' = "none"
  /\ dev' = [dev EXCEPT ![0] = Reset(0)]
  /\ UNCHANGED <<asked, op>>

Reply ==
  /\ dev[0].phase \in {"reply", "refuse"}
  /\ answer' = [answer EXCEPT ![lock] = IF dev[0].phase = "reply" THEN "text" ELSE "refused"]
  /\ lock' = "none"
  /\ dev' = [dev EXCEPT ![0] = Reset(0)]
  /\ UNCHANGED <<asked, op>>

----------------------------------------------------------------------------
Init ==
  /\ asked \in [Threads -> Requests]
  /\ answer = [t \in Threads |-> "none"]
  /\ lock = "none"
  /\ dev = [r \in Ranks |-> Reset(r)]
  /\ op = [r \in Ranks |-> NoOp]

Step(r) ==
  \/ Announce(r) \/ Begin(r) \/ Receive(r) \/ Compute(r)
  \/ Sample(r) \/ CheckDone(r) \/ NextToken(r) \/ Score(r)
  \/ Beam(r) \/ BeamDecided(r) \/ BeamCopied(r) \/ BeamSwap(r)
  \/ Return(r) \/ ReturnDone(r)

Served == \A t \in Threads : answer[t] # "none"

\* All requests are answered and the ranks wait for the next choice.
Waiting ==
  /\ Served /\ dev[0].phase = "idle"
  /\ \A r \in Ranks \ {0} : op[r].site = "choice"

Next ==
  \/ \E t \in Threads : TakeLock(t)
  \/ \E r \in Ranks : Step(r)
  \/ Collective \/ Transfer \/ Reply
  \/ Waiting /\ UNCHANGED vars

Spec == Init /\ [][Next]_vars

\* Threads, ranks and links do not stop while they have something to do.
FairSpec ==
  /\ Spec
  /\ WF_vars(\/ \E t \in Threads : TakeLock(t)
             \/ \E r \in Ranks : Step(r)
             \/ Collective \/ Transfer \/ Reply)

----------------------------------------------------------------------------
\* Broadcasts meet that are the same call of the program, in the same round, on
\* all ranks, and the memory of a layer keeps the size it was allocated with.
RanksInStep ==
  /\ answer \in [Threads -> {"none", "text", "refused"}]
  /\ lock \in Threads \cup {"none"}
  /\ \A q, r \in Ranks :
       op[q].group = op[r].group /\ op[q].group \in {"world", "pipeline", "embedding"} =>
         op[q].site = op[r].site /\ dev[q].context = dev[r].context
  /\ \A r \in Ranks :
       /\ dev[r].context \in 0 .. MaxPosition
       /\ dev[r].cache # << >> =>
            /\ DOMAIN dev[r].cache = DOMAIN dev[r].tokens
            /\ dev[r].seqOffset \in {dev[r].previous, dev[r].context}
            /\ dev[r].batchOffset < Len(dev[r].tokens)

\* What the last stage samples from is computed, through all stages and their
\* memories, from the tokens of the very row it extends: also after beams have
\* changed places, and whether or not the rows came in micro batches.  All ranks
\* that meet in a broadcast are at the same one, with the same context.
OwnContext ==
  LET d == dev[P - 1]
  IN  /\ RanksInStep
      /\ d.phase = "sample" =>
           /\ DOMAIN d.logits = DOMAIN d.tokens
           /\ \A b \in DOMAIN d.tokens :
                d.logits[b] = [j \in 1 .. d.context - d.previous |->
                                 SubSeq(d.tokens[b], 1, d.previous + j)]

\* Where the sequence of row b ends by the stopping rule: after the first token
\* behind the prompt that stops it, or at the full length.
EndOf(d, b, full) ==
  LET stops == {p \in d.lengths[b] + 1 .. Len(d.tokens[b]) :
                  Stops(d.values.mode, d.tokens[b][p - 1], d.tokens[b][p])}
  IN  IF stops = {} THEN full ELSE Min(stops)

\* The client gets an answer to its own request: its prompts, extended; each
\* sequence ends where its stopping rule says; a log probability belongs to its
\* token.
GenerationRight(d, q) ==
  /\ \A b \in DOMAIN d.tokens : SubSeq(d.tokens[b], 1, Len(q.prompts[b])) = q.prompts[b]
  /\ ~Scoring(d) =>
       \A b \in DOMAIN d.tokens : d.results[1][b] = EndOf(d, b, Len(Padded(q)[b]))
  /\ q.logprobs =>
       \A b \in DOMAIN d.tokens :
         Last(d.results)[b] = [p \in 1 .. Len(d.tokens[b]) - 1 |-> SubSeq(d.tokens[b], 1, p + 1)]

\* As many beams as asked for, best first, all of them from the prompt.
BeamsRight(d, q) ==
  LET scores == d.results[3]
      beams  == d.results[4]
  IN  /\ Len(scores) = q.beam /\ Len(beams) = q.beam
      /\ \A i \in 1 .. q.beam - 1 : ~Below(scores[i], scores[i + 1])
      /\ \A i \in 1 .. q.beam : SubSeq(beams[i], 1, Len(q.prompts[1])) = q.prompts[1]

AnswerRight ==
  dev[0].phase = "reply" =>
    IF dev[0].kind = "beam" THEN BeamsRight(dev[0], asked[lock])
                            ELSE GenerationRight(dev[0], asked[lock])

\* The hypotheses kept are the best of all that were offered.
BestKept ==
  LET d == dev[P - 1]
  IN  \A x \in d.offered \ Range(d.hyps.beams), y \in Range(d.hyps.beams) :
        ~Below(y.score, x.score)

\* Every request is answered: the ranks never wait for each other for good, and
\* neither an answer nor a refusal leaves them out of step.
EveryRequestAnswered == <>Served

\* "In the first forward pass of inference, we use the entire provided prefix"
\* (comment of ParallelAttention.forward): the queries of a pass have the
\* rotary embedding of their own positions.
QueriesRotated ==
  \A r \in Ranks :
    LET d == dev[r]
        n == Len(d.rotated)
    IN  n > 0 => \A j \in 1 .. n - 1 : d.rotated[j] < d.rotated[j + 1]
=============================================================================
