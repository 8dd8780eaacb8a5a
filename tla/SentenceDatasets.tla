--------------------------- MODULE SentenceDatasets ---------------------------
(***************************************************************************)
(* The samples of BERT, T5 and the inverse cloze task (data/bert_dataset,  *)
(* t5_dataset, ict_dataset, dataset_utils, realm_dataset_utils, and the    *)
(* mappings of helpers.cpp).  A sample is a run of sentences of one        *)
(* document.  Rank 0 writes the runs to a file, which later launches find  *)
(* by its name; then every request for a sample draws what to mask.        *)
(*                                                                         *)
(* A sentence is a sequence of pieces, of which it is only told whether    *)
(* they begin a word.  A token is its place in the corpus, or one of the   *)
(* special tokens.  Mappings are not shuffled: any sample may be asked for.*)
(***************************************************************************)
EXTENDS Integers, Sequences, SequencesExt, FiniteSetsExt

CONSTANT SentenceJobs
  \* docs: sentences, as [begins a word : BOOLEAN]; titles: their lengths;
  \* grid: replicas and stages; seq, dec: --seq-length, --decoder-seq-length;
  \* sentinels: --vocab-extra-ids; random, ratio: numbers that rand32_gen gives,
  \* and the ratio of short targets; long: LONG_SENTENCE_LEN; ngrams: max_ngrams;
  \* launches; killable: those that may be killed.  A launch: [kind, binary:
  \* binary_head, bounds of the three datasets, wanted: their samples, prob:
  \* mask_prob as a fraction, in_block: query_in_block_prob is 1,
  \* one_sent: use_one_sent_docs]

VARIABLES job,    \* one of SentenceJobs
          launch, \* number of the launch
          files,  \* by key: << >>, <<"partial">>, or <<"whole", mapping>>
          ranks,  \* [ds, at]: what each process does
          held,   \* the mappings each has loaded
          sample, \* << >> or the sample that is being made
          ending  \* "running", or how the launch ended

sentence_vars == <<job, launch, files, ranks, held, sample, ending>>

Asked == job.launches[launch]
DataSets == 1 .. 3
Processes == (0 .. job.grid[1] - 1) \X (0 .. job.grid[2] - 1)
Writer == <<0, 0>>
DocsOf(l, ds) == l.bounds[ds] + 1 .. l.bounds[ds + 1]
SizeOf(d, s) == Len(job.docs[d][s])

(***************************************************************************)
(* Runs of sentences.                                                      *)
(***************************************************************************)
\* What is left of max_seq_length for a sample's own tokens.
MaxLength(l) == job.seq - (IF l.kind = "t5" THEN 2 ELSE 3)
MinSentences(l) ==
  CASE l.kind = "ict" -> IF l.one_sent THEN 1 ELSE 2
    [] OTHER -> IF l.kind = "bert" /\ l.binary THEN 2 ELSE 1

\* The n-th target length.
TargetLength(n, max) ==
  LET r == job.random[(n % Len(job.random)) + 1]
  IN  IF job.ratio > 0 /\ r % job.ratio = 0 THEN 2 + (r % (max - 1)) ELSE max

\* The code looks for long sentences in documents with two and more; in the
\* mapping of blocks, of the least number and more.
Qualifies(l, d) ==
  LET n == Len(job.docs[d])
      looked == IF l.kind = "ict" THEN n >= MinSentences(l) ELSE n > 1
  IN  /\ n >= MinSentences(l) /\ n > 0
      /\ looked => \A s \in 1 .. n : SizeOf(d, s) <= job.long

EmptyMap(l) == [runs |-> << >>, draws |-> 0, from |-> 1, len |-> 0, num |-> 0, target |-> 0]

\* Mutant: a run may also end before the last sentence.
MapSentence_OneLeft(l, m, d, s) ==
  LET len == m.len + SizeOf(d, s)
      remain == Len(job.docs[d]) - s
      cut == \/ len >= m.target /\ remain > 0 /\ m.num + 1 >= MinSentences(l)
             \/ remain = 0
  IN  IF cut
      THEN [runs |-> Append(m.runs, [doc |-> d, first |-> m.from, last |-> s, target |-> m.target]),
            draws |-> m.draws + 1, from |-> s + 1, len |-> 0, num |-> 0,
            target |-> TargetLength(m.draws, MaxLength(l))]
      ELSE [m EXCEPT !.len = len, !.num = @ + 1]

\* One sentence of build_mapping.
MapSentence(l, m, d, s) ==
  LET len == m.len + SizeOf(d, s)
      remain == Len(job.docs[d]) - s
      cut == \/ len >= m.target /\ remain > 1 /\ m.num + 1 >= MinSentences(l)
             \/ remain = 0
  IN  IF cut
      THEN [runs |-> Append(m.runs, [doc |-> d, first |-> m.from, last |-> s, target |-> m.target]),
            draws |-> m.draws + 1, from |-> s + 1, len |-> 0, num |-> 0,
            target |-> TargetLength(m.draws, MaxLength(l))]
      ELSE [m EXCEPT !.len = len, !.num = @ + 1]

MapDocument(l, m, d) ==
  IF Qualifies(l, d)
  THEN FoldLeft(LAMBDA n, s : MapSentence(l, n, d, s),
                [m EXCEPT !.from = 1, !.len = 0, !.num = 0, !.draws = @ + 1,
                          !.target = TargetLength(m.draws, MaxLength(l))],
                [s \in 1 .. Len(job.docs[d]) |-> s])
  ELSE m

\* One sentence of build_blocks_mapping.  Documents are counted from the first
\* of the dataset, and so are their titles.
MapBlockSentence(l, ds, m, d, s) ==
  LET len == m.len + SizeOf(d, s)
      remain == Len(job.docs[d]) - s
      index == d - l.bounds[ds]
      cut == \/ /\ len >= MaxLength(l) - job.titles[index]
                /\ remain >= MinSentences(l) /\ m.num + 1 >= MinSentences(l)
             \/ remain = 0
  IN  IF cut
      THEN [m EXCEPT !.runs = Append(@, [doc |-> d, first |-> m.from, last |-> s, title |-> index]),
                     !.from = s + 1, !.len = 0, !.num = 0]
      ELSE [m EXCEPT !.len = len, !.num = @ + 1]

MapBlockDocument(l, ds, m, d) ==
  IF Qualifies(l, d)
  THEN FoldLeft(LAMBDA n, s : MapBlockSentence(l, ds, n, d, s),
                [m EXCEPT !.from = 1, !.len = 0, !.num = 0],
                [s \in 1 .. Len(job.docs[d]) |-> s])
  ELSE m

\* Whole epochs, until there are enough samples; every epoch gives one at
\* least, unless no document qualifies.
Mapping(l, ds) ==
  LET docs == SetToSortSeq(DocsOf(l, ds), <)
      one(m) == IF l.kind = "ict"
                THEN FoldLeft(LAMBDA n, d : MapBlockDocument(l, ds, n, d), m, docs)
                ELSE FoldLeft(LAMBDA n, d : MapDocument(l, n, d), m, docs)
      epochs[e \in 0 .. l.wanted[ds]] ==
        IF e = 0 THEN EmptyMap(l)
        ELSE IF Len(epochs[e - 1].runs) >= l.wanted[ds] THEN epochs[e - 1]
        ELSE one(epochs[e - 1])
  IN  epochs[l.wanted[ds]].runs

\* The number of epochs is the largest 32-bit integer.
Endless(l, ds) == ~ \E d \in DocsOf(l, ds) : Qualifies(l, d)

(***************************************************************************)
(* The files.  Their names have neither the split nor the binary head.     *)
(***************************************************************************)
Key(l, ds) ==
  IF l.kind = "ict" THEN <<ds, l.wanted[ds], job.seq, "blocks", l.one_sent>>
  ELSE <<ds, l.wanted[ds], MaxLength(l), "sentences", FALSE>>

Empty(l, ds) == l.bounds[ds + 1] <= l.bounds[ds]
FollowingSet(ds) ==
  LET more == {n \in DataSets : n > ds /\ ~Empty(Asked, n)}
  IN  IF more = {} THEN 4 ELSE Min(more)

StartLaunch(n) ==
  LET first == Min({4} \cup {ds \in DataSets : ~Empty(job.launches[n], ds)})
  IN  /\ launch' = n
      /\ ranks' = [r \in Processes |-> [ds |-> first, at |-> "look"]]
      /\ held' = [r \in Processes |-> [ds \in DataSets |-> << >>]]
      /\ sample' = << >> /\ ending' = "running"

InitSentences ==
  /\ job \in SentenceJobs
  /\ launch = 1
  /\ files = [k \in {Key(l, ds) : l \in Range(job.launches), ds \in DataSets} |-> << >>]
  /\ ranks = [r \in Processes |->
                [ds |-> Min({4} \cup {ds \in DataSets : ~Empty(Asked, ds)}), at |-> "look"]]
  /\ held = [r \in Processes |-> [ds \in DataSets |-> << >>]]
  /\ sample = << >> /\ ending = "running"

Running == ending = "running"
AllBuilt == \A r \in Processes : ranks[r].ds = 4
End(how) == ending' = how /\ UNCHANGED <<job, launch, files, ranks, held, sample>>
File(r) == Key(Asked, ranks[r].ds)

\* get_samples_mapping, get_block_samples_mapping: is there a file?
Look(r) ==
  /\ Running /\ ranks[r].ds < 4 /\ ranks[r].at = "look"
  /\ IF Asked.wanted[ranks[r].ds] = 0 THEN End("samples")
     ELSE IF r = Writer /\ files[File(r)] = << >>
     THEN IF Endless(Asked, ranks[r].ds) THEN End("endless")
          ELSE /\ files' = [files EXCEPT ![File(r)] = <<"partial">>]
               /\ ranks' = [ranks EXCEPT ![r].at = "write"]
               /\ UNCHANGED <<job, launch, held, sample, ending>>
     ELSE /\ ranks' = [ranks EXCEPT ![r].at = "meet"]
          /\ UNCHANGED <<job, launch, files, held, sample, ending>>

WriteMapping(r) ==
  /\ Running /\ ranks[r].at = "write"
  /\ files' = [files EXCEPT ![File(r)] = <<"whole", Mapping(Asked, ranks[r].ds)>>]
  /\ ranks' = [ranks EXCEPT ![r].at = "meet"]
  /\ UNCHANGED <<job, launch, held, sample, ending>>

\* all_reduce in a data-parallel group, then in a pipeline group; blocks have
\* the first only, and one stage.
Together(group, at, next) ==
  /\ Running
  /\ \A r \in group : ranks[r].ds < 4 /\ ranks[r].at = at
  /\ \A q, r \in group : ranks[q].ds = ranks[r].ds
  /\ ranks' = [r \in Processes |-> IF r \in group THEN [ranks[r] EXCEPT !.at = next] ELSE ranks[r]]
  /\ UNCHANGED <<job, launch, files, held, sample, ending>>

ReplicasMeet(p) ==
  Together({r \in Processes : r[2] = p}, "meet", IF Asked.kind = "ict" THEN "load" ELSE "stages")
StagesMeet(d) == Together({r \in Processes : r[1] = d}, "stages", "load")

LoadMapping(r) ==
  /\ Running /\ ranks[r].at = "load"
  /\ IF Len(files[File(r)]) < 2 THEN End("torn")
     ELSE /\ held' = [held EXCEPT ![r][ranks[r].ds] = files[File(r)][2]]
          /\ ranks' = [ranks EXCEPT ![r] = [ds |-> FollowingSet(@.ds), at |-> "look"]]
          /\ UNCHANGED <<job, launch, files, sample, ending>>

\* The launch is killed while the mappings are built.
Kill == Running /\ ~AllBuilt /\ launch \in job.killable /\ End("killed")

Relaunch ==
  /\ ~Running \/ (AllBuilt /\ sample = << >>)
  /\ launch < Len(job.launches)
  /\ StartLaunch(launch + 1)
  /\ UNCHANGED <<job, files>>

(***************************************************************************)
(* A sample: segments, truncation, masking.                                *)
(***************************************************************************)
Tokens(run, s) == [i \in 1 .. SizeOf(run.doc, s) |-> <<"tok", run.doc, s, i>>]
Joined(run, a, b) == FlattenSeq([i \in 1 .. b - a + 1 |-> Tokens(run, a + i - 1)])
StartsWord(t) == job.docs[t[2]][t[3]][t[4]]

Cls == <<"cls">>
Sep == <<"sep">>
MaskToken == <<"mask">>
RandomWord == <<"word">>
Sentinel(k) == <<"sentinel", k>>
Special(t) == t \in {Cls, Sep}

SampleOf(ds, run) ==
  [ds |-> ds, run |-> run, phase |-> "", a |-> << >>, b |-> << >>, swapped |-> FALSE,
   tokens |-> << >>, left |-> {}, masked |-> << >>, spans |-> {}, output |-> << >>, decoder |-> << >>]

Make(s) == sample' = s /\ UNCHANGED <<job, launch, files, ranks, held, ending>>

\* BERT: get_a_and_b_segments, or one segment.
Segments(ds, run) ==
  LET n == run.last - run.first + 1
      s == SampleOf(ds, run)
  IN  IF ~Asked.binary
      THEN Make([s EXCEPT !.phase = "truncate", !.a = Joined(run, run.first, run.last)])
      ELSE IF n < 2 THEN End("sentences")
      ELSE \E cut \in 1 .. n - 1, swap \in BOOLEAN :
             LET a == Joined(run, run.first, run.first + cut - 1)
                 b == Joined(run, run.first + cut, run.last)
             IN  Make([s EXCEPT !.phase = "truncate", !.swapped = swap,
                                !.a = IF swap THEN b ELSE a, !.b = IF swap THEN a ELSE b])

\* truncate_segments, one token at a time; then [CLS] and [SEP].
Shorten(s, atFront) == IF atFront THEN Tail(s) ELSE Front(s)
Truncate ==
  /\ Running /\ sample # << >> /\ sample.phase = "truncate"
  /\ IF Len(sample.a) + Len(sample.b) > sample.run.target
     THEN \E atFront \in BOOLEAN :
            Make(IF Len(sample.a) > Len(sample.b)
                 THEN [sample EXCEPT !.a = Shorten(@, atFront)]
                 ELSE [sample EXCEPT !.b = Shorten(@, atFront)])
     ELSE Make([sample EXCEPT !.phase = "words",
                  !.tokens = <<Cls>> \o sample.a \o <<Sep>> \o
                             (IF sample.b = << >> THEN << >> ELSE sample.b \o <<Sep>>)])

\* T5: all sentences, cut at the target.
OneSegment(ds, run) ==
  LET all == Joined(run, run.first, run.last)
  IN  Make([SampleOf(ds, run) EXCEPT !.phase = "words",
              !.tokens = SubSeq(all, 1, Min({Len(all), run.target}))])

\* The words: indices of the pieces, which go to the word before them.
Words(tokens) ==
  FoldLeft(LAMBDA w, i : IF Special(tokens[i]) THEN w
                         ELSE IF w # << >> /\ ~StartsWord(tokens[i])
                         THEN Front(w) \o <<Append(Last(w), i)>>
                         ELSE Append(w, <<i>>),
           << >>, [i \in 1 .. Len(tokens) |-> i])

\* num_to_predict, in parts of the denominator: it need not be whole.
RoundHalfEven(n, d) ==
  LET q == n \div d
      r == 2 * (n % d)
  IN  IF r > d \/ (r = d /\ q % 2 = 1) THEN q + 1 ELSE q
NumToPredict(s) ==
  LET num == Asked.prob[1]
      den == Asked.prob[2]
  IN  Min({num * s.run.target, den * Max({1, RoundHalfEven(Len(s.tokens) * num, den)})})
Fits(n) == n * Asked.prob[2] <= NumToPredict(sample)

\* Without masking four values are returned where five are expected.
FindWords ==
  /\ Running /\ sample # << >> /\ sample.phase = "words"
  /\ IF Asked.prob[1] = 0 THEN End("unpack")
     ELSE Make([sample EXCEPT !.phase = "mask", !.left = 1 .. Len(Words(sample.tokens)),
                              !.output = sample.tokens])

Ngram(w, n) ==
  LET words == Words(sample.tokens)
  IN  FlattenSeq(SubSeq(words, w, Min({Len(words), w + n - 1})))

Replacement(i) ==
  IF Asked.kind = "t5" THEN {MaskToken} ELSE {MaskToken, RandomWord, sample.tokens[i]}

Masked == {m[1] : m \in Range(sample.masked)}

\* The next of the shuffled candidates, with the longest piece of it, up to the
\* drawn number of words, that leaves no more predictions than wanted.
MaskCandidate(w, n) ==
  LET sizes == {k \in 1 .. n : Fits(Len(sample.masked) + Len(Ngram(w, k)))}
      chosen == Ngram(w, Max(sizes))
  IN  IF sizes = {} \/ \E i \in Range(chosen) : i \in Masked
      THEN Make([sample EXCEPT !.left = @ \ {w}])
      ELSE \E new \in [Range(chosen) -> {MaskToken, RandomWord} \cup Range(sample.tokens)] :
             /\ \A i \in Range(chosen) : new[i] \in Replacement(i)
             /\ Make([sample EXCEPT !.left = @ \ {w}, !.spans = @ \cup {chosen},
                        !.masked = @ \o [k \in 1 .. Len(chosen) |-> <<chosen[k], sample.tokens[chosen[k]]>>],
                        !.output = [i \in 1 .. Len(@) |-> IF i \in DOMAIN new THEN new[i] ELSE @[i]]])

Masking == Running /\ sample # << >> /\ sample.phase = "mask"
Enough == Len(sample.masked) * Asked.prob[2] >= NumToPredict(sample) \/ sample.left = {}

\* T5: a sentinel for every span, and behind it, for the decoder, the span.
SortedSpans == SetToSortSeq(sample.spans, LAMBDA p, q : p[1] < q[1])
Label(i) == (CHOOSE m \in Range(sample.masked) : m[1] = i)[2]
EncoderInput(spans) ==
  LET start(k) == IF k = 1 THEN 1 ELSE Last(spans[k - 1]) + 1
      piece(k) == SubSeq(sample.output, start(k), spans[k][1] - 1)
  IN  FlattenSeq([k \in 1 .. Len(spans) |-> Append(piece(k), Sentinel(k))])
        \o SubSeq(sample.output, start(Len(spans) + 1), Len(sample.output))
DecoderInput(spans) ==
  FlattenSeq([k \in 1 .. Len(spans) |->
                <<Sentinel(k)>> \o [i \in 1 .. Len(spans[k]) |-> Label(spans[k][i])]])

Finish ==
  /\ Masking /\ Enough
  /\ IF Asked.kind = "bert" THEN Make([sample EXCEPT !.phase = "done", !.left = {}])
     ELSE LET spans == SortedSpans
              decoder == DecoderInput(spans)
          IN  IF Len(spans) > job.sentinels THEN End("sentinels")
              ELSE IF 1 + Len(decoder) > job.dec THEN End("decoder")
              ELSE Make([sample EXCEPT !.phase = "done", !.left = {},
                           !.output = EncoderInput(spans), !.decoder = decoder])

\* ICT: a sentence of the block is the query, and mostly taken out of it.
Cloze(ds, run) ==
  \E q \in run.first .. run.last, kept \in (IF Asked.in_block THEN {TRUE} ELSE BOOLEAN) :
    LET rest == SelectSeq(Joined(run, run.first, run.last), LAMBDA t : kept \/ t[3] # q)
        title == job.titles[run.title]
        room == job.seq - (3 + title)
    IN  Make([SampleOf(ds, run) EXCEPT !.phase = "done",
                !.a = SubSeq(Tokens(run, q), 1, Min({SizeOf(run.doc, q), job.seq - 2})),
                !.b = SubSeq(rest, 1, Min({Len(rest), room})),
                !.tokens = <<Cls, <<"title", run.title>>, Sep>>])

Fetch ==
  /\ Running /\ AllBuilt /\ sample = << >>
  /\ \E ds \in DataSets : \E i \in DOMAIN held[Writer][ds] :
       LET run == held[Writer][ds][i]
       IN  CASE Asked.kind = "bert" -> Segments(ds, run)
             [] Asked.kind = "t5" -> OneSegment(ds, run)
             [] Asked.kind = "ict" -> Cloze(ds, run)

NextSentences ==
  \/ \E r \in Processes : Look(r) \/ WriteMapping(r) \/ LoadMapping(r)
  \/ \E p \in 0 .. job.grid[2] - 1 : ReplicasMeet(p)
  \/ \E d \in 0 .. job.grid[1] - 1 : StagesMeet(d)
  \/ Kill
  \/ Relaunch
  \/ Fetch
  \/ Truncate
  \/ FindWords
  \/ Masking /\ ~Enough /\ \E w \in sample.left, n \in 1 .. job.ngrams : MaskCandidate(w, n)
  \/ Finish
-----------------------------------------------------------------------------
\* Runs of a mapping tile the qualifying documents in whole epochs: each has the
\* sentences that are needed and, but for the last of its document, reaches its
\* target; there is no epoch too many.
MappingRight(l, ds, runs) ==
  LET docs == {d \in DocsOf(l, ds) : Qualifies(l, d)}
      after(d) == IF d = Max(docs) THEN Min(docs) ELSE Min({e \in docs : e > d})
      length(u) == FoldLeft(+, 0, [i \in 1 .. u.last - u.first + 1 |-> SizeOf(u.doc, u.first + i - 1)])
      target(u) == IF l.kind = "ict" THEN MaxLength(l) - job.titles[u.title] ELSE u.target
      starts == {i \in DOMAIN runs : runs[i].doc = Min(docs) /\ runs[i].first = 1}
  IN  /\ Len(runs) >= l.wanted[ds] /\ Max(starts) - 1 < l.wanted[ds]
      /\ runs[1].doc = Min(docs) /\ runs[1].first = 1
      /\ Last(runs).doc = Max(docs) /\ Last(runs).last = Len(job.docs[Last(runs).doc])
      /\ \A i \in DOMAIN runs :
           LET u == runs[i]
               ends == u.last = Len(job.docs[u.doc])
           IN  /\ u.last - u.first + 1 >= MinSentences(l)
               /\ \A s \in u.first .. u.last : SizeOf(u.doc, s) <= job.long \/ Len(job.docs[u.doc]) = 1
               /\ ends \/ length(u) >= target(u)
               /\ i < Len(runs) =>
                    IF ends THEN runs[i + 1].doc = after(u.doc) /\ runs[i + 1].first = 1
                    ELSE runs[i + 1].doc = u.doc /\ runs[i + 1].first = u.last + 1

\* Every process reads the mapping of this launch, or of an earlier one whose
\* name was the same, whole.
MappingsRead ==
  \A r \in Processes, ds \in DataSets : held[r][ds] # << >> =>
    \E k \in 1 .. launch :
      /\ Key(job.launches[k], ds) = Key(Asked, ds)
      /\ MappingRight(job.launches[k], ds, held[r][ds])

AllTokens(u) == Joined(u, u.first, u.last)
Infix(p, q) == \E i \in 0 .. Len(q) : SubSeq(q, i + 1, i + Len(p)) = p

\* With the labels put back, two pieces of the text, of sentences before and
\* behind a cut, that together are as long as they may be; masked are whole
\* words of them, and not too many.
BertRight ==
  LET u == sample.run
      text == [i \in DOMAIN sample.output |-> IF i \in Masked THEN Label(i) ELSE sample.output[i]]
      seps == {i \in DOMAIN text : text[i] = Sep}
      a == SubSeq(text, 2, Min(seps) - 1)
      b == SubSeq(text, Min(seps) + 1, Max(seps) - 1)
      early == IF sample.swapped THEN b ELSE a
      late == IF sample.swapped THEN a ELSE b
  IN  /\ text[1] = Cls /\ Last(text) = Sep
      /\ Cardinality(seps) = IF Asked.binary THEN 2 ELSE 1
      /\ Infix(a, AllTokens(u)) /\ Infix(b, AllTokens(u))
      /\ Asked.binary => a # << >> /\ b # << >>
      /\ \A p \in Range(early), q \in Range(late) : p[3] < q[3]
      /\ Len(a) + Len(b) = Min({Len(AllTokens(u)), u.target})
      /\ \A i \in Masked : ~Special(text[i])
      /\ \A i \in 1 .. Len(text) - 1 :
           (~Special(text[i]) /\ ~Special(text[i + 1]) /\ ~StartsWord(text[i + 1]))
             => (i \in Masked <=> i + 1 \in Masked)
      /\ Len(sample.masked) = Cardinality(Masked) /\ Fits(Len(sample.masked))

\* The spans behind the decoder's sentinels, put in place of the encoder's, give
\* the text back.
T5Right ==
  LET u == sample.run
      places == {i \in DOMAIN sample.decoder : sample.decoder[i][1] = "sentinel"}
      span(t) ==
        LET i == CHOOSE p \in places : sample.decoder[p] = t
            behind == {p \in places : p > i}
        IN  SubSeq(sample.decoder, i + 1,
                   IF behind = {} THEN Len(sample.decoder) ELSE Min(behind) - 1)
      text == FlattenSeq([i \in DOMAIN sample.output |->
                IF sample.output[i][1] = "sentinel" THEN span(sample.output[i])
                ELSE <<sample.output[i]>>])
  IN  /\ text = SubSeq(AllTokens(u), 1, Min({Len(AllTokens(u)), u.target}))
      /\ 1 + Len(sample.decoder) <= job.dec

\* The query is one sentence; the context is its block, with or without it, and
\* in the first dataset it has the title of its document.
ClozeRight ==
  LET u == sample.run
      q == sample.a[1][3]
      rests == {AllTokens(u), SelectSeq(AllTokens(u), LAMBDA t : t[3] # q)}
  IN  /\ sample.a = SubSeq(Tokens(u, q), 1, Len(sample.a))
      /\ \E t \in rests : IsPrefix(sample.b, t)
      /\ Asked.in_block => IsPrefix(sample.b, AllTokens(u))
      /\ Len(sample.b) + 3 + job.titles[u.title] <= job.seq
      /\ Asked.bounds[sample.ds] = 0 => sample.tokens[2] = <<"title", u.doc>>

Earlier == {job.launches[k] : k \in 1 .. launch - 1}
Refused ==
  CASE ending = "samples" -> \E ds \in DataSets : ~Empty(Asked, ds) /\ Asked.wanted[ds] = 0
    [] ending = "endless" -> \E ds \in DataSets : ~Empty(Asked, ds) /\ Endless(Asked, ds)
    [] ending = "torn" -> \E k \in 1 .. launch - 1 : k \in job.killable
    [] ending = "sentences" ->
         \E l \in Earlier, ds \in DataSets : ~l.binary /\ Key(l, ds) = Key(Asked, ds)
    [] ending = "unpack" -> Asked.prob[1] = 0
    [] ending = "sentinels" -> NumToPredict(sample) > job.sentinels * Asked.prob[2]
    [] ending = "decoder" -> 1 + 2 * (NumToPredict(sample) \div Asked.prob[2]) > job.dec
    [] OTHER -> TRUE

\* Whatever launches left, each process reads a whole mapping of runs of
\* sentences; a sample is made of its run and of nothing else, and tells again
\* what it masks; and one is refused only for the reasons named.
SentencesAsWritten ==
  /\ MappingsRead
  /\ sample # << >> /\ sample.phase = "done" =>
       CASE Asked.kind = "bert" -> BertRight
         [] Asked.kind = "t5" -> T5Right
         [] Asked.kind = "ict" -> ClozeRight
  /\ Refused
==============================================================================
