------------------------------- MODULE Datasets -------------------------------
(***************************************************************************)
(* The samples of a training.  Every corpus is a file of documents.  A     *)
(* split gives each of the three datasets a range of them; the documents   *)
(* of a range, shuffled and repeated for as many epochs as are needed, are *)
(* one stream of tokens, cut into samples that share their last token with *)
(* the next; the samples are shuffled; and the datasets of several corpora *)
(* are blended by weight.  Rank 0 writes these indices to files and the    *)
(* others read them, unless an earlier launch left them; a process may end *)
(* anywhere in a write, or the disk be full.                               *)
(*                                                                         *)
(* A token is its document and its place there.  A random state gives one  *)
(* of a few rearrangements.  Weights and splits are exact.                 *)
(***************************************************************************)
EXTENDS Integers, Sequences, SequencesExt, FiniteSetsExt

CONSTANTS DataLaunches,      \* see data
          Rearrange(_, _, _) \* what the k-th shuffle of a seed makes of a sequence

VARIABLES data,   \* the launch: of every corpus the sizes of its documents and its
                  \* weight, the split, the samples wanted of each dataset, the
                  \* sequence length, the seed, whether blends are kept in files, and the
                  \* number of stages and of replicas
          indices, \* what is built, in order: <<corpus, dataset>>, or <<0, dataset>>
                  \* for a blend
          files,  \* of every index, of every file: "absent", "partial", "whole"
          at,     \* per rank, what it does: <<place, index number, count>>
          failed  \* how the job ended

data_vars == <<data, indices, files, at, failed>>

Names == 1 .. 3   \* train, valid, test
Corpora == 1 .. Len(data.corpora)
Weight(c) == data.corpora[c].weight
AllWeight == MapThenSumSet(Weight, Corpora)
SeqLength == data.seq_length
Shuffle(k, s) == Rearrange(data.seed, k, s)
CeilDiv(a, b) == (a + b - 1) \div b

\* The processes that read data, by stage and replica.
DataRanks == (1 .. data.grid[1]) \X (1 .. data.grid[2])
Rank0 == <<1, 1>>

(***************************************************************************)
(* The documents of a dataset.                                             *)
(***************************************************************************)
\* Python's round: halves to the even neighbour.
Rounded(a, b) ==
  LET q == a \div b
      r == 2 * (a % b)
  IN  IF r > b \/ (r = b /\ q % 2 = 1) THEN q + 1 ELSE q

\* get_train_valid_test_split_: the ends of the three ranges.
SplitIndex(c) ==
  LET size == Len(data.corpora[c].sizes)
      sum == MapThenSumSet(LAMBDA n : data.splits[n], Names)
      end(n) == MapThenSumSet(LAMBDA k : Rounded(data.splits[k] * size, sum), 1 .. n)
  IN  [n \in 0 .. 3 |-> IF n = 0 THEN 0 ELSE end(n) - (end(3) - size)]

HasDocuments(c, name) == SplitIndex(c)[name] > SplitIndex(c)[name - 1]

\* The assertion on the smallest document.
Rejected(c, name) == HasDocuments(c, name) /\ SplitIndex(c)[name - 1] < 0

Documents(c, name) ==
  [i \in 1 .. SplitIndex(c)[name] - SplitIndex(c)[name - 1] |->
     SplitIndex(c)[name - 1] + i - 1]

(***************************************************************************)
(* How much a dataset must give: 0.5% more than its share.                 *)
(***************************************************************************)
NumSamples(c, name) ==
  IF Len(data.corpora) = 1 THEN data.wanted[name]
  ELSE CeilDiv(data.wanted[name] * Weight(c) * 1005, AllWeight * 1000)

Size(c, d) == data.corpora[c].sizes[d + 1]

NumTokens(c, docs) == FoldLeft(LAMBDA n, d : n + Size(c, d), 0, docs)

SamplesIn(tokens) == (tokens - 1) \div SeqLength

NumEpochs(tokens, wanted) ==
  LET epochs[n \in Nat \ {0}] ==
        IF SamplesIn(n * tokens) >= wanted THEN n ELSE epochs[n + 1]
  IN  epochs[1]

\* The last epoch is kept apart when less than 80% of it is needed.
LastEpochSamples(tokens, wanted) ==
  wanted - SamplesIn((NumEpochs(tokens, wanted) - 1) * tokens)

SeparateLastEpoch(tokens, wanted) ==
  /\ NumEpochs(tokens, wanted) > 1
  /\ LastEpochSamples(tokens, wanted) < (80 * SamplesIn(tokens)) \div 100

EpochAssertions(tokens, wanted) ==
  NumEpochs(tokens, wanted) > 1 =>
    LastEpochSamples(tokens, wanted) \in 0 .. SamplesIn(tokens) + 1

(***************************************************************************)
(* The three indices of a dataset.                                         *)
(***************************************************************************)
Repeated(docs, epochs) == FlattenSeq([e \in 1 .. epochs |-> docs])

DocIdx(docs, epochs, separate) ==
  IF ~ separate \/ epochs = 1 THEN Shuffle(1, Repeated(docs, epochs))
  ELSE Shuffle(1, Repeated(docs, epochs - 1)) \o Shuffle(2, docs)

\* Where the sample after the one at <<index, offset>> begins.
NextSample(c, docIdx, start) ==
  LET walk[place \in Nat \X Nat, remaining \in Nat] ==
        LET length == Size(c, docIdx[place[1] + 1]) - place[2]
        IN  IF remaining <= length THEN <<place[1], place[2] + remaining - 1>>
            ELSE walk[<<place[1] + 1, 0>>, remaining - length]
  IN  walk[start, SeqLength + 1]

SampleIdx(c, docIdx, num) ==
  FoldLeft(LAMBDA s, k : Append(s, NextSample(c, docIdx, s[Len(s)])),
           << <<0, 0>> >>, [k \in 1 .. num |-> k])

Arange(a, b) == [i \in 1 .. b - a |-> a + i - 1]

ShuffleIdx_Overlap(num, total) ==   \* mutant: the second range begins too early
  Shuffle(3, Arange(0, num)) \o IF num = total THEN << >> ELSE Shuffle(4, Arange(num - 1, total))

ShuffleIdx(num, total) ==
  Shuffle(3, Arange(0, num)) \o IF num = total THEN << >> ELSE Shuffle(4, Arange(num, total))

Epochs(c, name) == NumEpochs(NumTokens(c, Documents(c, name)), NumSamples(c, name))

NumItems(c, name) == SamplesIn(Epochs(c, name) * NumTokens(c, Documents(c, name)))

Index(c, name) ==
  LET docs == Documents(c, name)
      tokens == NumTokens(c, docs)
      epochs == Epochs(c, name)
      separate == SeparateLastEpoch(tokens, NumSamples(c, name))
      total == NumItems(c, name)
      docIdx == DocIdx(docs, epochs, separate)
  IN  [doc |-> docIdx,
       sample |-> SampleIdx(c, docIdx, total),
       shuffle |-> ShuffleIdx(IF separate THEN SamplesIn((epochs - 1) * tokens) ELSE total,
                              total)]

\* The tokens of a document from an offset to the end, or so many of them.
Get(c, d, offset, length) == [j \in 1 .. length |-> <<d, offset + j - 1>>]

GetItem(c, index, i) ==
  LET idx   == index.shuffle[i + 1]
      first == index.sample[idx + 1]
      last  == index.sample[idx + 2]
      doc(k) == index.doc[k + 1]
  IN  IF first[1] = last[1]
      THEN Get(c, doc(first[1]), first[2], last[2] - first[2] + 1)
      ELSE Get(c, doc(first[1]), first[2], Size(c, doc(first[1])) - first[2])
             \o FlattenSeq([k \in 1 .. last[1] - first[1] - 1 |->
                  Get(c, doc(first[1] + k), 0, Size(c, doc(first[1] + k)))])
             \o Get(c, doc(last[1]), 0, last[2] + 1)

(***************************************************************************)
(* Blending: the next sample is of the dataset that is behind the most.    *)
(***************************************************************************)
Blended(name) == {c \in Corpora : HasDocuments(c, name)}

BlendSize(name) == MapThenSumSet(LAMBDA c : NumSamples(c, name), Corpora)

\* Of every sample the dataset and the number in it, and how many were taken
\* of each dataset.
BlendIndex(size) ==
  LET error(s, c) == Weight(c) * Max({Len(s.taken), 1}) - s.counts[c] * AllWeight
      behind(s) == CHOOSE c \in Corpora : \A b \in Corpora :
                     error(s, c) > error(s, b) \/ (error(s, c) = error(s, b) /\ c <= b)
      more(s, c) == [taken |-> Append(s.taken, <<c, s.counts[c]>>),
                     counts |-> [s.counts EXCEPT ![c] = @ + 1]]
  IN  FoldLeft(LAMBDA s, k : more(s, behind(s)),
               [taken |-> << >>, counts |-> [c \in Corpora |-> 0]], Arange(0, size)).taken

(***************************************************************************)
(* Building.  Every process builds the datasets of every corpus one after  *)
(* the other, then the blends.                                             *)
(***************************************************************************)
Datasets ==
  FlattenSeq([c \in Corpora |-> SelectSeq([n \in Names |-> <<c, n>>],
                                          LAMBDA x : HasDocuments(c, x[2]))])
Blends ==
  IF Len(data.corpora) = 1 THEN << >>
  ELSE SelectSeq([n \in Names |-> <<0, n>>], LAMBDA x : Blended(x[2]) # {})
BuildOrder == Datasets \o Blends
IsBlend(k) == indices[k][1] = 0

\* The files in the order they are written; the description of a blend, which
\* nobody looks for, is left out.
FilesOf(k) ==
  IF IsBlend(k) THEN <<"index", "sample_index">>
  ELSE <<"desc", "doc", "sample", "shuffle">>

\* What the constructor asserts.
AssertionFails(k) ==
  IF IsBlend(k) THEN Blended(indices[k][2]) # Corpora
  ELSE Rejected(indices[k][1], indices[k][2])

\* The access to the last sample, at the end of the constructor of a blend.
LastSampleExists(k) ==
  LET name == indices[k][2]
      last == BlendIndex(BlendSize(name))[BlendSize(name)]
  IN  last[2] < NumItems(last[1], name)

Running == failed = "no"
Go(r, to) == at' = [at EXCEPT ![r] = to] /\ UNCHANGED <<data, indices, failed>>
Fail(how) == failed' = how /\ UNCHANGED <<data, indices, files, at>>

LookUp(r) ==
  LET k == at[r][2]
      found == \A f \in Range(FilesOf(k)) : files[k][f] # "absent"
  IN  /\ Running /\ at[r][1] = "look" /\ ~ AssertionFails(k)
      /\ UNCHANGED files
      /\ IF IsBlend(k) /\ ~ data.cached THEN Go(r, <<"load", k, 0>>)
         ELSE IF r = Rank0 /\ ~ found THEN Go(r, <<"open", k, 1>>)
         ELSE Go(r, <<"dp", k, 1>>)

Refuse(r) == Running /\ at[r][1] = "look" /\ AssertionFails(at[r][2]) /\ Fail("assertion")

OpenFile(r) ==
  LET k == at[r][2]
      f == FilesOf(k)[at[r][3]]
  IN  /\ Running /\ at[r][1] = "open"
      /\ files' = [files EXCEPT ![k][f] = "partial"]
      /\ Go(r, <<"write", k, at[r][3]>>)

WriteFile(r) ==
  LET k == at[r][2]
      n == at[r][3]
      last == n = Len(FilesOf(k))
  IN  /\ Running /\ at[r][1] = "write"
      /\ files' = [files EXCEPT ![k] = [@ EXCEPT ![FilesOf(k)[n]] = "whole"]]
      /\ Go(r, IF last THEN <<"dp", k, 1>> ELSE <<"open", k, n + 1>>)

\* An OSError is caught, and counted.
DiskError(r) ==
  /\ Running /\ at[r][1] \in {"open", "write"}
  /\ UNCHANGED files
  /\ Go(r, <<"dp", at[r][2], 0>>)

\* The sums over the two groups: every member has come, and gets the sum.
AllReduce(group, from, to) ==
  LET k == at[CHOOSE r \in group : TRUE][2]
      sum == MapThenSumSet(LAMBDA r : at[r][3], group)
  IN  /\ Running
      /\ \A r \in group : at[r][1] = from /\ at[r][2] = k
      /\ at' = [r \in DataRanks |-> IF r \in group THEN <<to, k, sum>> ELSE at[r]]
      /\ UNCHANGED <<data, indices, files, failed>>

DataParallelGroup(r) == {o \in DataRanks : o[2] = r[2]}
PipelineGroup(r) == {o \in DataRanks : o[1] = r[1]}

CountDataParallel == \E r \in DataRanks : AllReduce(DataParallelGroup(r), "dp", "pp")
CountPipeline == \E r \in DataRanks : AllReduce(PipelineGroup(r), "pp", "counted")

Succeeded(count) == count = Cardinality(DataRanks)

ExitUnsuccessful(r) ==
  Running /\ at[r][1] = "counted" /\ ~ Succeeded(at[r][3]) /\ Fail("exit")

Readable(k) ==
  (IsBlend(k) /\ ~ data.cached) \/ \A f \in Range(FilesOf(k)) \ {"desc"} : files[k][f] = "whole"

Loading(r) ==
  Running /\ (at[r][1] = "load" \/ (at[r][1] = "counted" /\ Succeeded(at[r][3])))

Load(r) ==
  LET k == at[r][2]
  IN  /\ Loading(r) /\ Readable(k)
      /\ IsBlend(k) => LastSampleExists(k)
      /\ UNCHANGED files
      /\ Go(r, IF k = Len(indices) THEN <<"done", k, 0>> ELSE <<"look", k + 1, 0>>)

LoadFails(r) ==
  /\ Loading(r)
  /\ IF ~ Readable(at[r][2]) THEN Fail("unreadable")
     ELSE IsBlend(at[r][2]) /\ ~ LastSampleExists(at[r][2]) /\ Fail("index")

Began == [r \in DataRanks |-> <<"look", 1, 0>>]

DataCrash == Running /\ (\E r \in DataRanks : at[r][1] # "done") /\ Fail("crash")

DataRestart ==
  /\ ~ Running /\ failed' = "no"
  /\ at' = Began
  /\ UNCHANGED <<data, indices, files>>

InitData ==
  /\ data \in DataLaunches
  /\ indices = BuildOrder
  /\ files = [k \in 1 .. Len(indices) |-> [f \in Range(FilesOf(k)) |-> "absent"]]
  /\ at = Began
  /\ failed = "no"

NextData ==
  \/ \E r \in DataRanks :
       \/ LookUp(r) \/ Refuse(r) \/ OpenFile(r) \/ WriteFile(r) \/ DiskError(r)
       \/ ExitUnsuccessful(r) \/ Load(r) \/ LoadFails(r)
  \/ CountDataParallel
  \/ CountPipeline
  \/ DataCrash
  \/ DataRestart

SpecData == InitData /\ [][NextData]_data_vars

(***************************************************************************)
(* What the indices are for.                                               *)
(***************************************************************************)
Stream(c, index) ==
  FlattenSeq([k \in 1 .. Len(index.doc) |-> Get(c, index.doc[k], 0, Size(c, index.doc[k]))])

\* The samples are the consecutive pieces of the stream of documents, each
\* piece once, as many as are wanted, and the documents of an epoch once per
\* epoch.
PiecesOfStream(c, name) ==
  LET index == Index(c, name)
      n == NumItems(c, name)
      stream == Stream(c, index)
  IN  /\ n >= NumSamples(c, name)
      /\ EpochAssertions(NumTokens(c, Documents(c, name)), NumSamples(c, name))
      /\ ToSet(index.shuffle) = 0 .. n - 1 /\ Len(index.shuffle) = n
      /\ \A d \in ToSet(Documents(c, name)) :
           Len(SelectSeq(index.doc, LAMBDA x : x = d)) = Epochs(c, name)
      /\ \A i \in 0 .. n - 1 :
           GetItem(c, index, i) =
             SubSeq(stream, index.shuffle[i + 1] * SeqLength + 1,
                    (index.shuffle[i + 1] + 1) * SeqLength + 1)

\* A blend takes the samples of each dataset in turn and does not run out of
\* them as long as no more are taken than were wanted.
BlendLasts(name) ==
  LET blend == BlendIndex(data.wanted[name])
  IN  \A i \in DOMAIN blend :
        /\ blend[i][2] < NumItems(blend[i][1], name)
        /\ \A j \in 1 .. i - 1 : blend[j] # blend[i]

\* A process that has gone past an index has what these say; it got it from
\* complete files; and a write that was cut short makes later launches fail only
\* if it was that of the last file: before that they write all of them again.
SamplesAsPromised ==
  /\ \A r \in DataRanks : Running /\ at[r][1] = "done" =>
       /\ \A k \in 1 .. Len(Datasets) : PiecesOfStream(Datasets[k][1], Datasets[k][2])
       /\ \A k \in 1 .. Len(Blends) : BlendLasts(Blends[k][2])
  /\ \A r \in DataRanks, k \in 1 .. Len(indices) :
       (at[r][2] > k \/ at[r][1] = "done") /\ (~ IsBlend(k) \/ data.cached) =>
         \A f \in Range(FilesOf(k)) \ {"desc"} : files[k][f] = "whole"
  /\ \A k \in 1 .. Len(indices) :
       LET last == Len(FilesOf(k))
       IN  files[k][FilesOf(k)[last]] # "absent" =>
             \A i \in 1 .. last - 1 : files[k][FilesOf(k)[i]] = "whole"
================================================================================
