-------------------------------- MODULE Preprocessing --------------------------------
(***************************************************************************)
(* tools/preprocess_data.py and the mmap format of data/indexed_dataset.py:*)
(* a text file becomes a data file of tokens and an index of sentences and *)
(* documents, by processes that each take a partition, in launches that    *)
(* may be killed and that go by the files earlier ones have left.          *)
(*                                                                         *)
(* A document is the sequence of its sentences' numbers of tokens; a line  *)
(* of a file is the number of a document; a token is <<key, document, n>>. *)
(* Files grow line by line and document by document.                       *)
(***************************************************************************)
EXTENDS Integers, Sequences, SequencesExt, FiniteSetsExt

CONSTANT Preparations
  \* docs; keys: how many are extracted; partitions; sequential:
  \* --keep-sequential-samples; split: --split-sentences; eod: --append-eod;
  \* mmap: whether --dataset-impl is mmap; launches: bound on their number

VARIABLES prep,     \* one of Preparations
          launched, \* number of launches
          main,     \* where the main process is
          child,    \* of each partition: [at, n], n lines done
          folder,    \* [parts, splits, bins, idxs]
          merging,  \* the builder that merges: [key, part, built]
          died,     \* whether a child died: [now, ever]
          killed    \* whether a launch was killed

prep_vars == <<prep, launched, main, child, folder, merging, died, killed>>

Partitions == 1 .. prep.partitions
Output == IF prep.partitions = 1 THEN 1 ELSE 0
Keys == 1 .. prep.keys

NoFile == << >>
File(content) == <<content>>
Exists(f) == f # NoFile
Torn == 0                                        \* a line that was cut
TornIndex == [sizes |-> <<-1>>, doc_idx |-> <<0>>]

-----------------------------------------------------------------------------
(***************************************************************************)
(* Encoding, and MMapIndexedDatasetBuilder with its index.                 *)
(***************************************************************************)
Sum(s) == FoldLeft(LAMBDA x, y : x + y, 0, s)

\* Encoder.encode: the sizes of the sentences that have any tokens.
SentenceLens(n) ==
  LET sentences == IF prep.split THEN prep.docs[n] ELSE <<Sum(prep.docs[n])>>
      lens == SelectSeq(sentences, LAMBDA s : s > 0)
  IN  IF prep.eod /\ lens # << >> THEN [lens EXCEPT ![Len(lens)] = @ + 1] ELSE lens

DocIds(k, n) == [j \in 1 .. Sum(SentenceLens(n)) |-> <<k, n, j>>]

NewBuilder == [data |-> << >>, sizes |-> << >>, doc_idx |-> <<0>>]

AddDoc(b, k, n) ==
  [data |-> b.data \o DocIds(k, n), sizes |-> b.sizes \o SentenceLens(n),
   doc_idx |-> Append(b.doc_idx, Len(b.sizes) + Len(SentenceLens(n)))]

Built(k, lines) == FoldLeft(LAMBDA b, n : AddDoc(b, k, n), NewBuilder, lines)

IndexOf(b) == [sizes |-> b.sizes, doc_idx |-> b.doc_idx]

\* merge_file_: sizes and document ends, moved by what is there, and the data.
MergeFile_Unmoved(b, index, data) ==  \* mutant: document ends as they are in the file
  [data |-> b.data \o data, sizes |-> b.sizes \o index.sizes,
   doc_idx |-> b.doc_idx \o Tail(index.doc_idx)]

MergeFile(b, index, data) ==
  [data |-> b.data \o data, sizes |-> b.sizes \o index.sizes,
   doc_idx |-> b.doc_idx \o [d \in 1 .. Len(index.doc_idx) - 1 |->
                               Len(b.sizes) + index.doc_idx[d + 1]]]

Readable(f) == Exists(f) /\ f[1] # TornIndex

\* A sentence of a dataset, at its pointer: the sum of the sizes before it.
Sentence(index, data, s) ==
  LET pointer == Sum(SubSeq(index.sizes, 1, s - 1))
  IN  [j \in 1 .. index.sizes[s] |->
         IF pointer + j <= Len(data) THEN data[pointer + j] ELSE << >>]

DatasetDocuments(index, data) ==
  [d \in 1 .. Len(index.doc_idx) - 1 |->
     [s \in 1 .. index.doc_idx[d + 1] - index.doc_idx[d] |->
        Sentence(index, data, index.doc_idx[d] + s)]]

-----------------------------------------------------------------------------
(***************************************************************************)
(* The main process.                                                       *)
(***************************************************************************)
AllExist(fs) == \A i \in Partitions : Exists(fs[i])  \* check_files_exist

NoChildren == [i \in Partitions |-> [at |-> "none", n |-> 0]]
Spawned(what) == [i \in Partitions |-> [at |-> what, n |-> 0]]
Idle == main \in {"down", "ended", "raised"}

\* From the sentences on, main looks for the split files again.
Sentences ==
  /\ main = "sentences"
  /\ LET what == IF prep.split /\ ~ AllExist(folder.splits) THEN "split" ELSE "encode"
     IN  main' = what /\ child' = Spawned(what)
  /\ UNCHANGED <<prep, launched, folder, merging, died, killed>>

Launch ==
  /\ Idle /\ launched < prep.launches
  /\ launched' = launched + 1
  /\ died' = [died EXCEPT !.now = FALSE]
  /\ LET populate == prep.partitions > 1 /\ ~ AllExist(folder.parts) /\ ~ AllExist(folder.splits)
     IN  /\ main' = IF populate THEN "partition" ELSE "sentences"
         /\ folder' = IF populate
                     THEN [folder EXCEPT !.parts = [i \in Partitions |-> File(<< >>)]]
                     ELSE folder
  /\ UNCHANGED <<prep, child, merging, killed>>

\* partition_size is that of the counted lines; or the lines go round.
PartitionOf(line) ==
  IF prep.sequential
  THEN (line - 1) \div ((Len(prep.docs) + prep.partitions - 1) \div prep.partitions) + 1
  ELSE ((line - 1) % prep.partitions) + 1

Written == Sum([i \in Partitions |-> Len(folder.parts[i][1])])

PartitionLine ==
  /\ main = "partition"
  /\ IF Written < Len(prep.docs)
     THEN /\ folder' = [folder EXCEPT !.parts[PartitionOf(Written + 1)][1] = Append(@, Written + 1)]
          /\ UNCHANGED main
     ELSE main' = "sentences" /\ UNCHANGED folder
  /\ UNCHANGED <<prep, launched, child, merging, died, killed>>

\* join does not look how a child ended.
Joined(what) == main = what /\ \A i \in Partitions : child[i].at \in {"done", "dead"}

JoinSplit ==
  /\ Joined("split")
  /\ IF prep.partitions = 1 THEN main' = "ended" /\ child' = NoChildren
     ELSE main' = "encode" /\ child' = Spawned("encode")
  /\ UNCHANGED <<prep, launched, folder, merging, died, killed>>

JoinEncode ==
  /\ Joined("encode")
  /\ child' = NoChildren
  /\ main' = IF prep.partitions = 1 THEN "ended" ELSE "merge"
  /\ merging' = [key |-> 0, part |-> prep.partitions, built |-> NewBuilder]
  /\ UNCHANGED <<prep, launched, folder, died, killed>>

\* The next key: its data file is opened, which empties it.
OpenOutput ==
  /\ main = "merge" /\ merging.part = prep.partitions
  /\ merging.key < prep.keys
  /\ merging.key > 0 => Readable(folder.idxs[<<0, merging.key>>])
  /\ merging' = [key |-> merging.key + 1, part |-> 0, built |-> NewBuilder]
  /\ folder' = [folder EXCEPT !.bins[<<0, merging.key + 1>>] = File(<< >>)]
  /\ UNCHANGED <<prep, launched, main, child, died, killed>>

\* A partition, whose index must be there; its data goes straight to the file.
MergePart ==
  LET k == merging.key
      i == merging.part + 1
  IN  /\ main = "merge" /\ merging.part < prep.partitions
      /\ IF ~ Readable(folder.idxs[<<i, k>>])
         THEN main' = "raised" /\ UNCHANGED <<merging, folder>>
         ELSE LET b == MergeFile(merging.built, folder.idxs[<<i, k>>][1], folder.bins[<<i, k>>][1])
              IN  /\ merging' = [key |-> k, part |-> i, built |-> b]
                  /\ folder' = [folder EXCEPT !.bins[<<0, k>>] = File(b.data),
                                            !.idxs[<<0, k>>] = IF i = prep.partitions
                                                               THEN File(TornIndex) ELSE @]
                  /\ UNCHANGED main
      /\ UNCHANGED <<prep, launched, child, died, killed>>

\* finalize has opened the index behind the last partition, and writes it.
WriteOutput ==
  LET k == merging.key
  IN  /\ main = "merge" /\ merging.part = prep.partitions /\ k > 0
      /\ ~ Readable(folder.idxs[<<0, k>>])
      /\ folder' = [folder EXCEPT !.idxs[<<0, k>>] = File(IndexOf(merging.built))]
      /\ main' = IF k = prep.keys THEN "ended" ELSE main
      /\ UNCHANGED <<prep, launched, child, merging, died, killed>>

(***************************************************************************)
(* The children.                                                           *)
(***************************************************************************)
Source(what, i) == IF what = "encode" /\ prep.split THEN folder.splits[i] ELSE folder.parts[i]

Die(i) ==
  /\ child' = [child EXCEPT ![i].at = "dead"]
  /\ died' = [now |-> TRUE, ever |-> TRUE]
  /\ UNCHANGED <<prep, launched, main, folder, merging, killed>>

\* The input is opened first, then the output, which empties it.
StartChild(i) ==
  /\ child[i].at = main
  /\ IF ~ Exists(Source(main, i)) THEN Die(i)
     ELSE /\ child' = [child EXCEPT ![i].at = "works"]
          /\ folder' = IF main = "split" THEN [folder EXCEPT !.splits[i] = File(<< >>)]
                      ELSE [folder EXCEPT !.bins = [f \in DOMAIN @ |->
                              IF f[1] = i THEN File(<< >>) ELSE @[f]]]
          /\ UNCHANGED <<prep, launched, main, merging, died, killed>>

LineOf(i) == Source(main, i)[1][child[i].n + 1]

\* A line; the pool hands back the documents in the order of the lines.  A
\* line that is cut is no JSON, and only the mmap builder has add_doc.
DoLine(i) ==
  /\ child[i].at = "works" /\ child[i].n < Len(Source(main, i)[1])
  /\ IF LineOf(i) = Torn \/ (main = "encode" /\ ~ prep.mmap) THEN Die(i)
     ELSE /\ child' = [child EXCEPT ![i].n = @ + 1]
          /\ folder' = IF main = "split" THEN [folder EXCEPT !.splits[i][1] = Append(@, LineOf(i))]
                      ELSE [folder EXCEPT !.bins = [f \in DOMAIN @ |->
                              IF f[1] = i THEN File(@[f][1] \o DocIds(f[2], LineOf(i))) ELSE @[f]]]
          /\ UNCHANGED <<prep, launched, main, merging, died, killed>>

Through(i) == child[i].at = "works" /\ child[i].n = Len(Source(main, i)[1])

CloseSplit(i) ==
  /\ main = "split" /\ Through(i)
  /\ child' = [child EXCEPT ![i].at = "done"]
  /\ UNCHANGED <<prep, launched, main, folder, merging, died, killed>>

\* builders[key].finalize behind the loop: key is the last one.
FinalizedKey == prep.keys

OpenIndex(i) ==
  /\ main = "encode" /\ Through(i)
  /\ child' = [child EXCEPT ![i].at = "index"]
  /\ folder' = [folder EXCEPT !.idxs[<<i, FinalizedKey>>] = File(TornIndex)]
  /\ UNCHANGED <<prep, launched, main, merging, died, killed>>

WriteIndex(i) ==
  /\ child[i].at = "index"
  /\ child' = [child EXCEPT ![i].at = "done"]
  /\ folder' = [folder EXCEPT !.idxs[<<i, FinalizedKey>>] =
                 File(IndexOf(Built(FinalizedKey, Source(main, i)[1])))]
  /\ UNCHANGED <<prep, launched, main, merging, died, killed>>

\* A child alone dies; the file it wrote keeps what had reached it.
Cut(lines) ==
  UNION {{SubSeq(lines, 1, n), Append(SubSeq(lines, 1, n), Torn)} : n \in 0 .. Len(lines) - 1}
    \cup {lines}

ChildDies(i) ==
  /\ child[i].at \in {"works", "index"} /\ ~ died.ever
  /\ child' = [child EXCEPT ![i].at = "dead"]
  /\ died' = [now |-> TRUE, ever |-> TRUE]
  /\ IF main = "split"
     THEN \E rest \in Cut(folder.splits[i][1]) : folder' = [folder EXCEPT !.splits[i] = File(rest)]
     ELSE UNCHANGED folder
  /\ UNCHANGED <<prep, launched, main, merging, killed>>

\* The launch is killed: every text file that is open keeps what had reached it.
CutAll(fs, open) ==
  {g \in [Partitions -> UNION {{fs[i]} : i \in Partitions} \cup
            UNION {{File(rest) : rest \in Cut(fs[i][1])} : i \in open}] :
     \A i \in Partitions : IF i \in open THEN \E rest \in Cut(fs[i][1]) : g[i] = File(rest)
                                         ELSE g[i] = fs[i]}

KillLaunch ==
  /\ ~ Idle /\ ~ killed
  /\ \E parts \in CutAll(folder.parts, IF main = "partition" THEN Partitions ELSE {}),
        splits \in CutAll(folder.splits,
                     {i \in Partitions : main = "split" /\ child[i].at = "works"}) :
       folder' = [folder EXCEPT !.parts = parts, !.splits = splits]
  /\ main' = "down" /\ child' = NoChildren /\ killed' = TRUE
  /\ UNCHANGED <<prep, launched, merging, died>>

-----------------------------------------------------------------------------
InitPreprocessing ==
  /\ prep \in Preparations
  /\ launched = 0
  /\ main = "down"
  /\ child = [i \in 1 .. prep.partitions |-> [at |-> "none", n |-> 0]]
  /\ LET outputs == (0 .. prep.partitions) \X (1 .. prep.keys)
     IN  folder = [parts |-> [i \in 1 .. prep.partitions |->
                               IF prep.partitions = 1 THEN File([n \in 1 .. Len(prep.docs) |-> n])
                               ELSE NoFile],
                  splits |-> [i \in 1 .. prep.partitions |-> NoFile],
                  bins |-> [f \in outputs |-> NoFile], idxs |-> [f \in outputs |-> NoFile]]
  /\ merging = [key |-> 0, part |-> 0, built |-> NewBuilder]
  /\ died = [now |-> FALSE, ever |-> FALSE]
  /\ killed = FALSE

NextPreprocessing ==
  \/ Launch \/ PartitionLine \/ Sentences \/ JoinSplit \/ JoinEncode
  \/ OpenOutput \/ MergePart \/ WriteOutput \/ KillLaunch
  \/ \E i \in Partitions :
       \/ StartChild(i) \/ DoLine(i) \/ CloseSplit(i) \/ OpenIndex(i) \/ WriteIndex(i)
       \/ ChildDies(i)

SpecPreprocessing == InitPreprocessing /\ [][NextPreprocessing]_prep_vars

-----------------------------------------------------------------------------
(***************************************************************************)
(* Properties.                                                             *)
(***************************************************************************)
Wanted(i) == SelectSeq([n \in 1 .. Len(prep.docs) |-> n],
                       LAMBDA n : prep.partitions = 1 \/ PartitionOf(n) = i)

\* The documents of some lines, sentence by sentence, as they ought to be read.
Document(n) ==
  LET lens == SentenceLens(n)
  IN  [s \in 1 .. Len(lens) |->
         [j \in 1 .. lens[s] |-> <<FinalizedKey, n, Sum(SubSeq(lens, 1, s - 1)) + j>>]]

Sources == FlattenSeq([i \in Partitions |-> Source("encode", i)[1]])
OutputIndex(k) == folder.idxs[<<Output, k>>]
OutputDocuments ==
  DatasetDocuments(OutputIndex(FinalizedKey)[1], folder.bins[<<Output, FinalizedKey>>][1])

\* A launch that ends without the death of a child has made, of the lines in
\* the partitions, a dataset of these documents, in order and sentence by
\* sentence, whatever earlier launches had left; if nothing was ever killed
\* the lines are all, it needs one launch, or two to split a single partition,
\* and it raises only for several keys in several partitions.  Lines that are
\* lost, because a later launch takes the cut files of an earlier one, are the
\* last ones of a partition.  No key but the last gets an index.
PreparedAsWritten ==
  /\ main = "ended" /\ ~ died.now /\ Readable(OutputIndex(FinalizedKey)) =>
       OutputDocuments = [d \in 1 .. Len(Sources) |-> Document(Sources[d])]
  /\ main = "ended" /\ ~ died.ever /\ ~ killed =>
       /\ \A i \in Partitions : Source("encode", i) = File(Wanted(i))
       /\ Readable(OutputIndex(FinalizedKey)) \/ (launched = 1 /\ prep.split /\ prep.partitions = 1)
  /\ main = "raised" /\ ~ died.ever /\ ~ killed => prep.keys > 1 /\ prep.partitions > 1
  /\ \A i \in Partitions : \A f \in {folder.parts[i], folder.splits[i]} :
       Exists(f) => \/ IsPrefix(f[1], Wanted(i))
                    \/ IsPrefix(Front(f[1]), Wanted(i)) /\ Last(f[1]) = Torn
  /\ \A f \in DOMAIN folder.idxs : Readable(folder.idxs[f]) => f[2] = FinalizedKey
======================================================================================
