------------------------------ MODULE RetrievalDatabase ------------------------------
(***************************************************************************)
(* tools/retro with bert_embedding/utils.py: the task "build", which makes *)
(* of the documents of several corpora a database of chunks, trains and    *)
(* fills an index of their embeddings, and saves the neighbours of the     *)
(* chunks that a model is pretrained on.  The ranks divide each step into  *)
(* blocks, one file each; a launch does what is missing, going by the      *)
(* files that earlier launches, which may have been killed, have left.     *)
(*                                                                         *)
(* A chunk is <<corpus, document, start, end>>.  It stands for its text,   *)
(* its embedding and its code.                                             *)
(***************************************************************************)
EXTENDS Integers, Sequences, SequencesExt, FiniteSetsExt

CONSTANT RetroJobs
  \* corpora: documents [len, eod], by corpus; ratios; blank: chunks without
  \* BERT tokens; chunk, doc_block, block: --retro-gpt-chunk-length,
  \* -doc-block-size and -block-size; train: first number of --split; ntrain;
  \* train_load, add_load: percent; parallel: faiss-par-add; delete_embeddings,
  \* delete_codes; samples [corpus, docs], by dataset, of sample_chunks chunks
  \* each; query, save: numbers of neighbours; ranks; procs: numbers of
  \* processes for few, some and many missing blocks (128 to 8 in the code);
  \* launches, kills: bounds

VARIABLES job,    \* one of RetroJobs
          worker, \* [at, dir, todo, missing] of each rank, << >> between launches
          disk,   \* [blocks, infos, merged, bin, empty, added]
          tally,  \* [launches, kills, cut]: cut if a kill hit the merged embeddings
          past    \* how the last launch ended

retro_vars == <<job, worker, disk, tally, past>>

Ceil(a, b) == (a + b - 1) \div b
Ranks == 0 .. job.ranks - 1
Corpora == 1 .. Len(job.corpora)
Sum(s) == FoldLeft(LAMBDA x, y : x + y, 0, s)

-----------------------------------------------------------------------------
(***************************************************************************)
(* Files.  Of an HDF5 file that was open when its writer died either       *)
(* nothing can be opened, or has < all of its datasets are there.          *)
(***************************************************************************)
NoFile == [kind |-> "none", data |-> << >>, has |-> 0]
Broken == [kind |-> "broken", data |-> << >>, has |-> 0]
Opened(data) == [kind |-> "open", data |-> data, has |-> 0]
Whole(data, n) == [kind |-> "whole", data |-> data, has |-> n]
Exists(f) == f.kind # "none"

DbDir(c) == <<"db", c>>
EmbDir == <<"emb", 1>>
CodesDir == <<"codes", 1>>
NearDir(d) == <<"near", d>>

\* Datasets in a block's file, and how many of them validate asks for.
SetsIn(dir) == IF dir[1] = "db" THEN 3 ELSE 1

-----------------------------------------------------------------------------
(***************************************************************************)
(* The database of chunks.                                                 *)
(***************************************************************************)
DocLen(c, d) == job.corpora[c][d].len - (IF job.corpora[c][d].eod THEN 1 ELSE 0)

ChunksOf(c, d) ==
  [i \in 1 .. Ceil(DocLen(c, d), job.chunk) |->
     <<c, d, (i - 1) * job.chunk, Min({DocLen(c, d), i * job.chunk})>>]

ValidChunks(c, d) == SelectSeq(ChunksOf(c, d), LAMBDA x : x \notin job.blank)

\* The documents first + 1 .. last of a block, divided over processes.
DocsOf(first, last, procs) ==
  LET each == Ceil(last - first, procs)
  IN  FlattenSeq([p \in 1 .. procs |->
        LET start == first + (p - 1) * each
            end == Min({last, start + each})
        IN  [i \in 1 .. Max({0, end - start}) |-> start + i]])

Procs(missing) == job.procs[IF missing = 1 THEN 1 ELSE IF missing <= 2 THEN 2 ELSE 3]

\* Chunks, and for each document the number of the block's chunks up to its end.
DbBlock(c, first, last, procs) ==
  LET docs == DocsOf(first, last, procs)
      sizes == [i \in 1 .. Len(docs) |-> Len(ValidChunks(c, docs[i]))]
  IN  [valid |-> FlattenSeq([i \in 1 .. Len(docs) |-> ValidChunks(c, docs[i])]),
       offsets |-> [i \in 1 .. Len(docs) |-> <<docs[i], Sum(SubSeq(sizes, 1, i))>>]]

-----------------------------------------------------------------------------
(***************************************************************************)
(* get_missing_blocks: what a directory is to hold.                        *)
(***************************************************************************)
DatasetOf(dir) ==
  IF dir[1] = "emb" THEN disk.merged["sampled"].data.chunks ELSE disk.merged["train"].data.chunks

SampleChunks(d) == Len(job.samples[d]) * job.sample_chunks

SizeOf(dir) ==
  IF dir[1] = "db" THEN Len(job.corpora[dir[2]])
  ELSE IF dir[1] = "near" THEN SampleChunks(dir[2])
  ELSE Len(DatasetOf(dir))

BlockSize(dir) == IF dir[1] = "db" THEN job.doc_block ELSE job.block
NumBlocks(dir) == Ceil(SizeOf(dir), BlockSize(dir))
First(dir, i) == (i - 1) * BlockSize(dir)
EndOf(dir, i) == Min({SizeOf(dir), i * BlockSize(dir)})

Block(dir, i) == IF <<dir, i>> \in DOMAIN disk.blocks THEN disk.blocks[<<dir, i>>] ELSE NoFile
BlocksIn(dir) == {b \in DOMAIN disk.blocks : b[1] = dir}
Corrupt(b) == disk.blocks[b].kind = "broken" \/ disk.blocks[b].has = 0
Missing(dir) == SelectSeq([i \in 1 .. NumBlocks(dir) |-> i], LAMBDA i : ~ Exists(Block(dir, i)))

\* missing_blocks[rank : len : ranks]
Slice(s, r) == [i \in 1 .. Ceil(Len(s) - r, job.ranks) |-> s[r + 1 + (i - 1) * job.ranks]]

-----------------------------------------------------------------------------
(***************************************************************************)
(* The index and the neighbours.                                           *)
(***************************************************************************)
Loaded(data, percent) == SubSeq(data, 1, (percent * Len(data)) \div 100)

\* add_codes: every vector under the number of its chunk.
IndexOfBlocks_FromZero(dir) ==  \* mutant: numbers count from zero in each block
  UNION {LET codes == Loaded(disk.blocks[b].data, job.add_load)
         IN  {<<i - 1, codes[i]>> : i \in 1 .. Len(codes)} : b \in BlocksIn(dir)}

IndexOfBlocks(dir) ==
  UNION {LET codes == Loaded(disk.blocks[b].data, job.add_load)
         IN  {<<First(dir, b[2]) + i - 1, codes[i]>> : i \in 1 .. Len(codes)} : b \in BlocksIn(dir)}

\* FaissBaseIndex._add: one range after the other, numbered as they come.
IndexOfAll(chunks) == {<<i - 1, chunks[i]>> : i \in 1 .. Len(chunks)}

\* index.search: any order of the vectors would do, this one depends on the chunk.
Search(vectors, q) ==
  LET ids == SetToSortSeq({v[1] : v \in vectors}, <)
      n == Len(ids)
  IN  [i \in 1 .. job.query |-> IF i <= n THEN ids[((q + i - 1) % n) + 1] ELSE -1]

\* query_embeddings: without the chunks of the sample's documents.
Neighbours(vectors, db, sample, q) ==
  LET found == SelectSeq(Search(vectors, q), LAMBDA i : i >= 0)
      kept == SelectSeq(found, LAMBDA i : ~ (db[i + 1][1] = sample.corpus /\ db[i + 1][2] \in sample.docs))
      row == SubSeq(kept, 1, Min({Len(kept), job.save}))
  IN  row \o [i \in 1 .. job.save - Len(row) |-> -1]

SampleOf(d, q) == job.samples[d][q \div job.sample_chunks + 1]

\* What the file of block i gets.
Content(r, dir, i) ==
  IF dir[1] = "db" THEN DbBlock(dir[2], First(dir, i), EndOf(dir, i), Procs(worker[r].missing))
  ELSE IF dir[1] = "near"
  THEN [j \in 1 .. EndOf(dir, i) - First(dir, i) |->
          LET q == First(dir, i) + j - 1
          IN  Neighbours(disk.added.data, DatasetOf(dir), SampleOf(dir[2], q), q)]
  ELSE SubSeq(DatasetOf(dir), First(dir, i) + 1, EndOf(dir, i))

-----------------------------------------------------------------------------
(***************************************************************************)
(* A launch.                                                               *)
(***************************************************************************)
At(place) == [at |-> place, dir |-> <<"none", 0>>, todo |-> << >>, missing |-> 0]

\* A rank comes to a directory; only rank 0 looks for corrupt files.
Enter(r, dir) ==
  [at |-> IF r = 0 THEN "clean" ELSE "cleaned", dir |-> dir, todo |-> << >>, missing |-> 0]

\* Where a rank goes when it is through with a directory.
Leave(r, dir) ==
  CASE dir[1] = "db" /\ dir[2] < Len(job.corpora) -> Enter(r, DbDir(dir[2] + 1))
    [] dir[1] = "db" /\ dir[2] = Len(job.corpora) -> At(IF r = 0 THEN "infos" ELSE "built")
    [] dir[1] = "emb" -> At(IF r = 0 THEN "bin" ELSE "trained")
    [] dir[1] = "codes" -> At(IF r = 0 THEN "adding" ELSE "added")
    [] dir[1] = "near" /\ dir[2] < Len(job.samples) -> Enter(r, NearDir(dir[2] + 1))
    [] dir[1] = "near" /\ dir[2] = Len(job.samples) -> At("over")

Proceed(r, s) == IF s.todo = << >> THEN Leave(r, s.dir) ELSE [s EXCEPT !.at = "work"]

Runs == worker # << >>

Launch ==
  /\ ~ Runs /\ tally.launches < job.launches
  /\ tally' = [tally EXCEPT !.launches = @ + 1]
  /\ worker' = [r \in Ranks |-> Enter(r, DbDir(1))]
  /\ past' = "none"
  /\ UNCHANGED <<job, disk>>

EndLaunch(how) == worker' = << >> /\ past' = how /\ UNCHANGED <<job, disk, tally>>

Set(r, s) == worker' = [worker EXCEPT ![r] = s]
Keep == UNCHANGED <<job, tally, past>>

\* Barriers and all-reduces, which match by call order.
Collectives == {"cleaned", "listed", "clear", "round", "built", "trained", "through",
                "remove", "added", "indexed", "over"}
Label(r) == <<worker[r].at, worker[r].dir>>
LongestTodo == Max({Len(worker[r].todo) : r \in Ranks})

\* Where a rank goes behind a collective.
Behind(r) ==
  LET s == worker[r]
  IN  CASE s.at = "cleaned" -> [s EXCEPT !.at = "list"]
        [] s.at = "listed" ->
             LET padded == [s EXCEPT !.todo = @ \o [i \in 1 .. LongestTodo - Len(@) |-> 0]]
             IN  IF s.dir[1] \in {"db", "emb"} THEN [padded EXCEPT !.at = "clear"]
                 ELSE Proceed(r, padded)
        [] s.at = "clear" -> Proceed(r, s)
        [] s.at = "round" -> Proceed(r, [s EXCEPT !.todo = Tail(@)])
        [] s.at = "built" -> At("look")
        [] s.at = "trained" -> At("through")
        [] s.at = "through" -> At(IF job.delete_embeddings THEN "remove" ELSE "add")
        [] s.at = "remove" -> At(IF r = 0 THEN "removing" ELSE "add")
        [] s.at = "added" -> At(IF r = 0 /\ job.parallel THEN "remove codes" ELSE "indexed")
        [] s.at = "indexed" -> At("query")
        [] s.at = "over" -> At("end")

Collective ==
  /\ Runs /\ \A r \in Ranks : worker[r].at \in Collectives
  /\ IF \E r \in Ranks : Label(r) # Label(0) THEN EndLaunch("skewed")
     ELSE /\ worker' = [r \in Ranks |-> Behind(r)]
          /\ UNCHANGED <<job, disk, tally, past>>

(***************************************************************************)
(* A directory of blocks.                                                  *)
(***************************************************************************)
Without(files) == [b \in DOMAIN disk.blocks \ files |-> disk.blocks[b]]

CleanBlocks ==
  /\ Runs /\ worker[0].at = "clean"
  /\ disk' = [disk EXCEPT !.blocks = Without({b \in BlocksIn(worker[0].dir) : Corrupt(b)})]
  /\ Set(0, [worker[0] EXCEPT !.at = "cleaned"])
  /\ Keep

ListBlocks(r) ==
  /\ Runs /\ worker[r].at = "list"
  /\ LET missing == Missing(worker[r].dir)
     IN  Set(r, [worker[r] EXCEPT !.at = "listed", !.todo = Slice(missing, r), !.missing = Len(missing)])
  /\ UNCHANGED disk /\ Keep

WithBlock(dir, i, f) ==
  [disk EXCEPT !.blocks = [b \in DOMAIN @ \cup {<<dir, i>>} |-> IF b = <<dir, i>> THEN f ELSE @[b]]]

\* Nothing to do in this round, or the block is computed and its file opened.
OpenBlock(r) ==
  /\ Runs /\ worker[r].at = "work"
  /\ LET s == worker[r]
         i == Head(s.todo)
     IN  IF i = 0 THEN Set(r, [s EXCEPT !.at = "round"]) /\ UNCHANGED disk
         ELSE /\ disk' = WithBlock(s.dir, i, Opened(Content(r, s.dir, i)))
              /\ Set(r, [s EXCEPT !.at = "save"])
  /\ Keep

SaveBlock(r) ==
  /\ Runs /\ worker[r].at = "save"
  /\ LET s == worker[r]
         i == Head(s.todo)
     IN  /\ disk' = WithBlock(s.dir, i, Whole(Block(s.dir, i).data, SetsIn(s.dir)))
         /\ Set(r, [s EXCEPT !.at = "round"])
  /\ Keep

(***************************************************************************)
(* build_db, behind the blocks: rank 0.                                    *)
(***************************************************************************)
DbFiles(c) == [i \in 1 .. NumBlocks(DbDir(c)) |-> Block(DbDir(c), i)]

\* Every block's datasets are opened; an array of no chunks has no columns.
Uncountable ==
  \E c \in Corpora : \E i \in DOMAIN DbFiles(c) :
    LET f == DbFiles(c)[i] IN f.has < 2 \/ f.data.valid = << >>

NumDocsTrain(c) == (job.train * Len(job.corpora[c])) \div 100
IndividualDb(c) == FlattenSeq([i \in DOMAIN DbFiles(c) |-> DbFiles(c)[i].data.valid])

Infos ==
  [c \in Corpora |->
     [docs_train |-> NumDocsTrain(c),
      chunks |-> Len(IndividualDb(c)),
      train |-> Len(SelectSeq(IndividualDb(c), LAMBDA x : x[2] <= NumDocsTrain(c))),
      sampled |-> (job.ntrain * job.ratios[c]) \div Sum(job.ratios)]]

CountsRaise == Uncountable \/ \E c \in Corpora : Infos[c].sampled > Infos[c].train

OpenInfos ==
  /\ Runs /\ worker[0].at = "infos"
  /\ IF Exists(disk.infos)
     THEN IF disk.infos.kind = "broken" THEN EndLaunch("raised")
          ELSE Set(0, [At("merge") EXCEPT !.todo = <<"sampled", "train", "valid">>])
               /\ UNCHANGED disk /\ Keep
     ELSE IF CountsRaise THEN EndLaunch("raised")
     ELSE /\ disk' = [disk EXCEPT !.infos = Opened(Infos)]
          /\ Set(0, At("save infos"))
          /\ Keep

SaveInfos ==
  /\ Runs /\ worker[0].at = "save infos"
  /\ disk' = [disk EXCEPT !.infos.kind = "whole"]
  /\ Set(0, At("infos"))
  /\ Keep

\* The chunks that corpus c gives to a database, and how many all give.
Part(kind, c) ==
  LET info == disk.infos.data[c]
      db == IndividualDb(c)
  IN  IF kind = "sampled" THEN SubSeq(db, 1, info.sampled)
      ELSE IF kind = "train" THEN SubSeq(db, 1, info.train)
      ELSE SubSeq(db, info.train + 1, Len(db))

Allocated(kind) == Sum([c \in Corpora |-> Len(Part(kind, c))])

\* get_individual_doc_offsets: each block goes on where the last one ended.
IndividualOffsets(c) ==
  LET Before(i) == Sum([j \in 1 .. i - 1 |-> Last(DbFiles(c)[j].data.offsets)[2]])
  IN  FlattenSeq([i \in DOMAIN DbFiles(c) |->
        [d \in DOMAIN DbFiles(c)[i].data.offsets |->
           <<c, DbFiles(c)[i].data.offsets[d][1], DbFiles(c)[i].data.offsets[d][2] + Before(i)>>]])

TrainOffsets(c, start) ==
  [d \in 1 .. disk.infos.data[c].docs_train |->
     [IndividualOffsets(c)[d] EXCEPT ![3] = @ + start]]

\* A database that is there is kept if it says that all its chunks are written.
OpenMerged ==
  /\ Runs /\ worker[0].at = "merge"
  /\ LET todo == worker[0].todo
         f == disk.merged[Head(todo)]
     IN  IF todo = << >> THEN Set(0, At("built")) /\ UNCHANGED disk
         ELSE IF f.kind = "whole" /\ f.has = Allocated(Head(todo))
         THEN Set(0, [worker[0] EXCEPT !.todo = Tail(@)]) /\ UNCHANGED disk
         ELSE /\ disk' = [disk EXCEPT !.merged[Head(todo)] = Opened([chunks |-> << >>, offsets |-> << >>])]
              /\ Set(0, [worker[0] EXCEPT !.at = "merging", !.missing = 1])
  /\ Keep

\* One corpus: its chunks and the count, then, in "train", the offsets.
MergeChunks ==
  /\ Runs /\ worker[0].at = "merging"
  /\ LET kind == Head(worker[0].todo)
         c == worker[0].missing
     IN  IF kind = "train" /\ (NumDocsTrain(c) = 0 \/ \E i \in DOMAIN DbFiles(c) : DbFiles(c)[i].has < 3)
         THEN EndLaunch("raised")
         ELSE /\ disk' = [disk EXCEPT !.merged[kind].data.chunks = @ \o Part(kind, c),
                                      !.merged[kind].has = @ + Len(Part(kind, c))]
              /\ Set(0, [worker[0] EXCEPT !.at = "offsets"])
              /\ Keep

MergeOffsets ==
  /\ Runs /\ worker[0].at = "offsets"
  /\ LET kind == Head(worker[0].todo)
         c == worker[0].missing
         old == disk.merged[kind].data.offsets
         start == IF old = << >> THEN 0 ELSE Last(old)[3]
         last == c = Len(job.corpora)
     IN  /\ disk' = [disk EXCEPT !.merged[kind].data.offsets =
                                   IF kind = "train" THEN @ \o TrainOffsets(c, start) ELSE @,
                                 !.merged[kind].kind = IF last THEN "whole" ELSE @]
         /\ Set(0, IF last THEN [At("merge") EXCEPT !.todo = Tail(worker[0].todo)]
                   ELSE [worker[0] EXCEPT !.at = "merging", !.missing = c + 1])
  /\ Keep

(***************************************************************************)
(* build_index                                                             *)
(***************************************************************************)
\* train_index and embed_db: each rank looks for itself whether the index, and
\* the merged embeddings, are there.
LookForIndex(r) ==
  /\ Runs /\ worker[r].at = "look"
  /\ Set(r, IF Exists(disk.empty) THEN At("through")
            ELSE IF Exists(disk.bin) THEN At(IF r = 0 THEN "train" ELSE "trained")
            ELSE Enter(r, EmbDir))
  /\ UNCHANGED disk /\ Keep

\* merge_embedding_blocks: missing counts the blocks that are through.
MergeEmbeddings ==
  /\ Runs /\ worker[0].at = "bin"
  /\ LET i == worker[0].missing + 1
     IN  IF ~ Exists(disk.bin) THEN disk' = [disk EXCEPT !.bin = Opened(<< >>)] /\ UNCHANGED worker
         ELSE IF <<EmbDir, i>> \in DOMAIN disk.blocks
         THEN /\ disk' = [disk EXCEPT !.bin.data = @ \o Loaded(Block(EmbDir, i).data, job.train_load)]
              /\ Set(0, [worker[0] EXCEPT !.missing = i])
         ELSE disk' = [disk EXCEPT !.bin.kind = "whole"] /\ Set(0, At("train"))
  /\ Keep

\* The index is trained on what the file holds, which must be rows, and some.
TrainIndex ==
  /\ Runs /\ worker[0].at = "train"
  /\ IF disk.bin.kind = "broken" \/ disk.bin.data = << >> THEN EndLaunch("raised")
     ELSE /\ disk' = [disk EXCEPT !.empty = Opened(disk.bin.data)]
          /\ Set(0, At("save index"))
          /\ Keep

SaveIndex ==
  /\ Runs /\ worker[0].at = "save index"
  /\ disk' = [disk EXCEPT !.empty.kind = "whole"]
  /\ Set(0, At("trained"))
  /\ Keep

RemoveEmbeddings ==
  /\ Runs /\ worker[0].at = "removing"
  /\ disk' = [disk EXCEPT !.blocks = Without(BlocksIn(EmbDir)), !.bin = NoFile]
  /\ Set(0, At("add"))
  /\ Keep

\* add: every rank encodes with the trained index; in faiss-base rank 0 is alone.
BeginAdd(r) ==
  /\ Runs /\ worker[r].at = "add"
  /\ IF job.parallel
     THEN IF disk.empty.kind = "broken" THEN EndLaunch("raised")
          ELSE Set(r, Enter(r, CodesDir)) /\ UNCHANGED disk /\ Keep
     ELSE Set(r, At(IF r = 0 THEN "adding" ELSE "added")) /\ UNCHANGED disk /\ Keep

\* add_codes, or _add
AddToIndex ==
  /\ Runs /\ worker[0].at = "adding"
  /\ IF Exists(disk.added) THEN Set(0, At("added")) /\ UNCHANGED disk /\ Keep
     ELSE IF disk.empty.kind = "broken" THEN EndLaunch("raised")
     ELSE /\ disk' = [disk EXCEPT !.added = Opened(IF job.parallel THEN IndexOfBlocks(CodesDir)
                                                    ELSE IndexOfAll(DatasetOf(CodesDir)))]
          /\ Set(0, At("save added"))
          /\ Keep

SaveAdded ==
  /\ Runs /\ worker[0].at = "save added"
  /\ disk' = [disk EXCEPT !.added.kind = "whole"]
  /\ Set(0, At("added"))
  /\ Keep

RemoveCodes ==
  /\ Runs /\ worker[0].at = "remove codes"
  /\ IF job.delete_codes THEN EndLaunch("raised")
     ELSE Set(0, At("indexed")) /\ UNCHANGED disk /\ Keep

(***************************************************************************)
(* query_pretraining_neighbors, and the end.                               *)
(***************************************************************************)
BeginQuery(r) ==
  /\ Runs /\ worker[r].at = "query"
  /\ IF disk.added.kind = "broken" THEN EndLaunch("raised")
     ELSE Set(r, Enter(r, NearDir(1))) /\ UNCHANGED disk /\ Keep

Finish == Runs /\ (\A r \in Ranks : worker[r].at = "end") /\ EndLaunch("done")

\* What a death leaves of an open file: with n < 0 it cannot be opened.
LeftOf(f, n) ==
  IF f.kind # "open" THEN f ELSE IF n < 0 THEN Broken ELSE [f EXCEPT !.kind = "whole"]
LeftOfBlock(f, n) == IF f.kind = "open" /\ n >= 0 THEN Whole(f.data, n) ELSE LeftOf(f, n)
LeftOfBin(f, n) ==
  IF f.kind = "open" /\ n >= 0 THEN Whole(SubSeq(f.data, 1, n), 0) ELSE LeftOf(f, n)

OpenBlocks == {b \in DOMAIN disk.blocks : disk.blocks[b].kind = "open"}
FilesOpen(k) == IF k.kind = "open" THEN {-1, 0} ELSE {0}

\* An index, or the infos, are useless until they are complete.
Kill ==
  /\ Runs /\ tally.kills < job.kills
  /\ \E n \in -1 .. (IF disk.bin.kind = "open" THEN Len(disk.bin.data) ELSE -1),
        has \in [OpenBlocks -> -1 .. 2],
        m \in UNION {FilesOpen(disk.merged[k]) : k \in DOMAIN disk.merged} :
       /\ \A b \in OpenBlocks : has[b] < SetsIn(b[1])
       /\ disk' = [blocks |-> [b \in DOMAIN disk.blocks |->
                                LeftOfBlock(disk.blocks[b], IF b \in OpenBlocks THEN has[b] ELSE 0)],
                   infos |-> LeftOf(disk.infos, -1),
                   merged |-> [k \in DOMAIN disk.merged |-> LeftOf(disk.merged[k], m)],
                   bin |-> LeftOfBin(disk.bin, n),
                   empty |-> LeftOf(disk.empty, -1), added |-> LeftOf(disk.added, -1)]
  /\ tally' = [tally EXCEPT !.kills = @ + 1, !.cut = @ \/ disk.bin.kind = "open"]
  /\ worker' = << >> /\ past' = "killed"
  /\ UNCHANGED job

-----------------------------------------------------------------------------
InitRetro ==
  /\ job \in RetroJobs
  /\ worker = << >>
  /\ disk = [blocks |-> << >>, infos |-> NoFile,
             merged |-> [k \in {"sampled", "train", "valid"} |-> NoFile],
             bin |-> NoFile, empty |-> NoFile, added |-> NoFile]
  /\ tally = [launches |-> 0, kills |-> 0, cut |-> FALSE]
  /\ past = "none"

NextRetro ==
  \/ Launch \/ Kill \/ Collective \/ CleanBlocks \/ OpenInfos \/ SaveInfos
  \/ OpenMerged \/ MergeChunks \/ MergeOffsets
  \/ MergeEmbeddings \/ TrainIndex \/ SaveIndex \/ RemoveEmbeddings
  \/ AddToIndex \/ SaveAdded \/ RemoveCodes \/ Finish
  \/ Runs /\ \E r \in Ranks :
       \/ ListBlocks(r) \/ OpenBlock(r) \/ SaveBlock(r)
       \/ LookForIndex(r) \/ BeginAdd(r) \/ BeginQuery(r)

SpecRetro == InitRetro /\ [][NextRetro]_retro_vars

-----------------------------------------------------------------------------
(***************************************************************************)
(* RetroDataset: the model is pretrained with the neighbours on disk.      *)
(***************************************************************************)
\* get_retro_datasets compares the largest end of a file with the chunks.
Verified(d) ==
  Max({0} \cup {EndOf(NearDir(d), b[2]) : b \in BlocksIn(NearDir(d))}) = SampleChunks(d)

\* BlockPathMap, and the row of the chunk in its block.
RowOf(d, q) == Block(NearDir(d), q \div job.block + 1).data[(q % job.block) + 1]

-----------------------------------------------------------------------------
(***************************************************************************)
(* Properties.                                                             *)
(***************************************************************************)
\* The same without blocks, ranks, files and launches.
AllChunks(c) == FlattenSeq([d \in 1 .. Len(job.corpora[c]) |-> ValidChunks(c, d)])
TrainChunks(c) == SelectSeq(AllChunks(c), LAMBDA x : x[2] <= NumDocsTrain(c))
Share(c) == SubSeq(AllChunks(c), 1, (job.ntrain * job.ratios[c]) \div Sum(job.ratios))
TrainDb == FlattenSeq([c \in Corpora |-> TrainChunks(c)])
SampledDb == FlattenSeq([c \in Corpora |-> Share(c)])
ValidDb ==
  FlattenSeq([c \in Corpora |-> SubSeq(AllChunks(c), Len(TrainChunks(c)) + 1, Len(AllChunks(c)))])

\* Of a sequence in blocks, the loaded beginning of each block.
LoadedOf(data, percent) ==
  {i \in 1 .. Len(data) :
     LET first == ((i - 1) \div job.block) * job.block
         size == Min({job.block, Len(data) - first})
     IN  i - first <= (percent * size) \div 100}

\* Chunks of the training documents up to and with one of them.
ChunksUpTo(c, d) == Cardinality({i \in 1 .. Len(TrainDb) :
                      TrainDb[i][1] < c \/ (TrainDb[i][1] = c /\ TrainDb[i][2] <= d)})

OffsetsRight ==
  LET offsets == disk.merged["train"].data.offsets
  IN  /\ Len(offsets) = Sum([c \in Corpora |-> NumDocsTrain(c)])
      /\ \A o \in Range(offsets) : o[3] = ChunksUpTo(o[1], o[2])

DatabasesRight ==
  /\ disk.merged["sampled"].data.chunks = SampledDb
  /\ disk.merged["train"].data.chunks = TrainDb
  /\ disk.merged["valid"].data.chunks = ValidDb
  /\ OffsetsRight \/ tally.kills > 0

\* The index was trained on the loaded embeddings of the sample, and numbers
\* the loaded chunks of the training documents as the database does.
IndexRight ==
  /\ LET loaded == SetToSortSeq(LoadedOf(SampledDb, job.train_load), <)
     IN  disk.empty.data = [i \in DOMAIN loaded |-> SampledDb[loaded[i]]] \/ tally.cut
  /\ disk.added.data =
       {<<i - 1, TrainDb[i]>> : i \in IF job.parallel THEN LoadedOf(TrainDb, job.add_load)
                                      ELSE 1 .. Len(TrainDb)}

\* Every chunk of every sample finds, in its row, neighbours that are in the
\* index and not of the sample's documents, as many as the search left.
RowRight(d, q) ==
  LET row == RowOf(d, q)
      found == {k \in DOMAIN row : row[k] >= 0}
  IN  /\ Len(row) = job.save
      /\ \A k \in found : \A j \in 1 .. k : j \in found
      /\ \A k \in found :
           /\ \E v \in disk.added.data : v[1] = row[k]
           /\ LET x == TrainDb[row[k] + 1]
              IN  ~ (x[1] = SampleOf(d, q).corpus /\ x[2] \in SampleOf(d, q).docs)

NeighboursRight ==
  \A d \in 1 .. Len(job.samples) :
    Verified(d) /\ \A q \in 0 .. SampleChunks(d) - 1 : RowRight(d, q)

\* What a launch may stumble over without any having been killed.
Refused ==
  \/ job.parallel /\ job.delete_codes
  \/ \E c \in Corpora :
       \/ NumDocsTrain(c) = 0
       \/ (job.ntrain * job.ratios[c]) \div Sum(job.ratios) > Len(TrainChunks(c))
       \/ \E i \in 1 .. NumBlocks(DbDir(c)) :
            \A d \in First(DbDir(c), i) + 1 .. EndOf(DbDir(c), i) : ValidChunks(c, d) = << >>
  \/ LoadedOf(SampledDb, job.train_load) = {}

\* A launch that ends has made the databases, the index and the neighbours that
\* one process in one go would have made of the documents, whatever ranks did
\* the work and whatever earlier launches, killed anywhere, had left: "with
\* bit-wise equivalence to FaissBaseIndex" (faiss_par_add.py:6).  What a kill
\* can spoil are the last offsets of the training database and the embeddings
\* that the index is trained on.  A launch raises only because of what was asked
\* or because of files of a killed one, and the ranks lose step only if an
\* earlier launch had merged the embeddings and not trained the index.
RetrievalAsBuilt ==
  /\ past = "done" => DatabasesRight /\ IndexRight /\ NeighboursRight
  /\ past = "raised" => Refused \/ tally.kills > 0
  /\ past = "skewed" => tally.launches > 1 /\ Exists(disk.bin)
======================================================================================
