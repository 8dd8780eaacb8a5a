------------------------------- MODULE ProcessGroups -------------------------------
(***************************************************************************)
(* The process groups of parallel_state.py for any number of tensor-       *)
(* parallel ranks, pipelines and data-parallel replicas, with and without  *)
(* BitPipe: initialize_model_parallel, the getters that the rest of the    *)
(* program asks, destroy_model_parallel, and another initialization in the *)
(* same process, as the unit tests and the test of every size make.        *)
(*                                                                         *)
(* new_group is a collective of all processes, which go through the same   *)
(* loops; the initialization is one step.  It may raise in its middle.     *)
(* A group is the set of its members, since torch sorts them; no group,    *)
(* list or number is {}, << >> or None.                                    *)
(***************************************************************************)
EXTENDS Integers, Sequences, FiniteSets, SequencesExt, FiniteSetsExt

CONSTANT GroupJobs
  \* world: world size; bitpipe: enable_bitpipe_schedule; requests: what the
  \* calls of initialize_model_parallel ask for, [tp, pp, vp, split, fp8],
  \* where vp and split may be None; with BitPipe, which is documented for even
  \* numbers of devices, pp is even and vp 4

None == -1

VARIABLES job,      \* one of GroupJobs
          globals,  \* the module's global variables, of every process
          called,   \* how many initializations were called
          raised    \* one of them raised

group_vars == <<job, globals, called, raised>>

World == job.world
Processes == 0 .. World - 1
Request == job.requests[called]     \* the last one

Fresh ==
  [data |-> {}, gloo |-> {}, data_ranks |-> << >>, model |-> {}, tensor |-> {},
   pipeline |-> {}, pipeline_ranks |-> << >>, embedding |-> {}, embedding_ranks |-> << >>,
   position |-> {}, position_ranks |-> << >>, bd |-> {}, bd_ranks |-> << >>, amax |-> {},
   buffer |-> {}, vrank |-> None, vsize |-> None, split |-> None]

-----------------------------------------------------------------------------
(***************************************************************************)
(* The lists of ranks, as functions of what was requested (q).             *)
(***************************************************************************)
Stride(first, end, step) == [i \in 1 .. (end - first + step - 1) \div step |-> first + (i - 1) * step]
Block(i, n) == Stride(i * n, (i + 1) * n, 1)

DataSize(q) == World \div (q.tp * q.pp)
NumPipelines(q) == World \div q.pp

DataLists(q) ==
  [i \in 1 .. q.pp * q.tp |->
     LET stage == (i - 1) \div q.tp
     IN  Stride(stage * NumPipelines(q) + ((i - 1) % q.tp), (stage + 1) * NumPipelines(q), q.tp)]

ModelList(q, i) == [k \in 1 .. q.pp * q.tp |-> DataLists(q)[k][i + 1]]

\* The order of the devices of a pipeline; BitPipe puts those at odd places in
\* the reverse order.
PipelineList_Plain(q, i) == Stride(i, World, NumPipelines(q))   \* mutant: not reordered
PipelineList(q, i) ==
  LET p == Stride(i, World, NumPipelines(q))
  IN  IF ~ job.bitpipe THEN p
      ELSE [k \in 1 .. q.pp |-> IF k % 2 = 1 THEN p[k] ELSE p[q.pp - k + 2]]

BdList(q, i, j) == <<PipelineList(q, i)[1 + j], PipelineList(q, i)[q.pp - j]>>

Ends(l) == <<l[1], l[Len(l)]>>
SplitOf(q, l) == l[q.split + 1]

EmbeddingList(q, l) ==
  IF Len(l) = 1 THEN l
  ELSE IF q.split # None /\ SplitOf(q, l) \notin Range(Ends(l))
       THEN <<l[1], SplitOf(q, l), l[Len(l)]>>
       ELSE Ends(l)

PositionList(q, l) ==
  LET plain == IF Len(l) > 1 /\ job.bitpipe THEN Ends(l) ELSE <<l[1]>>
  IN  IF Len(l) > 1 /\ q.split # None /\ SplitOf(q, l) \notin Range(plain)
      THEN <<l[1], SplitOf(q, l)>> ELSE plain

\* The one of a family of lists that r is in, none if it is in none of them.
ListOf(r, lists) == LET mine == {l \in lists : r \in Range(l)}
                    IN  IF mine = {} THEN << >> ELSE CHOOSE l \in mine : TRUE

-----------------------------------------------------------------------------
(***************************************************************************)
(* initialize_model_parallel: six parts, each of which first asserts that  *)
(* its groups are not there.                                               *)
(***************************************************************************)
Asserted ==
  << {"data"}, {"model"}, {"tensor"}, {"pipeline", "embedding", "position", "bd"},
     {"amax"}, {"buffer"} >>

Assign(g, r, part, q) ==
  LET data == ListOf(r, Range(DataLists(q)))
      i == CHOOSE i \in 0 .. NumPipelines(q) - 1 : r \in Range(PipelineList(q, i))
      mine == PipelineList(q, i)
      bd == ListOf(r, {BdList(q, i, j) : j \in 0 .. q.pp \div 2 - 1})
      Member(l) == IF r \in Range(l) THEN Range(l) ELSE {}
  IN CASE part = 1 -> [g EXCEPT !.data = Range(data), !.gloo = Range(data), !.data_ranks = data]
       [] part = 2 -> [g EXCEPT !.model =
                         Range(ListOf(r, {ModelList(q, k) : k \in 0 .. DataSize(q) - 1}))]
       [] part = 3 -> [g EXCEPT !.tensor = Range(Block(r \div q.tp, q.tp))]
       [] part = 4 ->
            [g EXCEPT !.pipeline = Range(mine), !.pipeline_ranks = mine,
                      !.bd = IF job.bitpipe THEN Range(bd) ELSE @,
                      !.bd_ranks = IF job.bitpipe THEN bd ELSE @,
                      !.embedding = Member(EmbeddingList(q, mine)),
                      !.embedding_ranks = EmbeddingList(q, mine),
                      !.position = Member(PositionList(q, mine)),
                      !.position_ranks = PositionList(q, mine)]
       [] part = 5 -> [g EXCEPT !.amax = IF q.fp8
                         THEN Range(Block(r \div (q.tp * DataSize(q)), q.tp * DataSize(q))) ELSE @]
       [] part = 6 -> [g EXCEPT !.buffer = {r}]

\* Before any group: a wrong size raises and nothing has changed; a virtual
\* pipeline of two devices raises; the rest is set whatever follows.
Divides(q) == World % (q.tp * q.pp) = 0
DeepEnough(q) == q.vp # None => q.pp > 2

Prepared(g, q) ==
  [g EXCEPT !.vrank = IF q.vp # None THEN 0 ELSE @,
            !.vsize = IF q.vp # None THEN q.vp ELSE @,
            !.split = IF q.split # None THEN q.split ELSE @]

\* The first part whose assertion fails, the one behind the last if none does.
Failing(r) ==
  Min({n \in 1 .. 6 : \E f \in Asserted[n] : globals[r][f] # {}} \cup {7})

ModelParallelIsInitialized ==
  \A r \in Processes : globals[r].tensor # {} /\ globals[r].pipeline # {} /\ globals[r].data # {}

\* _initialize_distributed: another call does nothing.
Initialize ==
  /\ ~ raised /\ ~ ModelParallelIsInitialized
  /\ called < Len(job.requests)
  /\ called' = called + 1
  /\ LET q == job.requests[called + 1]
         stop == Min({Failing(r) : r \in Processes})
     IN  IF ~ Divides(q) \/ ~ DeepEnough(q)
         THEN raised' = TRUE /\ UNCHANGED globals
         ELSE /\ raised' = (stop < 7)
              /\ globals' = [r \in Processes |->
                   FoldLeft(LAMBDA g, n : Assign(g, r, n, q), Prepared(globals[r], q),
                            [n \in 1 .. stop - 1 |-> n])]
  /\ UNCHANGED job

\* What destroy_model_parallel sets to none: not the gloo group, the lists, the
\* bidirectional groups and the split rank.
Destroy ==
  /\ ~ raised /\ ModelParallelIsInitialized
  /\ globals' = [r \in Processes |->
       [globals[r] EXCEPT !.model = {}, !.tensor = {}, !.pipeline = {}, !.data = {},
                          !.embedding = {}, !.position = {}, !.amax = {}, !.buffer = {},
                          !.vrank = None, !.vsize = None]]
  /\ UNCHANGED <<job, called, raised>>

InitGroups ==
  /\ job \in GroupJobs
  /\ globals = [r \in Processes |-> Fresh]
  /\ called = 0
  /\ raised = FALSE

NextGroups == Initialize \/ Destroy

SpecGroups == InitGroups /\ [][NextGroups]_group_vars

-----------------------------------------------------------------------------
(***************************************************************************)
(* The getters, of process r.                                              *)
(***************************************************************************)
RankIn(group, r) == Cardinality({o \in group : o < r})

TensorRank(r) == RankIn(globals[r].tensor, r)
DataRank(r) == RankIn(globals[r].data, r)
PipelineSize(r) == Cardinality(globals[r].pipeline)
PipelineRankOf(r) ==
  LET k == RankIn(globals[r].pipeline, r)
  IN  IF job.bitpipe /\ k % 2 = 1 THEN PipelineSize(r) - k ELSE k

Backwards(v) == job.bitpipe /\ v \in {1, 2}
Neighbour(r, step) ==
  globals[r].pipeline_ranks[((PipelineRankOf(r) + step) % PipelineSize(r)) + 1]
NextProcess(r, v) == Neighbour(r, IF Backwards(v) THEN -1 ELSE 1)
PrevProcess(r, v) == Neighbour(r, IF Backwards(v) THEN 1 ELSE -1)

TensorSrc(r) == (r \div Cardinality(globals[r].tensor)) * Cardinality(globals[r].tensor)

BeforeSplit(r) ==
  PipelineSize(r) = 1 \/ globals[r].split = None \/ PipelineRankOf(r) < globals[r].split
AtSplit(r) ==
  BeforeSplit(r) /\ (\/ PipelineSize(r) = 1 \/ globals[r].split = None
                     \/ PipelineRankOf(r) + 1 >= globals[r].split)

-----------------------------------------------------------------------------
(***************************************************************************)
(* Properties.                                                             *)
(***************************************************************************)
At(r) == <<DataRank(r), PipelineRankOf(r), TensorRank(r)>>

\* Every combination of the three ranks is one process.
Coordinates ==
  {At(r) : r \in Processes} =
    (0 .. DataSize(Request) - 1) \X (0 .. Request.pp - 1) \X (0 .. Request.tp - 1)

\* The members of a group are the processes that differ from r only where
\* they may.
GroupsOf(r) ==
  LET Same(places) == {o \in Processes : \A k \in places : At(o)[k] = At(r)[k]}
      AtStages(stages) == {o \in Same({1, 3}) : At(o)[2] \in stages}
      ends == {0, Request.pp - 1}
      split == {Request.split} \ {None}
      g == globals[r]
  IN  /\ g.data = Same({2, 3}) /\ g.gloo = g.data
      /\ g.tensor = Same({1, 2})
      /\ g.pipeline = Same({1, 3})
      /\ g.model = Same({1})
      /\ Request.fp8 => g.amax = Same({2})
      /\ g.pipeline_ranks[PipelineRankOf(r) + 1] = r
      /\ job.bitpipe => g.bd = AtStages({At(r)[2], Request.pp - 1 - At(r)[2]})
      /\ Range(g.embedding_ranks) = AtStages(ends \cup split)
      /\ Range(g.position_ranks) =
           AtStages((IF job.bitpipe THEN ends ELSE {0}) \cup split)
      /\ g.embedding = IF r \in Range(g.embedding_ranks) THEN Range(g.embedding_ranks) ELSE {}
      /\ g.position = IF r \in Range(g.position_ranks) THEN Range(g.position_ranks) ELSE {}

\* Who broadcasts is a member, the same for all of them; who follows in the
\* pipeline is at the same place of the other groups, and knows it.
CounterpartsOf(r) ==
  LET Chunks == IF globals[r].vsize = None THEN {None} ELSE 0 .. globals[r].vsize - 1
  IN  /\ TensorSrc(r) = Min(globals[r].tensor)
      /\ \A o \in globals[r].data : globals[o].data_ranks[1] = globals[r].data_ranks[1]
      /\ job.bitpipe => \A o \in globals[r].bd : globals[o].bd_ranks[1] = globals[r].bd_ranks[1]
      /\ \A v \in Chunks :
           LET n == NextProcess(r, v)
           IN  At(n)[1] = At(r)[1] /\ At(n)[3] = At(r)[3] /\ PrevProcess(n, v) = r

\* A split that an earlier initialization asked for stays.
SplitKept ==
  \E i \in 1 .. called - 1 : job.requests[i].split # None /\ Request.split = None

SplitOfModel(r) ==
  Request.split # None =>
    (BeforeSplit(r) <=> PipelineRankOf(r) < Request.split) /\
    (AtSplit(r) <=> PipelineRankOf(r) + 1 = Request.split)

\* Whatever was asked for before, an initialization that succeeds divides the
\* processes into groups that fit together; it raises for sizes that do not
\* divide or a virtual pipeline of two, and for BitPipe in any process that had
\* its groups before.
GroupsFit ==
  /\ ModelParallelIsInitialized =>
       /\ Coordinates
       /\ \A r \in Processes : GroupsOf(r) /\ CounterpartsOf(r)
       /\ SplitKept \/ \A r \in Processes : SplitOfModel(r) /\ globals[r].split = Request.split
  /\ called > 0 =>
       (raised <=> \/ ~ Divides(Request) \/ ~ DeepEnough(Request)
                   \/ job.bitpipe /\ called > 1)
=====================================================================================
