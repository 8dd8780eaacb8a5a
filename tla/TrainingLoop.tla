---------------------------- MODULE TrainingLoop ----------------------------
(***************************************************************************)
(* The training loop over the lives of a job: which microbatches each step *)
(* reads, when the loop saves and exits, how a checkpoint is written by    *)
(* many ranks and named in the tracker file, and what a restart finds      *)
(* (megatron/training.py, checkpointing.py, microbatches.py,               *)
(* data/data_samplers.py, dist_signal_handler.py).                         *)
(*                                                                         *)
(* The unit of data is a "batch": one microbatch for every data-parallel   *)
(* rank, micro_batch_size * data_parallel_size samples.  Batch b is the    *)
(* b-th the sampler of the "single" dataloader yields.  A training step is *)
(* one action of all ranks, since its collectives join them; the ranks are *)
(* told apart while a checkpoint is written.                               *)
(***************************************************************************)
EXTENDS Integers, Sequences, FiniteSets

CONSTANTS
  Ranks,         \* the processes of the job
  Writers,       \* those with data-parallel rank 0, which write files
  NumPipelines,  \* 2 with the bidirectional schedule, 1 with the others
  StartBatch,    \* --rampup-batch-size: first batch size,
  Increment,     \*   its increments,
  RampSamples,   \*   and the samples over which it grows
  GlobalBatch,   \* --global-batch-size
  TrainSamples,  \* --train-samples
  SaveInterval,  \* --save-interval
  ExitInterval,  \* --exit-interval
  MaxStops       \* bound on crashes, signals and ends of the allotted time

\* Without a ramp-up StartBatch = GlobalBatch.  Rank 0 has data-parallel rank 0.
ASSUME LoopAssumption ==
  /\ 0 \in Writers /\ Writers \subseteq Ranks
  /\ NumPipelines \in {1, 2}
  /\ {StartBatch, Increment, RampSamples, GlobalBatch, TrainSamples} \subseteq Nat \ {0}
  /\ {SaveInterval, ExitInterval} \subseteq Nat \ {0}
  /\ StartBatch <= GlobalBatch /\ (GlobalBatch - StartBatch) % Increment = 0
  /\ MaxStops \in Nat

\* The schedule cuts the microbatches of a step evenly over its pipelines.
ASSUME EvenAssumption ==
  \A b \in {StartBatch, Increment, GlobalBatch} : b % NumPipelines = 0

----------------------------------------------------------------------------
(***************************************************************************)
(* Batch sizes.                                                            *)
(***************************************************************************)
NumMicrobatches(c) ==
  IF StartBatch = GlobalBatch \/ c > RampSamples THEN GlobalBatch
  ELSE LET increments == (GlobalBatch - StartBatch) \div Increment
       IN  StartBatch + Increment * ((c * increments) \div RampSamples)

\* [iterations, consumed] of the ramp-up, from consumed = c on.
RampUp ==
  LET f[c \in 0 .. RampSamples + GlobalBatch] ==
        IF c > RampSamples THEN [iterations |-> 0, consumed |-> c]
        ELSE LET rest == f[c + NumMicrobatches(c)]
             IN  [rest EXCEPT !.iterations = @ + 1]
  IN  f[0]

TrainIters ==
  IF StartBatch = GlobalBatch THEN TrainSamples \div GlobalBatch
  ELSE RampUp.iterations + (TrainSamples - RampUp.consumed) \div GlobalBatch

\* A training that is longer than its ramp-up.
ASSUME ItersAssumption == TrainIters \in Nat

----------------------------------------------------------------------------
VARIABLES
  phase,      \* where the job is in train(), or how it stopped
  iteration,  \* of train(); after a stop, the last one that was reached
  consumed,   \* args.consumed_train_samples
  position,   \* the next batch of the data iterators of each pipeline
  trained,    \* history: the batches each pipeline read for each step
  saved,      \* saved_checkpoint
  step,       \* where each rank is in save_checkpoint
  after,      \* the phase after the checkpoint
  files,      \* files[w][i]: what writer w has on disk for iteration i
  tracker,    \* latest_checkpointed_iteration.txt
  flagged,    \* ranks whose SIGTERM handler has run
  stops

vars == <<phase, iteration, consumed, position, trained, saved, step, after,
          files, tracker, flagged, stops>>
data == <<iteration, consumed, position, trained>>
disk == <<files, tracker>>

Pipelines == 0 .. NumPipelines - 1

\* What may be in a file besides the content of a checkpoint.
NoFile  == [is |-> "none"]
Partial == [is |-> "partial"]

\* The tracker file: the iteration it names (read_metadata asserts that it is
\* positive), or one of these.
NoTracker == 0
Empty     == -1    \* opened for writing and not yet written

----------------------------------------------------------------------------
Init ==
  /\ phase = "start"
  /\ iteration = 0 /\ consumed = 0
  /\ position = [p \in Pipelines |-> 0]
  /\ trained = <<>>
  /\ saved = FALSE
  /\ step = [r \in Ranks |-> "begin"]
  /\ after = "over"
  /\ files = [w \in Writers |-> [i \in 1 .. TrainIters |-> NoFile]]
  /\ tracker = NoTracker
  /\ flagged = {}
  /\ stops = 0

Running == phase \notin {"stopped", "over", "failed"}

GoTo(next) == phase' = next

(***************************************************************************)
(* The start: load_checkpoint on every rank, then the data iterators, one  *)
(* per model chunk, all made from the same sampler and consumed_samples.   *)
(***************************************************************************)
Readable(i) == \A w \in Writers : files[w][i] \notin {NoFile, Partial}

\* Mutants: the iteration, the sampler's start or the samples are not restored.
Resume_IterationKept(i, c, t) ==
  /\ UNCHANGED iteration /\ consumed' = c /\ trained' = t
  /\ position' = [p \in Pipelines |-> c]
  /\ step' = [r \in Ranks |-> "begin"]
  /\ GoTo("train")
  /\ UNCHANGED <<saved, after, disk, flagged, stops>>

Resume_FromZero(i, c, t) ==
  /\ iteration' = i /\ consumed' = c /\ trained' = t
  /\ position' = [p \in Pipelines |-> 0]
  /\ step' = [r \in Ranks |-> "begin"]
  /\ GoTo("train")
  /\ UNCHANGED <<saved, after, disk, flagged, stops>>

Resume_Unconsumed(i, c, t) ==
  /\ iteration' = i /\ consumed' = 0 /\ trained' = t
  /\ position' = [p \in Pipelines |-> 0]
  /\ step' = [r \in Ranks |-> "begin"]
  /\ GoTo("train")
  /\ UNCHANGED <<saved, after, disk, flagged, stops>>

Resume(i, c, t) ==
  /\ iteration' = i /\ consumed' = c /\ trained' = t
  /\ position' = [p \in Pipelines |-> c]
  /\ step' = [r \in Ranks |-> "begin"]
  /\ GoTo("train")
  /\ UNCHANGED <<saved, after, disk, flagged, stops>>

StartFresh == phase = "start" /\ tracker = NoTracker /\ Resume(0, 0, <<>>)

\* Mutant: the checkpoint is loaded as for finetuning.
LoadCheckpoint_Finetune ==
  phase = "start" /\ tracker > 0 /\ Readable(tracker) /\ Resume(0, 0, <<>>)

LoadCheckpoint ==
  /\ phase = "start" /\ tracker > 0 /\ Readable(tracker)
  /\ LET content == files[0][tracker]
     IN  Resume(content.iteration, content.consumed, content.trained)

\* read_metadata finds no number, or torch.load cannot read a file.
LoadFails ==
  /\ phase = "start"
  /\ \/ tracker = Empty
     \/ tracker > 0 /\ ~Readable(tracker)
  /\ GoTo("failed")
  /\ UNCHANGED <<data, saved, step, after, disk, flagged, stops>>

----------------------------------------------------------------------------
(***************************************************************************)
(* One turn of the loop of train().                                        *)
(***************************************************************************)
\* Microbatches of a step that go through one pipeline.
PerPipeline(n) == n \div NumPipelines

TrainStep ==
  LET n == NumMicrobatches(consumed)
      batches == [p \in Pipelines |-> position[p] .. position[p] + PerPipeline(n) - 1]
  IN  /\ phase = "train" /\ iteration < TrainIters
      /\ trained' = Append(trained, batches)
      /\ position' = [p \in Pipelines |-> position[p] + PerPipeline(n)]
      /\ iteration' = iteration + 1
      /\ consumed' = consumed + n
      /\ GoTo("signals")
      /\ UNCHANGED <<saved, step, after, disk, flagged, stops>>

\* The loop ends; save_checkpoint if there was an iteration, now or before.
TrainingDone ==
  /\ phase = "train" /\ iteration >= TrainIters
  /\ IF iteration # 0 THEN GoTo("save") /\ after' = "over"
                      ELSE GoTo("over") /\ UNCHANGED after
  /\ UNCHANGED <<data, saved, step, disk, flagged, stops>>

SaveThen(next) == GoTo("save") /\ after' = next

ExitOnSignal ==
  /\ phase = "signals"
  /\ IF flagged # {} THEN SaveThen("stopped") ELSE GoTo("interval") /\ UNCHANGED after
  /\ UNCHANGED <<data, saved, step, disk, flagged, stops>>

IntervalDue == iteration % SaveInterval = 0

SaveOnInterval ==
  /\ phase = "interval"
  /\ IF IntervalDue THEN SaveThen("duration") ELSE GoTo("duration") /\ UNCHANGED after
  /\ saved' = IntervalDue
  /\ UNCHANGED <<data, step, disk, flagged, stops>>

\* Mutants: an exit saves whether or not this iteration has been saved, or never.
Exit_Again  == SaveThen("stopped")
Exit_NoSave == GoTo("stopped") /\ UNCHANGED after

\* An exit saves first, unless this iteration has been saved.
Exit == IF saved THEN GoTo("stopped") /\ UNCHANGED after ELSE SaveThen("stopped")

\* All ranks agree on whether the time is over (an all-reduce of the maximum).
ExitOnDuration ==
  /\ phase = "duration"
  /\ \/ GoTo("exit") /\ UNCHANGED <<after, stops>>
     \/ stops < MaxStops /\ Exit /\ stops' = stops + 1
  /\ UNCHANGED <<data, saved, step, disk, flagged>>

ExitOnInterval ==
  /\ phase = "exit"
  /\ IF iteration % ExitInterval = 0 THEN Exit ELSE GoTo("train") /\ UNCHANGED after
  /\ UNCHANGED <<data, saved, step, disk, flagged, stops>>

----------------------------------------------------------------------------
(***************************************************************************)
(* save_checkpoint.  The ranks write their files each at its own pace, and *)
(* meet in a barrier; then rank 0 opens the tracker file, which empties    *)
(* it, and writes the iteration; a second barrier lets everybody go on.    *)
(***************************************************************************)
Saving(r, at) == phase = "save" /\ step[r] = at

Content == [iteration |-> iteration, consumed |-> consumed, trained |-> trained]

BeginWrite(w) ==
  /\ Saving(w, "begin")
  /\ files' = [files EXCEPT ![w][iteration] = Partial]
  /\ step' = [step EXCEPT ![w] = "writing"]
  /\ UNCHANGED <<phase, data, saved, after, tracker, flagged, stops>>

EndWrite(w) ==
  /\ Saving(w, "writing")
  /\ files' = [files EXCEPT ![w][iteration] = Content]
  /\ step' = [step EXCEPT ![w] = "barrier"]
  /\ UNCHANGED <<phase, data, saved, after, tracker, flagged, stops>>

WritesNothing(r) ==
  /\ Saving(r, "begin")
  /\ step' = [step EXCEPT ![r] = "barrier"]
  /\ UNCHANGED <<phase, data, saved, after, disk, flagged, stops>>

\* Mutant: rank 0 does not wait for the others.
AtBarrier_Self == {0}

\* The ranks that must be at the barrier before rank 0 goes on.
AtBarrier == Ranks

Barrier ==
  /\ \A r \in AtBarrier : Saving(r, "barrier")
  /\ step' = [r \in Ranks |-> IF r = 0 THEN "publish"
                              ELSE IF r \in AtBarrier THEN "end" ELSE step[r]]
  /\ UNCHANGED <<phase, data, saved, after, disk, flagged, stops>>

OpenTracker ==
  /\ Saving(0, "publish")
  /\ tracker' = Empty
  /\ step' = [step EXCEPT ![0] = "truncated"]
  /\ UNCHANGED <<phase, data, saved, after, files, flagged, stops>>

WriteTracker ==
  /\ Saving(0, "truncated")
  /\ tracker' = iteration
  /\ step' = [step EXCEPT ![0] = "end"]
  /\ UNCHANGED <<phase, data, saved, after, files, flagged, stops>>

SaveDone ==
  /\ \A r \in Ranks : Saving(r, "end")
  /\ step' = [r \in Ranks |-> "begin"]
  /\ GoTo(after)
  /\ UNCHANGED <<data, saved, after, disk, flagged, stops>>

----------------------------------------------------------------------------
(***************************************************************************)
(* The environment: a rank gets a SIGTERM, the job dies, it is launched    *)
(* again.  When a rank dies the others are stuck in their next collective  *)
(* until the launcher kills them; what they can still write before it, a   *)
(* later death of the whole job leaves as well.                            *)
(***************************************************************************)
Signal(r) ==
  /\ Running /\ r \notin flagged /\ stops < MaxStops
  /\ flagged' = flagged \union {r}
  /\ stops' = stops + 1
  /\ UNCHANGED <<phase, data, saved, step, after, disk>>

Crash ==
  /\ Running /\ stops < MaxStops
  /\ GoTo("stopped")
  /\ stops' = stops + 1
  /\ UNCHANGED <<data, saved, step, after, disk, flagged>>

Launch ==
  /\ phase = "stopped"
  /\ GoTo("start")
  /\ flagged' = {}
  /\ UNCHANGED <<data, saved, step, after, disk, stops>>

Ended == ~Running /\ phase # "stopped" /\ UNCHANGED vars

Program ==
  \/ StartFresh \/ LoadCheckpoint \/ LoadFails
  \/ TrainStep \/ TrainingDone
  \/ ExitOnSignal \/ SaveOnInterval \/ ExitOnDuration \/ ExitOnInterval
  \/ \E w \in Writers : BeginWrite(w) \/ EndWrite(w)
  \/ \E r \in Ranks \ Writers : WritesNothing(r)
  \/ Barrier \/ OpenTracker \/ WriteTracker \/ SaveDone

Next == Program \/ Launch \/ Crash \/ Ended \/ \E r \in Ranks : Signal(r)

Spec == Init /\ [][Next]_vars

\* The program goes on, and somebody launches a stopped job again.
FairSpec == Spec /\ WF_vars(Program) /\ WF_vars(Launch)

----------------------------------------------------------------------------
Phase == {"start", "train", "signals", "interval", "duration", "exit", "save",
          "stopped", "over", "failed"}

History == Seq([Pipelines -> SUBSET Nat])

Checkpoint ==
  {k \in [iteration : 0 .. TrainIters, consumed : Nat, trained : History] :
     Len(k.trained) = k.iteration}

\* The type invariant; the history has one entry per iteration, in memory and
\* in every file.
TypeOK ==
  /\ phase \in Phase
  /\ Content \in Checkpoint
  /\ position \in [Pipelines -> Nat]
  /\ saved \in BOOLEAN
  /\ step \in [Ranks -> {"begin", "writing", "barrier", "publish", "truncated", "end"}]
  /\ after \in {"duration", "stopped", "over"}
  /\ files \in [Writers -> [1 .. TrainIters -> {NoFile, Partial} \union Checkpoint]]
  /\ tracker \in Empty .. TrainIters
  /\ flagged \subseteq Ranks
  /\ stops \in 0 .. MaxStops

\* The tracker is given the number of an iteration only when every writer has
\* written the whole state of this life of the job: however the ranks are
\* scheduled, a named checkpoint mixes neither iterations nor lives.
PublishedComplete ==
  [][tracker' # tracker /\ tracker' > 0 =>
       \A w \in Writers : files'[w][tracker'] = Content']_vars

Damaged ==
  \/ tracker = Empty
  \/ tracker > 0 /\ \E w \in Writers : files[w][tracker] \in {NoFile, Partial}

\* A crash can make the tracker useless at two places only: between the opening
\* and the writing of the tracker, and in the checkpoint after the last
\* iteration, which writes the files the tracker already names once more.  At
\* all other times, in the middle of writing the files too, a restart works.
DamageOnlyInWindow ==
  Damaged => \/ step[0] = "truncated"
             \/ after = "over" /\ \E w \in Writers : step[w] = "writing"

\* A restart that finds a checkpoint, or none yet, repeats at most SaveInterval
\* iterations.
LosesAtMostInterval ==
  [][phase = "start" /\ phase' = "train" => iteration - iteration' <= SaveInterval]_vars

\* Every launch makes progress enough: with finitely many crashes the job ends,
\* by training to the end or by a restart that fails.
Ends == <>(phase \in {"over", "failed"})

\* Batches and consumed samples after i iterations without an interruption.
ConsumedAfter[i \in Nat] ==
  IF i = 0 THEN 0
  ELSE ConsumedAfter[i - 1] + NumMicrobatches(ConsumedAfter[i - 1])

\* A resumed run reads for each step what a run without an interruption reads
\* (the comparison of test_resume_checkpoint_pipeline.py).
ResumesAsUninterrupted ==
  \A i \in 1 .. iteration, p \in Pipelines :
    trained[i][p] = PerPipeline(ConsumedAfter[i - 1]) .. PerPipeline(ConsumedAfter[i]) - 1

\* No batch is in two microbatches of the training, whatever the step or the
\* pipeline, and none that counts as consumed is left out.
EachBatchOnce ==
  /\ \A i, j \in 1 .. iteration, p, q \in Pipelines :
       <<i, p>> # <<j, q>> => trained[i][p] \intersect trained[j][q] = {}
  /\ 0 .. consumed - 1 = UNION {trained[i][p] : i \in 1 .. iteration, p \in Pipelines}

\* --train-samples is the "Total number of samples to train over all training
\* runs": the number of iterations computed before the start fits the batch
\* sizes the loop meets, and at the end less than one batch is missing.
TrainsTrainSamples ==
  /\ consumed <= TrainSamples
  /\ phase = "over" => TrainSamples - consumed < GlobalBatch

\* All three: steps read what they would read without restarts, every batch
\* once, as many as the training is to have.
DataFollowsSamples == ResumesAsUninterrupted /\ EachBatchOnce /\ TrainsTrainSamples
=============================================================================
