------------------------ MODULE TrainingLoop_proofs ------------------------
(***************************************************************************)
(* Proofs about TrainingLoop, for any number of ranks and writers, any     *)
(* batch sizes and intervals, and any number of crashes.                   *)
(***************************************************************************)
EXTENDS TrainingLoop, TLAPS, WellFoundedInduction

\* Integer division of naturals gives a natural.
LEMMA DivNat ==
  ASSUME NEW a \in Nat, NEW b \in Nat \ {0}
  PROVE  a \div b \in Nat
  OBVIOUS

\* Products of naturals are naturals.
LEMMA ProductNat ==
  ASSUME NEW a \in Nat, NEW b \in Nat
  PROVE  a * b \in Nat
  OBVIOUS

\* The number of microbatches of a step is a natural number.
LEMMA NumMicrobatchesNat ==
  ASSUME NEW c \in Nat
  PROVE  NumMicrobatches(c) \in Nat
<1> DEFINE increments == (GlobalBatch - StartBatch) \div Increment
<1>1. GlobalBatch - StartBatch \in Nat /\ Increment \in Nat \ {0} /\ RampSamples \in Nat \ {0}
      /\ StartBatch \in Nat /\ GlobalBatch \in Nat
  BY LoopAssumption
<1>2. increments \in Nat
  BY <1>1, DivNat
<1> HIDE DEF increments
<1>3. c * increments \in Nat
  BY <1>2, ProductNat
<1>4. (c * increments) \div RampSamples \in Nat
  BY <1>1, <1>3, DivNat
<1>5. Increment * ((c * increments) \div RampSamples) \in Nat
  BY <1>1, <1>4, ProductNat
<1>6. StartBatch + Increment * ((c * increments) \div RampSamples) \in Nat
  BY <1>1, <1>5
<1>7. QED BY <1>1, <1>6 DEF NumMicrobatches, increments

\* The share of a pipeline is a natural number.
LEMMA PerPipelineNat ==
  ASSUME NEW n \in Nat
  PROVE  PerPipeline(n) \in Nat
BY LoopAssumption, DivNat DEF PerPipeline

\* A file that is missing or unfinished is no checkpoint.
LEMMA NoCheckpoint == NoFile \notin Checkpoint /\ Partial \notin Checkpoint
<1> SUFFICES ASSUME NEW s, [is |-> s] \in Checkpoint PROVE FALSE
  BY DEF NoFile, Partial
<1>1. DOMAIN [is |-> s] = {"iteration", "consumed", "trained"}
  BY DEF Checkpoint
<1>2. "iteration" \in DOMAIN [is |-> s]
  BY <1>1
<1>3. QED BY <1>2

----------------------------------------------------------------------------
\* A start that takes over a checkpoint, or nothing, keeps the types.
LEMMA ResumeType ==
  ASSUME TypeOK, NEW k \in Checkpoint, Resume(k.iteration, k.consumed, k.trained)
  PROVE  TypeOK'
<1>1. k.consumed \in Nat
  BY DEF Checkpoint
<1>2. Content' = k
  BY DEF Resume, Content, Checkpoint
<1>3. QED BY <1>1, <1>2 DEF Resume, TypeOK, GoTo, Phase, disk

\* A training step reads natural numbers and adds one entry to the history.
LEMMA TrainStepType == ASSUME TypeOK, TrainStep PROVE TypeOK'
<1> DEFINE n == NumMicrobatches(consumed)
           batches == [p \in Pipelines |-> position[p] .. position[p] + PerPipeline(n) - 1]
<1>1. iteration \in 0 .. TrainIters /\ consumed \in Nat /\ trained \in History
      /\ Len(trained) = iteration
  BY DEF TypeOK, Content, Checkpoint
<1>2. n \in Nat /\ PerPipeline(n) \in Nat
  BY <1>1, NumMicrobatchesNat, PerPipelineNat
<1>3. trained' = Append(trained, batches) /\ iteration' = iteration + 1
      /\ consumed' = consumed + n /\ iteration < TrainIters
      /\ position' = [p \in Pipelines |-> position[p] + PerPipeline(n)]
  BY DEF TrainStep
<1> HIDE DEF n
<1>4. batches \in [Pipelines -> SUBSET Nat]
  BY <1>2 DEF TypeOK
<1> HIDE DEF batches
<1>5. trained' \in History /\ Len(trained') = iteration'
  BY <1>1, <1>3, <1>4 DEF History
<1>6. iteration' \in 0 .. TrainIters /\ consumed' \in Nat
  BY <1>1, <1>2, <1>3, ItersAssumption
<1>7. Content' \in Checkpoint
  BY <1>5, <1>6 DEF Content, Checkpoint
<1>8. position' \in [Pipelines -> Nat]
  BY <1>2, <1>3 DEF TypeOK
<1>9. QED BY <1>7, <1>8 DEF TrainStep, TypeOK, GoTo, Phase, disk

\* A checkpoint is written for an iteration that has been trained.
Trained == phase \in {"signals", "interval", "duration", "exit", "save"} => iteration >= 1

\* Types and Trained, by one induction: a file has a place only for an iteration
\* from 1 on.
THEOREM TypeAndTrained == Spec => [](TypeOK /\ Trained)
<1>1. Init => TypeOK /\ Trained
  <2> SUFFICES ASSUME Init PROVE TypeOK /\ Trained
    OBVIOUS
  <2>1. Content = [iteration |-> 0, consumed |-> 0, trained |-> <<>>]
    BY DEF Init, Content
  <2>2. Content \in Checkpoint
    BY <2>1, ItersAssumption DEF Checkpoint, History
  <2>3. tracker \in Empty .. TrainIters
    BY ItersAssumption DEF Init, NoTracker, Empty
  <2>4. files \in [Writers -> [1 .. TrainIters -> {NoFile, Partial} \union Checkpoint]]
    BY DEF Init
  <2>5. position \in [Pipelines -> Nat]
    BY DEF Init
  <2>6. stops \in 0 .. MaxStops
    BY LoopAssumption DEF Init
  <2>7. QED BY <2>2, <2>3, <2>4, <2>5, <2>6 DEF Init, TypeOK, Trained, Phase
<1>2. TypeOK /\ Trained /\ [Next]_vars => TypeOK' /\ Trained'
  <2> SUFFICES ASSUME TypeOK, Trained, [Next]_vars PROVE TypeOK' /\ Trained'
    OBVIOUS
  <2>0. iteration \in 0 .. TrainIters /\ consumed \in Nat /\ trained \in History
        /\ Content \in Checkpoint
    BY DEF TypeOK, Content, Checkpoint
  <2>1. CASE StartFresh
    <3> DEFINE k == [iteration |-> 0, consumed |-> 0, trained |-> <<>>]
    <3>1. k \in Checkpoint
      BY ItersAssumption DEF Checkpoint, History
    <3>2. Resume(k.iteration, k.consumed, k.trained)
      BY <2>1 DEF StartFresh
    <3>3. TypeOK'
      BY <3>1, <3>2, ResumeType
    <3>4. QED BY <2>1, <3>3 DEF StartFresh, Resume, GoTo, Trained
  <2>2. CASE LoadCheckpoint
    <3> DEFINE k == files[0][tracker]
    <3>1. tracker \in 1 .. TrainIters /\ 0 \in Writers
      BY <2>2, ItersAssumption, LoopAssumption DEF LoadCheckpoint, TypeOK, Empty
    <3>2. k \in Checkpoint
      BY <2>2, <3>1 DEF LoadCheckpoint, Readable, TypeOK
    <3>3. Resume(k.iteration, k.consumed, k.trained)
      BY <2>2 DEF LoadCheckpoint
    <3>4. TypeOK'
      BY <3>2, <3>3, ResumeType
    <3>5. QED BY <3>3, <3>4 DEF Resume, GoTo, Trained
  <2>3. CASE LoadFails
    BY <2>3 DEF LoadFails, TypeOK, Trained, GoTo, Phase, data, disk, Content
  <2>4. CASE TrainStep
    <3>1. TypeOK'
      BY <2>4, TrainStepType
    <3>2. QED BY <2>0, <2>4, <3>1 DEF TrainStep, GoTo, Trained
  <2>5. CASE TrainingDone
    BY <2>0, <2>5 DEF TrainingDone, TypeOK, Trained, GoTo, Phase, data, disk, Content
  <2>6. CASE ExitOnSignal
    BY <2>6 DEF ExitOnSignal, SaveThen, TypeOK, Trained, GoTo, Phase, data, disk, Content
  <2>7. CASE SaveOnInterval
    BY <2>7 DEF SaveOnInterval, SaveThen, IntervalDue, TypeOK, Trained, GoTo, Phase, data, disk, Content
  <2>8. CASE ExitOnDuration
    BY <2>8, LoopAssumption DEF ExitOnDuration, Exit, SaveThen, TypeOK, Trained, GoTo, Phase, data, disk, Content
  <2>9. CASE ExitOnInterval
    BY <2>9 DEF ExitOnInterval, Exit, SaveThen, TypeOK, Trained, GoTo, Phase, data, disk, Content
  <2>10. ASSUME NEW w \in Writers, BeginWrite(w) PROVE TypeOK' /\ Trained'
    <3>2. files' \in [Writers -> [1 .. TrainIters -> {NoFile, Partial} \union Checkpoint]]
      BY <2>10 DEF BeginWrite, TypeOK
    <3>3. step' \in [Ranks -> {"begin", "writing", "barrier", "publish", "truncated", "end"}]
      BY <2>10 DEF BeginWrite, TypeOK
    <3>4. QED BY <2>10, <3>2, <3>3 DEF BeginWrite, TypeOK, Trained, data, Content
  <2>11. ASSUME NEW w \in Writers, EndWrite(w) PROVE TypeOK' /\ Trained'
    <3>1. files' \in [Writers -> [1 .. TrainIters -> {NoFile, Partial} \union Checkpoint]]
      BY <2>0, <2>11 DEF EndWrite, TypeOK
    <3>2. step' \in [Ranks -> {"begin", "writing", "barrier", "publish", "truncated", "end"}]
      BY <2>11 DEF EndWrite, TypeOK
    <3>3. QED BY <2>11, <3>1, <3>2 DEF EndWrite, TypeOK, Trained, data, Content
  <2>12. ASSUME NEW r \in Ranks, WritesNothing(r) PROVE TypeOK' /\ Trained'
    BY <2>12 DEF WritesNothing, TypeOK, Trained, data, disk, Content
  <2>13. CASE Barrier
    BY <2>13 DEF Barrier, TypeOK, Trained, data, disk, Content
  <2>14. CASE OpenTracker
    <3>1. tracker' \in Empty .. TrainIters
      BY <2>14, ItersAssumption DEF OpenTracker, Empty
    <3>2. step' \in [Ranks -> {"begin", "writing", "barrier", "publish", "truncated", "end"}]
      BY <2>14 DEF OpenTracker, TypeOK
    <3>3. QED BY <2>14, <3>1, <3>2 DEF OpenTracker, TypeOK, Trained, data, Content
  <2>15. CASE WriteTracker
    <3>1. tracker' \in Empty .. TrainIters
      BY <2>0, <2>15, ItersAssumption DEF WriteTracker, Empty
    <3>2. step' \in [Ranks -> {"begin", "writing", "barrier", "publish", "truncated", "end"}]
      BY <2>15 DEF WriteTracker, TypeOK
    <3>3. QED BY <2>15, <3>1, <3>2 DEF WriteTracker, TypeOK, Trained, data, Content
  <2>16. CASE SaveDone
    <3>1. phase = "save" /\ phase' = after
      BY <2>16, LoopAssumption DEF SaveDone, Saving, GoTo
    <3>2. phase' \in Phase
      BY <3>1 DEF TypeOK, Phase
    <3>3. step' \in [Ranks -> {"begin", "writing", "barrier", "publish", "truncated", "end"}]
      BY <2>16 DEF SaveDone
    <3>4. QED BY <2>16, <3>1, <3>2, <3>3 DEF SaveDone, TypeOK, Trained, data, disk, Content
  <2>17. CASE Launch
    BY <2>17 DEF Launch, TypeOK, Trained, GoTo, Phase, data, disk, Content
  <2>18. CASE Crash
    BY <2>18, LoopAssumption DEF Crash, TypeOK, Trained, GoTo, Phase, data, disk, Content
  <2>19. ASSUME NEW r \in Ranks, Signal(r) PROVE TypeOK' /\ Trained'
    BY <2>19, LoopAssumption DEF Signal, TypeOK, Trained, data, disk, Content
  <2>20. CASE UNCHANGED vars
    BY <2>20 DEF vars, TypeOK, Trained, Content
  <2>21. QED BY <2>1, <2>2, <2>3, <2>4, <2>5, <2>6, <2>7, <2>8, <2>9, <2>10, <2>11, <2>12, <2>13,
       <2>14, <2>15, <2>16, <2>17, <2>18, <2>19, <2>20 DEF Next, Program, Ended
<1>3. QED BY <1>1, <1>2, PTL DEF Spec

\* Every reachable state of the training loop has its type: no file is written
\* for an iteration the job does not have, and a history matches its iteration.
THEOREM TypeCorrect == Spec => []TypeOK
BY TypeAndTrained, PTL

----------------------------------------------------------------------------
(***************************************************************************)
(* The inductive invariant behind PublishedComplete and DamageOnlyInWindow.*)
(***************************************************************************)
PastBarrier == {"publish", "truncated", "end"}

\* The ranks are at the start of save_checkpoint whenever they are elsewhere in
\* the loop; no rank is past the barrier before all are; only rank 0 publishes.
Ordered ==
  /\ phase \in {"train", "signals", "interval", "duration", "exit"} =>
       \A r \in Ranks : step[r] = "begin"
  /\ phase = "save" /\ (\E r \in Ranks : step[r] \in PastBarrier) =>
       \A r \in Ranks : step[r] \in PastBarrier
  /\ \A r \in Ranks : step[r] \in {"publish", "truncated"} => r = 0

\* A writer at the barrier or past it has its file.
Written ==
  phase = "save" =>
    \A w \in Writers : step[w] \in {"barrier"} \union PastBarrier =>
                         files[w][iteration] = Content

\* A file has the iteration of its name in it.
Labelled ==
  \A w \in Writers, i \in 1 .. TrainIters :
    files[w][i] \in Checkpoint => files[w][i].iteration = i

\* What the tracker names is behind the job, and strictly behind when the next
\* checkpoint is not the one after the last iteration.
Behind ==
  /\ phase \in {"train", "duration", "exit", "save"} => tracker <= iteration
  /\ phase \in {"signals", "interval"} => tracker < iteration
  /\ phase \in {"duration", "exit"} /\ ~saved => tracker < iteration
  /\ phase = "save" /\ after # "over" /\ step[0] # "end" => tracker < iteration
  /\ phase = "save" /\ after = "duration" => saved

\* DamageOnlyInWindow, file by file.
Undamaged ==
  /\ tracker = Empty => step[0] = "truncated"
  /\ tracker > 0 =>
       \A w \in Writers : files[w][tracker] \in {NoFile, Partial} =>
                            after = "over" /\ step[w] = "writing" /\ tracker = iteration

SaveInv == Ordered /\ Written /\ Labelled /\ Behind /\ Undamaged

Good == TypeOK /\ Trained /\ SaveInv

\* An unfinished file is not a checkpoint, and a checkpoint is no such file.
LEMMA ContentWritten == ASSUME TypeOK PROVE Content \notin {NoFile, Partial}
BY NoCheckpoint DEF TypeOK

\* Once a rank is past the barrier every writer has written.
LEMMA AllWritten ==
  ASSUME SaveInv, phase = "save", NEW r \in Ranks, step[r] \in PastBarrier
  PROVE  \A w \in Writers : files[w][iteration] = Content
BY LoopAssumption DEF SaveInv, Ordered, Written

\* Every step keeps the invariant.
LEMMA SaveInvNext ==
  ASSUME TypeOK, Trained, SaveInv, TypeOK', [Next]_vars
  PROVE  SaveInv'
<1> USE DEF SaveInv
<1>0. /\ iteration \in 0 .. TrainIters /\ tracker \in Int /\ TrainIters \in Nat
      /\ 0 \in Ranks /\ 0 \in Writers /\ Writers \subseteq Ranks
      /\ Content \in Checkpoint /\ Content.iteration = iteration
  BY ItersAssumption, LoopAssumption DEF TypeOK, Content, Checkpoint, Empty
<1>1. CASE StartFresh
  <2>1. Ordered' /\ Written' /\ Labelled'
    BY <1>1, <1>0 DEF data, disk, Content, GoTo, StartFresh, Resume, Ordered, Written, Labelled, PastBarrier
  <2>2. Behind'
    BY <1>1, <1>0, ItersAssumption DEF data, disk, Content, GoTo, StartFresh, Resume, Behind, Ordered, Empty, NoTracker
  <2>3. Undamaged'
    BY <1>1, <1>0 DEF data, disk, Content, GoTo, StartFresh, Resume, Ordered, Undamaged, Empty, NoTracker
  <2>4. QED BY <2>1, <2>2, <2>3
<1>2. CASE LoadCheckpoint
  <2>1. Ordered' /\ Written' /\ Labelled'
    BY <1>2, <1>0 DEF data, disk, Content, GoTo, LoadCheckpoint, Resume, Ordered, Written, Labelled, PastBarrier
  <2>2. Behind'
    BY <1>2, <1>0, ItersAssumption DEF data, disk, Content, GoTo, LoadCheckpoint, Resume, Behind, Ordered, Empty, NoTracker, Labelled, Readable, TypeOK
  <2>3. Undamaged'
    BY <1>2, <1>0 DEF data, disk, Content, GoTo, LoadCheckpoint, Resume, Ordered, Undamaged, Empty, NoTracker, Readable
  <2>4. QED BY <2>1, <2>2, <2>3
<1>3. CASE LoadFails
  <2>1. Ordered' /\ Written' /\ Labelled'
    BY <1>3, <1>0 DEF data, disk, Content, GoTo, LoadFails, Ordered, Written, Labelled, PastBarrier
  <2>2. Behind'
    BY <1>3, <1>0, ItersAssumption DEF data, disk, Content, GoTo, LoadFails, Behind, Ordered, Empty, NoTracker
  <2>3. Undamaged'
    BY <1>3, <1>0 DEF data, disk, Content, GoTo, LoadFails, Ordered, Undamaged, Empty, NoTracker
  <2>4. QED BY <2>1, <2>2, <2>3
<1>4. CASE TrainStep
  <2>1. Ordered' /\ Written' /\ Labelled'
    BY <1>4, <1>0 DEF data, disk, Content, GoTo, TrainStep, Ordered, Written, Labelled, PastBarrier
  <2>2. Behind'
    BY <1>4, <1>0, ItersAssumption DEF data, disk, Content, GoTo, TrainStep, Behind, Ordered, Empty, NoTracker
  <2>3. Undamaged'
    BY <1>4, <1>0 DEF data, disk, Content, GoTo, TrainStep, Ordered, Undamaged, Empty, NoTracker
  <2>4. QED BY <2>1, <2>2, <2>3
<1>5. CASE TrainingDone
  <2>1. Ordered' /\ Written' /\ Labelled'
    BY <1>5, <1>0 DEF data, disk, Content, GoTo, TrainingDone, Ordered, Written, Labelled, PastBarrier
  <2>2. Behind'
    BY <1>5, <1>0, ItersAssumption DEF data, disk, Content, GoTo, TrainingDone, Behind, Ordered, Empty, NoTracker
  <2>3. Undamaged'
    BY <1>5, <1>0 DEF data, disk, Content, GoTo, TrainingDone, Ordered, Undamaged, Empty, NoTracker
  <2>4. QED BY <2>1, <2>2, <2>3
<1>6. CASE ExitOnSignal
  <2>1. Ordered' /\ Written' /\ Labelled'
    BY <1>6, <1>0 DEF data, disk, Content, GoTo, ExitOnSignal, SaveThen, Ordered, Written, Labelled, PastBarrier
  <2>2. Behind'
    BY <1>6, <1>0, ItersAssumption DEF data, disk, Content, GoTo, ExitOnSignal, SaveThen, Behind, Ordered, Empty, NoTracker
  <2>3. Undamaged'
    BY <1>6, <1>0 DEF data, disk, Content, GoTo, ExitOnSignal, SaveThen, Ordered, Undamaged, Empty, NoTracker
  <2>4. QED BY <2>1, <2>2, <2>3
<1>7. CASE SaveOnInterval
  <2>1. Ordered' /\ Written' /\ Labelled'
    BY <1>7, <1>0 DEF data, disk, Content, GoTo, SaveOnInterval, SaveThen, IntervalDue, Ordered, Written, Labelled, PastBarrier
  <2>2. Behind'
    <3>1. phase = "interval" /\ tracker < iteration /\ UNCHANGED <<iteration, tracker>>
      BY <1>7 DEF SaveOnInterval, Behind, data, disk
    <3>2. CASE IntervalDue
      <4>1. saved' = TRUE /\ phase' = "save"
        BY <1>7, <3>2 DEF SaveOnInterval, SaveThen, GoTo, IntervalDue
      <4>2. QED BY <1>0, <3>1, <4>1 DEF Behind
    <3>3. CASE ~IntervalDue
      <4>1. phase' = "duration"
        BY <1>7, <3>3 DEF SaveOnInterval, GoTo
      <4>2. QED BY <1>0, <3>1, <4>1 DEF Behind
    <3>4. QED BY <3>2, <3>3
  <2>3. Undamaged'
    BY <1>7, <1>0 DEF data, disk, Content, GoTo, SaveOnInterval, SaveThen, IntervalDue, Ordered, Undamaged, Empty, NoTracker
  <2>4. QED BY <2>1, <2>2, <2>3
<1>8. CASE ExitOnDuration
  <2>1. Ordered' /\ Written' /\ Labelled'
    BY <1>8, <1>0 DEF data, disk, Content, GoTo, ExitOnDuration, Exit, SaveThen, Ordered, Written, Labelled, PastBarrier
  <2>2. Behind'
    BY <1>8, <1>0, ItersAssumption DEF data, disk, Content, GoTo, ExitOnDuration, Exit, SaveThen, Behind, Ordered, Empty, NoTracker
  <2>3. Undamaged'
    BY <1>8, <1>0 DEF data, disk, Content, GoTo, ExitOnDuration, Exit, SaveThen, Ordered, Undamaged, Empty, NoTracker
  <2>4. QED BY <2>1, <2>2, <2>3
<1>9. CASE ExitOnInterval
  <2>1. Ordered' /\ Written' /\ Labelled'
    BY <1>9, <1>0 DEF data, disk, Content, GoTo, ExitOnInterval, Exit, SaveThen, Ordered, Written, Labelled, PastBarrier
  <2>2. Behind'
    BY <1>9, <1>0, ItersAssumption DEF data, disk, Content, GoTo, ExitOnInterval, Exit, SaveThen, Behind, Ordered, Empty, NoTracker
  <2>3. Undamaged'
    BY <1>9, <1>0 DEF data, disk, Content, GoTo, ExitOnInterval, Exit, SaveThen, Ordered, Undamaged, Empty, NoTracker
  <2>4. QED BY <2>1, <2>2, <2>3
<1>10. ASSUME NEW w \in Writers, BeginWrite(w) PROVE SaveInv'
  <2>1. /\ phase = "save" /\ step[w] = "begin" /\ w \in Ranks
        /\ files' = [files EXCEPT ![w][iteration] = Partial]
        /\ step' = [step EXCEPT ![w] = "writing"]
        /\ UNCHANGED <<phase, iteration, consumed, trained, saved, after, tracker>>
    BY <1>0, <1>10 DEF BeginWrite, Saving, data
  <2>2. iteration \in 1 .. TrainIters
    BY <1>0, <2>1 DEF Trained
  <2>3. \A r \in Ranks : step[r] \notin PastBarrier
    BY <2>1 DEF Ordered, PastBarrier
  <2>4. \A v \in Writers, i \in 1 .. TrainIters :
          files'[v][i] = IF v = w /\ i = iteration THEN Partial ELSE files[v][i]
    BY <2>1, <2>2 DEF TypeOK
  <2>5. \A r \in Ranks : step'[r] = IF r = w THEN "writing" ELSE step[r]
    BY <2>1 DEF TypeOK
  <2>6. Ordered'
    BY <2>1, <2>3, <2>5 DEF Ordered, PastBarrier
  <2>7. Written'
    BY <1>0, <2>1, <2>2, <2>4, <2>5 DEF Written, Content, PastBarrier
  <2>8. Labelled'
    BY <2>4, NoCheckpoint DEF Labelled
  <2>9. Behind'
    BY <1>0, <2>1, <2>3, <2>5 DEF Behind, PastBarrier
  <2>10. tracker = iteration => after = "over"
    BY <1>0, <2>1, <2>3 DEF Behind, PastBarrier
  <2>11. tracker > 0 => tracker \in 1 .. TrainIters
    BY <1>0 DEF TypeOK, Empty
  <2>12. Undamaged'
    BY <1>0, <2>1, <2>3, <2>4, <2>5, <2>10, <2>11 DEF Undamaged, PastBarrier
  <2>13. QED BY <2>6, <2>7, <2>8, <2>9, <2>12
<1>11. ASSUME NEW w \in Writers, EndWrite(w) PROVE SaveInv'
  <2>1. /\ phase = "save" /\ step[w] = "writing" /\ w \in Ranks
        /\ files' = [files EXCEPT ![w][iteration] = Content]
        /\ step' = [step EXCEPT ![w] = "barrier"]
        /\ UNCHANGED <<phase, iteration, consumed, trained, saved, after, tracker>>
    BY <1>0, <1>11 DEF EndWrite, Saving, data
  <2>2. iteration \in 1 .. TrainIters
    BY <1>0, <2>1 DEF Trained
  <2>3. \A r \in Ranks : step[r] \notin PastBarrier
    BY <2>1 DEF Ordered, PastBarrier
  <2>4. \A v \in Writers, i \in 1 .. TrainIters :
          files'[v][i] = IF v = w /\ i = iteration THEN Content ELSE files[v][i]
    BY <2>1, <2>2 DEF TypeOK
  <2>5. \A r \in Ranks : step'[r] = IF r = w THEN "barrier" ELSE step[r]
    BY <2>1 DEF TypeOK
  <2>6. Ordered'
    BY <2>1, <2>3, <2>5 DEF Ordered, PastBarrier
  <2>7. Written'
    BY <1>0, <2>1, <2>2, <2>4, <2>5 DEF Written, Content, PastBarrier
  <2>8. Labelled'
    BY <1>0, <2>4 DEF Labelled
  <2>9. Behind'
    BY <1>0, <2>1, <2>3, <2>5 DEF Behind, PastBarrier
  <2>10. tracker > 0 => tracker \in 1 .. TrainIters
    BY <1>0 DEF TypeOK, Empty
  <2>11. Undamaged'
    BY <1>0, <2>1, <2>3, <2>4, <2>5, <2>10, ContentWritten DEF Undamaged, PastBarrier
  <2>12. QED BY <2>6, <2>7, <2>8, <2>9, <2>11
<1>12. ASSUME NEW r \in Ranks \ Writers, WritesNothing(r) PROVE SaveInv'
  <2>1. /\ phase = "save" /\ step[r] = "begin" /\ r # 0
        /\ step' = [step EXCEPT ![r] = "barrier"]
        /\ UNCHANGED <<phase, iteration, consumed, trained, saved, after, tracker, files>>
    BY <1>0, <1>12 DEF WritesNothing, Saving, data, disk
  <2>2. \A q \in Ranks : step[q] \notin PastBarrier
    BY <2>1 DEF Ordered, PastBarrier
  <2>3. \A q \in Ranks : step'[q] = IF q = r THEN "barrier" ELSE step[q]
    BY <2>1 DEF TypeOK
  <2>4. Ordered' /\ Written' /\ Labelled'
    BY <1>0, <1>12, <2>1, <2>2, <2>3 DEF Ordered, Written, Labelled, Content, PastBarrier
  <2>5. Behind' /\ Undamaged'
    BY <1>0, <1>12, <2>1, <2>2, <2>3 DEF Behind, Undamaged, PastBarrier
  <2>6. QED BY <2>4, <2>5
<1>13. CASE Barrier
  <2>1. /\ phase = "save" /\ \A r \in Ranks : step[r] = "barrier"
        /\ step' = [r \in Ranks |-> IF r = 0 THEN "publish" ELSE "end"]
        /\ UNCHANGED <<phase, iteration, consumed, trained, saved, after, tracker, files>>
    BY <1>0, <1>13 DEF Barrier, AtBarrier, Saving, data, disk
  <2>2. Ordered' /\ Written' /\ Labelled'
    BY <1>0, <2>1 DEF Ordered, Written, Labelled, Content, PastBarrier
  <2>3. Behind' /\ Undamaged'
    BY <1>0, <2>1 DEF Behind, Undamaged
  <2>4. QED BY <2>2, <2>3
<1>14. CASE OpenTracker
  <2>1. /\ phase = "save" /\ step[0] = "publish" /\ tracker' = -1
        /\ step' = [step EXCEPT ![0] = "truncated"]
        /\ UNCHANGED <<phase, iteration, consumed, trained, saved, after, files>>
    BY <1>14 DEF OpenTracker, Saving, data, Empty
  <2>2. \A q \in Ranks : step'[q] = IF q = 0 THEN "truncated" ELSE step[q]
    BY <2>1 DEF TypeOK
  <2>3. Ordered' /\ Written' /\ Labelled'
    BY <1>0, <2>1, <2>2 DEF Ordered, Written, Labelled, Content, PastBarrier
  <2>4. Behind' /\ Undamaged'
    BY <1>0, <2>1, <2>2 DEF Behind, Undamaged
  <2>5. QED BY <2>3, <2>4
<1>15. CASE WriteTracker
  <2>1. /\ phase = "save" /\ step[0] = "truncated" /\ tracker' = iteration
        /\ step' = [step EXCEPT ![0] = "end"]
        /\ UNCHANGED <<phase, iteration, consumed, trained, saved, after, files>>
    BY <1>15 DEF WriteTracker, Saving, data
  <2>2. \A q \in Ranks : step'[q] = IF q = 0 THEN "end" ELSE step[q]
    BY <2>1 DEF TypeOK
  <2>3. \A w \in Writers : files[w][iteration] = Content
    BY <1>0, <2>1, AllWritten DEF PastBarrier
  <2>4. Ordered' /\ Written' /\ Labelled'
    BY <1>0, <2>1, <2>2 DEF Ordered, Written, Labelled, Content, PastBarrier
  <2>5. Behind'
    BY <1>0, <2>1, <2>2 DEF Behind
  <2>6. Undamaged'
    BY <1>0, <2>1, <2>3, ContentWritten DEF Undamaged, Empty
  <2>7. QED BY <2>4, <2>5, <2>6
<1>16. CASE SaveDone
  <2>1. /\ phase = "save" /\ \A r \in Ranks : step[r] = "end"
        /\ phase' = after /\ after \in {"duration", "stopped", "over"}
        /\ step' = [r \in Ranks |-> "begin"]
        /\ UNCHANGED <<iteration, consumed, trained, saved, after, tracker, files>>
    BY <1>0, <1>16 DEF SaveDone, Saving, GoTo, data, disk, TypeOK
  <2>2. Ordered' /\ Written' /\ Labelled'
    BY <1>0, <2>1 DEF Ordered, Written, Labelled
  <2>3. Behind' /\ Undamaged'
    BY <1>0, <2>1 DEF Behind, Undamaged
  <2>4. QED BY <2>2, <2>3
<1>17. CASE Launch
  BY <1>17 DEF Launch, GoTo, data, disk, Ordered, Written, Labelled, Behind, Undamaged
<1>18. CASE Crash
  BY <1>18 DEF Crash, GoTo, data, disk, Ordered, Written, Labelled, Behind, Undamaged
<1>19. ASSUME NEW r \in Ranks, Signal(r) PROVE SaveInv'
  BY <1>19 DEF Signal, data, disk, Content, Ordered, Written, Labelled, Behind, Undamaged
<1>20. CASE UNCHANGED vars
  BY <1>20 DEF vars, Content, Ordered, Written, Labelled, Behind, Undamaged
<1>21. QED BY <1>1, <1>2, <1>3, <1>4, <1>5, <1>6, <1>7, <1>8, <1>9, <1>10, <1>11, <1>12, <1>13,
     <1>14, <1>15, <1>16, <1>17, <1>18, <1>19, <1>20 DEF Next, Program, Ended

\* The invariant holds in every reachable state.
THEOREM GoodAlways == Spec => []Good
<1>1. Init => SaveInv
  <2> SUFFICES ASSUME Init PROVE SaveInv
    OBVIOUS
  <2>1. Ordered /\ Written /\ Behind /\ Undamaged
    BY DEF Init, Ordered, Written, Behind, Undamaged, NoTracker, Empty
  <2>2. Labelled
    BY NoCheckpoint DEF Init, Labelled
  <2>3. QED BY <2>1, <2>2 DEF SaveInv
<1>2. TypeOK /\ Trained /\ SaveInv /\ TypeOK' /\ [Next]_vars => SaveInv'
  BY SaveInvNext
<1>3. QED BY <1>1, <1>2, TypeAndTrained, PTL DEF Spec, Good

\* However the ranks are scheduled and whenever the job dies, the tracker is
\* given the number of an iteration only when every writer has written the state
\* of this life of the job for it.
THEOREM NamedIsComplete == Spec => PublishedComplete
<1> DEFINE Step == tracker' # tracker /\ tracker' > 0 =>
                     \A w \in Writers : files'[w][tracker'] = Content'
<1>1. Good /\ [Next]_vars => Step
  <2> SUFFICES ASSUME Good, Next, tracker' # tracker, tracker' > 0
               PROVE  \A w \in Writers : files'[w][tracker'] = Content'
    BY DEF vars
  <2>1. WriteTracker
    BY DEF Next, Program, Ended, StartFresh, LoadCheckpoint, Resume, LoadFails, TrainStep,
           TrainingDone, ExitOnSignal, SaveOnInterval, ExitOnDuration, ExitOnInterval,
           BeginWrite, EndWrite, WritesNothing, Barrier, OpenTracker, SaveDone,
           Launch, Crash, Signal, disk, vars, Empty
  <2>2. /\ phase = "save" /\ 0 \in Ranks /\ step[0] = "truncated"
        /\ tracker' = iteration /\ UNCHANGED <<iteration, consumed, trained, files>>
    BY <2>1, LoopAssumption DEF WriteTracker, Saving, data
  <2>3. \A w \in Writers : files[w][iteration] = Content
    BY <2>2, AllWritten DEF Good, PastBarrier
  <2>4. QED BY <2>2, <2>3 DEF Content
<1>2. QED BY <1>1, GoodAlways, PTL DEF Spec, PublishedComplete

\* A crash can leave a tracker that no restart can use only while the tracker
\* itself is written, or in the checkpoint after the last iteration.
THEOREM DamageConfined == Spec => []DamageOnlyInWindow
<1>1. Good => DamageOnlyInWindow
  BY DEF Good, SaveInv, Undamaged, DamageOnlyInWindow, Damaged
<1>2. QED BY <1>1, GoodAlways, PTL

----------------------------------------------------------------------------
(***************************************************************************)
(* What a restart repeats.                                                 *)
(***************************************************************************)
\* A natural number lies between two consecutive multiples.
LEMMA Between ==
  ASSUME NEW i \in Nat, NEW s \in Nat \ {0}
  PROVE  \E k \in Nat : k * s <= i /\ i < (k + 1) * s
<1>1. (i \div s) \in Nat
  BY DivNat
<1>2. (i \div s) * s <= i /\ i < ((i \div s) + 1) * s
  OBVIOUS
<1>3. QED BY <1>1, <1>2

\* The next multiple.
LEMMA NextMultiple ==
  ASSUME NEW k \in Nat, NEW s \in Nat \ {0}
  PROVE  /\ k * s \in Nat
         /\ (k + 1) * s = k * s + s
         /\ ((k + 1) * s) % s = 0
OBVIOUS

\* The places of the loop where a due checkpoint has been named.
Strict == phase \in {"train", "duration", "exit"} \/ (phase = "save" /\ step[0] = "end")

\* The job is at most one save interval past a multiple of it that the tracker
\* has reached.
Recent ==
  tracker # Empty =>
    \E k \in Nat : /\ k * SaveInterval <= tracker
                   /\ iteration <= (k + 1) * SaveInterval
                   /\ Strict => iteration < (k + 1) * SaveInterval

\* A step that moves the job within the interval keeps Recent.
LEMMA RecentKept ==
  ASSUME Recent, tracker' = tracker, iteration' = iteration, Strict' => Strict
  PROVE  Recent'
BY DEF Recent

\* Naming the present iteration, or taking it up, makes Recent true.
LEMMA RecentNow ==
  ASSUME iteration' \in Nat, tracker' = iteration'
  PROVE  Recent'
<1>1. PICK k \in Nat : k * SaveInterval <= iteration' /\ iteration' < (k + 1) * SaveInterval
  BY Between, LoopAssumption
<1>2. (k + 1) * SaveInterval \in Nat
  BY NextMultiple, LoopAssumption
<1>3. QED BY <1>1, <1>2 DEF Recent

\* Every step keeps Recent.
LEMMA RecentNext ==
  ASSUME Good, Recent, [Next]_vars
  PROVE  Recent'
<1>0. /\ 0 \in Ranks /\ 0 \in Writers /\ Writers \subseteq Ranks
      /\ iteration \in Nat /\ SaveInterval \in Nat \ {0}
      /\ step \in [Ranks -> {"begin", "writing", "barrier", "publish", "truncated", "end"}]
      /\ phase \in {"train", "signals", "interval", "duration", "exit"} =>
           step[0] = "begin" /\ tracker # Empty
  BY LoopAssumption DEF Good, SaveInv, Ordered, Undamaged, TypeOK, Content, Checkpoint
<1>1. CASE StartFresh
  BY <1>1, RecentNow DEF StartFresh, Resume, disk, NoTracker
<1>2. CASE LoadCheckpoint
  <2>1. tracker \in 1 .. TrainIters /\ files[0][tracker] \in Checkpoint
    BY <1>0, <1>2, ItersAssumption DEF LoadCheckpoint, Readable, Good, TypeOK, Empty
  <2>2. iteration' = tracker /\ tracker' = tracker /\ tracker \in Nat
    BY <1>0, <1>2, <2>1, ItersAssumption DEF LoadCheckpoint, Resume, disk, Good, SaveInv, Labelled
  <2>3. QED BY <2>2, RecentNow
<1>3. CASE LoadFails
  BY <1>3, RecentKept DEF LoadFails, Strict, GoTo, data, disk
<1>4. CASE TrainStep
  <2>1. phase = "train" /\ iteration' = iteration + 1 /\ tracker' = tracker /\ ~Strict'
    BY <1>4 DEF TrainStep, GoTo, Strict, disk
  <2>2. PICK k \in Nat : k * SaveInterval <= tracker /\ iteration < (k + 1) * SaveInterval
    BY <1>0, <2>1 DEF Recent, Strict
  <2>3. (k + 1) * SaveInterval \in Nat
    BY <1>0, NextMultiple
  <2>4. iteration' <= (k + 1) * SaveInterval
    BY <1>0, <2>1, <2>2, <2>3
  <2>5. QED BY <2>1, <2>2, <2>4 DEF Recent
<1>5. CASE TrainingDone
  BY <1>0, <1>5, RecentKept DEF TrainingDone, Strict, GoTo, data, disk
<1>6. CASE ExitOnSignal
  BY <1>0, <1>6, RecentKept DEF ExitOnSignal, SaveThen, Strict, GoTo, data, disk
<1>7. CASE SaveOnInterval
  <2>1. phase = "interval" /\ UNCHANGED <<iteration, tracker, step>>
    BY <1>7 DEF SaveOnInterval, data, disk
  <2>2. CASE IntervalDue
    <3>1. phase' = "save"
      BY <1>7, <2>2 DEF SaveOnInterval, SaveThen, GoTo
    <3>2. QED BY <1>0, <2>1, <3>1, RecentKept DEF Strict
  <2>3. CASE ~IntervalDue
    <3>1. PICK k \in Nat : k * SaveInterval <= tracker /\ iteration <= (k + 1) * SaveInterval
      BY <1>0, <2>1 DEF Recent
    <3>2. ((k + 1) * SaveInterval) % SaveInterval = 0 /\ (k + 1) * SaveInterval \in Nat
      BY <1>0, NextMultiple
    <3>3. iteration # (k + 1) * SaveInterval
      BY <2>3, <3>2 DEF IntervalDue
    <3>4. iteration < (k + 1) * SaveInterval
      BY <1>0, <3>1, <3>2, <3>3
    <3>5. QED BY <2>1, <3>1, <3>4 DEF Recent
  <2>4. QED BY <2>2, <2>3
<1>8. CASE ExitOnDuration
  BY <1>0, <1>8, RecentKept DEF ExitOnDuration, Exit, SaveThen, Strict, GoTo, data, disk
<1>9. CASE ExitOnInterval
  BY <1>0, <1>9, RecentKept DEF ExitOnInterval, Exit, SaveThen, Strict, GoTo, data, disk
<1>10. ASSUME NEW w \in Writers, BeginWrite(w) \/ EndWrite(w) PROVE Recent'
  BY <1>0, <1>10, RecentKept DEF BeginWrite, EndWrite, Saving, Strict, data
<1>11. ASSUME NEW r \in Ranks, WritesNothing(r) PROVE Recent'
  BY <1>0, <1>11, RecentKept DEF WritesNothing, Saving, Strict, data, disk
<1>12. CASE Barrier
  BY <1>0, <1>12, RecentKept DEF Barrier, AtBarrier, Strict, Saving, data, disk
<1>13. CASE OpenTracker
  BY <1>13 DEF OpenTracker, Recent
<1>14. CASE WriteTracker
  BY <1>0, <1>14, RecentNow DEF WriteTracker, data
<1>15. CASE SaveDone
  BY <1>0, <1>15, RecentKept DEF SaveDone, Saving, Strict, GoTo, data, disk
<1>16. CASE Launch
  BY <1>16, RecentKept DEF Launch, Strict, GoTo, data, disk
<1>17. CASE Crash
  BY <1>17, RecentKept DEF Crash, Strict, GoTo, data, disk
<1>18. ASSUME NEW r \in Ranks, Signal(r) PROVE Recent'
  BY <1>18, RecentKept DEF Signal, Strict, data, disk
<1>19. CASE UNCHANGED vars
  BY <1>19, RecentKept DEF vars, Strict
<1>20. QED BY <1>1, <1>2, <1>3, <1>4, <1>5, <1>6, <1>7, <1>8, <1>9, <1>10, <1>11, <1>12, <1>13,
     <1>14, <1>15, <1>16, <1>17, <1>18, <1>19 DEF Next, Program, Ended

\* A restart that works repeats at most SaveInterval iterations, wherever the job
\* has died, however often, and whatever else made it save or exit.
THEOREM RepeatsAtMostInterval == Spec => LosesAtMostInterval
<1> DEFINE Step == phase = "start" /\ phase' = "train" => iteration - iteration' <= SaveInterval
<1>1. Init => Recent
  <2> SUFFICES ASSUME Init PROVE Recent
    OBVIOUS
  <2>1. 0 * SaveInterval = 0 /\ (0 + 1) * SaveInterval = SaveInterval /\ 0 < SaveInterval
    BY LoopAssumption
  <2>2. QED
    <3>1. 0 \in Nat /\ 0 * SaveInterval <= tracker /\ iteration < (0 + 1) * SaveInterval
          /\ iteration <= (0 + 1) * SaveInterval
      BY <2>1, LoopAssumption DEF Init, NoTracker
    <3>2. QED BY <3>1, Zenon DEF Recent
<1>2. Good /\ Recent /\ [Next]_vars => Recent'
  BY RecentNext
<1>3. Good /\ Recent /\ [Next]_vars => Step
  <2> SUFFICES ASSUME Good, Recent, Next, phase = "start", phase' = "train"
               PROVE  iteration - iteration' <= SaveInterval
    BY DEF vars
  <2>1. iteration \in Nat /\ tracker \in Int /\ 0 \in Writers /\ SaveInterval \in Nat \ {0}
    BY LoopAssumption, ItersAssumption DEF Good, TypeOK, Content, Checkpoint, Empty
  <2>2. StartFresh \/ LoadCheckpoint
    BY LoopAssumption DEF Next, Program, Ended, LoadFails, TrainStep, TrainingDone, ExitOnSignal,
           SaveOnInterval, ExitOnDuration, ExitOnInterval, BeginWrite, EndWrite,
           WritesNothing, Barrier, OpenTracker, WriteTracker, SaveDone, Saving,
           Launch, Crash, Signal, GoTo, vars
  <2>3. iteration' = tracker /\ tracker # Empty
    <3>1. CASE StartFresh
      BY <3>1 DEF StartFresh, Resume, NoTracker, Empty
    <3>2. CASE LoadCheckpoint
      <4>1. tracker \in 1 .. TrainIters /\ files[0][tracker] \in Checkpoint
        BY <2>1, <3>2, ItersAssumption DEF LoadCheckpoint, Readable, Good, TypeOK, Empty
      <4>2. QED
        BY <2>1, <3>2, <4>1, ItersAssumption DEF LoadCheckpoint, Resume, Good, SaveInv, Labelled, Empty
    <3>3. QED BY <2>2, <3>1, <3>2
  <2>4. PICK k \in Nat : k * SaveInterval <= tracker /\ iteration <= (k + 1) * SaveInterval
    BY <2>3 DEF Recent
  <2>5. k * SaveInterval \in Nat /\ (k + 1) * SaveInterval = k * SaveInterval + SaveInterval
    BY <2>1, NextMultiple
  <2> HIDE DEF Step
  <2>6. QED BY <2>1, <2>3, <2>4, <2>5
<1>4. QED BY <1>1, <1>2, <1>3, GoodAlways, PTL DEF Spec, LosesAtMostInterval
----------------------------------------------------------------------------
(***************************************************************************)
(* Induction over the iterations, from the well-foundedness of <.          *)
(***************************************************************************)
\* A set of naturals that is not empty has a least member.
LEMMA LeastNumber ==
  ASSUME NEW T \in SUBSET Nat, T # {}
  PROVE  \E x \in T : \A y \in T : ~(y < x)
<1> DEFINE R == OpToRel(<, Nat)
<1>1. IsWellFoundedOn(R, Nat)
  BY NatLessThanWellFounded, Zenon
<1>2. \A x, y \in Nat : x < y => <<x, y>> \in R
  BY Zenon DEF OpToRel
<1> HIDE DEF R
<1>3. PICK x \in T : \A y \in T : ~ (<<y, x>> \in R)
  BY <1>1, WFMin, Zenon
<1>4. QED BY <1>2, <1>3

\* Induction for a property given by the set of the numbers that have it.
LEMMA Induct ==
  ASSUME NEW S, 0 \in S, \A n \in Nat : n \in S => n + 1 \in S
  PROVE  Nat \subseteq S
<1> DEFINE T == Nat \ S
<1>1. SUFFICES ASSUME T # {} PROVE FALSE
  OBVIOUS
<1>2. T \in SUBSET Nat
  OBVIOUS
<1> HIDE DEF T
<1>3. PICK x \in T : \A y \in T : ~(y < x)
  BY <1>1, <1>2, LeastNumber
<1>4. x \in Nat /\ x \notin S
  BY DEF T
<1>5. x # 0 /\ x - 1 \in Nat /\ x - 1 < x /\ (x - 1) + 1 = x
  BY <1>4
<1>6. x - 1 \in S
  BY <1>3, <1>5 DEF T
<1>7. QED BY <1>4, <1>5, <1>6

----------------------------------------------------------------------------
(***************************************************************************)
(* ConsumedAfter: the recursive definition has the value its text says.    *)
(***************************************************************************)
\* g gives what is consumed after the first n iterations.
Chain(g, n) ==
  /\ g \in [0 .. n -> Nat] /\ g[0] = 0
  /\ \A i \in 1 .. n : g[i] = g[i - 1] + NumMicrobatches(g[i - 1])

\* There is such a function for every number of iterations,
LEMMA ChainExists == ASSUME NEW n \in Nat PROVE \E g : Chain(g, n)
<1> DEFINE S == {m \in Nat : \E g : Chain(g, m)}
<1>1. 0 \in S
  <2>1. Chain([i \in 0 .. 0 |-> 0], 0)
    BY DEF Chain
  <2>2. QED BY <2>1
<1>2. ASSUME NEW m \in Nat, m \in S PROVE m + 1 \in S
  <2>1. PICK g : Chain(g, m)
    BY <1>2
  <2> DEFINE next == g[m] + NumMicrobatches(g[m])
             h == [i \in 0 .. m + 1 |-> IF i = m + 1 THEN next ELSE g[i]]
  <2>2. g \in [0 .. m -> Nat] /\ g[0] = 0
        /\ \A i \in 1 .. m : g[i] = g[i - 1] + NumMicrobatches(g[i - 1])
    BY <2>1 DEF Chain
  <2>3. g[m] \in Nat
    BY <2>2
  <2>4. next \in Nat
    BY <2>3, NumMicrobatchesNat
  <2> HIDE DEF next
  <2>5. h \in [0 .. m + 1 -> Nat] /\ h[0] = 0 /\ h[m + 1] = next
    BY <2>2, <2>4
  <2>6. \A i \in 0 .. m : h[i] = g[i]
    OBVIOUS
  <2> HIDE DEF h
  <2>7. ASSUME NEW i \in 1 .. m + 1 PROVE h[i] = h[i - 1] + NumMicrobatches(h[i - 1])
    <3>1. CASE i = m + 1
      <4>1. i - 1 = m /\ h[m] = g[m]
        BY <2>6, <3>1
      <4>2. QED BY <2>5, <3>1, <4>1 DEF next
    <3>2. CASE i # m + 1
      <4>1. i \in 1 .. m /\ h[i] = g[i] /\ h[i - 1] = g[i - 1]
        BY <2>6, <3>2
      <4>2. QED BY <2>2, <4>1
    <3>3. QED BY <3>1, <3>2
  <2>8. Chain(h, m + 1)
    BY <2>5, <2>7 DEF Chain
  <2>9. QED BY <2>8
<1> HIDE DEF S
<1>3. n \in S
  BY <1>1, <1>2, Induct
<1>4. QED BY <1>3 DEF S

\* and two of them agree where both are defined.
LEMMA ChainUnique ==
  ASSUME NEW m \in Nat, NEW n \in Nat, NEW g, NEW h, Chain(g, m), Chain(h, n), NEW i \in Nat
  PROVE  i <= m /\ i <= n => g[i] = h[i]
<1> DEFINE S == {k \in Nat : k <= m /\ k <= n => g[k] = h[k]}
<1>1. 0 \in S
  BY DEF Chain
<1>2. ASSUME NEW k \in Nat, k \in S PROVE k + 1 \in S
  <2>1. CASE k + 1 <= m /\ k + 1 <= n
    <3>1. k + 1 \in 1 .. m /\ k + 1 \in 1 .. n /\ (k + 1) - 1 = k /\ g[k] = h[k]
      BY <1>2, <2>1
    <3>2. g[k + 1] = g[k] + NumMicrobatches(g[k])
      BY <3>1 DEF Chain
    <3>3. h[k + 1] = h[k] + NumMicrobatches(h[k])
      BY <3>1 DEF Chain
    <3>4. QED BY <3>1, <3>2, <3>3
  <2>2. QED BY <2>1
<1> HIDE DEF S
<1>3. i \in S
  BY <1>1, <1>2, Induct
<1>4. QED BY <1>3 DEF S

\* What is consumed after an iteration.
LEMMA ConsumedStep ==
  /\ ConsumedAfter[0] = 0
  /\ \A n \in Nat : /\ ConsumedAfter[n] \in Nat
                    /\ ConsumedAfter[n + 1] = ConsumedAfter[n] + NumMicrobatches(ConsumedAfter[n])
<1> DEFINE chain(n) == CHOOSE g : Chain(g, n)
           G == [n \in Nat |-> chain(n)[n]]
<1>1. \A n \in Nat : Chain(chain(n), n)
  BY ChainExists
<1> HIDE DEF chain
<1>2. G[0] = 0
  BY <1>1 DEF Chain
<1>3. ASSUME NEW n \in Nat
      PROVE  G[n] \in Nat /\ G[n + 1] = G[n] + NumMicrobatches(G[n])
  <2>1. Chain(chain(n), n) /\ Chain(chain(n + 1), n + 1)
    BY <1>1
  <2>2. chain(n)[n] = chain(n + 1)[n]
    <3> DEFINE g == chain(n)  h == chain(n + 1)
    <3> HIDE DEF g, h
    <3>1. Chain(g, n) /\ Chain(h, n + 1) /\ n + 1 \in Nat /\ n <= n /\ n <= n + 1
      BY <2>1 DEF g, h
    <3>2. g[n] = h[n]
      BY <3>1, ChainUnique
    <3>3. QED BY <3>2 DEF g, h
  <2>3. n + 1 \in 1 .. n + 1 /\ (n + 1) - 1 = n /\ n \in 0 .. n + 1
    OBVIOUS
  <2>4. chain(n + 1)[n + 1] = chain(n + 1)[n] + NumMicrobatches(chain(n + 1)[n])
        /\ chain(n + 1)[n] \in Nat
    BY <2>1, <2>3 DEF Chain
  <2>5. QED BY <2>2, <2>4
<1> HIDE DEF G
<1>4. G = [n \in Nat |-> IF n = 0 THEN 0 ELSE G[n - 1] + NumMicrobatches(G[n - 1])]
  <2>1. \A n \in Nat : G[n] = IF n = 0 THEN 0 ELSE G[n - 1] + NumMicrobatches(G[n - 1])
    <3> SUFFICES ASSUME NEW n \in Nat
                 PROVE  G[n] = IF n = 0 THEN 0 ELSE G[n - 1] + NumMicrobatches(G[n - 1])
      OBVIOUS
    <3>1. CASE n = 0
      BY <1>2, <3>1
    <3>2. CASE n # 0
      <4>1. n - 1 \in Nat /\ (n - 1) + 1 = n
        BY <3>2
      <4>2. G[n] = G[n - 1] + NumMicrobatches(G[n - 1])
        BY <1>3, <4>1
      <4>3. QED BY <3>2, <4>2
    <3>3. QED BY <3>1, <3>2
  <2>2. G = [n \in Nat |-> G[n]]
    BY DEF G
  <2>3. QED BY <2>1, <2>2
<1>5. ConsumedAfter =
        [n \in Nat |-> IF n = 0 THEN 0
                       ELSE ConsumedAfter[n - 1] + NumMicrobatches(ConsumedAfter[n - 1])]
  BY <1>4, Zenon DEF ConsumedAfter
<1> DEFINE S == {n \in Nat : ConsumedAfter[n] \in Nat}
<1>6. ConsumedAfter[0] = 0
  BY <1>5
<1>7. \A n \in Nat :
        ConsumedAfter[n + 1] = ConsumedAfter[n] + NumMicrobatches(ConsumedAfter[n])
  <2> SUFFICES ASSUME NEW n \in Nat
               PROVE  ConsumedAfter[n + 1] = ConsumedAfter[n] + NumMicrobatches(ConsumedAfter[n])
    OBVIOUS
  <2>1. n + 1 \in Nat /\ n + 1 # 0 /\ (n + 1) - 1 = n
    OBVIOUS
  <2>2. QED BY <1>5, <2>1
<1>8. Nat \subseteq S
  <2>1. 0 \in S
    BY <1>6
  <2>2. ASSUME NEW n \in Nat, n \in S PROVE n + 1 \in S
    <3>1. ConsumedAfter[n] \in Nat
      BY <2>2
    <3>2. NumMicrobatches(ConsumedAfter[n]) \in Nat
      BY <3>1, NumMicrobatchesNat
    <3>3. QED BY <1>7, <3>1, <3>2
  <2> HIDE DEF S
  <2>3. QED BY <2>1, <2>2, Induct
<1>9. QED BY <1>6, <1>7, <1>8


----------------------------------------------------------------------------
(***************************************************************************)
(* RampUp: where the batch size has grown to its full.                     *)
(***************************************************************************)
\* A quotient of a product by a factor that is not smaller.
LEMMA QuotientBound ==
  ASSUME NEW c \in Nat, NEW k \in Nat, NEW r \in Nat \ {0}, c <= r
  PROVE  (c * k) \div r <= k
<1> DEFINE p == c * k
           q == p \div r
<1>1. p \in Nat /\ p <= r * k
  BY ProductNat
<1> HIDE DEF p
<1>2. q \in Nat /\ q * r <= p
  BY <1>1
<1> HIDE DEF q
<1>3. q * r <= k * r
  BY <1>1, <1>2
<1>4. q <= k
  BY <1>2, <1>3
<1>5. QED BY <1>4 DEF q, p

\* Every step has a microbatch, and at most GlobalBatch: all of them when the batch
\* size does not grow, or no more.
LEMMA BatchBounds ==
  ASSUME NEW c \in Nat
  PROVE  /\ NumMicrobatches(c) \in 1 .. GlobalBatch
         /\ StartBatch = GlobalBatch \/ c > RampSamples => NumMicrobatches(c) = GlobalBatch
<1> DEFINE increments == (GlobalBatch - StartBatch) \div Increment
           grown == (c * increments) \div RampSamples
<1>1. /\ GlobalBatch - StartBatch \in Nat /\ Increment \in Nat \ {0} /\ RampSamples \in Nat \ {0}
      /\ StartBatch \in Nat \ {0} /\ GlobalBatch \in Nat \ {0}
      /\ (GlobalBatch - StartBatch) % Increment = 0
  BY LoopAssumption
<1>2. CASE StartBatch = GlobalBatch \/ c > RampSamples
  BY <1>1, <1>2 DEF NumMicrobatches
<1>3. CASE ~(StartBatch = GlobalBatch \/ c > RampSamples)
  <2>1. NumMicrobatches(c) = StartBatch + Increment * grown
    BY <1>3 DEF NumMicrobatches
  <2>2. increments \in Nat /\ Increment * increments = GlobalBatch - StartBatch
    BY <1>1
  <2> HIDE DEF increments
  <2>3. c * increments \in Nat
    BY <2>2, ProductNat
  <2>4. grown \in Nat
    BY <1>1, <2>3, DivNat
  <2>5. c <= RampSamples
    BY <1>1, <1>3
  <2>6. grown <= increments
    BY <1>1, <2>2, <2>5, QuotientBound
  <2> HIDE DEF grown
  <2>7. Increment * grown \in Nat /\ Increment * grown <= Increment * increments
    BY <1>1, <2>2, <2>4, <2>6
  <2>8. QED BY <1>1, <1>3, <2>1, <2>2, <2>7
<1>4. QED BY <1>2, <1>3

\* The value of RampUp's function at c, from its values behind c.
RampFrom(g, c) ==
  IF c > RampSamples THEN [iterations |-> 0, consumed |-> c]
  ELSE [g[c + NumMicrobatches(c)] EXCEPT !.iterations = @ + 1]

Places == 0 .. RampSamples + GlobalBatch
Ramps  == [iterations : Nat, consumed : Nat]

\* g is such a function on the places from m on.
RampFunction(g, m) ==
  /\ g \in [m .. RampSamples + GlobalBatch -> Ramps]
  /\ \A c \in m .. RampSamples + GlobalBatch : g[c] = RampFrom(g, c)

\* The function exists: its value at a place depends on those behind it.
LEMMA RampExists == \E g : RampFunction(g, 0)
<1> DEFINE N == RampSamples + GlobalBatch
           S == {k \in Nat : k <= N => \E g : RampFunction(g, N - k)}
<1>0. RampSamples \in Nat /\ GlobalBatch \in Nat \ {0} /\ N \in Nat /\ RampSamples < N
  BY LoopAssumption
<1>1. 0 \in S
  <2> DEFINE g == [c \in N .. N |-> [iterations |-> 0, consumed |-> c]]
  <2>1. g \in [N .. N -> Ramps] /\ g[N] = [iterations |-> 0, consumed |-> N]
    BY <1>0 DEF Ramps
  <2> HIDE DEF g
  <2>2. \A c \in N .. N : c = N
    BY <1>0
  <2>3. g[N] = RampFrom(g, N)
    BY <1>0, <2>1 DEF RampFrom
  <2>4. RampFunction(g, N)
    BY <2>1, <2>2, <2>3 DEF RampFunction
  <2>5. N - 0 = N
    BY <1>0
  <2>6. QED BY <2>4, <2>5
<1>2. ASSUME NEW k \in Nat, k \in S PROVE k + 1 \in S
  <2>1. SUFFICES ASSUME k + 1 <= N PROVE \E g : RampFunction(g, N - (k + 1))
    OBVIOUS
  <2> DEFINE m == N - (k + 1)
  <2>2. m \in Nat /\ m + 1 = N - k /\ m < N /\ k <= N
    BY <1>0, <2>1
  <2>3. PICK g : RampFunction(g, m + 1)
    BY <1>2, <2>2
  <2> DEFINE h == [c \in m .. N |-> IF c = m THEN RampFrom(g, m) ELSE g[c]]
  <2> HIDE DEF m
  <2>4. g \in [m + 1 .. N -> Ramps] /\ \A c \in m + 1 .. N : g[c] = RampFrom(g, c)
    BY <2>3 DEF RampFunction
  <2>5. ASSUME NEW c \in m .. N, c <= RampSamples
        PROVE  c + NumMicrobatches(c) \in m + 1 .. N /\ c + NumMicrobatches(c) # m
    <3>1. NumMicrobatches(c) \in 1 .. GlobalBatch
      BY <2>2, BatchBounds
    <3>2. QED BY <1>0, <2>2, <2>5, <3>1
  <2>6. RampFrom(g, m) \in Ramps
    <3>1. CASE m > RampSamples
      BY <2>2, <3>1 DEF RampFrom, Ramps
    <3>2. CASE ~(m > RampSamples)
      <4>1. g[m + NumMicrobatches(m)] \in Ramps
        BY <1>0, <2>2, <2>4, <2>5, <3>2
      <4>2. QED BY <3>2, <4>1 DEF RampFrom, Ramps
    <3>3. QED BY <3>1, <3>2
  <2>7. h \in [m .. N -> Ramps] /\ h[m] = RampFrom(g, m) /\ \A c \in m + 1 .. N : h[c] = g[c]
    BY <1>0, <2>2, <2>4, <2>6
  <2> HIDE DEF h
  <2>8. ASSUME NEW c \in m .. N PROVE h[c] = RampFrom(h, c)
    <3>1. h[c] = RampFrom(g, c)
      BY <1>0, <2>2, <2>4, <2>7
    <3>2. RampFrom(h, c) = RampFrom(g, c)
      <4>1. CASE c > RampSamples
        BY <4>1 DEF RampFrom
      <4>2. CASE ~(c > RampSamples)
        <5>1. h[c + NumMicrobatches(c)] = g[c + NumMicrobatches(c)]
          BY <1>0, <2>2, <2>5, <2>7, <4>2
        <5>2. QED BY <4>2, <5>1 DEF RampFrom
      <4>3. QED BY <4>1, <4>2
    <3>3. QED BY <3>1, <3>2
  <2>9. RampFunction(h, m)
    BY <2>7, <2>8 DEF RampFunction
  <2>10. QED BY <2>9 DEF m
<1> HIDE DEF S
<1>3. N \in S
  BY <1>0, <1>1, <1>2, Induct
<1>4. N - N = 0 /\ N <= N
  BY <1>0
<1>5. QED BY <1>3, <1>4 DEF S

\* RampUp is the value at 0 of such a function.
LEMMA RampUpValue == \E g : RampFunction(g, 0) /\ RampUp = g[0]
<1> DEFINE f == CHOOSE f : f = [c \in Places |-> RampFrom(f, c)]
<1>1. PICK g : RampFunction(g, 0)
  BY RampExists
<1>2. g = [c \in Places |-> RampFrom(g, c)]
  BY <1>1 DEF RampFunction, Places
<1>3. f = [c \in Places |-> RampFrom(f, c)]
  BY <1>2, Zenon
<1>4. RampUp = f[0]
  BY DEF RampUp, RampFrom, Places
<1> HIDE DEF f
<1> DEFINE N == RampSamples + GlobalBatch
           S == {k \in Nat : \A c \in N - k .. N : c \in Nat => f[c] = g[c]}
<1>5. RampSamples \in Nat /\ GlobalBatch \in Nat \ {0} /\ N \in Nat /\ RampSamples < N
  BY LoopAssumption
<1>6. \A c \in 0 .. N : f[c] = RampFrom(f, c) /\ g[c] = RampFrom(g, c)
  BY <1>2, <1>3 DEF Places
<1>7. 0 \in S
  <2>1. f[N] = RampFrom(f, N) /\ g[N] = RampFrom(g, N)
    BY <1>5, <1>6
  <2>2. f[N] = g[N]
    BY <1>5, <2>1 DEF RampFrom
  <2>3. \A c \in N - 0 .. N : c = N
    BY <1>5
  <2>4. QED BY <2>2, <2>3
<1>8. ASSUME NEW k \in Nat, k \in S PROVE k + 1 \in S
  <2>1. SUFFICES ASSUME NEW c \in N - (k + 1) .. N, c \in Nat PROVE f[c] = g[c]
    OBVIOUS
  <2>2. c \in 0 .. N
    BY <1>5, <2>1
  <2>3. CASE c > RampSamples
    BY <1>6, <2>2, <2>3 DEF RampFrom
  <2>4. CASE ~(c > RampSamples)
    <3>1. NumMicrobatches(c) \in 1 .. GlobalBatch
      BY <2>1, BatchBounds
    <3>2. c + NumMicrobatches(c) \in N - k .. N /\ c + NumMicrobatches(c) \in Nat
      BY <1>5, <2>1, <2>4, <3>1
    <3>3. f[c + NumMicrobatches(c)] = g[c + NumMicrobatches(c)]
      BY <1>8, <3>2
    <3>4. QED BY <1>6, <2>2, <2>4, <3>3 DEF RampFrom
  <2>5. QED BY <2>3, <2>4
<1> HIDE DEF S
<1>9. N \in S
  BY <1>5, <1>7, <1>8, Induct
<1>10. f[0] = g[0]
  <2>1. 0 \in N - N .. N /\ 0 \in Nat
    BY <1>5
  <2>2. QED BY <1>9, <2>1 DEF S
<1>11. QED BY <1>1, <1>4, <1>10


----------------------------------------------------------------------------
(***************************************************************************)
(* The iterations computed before the start fit the batches of the loop.   *)
(***************************************************************************)
\* What is consumed grows by at least one batch and at most GlobalBatch of them.
LEMMA ConsumedGrows ==
  ASSUME NEW i \in Nat, NEW j \in Nat, i < j
  PROVE  ConsumedAfter[i] + (j - i) <= ConsumedAfter[j]
<1> DEFINE S == {k \in Nat : i <= k => ConsumedAfter[i] + (k - i) <= ConsumedAfter[k]}
<1>1. 0 \in S
  BY ConsumedStep
<1>2. ASSUME NEW k \in Nat, k \in S PROVE k + 1 \in S
  <2>1. ConsumedAfter[k] \in Nat /\ ConsumedAfter[i] \in Nat /\ ConsumedAfter[k + 1] \in Nat
        /\ ConsumedAfter[k + 1] = ConsumedAfter[k] + NumMicrobatches(ConsumedAfter[k])
    BY ConsumedStep
  <2>2. NumMicrobatches(ConsumedAfter[k]) \in 1 .. GlobalBatch
    BY <2>1, BatchBounds
  <2>3. CASE i = k + 1
    BY <2>1, <2>3
  <2>4. CASE i # k + 1
    BY <1>2, <2>1, <2>2, <2>4
  <2>5. QED BY <2>3, <2>4
<1> HIDE DEF S
<1>3. j \in S
  BY <1>1, <1>2, Induct
<1>4. QED BY <1>3 DEF S

\* In particular it does not shrink.
LEMMA ConsumedMonotone ==
  ASSUME NEW i \in Nat, NEW j \in Nat, i <= j
  PROVE  ConsumedAfter[i] <= ConsumedAfter[j]
<1>1. ConsumedAfter[i] \in Nat /\ ConsumedAfter[j] \in Nat
  BY ConsumedStep
<1>2. CASE i = j
  BY <1>1, <1>2
<1>3. CASE i # j
  BY <1>1, <1>3, ConsumedGrows
<1>4. QED BY <1>2, <1>3

\* The loop that counts the iterations of the ramp-up meets what training
\* consumes: after as many turns as iterations it is at the same place.
LEMMA RampFollows ==
  ASSUME NEW g, RampFunction(g, 0), NEW n \in Nat,
         \A j \in 0 .. n - 1 : ConsumedAfter[j] <= RampSamples
  PROVE  /\ ConsumedAfter[n] \in 0 .. RampSamples + GlobalBatch
         /\ g[0].iterations = n + g[ConsumedAfter[n]].iterations
         /\ g[0].consumed = g[ConsumedAfter[n]].consumed
<1> DEFINE at(k) == ConsumedAfter[k]
           S == {k \in Nat : k <= n => /\ at(k) \in 0 .. RampSamples + GlobalBatch
                                       /\ g[0].iterations = k + g[at(k)].iterations
                                       /\ g[0].consumed = g[at(k)].consumed}
<1>0. RampSamples \in Nat /\ GlobalBatch \in Nat
      /\ g \in [0 .. RampSamples + GlobalBatch -> Ramps]
      /\ \A c \in 0 .. RampSamples + GlobalBatch : g[c] = RampFrom(g, c)
  BY LoopAssumption DEF RampFunction
<1>1. 0 \in S
  <2>1. at(0) = 0 /\ 0 \in 0 .. RampSamples + GlobalBatch
    BY <1>0, ConsumedStep
  <2>2. g[0].iterations \in Nat
    BY <1>0, <2>1 DEF Ramps
  <2>3. QED BY <2>1, <2>2
<1>2. ASSUME NEW k \in Nat, k \in S PROVE k + 1 \in S
  <2>1. SUFFICES ASSUME k + 1 <= n
                 PROVE  /\ at(k + 1) \in 0 .. RampSamples + GlobalBatch
                        /\ g[0].iterations = (k + 1) + g[at(k + 1)].iterations
                        /\ g[0].consumed = g[at(k + 1)].consumed
    OBVIOUS
  <2>2. at(k) \in Nat /\ at(k + 1) = at(k) + NumMicrobatches(at(k)) /\ at(k) <= RampSamples
    BY <2>1, ConsumedStep
  <2>3. NumMicrobatches(at(k)) \in 1 .. GlobalBatch
    BY <2>2, BatchBounds
  <2>4. /\ at(k) \in 0 .. RampSamples + GlobalBatch
        /\ g[0].iterations = k + g[at(k)].iterations
        /\ g[0].consumed = g[at(k)].consumed
    BY <1>2, <2>1
  <2> HIDE DEF at
  <2>5. at(k + 1) \in 0 .. RampSamples + GlobalBatch
    BY <1>0, <2>2, <2>3
  <2>6. g[at(k)] = [g[at(k + 1)] EXCEPT !.iterations = @ + 1]
    BY <1>0, <2>2, <2>4 DEF RampFrom
  <2>7. g[at(k + 1)] \in Ramps
    BY <1>0, <2>5
  <2>8. g[at(k)].iterations = g[at(k + 1)].iterations + 1 /\ g[at(k + 1)].iterations \in Nat
        /\ g[at(k)].consumed = g[at(k + 1)].consumed
    BY <2>6, <2>7 DEF Ramps
  <2>9. QED BY <2>4, <2>5, <2>8
<1> HIDE DEF S
<1>3. n \in S
  BY <1>1, <1>2, Induct
<1>4. QED BY <1>3 DEF S

\* The training is longer than its ramp-up, if it has one.
LongerThanRampUp == StartBatch = GlobalBatch \/ RampUp.consumed <= TrainSamples

\* From some iteration on all batches are full, and train_iters counts the full
\* batches that fit behind it.
LEMMA FullBatches ==
  ASSUME LongerThanRampUp
  PROVE  \E n \in Nat :
           /\ ConsumedAfter[n] <= TrainSamples
           /\ \A k \in Nat : k >= n => NumMicrobatches(ConsumedAfter[k]) = GlobalBatch
           /\ TrainIters = n + (TrainSamples - ConsumedAfter[n]) \div GlobalBatch
<1>0. GlobalBatch \in Nat \ {0} /\ TrainSamples \in Nat \ {0} /\ RampSamples \in Nat
      /\ ConsumedAfter[0] = 0 /\ \A k \in Nat : ConsumedAfter[k] \in Nat
  BY LoopAssumption, ConsumedStep
<1>1. CASE StartBatch = GlobalBatch
  <2>1. \A k \in Nat : NumMicrobatches(ConsumedAfter[k]) = GlobalBatch
    BY <1>0, <1>1, BatchBounds
  <2>2. TrainIters = TrainSamples \div GlobalBatch
    BY <1>1 DEF TrainIters
  <2>3. TrainSamples \div GlobalBatch \in Nat /\ TrainSamples - 0 = TrainSamples
    BY <1>0
  <2>4. TrainIters = 0 + (TrainSamples - ConsumedAfter[0]) \div GlobalBatch
    BY <1>0, <2>2, <2>3
  <2>5. ConsumedAfter[0] <= TrainSamples
    BY <1>0
  <2>6. QED BY <2>1, <2>4, <2>5
<1>2. CASE StartBatch # GlobalBatch
  <2> DEFINE T == {k \in Nat : ConsumedAfter[k] > RampSamples}
  <2>1. RampSamples + 1 \in T
    <3>1. ConsumedAfter[0] + ((RampSamples + 1) - 0) <= ConsumedAfter[RampSamples + 1]
      BY <1>0, ConsumedGrows
    <3>2. QED BY <1>0, <3>1
  <2>2. T \in SUBSET Nat /\ T # {}
    BY <2>1
  <2>3. PICK n \in T : \A j \in T : ~(j < n)
    BY <2>2, LeastNumber
  <2>4. n \in Nat /\ ConsumedAfter[n] > RampSamples
    OBVIOUS
  <2>5. \A j \in 0 .. n - 1 : ConsumedAfter[j] <= RampSamples
    BY <1>0, <2>3, <2>4
  <2> HIDE DEF T
  <2>6. PICK g : RampFunction(g, 0) /\ RampUp = g[0]
    BY RampUpValue
  <2>7. /\ ConsumedAfter[n] \in 0 .. RampSamples + GlobalBatch
        /\ g[0].iterations = n + g[ConsumedAfter[n]].iterations
        /\ g[0].consumed = g[ConsumedAfter[n]].consumed
    BY <2>4, <2>5, <2>6, RampFollows
  <2>8. g[ConsumedAfter[n]] = [iterations |-> 0, consumed |-> ConsumedAfter[n]]
    BY <2>4, <2>6, <2>7 DEF RampFunction, RampFrom
  <2>9. RampUp.iterations = n /\ RampUp.consumed = ConsumedAfter[n]
    BY <2>4, <2>6, <2>7, <2>8
  <2>10. ConsumedAfter[n] <= TrainSamples
         /\ TrainIters = n + (TrainSamples - ConsumedAfter[n]) \div GlobalBatch
    BY <1>2, <2>9 DEF LongerThanRampUp, TrainIters
  <2>11. ASSUME NEW k \in Nat, k >= n PROVE NumMicrobatches(ConsumedAfter[k]) = GlobalBatch
    <3>1. ConsumedAfter[n] <= ConsumedAfter[k]
      BY <2>4, <2>11, ConsumedMonotone
    <3>2. ConsumedAfter[k] > RampSamples
      BY <1>0, <2>4, <3>1
    <3>3. QED BY <1>0, <3>2, BatchBounds
  <2>12. QED BY <2>4, <2>10, <2>11
<1>3. QED BY <1>1, <1>2

\* At the end less than one batch is missing, and before it nothing too much has
\* been consumed.
LEMMA IterationsFit ==
  ASSUME LongerThanRampUp
  PROVE  /\ \A i \in 0 .. TrainIters : ConsumedAfter[i] <= TrainSamples
         /\ TrainSamples - ConsumedAfter[TrainIters] < GlobalBatch
<1>0. GlobalBatch \in Nat \ {0} /\ TrainSamples \in Nat /\ \A k \in Nat : ConsumedAfter[k] \in Nat
  BY LoopAssumption, ConsumedStep
<1>1. PICK n \in Nat :
        /\ ConsumedAfter[n] <= TrainSamples
        /\ \A k \in Nat : k >= n => NumMicrobatches(ConsumedAfter[k]) = GlobalBatch
        /\ TrainIters = n + (TrainSamples - ConsumedAfter[n]) \div GlobalBatch
  BY FullBatches
<1> DEFINE start == ConsumedAfter[n]
           q == (TrainSamples - start) \div GlobalBatch
           S == {k \in Nat : ConsumedAfter[n + k] = start + k * GlobalBatch}
<1>2. start \in Nat /\ start <= TrainSamples /\ TrainIters = n + q
  BY <1>0, <1>1
<1>3. 0 \in S
  BY <1>0
<1>4. ASSUME NEW k \in Nat, k \in S PROVE k + 1 \in S
  <2>1. n + k \in Nat /\ n + (k + 1) = (n + k) + 1 /\ n + k >= n
    OBVIOUS
  <2>2. ConsumedAfter[(n + k) + 1] = ConsumedAfter[n + k] + GlobalBatch
    BY <1>1, <2>1, ConsumedStep
  <2>3. (k + 1) * GlobalBatch = k * GlobalBatch + GlobalBatch /\ k * GlobalBatch \in Nat
    BY <1>0
  <2>4. ConsumedAfter[n + k] = start + k * GlobalBatch
    BY <1>4
  <2> HIDE DEF start
  <2>5. ConsumedAfter[n + (k + 1)] = start + (k + 1) * GlobalBatch
    BY <1>0, <1>2, <2>1, <2>2, <2>3, <2>4
  <2>6. QED BY <2>5
<1> HIDE DEF S, start
<1>5. q \in Nat /\ q * GlobalBatch <= TrainSamples - start
      /\ TrainSamples - start < q * GlobalBatch + GlobalBatch
  BY <1>0, <1>2
<1> HIDE DEF q
<1>6. q \in S
  BY <1>3, <1>4, <1>5, Induct
<1>7. ConsumedAfter[TrainIters] = start + q * GlobalBatch /\ TrainIters \in Nat
  BY <1>2, <1>5, <1>6 DEF S
<1>8. q * GlobalBatch \in Nat
  BY <1>0, <1>5
<1>9. ConsumedAfter[TrainIters] <= TrainSamples
      /\ TrainSamples - ConsumedAfter[TrainIters] < GlobalBatch
  BY <1>0, <1>2, <1>5, <1>7, <1>8
<1>10. ASSUME NEW i \in 0 .. TrainIters PROVE ConsumedAfter[i] <= TrainSamples
  <2>1. i \in Nat /\ i <= TrainIters
    BY <1>7
  <2>2. ConsumedAfter[i] <= ConsumedAfter[TrainIters]
    BY <1>7, <2>1, ConsumedMonotone
  <2>3. QED BY <1>0, <1>7, <1>9, <2>1, <2>2
<1>11. QED BY <1>9, <1>10


----------------------------------------------------------------------------
(***************************************************************************)
(* What is trained, over all lives of the job.                             *)
(***************************************************************************)
\* The batches of step i of a training without an interruption.
StepBatches(i) == ConsumedAfter[i - 1] .. ConsumedAfter[i] - 1

\* A state of the training, in memory or in a file, has read for every step what
\* a training without an interruption reads.
Follows(k) ==
  /\ k.consumed = ConsumedAfter[k.iteration]
  /\ \A i \in 1 .. k.iteration, p \in Pipelines : k.trained[i][p] = StepBatches(i)

\* The state in memory and that in every file follow the samples, the data
\* iterators stand where they should, and the job is over, or about to be, only after
\* its last iteration.
Uninterrupted ==
  /\ Follows(Content)
  /\ \A w \in Writers, i \in 1 .. TrainIters :
       files[w][i] \in Checkpoint => Follows(files[w][i])
  /\ \A p \in Pipelines : position[p] = consumed
  /\ phase = "over" \/ (phase = "save" /\ after = "over") => iteration >= TrainIters

\* With one pipeline a pipeline gets all microbatches of a step.
LEMMA AllToOne ==
  ASSUME NumPipelines = 1, NEW n \in Nat
  PROVE  PerPipeline(n) = n
BY DEF PerPipeline

\* A step that leaves the training and the files alone keeps Uninterrupted.
LEMMA UninterruptedKept ==
  ASSUME Uninterrupted, UNCHANGED <<iteration, consumed, trained, position, files>>,
         phase' = "over" \/ (phase' = "save" /\ after' = "over") =>
           \/ phase = "over" \/ (phase = "save" /\ after = "over")
           \/ iteration >= TrainIters
  PROVE  Uninterrupted'
BY DEF Uninterrupted, Content

\* A start that takes over a state that follows the samples follows them too.
LEMMA ResumeFollows ==
  ASSUME Uninterrupted, NEW k \in Checkpoint, Follows(k),
         Resume(k.iteration, k.consumed, k.trained)
  PROVE  Uninterrupted'
<1>1. Content' = k
  BY DEF Resume, Content, Checkpoint
<1>2. files' = files /\ phase' = "train" /\ \A p \in Pipelines : position'[p] = consumed'
  BY DEF Resume, GoTo, disk
<1>3. QED BY <1>1, <1>2 DEF Uninterrupted

\* A training step reads the batches behind those that count as consumed.
LEMMA TrainStepFollows ==
  ASSUME NumPipelines = 1, TypeOK, Uninterrupted, TrainStep
  PROVE  Uninterrupted'
<1> DEFINE n == NumMicrobatches(consumed)
           batches == [p \in Pipelines |-> position[p] .. position[p] + PerPipeline(n) - 1]
<1>1. iteration \in Nat /\ consumed \in Nat /\ trained \in History /\ Len(trained) = iteration
      /\ position \in [Pipelines -> Nat]
  BY ItersAssumption DEF TypeOK, Content, Checkpoint
<1>2. n \in Nat /\ PerPipeline(n) = n
  BY <1>1, NumMicrobatchesNat, AllToOne
<1>3. /\ trained' = Append(trained, batches) /\ iteration' = iteration + 1
      /\ consumed' = consumed + n
      /\ position' = [p \in Pipelines |-> position[p] + PerPipeline(n)]
      /\ phase' = "signals" /\ files' = files
  BY DEF TrainStep, GoTo, disk
<1>4. consumed = ConsumedAfter[iteration] /\ \A p \in Pipelines : position[p] = consumed
  BY DEF Uninterrupted, Follows, Content
<1>5. ConsumedAfter[iteration + 1] = consumed + n
  BY <1>1, <1>4, ConsumedStep
<1> HIDE DEF n
<1>6. \A p \in Pipelines : batches[p] = StepBatches(iteration + 1)
  <2>1. (iteration + 1) - 1 = iteration
    BY <1>1
  <2>2. QED BY <1>1, <1>2, <1>4, <1>5, <2>1 DEF StepBatches
<1> HIDE DEF batches
<1>7. trained'[iteration + 1] = batches /\ \A i \in 1 .. iteration : trained'[i] = trained[i]
  BY <1>1, <1>3 DEF History
<1>8. \A i \in 1 .. iteration, p \in Pipelines : trained[i][p] = StepBatches(i)
  BY DEF Uninterrupted, Follows, Content
<1>9. \A i \in 1 .. iteration + 1, p \in Pipelines : trained'[i][p] = StepBatches(i)
  <2> SUFFICES ASSUME NEW i \in 1 .. iteration + 1, NEW p \in Pipelines
               PROVE  trained'[i][p] = StepBatches(i)
    OBVIOUS
  <2>1. CASE i = iteration + 1
    BY <1>6, <1>7, <2>1
  <2>2. CASE i # iteration + 1
    <3>1. i \in 1 .. iteration
      BY <1>1, <2>2
    <3>2. QED BY <1>7, <1>8, <3>1
  <2>3. QED BY <2>1, <2>2
<1>10. Follows(Content)'
  BY <1>3, <1>5, <1>9 DEF Follows, Content
<1>11. \A p \in Pipelines : position'[p] = consumed'
  BY <1>2, <1>3, <1>4
<1>12. QED BY <1>3, <1>10, <1>11 DEF Uninterrupted

\* Every step keeps it: a checkpoint takes over the state in memory, and a
\* restart that of a checkpoint.
LEMMA UninterruptedNext ==
  ASSUME NumPipelines = 1, TypeOK, Trained, Uninterrupted, [Next]_vars
  PROVE  Uninterrupted'
<1>0. iteration \in 0 .. TrainIters /\ Content \in Checkpoint /\ 0 \in Writers
      /\ \A p \in Pipelines : position[p] = consumed
  BY LoopAssumption DEF TypeOK, Content, Checkpoint, Uninterrupted
<1>1. CASE StartFresh
  <2> DEFINE k == [iteration |-> 0, consumed |-> 0, trained |-> <<>>]
  <2>1. k \in Checkpoint
    BY ItersAssumption DEF Checkpoint, History
  <2>2. Follows(k)
    BY ConsumedStep DEF Follows
  <2>3. Resume(k.iteration, k.consumed, k.trained)
    BY <1>1 DEF StartFresh
  <2> HIDE DEF k
  <2>4. QED BY <2>1, <2>2, <2>3, ResumeFollows
<1>2. CASE LoadCheckpoint
  <2> DEFINE k == files[0][tracker]
  <2>1. tracker \in 1 .. TrainIters
    BY <1>2, ItersAssumption DEF LoadCheckpoint, TypeOK, Empty
  <2>2. k \in Checkpoint
    BY <1>0, <1>2, <2>1 DEF LoadCheckpoint, Readable, TypeOK
  <2>3. Follows(k)
    BY <1>0, <2>1, <2>2 DEF Uninterrupted
  <2>4. Resume(k.iteration, k.consumed, k.trained)
    BY <1>2 DEF LoadCheckpoint
  <2> HIDE DEF k
  <2>5. QED BY <2>2, <2>3, <2>4, ResumeFollows
<1>3. CASE LoadFails
  BY <1>3, UninterruptedKept DEF LoadFails, GoTo, data, disk
<1>4. CASE TrainStep
  BY <1>4, TrainStepFollows
<1>5. CASE TrainingDone
  BY <1>5, UninterruptedKept DEF TrainingDone, GoTo, data, disk
<1>6. CASE ExitOnSignal
  BY <1>6, UninterruptedKept DEF ExitOnSignal, SaveThen, GoTo, data, disk
<1>7. CASE SaveOnInterval
  BY <1>7, UninterruptedKept DEF SaveOnInterval, SaveThen, GoTo, data, disk
<1>8. CASE ExitOnDuration
  BY <1>8, UninterruptedKept DEF ExitOnDuration, Exit, SaveThen, GoTo, data, disk
<1>9. CASE ExitOnInterval
  BY <1>9, UninterruptedKept DEF ExitOnInterval, Exit, SaveThen, GoTo, data, disk
<1>10. ASSUME NEW w \in Writers, BeginWrite(w) \/ EndWrite(w) PROVE Uninterrupted'
  <2>1. \E c \in {Partial, Content} : files' = [files EXCEPT ![w][iteration] = c]
    BY <1>10 DEF BeginWrite, EndWrite
  <2>2. UNCHANGED <<phase, iteration, consumed, trained, position, after>>
    BY <1>10 DEF BeginWrite, EndWrite, data
  <2>3. Follows(Content) /\ Content' = Content
    BY <2>2 DEF Uninterrupted, Content
  <2>4. ASSUME NEW v \in Writers, NEW i \in 1 .. TrainIters
        PROVE  files'[v][i] \in {files[v][i], Partial, Content}
    BY <2>1 DEF TypeOK
  <2>5. ASSUME NEW v \in Writers, NEW i \in 1 .. TrainIters, files'[v][i] \in Checkpoint
        PROVE  Follows(files'[v][i])
    BY <2>3, <2>4, <2>5, NoCheckpoint DEF Uninterrupted
  <2>6. Follows(Content)'
    BY <2>2, <2>3 DEF Follows
  <2>7. QED BY <1>0, <2>2, <2>5, <2>6 DEF Uninterrupted
<1>11. ASSUME NEW r \in Ranks, WritesNothing(r) PROVE Uninterrupted'
  BY <1>11, UninterruptedKept DEF WritesNothing, data, disk
<1>12. CASE Barrier \/ OpenTracker \/ WriteTracker
  BY <1>12, UninterruptedKept DEF Barrier, OpenTracker, WriteTracker, data, disk
<1>13. CASE SaveDone
  BY <1>13, LoopAssumption, UninterruptedKept DEF SaveDone, Saving, GoTo, data, disk
<1>14. CASE Launch
  BY <1>14, UninterruptedKept DEF Launch, GoTo, data, disk
<1>15. CASE Crash
  BY <1>15, UninterruptedKept DEF Crash, GoTo, data, disk
<1>16. ASSUME NEW r \in Ranks, Signal(r) PROVE Uninterrupted'
  BY <1>16, UninterruptedKept DEF Signal, data, disk
<1>17. CASE UNCHANGED vars
  BY <1>17, UninterruptedKept DEF vars
<1>18. QED BY <1>1, <1>2, <1>3, <1>4, <1>5, <1>6, <1>7, <1>8, <1>9, <1>10, <1>11, <1>12, <1>13,
     <1>14, <1>15, <1>16, <1>17 DEF Next, Program, Ended

\* A batch below what is consumed after n iterations is one of one of them.
LEMMA BatchHasStep ==
  ASSUME NEW n \in Nat, NEW b \in Nat, b < ConsumedAfter[n]
  PROVE  \E i \in 1 .. n : b \in StepBatches(i)
<1> DEFINE T == {i \in Nat : b < ConsumedAfter[i]}
<1>1. T \in SUBSET Nat /\ n \in T /\ T # {}
  OBVIOUS
<1>2. PICK i \in T : \A j \in T : ~(j < i)
  BY <1>1, LeastNumber
<1>3. i \in Nat /\ b < ConsumedAfter[i] /\ ~(n < i) /\ i # 0
  BY <1>1, <1>2, ConsumedStep
<1>4. i - 1 \in Nat /\ i - 1 < i /\ i \in 1 .. n
  BY <1>3
<1>5. ~(b < ConsumedAfter[i - 1])
  BY <1>2, <1>4
<1>6. ConsumedAfter[i - 1] \in Nat /\ ConsumedAfter[i] \in Nat
  BY <1>3, <1>4, ConsumedStep
<1>7. b \in StepBatches(i)
  BY <1>3, <1>5, <1>6 DEF StepBatches
<1>8. QED BY <1>4, <1>7

\* The batches of different steps are different.
LEMMA StepsDisjoint ==
  ASSUME NEW i \in Nat \ {0}, NEW j \in Nat \ {0}, i < j
  PROVE  StepBatches(i) \intersect StepBatches(j) = {}
<1>1. i \in Nat /\ j - 1 \in Nat /\ i - 1 \in Nat /\ i <= j - 1
  OBVIOUS
<1>2. ConsumedAfter[i] <= ConsumedAfter[j - 1]
  BY <1>1, ConsumedMonotone
<1>3. ConsumedAfter[i] \in Nat /\ ConsumedAfter[j - 1] \in Nat /\ ConsumedAfter[i - 1] \in Nat
      /\ ConsumedAfter[j] \in Nat
  BY <1>1, ConsumedStep
<1>4. QED BY <1>2, <1>3 DEF StepBatches

\* With one pipeline, whatever the intervals, the ramp-up and the crashes: every
\* step reads what it would read without a restart, every batch is read once, and at
\* the end less than one batch is missing.  (With two pipelines both read the same
\* batches.)
THEOREM TrainsEverySampleOnce ==
  ASSUME NumPipelines = 1, LongerThanRampUp
  PROVE  Spec => []DataFollowsSamples
<1>1. Init => Uninterrupted
  <2> SUFFICES ASSUME Init PROVE Uninterrupted
    OBVIOUS
  <2>1. Follows(Content)
    BY ConsumedStep DEF Init, Follows, Content
  <2>2. \A w \in Writers, i \in 1 .. TrainIters : files[w][i] \notin Checkpoint
    BY NoCheckpoint DEF Init
  <2>3. QED BY <2>1, <2>2 DEF Init, Uninterrupted
<1>2. TypeOK /\ Trained /\ Uninterrupted /\ [Next]_vars => Uninterrupted'
  BY UninterruptedNext
<1>3. TypeOK /\ Uninterrupted => DataFollowsSamples
  <2> SUFFICES ASSUME TypeOK, Uninterrupted PROVE DataFollowsSamples
    OBVIOUS
  <2>1. /\ iteration \in 0 .. TrainIters /\ iteration \in Nat /\ consumed \in Nat
        /\ consumed = ConsumedAfter[iteration]
        /\ \A i \in 1 .. iteration, p \in Pipelines : trained[i][p] = StepBatches(i)
        /\ \A i \in Nat : ConsumedAfter[i] \in Nat
    BY ItersAssumption, ConsumedStep DEF TypeOK, Content, Checkpoint, Uninterrupted, Follows
  <2>2. Pipelines = {0}
    BY DEF Pipelines
  <2>3. ResumesAsUninterrupted
    <3> SUFFICES ASSUME NEW i \in 1 .. iteration, NEW p \in Pipelines
                 PROVE  trained[i][p] = PerPipeline(ConsumedAfter[i - 1])
                                          .. PerPipeline(ConsumedAfter[i]) - 1
      BY DEF ResumesAsUninterrupted
    <3>1. i - 1 \in Nat /\ i \in Nat
      BY <2>1
    <3>2. PerPipeline(ConsumedAfter[i - 1]) = ConsumedAfter[i - 1]
          /\ PerPipeline(ConsumedAfter[i]) = ConsumedAfter[i]
      BY <2>1, <3>1, AllToOne
    <3>3. QED BY <2>1, <3>2 DEF StepBatches
  <2>4. EachBatchOnce
    <3>1. ASSUME NEW i \in 1 .. iteration, NEW j \in 1 .. iteration,
                 NEW p \in Pipelines, NEW q \in Pipelines, <<i, p>> # <<j, q>>
          PROVE  trained[i][p] \intersect trained[j][q] = {}
      <4>1. i # j /\ i \in Nat \ {0} /\ j \in Nat \ {0}
        BY <2>1, <2>2, <3>1
      <4>2. trained[i][p] = StepBatches(i) /\ trained[j][q] = StepBatches(j)
        BY <2>1
      <4>3. i < j \/ j < i
        BY <4>1
      <4>4. QED BY <4>1, <4>2, <4>3, StepsDisjoint
    <3>2. ASSUME NEW b \in 0 .. consumed - 1
          PROVE  b \in UNION {trained[i][p] : i \in 1 .. iteration, p \in Pipelines}
      <4>1. b \in Nat /\ b < ConsumedAfter[iteration]
        BY <2>1
      <4>2. PICK i \in 1 .. iteration : b \in StepBatches(i)
        BY <2>1, <4>1, BatchHasStep
      <4>3. 0 \in Pipelines /\ b \in trained[i][0]
        BY <2>1, <2>2, <4>2
      <4>4. QED BY <4>3
    <3>3. ASSUME NEW i \in 1 .. iteration, NEW p \in Pipelines, NEW b \in trained[i][p]
          PROVE  b \in 0 .. consumed - 1
      <4>1. i \in Nat /\ i - 1 \in Nat /\ i <= iteration
        BY <2>1
      <4>2. ConsumedAfter[i] <= consumed
        BY <2>1, <4>1, ConsumedMonotone
      <4>3. b \in ConsumedAfter[i - 1] .. ConsumedAfter[i] - 1
        BY <2>1, <3>3 DEF StepBatches
      <4>4. QED BY <2>1, <4>1, <4>2, <4>3
    <3>4. QED BY <3>1, <3>2, <3>3 DEF EachBatchOnce
  <2>5. TrainsTrainSamples
    <3>1. consumed <= TrainSamples
      BY <2>1, IterationsFit
    <3>2. ASSUME phase = "over" PROVE TrainSamples - consumed < GlobalBatch
      <4>1. iteration = TrainIters
        BY <2>1, <3>2, ItersAssumption DEF Uninterrupted
      <4>2. QED BY <2>1, <4>1, IterationsFit
    <3>3. QED BY <3>1, <3>2 DEF TrainsTrainSamples
  <2>6. QED BY <2>3, <2>4, <2>5 DEF DataFollowsSamples
<1>4. QED BY <1>1, <1>2, <1>3, TypeAndTrained, PTL DEF Spec
=============================================================================
