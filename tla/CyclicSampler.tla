----------------------------- MODULE CyclicSampler -----------------------------
(***************************************************************************)
(* The samples of --dataloader-type cyclic.  In every epoch each rank      *)
(* takes its share of a permutation that only depends on the epoch, in     *)
(* micro batches, and at the end of its share begins the next epoch.  The  *)
(* epoch and the place in it follow from the number of consumed samples,   *)
(* which is all that a checkpoint keeps.  The ranks' iterators do not talk *)
(* to each other.                                                          *)
(***************************************************************************)
EXTENDS Integers, Sequences, SequencesExt, FiniteSetsExt

CONSTANTS Samplers,        \* [total, micro, size, sharding, first], see loader
          Permuted(_, _),  \* randperm(n) of an epoch, a sequence
          MaxBatches       \* bound on the global micro batches of a training

VARIABLES loader,     \* the launch: samples of the dataset, micro batch size,
                      \* data-parallel size, data_sharding, batches consumed at first
          iterators,  \* per rank: << >> before an epoch, or what is left of it
          consumed,   \* per rank, what its sampler has counted
          trained,    \* global micro batches done
          checkpoint, \* of them, those a checkpoint has
          reads       \* per global micro batch, what each rank read when it was last done

sampler_vars == <<loader, iterators, consumed, trained, checkpoint, reads>>

LoaderRanks == 0 .. loader.size - 1
MicroTimesSize == loader.micro * loader.size
LastBatchSize == loader.total % MicroTimesSize
ActiveTotal == loader.total - LastBatchSize

(***************************************************************************)
(* One epoch of a rank, from so many consumed samples on.                  *)
(***************************************************************************)
Epoch(n) == n \div ActiveTotal
CurrentEpochSamples(n) == n % ActiveTotal

BucketOffset_None(n) == 0   \* mutant: a resumed epoch begins anew
BucketOffset(n) == CurrentEpochSamples(n) \div loader.size

ShardedRange(r, n) ==
  LET size == (loader.total \div MicroTimesSize) * loader.micro
      random == Permuted(Epoch(n), size)
  IN  [i \in 1 .. size - BucketOffset(n) |-> r * size + random[BucketOffset(n) + i]]

InterleavedRange(r, n) ==
  LET size == (loader.total \div loader.micro) * loader.micro
      random == Permuted(Epoch(n), size)
      active == SubSeq(random, CurrentEpochSamples(n) + 1, size)
  IN  [i \in 1 .. (Len(active) - r + loader.size - 1) \div loader.size |->
         active[r + (i - 1) * loader.size + 1]]

IdxRange(r, n) == IF loader.sharding THEN ShardedRange(r, n) ELSE InterleavedRange(r, n)

\* The batches of a range, the last one dropped if it is not complete.
Batches(range) ==
  [b \in 1 .. Len(range) \div loader.micro |->
     SubSeq(range, (b - 1) * loader.micro + 1, b * loader.micro)]

(***************************************************************************)
(* A rank's iterator is a generator in a loop: what it yields next, and    *)
(* the count it adds to.                                                   *)
(***************************************************************************)
NextOf(r) ==
  LET fresh == <<Epoch(consumed[r]), Batches(IdxRange(r, consumed[r]))>>
  IN  IF iterators[r] # << >> /\ iterators[r][2] # << >> THEN iterators[r] ELSE fresh

\* Every rank takes the next micro batch.
TrainMicrobatch ==
  /\ trained < MaxBatches
  /\ reads' = [reads EXCEPT ![trained + 1] =
                 [r \in LoaderRanks |-> <<NextOf(r)[1], NextOf(r)[2][1]>>]]
  /\ iterators' = [r \in LoaderRanks |-> <<NextOf(r)[1], Tail(NextOf(r)[2])>>]
  /\ consumed' = [r \in LoaderRanks |-> consumed[r] + MicroTimesSize]
  /\ trained' = trained + 1
  /\ UNCHANGED <<loader, checkpoint>>

SaveSampler ==
  /\ checkpoint # trained
  /\ checkpoint' = trained
  /\ UNCHANGED <<loader, iterators, consumed, trained, reads>>

\* args.consumed_train_samples, of which new samplers are made.
Relaunch ==
  /\ trained' = checkpoint
  /\ consumed' = [r \in LoaderRanks |-> (loader.first + checkpoint) * MicroTimesSize]
  /\ iterators' = [r \in LoaderRanks |-> << >>]
  /\ UNCHANGED <<loader, checkpoint, reads>>

InitSampler ==
  /\ loader \in Samplers
  /\ iterators = [r \in LoaderRanks |-> << >>]
  /\ consumed = [r \in LoaderRanks |-> loader.first * MicroTimesSize]
  /\ trained = 0 /\ checkpoint = 0
  /\ reads = [b \in 1 .. MaxBatches |-> << >>]

NextSampler == TrainMicrobatch \/ SaveSampler \/ Relaunch

SpecSampler == InitSampler /\ [][NextSampler]_sampler_vars

(***************************************************************************)
(* In a training that is never interrupted every rank yields all batches   *)
(* of an epoch, then those of the next.                                    *)
(***************************************************************************)
PerEpoch == ActiveTotal \div MicroTimesSize

Planned(b) ==
  LET n == loader.first + b - 1
      epoch == n \div PerEpoch
  IN  [r \in LoaderRanks |->
         <<epoch, Batches(IdxRange(r, epoch * ActiveTotal))[(n % PerEpoch) + 1]>>]

\* The iterators go by epochs of the same length when what is over fills no
\* micro batch; with data_sharding always.
Even == loader.sharding \/ LastBatchSize < loader.micro

\* Whatever the launches, the ranks read the batches of an uninterrupted
\* training, all ranks in the same epoch, and in an epoch no sample twice.
CyclesAsPlanned ==
  Even =>
    \A b \in 1 .. MaxBatches : reads[b] # << >> =>
      /\ reads[b] = Planned(b)
      /\ \A a \in 1 .. b, r, q \in LoaderRanks :
           reads[a] # << >> /\ <<a, r>> # <<b, q>> /\ reads[a][r][1] = reads[b][q][1] =>
             ToSet(reads[a][r][2]) \cap ToSet(reads[b][q][2]) = {}
      /\ \A r \in LoaderRanks : IsInjective(reads[b][r][2])
================================================================================
