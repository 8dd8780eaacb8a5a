---------------------------- MODULE BitPipeOrder ----------------------------
(***************************************************************************)
(* The order in which a device runs forward and backward passes:           *)
(* get_microbatch_idx, get_bkmicrobatch_idx and the phase lengths of       *)
(* forward_backward_pipelining_with_bitpipe_4vr.                           *)
(*                                                                         *)
(* There are 2N microbatch ids for N microbatches: a microbatch is run by  *)
(* two chunks of its pipeline on every device, and each run has an id.     *)
(***************************************************************************)
EXTENDS ParallelState

CONSTANT N      \* num_microbatches

\* symmetric mode never checks that P is even; every // 2 below relies on it
ASSUME PEvenAssumption == P % 2 = 0
\* the schedule raises unless P divides num_microbatches
ASSUME NAssumption == N \in Nat \ {0} /\ N % P = 0

Sync == -1      \* the marker in the backward order for a gradient all-reduce

TotalNumMicrobatches == 2 * N

NLoop == N \div P - 1

GetModelChunkId_NoMarker(m) ==     \* mutant: -1 is not treated apart
  (m % P) \div Half + (IF m < N THEN 0 ELSE 2)

GetModelChunkId(m) ==
  IF m = Sync THEN Sync
  ELSE (m % P) \div Half + (IF m < N THEN 0 ELSE 2)

\* microbatch_id01[c][j * num_unit + i]: the i-th id of chunk c in block j
MicrobatchId01(c, j, i) == (c \div 2) * N + j * P + (c % 2) * Half + i

IHalf(r) == r \div Half

NumInitial(r) == IF r < Half THEN Half - r ELSE r - Half + 1

----------------------------------------------------------------------------
\* The ids of `len` consecutive places from `start` on, of chunk c in block j.
Ids(c, j, start, len) == [i \in 1 .. len |-> MicrobatchId01(c, j, start + i - 1)]

Alternate(s, t) ==
  [i \in 1 .. 2 * Len(s) |-> IF i % 2 = 1 THEN s[(i + 1) \div 2] ELSE t[i \div 2]]

\* One turn of the loop over j in get_microbatch_idx.
ForwardBlock(r, j) ==
  LET h == IHalf(r)
      n == NumInitial(r)
      d == Half - n
  IN  Ids(h, j, 0, n)
      \o Alternate(Ids(1 - h, j, 0, d), Ids(h, j, n, d))
      \o Alternate(Ids(1 - h, j, d, n), Ids(3 - h, j, 0, n))
      \o Alternate(Ids(2 + h, j, 0, d), Ids(3 - h, j, n, d))
      \o Ids(2 + h, j, d, n)

\* One turn of the loop over j in get_bkmicrobatch_idx.
BackwardBlock(r, j) ==
  LET h == IHalf(r)
      n == NumInitial(r)
      d == Half - n
  IN  Ids(2 + h, j, 0, n)
      \o Alternate(Ids(3 - h, j, 0, d), Ids(2 + h, j, n, d))
      \o Alternate(Ids(3 - h, j, d, n), Ids(1 - h, j, 0, n))
      \o Alternate(Ids(h, j, 0, d), Ids(1 - h, j, n, d))
      \o Ids(h, j, d, n)

MicrobatchIdx ==
  [r \in Ranks |->
     [k \in 0 .. 2 * N - 1 |-> ForwardBlock(r, k \div (2 * P))[(k % (2 * P)) + 1]]]

\* The backward order before the two synchronization markers are put in.
BackwardIds ==
  [r \in Ranks |->
     [k \in 0 .. 2 * N - 1 |-> BackwardBlock(r, k \div (2 * P))[(k % (2 * P)) + 1]]]

IsMiddle(r) == r \in {Half - 1, Half}

(***************************************************************************)
(* The two middle devices synchronize twice at the end; the others         *)
(* synchronize chunks 2 and 3 before their last backward pass.             *)
(***************************************************************************)
BkMicrobatchIdx ==
  [r \in Ranks |->
     [k \in 0 .. 2 * N + 1 |->
        IF k = 2 * N + 1 THEN Sync
        ELSE IF IsMiddle(r) THEN (IF k = 2 * N THEN Sync ELSE BackwardIds[r][k])
        ELSE IF k = 2 * N - 1 THEN Sync
        ELSE IF k = 2 * N THEN BackwardIds[r][2 * N - 1]
        ELSE BackwardIds[r][k]]]

ForwardChunk(r, k)  == GetModelChunkId(MicrobatchIdx[r][k])
BackwardChunk(r, k) == GetModelChunkId(BkMicrobatchIdx[r][k])

\* Only chunks 0 and 1 are looked at.
IsLastMicrobatchForModelChunk_First(m) ==      \* mutant: microbatch_id01[c][0]
  \E c \in {0, 1} : m = MicrobatchId01(c, 0, 0)

IsLastMicrobatchForModelChunk(m) ==
  \E c \in {0, 1} : m = MicrobatchId01(c, N \div P - 1, Half - 1)

----------------------------------------------------------------------------
NumWarmupMicrobatches(r) ==
  P + Half + (IF r < Half THEN r ELSE P - 1 - r)

UnitRemaining(r) == 2 * P - NumWarmupMicrobatches(r)
=============================================================================
