-------------------------- MODULE P2PCommunication --------------------------
(***************************************************************************)
(* The point-to-point operations of                                        *)
(* megatron/core/pipeline_parallel/p2p_communication.py that the BitPipe   *)
(* schedule calls.  An operation is what _communicate hands to             *)
(* batch_isend_irecv: at most one send and at most one receive, posted     *)
(* together.  The caller waits until both are done.                        *)
(*                                                                         *)
(* A tensor is known by what it stands for: an activation leaving, or the  *)
(* gradient of an activation leaving, stage number `stage` of pipeline     *)
(* `pipe` for microbatch `mb`.                                             *)
(***************************************************************************)
EXTENDS ParallelState

Nobody == -1

None == [kind |-> "none", pipe |-> 0, mb |-> 0, stage |-> 0]

Act(p, i, s)  == [kind |-> "act",  pipe |-> p, mb |-> i, stage |-> s]
Grad(p, i, s) == [kind |-> "grad", pipe |-> p, mb |-> i, stage |-> s]

\* _communicate leaves out the send of a tensor that is None.
Communicate(to, t, from) ==
  [to |-> IF t = None THEN Nobody ELSE to, tensor |-> t, from |-> from]

Silence == Communicate(Nobody, None, Nobody)

RecvForward(r, v) ==
  IF IsFirstStage(r, v) THEN Silence
                        ELSE Communicate(Nobody, None, PrevRank(r, v))

RecvBackward(r, v) ==
  IF IsLastStage(r, v) THEN Silence
                       ELSE Communicate(Nobody, None, NextRank(r, v))

SendForwardRecvBackward(r, v, t) ==
  IF IsLastStage(r, v) THEN Silence
                       ELSE Communicate(NextRank(r, v), t, NextRank(r, v))

SendBackwardRecvForward(r, v, t) ==
  IF IsFirstStage(r, v) THEN Silence
                        ELSE Communicate(PrevRank(r, v), t, PrevRank(r, v))

SendForwardRecvForward(r, v, t, recvPrev) ==
  Communicate(NextRank(r, v), t, IF recvPrev THEN PrevRank(r, v) ELSE Nobody)

SendForwardRecvForwardBd0_Prev(r, v, t, recvNext) ==   \* mutant: as without _bd0
  Communicate(NextRank(r, v), t, IF recvNext THEN PrevRank(r, v) ELSE Nobody)

\* The next tensor belongs to the other pipeline: it comes from "next".
SendForwardRecvForwardBd0(r, v, t, recvNext) ==
  Communicate(NextRank(r, v), t, IF recvNext THEN NextRank(r, v) ELSE Nobody)

SendBackwardRecvBackward(r, v, t, recvNext) ==
  Communicate(PrevRank(r, v), t, IF recvNext THEN NextRank(r, v) ELSE Nobody)

SendBackwardRecvBackwardBd_Next(r, v, t, recvPrev) ==  \* mutant: as without _bd
  Communicate(PrevRank(r, v), t, IF recvPrev THEN NextRank(r, v) ELSE Nobody)

\* The next gradient belongs to the other pipeline: it comes from "prev".
SendBackwardRecvBackwardBd(r, v, t, recvPrev) ==
  Communicate(PrevRank(r, v), t, IF recvPrev THEN PrevRank(r, v) ELSE Nobody)
=============================================================================
