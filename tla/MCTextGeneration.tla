-------------------------- MODULE MCTextGeneration --------------------------
(***************************************************************************)
(* Instances of TextGeneration for TLC: three stages, so that one is       *)
(* neither first nor last.  At most four tokens of a pass go through the   *)
(* stages as one: prompts of two rows and more come in micro batches, of   *)
(* which the last may be smaller, single tokens do not.                    *)
(***************************************************************************)
EXTENDS TextGeneration

Ask(kind, prompts, toGenerate, logprobs, mode, beam, penalty) ==
  [kind |-> kind, prompts |-> prompts, toGenerate |-> toGenerate,
   logprobs |-> logprobs, mode |-> mode, beam |-> beam, penalty |-> penalty]

Asked ==
  { Ask("generate", << <<3, 1>>, <<3>> >>, 2, TRUE, "eod", 0, 0),
    Ask("generate", << <<3, 1>>, <<1, 3>> >>, 1, TRUE, "double", 0, 0),
    Ask("generate", << <<3, 2, 3>>, <<1, 3, 3>>, <<2>> >>, 0, TRUE, "eod", 0, 0),
    Ask("generate", << <<3, 2>>, <<2, 3>>, <<1, 1>> >>, 1, FALSE, "eol", 0, 0),
    Ask("generate", << <<3, 3, 3>> >>, 3, FALSE, "eod", 0, 0),
    Ask("beam", << <<1, 3>> >>, 3, FALSE, "eod", 2, 1),
    Ask("beam", << <<2>> >>, 5, FALSE, "eod", 2, 0),
    Ask("beam", << <<2, 3>> >>, 0, FALSE, "eod", 1, 0) }

\* With these, beams change places, hypotheses replace worse ones and are
\* refused, and a search is done before its last position.
Table ==
  << <<-5, -3, -6, -3>>, <<-1, -4, -5, -1>>, <<-6, -4, -2, -4>>, <<-5, -4, -6, -5>> >>

LogProbTable == [t \in 0 .. 3 |-> [v \in 0 .. 3 |-> Table[t + 1][v + 1]]]

Three == 3
TwoThreads == {"t1", "t2"}
=============================================================================
