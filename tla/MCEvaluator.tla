---------------------------- MODULE MCEvaluator ----------------------------
(* A small instance of Evaluator: one alarm above and one below a threshold. *)
EXTENDS Evaluator, TLC

CONSTANTS a1, a2

MCAlarm     == {a1, a2}
MCOperation == (a1 :> "gt") @@ (a2 :> "lt")
MCThreshold == (a1 :> 1) @@ (a2 :> 1)
\* a2's operation is none the evaluator knows.
MCOtherOperation == (a1 :> "gt") @@ (a2 :> "other")
\* a2 was stored with a threshold that is no number.
MCMalformedThreshold == (a1 :> 1) @@ (a2 :> Malformed)
MCSample    == {0, 2, NaN}
=============================================================================
