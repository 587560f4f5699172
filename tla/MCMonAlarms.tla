---------------------------- MODULE MCMonAlarms ----------------------------
(* A small instance of MonAlarms: a1 and a2 are made for requests with a     *)
(* numeric threshold, p1 and p2 for one whose threshold is no number.  *)
EXTENDS MonAlarms, TLC

CONSTANTS a1, a2, p1, p2, number, text

MCAlarm     == {a1, a2, p1, p2}
MCBody      == {number, text}
MCAsked     == (a1 :> number) @@ (a2 :> number) @@ (p1 :> text) @@ (p2 :> text)
MCOperation == [a \in MCAlarm |-> "gt"]
MCThreshold == (a1 :> 1) @@ (a2 :> 1) @@ (p1 :> Malformed) @@ (p2 :> Malformed)
=============================================================================
