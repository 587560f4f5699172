------------------------------ MODULE MCServer ------------------------------
(* A small instance of Server. *)
EXTENDS Server

CONSTANTS a1, a2, a3, a4, full

MCAlarm == {a1, a2, a3, a4}
MCAsked == [a \in MCAlarm |-> full]
=============================================================================
