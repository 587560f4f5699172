---------------------------- MODULE MCCollector ----------------------------
(* A small instance of Collector: two targets. *)
EXTENDS Collector

CONSTANTS t1, t2

MCTarget == {t1, t2}
=============================================================================
