------------------------------ MODULE Records ------------------------------
(***************************************************************************)
(* VNF records (VNFRs) and descriptors as the plugins of the collector     *)
(* read them, and the metrics they make of them.  A record is the sequence *)
(* of its vdurs; a vdur that OSM has not filled in has no name and no VM.  *)
(***************************************************************************)
EXTENDS Integers, SequencesExt

CONSTANTS
  Metric,   \* names of metrics
  Iface,    \* interfaces a monitoring-param may refer to
  NoIface,  \* a monitoring-param without interface-name-ref
  Unfilled, \* the name of a vdur without one
  Params    \* the monitoring-params of the VDUs that have any, in order

Param == [metric : Metric, iface : Iface \cup {NoIface}]

ASSUME RecordsAssumption ==
  /\ NoIface \notin Iface
  /\ \A v \in DOMAIN Params : Params[v] \in Seq(Param)

\* A list of what came in an order that is not known.
SomeOrder(S) ==
  LET order[T \in SUBSET S] ==
        IF T = {} THEN <<>>
        ELSE LET x == CHOOSE y \in T : TRUE IN Append(order[T \ {x}], x)
  IN  order[S]

\* The items of a list that are in S.
Only(s, S) ==
  LET only[n \in 0..Len(s)] ==
        IF n = 0 THEN <<>>
        ELSE IF s[n] \in S THEN Append(only[n - 1], s[n]) ELSE only[n - 1]
  IN  only[Len(s)]

IsNamed(d) == d.name # Unfilled

Named(vnfr) == Only(vnfr, {d \in ToSet(vnfr) : IsNamed(d)})

Complete(vnfr) == \A i \in DOMAIN vnfr : IsNamed(vnfr[i])

\* Where get_vdur stops: at the vdur of that name, or at one that has no
\* 'name' to compare.  0 stands for its ValueError.
VdurIndex(vnfr, name) ==
  SelectInSeq(vnfr, LAMBDA d : d.name \in {name, Unfilled})

\* A reading says what was observed where; a value is the set of readings it
\* was computed from, and NoValue is Python's None.
Reading(src, metric, iface) == [src |-> src, metric |-> metric, iface |-> iface]

NoValue == {}

\* A metric of a vdur, tagged with an interface or not.
VnfMetric(vnf, vdu_name, name, value, iface) ==
  [name |-> name, val |-> value,
   tags |-> IF iface = NoIface THEN [vnf |-> vnf, vdu_name |-> vdu_name]
            ELSE [vnf |-> vnf, vdu_name |-> vdu_name, interface |-> iface]]
=============================================================================
