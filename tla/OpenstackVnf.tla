---------------------------- MODULE OpenstackVnf ----------------------------
(***************************************************************************)
(* The OpenStack plugin (vnf_collectors/openstack.py): which kind of       *)
(* metric a monitoring-param asks for, what Gnocchi and Ceilometer answer, *)
(* and what one pass over a record yields.                                 *)
(***************************************************************************)
EXTENDS Records

CONSTANTS Mapped,         \* keys of METRIC_MAPPINGS
          InterfaceMetric \* INTERFACE_METRICS

MetricType(p) ==
  CASE p.metric \notin InterfaceMetric -> "instance"
    [] p.metric \in InterfaceMetric /\ p.iface # NoIface -> "interface_one"
    [] OTHER -> "interface_all"

\* Mutant: the test for a name is dropped.
ParamsOfUnnamed(d) == IF d.vdu \in DOMAIN Params THEN Params[d.vdu] ELSE <<>>

ParamsOf(d) == IF IsNamed(d) /\ d.vdu \in DOMAIN Params THEN Params[d.vdu] ELSE <<>>

\* The parameters collect goes through, with the vdur each is for.
Work(vnfr) ==
  LET of(d) == [j \in DOMAIN ParamsOf(d) |-> [name |-> d.name, param |-> ParamsOf(d)[j]]]
  IN  FlattenSeq([i \in DOMAIN vnfr |-> of(vnfr[i])])

Interfaces(p) ==
  CASE MetricType(p) = "instance" -> {NoIface}
    [] MetricType(p) = "interface_one" -> {p.iface}
    [] OTHER -> Iface

\* What collect_metric makes of the measures of a VM.  Ceilometer refuses
\* metrics of interfaces; a metric of all interfaces is the sum over those with
\* a measure.  An exception is logged by collect, which then has no value either.
CollectMetric(backend, measured, p, vm) ==
  IF backend = "ceilometer" /\ MetricType(p) # "instance" THEN NoValue
  ELSE measured \cap [src : {vm}, metric : {p.metric}, iface : Interfaces(p)]

\* Mutant: an interface is added to the tags, and none replaced.
TagAfterFirst(tag, item, value) ==
  IF value = NoValue \/ tag # NoIface THEN tag ELSE item.param.iface

\* The dictionary of tags is the same for the whole record: the interface of one
\* metric, the only tag there is, stays for those after it.
TagAfter(tag, item, value) ==
  IF value = NoValue \/ item.param.iface = NoIface THEN tag ELSE item.param.iface

\* Mutant: the value is not compared with None.
MetricsAfterUnchecked(vnf, metrics, tag, item, value) ==
  Append(metrics, VnfMetric(vnf, item.name, item.param.metric, value, tag))

MetricsAfter(vnf, metrics, tag, item, value) ==
  IF value = NoValue THEN metrics
  ELSE Append(metrics, VnfMetric(vnf, item.name, item.param.metric, value, tag))

NothingCollected == [tag |-> NoIface, metrics |-> <<>>]

\* One value more.
Collected(vnf, acc, item, value) ==
  LET tag == TagAfter(acc.tag, item, value)
  IN  [tag |-> tag, metrics |-> MetricsAfter(vnf, acc.metrics, tag, item, value)]

\* A pass over a record that does not change, by a worker that is not told of
\* an unmapped metric and meets no vdur without a name before a named one; else
\* it raises and yields nothing.
OpenstackMetrics(vnf, vnfr, backend, measured) ==
  LET todo == Work(vnfr)
      vdur(w) == vnfr[VdurIndex(vnfr, w.name)]
      raises(w) == w.param.metric \notin Mapped \/ ~IsNamed(vdur(w))
      value(w) == CollectMetric(backend, measured, w.param, vdur(w).vm)
      tag[n \in 0..Len(todo)] ==
        IF n = 0 THEN NothingCollected.tag
        ELSE TagAfter(tag[n - 1], todo[n], value(todo[n]))
      metrics[n \in 0..Len(todo)] ==
        IF n = 0 THEN NothingCollected.metrics
        ELSE MetricsAfter(vnf, metrics[n - 1], tag[n], todo[n], value(todo[n]))
  IN  IF \E w \in ToSet(todo) : raises(w) THEN <<>> ELSE metrics[Len(todo)]
=============================================================================
