------------------------------ MODULE VropsVnf ------------------------------
(***************************************************************************)
(* The plugins that read vRealize Operations (vROPS): VMware, which asks   *)
(* vCloud Director for the managed object behind each vApp, and VIO, for   *)
(* which vROPS knows the VM itself; and the vROPS_Helper both share.       *)
(* A VM stands for its vApp, its managed object and its vROPS resource.    *)
(***************************************************************************)
EXTENDS Records

CONSTANT VropsMetric \* keys of METRIC_MAPPINGS in vrops/metrics.py

IsMonitored(d) == d.vdu \in DOMAIN Params

\* Mutant: the dictionary is made anew for each vdur.
VduMappingsLast(vnfr, resolved) ==
  LET all == Only(vnfr, {d \in ToSet(vnfr) : IsNamed(d) /\ IsMonitored(d) /\ d.vm \in resolved})
  IN  IF all = <<>> THEN all ELSE <<Last(all)>>

\* The vdurs whose object was resolved.
VduMappings(vnfr, resolved) ==
  Only(vnfr, {d \in ToSet(vnfr) : IsNamed(d) /\ IsMonitored(d) /\ d.vm \in resolved})

\* vROPS takes a query without resourceId for all its resources, and one
\* without statKey for all their metrics.
Stats(ids, keys, measured) ==
  LET asked == [src : IF ids = {} THEN {r.src : r \in measured} ELSE ids,
                metric : IF keys = {} THEN {r.metric : r \in measured} ELSE keys,
                iface : {NoIface}]
  IN  measured \cap asked

\* vROPS does not know every object; what it does not list is not asked for.
ResourceIds(mapping, listed) == {d.vm : d \in ToSet(mapping)} \cap listed

MonitoringKeys(params) == {p.metric : p \in ToSet(params)} \cap VropsMetric

\* Mutant: what vROPS reports was asked for.
ReportedUnchecked(ids, params, measured) ==
  {r \in Stats(ids, MonitoringKeys(params), measured) :
     r.src \in ids /\ r.metric \in VropsMetric}

\* What is kept of the answer: known VMs and metrics that were asked for.
Reported(ids, params, measured) ==
  {r \in Stats(ids, MonitoringKeys(params), measured) :
     r.src \in ids /\ r.metric \in MonitoringKeys(params)}

\* The vdu that the loop over the vdurs ends with gives the params of them all;
\* if it has none, the KeyError leaves the VNF without metrics.
VropsMetrics(vnf, vnfr, resolved, listed, measured) ==
  LET mapping == VduMappings(vnfr, resolved)
      last == Last(Named(vnfr))
      ids == ResourceIds(mapping, listed)
      name(vm) == mapping[SelectLastInSeq(mapping, LAMBDA d : d.vm = vm)].name
  IN  IF mapping = <<>> \/ ~IsMonitored(last) THEN <<>>
      ELSE SomeOrder({VnfMetric(vnf, name(r.src), r.metric, {r}, NoIface) :
                        r \in Reported(ids, Params[last.vdu], measured)})
=============================================================================
