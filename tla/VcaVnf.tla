------------------------------- MODULE VcaVnf -------------------------------
(***************************************************************************)
(* The Juju plugin (vnf_collectors/juju.py): metrics of the charms of VDUs *)
(* and of the charm of the VNF, which are reported for its management VDU. *)
(* The charm of a vdur is told from others by its VM, that of a VNF by the *)
(* VNF.                                                                    *)
(***************************************************************************)
EXTENDS Records

CONSTANTS VduCharm, \* VDUs whose vdu-configuration has metrics
          VnfCharm, \* VNFs whose vnf-configuration has metrics
          MgmtVdu   \* VDUs with an interface marked mgmt-vnf

\* A measure of one unit of the application of a charm; charms know of no interface.
Gauge(src, unit, metric) == [src |-> src, unit |-> unit, metric |-> metric, iface |-> NoIface]

CharmMetrics(vnf, vdu_name, src, measured) ==
  SomeOrder({VnfMetric(vnf, vdu_name, r.metric, {r}, NoIface) :
               r \in {x \in measured : x.src = src}})

VduCharms(vnfr, deployed) ==
  Only(vnfr, {d \in ToSet(vnfr) : IsNamed(d) /\ d.vdu \in VduCharm /\ d.vm \in deployed})

MgmtVdurs(vnfr) == Only(vnfr, {d \in ToSet(vnfr) : d.vdu \in MgmtVdu})

\* Mutant: the charm of the VNF is reported for the last vdur.
VnfCharmMetricsOfLast(vnf, vnfr, measured) ==
  CharmMetrics(vnf, Last(Named(vnfr)).name, vnf, measured)

\* Of all management vdurs, the last gives its name.
VnfCharmMetrics(vnf, vnfr, measured) ==
  CharmMetrics(vnf, Last(MgmtVdurs(vnfr)).name, vnf, measured)

\* Mutant: a charm of the VNF that is not deployed raises as well.
VcaRaisesUndeployed(vnf, vnfr, up, deployed, measured) ==
  \/ vnf \in VnfCharm \ deployed
  \/ ~up /\ VduCharms(vnfr, deployed) # <<>>

\* Nothing is caught: a GetMetrics that is refused or has a value that is no number,
\* a management vdur without a name, and measures without a management vdur each leave
\* the VNF without any metrics.
VcaRaises(vnf, vnfr, up, deployed, measured) ==
  LET asksVnf == vnf \in VnfCharm \cap deployed
      mgmt == MgmtVdurs(vnfr)
  IN  \/ ~up /\ (asksVnf \/ VduCharms(vnfr, deployed) # <<>>)
      \/ asksVnf /\ ~Complete(mgmt)
      \/ asksVnf /\ mgmt = <<>> /\ \E r \in measured : r.src = vnf

VcaMetrics(vnf, vnfr, up, deployed, measured) ==
  LET vdus == VduCharms(vnfr, deployed)
      ofVdu(d) == CharmMetrics(vnf, d.name, d.vm, measured)
      ofVnf == IF vnf \notin VnfCharm \cap deployed \/ MgmtVdurs(vnfr) = <<>> THEN <<>>
               ELSE VnfCharmMetrics(vnf, vnfr, measured)
  IN  IF VcaRaises(vnf, vnfr, up, deployed, measured) THEN <<>>
      ELSE FlattenSeq([i \in DOMAIN vdus |-> ofVdu(vdus[i])]) \o ofVnf
=============================================================================
