---------------------------- MODULE MetricPath ----------------------------
(***************************************************************************)
(* What becomes of the metrics of the plugins: each worker of a cycle runs *)
(* the plugin for its kind of VIM while the systems it reads break and     *)
(* come back; the exporter makes families of labelled samples of what all  *)
(* workers returned; the health check scrapes it as Prometheus does.       *)
(* A worker is one step here and the records stay as they are, which       *)
(* OpenstackWorker does without; Collector has the forks, the joins and    *)
(* the queue.                                                              *)
(***************************************************************************)
EXTENDS OpenstackVnf, VropsVnf, VcaVnf, InfraStatus

CONSTANT Worlds \* what there may be to collect, see IsWorld

\* Vdurs that OSM has filled in differ by name and by VM.
IsRecord(vnfr) ==
  /\ vnfr \in Seq(ToSet(vnfr))
  /\ \A i, j \in DOMAIN vnfr :
       (IsNamed(vnfr[i]) /\ (vnfr[i].name = vnfr[j].name \/ vnfr[i].vm = vnfr[j].vm))
         => i = j

IsReading(r) == r = Reading(r.src, r.metric, r.iface)

IsGauge(r) == r = Gauge(r.src, r.unit, r.metric) /\ r.metric \in Metric

\* A VIM account with what its services know; a vApp lists its VMs, by whether
\* they run.
IsAccount(a) ==
  /\ IsFiniteSet(a.measured) /\ \A r \in a.measured : IsReading(r)
  /\ \A vm \in DOMAIN a.vapps : a.vapps[vm] \in Seq(BOOLEAN)

\* Of the ids of VMs and VNFs no two are the same.
IsWorld(w) ==
  /\ \A v \in DOMAIN w.vims : IsAccount(w.vims[v])
  /\ IsFiniteSet(DOMAIN w.vnfrs) /\ \A f \in DOMAIN w.vnfrs : IsRecord(w.vnfrs[f])
  /\ \A f \in DOMAIN w.vnfrs : \A d \in ToSet(w.vnfrs[f]) : d.vm \notin DOMAIN w.vnfrs
  /\ w.vim \in [DOMAIN w.vnfrs -> DOMAIN w.vims]
  /\ IsFiniteSet(w.gauges) /\ \A r \in w.gauges : IsGauge(r)

ASSUME MetricPathAssumption ==
  /\ {"vim_status", "vm_status", "sdnc_status"} \cap Metric = {}
  /\ \A w \in Worlds : IsWorld(w)

VARIABLES
  world,   \* the accounts, the records and what the external systems know
  failing, \* external systems that fail requests, some or all
  results, \* metrics of the workers of this cycle that are done
  served   \* samples the exporter serves, by the worker they are of

vars == <<world, failing, results, served>>

Vnfs == DOMAIN world.vnfrs

Vims == DOMAIN world.vims

VnfsOf(v) == {f \in Vnfs : world.vim[f] = v}

Jobs == ({"vim", "vca"} \X Vnfs) \cup ({"infra"} \X Vims) \cup ({"sdnc"} \X DOMAIN world.sdncs)

NoResults == [j \in {} |-> <<>>]

Init ==
  /\ world \in Worlds
  /\ failing = {}
  /\ results = NoResults
  /\ served = NoResults

-----------------------------------------------------------------------------
(* The plugin of an account. *)

Lower(t) == IF t = "VIO" THEN "vio" ELSE t

\* _get_vim_type: the configuration goes before the account, and VIO without
\* vROPS is an OpenStack.
VimType(v) ==
  LET acc == world.vims[v] IN
  CASE acc.config = "none" -> acc.vim_type
    [] acc.config # "none" /\ Lower(acc.config) = "vio" /\ ~acc.vrops_site -> "openstack"
    [] OTHER -> Lower(acc.config)

VmsOf(f) == {d.vm : d \in ToSet(Named(world.vnfrs[f]))}

\* What a system gives of all it is asked for: while it fails requests, any part.
Answers(x, asked) == IF x \in failing THEN SUBSET asked ELSE {asked}

\* The plugins of vROPS need its site in the account.  They raise if it does not
\* list its VMs, and an exception while its answer is parsed leaves them with the
\* metrics made so far.
VropsOutcomes(f, resolved) ==
  LET v == world.vim[f]
      acc == world.vims[v]
  IN  IF ~acc.vrops_site THEN {<<>>}
      ELSE {VropsMetrics(f, world.vnfrs[f], resolved, acc.listed, got) :
              got \in Answers(<<"vrops", v>>, acc.measured)}

\* get_vm_moref_id: the vApps that vCloud Director gives a managed object of; what
\* it raises or refuses is logged and leaves a vApp without one.
VmwareOutcomes(f) ==
  LET v == world.vim[f]
  IN  UNION {VropsOutcomes(f, resolved) :
               resolved \in Answers(<<"vim", v>>, world.vims[v].resolved)}

VioOutcomes(f) == VropsOutcomes(f, VmsOf(f))

\* Ceilometer goes first.
Backend(backends) == IF "ceilometer" \in backends THEN "ceilometer" ELSE "gnocchi"

\* What has no backend that answers raises.
OpenstackOutcomes(f) ==
  LET v == world.vim[f]
      outcome(backends, got) ==
        IF backends = {} THEN <<>>
        ELSE OpenstackMetrics(f, world.vnfrs[f], Backend(backends), got)
  IN  {outcome(backends, got) : backends \in Answers(<<"vim", v>>, world.vims[v].backends),
                                got \in Answers(<<"vim", v>>, world.vims[v].measured)}

VimOutcomes(f) ==
  LET type == VimType(world.vim[f]) IN
  CASE type = "openstack" -> OpenstackOutcomes(f)
    [] type = "vmware" -> VmwareOutcomes(f)
    [] type = "vio" -> VioOutcomes(f)
    [] OTHER -> {<<>>}

\* Juju refuses a GetMetrics, or gives a value that is no number, or answers.
VcaOutcomes(f) ==
  {VcaMetrics(f, world.vnfrs[f], up, world.deployed, world.gauges) :
     up \in {b \in BOOLEAN : <<"vca", f>> \notin failing => b}}

InfraOutcomes(v) ==
  LET acc == world.vims[v]
      vdurs == Vdurs(SomeOrder(VnfsOf(v)), world.vnfrs)
      asked == {v} \cup UNION {VmsOf(f) : f \in VnfsOf(v)}
      given == Answers(<<"vim", v>>, asked)
  IN  CASE VimType(v) \in {"openstack", "vio"} ->
             {OpenstackInfra(v, vdurs, answers, acc.active) : answers \in given}
        [] VimType(v) = "vmware" ->
             {VmwareInfra(v, vdurs, answers, acc.vdc, acc.vapps) : answers \in given}
        [] OTHER -> {<<>>}

SdncOutcomes(s) ==
  IF world.sdncs[s] # "onos" THEN {<<>>}
  ELSE {SdncMetrics(s, up) : up \in {b \in BOOLEAN : <<"sdnc", s>> \notin failing => b}}

-----------------------------------------------------------------------------
(* The workers of a cycle, in any order. *)

Done(j, outcomes) ==
  /\ j \notin DOMAIN results
  /\ \E ms \in outcomes :
       results' = [k \in DOMAIN results \cup {j} |-> IF k = j THEN ms ELSE results[k]]
  /\ UNCHANGED <<world, failing, served>>

CollectVimMetrics(f) == Done(<<"vim", f>>, VimOutcomes(f))

CollectVcaMetrics(f) == Done(<<"vca", f>>, VcaOutcomes(f))

CollectVimInfraMetrics(v) == Done(<<"infra", v>>, InfraOutcomes(v))

CollectSdncInfraMetrics(s) == Done(<<"sdnc", s>>, SdncOutcomes(s))

-----------------------------------------------------------------------------
(* The exporter. *)

All(r) == UNION {ToSet(r[j]) : j \in DOMAIN r}

Names(ms) == {m.name : m \in ToSet(ms)}

\* The first metric of each name in a sequence: its name and its label names.
Firsts(ms) ==
  {<<ms[i].name, DOMAIN ms[i].tags>> :
     i \in {k \in DOMAIN ms : \A h \in 1..(k - 1) : ms[h].name # ms[k].name}}

\* The families the exporter may make: the first metric of a name, which gives
\* the label names, may be that of any worker.
Families ==
  LET firsts == UNION {Firsts(results[j]) : j \in DOMAIN results}
  IN  {fam \in SUBSET firsts :
         /\ \A x, y \in fam : x[1] = y[1] => x = y
         /\ {x[1] : x \in fam} = {x[1] : x \in firsts}}

\* zip drops the label values a metric has beyond the label names of its family.
Labelled(ms, fam) ==
  LET labels(m) == (CHOOSE x \in fam : x[1] = m.name)[2] \cap DOMAIN m.tags
  IN  [i \in DOMAIN ms |-> [name |-> ms[i].name, val |-> ms[i].val,
                            labels |-> Restrict(ms[i].tags, labels(ms[i]))]]

Exposition(fam) == [j \in DOMAIN results |-> Labelled(results[j], fam)]

\* Mutant: the list of metrics is kept for the next cycle, which finds it full.
HandleOnce ==
  /\ DOMAIN results = Jobs
  /\ \E fam \in Families : served' = Exposition(fam)
  /\ UNCHANGED <<world, failing, results>>

Handle ==
  /\ DOMAIN results = Jobs
  /\ \E fam \in Families : served' = Exposition(fam)
  /\ results' = NoResults
  /\ UNCHANGED <<world, failing>>

\* The client library writes a float for every sample, and None is not one.
ScrapeFails == \E s \in All(served) : s.val = NoValue

\* The health check scrapes as well; the container is replaced when it fails.
HealthCheck ==
  /\ ScrapeFails
  /\ served' = NoResults /\ results' = NoResults
  /\ UNCHANGED <<world, failing>>

-----------------------------------------------------------------------------
(* The external systems. *)

Break(x) ==
  /\ x \in world.fallible \ failing
  /\ failing' = failing \cup {x}
  /\ UNCHANGED <<world, results, served>>

Repair(x) ==
  /\ x \in failing
  /\ failing' = failing \ {x}
  /\ UNCHANGED <<world, results, served>>

Cycle ==
  \/ Handle
  \/ \E s \in DOMAIN world.sdncs : CollectSdncInfraMetrics(s)
  \/ \E f \in Vnfs : CollectVcaMetrics(f)
  \/ \E v \in Vims : CollectVimInfraMetrics(v)
  \/ \E f \in Vnfs : CollectVimMetrics(f)

Next == Cycle \/ HealthCheck \/ \E x \in world.fallible : Break(x) \/ Repair(x)

Spec == Init /\ [][Next]_vars

\* Every worker ends or is terminated, and the loop goes on; nothing is assumed
\* of the external systems.
FairSpec == Spec /\ WF_vars(Cycle)

-----------------------------------------------------------------------------
(* Properties. *)

IsVnfMetric(m) ==
  \E f \in Vnfs :
    LET names == {d.name : d \in ToSet(Named(world.vnfrs[f]))} IN
    /\ m.name \in Metric
    /\ m.tags \in [vnf : {f}, vdu_name : names]
                 \cup [vnf : {f}, vdu_name : names, interface : Iface]

IsStatus(m) ==
  \/ m.name = "vim_status" /\ \E v \in Vims : m.tags = [vim |-> v]
  \/ m.name = "sdnc_status" /\ \E s \in DOMAIN world.sdncs : m.tags = [sdnc |-> s]
  \/ /\ m.name = "vm_status"
     /\ \E f \in Vnfs : \E d \in ToSet(Named(world.vnfrs[f])) :
          m.tags = [vim |-> world.vim[f], vnf |-> f, vdur_name |-> d.name,
                    resource_uuid |-> d.vm]

TypeOK ==
  /\ world \in Worlds
  /\ failing \subseteq world.fallible
  /\ DOMAIN results \subseteq Jobs
  /\ \A m \in All(results) : IsVnfMetric(m) \/ IsStatus(m)
  /\ \A s \in All(served) : DOMAIN s = {"name", "val", "labels"}

Vdu(f, name) == {d \in ToSet(world.vnfrs[f]) : d.name = name}

\* A measure is served under the name of the vdur whose VM, or whose charm, gave
\* it; one of the charm of the VNF under the name of a management vdur
\* (vrops_helper.py 153-182, juju.py 93-106).
MeasuresTruthful ==
  \A s \in All(served) : s.name \in Metric =>
    \A r \in s.val :
      /\ r.metric = s.name
      /\ \E d \in Vdu(s.labels.vnf, s.labels.vdu_name) :
           r.src = d.vm \/ (r.src = s.labels.vnf /\ d.vdu \in MgmtVdu)

\* A sample labelled with an interface has no measure of another, although the
\* dictionary of tags outlives the parameter that set it; only of a metric that
\* the VDU declares without an interface may it be the sum (openstack.py 126-132).
InterfaceTruthful ==
  \A s \in All(served) : (s.name \in Metric /\ "interface" \in DOMAIN s.labels) =>
    \/ \A r \in s.val : r.iface \in {NoIface, s.labels.interface}
    \/ \E d \in Vdu(s.labels.vnf, s.labels.vdu_name) : \E p \in ToSet(ParamsOf(d)) :
         p.metric = s.name /\ p.iface = NoIface

Running(v, vm) ==
  LET acc == world.vims[v] IN
  IF VimType(v) = "vmware" THEN vm \in DOMAIN acc.vapps /\ TRUE \in ToSet(acc.vapps[vm])
  ELSE vm \in acc.active

\* A VM is only said to run by a sample that names it and if it does, also when
\* its vApp has no VM and the variable holds what another vApp left
\* (infra_collectors/vmware.py 191-213).
StatusTruthful ==
  \A s \in All(served) : s.name = "vm_status" =>
    \A o \in s.val :
      o.src = s.labels.resource_uuid /\ (o.up => Running(s.labels.vim, o.src))

\* The vApps without a VM.
EmptyVapps(v) ==
  LET vapps == world.vims[v].vapps IN {vm \in DOMAIN vapps : vapps[vm] = <<>>}

\* vCloud Director's worker can only end without metrics if a record is incomplete
\* or the first vApp of some record has no VM.
MayLoseAll(v) ==
  \E f \in VnfsOf(v) :
    LET vnfr == world.vnfrs[f] IN
    ~Complete(vnfr) \/ (vnfr # <<>> /\ Head(vnfr).vm \in EmptyVapps(v))

\* The status of a VIM and of all its filled vdurs is among the metrics of a cycle,
\* though the VIM fails between two of them.  VMware's worker may lose them all
\* together, or the status of a vApp without a VM, and no others
\* (base_osinfra.py 46-99, infra_collectors/vmware.py 171-214).
StatusReported ==
  \A v \in Vims : <<"infra", v>> \in DOMAIN results =>
    LET ms == ToSet(results[<<"infra", v>>])
        told == {m.tags.resource_uuid : m \in {x \in ms : x.name = "vm_status"}}
        all(lost) == /\ "vim_status" \in {m.name : m \in ms}
                     /\ \A f \in VnfsOf(v) : VmsOf(f) \subseteq told \cup lost
    IN  CASE VimType(v) \in {"openstack", "vio"} -> all({})
          [] VimType(v) = "vmware" -> (ms = {} /\ MayLoseAll(v)) \/ all(EmptyVapps(v))
          [] OTHER -> ms = {}

Declared(f) ==
  UNION {{p.metric : p \in ToSet(Params[d.vdu])} :
           d \in {x \in ToSet(Named(world.vnfrs[f])) : IsMonitored(x)}}

\* The VIM plugins return no metric but those the descriptor of the VNF declares
\* for one of its VDUs, although vROPS answers a query without keys with every
\* metric it has (vrops_helper.py 105-118, 162-182).
DeclaredOnly ==
  \A f \in Vnfs : <<"vim", f>> \in DOMAIN results =>
    Names(results[<<"vim", f>>]) \subseteq Declared(f)

\* The parameters of a VNF that its plugin gets if it collects anything: those its
\* VIM has a measure for, and through vROPS those of a metric that the last filled
\* vdur's VDU declares as well (vnf_collectors/vmware.py 195-228).
Measured(f) ==
  LET type == VimType(world.vim[f])
      acc == world.vims[world.vim[f]]
      vm(w) == (CHOOSE d \in Vdu(f, w.name) : TRUE).vm
      ifaces(w) == IF type = "openstack" THEN Interfaces(w.param) ELSE {NoIface}
      known(w) == \E r \in acc.measured :
                    r.src = vm(w) /\ r.metric = w.param.metric /\ r.iface \in ifaces(w)
      asked(w) == \/ type = "openstack"
                  \/ /\ w.param.metric \in MonitoringKeys(Params[Last(Named(world.vnfrs[f])).vdu])
                     /\ vm(w) \in acc.listed
                     /\ type = "vio" \/ vm(w) \in acc.resolved
  IN  {w \in ToSet(Work(world.vnfrs[f])) : known(w) /\ asked(w)}

\* What a plugin needs to collect anything: Gnocchi, a complete record and no metric
\* but those it maps; or vROPS and parameters of the last filled vdur's VDU.
Collectable(f) ==
  LET type == VimType(world.vim[f])
      acc == world.vims[world.vim[f]]
      named == Named(world.vnfrs[f])
  IN  \/ /\ type = "openstack" /\ acc.backends = {"gnocchi"}
         /\ Complete(world.vnfrs[f]) /\ Declared(f) \subseteq Mapped
      \/ /\ type \in {"vmware", "vio"} /\ acc.vrops_site
         /\ named # <<>> /\ IsMonitored(Last(named))

Reached(f) == {<<"vim", world.vim[f]>>, <<"vrops", world.vim[f]>>} \cap failing = {}

\* A VNF's plugin gets every parameter that it can, of systems that answer it,
\* whatever other accounts and VNFs fail to give: of two VDUs with different
\* parameters vROPS's gets what the last one shares, and an unmapped metric takes
\* those of its own VNF only (openstack.py 104-135, vnf_collectors/vmware.py
\* 195-228, vrops_helper.py 105-182).
DeclaredCollected ==
  [][\A f \in Vnfs :
       (<<"vim", f>> \in DOMAIN results' \ DOMAIN results /\ Reached(f) /\ Collectable(f)) =>
         \A w \in Measured(f) : \E m \in ToSet(results'[<<"vim", f>>]) :
           m.name = w.param.metric /\ m.tags.vdu_name = w.name]_vars

\* The measures of the deployed charms of a VNF.
GaugesOf(f) ==
  {r \in world.gauges : r.src \in world.deployed /\
     \/ r.src = f /\ f \in VnfCharm
     \/ \E d \in ToSet(Named(world.vnfrs[f])) : d.vdu \in VduCharm /\ d.vm = r.src}

\* The charm of the VNF is not asked, or there is a name to report it under.
MgmtNamed(f) ==
  LET mgmt == MgmtVdurs(world.vnfrs[f])
  IN  f \in VnfCharm \cap world.deployed => mgmt # <<>> /\ Complete(mgmt)

\* A Juju that answers gets every measure of every deployed charm of a VNF reported,
\* those of all units, though charms of other VDUs or that of the VNF are not
\* deployed; only a management vdur that is missing or has no name is in the way
\* (juju.py 62-106).
CharmsCollected ==
  [][\A f \in Vnfs :
       (<<"vca", f>> \in DOMAIN results' \ DOMAIN results /\ <<"vca", f>> \notin failing
          /\ MgmtNamed(f)) =>
         \A r \in GaugesOf(f) : \E m \in ToSet(results'[<<"vca", f>>]) : m.val = {r}]_vars

\* Some metric of that name has no interface: a plugin of vROPS or a charm gives
\* none, OpenStack's none to a parameter without one.
Untagged(metric) ==
  \/ \E r \in world.gauges : r.metric = metric
  \/ \E f \in Vnfs : \E d \in ToSet(world.vnfrs[f]) : \E p \in ToSet(ParamsOf(d)) :
       p.metric = metric /\ (VimType(world.vim[f]) = "openstack" => p.iface = NoIface)

\* The VDU declares the metric twice, for one interface, or once for all of them,
\* whose metric may have the tag of an earlier one; or for two interfaces, but the
\* family has no such label, for some metric of that name has no interface.
DeclaredTwice(f, vdu_name, metric, labels) ==
  /\ VimType(world.vim[f]) = "openstack"
  /\ \E d \in Vdu(f, vdu_name) : \E i, j \in DOMAIN ParamsOf(d) :
       LET p == ParamsOf(d)[i]  q == ParamsOf(d)[j] IN
       /\ i # j /\ p.metric = metric /\ q.metric = metric
       /\ \/ p.iface = q.iface
          \/ NoIface \in {p.iface, q.iface}
          \/ "interface" \notin labels /\ Untagged(metric)

\* Two charms of the VDU and the VNF measure the metric, or two units of one, or one
\* of them and the VIM of the VNF.
MeasuredTwice(f, vdu_name, metric) ==
  LET of == {r \in world.gauges : r.metric = metric /\
                                  r.src \in {f} \cup {d.vm : d \in Vdu(f, vdu_name)}}
  IN  of # {} /\ (metric \in Declared(f) \/ \E r, q \in of : r # q)

\* No two samples are of the same series, which Prometheus would take one of, though
\* the metrics of all accounts are served as one: but where the VDU they name
\* declares the metric twice, or charms measure it twice or what is declared as
\* well, or for a vApp without VMs (openstack.py 95-132, juju.py 62-106,
\* backends/prometheus.py 43-55).
SeriesDistinct ==
  \A j, k \in DOMAIN served : \A i \in DOMAIN served[j], h \in DOMAIN served[k] :
    LET s == served[j][i]  t == served[k][h]  L == s.labels IN
    (<<j, i>> # <<k, h>> /\ s.name = t.name /\ L = t.labels) =>
      \/ s.name = "vm_status" /\ <<>> \in Range(world.vims[L.vim].vapps)
      \/ /\ s.name \in Metric
         /\ \/ DeclaredTwice(L.vnf, L.vdu_name, s.name, DOMAIN L)
            \/ MeasuredTwice(L.vnf, L.vdu_name, s.name)

\* Only the status of a VMware account can be a sample without a value, whatever
\* the external systems fail to give (openstack.py 125-134,
\* infra_collectors/vmware.py 110-143).
ValuesPresent ==
  \A s \in All(served) :
    s.val = NoValue => s.name = "vim_status" /\ VimType(s.labels.vim) = "vmware"

Shown ==
  \A f \in Vnfs : Collectable(f) =>
    \A w \in Measured(f) : \E s \in All(served) :
      s.name = w.param.metric /\ s.labels.vnf = f /\ s.labels.vdu_name = w.name

\* Once the external systems stay up, scrapes succeed for ever and show every
\* parameter that can be collected, whatever the exporter served or the health
\* check made of it before (collector.py 46-61, mon_healthcheck.py 62-69).
Recovers == <>[](failing = {}) => <>[](~ScrapeFails /\ Shown)
=============================================================================
