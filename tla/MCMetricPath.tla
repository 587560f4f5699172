---------------------------- MODULE MCMetricPath ----------------------------
(* Small worlds for MetricPath: one or two accounts, VNFs and VMs; in each world *)
(* at most two external systems fail.                                            *)
EXTENDS MetricPath

CONSTANTS a, b, c, d, e, g, h,        \* VDUs
          cpu, rx, tx, odd, users,    \* metrics
          eth0, eth1, n1, n2, m1, m2, f1, f2, v1, v2, u1, u2, onos, noVm

p(metric, iface) == [metric |-> metric, iface |-> iface]

MCParams ==
  a :> <<p(cpu, NoIface), p(rx, eth0), p(rx, eth1)>>
  @@ b :> <<p(cpu, NoIface)>>
  @@ c :> <<p(odd, NoIface)>>
  @@ d :> <<p(rx, eth0), p(rx, NoIface)>>
  @@ e :> <<p(rx, NoIface)>>
  @@ h :> <<p(cpu, NoIface), p(tx, NoIface)>>

r1(v) == [vdu |-> v, name |-> n1, vm |-> m1]
r2(v) == [vdu |-> v, name |-> n2, vm |-> m2]
r0(v) == [vdu |-> v, name |-> Unfilled, vm |-> noVm]

Gauges == {Gauge(src, u1, users) : src \in {m1, m2, f1}}
OfGnocchi == {Reading(m, cpu, NoIface) : m \in {m1, m2}}
             \cup {Reading(m, rx, i) : m \in {m1, m2}, i \in {eth0, eth1}}
OfVrops == {Reading(m, x, NoIface) : m \in {m1, m2}, x \in {cpu, rx, tx}}
Few == {Reading(m1, cpu, NoIface), Reading(m1, rx, eth0)}

Openstack ==
  [vim_type |-> "openstack", config |-> "none", vrops_site |-> FALSE, backends |-> {"gnocchi"},
   measured |-> OfGnocchi, listed |-> {}, resolved |-> {}, active |-> {m1}, vdc |-> FALSE,
   vapps |-> [vm \in {} |-> <<>>]]

Vmware ==
  [Openstack EXCEPT !.vim_type = "vmware", !.vrops_site = TRUE, !.backends = {},
     !.measured = OfVrops, !.listed = {m1, m2}, !.resolved = {m1, m2}, !.vdc = TRUE,
     !.vapps = m1 :> <<TRUE>> @@ m2 :> <<FALSE>>]

Vio == [Vmware EXCEPT !.vim_type = "openstack", !.config = "VIO"]

World(account, vnfrs) ==
  [vims |-> v1 :> account, vnfrs |-> vnfrs, vim |-> [f \in DOMAIN vnfrs |-> v1],
   gauges |-> Gauges, deployed |-> {m1, f1}, sdncs |-> [s \in {} |-> s], fallible |-> {}]

Failing(w, systems) == [w EXCEPT !.fallible = systems]

\* The first VNF is on the first account, the second on the second.
Beside(w, account, vnfr) ==
  [w EXCEPT !.vims = @ @@ v2 :> account, !.vnfrs = @ @@ f2 :> vnfr, !.vim = @ @@ f2 :> v2]

OneVnf == {f1 :> <<r1(a), r2(a)>>, f1 :> <<r1(a), r2(c)>>, f1 :> <<r1(b), r2(g)>>,
           f1 :> <<r1(b), r0(a)>>, f1 :> <<r0(a), r1(b)>>, f1 :> <<r1(d)>>,
           f1 :> <<r1(a), r2(h)>>, f1 :> <<r1(h), r2(b)>>, f1 :> <<r1(b), r2(e)>>}
TwoVnfs == {f1 :> <<r1(a)>> @@ f2 :> <<r2(b)>>,  \* as declared by two VNFs
            f1 :> <<r1(e)>> @@ f2 :> <<r2(a)>>,  \* rx for all interfaces, and for each
            f1 :> <<r1(b)>> @@ f2 :> <<r2(c)>>,  \* one with an unmapped metric
            f1 :> <<r1(b)>> @@ f2 :> <<r0(b)>>}  \* one that is not filled in

\* Every record on every kind of account, with systems that answer.
Steady == {World(x, r) : x \in {Openstack, Vmware, Vio}, r \in OneVnf \cup TwoVnfs}

\* OpenStack beside vROPS, and vROPS beside an incomplete OpenStack record.
Mixed ==
  {Beside(World(Openstack, f1 :> <<r1(a)>>), x, <<r2(v)>>) : x \in {Vmware, Vio}, v \in {e, a}}
  \cup {Failing(Beside(World(Openstack, f1 :> <<r1(b)>>), Vio, <<r2(b)>>), {<<"vim", v1>>})}

\* Vcloud Director with a vApp without a VM, first or not, and with none.
Vapps == {m1 :> <<TRUE>> @@ m2 :> <<>>, m1 :> <<>> @@ m2 :> <<TRUE>>,
          m1 :> <<TRUE, FALSE>>, m1 :> <<FALSE, TRUE>> @@ m2 :> <<TRUE>>}

ofTwo == f1 :> <<r1(b), r2(b)>>

Unsteady ==
  {Failing(World([Openstack EXCEPT !.measured = Few], f1 :> <<r1(a)>>), {<<"vim", v1>>}),
   Failing(World([Openstack EXCEPT !.measured = {}], ofTwo), {<<"vim", v1>>}),
   Failing(World(Vio, f1 :> <<r1(b)>>), {<<"vim", v1>>, <<"vrops", v1>>}),
   Failing(World([Vmware EXCEPT !.measured = Few], f1 :> <<r1(b)>>), {<<"vrops", v1>>})}
  \cup {Failing(World([Vmware EXCEPT !.vapps = v], ofTwo), {<<"vim", v1>>}) : v \in Vapps}
  \cup {Failing(World([Vmware EXCEPT !.vapps = m1 :> <<TRUE>> @@ m2 :> <<>>],
                      f1 :> <<r1(b)>> @@ f2 :> <<r2(b)>>), {<<"vim", v1>>})}

\* What vROPS does not list or resolve, other configurations, controllers.
Odd ==
  {World([Vmware EXCEPT !.listed = {m2}], ofTwo), World([Vmware EXCEPT !.resolved = {m2}], ofTwo),
   World([Vio EXCEPT !.listed = {}], ofTwo), World([Openstack EXCEPT !.backends = {}], ofTwo),
   World([Openstack EXCEPT !.vim_type = "aws"], ofTwo),
   World([Vmware EXCEPT !.vdc = FALSE, !.vrops_site = FALSE], ofTwo),
   [World([Openstack EXCEPT !.config = "vio", !.backends = {"ceilometer", "gnocchi"}],
          f1 :> <<r1(a)>>) EXCEPT !.sdncs = onos :> "onos", !.fallible = {<<"sdnc", onos>>}],
   [World(Openstack, f1 :> <<r1(b)>>) EXCEPT !.sdncs = onos :> "odl"]}

\* Charms: two of a VDU and the VNF, of two units, not deployed, of a metric that the
\* VDU declares, and without a management vdur.
Charmed(r, deployed, gauges) ==
  Failing([World([Openstack EXCEPT !.measured = Few], r) EXCEPT !.deployed = deployed,
             !.gauges = gauges], {<<"vca", f1>>})

Charms ==
  {Charmed(f1 :> <<r1(g)>>, {m1, f1}, Gauges),
   Charmed(f1 :> <<r1(b), r2(g)>>, {m1, m2}, Gauges),
   Charmed(f1 :> <<r1(g), r2(b)>>, {f1}, Gauges),
   Charmed(f1 :> <<r1(b), r2(g)>>, {m1, m2}, Gauges \cup {Gauge(m1, u2, users)}),
   Charmed(f1 :> <<r1(b)>>, {m1}, {Gauge(m1, u1, cpu)}),
   Charmed(f1 :> <<r1(b)>>, {m1, f1}, Gauges),
   Charmed(f1 :> <<r1(b), r0(a)>>, {m1, f1}, Gauges)}

MCWorlds == Steady \cup Mixed \cup Unsteady \cup Odd \cup Charms
=============================================================================
