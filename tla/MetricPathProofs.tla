-------------------------- MODULE MetricPathProofs --------------------------
(***************************************************************************)
(* What the workers of a cycle return, and what the exporter makes of it,  *)
(* for records and descriptors of any length and any number of VNFs.  Each *)
(* plugin first: its metrics are of vdurs with a name, and of what their   *)
(* VMs and charms were observed to do.                                     *)
(***************************************************************************)
EXTENDS MetricPath, RecordLemmas

Tag == Iface \cup {NoIface}

\* A metric is of a vdur of the record, and its value of the readings of that
\* vdur's VM or charm, or of the charm of the VNF if it is a management vdur's.
Gathered(vnf, vnfr, m) ==
  \E d \in ToSet(vnfr), tag \in Tag :
    /\ IsNamed(d)
    /\ m.name \in Metric /\ m.val # NoValue
    /\ m = VnfMetric(vnf, d.name, m.name, m.val, tag)
    /\ \A r \in m.val :
         r.metric = m.name /\ (r.src = d.vm \/ (r.src = vnf /\ d.vdu \in MgmtVdu))

AllGathered(vnf, vnfr, ms) == \A m \in ToSet(ms) : Gathered(vnf, vnfr, m)

IsList(s) == s \in Seq(ToSet(s))

\* A sequence of anything is one of its members.
LEMMA ListOf ==
  ASSUME NEW S, NEW s \in Seq(S)
  PROVE  IsList(s)
  BY LenProperties DEF IsList, ToSet

-----------------------------------------------------------------------------
(* The OpenStack plugin. *)

\* Which parameters the metrics are of: each of one with a value, no two of the
\* same, and none with a value left out.
Picks(pos, vnf, todo, vals, ms, n) ==
  /\ pos \in [1..Len(ms) -> 1..n]
  /\ \A i, h \in 1..Len(ms) : pos[i] = pos[h] => i = h
  /\ \A i \in 1..Len(ms) :
       /\ vals[pos[i]] # NoValue
       /\ \E tag \in Tag :
            /\ ms[i] = VnfMetric(vnf, todo[pos[i]].name, todo[pos[i]].param.metric,
                                 vals[pos[i]], tag)
            /\ todo[pos[i]].param.iface # NoIface => tag = todo[pos[i]].param.iface
  /\ \A k \in 1..n : vals[k] # NoValue => \E i \in 1..Len(ms) : pos[i] = k

Picked(vnf, todo, vals, ms, n) == \E pos : Picks(pos, vnf, todo, vals, ms, n)

\* A parameter without a value leaves the metrics as they are.
LEMMA PickNone ==
  ASSUME NEW vnf, NEW todo, NEW vals, NEW M, NEW ms \in Seq(M),
         NEW N \in Nat, NEW n \in 1..N, Picked(vnf, todo, vals, ms, n - 1),
         vals[n] = NoValue
  PROVE  Picked(vnf, todo, vals, ms, n)
<1>1. PICK pos : Picks(pos, vnf, todo, vals, ms, n - 1)
  BY DEF Picked
<1>2. Len(ms) \in Nat /\ \A k \in 1..n : k = n \/ k \in 1..(n - 1)
  BY LenProperties
<1>3. 1..(n - 1) \subseteq 1..n
  OBVIOUS
<1>4. pos \in [1..Len(ms) -> 1..n]
  BY <1>1, <1>3 DEF Picks
<1>5. Picks(pos, vnf, todo, vals, ms, n)
  BY <1>1, <1>2, <1>4 DEF Picks
<1> QED
  BY <1>5 DEF Picked

\* One with a value makes one metric more.
LEMMA PickOne ==
  ASSUME NEW vnf, NEW todo, NEW vals, NEW M, NEW ms \in Seq(M),
         NEW N \in Nat, NEW n \in 1..N, Picked(vnf, todo, vals, ms, n - 1),
         vals[n] # NoValue, NEW tag \in Tag,
         todo[n].param.iface # NoIface => tag = todo[n].param.iface,
         NEW e \in M,
         e = VnfMetric(vnf, todo[n].name, todo[n].param.metric, vals[n], tag)
  PROVE  Append(ms, e) \in Seq(M) /\ Picked(vnf, todo, vals, Append(ms, e), n)
<1>1. PICK pos : Picks(pos, vnf, todo, vals, ms, n - 1)
  BY DEF Picked
<1>2. PICK L \in Nat : L = Len(ms)
  BY LenProperties
<1>3. PICK after : after = Append(ms, e)
  OBVIOUS
<1>4. /\ after \in Seq(M) /\ Len(after) = L + 1 /\ after[L + 1] = e
      /\ \A i \in 1..L : after[i] = ms[i]
  BY <1>2, <1>3, AppendProperties
<1>5. PICK next : next = [i \in 1..(L + 1) |-> IF i = L + 1 THEN n ELSE pos[i]]
  OBVIOUS
<1>6. \A i \in 1..(L + 1) : i = L + 1 \/ i \in 1..L
  BY <1>2
<1>7. ASSUME NEW i \in 1..L
      PROVE  /\ i \in 1..(L + 1) /\ i # L + 1 /\ next[i] = pos[i]
             /\ pos[i] \in 1..(n - 1) /\ pos[i] \in 1..n /\ pos[i] # n
  <2>1. pos[i] \in 1..(n - 1)
    BY <1>1, <1>2 DEF Picks
  <2> QED
    BY <1>2, <1>5, <2>1
<1>8. L + 1 \in 1..(L + 1) /\ next[L + 1] = n /\ n \in 1..n
  BY <1>2, <1>5
<1>9. next \in [1..(L + 1) -> 1..n]
  BY <1>5, <1>6, <1>7, <1>8
<1>10. ASSUME NEW i \in 1..(L + 1), NEW h \in 1..(L + 1), next[i] = next[h]
       PROVE  i = h
  <2>1. CASE i \in 1..L /\ h \in 1..L
    <3>1. pos[i] = pos[h]
      BY <1>7, <1>10, <2>1
    <3> QED
      BY <1>1, <1>2, <2>1, <3>1 DEF Picks
  <2> QED
    BY <1>6, <1>7, <1>8, <1>10, <2>1
<1>11. ASSUME NEW i \in 1..(L + 1)
       PROVE  /\ vals[next[i]] # NoValue
              /\ \E t \in Tag :
                   /\ after[i] = VnfMetric(vnf, todo[next[i]].name,
                                           todo[next[i]].param.metric, vals[next[i]], t)
                   /\ todo[next[i]].param.iface # NoIface => t = todo[next[i]].param.iface
  <2>1. CASE i = L + 1
    BY <1>4, <1>8, <2>1
  <2>2. CASE i \in 1..L
    <3>1. after[i] = ms[i] /\ next[i] = pos[i]
      BY <1>4, <1>7, <2>2
    <3> QED
      BY <1>1, <1>2, <2>2, <3>1 DEF Picks
  <2> QED
    BY <1>6, <2>1, <2>2
<1>12. ASSUME NEW k \in 1..n, vals[k] # NoValue
       PROVE  \E i \in 1..(L + 1) : next[i] = k
  <2>1. CASE k = n
    BY <1>8, <2>1
  <2>2. CASE k # n
    <3>1. k \in 1..(n - 1)
      BY <2>2
    <3>2. PICK i \in 1..L : pos[i] = k
      BY <1>1, <1>2, <1>12, <3>1 DEF Picks
    <3> QED
      BY <1>7, <3>2
  <2> QED
    BY <2>1, <2>2
<1>13. Picks(next, vnf, todo, vals, after, n)
  BY <1>4, <1>9, <1>10, <1>11, <1>12 DEF Picks
<1> QED
  BY <1>3, <1>4, <1>13 DEF Picked

\* What the VIM says of each parameter.
VdurOf(vnfr, w) == vnfr[VdurIndex(vnfr, w.name)]

ValueOf(vnfr, backend, measured, w) ==
  CollectMetric(backend, measured, w.param, VdurOf(vnfr, w).vm)

Values(vnfr, backend, measured) ==
  [k \in DOMAIN Work(vnfr) |-> ValueOf(vnfr, backend, measured, Work(vnfr)[k])]

Raises(vnfr, w) == w.param.metric \notin Mapped \/ ~IsNamed(VdurOf(vnfr, w))

\* The tag and the metrics after n parameters, whose recursion has a solution.
IsTags(g, todo, vals) ==
  g = [n \in 0..Len(todo) |->
         IF n = 0 THEN NothingCollected.tag ELSE TagAfter(g[n - 1], todo[n], vals[n])]

IsMetrics(g, vnf, todo, vals, tag) ==
  g = [n \in 0..Len(todo) |->
         IF n = 0 THEN NothingCollected.metrics
         ELSE MetricsAfter(vnf, g[n - 1], tag[n], todo[n], vals[n])]

LEMMA TagsExist ==
  ASSUME NEW I, NEW todo \in Seq(I), NEW vals, \A w \in I : w.param \in Param
  PROVE  \E g : IsTags(g, todo, vals) /\ g \in [0..Len(todo) -> Tag]
<1>1. PICK N \in Nat : N = Len(todo) /\ \A n \in 1..N : todo[n].param \in Param
  BY LenProperties
<1>2. PICK step : step = [p \in Tag \X (1..N) |-> TagAfter(p[1], todo[p[2]], vals[p[2]])]
  OBVIOUS
<1>3. \A t \in Tag, n \in 1..N : TagAfter(t, todo[n], vals[n]) \in Tag
  BY <1>1 DEF TagAfter, Tag, Param
<1>4. step \in [Tag \X (1..N) -> Tag] /\ NoIface \in Tag
  BY <1>2, <1>3 DEF Tag
<1>5. PICK g : Recurs(g, Tag, N, NoIface, step)
  BY <1>4, RecursionExists
<1>6. ASSUME NEW n \in 0..N
      PROVE  g[n] = IF n = 0 THEN NoIface ELSE TagAfter(g[n - 1], todo[n], vals[n])
  <2>1. g[n] = IF n = 0 THEN NoIface ELSE step[<<g[n - 1], n>>]
    BY <1>5 DEF Recurs
  <2>2. n # 0 => n \in 1..N /\ g[n - 1] \in Tag
    BY <1>5 DEF Recurs
  <2> QED
    BY <1>2, <2>1, <2>2
<1>7. g \in [0..N -> Tag]
  BY <1>5 DEF Recurs
<1>8. NothingCollected.tag = NoIface
  BY DEF NothingCollected
<1> QED
  BY <1>1, <1>6, <1>7, <1>8 DEF IsTags

LEMMA MetricsExist ==
  ASSUME NEW vnf, NEW M, NEW todo, Len(todo) \in Nat, NEW vals, NEW tag,
         \A n \in 1..Len(todo) :
           VnfMetric(vnf, todo[n].name, todo[n].param.metric, vals[n], tag[n]) \in M
  PROVE  \E g : IsMetrics(g, vnf, todo, vals, tag) /\ g \in [0..Len(todo) -> Seq(M)]
<1>1. PICK N \in Nat : N = Len(todo)
  OBVIOUS
<1>2. PICK step : step = [p \in Seq(M) \X (1..N) |->
                            MetricsAfter(vnf, p[1], tag[p[2]], todo[p[2]], vals[p[2]])]
  OBVIOUS
<1>3. \A s \in Seq(M), n \in 1..N :
        MetricsAfter(vnf, s, tag[n], todo[n], vals[n]) \in Seq(M)
  BY <1>1, AppendProperties DEF MetricsAfter
<1>4. step \in [Seq(M) \X (1..N) -> Seq(M)] /\ <<>> \in Seq(M)
  <2>1. \A p \in Seq(M) \X (1..N) : p[1] \in Seq(M) /\ p[2] \in 1..N
    OBVIOUS
  <2>2. \A p \in Seq(M) \X (1..N) :
          MetricsAfter(vnf, p[1], tag[p[2]], todo[p[2]], vals[p[2]]) \in Seq(M)
    BY <1>3, <2>1
  <2> QED
    BY <1>2, <2>2
<1>5. PICK g : Recurs(g, Seq(M), N, <<>>, step)
  BY <1>4, RecursionExists
<1>6. ASSUME NEW n \in 0..N
      PROVE  g[n] = IF n = 0 THEN <<>>
                    ELSE MetricsAfter(vnf, g[n - 1], tag[n], todo[n], vals[n])
  <2>1. g[n] = IF n = 0 THEN <<>> ELSE step[<<g[n - 1], n>>]
    BY <1>5 DEF Recurs
  <2>2. n # 0 => n \in 1..N /\ g[n - 1] \in Seq(M)
    BY <1>5 DEF Recurs
  <2> QED
    BY <1>2, <2>1, <2>2
<1>7. g \in [0..N -> Seq(M)]
  BY <1>5 DEF Recurs
<1>8. NothingCollected.metrics = <<>>
  BY DEF NothingCollected
<1> QED
  BY <1>1, <1>6, <1>7, <1>8 DEF IsMetrics

\* Each parameter of a list either has no value or makes one metric.
LEMMA MetricsPicked ==
  ASSUME NEW vnf, NEW I, NEW todo \in Seq(I), NEW vals, \A w \in I : w.param \in Param,
         NEW tag, IsTags(tag, todo, vals),
         NEW ms, IsMetrics(ms, vnf, todo, vals, tag)
  PROVE  /\ IsList(ms[Len(todo)])
         /\ Picked(vnf, todo, vals, ms[Len(todo)], Len(todo))
<1>1. PICK N \in Nat : N = Len(todo) /\ \A n \in 1..N : todo[n].param \in Param
  BY LenProperties
<1> DEFINE M == {VnfMetric(vnf, todo[k].name, todo[k].param.metric, vals[k], t) :
                   k \in 1..N, t \in Tag}
<1>2. \A k \in 1..N, t \in Tag :
        VnfMetric(vnf, todo[k].name, todo[k].param.metric, vals[k], t) \in M
  OBVIOUS
<1> HIDE DEF M
<1>3. tag[0] = NoIface /\ ms[0] = <<>> /\ 0 \in 0..N
  <2>1. 0 \in 0..Len(todo)
    BY <1>1
  <2> QED
    BY <1>1, <2>1, Zenon DEF IsTags, IsMetrics, NothingCollected
<1>4. ASSUME NEW n \in 1..N
      PROVE  /\ tag[n] = TagAfter(tag[n - 1], todo[n], vals[n])
             /\ ms[n] = MetricsAfter(vnf, ms[n - 1], tag[n], todo[n], vals[n])
  <2>1. n \in 0..Len(todo) /\ n # 0
    BY <1>1
  <2> QED
    BY <2>1, Zenon DEF IsTags, IsMetrics
<1> DEFINE P == {n \in 0..N : tag[n] \in Tag /\ ms[n] \in Seq(M)
                              /\ Picked(vnf, todo, vals, ms[n], n)}
<1>5. 0 \in P
  <2>1. Picks(<<>>, vnf, todo, vals, <<>>, 0)
    BY DEF Picks
  <2>2. Picked(vnf, todo, vals, ms[0], 0) /\ tag[0] \in Tag /\ ms[0] \in Seq(M)
    BY <1>3, <2>1 DEF Picked, Tag
  <2> QED
    BY <1>3, <2>2
<1>6. ASSUME NEW n \in 1..N, n - 1 \in P PROVE n \in P
  <2>1. /\ tag[n - 1] \in Tag /\ ms[n - 1] \in Seq(M)
        /\ Picked(vnf, todo, vals, ms[n - 1], n - 1)
    BY <1>6
  <2>2. tag[n] \in Tag
    BY <1>1, <1>4, <2>1 DEF TagAfter, Tag, Param
  <2>3. ms[n] \in Seq(M) /\ Picked(vnf, todo, vals, ms[n], n)
    <3>1. CASE vals[n] = NoValue
      <4>1. ms[n] = ms[n - 1]
        BY <1>4, <3>1 DEF MetricsAfter
      <4> QED
        BY <2>1, <3>1, <4>1, PickNone
    <3>2. CASE vals[n] # NoValue
      <4>1. todo[n].param.iface # NoIface => tag[n] = todo[n].param.iface
        BY <1>4, <3>2 DEF TagAfter
      <4>2. PICK e : e = VnfMetric(vnf, todo[n].name, todo[n].param.metric, vals[n], tag[n])
        OBVIOUS
      <4>3. ms[n] = Append(ms[n - 1], e)
        BY <1>4, <3>2, <4>2 DEF MetricsAfter
      <4>4. e \in M
        BY <1>2, <2>2, <4>2
      <4>5. /\ Append(ms[n - 1], e) \in Seq(M)
            /\ Picked(vnf, todo, vals, Append(ms[n - 1], e), n)
        BY <2>1, <2>2, <3>2, <4>1, <4>2, <4>4, PickOne
      <4> QED
        BY <4>3, <4>5
    <3> QED
      BY <3>1, <3>2
  <2>4. n \in 0..N
    OBVIOUS
  <2> QED
    BY <2>2, <2>3, <2>4
<1>7. N \in P
  <2>1. \A n \in 0..N : n \in P
    <3> HIDE DEF P
    <3> QED
      BY <1>5, <1>6, UpTo
  <2> HIDE DEF P
  <2> QED
    BY <2>1
<1>8. ms[N] \in Seq(M) /\ Picked(vnf, todo, vals, ms[N], N)
  BY <1>7
<1> QED
  BY <1>1, <1>8, ListOf

\* A pass raises, or makes a metric of each parameter with a value.
LEMMA OpenstackPass ==
  ASSUME NEW vnf, NEW vnfr, IsRecord(vnfr), NEW backend, NEW measured,
         NEW ms, ms = OpenstackMetrics(vnf, vnfr, backend, measured)
  PROVE  \/ ms = <<>> /\ \E w \in ToSet(Work(vnfr)) : Raises(vnfr, w)
         \/ /\ \A w \in ToSet(Work(vnfr)) : ~ Raises(vnfr, w)
            /\ IsList(ms)
            /\ Picked(vnf, Work(vnfr), Values(vnfr, backend, measured), ms,
                      Len(Work(vnfr)))
<1> DEFINE I == [name : {d.name : d \in ToSet(vnfr)}, param : Param]
           todo == Work(vnfr)
           vdur(w) == vnfr[VdurIndex(vnfr, w.name)]
           value(w) == CollectMetric(backend, measured, w.param, vdur(w).vm)
           raises(w) == w.param.metric \notin Mapped \/ ~IsNamed(vdur(w))
<1>1. vnfr \in Seq(ToSet(vnfr))
  BY DEF IsRecord
<1>2. todo \in Seq(I)
  <2>0. PICK N : N = {d.name : d \in ToSet(vnfr)}
    OBVIOUS
  <2>1. N = {d.name : d \in ToSet(vnfr)} /\ \A d \in ToSet(vnfr) : d.name \in N
    BY <2>0
  <2>2. Work(vnfr) \in Seq([name : N, param : Param])
    BY <1>1, <2>1, WorkProperties
  <2> QED
    BY <2>1, <2>2
<1>3. PICK vals : vals = Values(vnfr, backend, measured)
  OBVIOUS
<1>4. ASSUME NEW n \in 1..Len(todo) PROVE vals[n] = value(todo[n])
  <2>1. n \in DOMAIN todo
    BY <1>2, LenProperties
  <2> QED
    BY <1>3, <2>1 DEF Values, ValueOf, VdurOf
<1> DEFINE tag == CHOOSE g : g = [n \in 0..Len(todo) |->
                     IF n = 0 THEN NothingCollected.tag
                     ELSE TagAfter(g[n - 1], todo[n], value(todo[n]))]
           metrics == CHOOSE g : g = [n \in 0..Len(todo) |->
                     IF n = 0 THEN NothingCollected.metrics
                     ELSE MetricsAfter(vnf, g[n - 1], tag[n], todo[n], value(todo[n]))]
<1>5. OpenstackMetrics(vnf, vnfr, backend, measured) =
        IF \E w \in ToSet(todo) : raises(w) THEN <<>> ELSE metrics[Len(todo)]
  BY DEF OpenstackMetrics
<1>6. \A w \in I : w.param \in Param
  OBVIOUS
<1> HIDE DEF I, todo, value, vdur, raises
<1>7. /\ Len(todo) \in Nat
      /\ \A n \in 0..Len(todo) : n # 0 => n \in 1..Len(todo) /\ vals[n] = value(todo[n])
  BY <1>2, <1>4, LenProperties
<1>8. IsTags(tag, todo, vals)
  <2> DEFINE Solves(g) == g = [n \in 0..Len(todo) |->
                                 IF n = 0 THEN NothingCollected.tag
                                 ELSE TagAfter(g[n - 1], todo[n], value(todo[n]))]
  <2>1. \A g : Solves(g) <=> IsTags(g, todo, vals)
    BY <1>7 DEF IsTags
  <2>2. \E g : Solves(g)
    <3>1. \E g : IsTags(g, todo, vals)
      BY <1>2, <1>6, TagsExist
    <3> HIDE DEF Solves
    <3> QED
      BY <2>1, <3>1
  <2>3. Solves(CHOOSE g : Solves(g))
    <3> HIDE DEF Solves
    <3> QED
      BY <2>2
  <2> QED
    BY <2>1, <2>3
<1> HIDE DEF tag
<1>9. IsMetrics(metrics, vnf, todo, vals, tag)
  <2> DEFINE Solves(g) == g = [n \in 0..Len(todo) |->
                     IF n = 0 THEN NothingCollected.metrics
                     ELSE MetricsAfter(vnf, g[n - 1], tag[n], todo[n], value(todo[n]))]
             M == {VnfMetric(vnf, todo[k].name, todo[k].param.metric, vals[k], tag[k]) :
                     k \in 1..Len(todo)}
  <2>1. \A g : Solves(g) <=> IsMetrics(g, vnf, todo, vals, tag)
    BY <1>7 DEF IsMetrics
  <2>2. \E g : Solves(g)
    <3>1. \A n \in 1..Len(todo) :
            VnfMetric(vnf, todo[n].name, todo[n].param.metric, vals[n], tag[n]) \in M
      OBVIOUS
    <3>2. \E g : IsMetrics(g, vnf, todo, vals, tag)
      <4> HIDE DEF M
      <4> QED
        BY <1>7, <3>1, MetricsExist
    <3> HIDE DEF Solves
    <3> QED
      BY <2>1, <3>2
  <2>3. Solves(CHOOSE g : Solves(g))
    <3> HIDE DEF Solves
    <3> QED
      BY <2>2
  <2> QED
    BY <2>1, <2>3
<1> HIDE DEF metrics
<1>10. /\ IsList(metrics[Len(todo)])
       /\ Picked(vnf, todo, vals, metrics[Len(todo)], Len(todo))
  BY <1>2, <1>6, <1>8, <1>9, MetricsPicked
<1>11. \A w : raises(w) <=> Raises(vnfr, w)
  BY DEF raises, vdur, Raises, VdurOf
<1> QED
  BY <1>3, <1>5, <1>10, <1>11 DEF todo

\* What VnfMetric makes.
LEMMA VnfMetricFields ==
  ASSUME NEW vnf, NEW vdu_name, NEW name, NEW value, NEW iface, NEW m,
         m = VnfMetric(vnf, vdu_name, name, value, iface)
  PROVE  /\ DOMAIN m = {"name", "val", "tags"} /\ m.name = name /\ m.val = value
         /\ DOMAIN m.tags = IF iface = NoIface THEN {"vnf", "vdu_name"}
                            ELSE {"vnf", "vdu_name", "interface"}
         /\ m.tags.vnf = vnf /\ m.tags.vdu_name = vdu_name
         /\ iface # NoIface => m.tags.interface = iface
  BY DEF VnfMetric

\* What collect goes through is declared for named vdurs of the record.
LEMMA WorkOfRecord ==
  ASSUME NEW vnfr, IsRecord(vnfr)
  PROVE  /\ DOMAIN Work(vnfr) = 1..Len(Work(vnfr))
         /\ \A w \in ToSet(Work(vnfr)) :
              /\ w.param \in Param
              /\ \E d \in ToSet(vnfr) : \E p \in ToSet(ParamsOf(d)) :
                   /\ IsNamed(d) /\ w.name = d.name /\ w.param = p
                   /\ w = [name |-> d.name, param |-> p]
<1> DEFINE N == {d.name : d \in ToSet(vnfr)}
<1>1. vnfr \in Seq(ToSet(vnfr)) /\ \A d \in ToSet(vnfr) : IsNamed(d) => d.name \in N
  BY DEF IsRecord
<1> HIDE DEF N
<1>2. Work(vnfr) \in Seq([name : N, param : Param])
  BY <1>1, WorkProperties
<1>3. DOMAIN Work(vnfr) = 1..Len(Work(vnfr))
  BY <1>2, LenProperties
<1>4. ASSUME NEW w \in ToSet(Work(vnfr)) PROVE w.param \in Param
  <2>1. w \in [name : N, param : Param]
    <3>1. \A S : Work(vnfr) \in Seq(S) => w \in S
      BY LenProperties DEF ToSet
    <3> QED
      BY <1>2, <3>1
  <2> QED
    BY <2>1
<1>5. ASSUME NEW w \in ToSet(Work(vnfr))
      PROVE  \E d \in ToSet(vnfr) : \E p \in ToSet(ParamsOf(d)) :
               /\ IsNamed(d) /\ w.name = d.name /\ w.param = p
               /\ w = [name |-> d.name, param |-> p]
  <2>1. PICK d \in ToSet(vnfr) : \E p \in ToSet(ParamsOf(d)) : w = [name |-> d.name, param |-> p]
    BY <1>1, WorkProperties
  <2>2. IsNamed(d)
    <3>1. ToSet(ParamsOf(d)) # {}
      BY <2>1
    <3>2. ~ IsNamed(d) => ParamsOf(d) = <<>>
      BY DEF ParamsOf
    <3>3. ToSet(<<>>) = {}
      BY DEF ToSet
    <3> QED
      BY <3>1, <3>2, <3>3
  <2> QED
    BY <2>1, <2>2
<1> QED
  BY <1>3, <1>4, <1>5

\* The vdur that get_vdur returns for a parameter bears the name it has.
LEMMA VdurFound ==
  ASSUME NEW vnfr, IsRecord(vnfr), NEW w \in ToSet(Work(vnfr)), ~ Raises(vnfr, w)
  PROVE  /\ VdurOf(vnfr, w) \in ToSet(vnfr) /\ IsNamed(VdurOf(vnfr, w))
         /\ VdurOf(vnfr, w).name = w.name
         /\ \E p \in ToSet(ParamsOf(VdurOf(vnfr, w))) :
              w.param = p /\ w = [name |-> w.name, param |-> p]
<1>1. PICK d \in ToSet(vnfr) :
        /\ IsNamed(d) /\ w.name = d.name
        /\ \E p \in ToSet(ParamsOf(d)) : w.param = p /\ w = [name |-> d.name, param |-> p]
  BY WorkOfRecord
<1>2. VdurIndex(vnfr, w.name) # 0
  BY <1>1, WhereItStops DEF IsRecord
<1>3. PICK e : e = VdurOf(vnfr, w)
  OBVIOUS
<1>4. e \in ToSet(vnfr) /\ e.name \in {w.name, Unfilled} /\ IsNamed(e)
  BY <1>2, <1>3, WhereItStops DEF IsRecord, VdurOf, Raises, ToSet
<1>5. e.name = w.name
  BY <1>4 DEF IsNamed
<1>6. e = d
  <2>1. PICK i \in DOMAIN vnfr, j \in DOMAIN vnfr : e = vnfr[i] /\ d = vnfr[j]
    BY <1>1, <1>4 DEF ToSet
  <2> QED
    BY <1>1, <1>4, <1>5, <2>1 DEF IsRecord
<1> QED
  BY <1>1, <1>3, <1>4, <1>5, <1>6

\* A metric is of a parameter of a named vdur; of one with an interface it is tagged
\* with that, and has no measure of another.
OfParam(d, p, m) ==
  /\ IsNamed(d) /\ d.name = m.tags.vdu_name /\ p.metric = m.name
  /\ p.iface # NoIface => /\ "interface" \in DOMAIN m.tags /\ m.tags.interface = p.iface
                          /\ \A r \in m.val : r.iface \in {NoIface, p.iface}

\* The k-th parameter of a record is that of m.
IsParamOf(k, vnfr, m) ==
  /\ k \in DOMAIN Work(vnfr)
  /\ \E d \in ToSet(vnfr) : \E p \in ToSet(ParamsOf(d)) :
       Work(vnfr)[k] = [name |-> d.name, param |-> p] /\ OfParam(d, p, m)

\* The metric made of a parameter is of the vdur that bears the parameter's name.
LEMMA PickedParam ==
  ASSUME NEW vnf, NEW vnfr, IsRecord(vnfr), NEW backend, NEW measured, NEW ms,
         \A w \in ToSet(Work(vnfr)) : ~ Raises(vnfr, w),
         NEW pos,
         Picks(pos, vnf, Work(vnfr), Values(vnfr, backend, measured), ms, Len(Work(vnfr))),
         NEW i \in 1..Len(ms)
  PROVE  Gathered(vnf, vnfr, ms[i]) /\ IsParamOf(pos[i], vnfr, ms[i])
<1> DEFINE todo == Work(vnfr)
           vals == Values(vnfr, backend, measured)
<1>1. PICK m : m = ms[i]
  OBVIOUS
<1>2. PICK k \in 1..Len(todo) : k = pos[i]
  BY DEF Picks
<1>3. PICK w : w = todo[k] /\ w \in ToSet(todo) /\ k \in DOMAIN todo
  BY <1>2, WorkOfRecord DEF ToSet
<1>4. PICK d : d = VdurOf(vnfr, w)
  OBVIOUS
<1>5. /\ d \in ToSet(vnfr) /\ IsNamed(d) /\ d.name = w.name
      /\ \E p \in ToSet(ParamsOf(d)) : w.param = p /\ w = [name |-> w.name, param |-> p]
  BY <1>3, <1>4, VdurFound
<1>6. PICK tag \in Tag :
        /\ m = VnfMetric(vnf, w.name, w.param.metric, vals[k], tag)
        /\ w.param.iface # NoIface => tag = w.param.iface
  BY <1>1, <1>2, <1>3 DEF Picks
<1>7. /\ m.name = w.param.metric /\ m.val = vals[k] /\ m.tags.vdu_name = w.name
      /\ tag # NoIface => "interface" \in DOMAIN m.tags /\ m.tags.interface = tag
  BY <1>6, VnfMetricFields
<1>8. w.param \in Param
  BY <1>3, WorkOfRecord
<1>9. vals[k] # NoValue
  BY <1>2 DEF Picks
<1>10. \A r \in vals[k] :
         r.metric = w.param.metric /\ r.src = d.vm /\ r.iface \in Interfaces(w.param)
  <2>1. vals[k] = CollectMetric(backend, measured, w.param, d.vm)
    BY <1>3, <1>4 DEF Values, ValueOf
  <2>2. PICK ifaces : ifaces = Interfaces(w.param)
    OBVIOUS
  <2>3. vals[k] = NoValue \/
        vals[k] = measured \cap [src : {d.vm}, metric : {w.param.metric}, iface : ifaces]
    BY <2>1, <2>2 DEF CollectMetric
  <2> QED
    BY <2>2, <2>3 DEF NoValue
<1>11. Gathered(vnf, vnfr, ms[i])
  BY <1>1, <1>5, <1>6, <1>7, <1>8, <1>9, <1>10 DEF Gathered, Param
<1>12. w.param.iface # NoIface => \A r \in m.val : r.iface \in {NoIface, w.param.iface}
  <2>1. w.param.iface # NoIface => Interfaces(w.param) \subseteq {NoIface, w.param.iface}
    BY DEF Interfaces, MetricType
  <2> QED
    BY <1>7, <1>10, <2>1
<1>13. PICK p \in ToSet(ParamsOf(d)) : w.param = p /\ w = [name |-> d.name, param |-> p]
  BY <1>5
<1>14. OfParam(d, p, ms[i])
  BY <1>1, <1>5, <1>6, <1>7, <1>12, <1>13 DEF OfParam
<1> QED
  BY <1>2, <1>3, <1>5, <1>11, <1>13, <1>14 DEF IsParamOf

\* The plugin makes metrics of what was observed of the VM that bears the name, and
\* of parameters the VDU declares.
LEMMA OpenstackGathers ==
  ASSUME NEW vnf, NEW vnfr, IsRecord(vnfr), NEW backend, NEW measured,
         NEW ms, ms = OpenstackMetrics(vnf, vnfr, backend, measured)
  PROVE  /\ IsList(ms) /\ AllGathered(vnf, vnfr, ms)
         /\ \A m \in ToSet(ms) : \E d \in ToSet(vnfr) : \E p \in ToSet(ParamsOf(d)) :
              OfParam(d, p, m)
<1>1. CASE ms = <<>>
  BY <1>1 DEF IsList, AllGathered, ToSet
<1>2. CASE ms # <<>>
  <2> DEFINE todo == Work(vnfr)
             vals == Values(vnfr, backend, measured)
  <2>1. /\ \A w \in ToSet(todo) : ~ Raises(vnfr, w)
        /\ IsList(ms) /\ Picked(vnf, todo, vals, ms, Len(todo))
    BY <1>2, OpenstackPass
  <2>2. PICK pos : Picks(pos, vnf, todo, vals, ms, Len(todo))
    BY <2>1 DEF Picked
  <2>3. ASSUME NEW m \in ToSet(ms)
        PROVE  /\ Gathered(vnf, vnfr, m)
               /\ \E d \in ToSet(vnfr) : \E p \in ToSet(ParamsOf(d)) : OfParam(d, p, m)
    <3>1. PICK i \in 1..Len(ms) : m = ms[i]
      BY <2>1, LenProperties DEF ToSet, IsList
    <3>2. Gathered(vnf, vnfr, m) /\ IsParamOf(pos[i], vnfr, m)
      BY <2>1, <2>2, <3>1, PickedParam
    <3> QED
      BY <3>2 DEF IsParamOf
  <2> QED
    BY <2>1, <2>3 DEF AllGathered
<1> QED
  BY <1>1, <1>2

\* And it leaves out no parameter of a complete record that Gnocchi has a measure for.
LEMMA OpenstackCollects ==
  ASSUME NEW vnf, NEW vnfr, IsRecord(vnfr), Complete(vnfr), NEW measured,
         NEW ms, ms = OpenstackMetrics(vnf, vnfr, "gnocchi", measured),
         \A x \in ToSet(Work(vnfr)) : x.param.metric \in Mapped,
         NEW w \in ToSet(Work(vnfr)), NEW d \in ToSet(vnfr), d.name = w.name,
         NEW r \in measured, IsReading(r), r.src = d.vm, r.metric = w.param.metric,
         r.iface \in Interfaces(w.param)
  PROVE  \E m \in ToSet(ms) : m.name = w.param.metric /\ m.tags.vdu_name = w.name
<1> DEFINE todo == Work(vnfr)
           vals == Values(vnfr, "gnocchi", measured)
<1>1. ASSUME NEW x \in ToSet(todo) PROVE ~ Raises(vnfr, x)
  <2>1. PICK e \in ToSet(vnfr) : x.name = e.name
    BY WorkOfRecord
  <2>2. VdurIndex(vnfr, x.name) \in DOMAIN vnfr
    BY <2>1, WhereItStops DEF IsRecord
  <2> QED
    BY <2>2 DEF Raises, VdurOf, Complete
<1>2. IsList(ms) /\ Picked(vnf, todo, vals, ms, Len(todo))
  BY <1>1, OpenstackPass
<1>3. PICK pos : Picks(pos, vnf, todo, vals, ms, Len(todo))
  BY <1>2 DEF Picked
<1>4. DOMAIN ms = 1..Len(ms) /\ DOMAIN todo = 1..Len(todo)
  BY <1>2, LenProperties, WorkOfRecord DEF IsList
<1>5. PICK k \in 1..Len(todo) : w = todo[k]
  BY <1>4 DEF ToSet
<1>6. VdurOf(vnfr, w) = d
  <2>1. PICK e : e = VdurOf(vnfr, w)
    OBVIOUS
  <2>2. e \in ToSet(vnfr) /\ IsNamed(e) /\ e.name = d.name
    BY <1>1, <2>1, VdurFound
  <2>3. PICK i \in DOMAIN vnfr, j \in DOMAIN vnfr : e = vnfr[i] /\ d = vnfr[j]
    BY <2>2 DEF ToSet
  <2> QED
    BY <2>1, <2>2, <2>3 DEF IsRecord
<1>7. vals[k] # NoValue
  <2>1. vals[k] = CollectMetric("gnocchi", measured, w.param, d.vm)
    BY <1>4, <1>5, <1>6 DEF Values, ValueOf
  <2>2. PICK ifaces : ifaces = Interfaces(w.param)
    OBVIOUS
  <2>3. vals[k] = measured \cap [src : {d.vm}, metric : {w.param.metric}, iface : ifaces]
    BY <2>1, <2>2 DEF CollectMetric
  <2>4. r \in vals[k]
    BY <2>2, <2>3 DEF IsReading, Reading
  <2> QED
    BY <2>4 DEF NoValue
<1>8. PICK i \in 1..Len(ms) : pos[i] = k
  BY <1>3, <1>7 DEF Picks
<1>9. PICK tag \in Tag : ms[i] = VnfMetric(vnf, w.name, w.param.metric, vals[k], tag)
  BY <1>3, <1>5, <1>8 DEF Picks
<1>10. ms[i].name = w.param.metric /\ ms[i].tags.vdu_name = w.name
  BY <1>9, VnfMetricFields
<1>11. ms[i] \in ToSet(ms)
  BY <1>4 DEF ToSet
<1> QED
  BY <1>10, <1>11

\* Two of its metrics that agree in name and vdur are of two parameters of that vdur.
LEMMA OpenstackApart ==
  ASSUME NEW vnf, NEW vnfr, IsRecord(vnfr), NEW backend, NEW measured,
         NEW ms, ms = OpenstackMetrics(vnf, vnfr, backend, measured),
         NEW i \in DOMAIN ms, NEW h \in DOMAIN ms, i # h,
         ms[i].name = ms[h].name, ms[i].tags.vdu_name = ms[h].tags.vdu_name
  PROVE  \E d \in ToSet(vnfr) : \E x, y \in DOMAIN ParamsOf(d) :
           x # y /\ OfParam(d, ParamsOf(d)[x], ms[i]) /\ OfParam(d, ParamsOf(d)[y], ms[h])
<1> DEFINE todo == Work(vnfr)
           vals == Values(vnfr, backend, measured)
<1>1. /\ \A w \in ToSet(todo) : ~ Raises(vnfr, w)
      /\ IsList(ms) /\ Picked(vnf, todo, vals, ms, Len(todo))
  BY OpenstackPass DEF ToSet
<1>2. PICK pos : Picks(pos, vnf, todo, vals, ms, Len(todo))
  BY <1>1 DEF Picked
<1>3. DOMAIN ms = 1..Len(ms)
  BY <1>1, LenProperties DEF IsList
<1>4. IsParamOf(pos[i], vnfr, ms[i]) /\ IsParamOf(pos[h], vnfr, ms[h])
  BY <1>1, <1>2, <1>3, PickedParam
<1>0. pos[i] # pos[h] /\ pos[i] \in DOMAIN todo /\ pos[h] \in DOMAIN todo
  BY <1>2, <1>3, <1>4 DEF Picks, IsParamOf
<1>5. PICK d \in ToSet(vnfr) : \E p \in ToSet(ParamsOf(d)) :
        todo[pos[i]] = [name |-> d.name, param |-> p] /\ OfParam(d, p, ms[i])
  BY <1>4 DEF IsParamOf
<1>6. PICK p \in ToSet(ParamsOf(d)) :
        todo[pos[i]] = [name |-> d.name, param |-> p] /\ OfParam(d, p, ms[i])
  BY <1>5
<1>7. PICK e \in ToSet(vnfr) : \E q \in ToSet(ParamsOf(e)) :
        todo[pos[h]] = [name |-> e.name, param |-> q] /\ OfParam(e, q, ms[h])
  BY <1>4 DEF IsParamOf
<1>8. PICK q \in ToSet(ParamsOf(e)) :
        todo[pos[h]] = [name |-> e.name, param |-> q] /\ OfParam(e, q, ms[h])
  BY <1>7
<1>9. ASSUME NEW o \in ToSet(vnfr), o.name = d.name PROVE o = d
  <2>1. IsNamed(d)
    BY <1>6 DEF OfParam
  <2>2. PICK j \in DOMAIN vnfr, k \in DOMAIN vnfr : o = vnfr[j] /\ d = vnfr[k]
    BY DEF ToSet
  <2> QED
    BY <1>9, <2>1, <2>2 DEF IsRecord
<1>10. e = d
  <2>1. e.name = d.name
    BY <1>6, <1>8 DEF OfParam
  <2> QED
    BY <1>9, <2>1
<1>11. CASE p # q
  <2>1. PICK x \in DOMAIN ParamsOf(d), y \in DOMAIN ParamsOf(d) :
          p = ParamsOf(d)[x] /\ q = ParamsOf(d)[y]
    BY <1>10 DEF ToSet
  <2> QED
    BY <1>6, <1>8, <1>10, <1>11, <2>1
<1>12. CASE p = q
  <2> DEFINE w == todo[pos[i]]
             N == {o.name : o \in ToSet(vnfr)}
  <2>1. ~Once(todo, {w})
    BY <1>0, <1>6, <1>8, <1>10, <1>12 DEF Once
  <2>2. PICK k \in DOMAIN vnfr : ~Once(WorkOf(vnfr[k]), {w})
    <3>1. /\ vnfr \in Seq(ToSet(vnfr)) /\ \A o \in ToSet(vnfr) : IsNamed(o) => o.name \in N
          /\ \A j, k \in DOMAIN vnfr : IsNamed(vnfr[j]) /\ vnfr[j].name = vnfr[k].name => j = k
      BY DEF IsRecord
    <3> HIDE DEF w, N
    <3> QED
      BY <2>1, <3>1, WorkProperties
  <2>3. PICK x \in DOMAIN WorkOf(vnfr[k]), y \in DOMAIN WorkOf(vnfr[k]) :
          x # y /\ WorkOf(vnfr[k])[x] = w /\ WorkOf(vnfr[k])[y] = w
    BY <2>2 DEF Once
  <2>4. vnfr[k].name = d.name /\ ParamsOf(vnfr[k])[x] = p /\ ParamsOf(vnfr[k])[y] = p
        /\ x \in DOMAIN ParamsOf(vnfr[k]) /\ y \in DOMAIN ParamsOf(vnfr[k])
    BY <1>6, <2>3 DEF WorkOf
  <2>5. vnfr[k] = d
    BY <1>9, <2>4 DEF ToSet
  <2> QED
    BY <1>6, <1>8, <1>10, <1>12, <2>3, <2>4, <2>5
<1> QED
  BY <1>11, <1>12

-----------------------------------------------------------------------------
(* The plugins of vROPS. *)

\* A metric of one reading of a vdur.
OfReading(vnf, d, r) == VnfMetric(vnf, d.name, r.metric, {r}, NoIface)

\* A reading of the VM or charm of a vdur, or of the charm of the VNF.
IsOf(r, vnf, d) == r.src = d.vm \/ (r.src = vnf /\ d.vdu \in MgmtVdu)

LEMMA ReadingGathered ==
  ASSUME NEW vnf, NEW vnfr, NEW d \in ToSet(vnfr), IsNamed(d), NEW r,
         r.metric \in Metric, IsOf(r, vnf, d),
         NEW m, m = OfReading(vnf, d, r)
  PROVE  /\ Gathered(vnf, vnfr, m) /\ m.name = r.metric /\ m.tags.vdu_name = d.name
         /\ DOMAIN m.tags = {"vnf", "vdu_name"}
<1>1. /\ m.name = r.metric /\ m.val = {r} /\ m.tags.vdu_name = d.name
      /\ DOMAIN m.tags = {"vnf", "vdu_name"}
  BY VnfMetricFields DEF OfReading
<1>2. m = VnfMetric(vnf, d.name, m.name, m.val, NoIface) /\ m.val # NoValue
  BY <1>1 DEF OfReading, NoValue
<1> QED
  BY <1>1, <1>2 DEF Gathered, Tag, IsOf

\* Where the loop over the resources finds the name of a VM.
LEMMA LastWithVm ==
  ASSUME NEW S, NEW s \in Seq(S), NEW vm, \E d \in ToSet(s) : d.vm = vm
  PROVE  \E d \in ToSet(s) :
           d.vm = vm /\ s[SelectLastInSeq(s, LAMBDA x : x.vm = vm)] = d
<1> DEFINE I == {i \in 1..Len(s) : s[i].vm = vm}
<1>1. Len(s) \in Nat /\ DOMAIN s = 1..Len(s)
  BY LenProperties
<1>2. I # {} /\ I \in SUBSET (0..Len(s))
  BY <1>1 DEF ToSet
<1>3. SelectLastInSeq(s, LAMBDA x : x.vm = vm) = Max(I)
  BY <1>2 DEF SelectLastInSeq
<1>4. Max(I) \in I
  <2> HIDE DEF I
  <2> QED
    BY <1>1, <1>2, MaxOf
<1> QED
  BY <1>1, <1>3, <1>4 DEF ToSet

\* The metrics of vROPS are readings of the VMs of monitored vdurs, each once, and
\* of metrics that a VDU declares: the last one.
LEMMA VropsGathers ==
  ASSUME NEW vnf, NEW vnfr, IsRecord(vnfr), NEW resolved, NEW listed,
         NEW measured, IsFiniteSet(measured), \A r \in measured : IsReading(r),
         NEW ms, ms = VropsMetrics(vnf, vnfr, resolved, listed, measured)
  PROVE  /\ IsList(ms) /\ Once(ms, ToSet(ms))
         /\ \A m \in ToSet(ms) :
              \E d \in ToSet(vnfr), e \in ToSet(vnfr), r \in measured :
                /\ IsNamed(d) /\ IsMonitored(d) /\ d.vm = r.src
                /\ IsNamed(e) /\ IsMonitored(e)
                /\ \E p \in ToSet(ParamsOf(e)) : p.metric = r.metric
                /\ r.metric \in Metric /\ r.iface = NoIface
                /\ m = OfReading(vnf, d, r)
<1> DEFINE mapping == VduMappings(vnfr, resolved)
           last == Last(Named(vnfr))
           ids == ResourceIds(mapping, listed)
           name(vm) == mapping[SelectLastInSeq(mapping, LAMBDA x : x.vm = vm)].name
           of(r) == VnfMetric(vnf, name(r.src), r.metric, {r}, NoIface)
           reported == Reported(ids, Params[last.vdu], measured)
           metrics == {of(r) : r \in reported}
<1>1. ms = IF mapping = <<>> \/ ~IsMonitored(last) THEN <<>> ELSE SomeOrder(metrics)
  BY DEF VropsMetrics
<1>2. CASE mapping = <<>> \/ ~IsMonitored(last)
  <2>1. ms = <<>> /\ ToSet(<<>>) = {}
    BY <1>1, <1>2 DEF ToSet
  <2> QED
    BY <2>1 DEF IsList, Once
<1>3. CASE mapping # <<>> /\ IsMonitored(last)
  <2>1. /\ mapping \in Seq(ToSet(vnfr))
        /\ ToSet(mapping) = ToSet(vnfr) \cap
             {d \in ToSet(vnfr) : IsNamed(d) /\ IsMonitored(d) /\ d.vm \in resolved}
    BY OnlyProperties DEF VduMappings, IsRecord
  <2>2. /\ Named(vnfr) \in Seq(ToSet(vnfr))
        /\ ToSet(Named(vnfr)) = ToSet(vnfr) \cap {d \in ToSet(vnfr) : IsNamed(d)}
    BY OnlyProperties DEF Named, IsRecord
  <2>3. Named(vnfr) # <<>>
    <3>1. Last(mapping) \in ToSet(mapping)
      BY <1>3, <2>1, LastIn
    <3>2. Last(mapping) \in ToSet(Named(vnfr))
      BY <2>1, <2>2, <3>1
    <3> QED
      BY <3>2 DEF ToSet
  <2>4. last \in ToSet(vnfr) /\ IsNamed(last)
    <3>1. last \in ToSet(Named(vnfr))
      BY <2>2, <2>3, LastIn
    <3> QED
      BY <2>2, <3>1
  <2>5. ParamsOf(last) = Params[last.vdu]
    BY <1>3, <2>4 DEF ParamsOf, IsMonitored
  <2> HIDE DEF last, mapping
  <2>6. ASSUME NEW r \in reported
        PROVE  /\ r \in measured /\ r.iface = NoIface /\ r.src \in ids
               /\ \E p \in ToSet(ParamsOf(last)) : p.metric = r.metric
               /\ r.metric \in Metric
    <3>1. /\ r \in Stats(ids, MonitoringKeys(Params[last.vdu]), measured)
          /\ r.src \in ids /\ r.metric \in MonitoringKeys(Params[last.vdu])
      BY DEF Reported
    <3>2. PICK p \in ToSet(ParamsOf(last)) : p.metric = r.metric
      BY <2>5, <3>1 DEF MonitoringKeys
    <3>3. p \in Param
      <4>1. ParamsOf(last) \in Seq(Param)
        BY RecordsAssumption DEF ParamsOf
      <4> QED
        BY <4>1, LenProperties DEF ToSet
    <3>4. r \in measured /\ r.iface = NoIface
      BY <3>1 DEF Stats
    <3> QED
      BY <3>1, <3>2, <3>3, <3>4 DEF Param
  <2>7. ASSUME NEW r \in reported
        PROVE  \E d \in ToSet(vnfr) : /\ IsNamed(d) /\ IsMonitored(d) /\ d.vm = r.src
                                      /\ of(r) = OfReading(vnf, d, r)
    <3>1. \E d \in ToSet(mapping) : d.vm = r.src
      BY <2>6 DEF ResourceIds
    <3>2. PICK d \in ToSet(mapping) :
            d.vm = r.src /\ mapping[SelectLastInSeq(mapping, LAMBDA x : x.vm = r.src)] = d
      BY <2>1, <3>1, LastWithVm, ZenonT(60)
    <3>3. name(r.src) = d.name
      BY <3>2
    <3> QED
      BY <2>1, <3>2, <3>3 DEF OfReading
  <2>8. IsFiniteSet(metrics)
    <3>1. reported \subseteq measured
      BY <2>6
    <3>2. IsFiniteSet(reported)
      BY <3>1, FS_Subset
    <3> DEFINE f == [r \in reported |-> of(r)]
    <3> HIDE DEF of, reported
    <3>3. metrics = {f[r] : r \in reported} /\ DOMAIN f = reported
      OBVIOUS
    <3>4. f = [r \in reported |-> f[r]]
      OBVIOUS
    <3> HIDE DEF f, metrics
    <3> QED
      BY <3>2, <3>3, <3>4, FiniteImage
  <2>9. ms = SomeOrder(metrics)
    BY <1>1, <1>3
  <2>10. ms \in Seq(metrics) /\ ToSet(ms) = metrics /\ Once(ms, metrics)
    <3> HIDE DEF metrics
    <3> QED
      BY <2>8, <2>9, SomeOrderProperties
  <2>11. IsList(ms) /\ Once(ms, ToSet(ms))
    <3> HIDE DEF metrics
    <3> QED
      BY <2>10, ListOf
  <2>12. ASSUME NEW m \in ToSet(ms) PROVE \E r \in reported : m = of(r)
    BY <2>10
  <2> HIDE DEF reported, of, metrics
  <2> QED
    BY <1>3, <2>4, <2>6, <2>7, <2>11, <2>12
<1> QED
  BY <1>2, <1>3

\* A monitored vdur whose object is resolved and listed has each metric that is
\* measured and that the VDU of the last named vdur declares.
LEMMA VropsCollects ==
  ASSUME NEW vnf, NEW vnfr, IsRecord(vnfr), NEW resolved, NEW listed,
         NEW measured, IsFiniteSet(measured),
         NEW ms, ms = VropsMetrics(vnf, vnfr, resolved, listed, measured),
         NEW d \in ToSet(vnfr), IsNamed(d), IsMonitored(d), d.vm \in resolved, d.vm \in listed,
         IsMonitored(Last(Named(vnfr))),
         NEW r \in measured, r.src = d.vm, r.iface = NoIface, IsReading(r),
         r.metric \in MonitoringKeys(Params[Last(Named(vnfr)).vdu])
  PROVE  \E m \in ToSet(ms) : m.name = r.metric /\ m.tags.vdu_name = d.name
<1> DEFINE mapping == VduMappings(vnfr, resolved)
           last == Last(Named(vnfr))
           ids == ResourceIds(mapping, listed)
           name(vm) == mapping[SelectLastInSeq(mapping, LAMBDA x : x.vm = vm)].name
           of(q) == VnfMetric(vnf, name(q.src), q.metric, {q}, NoIface)
           reported == Reported(ids, Params[last.vdu], measured)
           metrics == {of(q) : q \in reported}
<1>1. ms = IF mapping = <<>> \/ ~IsMonitored(last) THEN <<>> ELSE SomeOrder(metrics)
  BY DEF VropsMetrics
<1>2. vnfr \in Seq(ToSet(vnfr)) /\ \A x \in ToSet(vnfr) : x.vm = d.vm => x = d
  BY DEF IsRecord, ToSet
<1>3. /\ mapping \in Seq(ToSet(vnfr)) /\ d \in ToSet(mapping)
      /\ \A x \in ToSet(mapping) : x \in ToSet(vnfr)
  <2>1. /\ mapping \in Seq(ToSet(vnfr))
        /\ ToSet(mapping) = ToSet(vnfr) \cap
             {x \in ToSet(vnfr) : IsNamed(x) /\ IsMonitored(x) /\ x.vm \in resolved}
    BY OnlyProperties DEF VduMappings, IsRecord
  <2> QED
    BY <1>2, <2>1
<1>4. mapping # <<>>
  BY <1>3 DEF ToSet
<1>6. IsMonitored(last)
  OBVIOUS
<1>7. name(d.vm) = d.name
  <2>1. PICK x \in ToSet(mapping) :
          x.vm = d.vm /\ mapping[SelectLastInSeq(mapping, LAMBDA y : y.vm = d.vm)] = x
    <3> HIDE DEF mapping
    <3> QED
      BY <1>3, LastWithVm, ZenonT(60)
  <2>2. x = d
    BY <1>2, <1>3, <2>1
  <2> QED
    BY <2>1, <2>2
<1>8. r \in reported
  <2>1. r.src \in ids
    BY <1>3 DEF ResourceIds
  <2>2. r.metric \in MonitoringKeys(Params[last.vdu])
    OBVIOUS
  <2>3. PICK keys, vms : keys = MonitoringKeys(Params[last.vdu]) /\ vms = ids
    OBVIOUS
  <2>4. r \in [src : vms, metric : keys, iface : {NoIface}]
    BY <2>1, <2>2, <2>3 DEF IsReading, Reading
  <2>5. vms # {} /\ keys # {}
    BY <2>1, <2>2, <2>3
  <2>6. r \in Stats(vms, keys, measured)
    BY <2>4, <2>5 DEF Stats
  <2> QED
    BY <2>1, <2>2, <2>3, <2>6 DEF Reported
<1>9. PICK m : m = of(r)
  OBVIOUS
<1>10. m.name = r.metric /\ m.tags.vdu_name = d.name
  BY <1>7, <1>9, VnfMetricFields
<1>11. m \in metrics
  BY <1>8, <1>9
<1>12. IsFiniteSet(metrics)
  <2>1. reported \subseteq measured
    BY DEF Reported, Stats
  <2>2. IsFiniteSet(reported)
    BY <2>1, FS_Subset
  <2> DEFINE g == [q \in reported |-> of(q)]
  <2> HIDE DEF of, reported
  <2>3. metrics = {g[q] : q \in reported} /\ DOMAIN g = reported
    OBVIOUS
  <2>4. g = [q \in reported |-> g[q]]
    OBVIOUS
  <2> HIDE DEF g, metrics
  <2> QED
    BY <2>2, <2>3, <2>4, FiniteImage
<1>13. ToSet(ms) = metrics
  <2> HIDE DEF metrics, last, mapping
  <2> QED
    BY <1>1, <1>4, <1>6, <1>12, SomeOrderProperties
<1> QED
  BY <1>10, <1>11, <1>13

-----------------------------------------------------------------------------
(* The Juju plugin. *)

\* Each measure of a charm has a metric of its own.
HasAll(ms, src, measured) ==
  \A r \in measured : r.src = src => \E m \in ToSet(ms) : m.val = {r}

\* The metrics are measures of the charm of a vdur.
OfCharm(vnf, d, measured, ms) ==
  \A m \in ToSet(ms) : \E r \in measured : r.src = d.vm /\ m = OfReading(vnf, d, r)

\* The metrics of a charm are its readings, each once.
LEMMA CharmGathers ==
  ASSUME NEW vnf, NEW d, NEW src, NEW measured, IsFiniteSet(measured),
         NEW ms, ms = CharmMetrics(vnf, d.name, src, measured)
  PROVE  /\ ms \in Seq({OfReading(vnf, d, r) : r \in {x \in measured : x.src = src}})
         /\ \A T : Once(ms, T)
         /\ HasAll(ms, src, measured)
<1> DEFINE read == {x \in measured : x.src = src}
           of(r) == OfReading(vnf, d, r)
           f == [r \in read |-> of(r)]
<1>1. IsFiniteSet(read)
  BY FS_Subset
<1>2. ms = SomeOrder({of(r) : r \in read})
  BY DEF CharmMetrics, OfReading
<1> HIDE DEF read, of
<1>3. {of(r) : r \in read} = {f[r] : r \in read} /\ f = [r \in read |-> f[r]]
  OBVIOUS
<1>4. PICK S : S = {of(r) : r \in read}
  OBVIOUS
<1>5. IsFiniteSet(S)
  <2> HIDE DEF f
  <2>1. DOMAIN f = read
    BY DEF f
  <2> QED
    BY <1>1, <1>3, <1>4, <2>1, FiniteImage
<1>6. ms \in Seq(S) /\ ToSet(ms) = S /\ Once(ms, S)
  BY <1>2, <1>4, <1>5, SomeOrderProperties
<1>7. \A T : Once(ms, T)
  BY <1>6 DEF Once, ToSet
<1>8. ASSUME NEW r \in measured, r.src = src PROVE \E m \in ToSet(ms) : m.val = {r}
  <2>1. of(r) \in ToSet(ms)
    BY <1>4, <1>6, <1>8 DEF read
  <2>2. of(r).val = {r}
    BY VnfMetricFields DEF of, OfReading
  <2> QED
    BY <2>1, <2>2
<1> QED
  BY <1>4, <1>6, <1>7, <1>8 DEF read, of, HasAll

\* What the plugin returns is nothing, or what the charms of vdurs measured, in their
\* order, and then what that of the VNF did.
VduSeqs(vnf, vnfr, deployed, measured) ==
  [i \in DOMAIN VduCharms(vnfr, deployed) |->
     CharmMetrics(vnf, VduCharms(vnfr, deployed)[i].name, VduCharms(vnfr, deployed)[i].vm,
                  measured)]

OfVdur(vnf, vnfr, measured, m) ==
  \E d \in ToSet(vnfr), r \in measured :
    IsNamed(d) /\ r.src = d.vm /\ m = OfReading(vnf, d, r)

OfVnf(vnf, vnfr, measured, m) ==
  \E d \in ToSet(vnfr), r \in measured :
    IsNamed(d) /\ r.src = vnf /\ d.vdu \in MgmtVdu /\ m = OfReading(vnf, d, r)

AsksVnf(vnf, vnfr, deployed) == vnf \in VnfCharm \cap deployed /\ MgmtVdurs(vnfr) # <<>>

Parts(S, t, vnf, vnfr, deployed, measured, seqs, ms) ==
  /\ seqs \in Seq(Seq(S)) /\ t \in Seq(S) /\ ms = FlattenSeq(seqs) \o t
  /\ \A T : Once(t, T)
  /\ \A m \in ToSet(t) : OfVnf(vnf, vnfr, measured, m)
  /\ AsksVnf(vnf, vnfr, deployed) => HasAll(t, vnf, measured)

IsParted(vnf, vnfr, deployed, measured, seqs, ms) ==
  \E S, t : Parts(S, t, vnf, vnfr, deployed, measured, seqs, ms)

LEMMA VcaPass ==
  ASSUME NEW vnf, NEW vnfr, IsRecord(vnfr), NEW up, NEW deployed,
         NEW measured, IsFiniteSet(measured),
         NEW ms, ms = VcaMetrics(vnf, vnfr, up, deployed, measured),
         ~ VcaRaises(vnf, vnfr, up, deployed, measured)
  PROVE  IsParted(vnf, vnfr, deployed, measured, VduSeqs(vnf, vnfr, deployed, measured), ms)
<1> DEFINE vdus == VduCharms(vnfr, deployed)
           ofVdu(d) == CharmMetrics(vnf, d.name, d.vm, measured)
           ofVnf == IF vnf \notin VnfCharm \cap deployed \/ MgmtVdurs(vnfr) = <<>> THEN <<>>
                    ELSE VnfCharmMetrics(vnf, vnfr, measured)
           seqs == [i \in DOMAIN vdus |-> ofVdu(vdus[i])]
           S == {OfReading(vnf, d, r) : d \in ToSet(vnfr), r \in measured}
<1>1. ms = FlattenSeq(seqs) \o ofVnf
  BY DEF VcaMetrics
<1>2. seqs = VduSeqs(vnf, vnfr, deployed, measured)
  BY DEF VduSeqs
<1>3. vdus \in Seq(ToSet(vnfr)) /\ DOMAIN vdus = 1..Len(vdus) /\ Len(vdus) \in Nat
  BY OnlyProperties, LenProperties DEF VduCharms, IsRecord
<1>4. ASSUME NEW d \in ToSet(vnfr), NEW src
      PROVE  CharmMetrics(vnf, d.name, src, measured) \in Seq(S)
  <2> DEFINE A == {OfReading(vnf, d, r) : r \in {x \in measured : x.src = src}}
             ms1 == CharmMetrics(vnf, d.name, src, measured)
  <2>1. A \subseteq S
    OBVIOUS
  <2>2. ms1 \in Seq(A)
    BY CharmGathers
  <2>3. ms1 \in Seq(S)
    <3> HIDE DEF A, S, ms1
    <3> QED
      BY <2>1, <2>2
  <2> QED
    BY <2>3
<1>5. seqs \in Seq(Seq(S))
  <2>1. \A i \in 1..Len(vdus) : ofVdu(vdus[i]) \in Seq(S)
    <3>1. \A i \in 1..Len(vdus) : vdus[i] \in ToSet(vnfr)
      BY <1>3
    <3> HIDE DEF S, vdus
    <3> QED
      BY <1>4, <3>1
  <2> HIDE DEF S, vdus
  <2> QED
    BY <1>3, <2>1
<1>6. CASE vnf \notin VnfCharm \cap deployed \/ MgmtVdurs(vnfr) = <<>>
  <2>1. ofVnf = <<>> /\ <<>> \in Seq(S) /\ ToSet(<<>>) = {} /\ \A T : Once(<<>>, T)
    BY <1>6 DEF ToSet, Once
  <2> HIDE DEF S, ofVnf, seqs
  <2>2. Parts(S, ofVnf, vnf, vnfr, deployed, measured, seqs, ms)
    BY <1>1, <1>5, <1>6, <2>1 DEF Parts, AsksVnf
  <2> QED
    BY <1>2, <2>2 DEF IsParted
<1>7. CASE ~ (vnf \notin VnfCharm \cap deployed \/ MgmtVdurs(vnfr) = <<>>)
  <2>1. /\ MgmtVdurs(vnfr) \in Seq(ToSet(vnfr))
        /\ ToSet(MgmtVdurs(vnfr)) = ToSet(vnfr) \cap {x \in ToSet(vnfr) : x.vdu \in MgmtVdu}
    BY OnlyProperties DEF MgmtVdurs, IsRecord
  <2>2. PICK d : d = Last(MgmtVdurs(vnfr))
    OBVIOUS
  <2>3. d \in ToSet(MgmtVdurs(vnfr)) /\ d \in ToSet(vnfr) /\ d.vdu \in MgmtVdu
    BY <1>7, <2>1, <2>2, LastIn
  <2>4. IsNamed(d)
    <3>1. Complete(MgmtVdurs(vnfr))
      BY <1>7 DEF VcaRaises
    <3> QED
      BY <2>3, <3>1 DEF Complete, ToSet
  <2>5. ofVnf = CharmMetrics(vnf, d.name, vnf, measured)
    BY <1>7, <2>2 DEF VnfCharmMetrics
  <2>6. ofVnf \in Seq(S)
    <3> HIDE DEF S
    <3> QED
      BY <1>4, <2>3, <2>5
  <2>7. /\ ofVnf \in Seq({OfReading(vnf, d, r) : r \in {x \in measured : x.src = vnf}})
        /\ \A T : Once(ofVnf, T)
        /\ HasAll(ofVnf, vnf, measured)
    <3> HIDE DEF ofVnf
    <3> QED
      BY <2>5, CharmGathers
  <2>8. ASSUME NEW m \in ToSet(ofVnf) PROVE OfVnf(vnf, vnfr, measured, m)
    <3>1. m \in {OfReading(vnf, d, r) : r \in {x \in measured : x.src = vnf}}
      <4> HIDE DEF ofVnf
      <4>1. \A A : ofVnf \in Seq(A) => m \in A
        BY LenProperties DEF ToSet
      <4> QED
        BY <2>7, <4>1
    <3> QED
      BY <2>3, <2>4, <3>1 DEF OfVnf
  <2> HIDE DEF S, ofVnf, seqs
  <2>9. Parts(S, ofVnf, vnf, vnfr, deployed, measured, seqs, ms)
    BY <1>1, <1>5, <2>6, <2>7, <2>8 DEF Parts
  <2> QED
    BY <1>2, <2>9 DEF IsParted
<1> QED
  BY <1>6, <1>7

\* What is in the list of a charm of a vdur: its measures.
IsListOf(s, vnf, e, d, measured) ==
  IsNamed(d) /\ d = e /\ OfCharm(vnf, d, measured, s) /\ HasAll(s, d.vm, measured)

LEMMA OfVduSeqs ==
  ASSUME NEW vnf, NEW vnfr, IsRecord(vnfr), NEW deployed,
         NEW measured, IsFiniteSet(measured),
         NEW seqs, seqs = VduSeqs(vnf, vnfr, deployed, measured)
  PROVE  \A i \in DOMAIN seqs :
           /\ \A T : Once(seqs[i], T)
           /\ \E d \in ToSet(vnfr) :
                IsListOf(seqs[i], vnf, VduCharms(vnfr, deployed)[i], d, measured)
<1> DEFINE vdus == VduCharms(vnfr, deployed)
<1>1. /\ vdus \in Seq(ToSet(vnfr)) /\ DOMAIN vdus = 1..Len(vdus)
      /\ \A d \in ToSet(vdus) : IsNamed(d)
  BY OnlyProperties, LenProperties DEF VduCharms, IsRecord
<1>2. SUFFICES ASSUME NEW i \in DOMAIN vdus
               PROVE  /\ \A T : Once(seqs[i], T)
                      /\ \E d \in ToSet(vnfr) : IsListOf(seqs[i], vnf, vdus[i], d, measured)
  BY DEF VduSeqs
<1>3. PICK d \in ToSet(vnfr) : d = vdus[i] /\ IsNamed(d)
  <2>1. vdus[i] \in ToSet(vnfr) /\ vdus[i] \in ToSet(vdus)
    <3> HIDE DEF vdus
    <3> QED
      BY <1>1, <1>2 DEF ToSet
  <2> QED
    BY <1>1, <2>1
<1>4. seqs[i] = CharmMetrics(vnf, d.name, d.vm, measured)
  BY <1>2, <1>3 DEF VduSeqs
<1> DEFINE A == {OfReading(vnf, d, r) : r \in {x \in measured : x.src = d.vm}}
<1>5. /\ seqs[i] \in Seq(A) /\ \A T : Once(seqs[i], T)
      /\ HasAll(seqs[i], d.vm, measured)
  BY <1>4, CharmGathers
<1>6. \A m \in ToSet(seqs[i]) : m \in A
  <2> HIDE DEF A
  <2> QED
    BY <1>5, LenProperties DEF ToSet
<1>7. OfCharm(vnf, d, measured, seqs[i])
  BY <1>6 DEF OfCharm
<1> QED
  BY <1>3, <1>5, <1>7 DEF IsListOf

\* Each metric is a reading of the charm of a named vdur, or of that of the VNF for a
\* named management vdur.
LEMMA VcaGathers ==
  ASSUME NEW vnf, NEW vnfr, IsRecord(vnfr), NEW up, NEW deployed,
         NEW measured, IsFiniteSet(measured),
         NEW ms, ms = VcaMetrics(vnf, vnfr, up, deployed, measured)
  PROVE  /\ IsList(ms)
         /\ \A m \in ToSet(ms) : OfVdur(vnf, vnfr, measured, m) \/ OfVnf(vnf, vnfr, measured, m)
<1>1. CASE ms = <<>>
  BY <1>1 DEF IsList, ToSet
<1>2. CASE ms # <<>>
  <2> DEFINE seqs == VduSeqs(vnf, vnfr, deployed, measured)
  <2>0. PICK S, t : Parts(S, t, vnf, vnfr, deployed, measured, seqs, ms)
    <3>1. ~ VcaRaises(vnf, vnfr, up, deployed, measured)
      BY <1>2 DEF VcaMetrics
    <3> QED
      BY <3>1, VcaPass DEF IsParted
  <2>1. /\ seqs \in Seq(Seq(S)) /\ t \in Seq(S) /\ ms = FlattenSeq(seqs) \o t
        /\ \A m \in ToSet(t) : OfVnf(vnf, vnfr, measured, m)
    BY <2>0 DEF Parts
  <2>2. /\ FlattenSeq(seqs) \in Seq(S)
        /\ ToSet(FlattenSeq(seqs)) = UNION {ToSet(seqs[i]) : i \in DOMAIN seqs}
    <3> HIDE DEF seqs
    <3> QED
      BY <2>1, FlattenType, FlattenProperties
  <2>3. ASSUME NEW i \in DOMAIN seqs, NEW m \in ToSet(seqs[i])
        PROVE  OfVdur(vnf, vnfr, measured, m)
    <3>1. PICK d \in ToSet(vnfr) : IsNamed(d) /\ OfCharm(vnf, d, measured, seqs[i])
      <4> HIDE DEF seqs
      <4> QED
        BY OfVduSeqs DEF seqs, IsListOf
    <3> HIDE DEF seqs
    <3>2. PICK r \in measured : r.src = d.vm /\ m = OfReading(vnf, d, r)
      BY <2>3, <3>1 DEF OfCharm
    <3> QED
      BY <3>1, <3>2 DEF OfVdur
  <2>4. ASSUME NEW m \in ToSet(FlattenSeq(seqs)) PROVE OfVdur(vnf, vnfr, measured, m)
    <3> HIDE DEF seqs
    <3> QED
      BY <2>2, <2>3
  <2>5. ms \in Seq(S) /\ ToSet(ms) = ToSet(FlattenSeq(seqs)) \cup ToSet(t)
    <3> HIDE DEF seqs
    <3> QED
      BY <2>1, <2>2, SetOfConcat
  <2>6. IsList(ms)
    BY <2>5, ListOf
  <2> HIDE DEF seqs
  <2> QED
    BY <2>1, <2>4, <2>5, <2>6
<1> QED
  BY <1>1, <1>2

\* What gives a measure that is reported for a vdur.
GivesOf(vnf, vnfr, vdu_name, r) ==
  r.src = vnf \/ \E d \in ToSet(vnfr) : d.name = vdu_name /\ r.src = d.vm

\* Two metrics that agree in name and vdur are two measures, of charms of that vdur
\* or of the VNF.
LEMMA VcaApart ==
  ASSUME NEW vnf, NEW vnfr, IsRecord(vnfr), \A d \in ToSet(vnfr) : d.vm # vnf,
         NEW up, NEW deployed, NEW measured, IsFiniteSet(measured),
         NEW ms, ms = VcaMetrics(vnf, vnfr, up, deployed, measured),
         NEW i \in DOMAIN ms, NEW h \in DOMAIN ms, i # h,
         ms[i].name = ms[h].name, ms[i].tags.vdu_name = ms[h].tags.vdu_name
  PROVE  \E r, q \in measured :
           /\ r # q /\ r.metric = ms[i].name /\ q.metric = ms[i].name
           /\ GivesOf(vnf, vnfr, ms[i].tags.vdu_name, r)
           /\ GivesOf(vnf, vnfr, ms[i].tags.vdu_name, q)
<1> DEFINE seqs == VduSeqs(vnf, vnfr, deployed, measured)
           Q == {m \in ToSet(ms) : m.name = ms[i].name}
<1>0. IsList(ms) /\ ms # <<>> /\ ms[i] \in ToSet(ms) /\ ms[h] \in ToSet(ms)
  BY VcaGathers DEF ToSet
<1>1. ~ VcaRaises(vnf, vnfr, up, deployed, measured)
  BY <1>0 DEF VcaMetrics
<1>21. PICK S, t : Parts(S, t, vnf, vnfr, deployed, measured, seqs, ms)
  BY <1>1, VcaPass DEF IsParted
<1>2. /\ seqs \in Seq(Seq(S)) /\ t \in Seq(S) /\ ms = FlattenSeq(seqs) \o t
      /\ \A T : Once(t, T)
      /\ \A m \in ToSet(t) : OfVnf(vnf, vnfr, measured, m)
  BY <1>21 DEF Parts
<1>3. ASSUME NEW x, NEW y, NEW z, z = OfReading(vnf, x, y)
      PROVE  z.name = y.metric /\ z.val = {y} /\ z.tags.vdu_name = x.name
  BY <1>3, VnfMetricFields DEF OfReading
<1>4. \A d, e \in ToSet(vnfr) : IsNamed(d) /\ d.name = e.name => d = e
  BY DEF IsRecord, ToSet
<1>30. ASSUME NEW j \in DOMAIN seqs, NEW m \in ToSet(seqs[j])
       PROVE  \E d \in ToSet(vnfr), r \in measured :
                /\ IsNamed(d) /\ d = VduCharms(vnfr, deployed)[j]
                /\ r.src = d.vm /\ m = OfReading(vnf, d, r)
  <2>0. PICK s, e : s = seqs[j] /\ e = VduCharms(vnfr, deployed)[j]
    OBVIOUS
  <2>01. \E d \in ToSet(vnfr) : IsListOf(s, vnf, e, d, measured)
    BY <2>0, OfVduSeqs
  <2>1. PICK d \in ToSet(vnfr) :
          /\ IsNamed(d) /\ d = VduCharms(vnfr, deployed)[j]
          /\ OfCharm(vnf, d, measured, seqs[j])
    BY <2>0, <2>01 DEF IsListOf
  <2> QED
    BY <2>1 DEF OfCharm
<1>5. ASSUME NEW j \in DOMAIN seqs, NEW k \in DOMAIN seqs, j # k,
             NEW m \in ToSet(seqs[j]), m \in ToSet(seqs[k])
      PROVE  FALSE
  <2> DEFINE vdus == VduCharms(vnfr, deployed)
  <2>1. PICK d \in ToSet(vnfr), r \in measured :
          IsNamed(d) /\ d = vdus[j] /\ m = OfReading(vnf, d, r)
    BY <1>30, <1>5
  <2>2. PICK e \in ToSet(vnfr), q \in measured :
          IsNamed(e) /\ e = vdus[k] /\ m = OfReading(vnf, e, q)
    BY <1>30, <1>5
  <2>3. d.name = e.name
    <3>1. m = OfReading(vnf, d, r)
      BY <2>1
    <3>2. m.tags.vdu_name = d.name
      BY <3>1, VnfMetricFields DEF OfReading
    <3>3. m = OfReading(vnf, e, q)
      BY <2>2
    <3>4. m.tags.vdu_name = e.name
      BY <3>3, VnfMetricFields DEF OfReading
    <3> QED
      BY <3>2, <3>4
  <2>31. d = e
    BY <1>4, <2>1, <2>2, <2>3
  <2> DEFINE P == {x \in ToSet(vnfr) : IsNamed(x) /\ x.vdu \in VduCharm /\ x.vm \in deployed}
  <2>4. Once(vnfr, P)
    BY DEF IsRecord, Once
  <2>5. Once(vdus, P) /\ ToSet(vdus) = ToSet(vnfr) \cap P
    <3>1. vdus = Only(vnfr, P)
      BY DEF VduCharms
    <3> HIDE DEF P, vdus
    <3> QED
      BY <2>4, <3>1, OnlyProperties DEF IsRecord
  <2>6. j \in DOMAIN vdus /\ k \in DOMAIN vdus
    BY DEF VduSeqs
  <2> HIDE DEF P, vdus
  <2>7. vdus[j] \in P
    BY <2>5, <2>6 DEF ToSet
  <2> QED
    BY <1>5, <2>1, <2>2, <2>31, <2>5, <2>6, <2>7 DEF Once
<1>6. \A j \in DOMAIN seqs : \A T : Once(seqs[j], T)
  BY OfVduSeqs
<1>7. ASSUME NEW m \in ToSet(FlattenSeq(seqs)) PROVE OfVdur(vnf, vnfr, measured, m)
  <2>1. PICK j \in DOMAIN seqs : m \in ToSet(seqs[j])
    <3> HIDE DEF seqs
    <3>1. ToSet(FlattenSeq(seqs)) = UNION {ToSet(seqs[k]) : k \in DOMAIN seqs}
      BY <1>2, FlattenProperties
    <3> QED
      BY <3>1
  <2> QED
    BY <1>30, <2>1 DEF OfVdur
<1>8. FlattenSeq(seqs) \in Seq(S) /\ Once(FlattenSeq(seqs), Q)
  <2> HIDE DEF seqs, Q
  <2> QED
    BY <1>2, <1>5, <1>6, FlattenType, FlattenProperties
<1>9. ToSet(FlattenSeq(seqs)) \cap ToSet(t) \cap Q = {}
  <2>1. SUFFICES ASSUME NEW m \in ToSet(FlattenSeq(seqs)), m \in ToSet(t), m \in Q
                 PROVE  FALSE
    OBVIOUS
  <2>2. OfVdur(vnf, vnfr, measured, m) /\ OfVnf(vnf, vnfr, measured, m) /\ m.name = ms[i].name
    BY <1>2, <1>7, <2>1
  <2>3. PICK d \in ToSet(vnfr), q \in measured :
          IsNamed(d) /\ q.src = d.vm /\ m = OfReading(vnf, d, q)
    BY <2>2 DEF OfVdur
  <2>4. PICK e \in ToSet(vnfr), r \in measured :
          r.src = vnf /\ m = OfReading(vnf, e, r)
    BY <2>2 DEF OfVnf
  <2>5. q = r
    <3>1. m.val = {q}
      BY <1>3, <2>3
    <3>2. m.val = {r}
      BY <1>3, <2>4
    <3> QED
      BY <3>1, <3>2
  <2> QED
    BY <2>3, <2>4, <2>5
<1>10. Once(ms, Q)
  <2> HIDE DEF seqs, Q
  <2> QED
    BY <1>2, <1>8, <1>9, OnceConcat
<1>11. ms[i] # ms[h]
  <2>1. ms[i] \in Q
    BY <1>0
  <2> HIDE DEF Q
  <2> QED
    BY <1>10, <2>1 DEF Once
<1>12. ASSUME NEW j \in {i, h}
       PROVE  \E d \in ToSet(vnfr), r \in measured :
                /\ IsNamed(d) /\ (r.src = d.vm \/ r.src = vnf) /\ ms[j] = OfReading(vnf, d, r)
  <2>1. ms[j] \in ToSet(ms)
    BY <1>0
  <2>2. OfVdur(vnf, vnfr, measured, ms[j]) \/ OfVnf(vnf, vnfr, measured, ms[j])
    BY <2>1, VcaGathers
  <2> QED
    BY <2>2 DEF OfVdur, OfVnf
<1>13. PICK d \in ToSet(vnfr), r \in measured :
         IsNamed(d) /\ (r.src = d.vm \/ r.src = vnf) /\ ms[i] = OfReading(vnf, d, r)
  BY <1>12
<1>14. PICK e \in ToSet(vnfr), q \in measured :
         IsNamed(e) /\ (q.src = e.vm \/ q.src = vnf) /\ ms[h] = OfReading(vnf, e, q)
  BY <1>12
<1>15. /\ d = e /\ d.name = ms[i].tags.vdu_name
       /\ r.metric = ms[i].name /\ q.metric = ms[i].name
  BY <1>3, <1>4, <1>13, <1>14
<1>16. r # q
  BY <1>11, <1>13, <1>14, <1>15
<1> QED
  BY <1>13, <1>14, <1>15, <1>16 DEF GivesOf

\* What Juju gives when it answers.
Answered(vnf, vnfr, deployed, measured) == VcaMetrics(vnf, vnfr, TRUE, deployed, measured)

\* The measure is of a deployed charm of the VNF or one of its vdurs.
OfCharms(r, vnf, vnfr, deployed) ==
  /\ r.src \in deployed
  /\ \/ r.src = vnf /\ vnf \in VnfCharm
     \/ \E d \in ToSet(Named(vnfr)) : d.vdu \in VduCharm /\ d.vm = r.src

Reports(ms, r) == \E m \in ToSet(ms) : m.val = {r}

\* A Juju that answers gives every measure of the charms that are deployed.
LEMMA VcaCollects ==
  ASSUME NEW vnf, NEW vnfr, IsRecord(vnfr), NEW deployed,
         NEW measured, IsFiniteSet(measured),
         NEW ms, ms = Answered(vnf, vnfr, deployed, measured),
         vnf \in VnfCharm \cap deployed =>
           MgmtVdurs(vnfr) # <<>> /\ Complete(MgmtVdurs(vnfr)),
         NEW r \in measured, OfCharms(r, vnf, vnfr, deployed)
  PROVE  Reports(ms, r)
<1> DEFINE seqs == VduSeqs(vnf, vnfr, deployed, measured)
<1>1. ~ VcaRaises(vnf, vnfr, TRUE, deployed, measured)
  BY DEF VcaRaises
<1>2. PICK S, t : Parts(S, t, vnf, vnfr, deployed, measured, seqs, ms)
  BY <1>1, VcaPass DEF IsParted, Answered
<1>3. /\ seqs \in Seq(Seq(S)) /\ t \in Seq(S) /\ ms = FlattenSeq(seqs) \o t
      /\ AsksVnf(vnf, vnfr, deployed) => HasAll(t, vnf, measured)
  BY <1>2 DEF Parts
<1>4. /\ ToSet(ms) = ToSet(FlattenSeq(seqs)) \cup ToSet(t)
      /\ ToSet(FlattenSeq(seqs)) = UNION {ToSet(seqs[i]) : i \in DOMAIN seqs}
  <2> HIDE DEF seqs
  <2>1. FlattenSeq(seqs) \in Seq(S)
    BY <1>3, FlattenType
  <2>2. ToSet(ms) = ToSet(FlattenSeq(seqs)) \cup ToSet(t)
    BY <1>3, <2>1, SetOfConcat
  <2>3. ToSet(FlattenSeq(seqs)) = UNION {ToSet(seqs[i]) : i \in DOMAIN seqs}
    BY <1>3, FlattenProperties
  <2> QED
    BY <2>2, <2>3
<1>5. CASE r.src = vnf /\ vnf \in VnfCharm
  <2>1. AsksVnf(vnf, vnfr, deployed)
    BY <1>5 DEF AsksVnf, OfCharms
  <2> QED
    BY <1>3, <1>4, <1>5, <2>1 DEF HasAll, Reports
<1>6. CASE \E d \in ToSet(Named(vnfr)) : d.vdu \in VduCharm /\ d.vm = r.src
  <2>1. PICK d \in ToSet(Named(vnfr)) : d.vdu \in VduCharm /\ d.vm = r.src
    BY <1>6
  <2>2. d \in ToSet(vnfr) /\ IsNamed(d)
    BY OnlyProperties DEF Named, IsRecord
  <2>3. d \in ToSet(VduCharms(vnfr, deployed))
    <3>1. ToSet(VduCharms(vnfr, deployed)) = ToSet(vnfr) \cap
            {x \in ToSet(vnfr) : IsNamed(x) /\ x.vdu \in VduCharm /\ x.vm \in deployed}
      BY OnlyProperties DEF VduCharms, IsRecord
    <3> QED
      BY <2>1, <2>2, <3>1 DEF OfCharms
  <2>4. PICK i \in DOMAIN VduCharms(vnfr, deployed) : d = VduCharms(vnfr, deployed)[i]
    BY <2>3 DEF ToSet
  <2>5. i \in DOMAIN seqs
    BY DEF VduSeqs
  <2>6. \E m \in ToSet(seqs[i]) : m.val = {r}
    <3>1. PICK s : s = VduSeqs(vnf, vnfr, deployed, measured) /\ s = seqs
      OBVIOUS
    <3> HIDE DEF seqs
    <3>2. PICK e \in ToSet(vnfr) :
            e = VduCharms(vnfr, deployed)[i] /\ HasAll(s[i], e.vm, measured)
      <4>1. i \in DOMAIN s
        BY <2>5, <3>1
      <4>2. \E e \in ToSet(vnfr) :
              IsListOf(s[i], vnf, VduCharms(vnfr, deployed)[i], e, measured)
        BY <3>1, <4>1, OfVduSeqs
      <4> QED
        BY <4>2 DEF IsListOf
    <3> QED
      BY <2>1, <2>4, <3>1, <3>2 DEF HasAll
  <2> HIDE DEF seqs
  <2> QED
    BY <1>4, <2>5, <2>6 DEF Reports
<1> QED
  BY <1>5, <1>6 DEF OfCharms

-----------------------------------------------------------------------------
(* The infrastructure plugins. *)

\* A list of n items, whatever they are.
IsVector(g, n) == g = [i \in 1..n |-> g[i]]

\* A list with one item more in front.
IsCons(s, e, g, n) ==
  /\ IsList(s) /\ DOMAIN s = 1..(n + 1) /\ s[1] = e
  /\ \A i \in 1..n : i + 1 \in DOMAIN s /\ s[i + 1] = g[i]
  /\ \A k \in DOMAIN s : k = 1 \/ (k - 1 \in 1..n /\ s[k] = g[k - 1])

LEMMA ConsList ==
  ASSUME NEW e, NEW n \in Nat, NEW g, IsVector(g, n),
         NEW s, s = <<e>> \o g
  PROVE  IsCons(s, e, g, n)
<1> DEFINE S == {e} \cup {g[i] : i \in 1..n}
<1>0. e \in S /\ \A i \in 1..n : g[i] \in S
  OBVIOUS
<1> HIDE DEF S
<1>11. <<e>> \in Seq(S) /\ Len(<<e>>) = 1 /\ <<e>>[1] = e
  BY <1>0
<1>12. [i \in 1..n |-> g[i]] \in Seq(S) /\ Len([i \in 1..n |-> g[i]]) = n
  BY <1>0
<1>1. <<e>> \in Seq(S) /\ g \in Seq(S) /\ Len(<<e>>) = 1 /\ <<e>>[1] = e /\ Len(g) = n
  BY <1>11, <1>12 DEF IsVector
<1>2. /\ s \in Seq(S) /\ Len(s) = n + 1
      /\ \A k \in 1..(n + 1) : s[k] = IF k <= 1 THEN <<e>>[k] ELSE g[k - 1]
  BY <1>1, ConcatProperties
<1>3. DOMAIN s = 1..(n + 1) /\ 1 \in 1..(n + 1)
  BY <1>2, LenProperties
<1>4. \A i \in 1..n : i + 1 \in 1..(n + 1) /\ ~ (i + 1 <= 1) /\ (i + 1) - 1 = i
  OBVIOUS
<1>5. \A k \in 1..(n + 1) : k = 1 \/ (k - 1 \in 1..n /\ ~ (k <= 1))
  OBVIOUS
<1>6. s[1] = e
  BY <1>1, <1>2, <1>3
<1>7. \A i \in 1..n : s[i + 1] = g[i]
  BY <1>2, <1>4
<1> QED
  BY <1>2, <1>3, <1>4, <1>5, <1>6, <1>7, ListOf DEF IsCons

\* The vdurs of some VNFs are those of the records, the named ones each once, and the
\* first that of one of them.
IsVdurOf(vnfrs, F, x) ==
  \E f \in F : \E d \in ToSet(vnfrs[f]) : x = [vnf |-> f, vdur |-> d]

IsFirstVdur(vnfrs, F, vdurs) ==
  vdurs # <<>> => \E f \in F : vnfrs[f] # <<>> /\ Head(vdurs).vdur = Head(vnfrs[f])

LEMMA VdursOfRecords ==
  ASSUME NEW vnfrs, NEW F, IsFiniteSet(F), \A f \in F : IsRecord(vnfrs[f]),
         NEW vdurs, vdurs = Vdurs(SomeOrder(F), vnfrs)
  PROVE  /\ IsList(vdurs) /\ DOMAIN vdurs = 1..Len(vdurs) /\ Len(vdurs) \in Nat
         /\ \A x \in ToSet(vdurs) : IsVdurOf(vnfrs, F, x)
         /\ \A f \in F : \A d \in ToSet(vnfrs[f]) :
              [vnf |-> f, vdur |-> d] \in ToSet(vdurs)
         /\ IsFirstVdur(vnfrs, F, vdurs)
         /\ Once(vdurs, {x \in ToSet(vdurs) : IsNamed(x.vdur)})
<1> DEFINE S == UNION {{[vnf |-> f, vdur |-> d] : d \in ToSet(vnfrs[f])} : f \in F}
           vnfs == SomeOrder(F)
           of(f) == [i \in DOMAIN vnfrs[f] |-> [vnf |-> f, vdur |-> vnfrs[f][i]]]
           seqs == [k \in DOMAIN vnfs |-> of(vnfs[k])]
           T == {x \in ToSet(vdurs) : IsNamed(x.vdur)}
<1>1. vdurs = FlattenSeq(seqs)
  BY DEF Vdurs
<1>2. /\ vnfs \in Seq(F) /\ ToSet(vnfs) = F
      /\ Once(vnfs, F) /\ DOMAIN vnfs = 1..Len(vnfs) /\ Len(vnfs) \in Nat
  BY SomeOrderProperties, LenProperties
<1>3. ASSUME NEW f \in F
      PROVE  /\ of(f) \in Seq(S) /\ DOMAIN of(f) = DOMAIN vnfrs[f]
             /\ \A x \in ToSet(of(f)) : \E d \in ToSet(vnfrs[f]) : x = [vnf |-> f, vdur |-> d]
             /\ \A d \in ToSet(vnfrs[f]) : [vnf |-> f, vdur |-> d] \in ToSet(of(f))
             /\ of(f) # <<>> => vnfrs[f] # <<>> /\ Head(of(f)).vdur = Head(vnfrs[f])
             /\ Once(of(f), T)
  <2>1. PICK r : r = vnfrs[f]
    OBVIOUS
  <2>2. IsRecord(r)
    BY <2>1
  <2>3. DOMAIN r = 1..Len(r) /\ Len(r) \in Nat
    BY <2>2, LenProperties DEF IsRecord
  <2>41. \A d \in ToSet(vnfrs[f]) : [vnf |-> f, vdur |-> d] \in S
    OBVIOUS
  <2> HIDE DEF S
  <2>4. \A i \in 1..Len(r) : [vnf |-> f, vdur |-> r[i]] \in S
    BY <2>1, <2>3, <2>41 DEF ToSet
  <2>5. of(f) = [i \in 1..Len(r) |-> [vnf |-> f, vdur |-> r[i]]]
    BY <2>1, <2>3
  <2>6. of(f) \in Seq(S)
    <3>1. PICK n \in Nat : n = Len(r)
      BY <2>3
    <3>2. [i \in 1..n |-> [vnf |-> f, vdur |-> r[i]]] \in Seq(S)
      BY <2>4, <3>1
    <3> QED
      BY <2>5, <3>1, <3>2
  <2>7. ASSUME NEW i \in DOMAIN r, NEW h \in DOMAIN r, of(f)[i] \in T, of(f)[i] = of(f)[h]
        PROVE  i = h
    <3>1. IsNamed(r[i]) /\ r[i] = r[h]
      <4>1. of(f)[i] = [vnf |-> f, vdur |-> r[i]] /\ of(f)[h] = [vnf |-> f, vdur |-> r[h]]
        BY <2>3, <2>5
      <4>2. IsNamed(of(f)[i].vdur)
        BY <2>7
      <4>3. of(f)[i].vdur = r[i] /\ of(f)[h].vdur = r[h]
        BY <4>1
      <4> QED
        BY <2>7, <4>2, <4>3
    <3> QED
      BY <2>2, <3>1 DEF IsRecord
  <2>8. \A x \in ToSet(of(f)) : \E d \in ToSet(r) : x = [vnf |-> f, vdur |-> d]
    BY <2>3, <2>5 DEF ToSet
  <2>9. ASSUME NEW d \in ToSet(r) PROVE [vnf |-> f, vdur |-> d] \in ToSet(of(f))
    <3>1. PICK i \in DOMAIN r : d = r[i]
      BY DEF ToSet
    <3>2. i \in DOMAIN of(f) /\ of(f)[i] = [vnf |-> f, vdur |-> d]
      BY <2>3, <2>5, <3>1
    <3> QED
      BY <3>2 DEF ToSet
  <2>10. DOMAIN of(f) = DOMAIN r
    BY <2>3, <2>5
  <2>12. ASSUME of(f) # <<>> PROVE r # <<>> /\ Head(of(f)).vdur = Head(r)
    <3>1. PICK n \in Nat : n = Len(r) /\ of(f) = [i \in 1..n |-> [vnf |-> f, vdur |-> r[i]]]
      BY <2>3, <2>5
    <3>2. Len(of(f)) = n /\ of(f) \in Seq(S)
      BY <2>6, <3>1, LenProperties
    <3>3. n # 0
      <4> HIDE DEF of
      <4> QED
        BY <2>12, <3>2, EmptySeq
    <3>4. of(f)[1] = [vnf |-> f, vdur |-> r[1]]
      <4>1. 1 \in 1..n
        BY <3>1, <3>3
      <4> HIDE DEF of
      <4> QED
        BY <3>1, <4>1
    <3>5. r # <<>> /\ Head(r) = r[1]
      <4>1. r # <<>>
        BY <3>1, <3>3
      <4> QED
        BY <2>2, <4>1, HeadTailProperties DEF IsRecord
    <3>6. Head(of(f)) = of(f)[1]
      <4> HIDE DEF of
      <4> QED
        BY <2>12, <3>2, HeadTailProperties
    <3> QED
      BY <3>4, <3>5, <3>6
  <2> HIDE DEF of, T
  <2>11. Once(of(f), T)
    BY <2>7, <2>10 DEF Once
  <2> QED
    BY <2>1, <2>6, <2>8, <2>9, <2>10, <2>11, <2>12
<1> HIDE DEF S, of, T, vnfs
<1>4. ASSUME NEW k \in DOMAIN vnfs
      PROVE  vnfs[k] \in F /\ seqs[k] = of(vnfs[k])
  BY <1>2
<1>5. seqs \in Seq(Seq(S)) /\ DOMAIN seqs = DOMAIN vnfs
  BY <1>2, <1>3, <1>4
<1>6. ASSUME NEW k \in DOMAIN vnfs, NEW h \in DOMAIN vnfs, k # h
      PROVE  ToSet(seqs[k]) \cap ToSet(seqs[h]) \cap T = {}
  <2>1. vnfs[k] # vnfs[h]
    BY <1>2, <1>4, <1>6 DEF Once
  <2>2. ASSUME NEW x, x \in ToSet(seqs[k]), x \in ToSet(seqs[h]) PROVE FALSE
    <3>1. PICK d : x = [vnf |-> vnfs[k], vdur |-> d]
      BY <1>3, <1>4, <2>2
    <3>2. PICK e : x = [vnf |-> vnfs[h], vdur |-> e]
      BY <1>3, <1>4, <2>2
    <3> QED
      BY <2>1, <3>1, <3>2
  <2> QED
    BY <2>2
<1>7. \A k \in DOMAIN vnfs : Once(seqs[k], T)
  BY <1>3, <1>4
<1> HIDE DEF seqs
<1>8. /\ vdurs \in Seq(S)
      /\ ToSet(vdurs) = UNION {ToSet(seqs[k]) : k \in DOMAIN seqs} /\ Once(vdurs, T)
      /\ IsFirstOf(vdurs, seqs, Len(seqs))
  BY <1>1, <1>5, <1>6, <1>7, FlattenType, FlattenProperties
<1>9. ASSUME NEW x \in ToSet(vdurs) PROVE IsVdurOf(vnfrs, F, x)
  <2>1. PICK k \in DOMAIN vnfs : x \in ToSet(seqs[k])
    BY <1>5, <1>8
  <2> QED
    BY <1>3, <1>4, <2>1 DEF IsVdurOf
<1>10. ASSUME NEW f \in F, NEW d \in ToSet(vnfrs[f])
       PROVE  [vnf |-> f, vdur |-> d] \in ToSet(vdurs)
  <2>1. PICK k \in DOMAIN vnfs : vnfs[k] = f
    BY <1>2 DEF ToSet
  <2>2. [vnf |-> f, vdur |-> d] \in ToSet(seqs[k])
    BY <1>3, <1>4, <2>1
  <2> QED
    BY <1>5, <1>8, <2>2
<1>11. ASSUME vdurs # <<>>
       PROVE  \E f \in F : vnfrs[f] # <<>> /\ Head(vdurs).vdur = Head(vnfrs[f])
  <2>1. PICK k \in 1..Len(seqs) : seqs[k] # <<>> /\ Head(vdurs) = Head(seqs[k])
    BY <1>8, <1>11 DEF IsFirstOf
  <2>2. k \in DOMAIN vnfs
    BY <1>5, LenProperties
  <2> QED
    BY <1>3, <1>4, <2>1, <2>2
<1> QED
  BY <1>8, <1>9, <1>10, <1>11, LenProperties, ListOf DEF T, IsFirstVdur

\* No two metrics of a list agree in name and tags.
Apart(ms) ==
  \A i, h \in DOMAIN ms : ms[i].name = ms[h].name /\ ms[i].tags = ms[h].tags => i = h

VmStatuses(vim, x, on, n) == [i \in 1..n |-> VmStatus(vim, x[i].vnf, x[i].vdur, on[i])]

AreVdurs(x, n, vnfrs, F) ==
  \A i \in 1..n : IsNamed(x[i].vdur) /\ IsVdurOf(vnfrs, F, x[i])

Differ(x, n) == \A i, h \in 1..n : x[i] = x[h] => i = h

\* A status of the VIM and then one of each vdur, all with a name, keeps them apart
\* if no vdur is among them twice.
LEMMA StatusesApart ==
  ASSUME NEW vim, NEW value, NEW n \in Nat, NEW x,
         NEW vnfrs, NEW F, \A f \in F : IsRecord(vnfrs[f]),
         AreVdurs(x, n, vnfrs, F), Differ(x, n),
         NEW up, NEW g, g = VmStatuses(vim, x, up, n),
         NEW ms, ms = <<VimStatus(vim, value)>> \o g
  PROVE  Apart(ms)
<1>1. /\ DOMAIN ms = 1..(n + 1) /\ ms[1] = VimStatus(vim, value)
      /\ \A k \in DOMAIN ms : k = 1 \/ (k - 1 \in 1..n /\ ms[k] = g[k - 1])
  <2>1. IsVector(g, n)
    BY DEF IsVector, VmStatuses
  <2>2. PICK e : e = VimStatus(vim, value)
    OBVIOUS
  <2>3. IsCons(ms, e, g, n)
    BY <2>1, <2>2, ConsList
  <2> QED
    BY <2>2, <2>3 DEF IsCons
<1>2. ms[1].name = "vim_status"
  BY <1>1 DEF VimStatus, StatusMetric
<1>3. ASSUME NEW k \in DOMAIN ms, k # 1
      PROVE  /\ k - 1 \in 1..n /\ ms[k].name = "vm_status"
             /\ ms[k].tags.vnf = x[k - 1].vnf /\ ms[k].tags.vdur_name = x[k - 1].vdur.name
  <2>1. PICK i \in 1..n : i = k - 1 /\ ms[k] = g[i]
    BY <1>1, <1>3
  <2>2. ms[k] = VmStatus(vim, x[i].vnf, x[i].vdur, up[i])
    BY <2>1 DEF VmStatuses
  <2> QED
    BY <2>1, <2>2 DEF VmStatus, StatusMetric
<1>4. ASSUME NEW i \in 1..n, NEW h \in 1..n, x[i].vnf = x[h].vnf,
             x[i].vdur.name = x[h].vdur.name
      PROVE  i = h
  <2>1. PICK f \in F : \E d \in ToSet(vnfrs[f]) : x[i] = [vnf |-> f, vdur |-> d]
    BY DEF IsVdurOf, AreVdurs
  <2>2. PICK d \in ToSet(vnfrs[f]) : x[i] = [vnf |-> f, vdur |-> d]
    BY <2>1
  <2>3. PICK e \in ToSet(vnfrs[f]) : x[h] = [vnf |-> f, vdur |-> e]
    <3>1. x[i].vnf = f
      BY <2>2
    <3>2. PICK f2 \in F : \E e \in ToSet(vnfrs[f2]) : x[h] = [vnf |-> f2, vdur |-> e]
      BY DEF IsVdurOf, AreVdurs
    <3>3. x[h].vnf = f2
      BY <3>2
    <3> QED
      BY <1>4, <3>1, <3>2, <3>3
  <2>4. d.name = e.name /\ IsNamed(d)
    <3>1. x[i].vdur = d /\ x[h].vdur = e
      BY <2>2, <2>3
    <3> QED
      BY <1>4, <3>1 DEF AreVdurs
  <2>5. IsRecord(vnfrs[f])
    BY <2>1
  <2>6. d = e
    <3>1. PICK r : r = vnfrs[f] /\ IsRecord(r)
      BY <2>5
    <3>2. PICK j \in DOMAIN r, k \in DOMAIN r : d = r[j] /\ e = r[k]
      BY <3>1 DEF ToSet
    <3> QED
      BY <2>4, <3>1, <3>2 DEF IsRecord
  <2> QED
    BY <2>2, <2>3, <2>6 DEF Differ
<1>5. ASSUME NEW i \in DOMAIN ms, NEW h \in DOMAIN ms,
             ms[i].name = ms[h].name, ms[i].tags = ms[h].tags
      PROVE  i = h
  <2>1. CASE i = 1 \/ h = 1
    <3>1. ms[i].name = "vim_status" /\ ms[h].name = "vim_status"
      BY <1>2, <1>5, <2>1
    <3>2. ASSUME NEW k \in DOMAIN ms, ms[k].name = "vim_status" PROVE k = 1
      <4>1. ms[k].name # "vm_status"
        BY <3>2
      <4> QED
        BY <1>3, <4>1
    <3> QED
      BY <3>1, <3>2
  <2>2. CASE i # 1 /\ h # 1
    <3>1. PICK a \in 1..n, b \in 1..n : a = i - 1 /\ b = h - 1
      BY <1>3, <2>2
    <3>2. /\ ms[i].tags.vnf = x[a].vnf /\ ms[i].tags.vdur_name = x[a].vdur.name
          /\ ms[h].tags.vnf = x[b].vnf /\ ms[h].tags.vdur_name = x[b].vdur.name
      BY <1>3, <2>2, <3>1
    <3>3. x[a].vnf = x[b].vnf /\ x[a].vdur.name = x[b].vdur.name
      BY <1>5, <3>2
    <3>4. i - 1 = h - 1
      BY <1>4, <3>1, <3>3
    <3>5. i \in Nat /\ h \in Nat
      BY <1>1
    <3> QED
      BY <3>4, <3>5
  <2> QED
    BY <2>1, <2>2
<1> QED
  BY <1>5 DEF Apart

\* OpenStack: the status of the VIM and of each named vdur, whether it answers or not.
LEMMA OpenstackTells ==
  ASSUME NEW vnfrs, NEW F, IsFiniteSet(F), \A f \in F : IsRecord(vnfrs[f]),
         NEW vdurs, vdurs = Vdurs(SomeOrder(F), vnfrs),
         NEW vim, NEW answers, NEW active,
         NEW ms, ms = OpenstackInfra(vim, vdurs, answers, active)
  PROVE  /\ IsList(ms) /\ Apart(ms)
         /\ \A m \in ToSet(ms) :
              \/ m = VimStatus(vim, Status(vim, vim \in answers))
              \/ \E f \in F : \E d \in ToSet(vnfrs[f]) :
                   IsNamed(d) /\ m = VmStatus(vim, f, d, d.vm \in answers \cap active)
         /\ VimStatus(vim, Status(vim, vim \in answers)) \in ToSet(ms)
         /\ \A f \in F : \A d \in ToSet(vnfrs[f]) :
              IsNamed(d) => VmStatus(vim, f, d, d.vm \in answers \cap active) \in ToSet(ms)
<1> DEFINE T == {x \in ToSet(vdurs) : IsNamed(x.vdur)}
           filled == Only(vdurs, T)
<1>1. /\ IsList(vdurs) /\ Once(vdurs, T)
      /\ \A x \in ToSet(vdurs) : IsVdurOf(vnfrs, F, x)
      /\ \A f \in F : \A d \in ToSet(vnfrs[f]) : [vnf |-> f, vdur |-> d] \in ToSet(vdurs)
  BY VdursOfRecords
<1>2. /\ filled \in Seq(ToSet(vdurs)) /\ ToSet(filled) = ToSet(vdurs) \cap T /\ Once(filled, T)
  <2> HIDE DEF T
  <2> QED
    BY <1>1, OnlyProperties DEF IsList
<1>3. PICK x : x = filled
  OBVIOUS
<1>4. PICK n \in Nat : n = Len(x) /\ DOMAIN x = 1..n
  BY <1>2, <1>3, LenProperties
<1>5. PICK on : on = [i \in 1..n |-> x[i].vdur.vm \in answers \cap active]
  OBVIOUS
<1>6. PICK g : /\ g = VmStatuses(vim, x, on, n)
               /\ g = [i \in 1..n |-> VmStatus(vim, x[i].vnf, x[i].vdur, on[i])]
  BY DEF VmStatuses
<1>61. PICK value, e : value = Status(vim, vim \in answers) /\ e = VimStatus(vim, value)
  OBVIOUS
<1>70. ms = <<VimStatus(vim, value)>> \o g
  BY <1>3, <1>4, <1>5, <1>6, <1>61 DEF OpenstackInfra
<1>7. ms = <<e>> \o g
  BY <1>61, <1>70
<1> HIDE DEF filled
<1>9. ASSUME NEW i \in 1..n
      PROVE  x[i] \in T /\ IsNamed(x[i].vdur) /\ IsVdurOf(vnfrs, F, x[i])
  <2>1. x[i] \in ToSet(filled)
    BY <1>3, <1>4 DEF ToSet
  <2> QED
    BY <1>1, <1>2, <2>1
<1>10. \A i, h \in 1..n : x[i] = x[h] => i = h
  <2> HIDE DEF T
  <2> QED
    BY <1>2, <1>3, <1>4, <1>9 DEF Once
<1>11. Apart(ms)
  <2>1. AreVdurs(x, n, vnfrs, F) /\ Differ(x, n)
    BY <1>9, <1>10 DEF AreVdurs, Differ
  <2> HIDE DEF T
  <2> QED
    BY <1>6, <1>70, <2>1, StatusesApart
<1>12. /\ IsList(ms) /\ 1 \in DOMAIN ms /\ ms[1] = VimStatus(vim, Status(vim, vim \in answers))
       /\ \A i \in 1..n : i + 1 \in DOMAIN ms /\ ms[i + 1] = g[i]
       /\ \A k \in DOMAIN ms : k = 1 \/ (k - 1 \in 1..n /\ ms[k] = g[k - 1])
  <2>1. IsVector(g, n)
    BY <1>6 DEF IsVector
  <2>2. IsCons(ms, e, g, n)
    BY <1>7, <2>1, ConsList
  <2> QED
    BY <1>61, <2>2 DEF IsCons
<1>13. ASSUME NEW m \in ToSet(ms), m # VimStatus(vim, Status(vim, vim \in answers))
       PROVE  \E f \in F : \E d \in ToSet(vnfrs[f]) :
                IsNamed(d) /\ m = VmStatus(vim, f, d, d.vm \in answers \cap active)
  <2>1. PICK k \in DOMAIN ms : m = ms[k]
    BY DEF ToSet
  <2>2. PICK i \in 1..n : m = g[i]
    BY <1>12, <1>13, <2>1
  <2>3. m = VmStatus(vim, x[i].vnf, x[i].vdur, x[i].vdur.vm \in answers \cap active)
    BY <1>5, <1>6, <2>2
  <2>4. PICK f \in F : \E d \in ToSet(vnfrs[f]) : x[i] = [vnf |-> f, vdur |-> d]
    BY <1>9 DEF IsVdurOf
  <2>5. PICK d \in ToSet(vnfrs[f]) : x[i] = [vnf |-> f, vdur |-> d]
    BY <2>4
  <2>6. x[i].vnf = f /\ x[i].vdur = d /\ IsNamed(d)
    BY <1>9, <2>5
  <2> QED
    BY <2>3, <2>6
<1>14. ASSUME NEW f \in F, NEW d \in ToSet(vnfrs[f]), IsNamed(d)
       PROVE  VmStatus(vim, f, d, d.vm \in answers \cap active) \in ToSet(ms)
  <2>1. PICK y : y = [vnf |-> f, vdur |-> d]
    OBVIOUS
  <2>2. y.vnf = f /\ y.vdur = d
    BY <2>1
  <2>3. y \in ToSet(filled)
    BY <1>1, <1>2, <1>14, <2>1, <2>2
  <2>4. PICK i \in 1..n : x[i] = y
    BY <1>3, <1>4, <2>3 DEF ToSet
  <2>5. g[i] = VmStatus(vim, f, d, d.vm \in answers \cap active)
    BY <1>5, <1>6, <2>2, <2>4
  <2> QED
    BY <1>12, <2>5 DEF ToSet
<1>15. VimStatus(vim, Status(vim, vim \in answers)) \in ToSet(ms)
  BY <1>12 DEF ToSet
<1> QED
  BY <1>11, <1>12, <1>13, <1>14, <1>15

\* Only a vApp that has a VM which runs is up.
LEMMA UpHasVm ==
  ASSUME NEW vapps, \A vm \in DOMAIN vapps : vapps[vm] \in Seq(BOOLEAN),
         NEW answers, NEW x, SetsStatus(x, answers, vapps), VappUp(x, answers, vapps)
  PROVE  x.vdur.vm \in DOMAIN vapps /\ TRUE \in ToSet(vapps[x.vdur.vm])
<1>1. PICK s \in Seq(BOOLEAN) : s = vapps[x.vdur.vm]
  BY DEF VappUp, IsFound
<1>2. s # <<>> /\ Last(s) = TRUE /\ x.vdur.vm \in DOMAIN vapps
  <2>1. IsFound(x, answers, vapps) /\ Last(vapps[x.vdur.vm])
    BY DEF VappUp
  <2>2. s # <<>>
    BY <1>1, <2>1 DEF SetsStatus
  <2>3. Last(s) \in BOOLEAN
    BY <2>2, LastIn
  <2>4. x.vdur.vm \in DOMAIN vapps
    BY <2>1 DEF IsFound
  <2> QED
    BY <1>1, <2>1, <2>2, <2>3, <2>4
<1>3. Last(s) \in ToSet(s)
  BY <1>2, LastIn
<1> QED
  BY <1>1, <1>2, <1>3

\* The vdur that last set the status: the one reported, if it sets it.
LEMMA SetByOne ==
  ASSUME NEW vdurs, NEW n \in Nat, NEW i \in 1..n, NEW answers, NEW vapps,
         SetsStatus(vdurs[1], answers, vapps)
  PROVE  /\ SetBy(i, vdurs, answers, vapps) \in 1..n
         /\ SetsStatus(vdurs[SetBy(i, vdurs, answers, vapps)], answers, vapps)
         /\ SetsStatus(vdurs[i], answers, vapps) => SetBy(i, vdurs, answers, vapps) = i
<1> DEFINE S == {k \in 1..i : SetsStatus(vdurs[k], answers, vapps)}
<1>1. S \in SUBSET (0..n) /\ 1 \in S
  OBVIOUS
<1>2. Max(S) \in S /\ \A y \in S : y <= Max(S)
  <2> HIDE DEF S
  <2> QED
    BY <1>1, MaxOf
<1>3. SetBy(i, vdurs, answers, vapps) = Max(S)
  BY DEF SetBy
<1>4. PICK k \in 1..i : k = Max(S) /\ SetsStatus(vdurs[k], answers, vapps) /\ \A y \in S : y <= k
  BY <1>2
<1>5. i \in S => k = i
  BY <1>4
<1> QED
  BY <1>3, <1>4, <1>5

IsHollow(vapps, vm) == vm \in DOMAIN vapps /\ vapps[vm] = <<>>

\* No named vdur of the records has a vApp without VMs.
NoneEmpty(vnfrs, F, vapps) ==
  \A f \in F : \A d \in ToSet(vnfrs[f]) : IsNamed(d) => ~ IsHollow(vapps, d.vm)

\* The status of a named vdur, which is up only if its vApp has a VM that runs.
VappTold(vim, vnfrs, F, vapps, m) ==
  \E f \in F : \E d \in ToSet(vnfrs[f]), b \in BOOLEAN :
    /\ IsNamed(d) /\ m = VmStatus(vim, f, d, b)
    /\ b => d.vm \in DOMAIN vapps /\ TRUE \in ToSet(vapps[d.vm])

\* VMware: statuses that are true, of all vdurs but those of an empty vApp.  None are
\* lost, or all, then for a vdur without a name or a first vApp that is empty.
LEMMA VmwareTells ==
  ASSUME NEW vnfrs, NEW F, IsFiniteSet(F), \A f \in F : IsRecord(vnfrs[f]),
         NEW vdurs, vdurs = Vdurs(SomeOrder(F), vnfrs),
         NEW vapps, \A vm \in DOMAIN vapps : vapps[vm] \in Seq(BOOLEAN),
         NEW vim, NEW answers, NEW vdc,
         NEW ms, ms = VmwareInfra(vim, vdurs, answers, vdc, vapps)
  PROVE  /\ IsList(ms)
         /\ \A m \in ToSet(ms) :
              \/ m = VimStatus(vim, CheckVimStatus(vim, answers, vdc))
              \/ VappTold(vim, vnfrs, F, vapps, m)
         /\ \A i, h \in DOMAIN ms : ms[i].name = "vim_status" /\ ms[h].name = "vim_status" => i = h
         /\ NoneEmpty(vnfrs, F, vapps) => Apart(ms)
         /\ ms = <<>> =>
              \E f \in F : \/ \E d \in ToSet(vnfrs[f]) : ~ IsNamed(d)
                           \/ vnfrs[f] # <<>> /\ IsHollow(vapps, Head(vnfrs[f]).vm)
         /\ ms # <<>> =>
              /\ VimStatus(vim, CheckVimStatus(vim, answers, vdc)) \in ToSet(ms)
              /\ \A f \in F : \A d \in ToSet(vnfrs[f]) :
                   \/ IsHollow(vapps, d.vm)
                   \/ \E b \in BOOLEAN : VmStatus(vim, f, d, b) \in ToSet(ms)
<1>1. /\ IsList(vdurs) /\ Once(vdurs, {x \in ToSet(vdurs) : IsNamed(x.vdur)})
      /\ \A x \in ToSet(vdurs) : IsVdurOf(vnfrs, F, x)
      /\ \A f \in F : \A d \in ToSet(vnfrs[f]) : [vnf |-> f, vdur |-> d] \in ToSet(vdurs)
      /\ IsFirstVdur(vnfrs, F, vdurs)
  BY VdursOfRecords
<1>2. PICK n \in Nat : n = Len(vdurs) /\ DOMAIN vdurs = 1..n
  BY <1>1, LenProperties DEF IsList
<1>3. ASSUME NEW i \in 1..n
      PROVE  /\ vdurs[i] \in ToSet(vdurs)
             /\ \E f \in F : \E d \in ToSet(vnfrs[f]) :
                  vdurs[i].vnf = f /\ vdurs[i].vdur = d
  <2>1. vdurs[i] \in ToSet(vdurs)
    BY <1>2 DEF ToSet
  <2>2. PICK f \in F : \E d \in ToSet(vnfrs[f]) : vdurs[i] = [vnf |-> f, vdur |-> d]
    BY <1>1, <2>1 DEF IsVdurOf
  <2>3. PICK d \in ToSet(vnfrs[f]) : vdurs[i] = [vnf |-> f, vdur |-> d]
    BY <2>2
  <2>4. vdurs[i].vnf = f /\ vdurs[i].vdur = d
    BY <2>3
  <2> QED
    BY <2>1, <2>4
<1>4. ASSUME NoneEmpty(vnfrs, F, vapps), NEW i \in 1..n, IsNamed(vdurs[i].vdur)
      PROVE  SetsStatus(vdurs[i], answers, vapps)
  <2>1. PICK f \in F : \E d \in ToSet(vnfrs[f]) : vdurs[i].vdur = d
    BY <1>3
  <2>2. PICK d \in ToSet(vnfrs[f]) : vdurs[i].vdur = d
    BY <2>1
  <2>3. d.vm \in DOMAIN vapps => vapps[d.vm] # <<>>
    BY <1>4, <2>2 DEF NoneEmpty, IsHollow
  <2> QED
    BY <2>2, <2>3 DEF SetsStatus, IsFound
<1>5. CASE VmwareInfraRaises(vdurs, answers, vapps)
  <2>1. ms = <<>> /\ ToSet(<<>>) = {}
    BY <1>5 DEF VmwareInfra, ToSet
  <2>2. IsList(ms) /\ Apart(ms)
    <3>1. IsList(<<>>) /\ DOMAIN <<>> = {}
      BY DEF IsList
    <3> QED
      BY <2>1, <3>1 DEF Apart
  <2>4. DOMAIN ms = {}
    BY <2>1
  <2>3. \E f \in F : \/ \E d \in ToSet(vnfrs[f]) : ~ IsNamed(d)
                     \/ vnfrs[f] # <<>> /\ IsHollow(vapps, Head(vnfrs[f]).vm)
    <3>1. CASE \E i \in DOMAIN vdurs : ~ IsNamed(vdurs[i].vdur)
      BY <1>2, <1>3, <3>1
    <3>2. CASE vdurs # <<>> /\ ~ SetsStatus(Head(vdurs), answers, vapps)
      <4>1. IsHollow(vapps, Head(vdurs).vdur.vm)
        BY <3>2 DEF SetsStatus, IsFound, IsHollow
      <4> QED
        BY <1>1, <3>2, <4>1 DEF IsFirstVdur
    <3> QED
      BY <1>5, <3>1, <3>2 DEF VmwareInfraRaises
  <2> QED
    BY <2>1, <2>2, <2>3, <2>4
<1>6. CASE ~ VmwareInfraRaises(vdurs, answers, vapps)
  <2>1. /\ \A i \in 1..n : IsNamed(vdurs[i].vdur)
        /\ 1 \in 1..n => SetsStatus(vdurs[1], answers, vapps)
    <3>1. 1 \in 1..n => vdurs # <<>> /\ Head(vdurs) = vdurs[1]
      <4>1. \A S : vdurs \in Seq(S) /\ 1 \in 1..n => vdurs # <<>> /\ Head(vdurs) = vdurs[1]
        BY <1>2, EmptySeq, HeadTailProperties
      <4> QED
        BY <1>1, <4>1 DEF IsList
    <3> QED
      BY <1>2, <1>6, <3>1 DEF VmwareInfraRaises
  <2>2. PICK by : by = [i \in 1..n |-> SetBy(i, vdurs, answers, vapps)]
    OBVIOUS
  <2>3. ASSUME NEW i \in 1..n
        PROVE  /\ by[i] \in 1..n /\ SetsStatus(vdurs[by[i]], answers, vapps)
               /\ SetsStatus(vdurs[i], answers, vapps) => by[i] = i
    <3>1. 1 \in 1..n
      OBVIOUS
    <3> QED
      BY <2>1, <2>2, <3>1, SetByOne
  <2>4. PICK value, e : value = CheckVimStatus(vim, answers, vdc) /\ e = VimStatus(vim, value)
    OBVIOUS
  <2>5. PICK on : on = [i \in 1..n |-> VappUp(vdurs[by[i]], answers, vapps)]
    OBVIOUS
  <2>6. PICK x : x = [i \in 1..n |-> vdurs[by[i]]]
    OBVIOUS
  <2>7. PICK g : /\ g = VmStatuses(vim, x, on, n)
                 /\ g = [i \in 1..n |-> VmStatus(vim, x[i].vnf, x[i].vdur, on[i])]
    BY DEF VmStatuses
  <2>8. ms = <<VimStatus(vim, value)>> \o g
    <3>1. VmwareVms(vim, vdurs, answers, vapps) = g
      BY <1>2, <2>2, <2>5, <2>6, <2>7 DEF VmwareVms
    <3> QED
      BY <1>6, <2>4, <3>1 DEF VmwareInfra
  <2>9. /\ IsList(ms) /\ 1 \in DOMAIN ms /\ ms[1] = e
        /\ \A i \in 1..n : i + 1 \in DOMAIN ms /\ ms[i + 1] = g[i]
        /\ \A k \in DOMAIN ms : k = 1 \/ (k - 1 \in 1..n /\ ms[k] = g[k - 1])
    <3>1. ms = <<e>> \o g
      BY <2>4, <2>8
    <3>2. IsVector(g, n)
      BY <2>7 DEF IsVector
    <3>3. IsCons(ms, e, g, n)
      BY <3>1, <3>2, ConsList
    <3> QED
      BY <3>3 DEF IsCons
  <2>10. ASSUME NEW i \in 1..n
         PROVE  /\ by[i] \in 1..n /\ on[i] \in BOOLEAN
                /\ g[i] = VmStatus(vim, vdurs[by[i]].vnf, vdurs[by[i]].vdur, on[i])
                /\ on[i] => /\ vdurs[by[i]].vdur.vm \in DOMAIN vapps
                            /\ TRUE \in ToSet(vapps[vdurs[by[i]].vdur.vm])
    <3>1. on[i] = VappUp(vdurs[by[i]], answers, vapps)
      BY <2>5
    <3>2. g[i] = VmStatus(vim, vdurs[by[i]].vnf, vdurs[by[i]].vdur, on[i])
      BY <2>6, <2>7
    <3>3. on[i] \in BOOLEAN
      BY <3>1 DEF VappUp, IsFound
    <3>4. ASSUME on[i] PROVE VappUp(vdurs[by[i]], answers, vapps)
      BY <3>1, <3>4
    <3> QED
      BY <2>3, <3>2, <3>3, <3>4, UpHasVm
  <2>11. ASSUME NEW m \in ToSet(ms), m # e
         PROVE  VappTold(vim, vnfrs, F, vapps, m)
    <3>1. PICK k \in DOMAIN ms : m = ms[k]
      BY DEF ToSet
    <3>2. PICK i \in 1..n : m = g[i]
      BY <2>9, <2>11, <3>1
    <3>3. PICK f \in F : \E d \in ToSet(vnfrs[f]) :
            vdurs[by[i]].vnf = f /\ vdurs[by[i]].vdur = d
      BY <1>3, <2>10
    <3>4. PICK d \in ToSet(vnfrs[f]) : vdurs[by[i]].vnf = f /\ vdurs[by[i]].vdur = d
      BY <3>3
    <3>5. IsNamed(d)
      BY <2>1, <2>10, <3>4
    <3> QED
      BY <2>10, <3>2, <3>4, <3>5 DEF VappTold
  <2>12. ASSUME NoneEmpty(vnfrs, F, vapps) PROVE \A i \in 1..n : by[i] = i
    BY <1>4, <2>1, <2>3, <2>12
  <2>13. ASSUME NoneEmpty(vnfrs, F, vapps) PROVE Apart(ms)
    <3>1. \A i \in 1..n : x[i] = vdurs[i]
      BY <2>6, <2>12, <2>13
    <3>2. \A i \in 1..n : IsNamed(x[i].vdur) /\ IsVdurOf(vnfrs, F, x[i])
      BY <1>1, <1>3, <2>1, <3>1
    <3>3. \A i, h \in 1..n : x[i] = x[h] => i = h
      BY <1>1, <1>2, <1>3, <2>1, <3>1 DEF Once
    <3>4. AreVdurs(x, n, vnfrs, F) /\ Differ(x, n)
      BY <3>2, <3>3 DEF AreVdurs, Differ
    <3> QED
      BY <2>7, <2>8, <3>4, StatusesApart
  <2>14. ASSUME NEW f \in F, NEW d \in ToSet(vnfrs[f]), ~ IsHollow(vapps, d.vm)
         PROVE  \E b \in BOOLEAN : VmStatus(vim, f, d, b) \in ToSet(ms)
    <3>1. PICK y : y = [vnf |-> f, vdur |-> d]
      OBVIOUS
    <3>2. y.vnf = f /\ y.vdur = d /\ y \in ToSet(vdurs)
      BY <1>1, <3>1
    <3>3. PICK i \in 1..n : vdurs[i] = y
      BY <1>2, <3>2 DEF ToSet
    <3>4. by[i] = i
      <4>1. SetsStatus(vdurs[i], answers, vapps)
        BY <2>14, <3>2, <3>3 DEF SetsStatus, IsFound, IsHollow
      <4> QED
        BY <2>3, <4>1
    <3>5. ms[i + 1] = VmStatus(vim, f, d, on[i]) /\ i + 1 \in DOMAIN ms /\ on[i] \in BOOLEAN
      BY <2>9, <2>10, <3>2, <3>3, <3>4
    <3> QED
      BY <3>5 DEF ToSet
  <2>15. e \in ToSet(ms)
    BY <2>9 DEF ToSet
  <2>16. ASSUME NEW k \in DOMAIN ms, ms[k].name = "vim_status" PROVE k = 1
    <3>1. ASSUME NEW i \in 1..n PROVE g[i].name = "vm_status"
      <4>1. g[i] = VmStatus(vim, vdurs[by[i]].vnf, vdurs[by[i]].vdur, on[i])
        BY <2>10
      <4> QED
        BY <4>1 DEF VmStatus, StatusMetric
    <3>2. "vim_status" # "vm_status"
      OBVIOUS
    <3> QED
      BY <2>9, <2>16, <3>1, <3>2
  <2>17. ms # <<>>
    BY <2>9
  <2> QED
    BY <2>4, <2>9, <2>11, <2>13, <2>14, <2>15, <2>16, <2>17
<1> QED
  BY <1>5, <1>6

-----------------------------------------------------------------------------
(* What the workers of a world return, whatever fails. *)

LEMMA NamedOf ==
  ASSUME NEW vnfr, IsRecord(vnfr)
  PROVE  /\ ToSet(Named(vnfr)) = {d \in ToSet(vnfr) : IsNamed(d)}
         /\ Named(vnfr) \in Seq(ToSet(vnfr))
<1> DEFINE S == {d \in ToSet(vnfr) : IsNamed(d)}
<1>1. /\ Only(vnfr, S) \in Seq(ToSet(vnfr)) /\ ToSet(Only(vnfr, S)) = ToSet(vnfr) \cap S
  <2> HIDE DEF S
  <2> QED
    BY OnlyProperties DEF IsRecord
<1> QED
  BY <1>1 DEF Named

LEMMA WorldParts ==
  ASSUME world \in Worlds
  PROVE  /\ IsFiniteSet(Vnfs) /\ IsFiniteSet(world.gauges)
         /\ \A r \in world.gauges : IsGauge(r)
         /\ \A f \in Vnfs : /\ IsRecord(world.vnfrs[f]) /\ world.vim[f] \in Vims
                            /\ \A d \in ToSet(world.vnfrs[f]) : d.vm # f
         /\ \A v \in Vims : IsAccount(world.vims[v])
<1>1. IsWorld(world)
  BY MetricPathAssumption
<1>2. \A f \in Vnfs : world.vim[f] \in Vims
  BY <1>1 DEF IsWorld, Vnfs, Vims
<1> QED
  BY <1>1, <1>2 DEF IsWorld, Vnfs, Vims

\* A metric is of a parameter that a VDU of the VNF declares; only OpenStack's has an
\* interface.
IsDeclared(f, m) ==
  \E d \in ToSet(world.vnfrs[f]) : \E p \in ToSet(ParamsOf(d)) :
    /\ p.metric = m.name
    /\ VimType(world.vim[f]) = "openstack" => OfParam(d, p, m)
    /\ VimType(world.vim[f]) # "openstack" => DOMAIN m.tags = {"vnf", "vdu_name"}

\* Both are of a parameter of the same vdur, and not of the same parameter.
TwoParams(f, m, n) ==
  /\ VimType(world.vim[f]) = "openstack"
  /\ \E d \in ToSet(world.vnfrs[f]) : \E x, y \in DOMAIN ParamsOf(d) :
       x # y /\ OfParam(d, ParamsOf(d)[x], m) /\ OfParam(d, ParamsOf(d)[y], n)

VimFacts(f, ms) ==
  /\ AllGathered(f, world.vnfrs[f], ms)
  /\ \A m \in ToSet(ms) : IsDeclared(f, m)
  /\ \A i, h \in DOMAIN ms :
       (i # h /\ ms[i].name = ms[h].name /\ ms[i].tags.vdu_name = ms[h].tags.vdu_name) =>
         TwoParams(f, ms[i], ms[h])

LEMMA NoMetrics ==
  ASSUME NEW f
  PROVE  IsList(<<>>) /\ VimFacts(f, <<>>)
<1>1. IsList(<<>>) /\ DOMAIN <<>> = {} /\ ToSet(<<>>) = {}
  BY DEF IsList, ToSet
<1> QED
  BY <1>1 DEF VimFacts, AllGathered

LEMMA VropsFacts ==
  ASSUME NEW f \in Vnfs, IsRecord(world.vnfrs[f]), VimType(world.vim[f]) # "openstack",
         NEW resolved, NEW listed,
         NEW got, IsFiniteSet(got), \A r \in got : IsReading(r),
         NEW ms, ms = VropsMetrics(f, world.vnfrs[f], resolved, listed, got)
  PROVE  IsList(ms) /\ VimFacts(f, ms)
<1>2. PICK vnfr : vnfr = world.vnfrs[f]
  OBVIOUS
<1> DEFINE Of(m, d, e, r) ==
             /\ IsNamed(d) /\ IsMonitored(d) /\ d.vm = r.src
             /\ IsNamed(e) /\ IsMonitored(e)
             /\ \E p \in ToSet(ParamsOf(e)) : p.metric = r.metric
             /\ r.metric \in Metric /\ r.iface = NoIface
             /\ m = OfReading(f, d, r)
<1>3. /\ IsList(ms) /\ Once(ms, ToSet(ms))
      /\ \A m \in ToSet(ms) :
           \E d \in ToSet(vnfr), e \in ToSet(vnfr), r \in got : Of(m, d, e, r)
  BY <1>2, VropsGathers
<1>4. ASSUME NEW m \in ToSet(ms)
      PROVE  Gathered(f, vnfr, m) /\ IsDeclared(f, m)
  <2>1. PICK d \in ToSet(vnfr), e \in ToSet(vnfr), r \in got : Of(m, d, e, r)
    BY <1>3
  <2>2. Gathered(f, vnfr, m) /\ m.name = r.metric /\ DOMAIN m.tags = {"vnf", "vdu_name"}
    BY <2>1, ReadingGathered DEF IsOf
  <2> QED
    BY <1>2, <2>1, <2>2 DEF IsDeclared
<1>5. ASSUME NEW i \in DOMAIN ms, NEW h \in DOMAIN ms, i # h, ms[i].name = ms[h].name,
             ms[i].tags.vdu_name = ms[h].tags.vdu_name
      PROVE  FALSE
  <2>1. ms[i] \in ToSet(ms) /\ ms[h] \in ToSet(ms)
    BY DEF ToSet
  <2>2. PICK d \in ToSet(vnfr), e \in ToSet(vnfr), r \in got : Of(ms[i], d, e, r)
    BY <1>3, <2>1
  <2>3. PICK d2 \in ToSet(vnfr), e2 \in ToSet(vnfr), r2 \in got : Of(ms[h], d2, e2, r2)
    BY <1>3, <2>1
  <2>4. ms[i].name = r.metric /\ ms[i].tags.vdu_name = d.name
    BY <2>2, ReadingGathered DEF IsOf
  <2>5. ms[h].name = r2.metric /\ ms[h].tags.vdu_name = d2.name
    BY <2>3, ReadingGathered DEF IsOf
  <2>6. d.name = d2.name /\ r.metric = r2.metric
    BY <1>5, <2>4, <2>5
  <2>7. d = d2
    <3>1. PICK k \in DOMAIN vnfr, l \in DOMAIN vnfr : d = vnfr[k] /\ d2 = vnfr[l]
      BY DEF ToSet
    <3>2. IsRecord(vnfr) /\ IsNamed(d)
      BY <1>2, <2>2
    <3> QED
      BY <2>6, <3>1, <3>2 DEF IsRecord
  <2>8. r = r2
    <3>1. IsReading(r) /\ IsReading(r2)
      OBVIOUS
    <3> QED
      BY <2>2, <2>3, <2>6, <2>7, <3>1 DEF IsReading
  <2> QED
    BY <1>3, <1>5, <2>1, <2>2, <2>3, <2>7, <2>8 DEF Once
<1> QED
  BY <1>2, <1>3, <1>4, <1>5 DEF VimFacts, AllGathered

LEMMA OpenstackFacts ==
  ASSUME NEW f \in Vnfs, IsRecord(world.vnfrs[f]), VimType(world.vim[f]) = "openstack",
         NEW backend, NEW got,
         NEW ms, ms = OpenstackMetrics(f, world.vnfrs[f], backend, got)
  PROVE  IsList(ms) /\ VimFacts(f, ms)
<1>1. PICK vnfr : vnfr = world.vnfrs[f] /\ IsRecord(vnfr)
  OBVIOUS
<1>2. /\ IsList(ms) /\ AllGathered(f, vnfr, ms)
      /\ \A m \in ToSet(ms) : \E d \in ToSet(vnfr) : \E p \in ToSet(ParamsOf(d)) :
           OfParam(d, p, m)
  BY <1>1, OpenstackGathers
<1>3. ASSUME NEW m \in ToSet(ms) PROVE IsDeclared(f, m)
  <2>1. PICK d \in ToSet(vnfr) : \E p \in ToSet(ParamsOf(d)) : OfParam(d, p, m)
    BY <1>2
  <2>2. PICK p \in ToSet(ParamsOf(d)) : OfParam(d, p, m) /\ p.metric = m.name
    BY <2>1 DEF OfParam
  <2> QED
    BY <1>1, <2>2 DEF IsDeclared
<1>4. ASSUME NEW i \in DOMAIN ms, NEW h \in DOMAIN ms, i # h, ms[i].name = ms[h].name,
             ms[i].tags.vdu_name = ms[h].tags.vdu_name
      PROVE  TwoParams(f, ms[i], ms[h])
  <2>1. \E d \in ToSet(vnfr) : \E x, y \in DOMAIN ParamsOf(d) :
          x # y /\ OfParam(d, ParamsOf(d)[x], ms[i]) /\ OfParam(d, ParamsOf(d)[y], ms[h])
    BY <1>1, <1>4, OpenstackApart
  <2> QED
    BY <1>1, <2>1 DEF TwoParams
<1> QED
  BY <1>1, <1>2, <1>3, <1>4 DEF VimFacts

LEMMA AnswersOf ==
  ASSUME NEW x, NEW asked, NEW got \in Answers(x, asked)
  PROVE  got \subseteq asked
  BY DEF Answers

LEMMA VimReturns ==
  ASSUME world \in Worlds, NEW f \in Vnfs, NEW ms \in VimOutcomes(f)
  PROVE  IsList(ms) /\ VimFacts(f, ms)
<1>0. PICK v \in Vims : v = world.vim[f] /\ IsAccount(world.vims[v]) /\ IsRecord(world.vnfrs[f])
  BY WorldParts
<1>1. ASSUME VimType(v) # "openstack", NEW resolved, ms \in VropsOutcomes(f, resolved)
      PROVE  IsList(ms) /\ VimFacts(f, ms)
  <2>1. CASE ms = <<>>
    BY <2>1, NoMetrics
  <2>2. CASE ms # <<>>
    <3>1. PICK got \in Answers(<<"vrops", v>>, world.vims[v].measured) :
            ms = VropsMetrics(f, world.vnfrs[f], resolved, world.vims[v].listed, got)
      BY <1>0, <1>1, <2>2 DEF VropsOutcomes
    <3>2. IsFiniteSet(got) /\ \A r \in got : IsReading(r)
      BY <1>0, AnswersOf, FS_Subset DEF IsAccount
    <3> QED
      BY <1>0, <1>1, <3>1, <3>2, VropsFacts
  <2> QED
    BY <2>1, <2>2
<1>2. ASSUME VimType(v) = "openstack", ms \in OpenstackOutcomes(f)
      PROVE  IsList(ms) /\ VimFacts(f, ms)
  <2>1. CASE ms = <<>>
    BY <2>1, NoMetrics
  <2>2. CASE ms # <<>>
    <3>1. PICK backends, got : ms = OpenstackMetrics(f, world.vnfrs[f], Backend(backends), got)
      BY <1>2, <2>2 DEF OpenstackOutcomes
    <3> QED
      BY <1>0, <1>2, <3>1, OpenstackFacts
  <2> QED
    BY <2>1, <2>2
<1>3. PICK t, a, b, c : /\ t = VimType(v) /\ a = OpenstackOutcomes(f)
                        /\ b = VmwareOutcomes(f) /\ c = VioOutcomes(f)
  OBVIOUS
<1>4. ms \in CASE t = "openstack" -> a
               [] t = "vmware" -> b
               [] t = "vio" -> c
               [] OTHER -> {<<>>}
  BY <1>0, <1>3 DEF VimOutcomes
<1>5. \/ t = "openstack" /\ ms \in a
      \/ t # "openstack" /\ ms \in b
      \/ t # "openstack" /\ ms \in c
      \/ ms = <<>>
  <2>1. "openstack" # "vmware" /\ "openstack" # "vio" /\ "vmware" # "vio"
    OBVIOUS
  <2> QED
    BY <1>4, <2>1, Zenon
<1>6. ASSUME t # "openstack", ms \in b PROVE IsList(ms) /\ VimFacts(f, ms)
  <2>1. \E resolved : ms \in VropsOutcomes(f, resolved)
    BY <1>3, <1>6 DEF VmwareOutcomes
  <2> QED
    BY <1>1, <1>3, <1>6, <2>1
<1>7. ASSUME t # "openstack", ms \in c PROVE IsList(ms) /\ VimFacts(f, ms)
  BY <1>1, <1>3, <1>7 DEF VioOutcomes
<1>8. ms = <<>> => IsList(ms) /\ VimFacts(f, ms)
  BY NoMetrics
<1> QED
  BY <1>2, <1>3, <1>5, <1>6, <1>7, <1>8

\* The metrics of charms have no interface; two that agree in name and vdur are two
\* measures.
VcaFacts(f, ms) ==
  /\ AllGathered(f, world.vnfrs[f], ms)
  /\ \A m \in ToSet(ms) :
       /\ DOMAIN m.tags = {"vnf", "vdu_name"}
       /\ \E r \in world.gauges :
            r.metric = m.name /\ GivesOf(f, world.vnfrs[f], m.tags.vdu_name, r)
  /\ \A i, h \in DOMAIN ms :
       (i # h /\ ms[i].name = ms[h].name /\ ms[i].tags.vdu_name = ms[h].tags.vdu_name) =>
         MeasuredTwice(f, ms[i].tags.vdu_name, ms[i].name)

LEMMA VcaReturns ==
  ASSUME world \in Worlds, NEW f \in Vnfs, NEW ms \in VcaOutcomes(f)
  PROVE  IsList(ms) /\ VcaFacts(f, ms)
<1>0. PICK up : ms = VcaMetrics(f, world.vnfrs[f], up, world.deployed, world.gauges)
  BY DEF VcaOutcomes
<1>1. /\ IsRecord(world.vnfrs[f]) /\ IsFiniteSet(world.gauges)
      /\ \A d \in ToSet(world.vnfrs[f]) : d.vm # f
      /\ \A r \in world.gauges : r.iface = NoIface /\ r.metric \in Metric
  BY WorldParts DEF IsGauge, Gauge
<1>2. PICK vnfr, measured : vnfr = world.vnfrs[f] /\ measured = world.gauges
  OBVIOUS
<1>3. /\ IsList(ms)
      /\ \A m \in ToSet(ms) : OfVdur(f, vnfr, measured, m) \/ OfVnf(f, vnfr, measured, m)
  BY <1>0, <1>1, <1>2, VcaGathers
<1>4. ASSUME NEW m \in ToSet(ms)
      PROVE  /\ Gathered(f, vnfr, m) /\ DOMAIN m.tags = {"vnf", "vdu_name"}
             /\ \E r \in measured :
                  r.metric = m.name /\ GivesOf(f, vnfr, m.tags.vdu_name, r)
  <2>1. PICK d \in ToSet(vnfr), q \in measured :
          IsNamed(d) /\ IsOf(q, f, d) /\ m = OfReading(f, d, q)
    <3>1. OfVdur(f, vnfr, measured, m) \/ OfVnf(f, vnfr, measured, m)
      BY <1>3
    <3> QED
      BY <3>1 DEF OfVdur, OfVnf, IsOf
  <2>2. q.metric \in Metric
    BY <1>1, <1>2
  <2>3. Gathered(f, vnfr, m)
    BY <2>1, <2>2, ReadingGathered
  <2>4. m.name = q.metric /\ DOMAIN m.tags = {"vnf", "vdu_name"} /\ m.tags.vdu_name = d.name
    BY <2>1, VnfMetricFields DEF OfReading
  <2>5. GivesOf(f, vnfr, m.tags.vdu_name, q)
    BY <2>1, <2>4 DEF GivesOf, IsOf
  <2> QED
    BY <2>3, <2>4, <2>5
<1>5. ASSUME NEW i \in DOMAIN ms, NEW h \in DOMAIN ms, i # h, ms[i].name = ms[h].name,
             ms[i].tags.vdu_name = ms[h].tags.vdu_name
      PROVE  MeasuredTwice(f, ms[i].tags.vdu_name, ms[i].name)
  <2>0. PICK n, name : n = ms[i].tags.vdu_name /\ name = ms[i].name
    OBVIOUS
  <2>1. PICK r \in measured, q \in measured :
          /\ r # q /\ r.metric = name /\ q.metric = name
          /\ GivesOf(f, vnfr, n, r) /\ GivesOf(f, vnfr, n, q)
    BY <1>0, <1>1, <1>2, <1>5, <2>0, VcaApart
  <2>2. ASSUME NEW x \in measured, GivesOf(f, vnfr, n, x)
        PROVE  x.src \in {f} \cup {d.vm : d \in Vdu(f, n)}
    BY <1>2, <2>2 DEF GivesOf, Vdu
  <2>3. MeasuredTwice(f, n, name)
    BY <1>2, <2>1, <2>2 DEF MeasuredTwice
  <2> QED
    BY <2>0, <2>3
<1> QED
  BY <1>2, <1>3, <1>4, <1>5 DEF VcaFacts, AllGathered

\* Statuses say of a VIM what it answers, and of the VM of a vdur with a name that it
\* runs only if it does.
VimTold(v, m) == \E val : m = VimStatus(v, val) /\ (val = NoValue => VimType(v) = "vmware")

VmTold(v, m) ==
  \E f \in VnfsOf(v) : \E d \in ToSet(world.vnfrs[f]), b \in BOOLEAN :
    IsNamed(d) /\ m = VmStatus(v, f, d, b) /\ (b => Running(v, d.vm))

\* The status of the VIM and that of each named vdur, but for those that may be lost.
IsTold(ms, vm) == \E m \in ToSet(ms) : m.name = "vm_status" /\ m.tags.resource_uuid = vm

TellsAll(v, ms, lost) ==
  /\ "vim_status" \in {m.name : m \in ToSet(ms)}
  /\ \A f \in VnfsOf(v) : \A vm \in VmsOf(f) : IsTold(ms, vm) \/ vm \in lost

InfraFacts(v, ms) ==
  /\ \A m \in ToSet(ms) : VimTold(v, m) \/ VmTold(v, m)
  /\ \A i, h \in DOMAIN ms : ms[i].name = "vim_status" /\ ms[h].name = "vim_status" => i = h
  /\ <<>> \notin Range(world.vims[v].vapps) => Apart(ms)
  /\ VimType(v) \in {"openstack", "vio"} => TellsAll(v, ms, {})
  /\ VimType(v) = "vmware" =>
       (ToSet(ms) = {} /\ MayLoseAll(v)) \/ TellsAll(v, ms, EmptyVapps(v))
  /\ VimType(v) \notin {"openstack", "vio", "vmware"} => ToSet(ms) = {}

LEMMA VnfsOfVim ==
  ASSUME world \in Worlds, NEW v \in Vims
  PROVE  /\ VnfsOf(v) \subseteq Vnfs /\ IsFiniteSet(VnfsOf(v))
         /\ \A f \in VnfsOf(v) : IsRecord(world.vnfrs[f])
         /\ \A f \in VnfsOf(v) : \A vm :
              vm \in VmsOf(f) <=> \E d \in ToSet(world.vnfrs[f]) : IsNamed(d) /\ d.vm = vm
<1>1. VnfsOf(v) \subseteq Vnfs
  BY DEF VnfsOf
<1>2. IsFiniteSet(VnfsOf(v)) /\ \A f \in VnfsOf(v) : IsRecord(world.vnfrs[f])
  BY <1>1, WorldParts, FS_Subset
<1>3. ASSUME NEW f \in VnfsOf(v), NEW vm
      PROVE  vm \in VmsOf(f) <=> \E d \in ToSet(world.vnfrs[f]) : IsNamed(d) /\ d.vm = vm
  BY <1>2, NamedOf DEF VmsOf
<1> QED
  BY <1>1, <1>2, <1>3

LEMMA OpenstackInfraFacts ==
  ASSUME world \in Worlds, NEW v \in Vims, VimType(v) \in {"openstack", "vio"}, NEW answers,
         NEW ms, ms = OpenstackInfra(v, Vdurs(SomeOrder(VnfsOf(v)), world.vnfrs), answers,
                                     world.vims[v].active)
  PROVE  IsList(ms) /\ InfraFacts(v, ms)
<1>2. PICK vnfrs, active, F, vdurs :
        /\ vnfrs = world.vnfrs /\ active = world.vims[v].active /\ F = VnfsOf(v)
        /\ vdurs = Vdurs(SomeOrder(F), vnfrs)
  OBVIOUS
<1>1. IsFiniteSet(F) /\ \A f \in F : IsRecord(vnfrs[f])
  BY <1>2, VnfsOfVim
<1>3. PICK on, e : on = (v \in answers) /\ e = VimStatus(v, Status(v, v \in answers))
  OBVIOUS
<1>4. /\ IsList(ms) /\ Apart(ms)
      /\ \A m \in ToSet(ms) :
           \/ m = e
           \/ \E f \in F : \E d \in ToSet(vnfrs[f]) :
                IsNamed(d) /\ m = VmStatus(v, f, d, d.vm \in answers \cap active)
      /\ e \in ToSet(ms)
      /\ \A f \in F : \A d \in ToSet(vnfrs[f]) :
           IsNamed(d) => VmStatus(v, f, d, d.vm \in answers \cap active) \in ToSet(ms)
  BY <1>1, <1>2, <1>3, OpenstackTells
<1>5. ASSUME NEW m \in ToSet(ms) PROVE VimTold(v, m) \/ VmTold(v, m)
  <2>1. CASE m = e
    <3>1. Status(v, v \in answers) # NoValue
      BY DEF Status, NoValue
    <3> QED
      BY <1>3, <2>1, <3>1 DEF VimTold
  <2>2. ASSUME NEW f \in F, NEW d \in ToSet(vnfrs[f]), IsNamed(d),
               m = VmStatus(v, f, d, d.vm \in answers \cap active)
        PROVE  VmTold(v, m)
    <3>1. VimType(v) # "vmware"
      OBVIOUS
    <3>2. \E b \in BOOLEAN : m = VmStatus(v, f, d, b) /\ (b => Running(v, d.vm))
      <4>1. CASE d.vm \in answers \cap active
        <5>1. m = VmStatus(v, f, d, TRUE)
          <6>1. (d.vm \in answers \cap active) = TRUE
            BY <4>1
          <6> QED
            BY <2>2, <6>1, Zenon
        <5>2. Running(v, d.vm)
          BY <1>2, <3>1, <4>1 DEF Running
        <5> QED
          BY <5>1, <5>2
      <4>2. CASE d.vm \notin answers \cap active
        <5>1. m = VmStatus(v, f, d, FALSE)
          <6>1. (d.vm \in answers \cap active) = FALSE
            BY <4>2
          <6> QED
            BY <2>2, <6>1, Zenon
        <5> QED
          BY <5>1
      <4> QED
        BY <4>1, <4>2
    <3> QED
      BY <1>2, <2>2, <3>2 DEF VmTold
  <2> QED
    BY <1>4, <2>1, <2>2
<1>6. ASSUME NEW m \in ToSet(ms), m.name = "vim_status" PROVE m.tags = [vim |-> v]
  <2>1. VimTold(v, m) \/ VmTold(v, m)
    BY <1>5
  <2> QED
    BY <1>6, <2>1 DEF VimTold, VmTold, VimStatus, VmStatus, StatusMetric
<1>7. \A i, h \in DOMAIN ms : ms[i].name = "vim_status" /\ ms[h].name = "vim_status" => i = h
  <2>1. \A i \in DOMAIN ms : ms[i] \in ToSet(ms)
    BY DEF ToSet
  <2> QED
    BY <1>4, <1>6, <2>1 DEF Apart
<1>8. TellsAll(v, ms, {})
  <2>1. e.name = "vim_status"
    BY <1>3 DEF VimStatus, StatusMetric
  <2>2. ASSUME NEW f \in VnfsOf(v), NEW vm \in VmsOf(f)
        PROVE  IsTold(ms, vm)
    <3>1. PICK d \in ToSet(vnfrs[f]) : IsNamed(d) /\ d.vm = vm
      BY <1>2, <2>2, VnfsOfVim
    <3>2. PICK m : m = VmStatus(v, f, d, d.vm \in answers \cap active)
      OBVIOUS
    <3>3. m \in ToSet(ms)
      BY <1>2, <1>4, <3>1, <3>2
    <3>4. m.name = "vm_status" /\ m.tags.resource_uuid = vm
      BY <3>1, <3>2 DEF VmStatus, StatusMetric
    <3> QED
      BY <3>3, <3>4 DEF IsTold
  <2> QED
    BY <1>4, <2>1, <2>2 DEF TellsAll
<1> QED
  BY <1>4, <1>5, <1>7, <1>8 DEF InfraFacts

LEMMA VmwareInfraFacts ==
  ASSUME world \in Worlds, NEW v \in Vims, VimType(v) = "vmware", NEW answers,
         NEW ms, ms = VmwareInfra(v, Vdurs(SomeOrder(VnfsOf(v)), world.vnfrs), answers,
                                  world.vims[v].vdc, world.vims[v].vapps)
  PROVE  IsList(ms) /\ InfraFacts(v, ms)
<1>2. PICK vnfrs, vapps, vdc, F, vdurs :
        /\ vnfrs = world.vnfrs /\ vapps = world.vims[v].vapps /\ vdc = world.vims[v].vdc
        /\ F = VnfsOf(v) /\ vdurs = Vdurs(SomeOrder(F), vnfrs)
  OBVIOUS
<1>1. /\ IsFiniteSet(F) /\ \A f \in F : IsRecord(vnfrs[f])
      /\ \A vm \in DOMAIN vapps : vapps[vm] \in Seq(BOOLEAN)
  BY <1>2, VnfsOfVim, WorldParts DEF IsAccount
<1>3. PICK e : e = VimStatus(v, CheckVimStatus(v, answers, vdc))
  OBVIOUS
<1>4. /\ IsList(ms)
      /\ \A m \in ToSet(ms) : m = e \/ VappTold(v, vnfrs, F, vapps, m)
      /\ \A i, h \in DOMAIN ms : ms[i].name = "vim_status" /\ ms[h].name = "vim_status" => i = h
      /\ NoneEmpty(vnfrs, F, vapps) => Apart(ms)
      /\ ms = <<>> =>
           \E f \in F : \/ \E d \in ToSet(vnfrs[f]) : ~ IsNamed(d)
                        \/ vnfrs[f] # <<>> /\ IsHollow(vapps, Head(vnfrs[f]).vm)
      /\ ms # <<>> =>
           /\ e \in ToSet(ms)
           /\ \A f \in F : \A d \in ToSet(vnfrs[f]) :
                \/ IsHollow(vapps, d.vm)
                \/ \E b \in BOOLEAN : VmStatus(v, f, d, b) \in ToSet(ms)
  BY <1>1, <1>2, <1>3, VmwareTells
<1>5. ASSUME NEW m \in ToSet(ms) PROVE VimTold(v, m) \/ VmTold(v, m)
  <2>1. CASE m = e
    BY <1>3, <2>1 DEF VimTold
  <2>2. CASE VappTold(v, vnfrs, F, vapps, m)
    BY <1>2, <2>2 DEF VappTold, VmTold, Running
  <2> QED
    BY <1>4, <2>1, <2>2
<1>6. \A vm : IsHollow(vapps, vm) <=> vm \in EmptyVapps(v)
  BY <1>2 DEF IsHollow, EmptyVapps
<1>7. ASSUME ms = <<>> PROVE ToSet(ms) = {} /\ MayLoseAll(v)
  <2>1. PICK f \in F : \/ \E d \in ToSet(vnfrs[f]) : ~ IsNamed(d)
                       \/ vnfrs[f] # <<>> /\ IsHollow(vapps, Head(vnfrs[f]).vm)
    BY <1>4, <1>7
  <2>2. (\E d \in ToSet(vnfrs[f]) : ~ IsNamed(d)) => ~ Complete(vnfrs[f])
    BY DEF Complete, ToSet
  <2>3. MayLoseAll(v)
    BY <1>2, <1>6, <2>1, <2>2 DEF MayLoseAll
  <2> QED
    BY <1>7, <2>3 DEF ToSet
<1>8. ASSUME ms # <<>> PROVE TellsAll(v, ms, EmptyVapps(v))
  <2>1. e.name = "vim_status" /\ e \in ToSet(ms)
    BY <1>3, <1>4, <1>8 DEF VimStatus, StatusMetric
  <2>2. ASSUME NEW f \in VnfsOf(v), NEW vm \in VmsOf(f)
        PROVE  IsTold(ms, vm) \/ vm \in EmptyVapps(v)
    <3>1. PICK d \in ToSet(vnfrs[f]) : IsNamed(d) /\ d.vm = vm
      BY <1>2, <2>2, VnfsOfVim
    <3>2. CASE IsHollow(vapps, vm)
      BY <1>6, <3>2
    <3>3. CASE ~ IsHollow(vapps, vm)
      <4>1. PICK b \in BOOLEAN : VmStatus(v, f, d, b) \in ToSet(ms)
        BY <1>2, <1>4, <1>8, <3>1, <3>3
      <4>2. PICK m : m = VmStatus(v, f, d, b)
        OBVIOUS
      <4>3. m.name = "vm_status" /\ m.tags.resource_uuid = vm
        BY <3>1, <4>2 DEF VmStatus, StatusMetric
      <4> QED
        BY <4>1, <4>2, <4>3 DEF IsTold
    <3> QED
      BY <3>2, <3>3
  <2> QED
    BY <2>1, <2>2 DEF TellsAll
<1>9. <<>> \notin Range(world.vims[v].vapps) => Apart(ms)
  <2>1. <<>> \notin Range(world.vims[v].vapps) => NoneEmpty(vnfrs, F, vapps)
    BY <1>2 DEF NoneEmpty, Range, IsHollow
  <2> QED
    BY <1>4, <2>1
<1> QED
  BY <1>4, <1>5, <1>7, <1>8, <1>9 DEF InfraFacts

LEMMA InfraReturns ==
  ASSUME world \in Worlds, NEW v \in Vims, NEW ms \in InfraOutcomes(v)
  PROVE  IsList(ms) /\ InfraFacts(v, ms)
<1> DEFINE OfOpenstack(answers) ==
             OpenstackInfra(v, Vdurs(SomeOrder(VnfsOf(v)), world.vnfrs), answers,
                            world.vims[v].active)
           OfVmware(answers) ==
             VmwareInfra(v, Vdurs(SomeOrder(VnfsOf(v)), world.vnfrs), answers,
                         world.vims[v].vdc, world.vims[v].vapps)
           asked == {v} \cup UNION {VmsOf(f) : f \in VnfsOf(v)}
           given == Answers(<<"vim", v>>, asked)
<1>0. PICK t, a, b : /\ t = VimType(v)
                     /\ a = {OfOpenstack(answers) : answers \in given}
                     /\ b = {OfVmware(answers) : answers \in given}
  OBVIOUS
<1>1. ms \in CASE t \in {"openstack", "vio"} -> a
               [] t = "vmware" -> b
               [] OTHER -> {<<>>}
  BY <1>0 DEF InfraOutcomes
<1>2. \/ t \in {"openstack", "vio"} /\ ms \in a
      \/ t = "vmware" /\ ms \in b
      \/ t \notin {"openstack", "vio", "vmware"} /\ ms = <<>>
  BY <1>1, Zenon
<1>3. ASSUME t \notin {"openstack", "vio", "vmware"}, ms = <<>>
      PROVE  IsList(ms) /\ InfraFacts(v, ms)
  <2>1. IsList(<<>>) /\ DOMAIN <<>> = {} /\ ToSet(<<>>) = {}
    BY DEF IsList, ToSet
  <2> QED
    BY <1>0, <1>3, <2>1 DEF InfraFacts, Apart
<1>4. ASSUME t \in {"openstack", "vio"}, ms \in a PROVE IsList(ms) /\ InfraFacts(v, ms)
  <2>1. PICK answers : ms = OfOpenstack(answers)
    BY <1>0, <1>4
  <2> QED
    BY <1>0, <1>4, <2>1, OpenstackInfraFacts
<1>5. ASSUME t = "vmware", ms \in b PROVE IsList(ms) /\ InfraFacts(v, ms)
  <2>1. PICK answers : ms = OfVmware(answers)
    BY <1>0, <1>5
  <2> QED
    BY <1>0, <1>5, <2>1, VmwareInfraFacts
<1> QED
  BY <1>2, <1>3, <1>4, <1>5

\* An ONOS controller has one metric, of any other there is none.
SdncFacts(s, ms) ==
  /\ \A m \in ToSet(ms) : \E b \in BOOLEAN :
       m = StatusMetric("sdnc_status", Status(s, b), [sdnc |-> s])
  /\ \A i, h \in DOMAIN ms : i = h

LEMMA SdncReturns ==
  ASSUME NEW s, NEW ms \in SdncOutcomes(s)
  PROVE  IsList(ms) /\ SdncFacts(s, ms)
<1>1. CASE ms = <<>>
  <2>1. IsList(<<>>) /\ DOMAIN <<>> = {} /\ ToSet(<<>>) = {}
    BY DEF IsList, ToSet
  <2> QED
    BY <1>1, <2>1 DEF SdncFacts
<1>2. CASE ms # <<>>
  <2>0. PICK up \in BOOLEAN : ms = SdncMetrics(s, up)
    BY <1>2 DEF SdncOutcomes
  <2>1. PICK e : e = StatusMetric("sdnc_status", Status(s, up), [sdnc |-> s])
    OBVIOUS
  <2>2. ms = <<e>>
    BY <2>0, <2>1 DEF SdncMetrics
  <2>3. DOMAIN <<e>> = {1} /\ <<e>>[1] = e
    OBVIOUS
  <2>4. ToSet(<<e>>) = {e}
    BY <2>3 DEF ToSet
  <2>5. <<e>> \in Seq({e})
    OBVIOUS
  <2> QED
    BY <2>1, <2>2, <2>3, <2>4, <2>5 DEF IsList, SdncFacts
<1> QED
  BY <1>1, <1>2

-----------------------------------------------------------------------------
(* The cycle and the exporter. *)

JobFacts(j, ms) ==
  /\ IsList(ms)
  /\ j[1] = "vim" => VimFacts(j[2], ms)
  /\ j[1] = "vca" => VcaFacts(j[2], ms)
  /\ j[1] = "infra" => InfraFacts(j[2], ms)
  /\ j[1] = "sdnc" => SdncFacts(j[2], ms)

ResultsFacts(r) == DOMAIN r \subseteq Jobs /\ \A j \in DOMAIN r : JobFacts(j, r[j])

\* The label names of a family are the tags of a metric of its name.
LabelsIn(fam, name) == (CHOOSE x \in fam : x[1] = name)[2]

Fits(fam, r) ==
  \A m \in All(r) : \E n \in All(r) : n.name = m.name /\ LabelsIn(fam, m.name) = DOMAIN n.tags

\* The exporter serves what it made of the metrics of some cycle.
Exposes(s, r, fam) ==
  ResultsFacts(r) /\ Fits(fam, r) /\ s = [j \in DOMAIN r |-> Labelled(r[j], fam)]

ServedFacts(s) == \E r, fam : Exposes(s, r, fam)

IInv ==
  /\ world \in Worlds
  /\ failing \subseteq world.fallible
  /\ ResultsFacts(results)
  /\ ServedFacts(served)

\* All of a cycle's metrics are those of a worker.
LEMMA InAll ==
  ASSUME NEW r, NEW m
  PROVE  m \in All(r) <=> \E j \in DOMAIN r : \E i \in DOMAIN r[j] : m = r[j][i]
  BY DEF All, ToSet

\* A family that the exporter may make has label names of one of its metrics.
LEMMA FamiliesFit ==
  ASSUME ResultsFacts(results), NEW fam \in Families
  PROVE  Fits(fam, results)
<1>1. SUFFICES ASSUME NEW m \in All(results)
               PROVE  \E n \in All(results) :
                        n.name = m.name /\ LabelsIn(fam, m.name) = DOMAIN n.tags
  BY DEF Fits
<1> DEFINE firsts == UNION {Firsts(results[j]) : j \in DOMAIN results}
<1>2. fam \subseteq firsts /\ {x[1] : x \in fam} = {x[1] : x \in firsts}
  BY DEF Families
<1>3. PICK j \in DOMAIN results : m \in ToSet(results[j])
  BY DEF All
<1>4. PICK ms : ms = results[j] /\ IsList(ms)
  BY DEF ResultsFacts, JobFacts
<1>5. DOMAIN ms = 1..Len(ms) /\ Len(ms) \in Nat
  BY <1>4, LenProperties DEF IsList
<1> DEFINE T == {i \in DOMAIN ms : ms[i].name = m.name}
<1>6. T \in SUBSET Nat /\ T # {}
  BY <1>3, <1>4, <1>5 DEF ToSet
<1>7. PICK k \in T : \A i \in T : k <= i
  <2> HIDE DEF T
  <2> QED
    BY <1>6, LeastNat
<1>8. k \in DOMAIN ms /\ ms[k].name = m.name /\ \A h \in 1..(k - 1) : ms[h].name # ms[k].name
  <2>1. ASSUME NEW h \in 1..(k - 1), ms[h].name = ms[k].name PROVE FALSE
    <3>1. h \in DOMAIN ms /\ ~ (k <= h)
      BY <1>5, <1>7
    <3> QED
      BY <1>7, <2>1, <3>1
  <2> QED
    BY <1>7, <2>1
<1>9. <<ms[k].name, DOMAIN ms[k].tags>> \in Firsts(ms)
  BY <1>8 DEF Firsts
<1>10. <<ms[k].name, DOMAIN ms[k].tags>> \in firsts
  BY <1>4, <1>9
<1>11. m.name \in {x[1] : x \in firsts}
  <2>1. <<ms[k].name, DOMAIN ms[k].tags>>[1] = m.name
    BY <1>8
  <2> HIDE DEF firsts
  <2> QED
    BY <1>10, <2>1
<1>12. \E x \in fam : x[1] = m.name
  <2> HIDE DEF firsts
  <2>1. m.name \in {x[1] : x \in fam}
    BY <1>2, <1>11
  <2> QED
    BY <2>1
<1>13. PICK y \in fam : y[1] = m.name /\ LabelsIn(fam, m.name) = y[2]
  BY <1>12 DEF LabelsIn
<1>14. PICK g \in DOMAIN results : y \in Firsts(results[g])
  BY <1>2, <1>13
<1>15. PICK i \in DOMAIN results[g] : y = <<results[g][i].name, DOMAIN results[g][i].tags>>
  BY <1>14 DEF Firsts
<1>16. results[g][i] \in All(results)
  BY <1>15, InAll
<1>17. y[1] = results[g][i].name /\ y[2] = DOMAIN results[g][i].tags
  BY <1>15
<1> QED
  BY <1>13, <1>16, <1>17

\* What the facts say depends on the world alone, which stays.
LEMMA FactsStay ==
  ASSUME world' = world
  PROVE  /\ \A r : ResultsFacts(r) => ResultsFacts(r)'
         /\ \A s : ServedFacts(s) => ServedFacts(s)'
<1>1. Vnfs' = Vnfs /\ Vims' = Vims
  BY DEF Vnfs, Vims
<1>2. ASSUME NEW v
      PROVE  VnfsOf(v)' = VnfsOf(v) /\ VimType(v)' = VimType(v) /\ EmptyVapps(v)' = EmptyVapps(v)
  BY <1>1 DEF VnfsOf, VimType, EmptyVapps
<1>3. ASSUME NEW f PROVE VmsOf(f)' = VmsOf(f)
  BY DEF VmsOf
<1>4. ASSUME NEW f, NEW m PROVE IsDeclared(f, m)' <=> IsDeclared(f, m)
  <2>1. VimType(world.vim[f])' = VimType(world.vim[f])
    BY DEF VimType
  <2> QED
    BY <2>1 DEF IsDeclared
<1>5. ASSUME NEW f, NEW m, NEW n PROVE TwoParams(f, m, n)' <=> TwoParams(f, m, n)
  <2>1. VimType(world.vim[f])' = VimType(world.vim[f])
    BY DEF VimType
  <2> QED
    BY <2>1 DEF TwoParams
<1>6. ASSUME NEW f, NEW ms PROVE VimFacts(f, ms)' <=> VimFacts(f, ms)
  BY <1>4, <1>5 DEF VimFacts
<1>7. ASSUME NEW f, NEW n, NEW m PROVE MeasuredTwice(f, n, m)' <=> MeasuredTwice(f, n, m)
  <2>1. Vdu(f, n)' = Vdu(f, n) /\ Declared(f)' = Declared(f)
    BY DEF Vdu, Declared
  <2> QED
    BY <2>1 DEF MeasuredTwice
<1>8. ASSUME NEW f, NEW ms PROVE VcaFacts(f, ms)' <=> VcaFacts(f, ms)
  BY <1>7 DEF VcaFacts
<1>9. ASSUME NEW v, NEW vm PROVE Running(v, vm)' <=> Running(v, vm)
  <2>1. VimType(v)' = VimType(v)
    BY <1>2
  <2> QED
    BY <2>1 DEF Running
<1>10. ASSUME NEW v, NEW m
       PROVE  (VimTold(v, m)' <=> VimTold(v, m)) /\ (VmTold(v, m)' <=> VmTold(v, m))
  BY <1>2, <1>9 DEF VimTold, VmTold
<1>11. ASSUME NEW v, NEW ms
       PROVE  /\ TellsAll(v, ms, EmptyVapps(v))' <=> TellsAll(v, ms, EmptyVapps(v))
              /\ TellsAll(v, ms, {})' <=> TellsAll(v, ms, {})
  BY <1>2, <1>3 DEF TellsAll
<1>12. ASSUME NEW v PROVE MayLoseAll(v)' <=> MayLoseAll(v)
  BY <1>2 DEF MayLoseAll
<1>13. ASSUME NEW v, NEW ms PROVE InfraFacts(v, ms)' <=> InfraFacts(v, ms)
  BY <1>2, <1>10, <1>11, <1>12 DEF InfraFacts
<1>14. ASSUME NEW j, NEW ms PROVE JobFacts(j, ms)' <=> JobFacts(j, ms)
  BY <1>6, <1>8, <1>13 DEF JobFacts
<1>15. Jobs' = Jobs
  BY <1>1 DEF Jobs
<1>16. ASSUME NEW r PROVE ResultsFacts(r)' <=> ResultsFacts(r)
  BY <1>14, <1>15 DEF ResultsFacts
<1>17. ASSUME NEW s, NEW r, NEW fam PROVE Exposes(s, r, fam)' <=> Exposes(s, r, fam)
  BY <1>16 DEF Exposes
<1>18. ASSUME NEW s PROVE ServedFacts(s)' <=> ServedFacts(s)
  BY <1>17 DEF ServedFacts
<1> QED
  BY <1>16, <1>18

\* One worker more.
LEMMA DoneKeeps ==
  ASSUME IInv, NEW j \in Jobs, NEW outcomes, \A ms \in outcomes : JobFacts(j, ms),
         Done(j, outcomes)
  PROVE  IInv'
<1>1. world' = world /\ failing' = failing /\ served' = served
  BY DEF Done
<1>2. PICK ms \in outcomes :
        results' = [k \in DOMAIN results \cup {j} |-> IF k = j THEN ms ELSE results[k]]
  BY DEF Done
<1>3. JobFacts(j, ms)
  OBVIOUS
<1>4. PICK after : after = results'
  OBVIOUS
<1>5. ResultsFacts(after)
  <2>1. ASSUME NEW k \in DOMAIN after PROVE JobFacts(k, after[k])
    <3>1. CASE k = j
      BY <1>2, <1>3, <1>4, <3>1
    <3>2. CASE k # j
      <4>1. k \in DOMAIN results /\ after[k] = results[k]
        BY <1>2, <1>4, <3>2
      <4> QED
        BY <4>1 DEF IInv, ResultsFacts
    <3> QED
      BY <3>1, <3>2
  <2>2. DOMAIN after \subseteq Jobs
    BY <1>2, <1>4 DEF IInv, ResultsFacts
  <2> QED
    BY <2>1, <2>2 DEF ResultsFacts
<1>6. ResultsFacts(after)' /\ ServedFacts(served)'
  <2>1. PICK s : s = served
    OBVIOUS
  <2>2. ServedFacts(s) /\ s = served'
    BY <1>1, <2>1 DEF IInv
  <2>3. ServedFacts(s)'
    BY <1>1, <2>2, FactsStay
  <2> QED
    BY <1>1, <1>5, <2>2, <2>3, FactsStay
<1> QED
  BY <1>1, <1>4, <1>6 DEF IInv

\* Nothing is collected or served.
LEMMA NothingYet ==
  ResultsFacts(NoResults) /\ ServedFacts(NoResults)
<1>1. DOMAIN NoResults = {}
  BY DEF NoResults
<1>2. ResultsFacts(NoResults)
  BY <1>1 DEF ResultsFacts
<1>3. NoResults = [j \in DOMAIN NoResults |-> Labelled(NoResults[j], {})]
  BY <1>1 DEF NoResults
<1>4. Fits({}, NoResults)
  BY <1>1, InAll DEF Fits
<1>5. Exposes(NoResults, NoResults, {})
  BY <1>2, <1>3, <1>4 DEF Exposes
<1> QED
  BY <1>2, <1>5 DEF ServedFacts

LEMMA InitFacts ==
  ASSUME Init
  PROVE  IInv
  BY NothingYet DEF Init, IInv

LEMMA VimStep ==
  ASSUME IInv, NEW f \in Vnfs, CollectVimMetrics(f)
  PROVE  IInv'
<1>1. PICK outcomes, j : outcomes = VimOutcomes(f) /\ j = <<"vim", f>>
  OBVIOUS
<1>2. j \in Jobs /\ j[1] = "vim" /\ j[2] = f
  BY <1>1 DEF Jobs
<1>3. \A ms \in outcomes : JobFacts(j, ms)
  BY <1>1, <1>2, VimReturns DEF IInv, JobFacts
<1> QED
  BY <1>1, <1>2, <1>3, DoneKeeps DEF CollectVimMetrics

LEMMA VcaStep ==
  ASSUME IInv, NEW f \in Vnfs, CollectVcaMetrics(f)
  PROVE  IInv'
<1>1. PICK outcomes, j : outcomes = VcaOutcomes(f) /\ j = <<"vca", f>>
  OBVIOUS
<1>2. j \in Jobs /\ j[1] = "vca" /\ j[2] = f
  BY <1>1 DEF Jobs
<1>3. \A ms \in outcomes : JobFacts(j, ms)
  BY <1>1, <1>2, VcaReturns DEF IInv, JobFacts
<1> QED
  BY <1>1, <1>2, <1>3, DoneKeeps DEF CollectVcaMetrics

LEMMA InfraStep ==
  ASSUME IInv, NEW v \in Vims, CollectVimInfraMetrics(v)
  PROVE  IInv'
<1>1. PICK outcomes, j : outcomes = InfraOutcomes(v) /\ j = <<"infra", v>>
  OBVIOUS
<1>2. j \in Jobs /\ j[1] = "infra" /\ j[2] = v
  BY <1>1 DEF Jobs
<1>3. \A ms \in outcomes : JobFacts(j, ms)
  BY <1>1, <1>2, InfraReturns DEF IInv, JobFacts
<1> QED
  BY <1>1, <1>2, <1>3, DoneKeeps DEF CollectVimInfraMetrics

LEMMA SdncStep ==
  ASSUME IInv, NEW s \in DOMAIN world.sdncs, CollectSdncInfraMetrics(s)
  PROVE  IInv'
<1>1. PICK outcomes, j : outcomes = SdncOutcomes(s) /\ j = <<"sdnc", s>>
  OBVIOUS
<1>2. j \in Jobs /\ j[1] = "sdnc" /\ j[2] = s
  BY <1>1 DEF Jobs
<1>3. \A ms \in outcomes : JobFacts(j, ms)
  BY <1>1, <1>2, SdncReturns DEF IInv, JobFacts
<1> QED
  BY <1>1, <1>2, <1>3, DoneKeeps DEF CollectSdncInfraMetrics

\* The exporter empties the list and serves what was in it.
LEMMA HandleStep ==
  ASSUME IInv, Handle
  PROVE  IInv'
<1>1. PICK fam \in Families : served' = Exposition(fam)
  BY DEF Handle
<1>2. world' = world /\ failing' = failing /\ results' = NoResults
  BY DEF Handle
<1>3. PICK s : s = Exposition(fam) /\ s = served'
  BY <1>1
<1>4. ResultsFacts(results) /\ Fits(fam, results)
  BY FamiliesFit DEF IInv
<1>5. ServedFacts(s)
  <2>1. Exposes(s, results, fam)
    BY <1>3, <1>4 DEF Exposes, Exposition
  <2> QED
    BY <2>1 DEF ServedFacts
<1>6. ResultsFacts(NoResults)' /\ ServedFacts(s)'
  BY <1>2, <1>5, FactsStay, NothingYet
<1>7. PICK none : none = NoResults
  OBVIOUS
<1>8. ResultsFacts(none)'
  BY <1>2, <1>7, FactsStay, NothingYet
<1> QED
  BY <1>2, <1>3, <1>6, <1>7, <1>8 DEF IInv

LEMMA HealthStep ==
  ASSUME IInv, HealthCheck
  PROVE  IInv'
<1>1. world' = world /\ failing' = failing
  BY DEF HealthCheck
<1>2. PICK none : none = NoResults
  OBVIOUS
<1>3. results' = none /\ served' = none
  BY <1>2 DEF HealthCheck
<1>4. ResultsFacts(none)' /\ ServedFacts(none)'
  BY <1>1, <1>2, FactsStay, NothingYet
<1> QED
  BY <1>1, <1>3, <1>4 DEF IInv

\* A system breaks or is repaired, or nothing happens.
LEMMA SystemStep ==
  ASSUME IInv, UNCHANGED <<world, results, served>>, failing' \subseteq failing \cup world.fallible
  PROVE  IInv'
<1>1. PICK r, s : r = results /\ s = served
  OBVIOUS
<1>2. ResultsFacts(r)' /\ ServedFacts(s)'
  BY <1>1, FactsStay DEF IInv
<1> QED
  BY <1>1, <1>2 DEF IInv

THEOREM Invariance == Spec => []IInv
<1>1. Init => IInv
  BY InitFacts
<1>2. IInv /\ [Next]_vars => IInv'
  <2>1. SUFFICES ASSUME IInv, [Next]_vars PROVE IInv'
    OBVIOUS
  <2>2. CASE Handle
    BY <2>1, <2>2, HandleStep
  <2>3. CASE \E s \in DOMAIN world.sdncs : CollectSdncInfraMetrics(s)
    BY <2>1, <2>3, SdncStep
  <2>4. CASE \E f \in Vnfs : CollectVcaMetrics(f)
    BY <2>1, <2>4, VcaStep
  <2>5. CASE \E v \in Vims : CollectVimInfraMetrics(v)
    BY <2>1, <2>5, InfraStep
  <2>6. CASE \E f \in Vnfs : CollectVimMetrics(f)
    BY <2>1, <2>6, VimStep
  <2>7. CASE HealthCheck
    BY <2>1, <2>7, HealthStep
  <2>8. CASE \E x \in world.fallible : Break(x) \/ Repair(x)
    BY <2>1, <2>8, SystemStep DEF Break, Repair
  <2>9. CASE UNCHANGED vars
    BY <2>1, <2>9, SystemStep DEF vars
  <2> QED
    BY <2>1, <2>2, <2>3, <2>4, <2>5, <2>6, <2>7, <2>8, <2>9 DEF Next, Cycle
<1> QED
  BY <1>1, <1>2, PTL DEF Spec

-----------------------------------------------------------------------------
(* What is collected and served. *)

SdncTold(m) ==
  \E s \in DOMAIN world.sdncs, b \in BOOLEAN :
    m = StatusMetric("sdnc_status", Status(s, b), [sdnc |-> s])

VduTold(m) == \E f \in Vnfs : Gathered(f, world.vnfrs[f], m)

AnyVimTold(m) == \E v \in Vims : VimTold(v, m)

AnyVmTold(m) == \E v \in Vims : VmTold(v, m)

\* A metric is a measure of a VDU, or the status of a VIM, a VM or a controller.
LEMMA Kinds ==
  ASSUME NEW r, ResultsFacts(r), NEW m \in All(r)
  PROVE  VduTold(m) \/ AnyVimTold(m) \/ AnyVmTold(m) \/ SdncTold(m)
<1>1. PICK j \in DOMAIN r : m \in ToSet(r[j])
  BY DEF All
<1>2. JobFacts(j, r[j]) /\ j \in Jobs
  BY DEF ResultsFacts
<1>3. \/ j[1] \in {"vim", "vca"} /\ j[2] \in Vnfs
      \/ j[1] = "infra" /\ j[2] \in Vims
      \/ j[1] = "sdnc" /\ j[2] \in DOMAIN world.sdncs
  BY <1>2 DEF Jobs
<1>4. CASE j[1] \in {"vim", "vca"} /\ j[2] \in Vnfs
  <2>1. AllGathered(j[2], world.vnfrs[j[2]], r[j])
    BY <1>2, <1>4 DEF JobFacts, VimFacts, VcaFacts
  <2> QED
    BY <1>1, <1>4, <2>1 DEF AllGathered, VduTold
<1>5. CASE j[1] = "infra" /\ j[2] \in Vims
  BY <1>1, <1>2, <1>5 DEF JobFacts, InfraFacts, AnyVimTold, AnyVmTold
<1>6. CASE j[1] = "sdnc" /\ j[2] \in DOMAIN world.sdncs
  BY <1>1, <1>2, <1>6 DEF JobFacts, SdncFacts, SdncTold
<1> QED
  BY <1>3, <1>4, <1>5, <1>6

\* The tags that metrics of a kind have.
LEMMA TagsOf ==
  ASSUME NEW m
  PROVE  /\ VduTold(m) => m.name \in Metric /\ {"vnf", "vdu_name"} \subseteq DOMAIN m.tags
         /\ AnyVimTold(m) => m.name = "vim_status" /\ DOMAIN m.tags = {"vim"}
         /\ AnyVmTold(m) => /\ m.name = "vm_status"
                            /\ DOMAIN m.tags = {"vim", "resource_uuid", "vnf", "vdur_name"}
         /\ SdncTold(m) => m.name = "sdnc_status" /\ DOMAIN m.tags = {"sdnc"}
<1>1. ASSUME VduTold(m) PROVE m.name \in Metric /\ {"vnf", "vdu_name"} \subseteq DOMAIN m.tags
  <2>1. PICK f \in Vnfs : Gathered(f, world.vnfrs[f], m)
    BY <1>1 DEF VduTold
  <2>2. PICK vnfr : Gathered(f, vnfr, m)
    BY <2>1
  <2>3. PICK d \in ToSet(vnfr), tag \in Tag :
          m.name \in Metric /\ m = VnfMetric(f, d.name, m.name, m.val, tag)
    BY <2>2 DEF Gathered
  <2> QED
    BY <2>3, VnfMetricFields
<1>2. ASSUME AnyVimTold(m) PROVE m.name = "vim_status" /\ DOMAIN m.tags = {"vim"}
  BY <1>2 DEF AnyVimTold, VimTold, VimStatus, StatusMetric
<1>3. ASSUME AnyVmTold(m)
      PROVE  /\ m.name = "vm_status"
             /\ DOMAIN m.tags = {"vim", "resource_uuid", "vnf", "vdur_name"}
  BY <1>3 DEF AnyVmTold, VmTold, VmStatus, StatusMetric
<1>4. ASSUME SdncTold(m) PROVE m.name = "sdnc_status" /\ DOMAIN m.tags = {"sdnc"}
  BY <1>4 DEF SdncTold, StatusMetric
<1> QED
  BY <1>1, <1>2, <1>3, <1>4

\* So the name tells the kind.
LEMMA KindByName ==
  ASSUME NEW r, ResultsFacts(r), NEW m \in All(r)
  PROVE  /\ m.name \in Metric => VduTold(m)
         /\ m.name = "vim_status" => AnyVimTold(m)
         /\ m.name = "vm_status" => AnyVmTold(m)
         /\ m.name = "sdnc_status" => SdncTold(m)
         /\ m.name \in Metric \cup {"vim_status", "vm_status", "sdnc_status"}
<1>1. VduTold(m) \/ AnyVimTold(m) \/ AnyVmTold(m) \/ SdncTold(m)
  BY Kinds
<1>2. {"vim_status", "vm_status", "sdnc_status"} \cap Metric = {}
  BY MetricPathAssumption
<1> QED
  BY <1>1, <1>2, TagsOf

\* A sample has the name and value of its metric, and as labels those of its tags that
\* the family has.
SampleOf(m, labels) ==
  [name |-> m.name, val |-> m.val, labels |-> Restrict(m.tags, labels \cap DOMAIN m.tags)]

LEMMA SampleFields ==
  ASSUME NEW m, NEW labels, NEW s, s = SampleOf(m, labels)
  PROVE  /\ DOMAIN s = {"name", "val", "labels"} /\ s.name = m.name /\ s.val = m.val
         /\ DOMAIN s.labels = labels \cap DOMAIN m.tags
         /\ \A t \in labels \cap DOMAIN m.tags : s.labels[t] = m.tags[t]
  BY DEF SampleOf, Restrict

LEMMA Samples ==
  ASSUME NEW s, NEW r, NEW fam, Exposes(s, r, fam), NEW j \in DOMAIN s, NEW i \in DOMAIN s[j]
  PROVE  /\ j \in DOMAIN r /\ i \in DOMAIN r[j] /\ r[j][i] \in All(r)
         /\ s[j][i] = SampleOf(r[j][i], LabelsIn(fam, r[j][i].name))
         /\ \E n \in All(r) : n.name = r[j][i].name /\ LabelsIn(fam, r[j][i].name) = DOMAIN n.tags
<1>1. j \in DOMAIN r /\ s[j] = Labelled(r[j], fam)
  BY DEF Exposes
<1>2. i \in DOMAIN r[j] /\ s[j][i] = SampleOf(r[j][i], LabelsIn(fam, r[j][i].name))
  BY <1>1 DEF Labelled, SampleOf, LabelsIn
<1>3. r[j][i] \in All(r)
  BY <1>1, <1>2, InAll
<1> QED
  BY <1>1, <1>2, <1>3 DEF Exposes, Fits

\* Every sample served is of a metric collected, with labels that some metric of its
\* name is tagged with.
Shows(s, r, m, n) ==
  /\ ResultsFacts(r) /\ m \in All(r) /\ n \in All(r) /\ n.name = m.name
  /\ s = SampleOf(m, DOMAIN n.tags)

LEMMA ServedShows ==
  ASSUME IInv, NEW s \in All(served)
  PROVE  \E r, m, n : Shows(s, r, m, n)
<1>1. PICK r, fam : Exposes(served, r, fam)
  BY DEF IInv, ServedFacts
<1>0. PICK j \in DOMAIN served : \E i \in DOMAIN served[j] : s = served[j][i]
  BY InAll
<1>2. PICK i \in DOMAIN served[j] : s = served[j][i]
  BY <1>0
<1>3. PICK m : m = r[j][i]
  OBVIOUS
<1>4. PICK n \in All(r) : n.name = m.name /\ LabelsIn(fam, m.name) = DOMAIN n.tags
  BY <1>1, <1>3, Samples
<1>5. m \in All(r) /\ s = SampleOf(m, LabelsIn(fam, m.name))
  BY <1>1, <1>2, <1>3, Samples
<1>6. Shows(s, r, m, n)
  BY <1>1, <1>4, <1>5 DEF Shows, Exposes
<1> QED
  BY <1>6

-----------------------------------------------------------------------------
(* The properties. *)

\* What is collected is a measure of a named vdur, or a status with its tags.
LEMMA Typed ==
  ASSUME IInv
  PROVE  TypeOK
<1>1. ASSUME NEW m \in All(results) PROVE IsVnfMetric(m) \/ IsStatus(m)
  <2>1. VduTold(m) \/ AnyVimTold(m) \/ AnyVmTold(m) \/ SdncTold(m)
    BY Kinds DEF IInv
  <2>2. CASE VduTold(m)
    <3>1. PICK f \in Vnfs : Gathered(f, world.vnfrs[f], m)
      BY <2>2 DEF VduTold
    <3>2. IsRecord(world.vnfrs[f])
      BY WorldParts DEF IInv
    <3>3. PICK vnfr : vnfr = world.vnfrs[f]
      OBVIOUS
    <3>4. PICK d \in ToSet(vnfr), tag \in Tag :
            /\ IsNamed(d) /\ m.name \in Metric
            /\ m = VnfMetric(f, d.name, m.name, m.val, tag)
      BY <3>1, <3>3 DEF Gathered
    <3> DEFINE names == {x.name : x \in ToSet(Named(vnfr))}
    <3>5. d.name \in names
      BY <3>2, <3>3, <3>4, NamedOf
    <3>6. \/ m.tags = [vnf |-> f, vdu_name |-> d.name]
          \/ tag \in Iface /\ m.tags = [vnf |-> f, vdu_name |-> d.name, interface |-> tag]
      BY <3>4 DEF VnfMetric, Tag
    <3> HIDE DEF names
    <3>7. m.tags \in [vnf : {f}, vdu_name : names]
                     \cup [vnf : {f}, vdu_name : names, interface : Iface]
      BY <3>5, <3>6
    <3> QED
      BY <3>3, <3>4, <3>7 DEF IsVnfMetric, names
  <2>3. CASE AnyVimTold(m)
    BY <2>3 DEF AnyVimTold, VimTold, VimStatus, StatusMetric, IsStatus
  <2>4. CASE AnyVmTold(m)
    <3>1. PICK v \in Vims : VmTold(v, m)
      BY <2>4 DEF AnyVmTold
    <3>2. PICK f \in VnfsOf(v) : \E d \in ToSet(world.vnfrs[f]), b \in BOOLEAN :
            IsNamed(d) /\ m = VmStatus(v, f, d, b)
      BY <3>1 DEF VmTold
    <3>5. PICK d \in ToSet(world.vnfrs[f]), b \in BOOLEAN :
            IsNamed(d) /\ m = VmStatus(v, f, d, b)
      BY <3>2
    <3>3. f \in Vnfs /\ world.vim[f] = v /\ d \in ToSet(Named(world.vnfrs[f]))
      <4>1. f \in Vnfs /\ world.vim[f] = v
        BY DEF VnfsOf
      <4>2. IsRecord(world.vnfrs[f])
        BY <4>1, WorldParts DEF IInv
      <4> QED
        BY <3>5, <4>1, <4>2, NamedOf
    <3>4. /\ m.name = "vm_status"
          /\ m.tags = [vim |-> v, vnf |-> f, vdur_name |-> d.name, resource_uuid |-> d.vm]
      BY <3>5 DEF VmStatus, StatusMetric
    <3> QED
      BY <3>3, <3>4 DEF IsStatus
  <2>5. CASE SdncTold(m)
    BY <2>5 DEF SdncTold, StatusMetric, IsStatus
  <2> QED
    BY <2>1, <2>2, <2>3, <2>4, <2>5
<1>2. ASSUME NEW s \in All(served) PROVE DOMAIN s = {"name", "val", "labels"}
  <2>1. PICK r, m, n : Shows(s, r, m, n)
    BY ServedShows
  <2> QED
    BY <2>1, SampleFields DEF Shows
<1> QED
  BY <1>1, <1>2 DEF IInv, ResultsFacts, TypeOK

\* Metrics and samples are of the kinds there are.
THEOREM TypeCorrect == Spec => []TypeOK
<1>1. IInv => TypeOK
  BY Typed
<1> QED
  BY <1>1, Invariance, PTL

\* A measure is served under the name of the vdur whose VM or charm gave it.
THEOREM Truth == Spec => []MeasuresTruthful
<1>1. ASSUME IInv, NEW s \in All(served), s.name \in Metric, NEW x \in s.val
      PROVE  /\ x.metric = s.name
             /\ \E d \in Vdu(s.labels.vnf, s.labels.vdu_name) :
                  x.src = d.vm \/ (x.src = s.labels.vnf /\ d.vdu \in MgmtVdu)
  <2>1. PICK r, m, n : Shows(s, r, m, n)
    BY <1>1, ServedShows
  <2>2. s.name = m.name /\ s.val = m.val
    BY <2>1, SampleFields DEF Shows
  <2>3. VduTold(m) /\ VduTold(n)
    BY <1>1, <2>1, <2>2, KindByName DEF Shows
  <2>4. /\ {"vnf", "vdu_name"} \subseteq DOMAIN n.tags
        /\ {"vnf", "vdu_name"} \subseteq DOMAIN m.tags
    BY <2>3, TagsOf
  <2>5. s.labels.vnf = m.tags.vnf /\ s.labels.vdu_name = m.tags.vdu_name
    <3>1. \A t \in DOMAIN n.tags \cap DOMAIN m.tags : s.labels[t] = m.tags[t]
      BY <2>1, SampleFields DEF Shows
    <3> QED
      BY <2>4, <3>1
  <2>6. PICK f \in Vnfs : Gathered(f, world.vnfrs[f], m)
    BY <2>3 DEF VduTold
  <2>7. PICK vnfr : vnfr = world.vnfrs[f]
    OBVIOUS
  <2>8. PICK d \in ToSet(vnfr), tag \in Tag :
          /\ m = VnfMetric(f, d.name, m.name, m.val, tag)
          /\ \A q \in m.val :
               q.metric = m.name /\ (q.src = d.vm \/ (q.src = f /\ d.vdu \in MgmtVdu))
    BY <2>6, <2>7 DEF Gathered
  <2>9. m.tags.vnf = f /\ m.tags.vdu_name = d.name
    BY <2>8, VnfMetricFields
  <2>10. d \in Vdu(s.labels.vnf, s.labels.vdu_name)
    BY <2>5, <2>7, <2>8, <2>9 DEF Vdu
  <2> QED
    BY <1>1, <2>2, <2>5, <2>8, <2>9, <2>10
<1>2. IInv => MeasuresTruthful
  BY <1>1 DEF MeasuresTruthful
<1> QED
  BY <1>2, Invariance, PTL

\* A VM is said to run by a sample that names it, and only if it does.
THEOREM StatusTruth == Spec => []StatusTruthful
<1>1. ASSUME IInv, NEW s \in All(served), s.name = "vm_status", NEW o \in s.val
      PROVE  o.src = s.labels.resource_uuid /\ (o.up => Running(s.labels.vim, o.src))
  <2>1. PICK r, m, n : Shows(s, r, m, n)
    BY <1>1, ServedShows
  <2>2. s.name = m.name /\ s.val = m.val
    BY <2>1, SampleFields DEF Shows
  <2>3. AnyVmTold(m) /\ AnyVmTold(n)
    BY <1>1, <2>1, <2>2, KindByName DEF Shows
  <2>4. s.labels.resource_uuid = m.tags.resource_uuid /\ s.labels.vim = m.tags.vim
    <3>1. \A t \in DOMAIN n.tags \cap DOMAIN m.tags : s.labels[t] = m.tags[t]
      BY <2>1, SampleFields DEF Shows
    <3>2. {"resource_uuid", "vim"} \subseteq DOMAIN n.tags \cap DOMAIN m.tags
      BY <2>3, TagsOf
    <3> QED
      BY <3>1, <3>2
  <2>5. PICK v, f : \E d \in ToSet(world.vnfrs[f]), b \in BOOLEAN :
          m = VmStatus(v, f, d, b) /\ (b => Running(v, d.vm))
    BY <2>3 DEF AnyVmTold, VmTold
  <2>6. PICK d \in ToSet(world.vnfrs[f]), b \in BOOLEAN :
          m = VmStatus(v, f, d, b) /\ (b => Running(v, d.vm))
    BY <2>5
  <2>7. m.tags.vim = v /\ m.tags.resource_uuid = d.vm /\ m.val = {[src |-> d.vm, up |-> b]}
    BY <2>6 DEF VmStatus, StatusMetric, Status
  <2>8. o.src = d.vm /\ o.up = b
    BY <1>1, <2>2, <2>7
  <2> QED
    BY <2>4, <2>6, <2>7, <2>8
<1>2. IInv => StatusTruthful
  BY <1>1 DEF StatusTruthful
<1> QED
  BY <1>2, Invariance, PTL

\* The statuses that a VIM's worker has to return are among its metrics: for OpenStack
\* and VIO those of the VIM and of all filled vdurs; for VMware these but for vApps
\* without VMs, or none at all if a record is incomplete or its first vApp is such.
THEOREM StatusComplete == Spec => []StatusReported
<1>1. ASSUME IInv PROVE StatusReported
  <2>1. ASSUME NEW v \in Vims, NEW j \in DOMAIN results, j = <<"infra", v>>
        PROVE  InfraFacts(v, results[j])
    <3>1. JobFacts(j, results[j]) /\ j[1] = "infra" /\ j[2] = v
      BY <1>1, <2>1 DEF IInv, ResultsFacts
    <3> QED
      BY <3>1 DEF JobFacts
  <2>2. ASSUME NEW v \in Vims, <<"infra", v>> \in DOMAIN results
        PROVE  LET ms == ToSet(results[<<"infra", v>>])
                   told == {m.tags.resource_uuid : m \in {x \in ms : x.name = "vm_status"}}
                   all(lost) == /\ "vim_status" \in {m.name : m \in ms}
                                /\ \A f \in VnfsOf(v) : VmsOf(f) \subseteq told \cup lost
               IN  CASE VimType(v) \in {"openstack", "vio"} -> all({})
                     [] VimType(v) = "vmware" ->
                          (ms = {} /\ MayLoseAll(v)) \/ all(EmptyVapps(v))
                     [] OTHER -> ms = {}
    <3>1. PICK ms : ms = results[<<"infra", v>>] /\ InfraFacts(v, ms)
      BY <2>1, <2>2
    <3> DEFINE told == {m.tags.resource_uuid : m \in {x \in ToSet(ms) : x.name = "vm_status"}}
               all(lost) == /\ "vim_status" \in {m.name : m \in ToSet(ms)}
                            /\ \A f \in VnfsOf(v) : VmsOf(f) \subseteq told \cup lost
    <3>2. ASSUME NEW lost, TellsAll(v, ms, lost) PROVE all(lost)
      BY <3>2 DEF TellsAll, IsTold
    <3>3. /\ TellsAll(v, ms, {}) => all({})
          /\ TellsAll(v, ms, EmptyVapps(v)) => all(EmptyVapps(v))
      <4> HIDE DEF all
      <4> QED
        BY <3>2
    <3>4. CASE VimType(v) \in {"openstack", "vio"}
      BY <3>1, <3>3, <3>4 DEF InfraFacts
    <3>5. CASE VimType(v) = "vmware"
      BY <3>1, <3>3, <3>5 DEF InfraFacts
    <3>6. CASE VimType(v) \notin {"openstack", "vio", "vmware"}
      BY <3>1, <3>6 DEF InfraFacts
    <3> QED
      BY <3>4, <3>5, <3>6
  <2> QED
    BY <2>2, Zenon DEF StatusReported
<1>2. IInv => StatusReported
  BY <1>1
<1> QED
  BY <1>2, Invariance, PTL

\* The VIM plugins return no metric but those the descriptor declares.
THEOREM OnlyDeclared == Spec => []DeclaredOnly
<1>1. ASSUME IInv, NEW f \in Vnfs, <<"vim", f>> \in DOMAIN results
      PROVE  Names(results[<<"vim", f>>]) \subseteq Declared(f)
  <2>1. PICK ms : ms = results[<<"vim", f>>] /\ VimFacts(f, ms)
    <3>1. PICK j \in DOMAIN results : j = <<"vim", f>>
      BY <1>1
    <3>2. JobFacts(j, results[j]) /\ j[1] = "vim" /\ j[2] = f
      BY <1>1, <3>1 DEF IInv, ResultsFacts
    <3> QED
      BY <3>1, <3>2 DEF JobFacts
  <2>2. ASSUME NEW m \in ToSet(ms) PROVE m.name \in Declared(f)
    <3>1. PICK d \in ToSet(world.vnfrs[f]) : \E p \in ToSet(ParamsOf(d)) : p.metric = m.name
      BY <2>1 DEF VimFacts, IsDeclared
    <3>2. PICK p \in ToSet(ParamsOf(d)) : p.metric = m.name
      BY <3>1
    <3>3. IsNamed(d) /\ IsMonitored(d) /\ p \in ToSet(Params[d.vdu])
      <4>1. ToSet(<<>>) = {}
        BY DEF ToSet
      <4> QED
        BY <3>2, <4>1 DEF ParamsOf, IsMonitored
    <3>4. d \in ToSet(Named(world.vnfrs[f]))
      <4>1. IsRecord(world.vnfrs[f])
        BY <1>1, MetricPathAssumption DEF IInv, IsWorld, Vnfs
      <4> QED
        BY <3>3, <4>1, NamedOf
    <3> QED
      BY <3>2, <3>3, <3>4 DEF Declared
  <2> QED
    BY <2>1, <2>2 DEF Names
<1>2. IInv => DeclaredOnly
  BY <1>1 DEF DeclaredOnly
<1> QED
  BY <1>2, Invariance, PTL

\* Only the status of a VMware account can be a sample without a value.
THEOREM NoneMissing == Spec => []ValuesPresent
<1>1. ASSUME IInv, NEW s \in All(served), s.val = NoValue
      PROVE  s.name = "vim_status" /\ VimType(s.labels.vim) = "vmware"
  <2>1. PICK r, m, n : Shows(s, r, m, n)
    BY <1>1, ServedShows
  <2>2. s.name = m.name /\ m.val = NoValue /\ n.name = m.name
    BY <1>1, <2>1, SampleFields DEF Shows
  <2>3. VduTold(m) \/ AnyVimTold(m) \/ AnyVmTold(m) \/ SdncTold(m)
    BY <2>1, Kinds DEF Shows
  <2>4. ~ VduTold(m)
    BY <2>2 DEF VduTold, Gathered
  <2>5. ~ AnyVmTold(m)
    <3>1. ASSUME AnyVmTold(m) PROVE FALSE
      <4>1. PICK v, f : \E d \in ToSet(world.vnfrs[f]), b \in BOOLEAN :
              m = VmStatus(v, f, d, b)
        BY <3>1 DEF AnyVmTold, VmTold
      <4>2. PICK d \in ToSet(world.vnfrs[f]), b \in BOOLEAN : m = VmStatus(v, f, d, b)
        BY <4>1
      <4>3. m.val = {[src |-> d.vm, up |-> b]}
        BY <4>2 DEF VmStatus, StatusMetric, Status
      <4> QED
        BY <2>2, <4>3 DEF NoValue
    <3> QED
      BY <3>1
  <2>6. ~ SdncTold(m)
    <3>1. ASSUME SdncTold(m) PROVE FALSE
      <4>1. PICK q \in DOMAIN world.sdncs, b \in BOOLEAN :
              m = StatusMetric("sdnc_status", Status(q, b), [sdnc |-> q])
        BY <3>1 DEF SdncTold
      <4>2. m.val = {[src |-> q, up |-> b]}
        BY <4>1 DEF StatusMetric, Status
      <4> QED
        BY <2>2, <4>2 DEF NoValue
    <3> QED
      BY <3>1
  <2>7. PICK v, val : m = VimStatus(v, val) /\ (val = NoValue => VimType(v) = "vmware")
    BY <2>3, <2>4, <2>5, <2>6 DEF AnyVimTold, VimTold
  <2>8. m.val = val /\ m.name = "vim_status" /\ m.tags.vim = v
    BY <2>7 DEF VimStatus, StatusMetric
  <2>9. s.labels.vim = m.tags.vim
    <3>1. AnyVimTold(m) /\ AnyVimTold(n)
      BY <2>1, <2>2, <2>8, KindByName DEF Shows
    <3>2. "vim" \in DOMAIN n.tags \cap DOMAIN m.tags
      BY <3>1, TagsOf
    <3> QED
      BY <2>1, <3>2, SampleFields DEF Shows
  <2> QED
    BY <2>2, <2>7, <2>8, <2>9
<1>2. IInv => ValuesPresent
  BY <1>1 DEF ValuesPresent
<1> QED
  BY <1>2, Invariance, PTL

-----------------------------------------------------------------------------
(* Which worker a metric is of, and which series a sample. *)

\* The name of a metric tells which worker it came from.
LEMMA FromVdu ==
  ASSUME NEW r, ResultsFacts(r), NEW j \in DOMAIN r, NEW m \in ToSet(r[j]), m.name \in Metric
  PROVE  /\ j = <<j[1], m.tags.vnf>> /\ m.tags.vnf \in Vnfs
         /\ \/ j[1] = "vim" /\ VimFacts(m.tags.vnf, r[j])
            \/ j[1] = "vca" /\ VcaFacts(m.tags.vnf, r[j])
<1>1. JobFacts(j, r[j]) /\ j \in Jobs
  BY DEF ResultsFacts
<1>2. m.name \notin {"vim_status", "vm_status", "sdnc_status"}
  BY MetricPathAssumption
<1>3. j[1] # "infra"
  <2>1. ASSUME j[1] = "infra" PROVE AnyVimTold(m) \/ AnyVmTold(m)
    BY <1>1, <2>1 DEF JobFacts, InfraFacts, Jobs, AnyVimTold, AnyVmTold
  <2> QED
    BY <1>2, <2>1, TagsOf
<1>4. ~ (j[1] = "sdnc" /\ j[2] \in DOMAIN world.sdncs)
  <2>1. ASSUME j[1] = "sdnc", j[2] \in DOMAIN world.sdncs PROVE SdncTold(m)
    BY <1>1, <2>1 DEF JobFacts, SdncFacts, SdncTold
  <2> QED
    BY <1>2, <2>1, TagsOf
<1>5. j = <<j[1], j[2]>> /\ j[1] \in {"vim", "vca"} /\ j[2] \in Vnfs
  BY <1>1, <1>3, <1>4 DEF Jobs
<1>6. /\ j[1] = "vim" => VimFacts(j[2], r[j])
      /\ j[1] = "vca" => VcaFacts(j[2], r[j])
  BY <1>1 DEF JobFacts
<1>7. Gathered(j[2], world.vnfrs[j[2]], m)
  BY <1>5, <1>6 DEF VimFacts, VcaFacts, AllGathered
<1>8. m.tags.vnf = j[2]
  <2>1. PICK f, vnfr : f = j[2] /\ Gathered(f, vnfr, m)
    BY <1>7
  <2>2. PICK d \in ToSet(vnfr), tag \in Tag : m = VnfMetric(f, d.name, m.name, m.val, tag)
    BY <2>1 DEF Gathered
  <2> QED
    BY <2>1, <2>2, VnfMetricFields
<1> QED
  BY <1>5, <1>6, <1>8

\* A sample labelled with an interface has no measure of another, but if its VDU
\* declares the metric without an interface as well.
THEOREM InterfaceTruth == Spec => []InterfaceTruthful
<1>1. ASSUME IInv, NEW s \in All(served), s.name \in Metric, "interface" \in DOMAIN s.labels
      PROVE  \/ \A q \in s.val : q.iface \in {NoIface, s.labels.interface}
             \/ \E d \in Vdu(s.labels.vnf, s.labels.vdu_name) : \E p \in ToSet(ParamsOf(d)) :
                  p.metric = s.name /\ p.iface = NoIface
  <2>1. PICK r, m, n : Shows(s, r, m, n)
    BY <1>1, ServedShows
  <2>2. s.name = m.name /\ s.val = m.val
    BY <2>1, SampleFields DEF Shows
  <2>3. /\ DOMAIN s.labels = DOMAIN n.tags \cap DOMAIN m.tags
        /\ \A t \in DOMAIN n.tags \cap DOMAIN m.tags : s.labels[t] = m.tags[t]
    BY <2>1, SampleFields DEF Shows
  <2>4. /\ "interface" \in DOMAIN m.tags /\ s.labels.interface = m.tags.interface
        /\ s.labels.vnf = m.tags.vnf /\ s.labels.vdu_name = m.tags.vdu_name
    <3>1. VduTold(m) /\ VduTold(n)
      BY <1>1, <2>1, <2>2, KindByName DEF Shows
    <3>2. {"vnf", "vdu_name"} \subseteq DOMAIN n.tags \cap DOMAIN m.tags
      BY <3>1, TagsOf
    <3> QED
      BY <1>1, <2>3, <3>2
  <2>5. PICK f : f = m.tags.vnf
    OBVIOUS
  <2>6. PICK j \in DOMAIN r : m \in ToSet(r[j])
    BY <2>1 DEF Shows, All
  <2>7. VimFacts(f, r[j]) \/ VcaFacts(f, r[j])
    BY <1>1, <2>1, <2>2, <2>5, <2>6, FromVdu DEF Shows
  <2>8. ~ VcaFacts(f, r[j])
    BY <2>4, <2>6 DEF VcaFacts
  <2>9. IsDeclared(f, m)
    BY <2>6, <2>7, <2>8 DEF VimFacts
  <2>10. PICK d \in ToSet(world.vnfrs[f]) : \E p \in ToSet(ParamsOf(d)) : OfParam(d, p, m)
    BY <2>4, <2>9 DEF IsDeclared
  <2>11. PICK p \in ToSet(ParamsOf(d)) : OfParam(d, p, m)
    BY <2>10
  <2>12. d \in Vdu(f, m.tags.vdu_name) /\ p.metric = m.name
    BY <2>11 DEF OfParam, Vdu
  <2>13. p.iface # NoIface => \A q \in m.val : q.iface \in {NoIface, m.tags.interface}
    BY <2>11 DEF OfParam
  <2> QED
    BY <2>2, <2>4, <2>5, <2>12, <2>13
<1>2. IInv => InterfaceTruthful
  BY <1>1 DEF InterfaceTruthful
<1> QED
  BY <1>2, Invariance, PTL

LEMMA FromInfra ==
  ASSUME NEW r, ResultsFacts(r), NEW j \in DOMAIN r, NEW m \in ToSet(r[j]),
         m.name \in {"vim_status", "vm_status"}
  PROVE  j = <<"infra", m.tags.vim>> /\ InfraFacts(m.tags.vim, r[j])
<1>1. JobFacts(j, r[j]) /\ j \in Jobs
  BY DEF ResultsFacts
<1>2. m.name \notin Metric
  BY MetricPathAssumption
<1>3. ~ (j[1] \in {"vim", "vca"} /\ j[2] \in Vnfs)
  <2>1. ASSUME j[1] \in {"vim", "vca"}, j[2] \in Vnfs PROVE VduTold(m)
    BY <1>1, <2>1 DEF JobFacts, VimFacts, VcaFacts, AllGathered, VduTold
  <2> QED
    BY <1>2, <2>1, TagsOf
<1>4. ~ (j[1] = "sdnc" /\ j[2] \in DOMAIN world.sdncs)
  <2>1. ASSUME j[1] = "sdnc", j[2] \in DOMAIN world.sdncs PROVE SdncTold(m)
    BY <1>1, <2>1 DEF JobFacts, SdncFacts, SdncTold
  <2> QED
    BY <2>1, TagsOf
<1>5. j = <<"infra", j[2]>> /\ InfraFacts(j[2], r[j])
  BY <1>1, <1>3, <1>4 DEF Jobs, JobFacts
<1>6. m.tags.vim = j[2]
  <2>1. VimTold(j[2], m) \/ VmTold(j[2], m)
    BY <1>5 DEF InfraFacts
  <2> QED
    BY <2>1 DEF VimTold, VmTold, VimStatus, VmStatus, StatusMetric
<1> QED
  BY <1>5, <1>6

LEMMA FromSdnc ==
  ASSUME NEW r, ResultsFacts(r), NEW j \in DOMAIN r, NEW m \in ToSet(r[j]),
         m.name = "sdnc_status"
  PROVE  j = <<"sdnc", m.tags.sdnc>> /\ SdncFacts(m.tags.sdnc, r[j])
<1>1. JobFacts(j, r[j]) /\ j \in Jobs
  BY DEF ResultsFacts
<1>2. m.name \notin Metric
  BY MetricPathAssumption
<1>3. ~ (j[1] \in {"vim", "vca"} /\ j[2] \in Vnfs)
  <2>1. ASSUME j[1] \in {"vim", "vca"}, j[2] \in Vnfs PROVE VduTold(m)
    BY <1>1, <2>1 DEF JobFacts, VimFacts, VcaFacts, AllGathered, VduTold
  <2> QED
    BY <1>2, <2>1, TagsOf
<1>4. j[1] # "infra"
  <2>1. ASSUME j[1] = "infra" PROVE AnyVimTold(m) \/ AnyVmTold(m)
    BY <1>1, <2>1 DEF JobFacts, InfraFacts, Jobs, AnyVimTold, AnyVmTold
  <2> QED
    BY <2>1, TagsOf
<1>5. j = <<"sdnc", j[2]>>
  BY <1>1, <1>3, <1>4 DEF Jobs
<1>6. SdncFacts(j[2], r[j])
  BY <1>1, <1>5 DEF JobFacts
<1>7. m.tags.sdnc = j[2]
  BY <1>6 DEF SdncFacts, StatusMetric
<1> QED
  BY <1>5, <1>6, <1>7

\* Samples that agree in labels agree in all tags that both metrics have and the family.
SameSeries(m, g, n) ==
  /\ m.name = g.name /\ n.name = g.name
  /\ DOMAIN n.tags \cap DOMAIN m.tags = DOMAIN n.tags \cap DOMAIN g.tags
  /\ \A t \in DOMAIN n.tags \cap DOMAIN m.tags : m.tags[t] = g.tags[t]

LEMMA SeriesOf ==
  ASSUME NEW m, NEW g, NEW n, m.name = g.name, n.name = g.name,
         SampleOf(m, DOMAIN n.tags).labels = SampleOf(g, DOMAIN n.tags).labels
  PROVE  SameSeries(m, g, n)
<1>1. PICK s, t : s = SampleOf(m, DOMAIN n.tags) /\ t = SampleOf(g, DOMAIN n.tags)
  OBVIOUS
<1>2. /\ DOMAIN s.labels = DOMAIN n.tags \cap DOMAIN m.tags
      /\ \A x \in DOMAIN n.tags \cap DOMAIN m.tags : s.labels[x] = m.tags[x]
  BY <1>1, SampleFields
<1>3. /\ DOMAIN t.labels = DOMAIN n.tags \cap DOMAIN g.tags
      /\ \A x \in DOMAIN n.tags \cap DOMAIN g.tags : t.labels[x] = g.tags[x]
  BY <1>1, SampleFields
<1>4. s.labels = t.labels
  BY <1>1
<1> QED
  BY <1>2, <1>3, <1>4 DEF SameSeries

LEMMA InDeclared ==
  ASSUME world \in Worlds, NEW f \in Vnfs, NEW d \in ToSet(world.vnfrs[f]),
         NEW p \in ToSet(ParamsOf(d))
  PROVE  p.metric \in Declared(f) /\ IsNamed(d) /\ IsMonitored(d) /\ p \in ToSet(Params[d.vdu])
<1>1. IsNamed(d) /\ IsMonitored(d) /\ p \in ToSet(Params[d.vdu])
  <2>1. ToSet(<<>>) = {}
    BY DEF ToSet
  <2> QED
    BY <2>1 DEF ParamsOf, IsMonitored
<1>2. d \in ToSet(Named(world.vnfrs[f]))
  <2>1. IsRecord(world.vnfrs[f])
    BY WorldParts
  <2> QED
    BY <1>1, <2>1, NamedOf
<1>3. p.metric \in Declared(f)
  BY <1>1, <1>2 DEF Declared
<1> QED
  BY <1>1, <1>3

\* A metric that a VDU declares and a charm measures.
LEMMA CharmAgain ==
  ASSUME world \in Worlds, NEW f \in Vnfs, NEW vdu_name, NEW m, IsDeclared(f, m),
         NEW r \in world.gauges, r.metric = m.name,
         GivesOf(f, world.vnfrs[f], vdu_name, r)
  PROVE  MeasuredTwice(f, vdu_name, m.name)
<1>1. PICK d \in ToSet(world.vnfrs[f]) : \E p \in ToSet(ParamsOf(d)) : p.metric = m.name
  BY DEF IsDeclared
<1>2. PICK p \in ToSet(ParamsOf(d)) : p.metric = m.name
  BY <1>1
<1>3. m.name \in Declared(f)
  BY <1>2, InDeclared
<1>4. r.src \in {f} \cup {e.vm : e \in Vdu(f, vdu_name)}
  BY DEF GivesOf, Vdu
<1> QED
  BY <1>3, <1>4 DEF MeasuredTwice

\* A metric without an interface tells that there is one of its name.
LEMMA UntaggedBy ==
  ASSUME NEW r, ResultsFacts(r), NEW n \in All(r), n.name \in Metric,
         "interface" \notin DOMAIN n.tags
  PROVE  Untagged(n.name)
<1>1. PICK l \in DOMAIN r : n \in ToSet(r[l])
  BY DEF All
<1>2. PICK f \in Vnfs : VimFacts(f, r[l]) \/ VcaFacts(f, r[l])
  BY <1>1, FromVdu
<1>3. CASE VimFacts(f, r[l])
  <2>1. IsDeclared(f, n)
    BY <1>1, <1>3 DEF VimFacts
  <2>2. PICK d \in ToSet(world.vnfrs[f]) : \E p \in ToSet(ParamsOf(d)) :
          /\ p.metric = n.name
          /\ VimType(world.vim[f]) = "openstack" => OfParam(d, p, n)
    BY <2>1 DEF IsDeclared
  <2>3. PICK p \in ToSet(ParamsOf(d)) :
          /\ p.metric = n.name
          /\ VimType(world.vim[f]) = "openstack" => OfParam(d, p, n)
    BY <2>2
  <2>4. VimType(world.vim[f]) = "openstack" => p.iface = NoIface
    BY <2>3 DEF OfParam
  <2> QED
    BY <2>3, <2>4 DEF Untagged
<1>4. CASE VcaFacts(f, r[l])
  <2>1. PICK q \in world.gauges : q.metric = n.name
    BY <1>1, <1>4 DEF VcaFacts
  <2> QED
    BY <2>1 DEF Untagged
<1> QED
  BY <1>2, <1>3, <1>4

\* Two metrics of parameters of one vdur, in one series.
LEMMA ParamsApart ==
  ASSUME NEW r, ResultsFacts(r), NEW m, NEW g, NEW n \in All(r), SameSeries(m, g, n),
         m.name \in Metric, NEW f, TwoParams(f, m, g),
         NEW labels, labels \subseteq DOMAIN n.tags
  PROVE  DeclaredTwice(f, m.tags.vdu_name, m.name, labels)
<1>1. PICK vdu_name, metric : vdu_name = m.tags.vdu_name /\ metric = m.name
  OBVIOUS
<1>2. PICK d \in ToSet(world.vnfrs[f]) : \E x, y \in DOMAIN ParamsOf(d) :
        x # y /\ OfParam(d, ParamsOf(d)[x], m) /\ OfParam(d, ParamsOf(d)[y], g)
  BY DEF TwoParams
<1>3. PICK x \in DOMAIN ParamsOf(d), y \in DOMAIN ParamsOf(d) :
        x # y /\ OfParam(d, ParamsOf(d)[x], m) /\ OfParam(d, ParamsOf(d)[y], g)
  BY <1>2
<1>4. PICK p, q : p = ParamsOf(d)[x] /\ q = ParamsOf(d)[y]
  OBVIOUS
<1>5. d \in Vdu(f, vdu_name) /\ p.metric = metric /\ q.metric = metric
  BY <1>1, <1>2, <1>3, <1>4 DEF OfParam, Vdu, SameSeries
<1>6. ASSUME p.iface # NoIface, q.iface # NoIface, p.iface # q.iface
      PROVE  "interface" \notin labels /\ Untagged(metric)
  <2>1. /\ "interface" \in DOMAIN m.tags /\ m.tags.interface = p.iface
        /\ "interface" \in DOMAIN g.tags /\ g.tags.interface = q.iface
    BY <1>3, <1>4, <1>6 DEF OfParam
  <2>2. "interface" \notin DOMAIN n.tags
    BY <1>6, <2>1 DEF SameSeries
  <2>3. Untagged(n.name)
    BY <2>2, UntaggedBy DEF SameSeries
  <2> QED
    BY <1>1, <2>2, <2>3 DEF SameSeries
<1>7. \/ p.iface = q.iface
      \/ NoIface \in {p.iface, q.iface}
      \/ "interface" \notin labels /\ Untagged(metric)
  BY <1>6
<1>8. DeclaredTwice(f, vdu_name, metric, labels)
  BY <1>3, <1>4, <1>5, <1>7 DEF DeclaredTwice, TwoParams
<1> QED
  BY <1>1, <1>8

\* Two metrics of a cycle with one name and the same labels are declared or measured
\* twice, or of a vApp without VMs.
LEMMA VduApart ==
  ASSUME world \in Worlds, NEW r, ResultsFacts(r), NEW j \in DOMAIN r, NEW k \in DOMAIN r,
         NEW i \in DOMAIN r[j], NEW h \in DOMAIN r[k], <<j, i>> # <<k, h>>,
         NEW n \in All(r), SameSeries(r[j][i], r[k][h], n), r[j][i].name \in Metric
  PROVE  LET L == DOMAIN n.tags \cap DOMAIN r[j][i].tags IN
         \/ DeclaredTwice(r[j][i].tags.vnf, r[j][i].tags.vdu_name, r[j][i].name, L)
         \/ MeasuredTwice(r[j][i].tags.vnf, r[j][i].tags.vdu_name, r[j][i].name)
<1>1. PICK m, g : m = r[j][i] /\ g = r[k][h]
  OBVIOUS
<1>2. /\ m \in ToSet(r[j]) /\ g \in ToSet(r[k]) /\ m.name \in Metric /\ g.name = m.name
      /\ m \in All(r) /\ g \in All(r) /\ n.name = m.name
  BY <1>1, InAll DEF ToSet, SameSeries
<1>3. VduTold(m) /\ VduTold(g) /\ VduTold(n)
  BY <1>2, KindByName
<1>4. m.tags.vnf = g.tags.vnf /\ m.tags.vdu_name = g.tags.vdu_name
  <2>1. /\ {"vnf", "vdu_name"} \subseteq DOMAIN m.tags
        /\ {"vnf", "vdu_name"} \subseteq DOMAIN n.tags
    BY <1>3, TagsOf
  <2> QED
    BY <1>1, <2>1 DEF SameSeries
<1>5. PICK f, vdu_name, labels : /\ f = m.tags.vnf /\ vdu_name = m.tags.vdu_name
                                 /\ labels = DOMAIN n.tags \cap DOMAIN m.tags
  OBVIOUS
<1>6. /\ j = <<j[1], f>> /\ f \in Vnfs
      /\ (j[1] = "vim" /\ VimFacts(f, r[j])) \/ (j[1] = "vca" /\ VcaFacts(f, r[j]))
  BY <1>2, <1>5, FromVdu
<1>7. /\ k = <<k[1], f>>
      /\ (k[1] = "vim" /\ VimFacts(f, r[k])) \/ (k[1] = "vca" /\ VcaFacts(f, r[k]))
  BY <1>2, <1>4, <1>5, FromVdu
<1>8. CASE j = k /\ VimFacts(f, r[j])
  <2>1. TwoParams(f, m, g)
    BY <1>1, <1>2, <1>4, <1>8 DEF VimFacts
  <2>2. DeclaredTwice(f, m.tags.vdu_name, m.name, labels)
    BY <1>1, <1>2, <1>5, <2>1, ParamsApart
  <2> QED
    BY <1>1, <1>5, <2>2
<1>9. CASE j = k /\ VcaFacts(f, r[j])
  <2>1. MeasuredTwice(f, m.tags.vdu_name, m.name)
    BY <1>1, <1>2, <1>4, <1>9 DEF VcaFacts
  <2> QED
    BY <1>1, <1>5, <2>1
<1>10. ASSUME NEW a, NEW b, a.name = m.name, b.name = m.name, b.tags.vdu_name = vdu_name,
              NEW as, NEW bs, a \in ToSet(as), b \in ToSet(bs), VimFacts(f, as), VcaFacts(f, bs)
       PROVE  MeasuredTwice(f, vdu_name, m.name)
  <2>1. PICK q \in world.gauges :
          q.metric = m.name /\ GivesOf(f, world.vnfrs[f], vdu_name, q)
    BY <1>10 DEF VcaFacts
  <2>2. IsDeclared(f, a)
    BY <1>10 DEF VimFacts
  <2>3. MeasuredTwice(f, vdu_name, a.name)
    BY <1>6, <1>10, <2>1, <2>2, CharmAgain
  <2> QED
    BY <1>10, <2>3
<1>11. CASE VimFacts(f, r[j]) /\ VcaFacts(f, r[k])
  <2>1. MeasuredTwice(f, vdu_name, m.name)
    BY <1>2, <1>4, <1>5, <1>10, <1>11
  <2> QED
    BY <1>1, <1>5, <2>1
<1>12. CASE VcaFacts(f, r[j]) /\ VimFacts(f, r[k])
  <2>1. MeasuredTwice(f, vdu_name, m.name)
    BY <1>2, <1>5, <1>10, <1>12
  <2> QED
    BY <1>1, <1>5, <2>1
<1> QED
  BY <1>6, <1>7, <1>8, <1>9, <1>11, <1>12

LEMMA StatusApart ==
  ASSUME world \in Worlds, NEW r, ResultsFacts(r), NEW j \in DOMAIN r, NEW k \in DOMAIN r,
         NEW i \in DOMAIN r[j], NEW h \in DOMAIN r[k], <<j, i>> # <<k, h>>,
         NEW n \in All(r), SameSeries(r[j][i], r[k][h], n), r[j][i].name \notin Metric
  PROVE  /\ r[j][i].name = "vm_status"
         /\ <<>> \in Range(world.vims[r[j][i].tags.vim].vapps)
<1>1. PICK m, g : m = r[j][i] /\ g = r[k][h]
  OBVIOUS
<1>2. /\ m \in ToSet(r[j]) /\ g \in ToSet(r[k]) /\ m.name \notin Metric /\ g.name = m.name
      /\ m \in All(r) /\ g \in All(r) /\ n.name = m.name
  BY <1>1, InAll DEF ToSet, SameSeries
<1>3. m.name \in {"vim_status", "vm_status", "sdnc_status"}
  BY <1>2, KindByName
<1>4. CASE m.name \in {"vim_status", "vm_status"}
  <2>0. m.tags.vim = g.tags.vim
    <3>1. "vim" \in DOMAIN m.tags /\ "vim" \in DOMAIN n.tags
      <4>1. \/ AnyVimTold(m) /\ AnyVimTold(n)
            \/ AnyVmTold(m) /\ AnyVmTold(n)
        BY <1>2, <1>4, KindByName
      <4> QED
        BY <4>1, TagsOf
    <3> QED
      BY <1>1, <3>1 DEF SameSeries
  <2>1. j = k /\ InfraFacts(m.tags.vim, r[j])
    BY <1>2, <1>4, <2>0, FromInfra
  <2>2. m.name = "vm_status"
    BY <1>1, <1>2, <1>4, <2>1 DEF InfraFacts
  <2>3. m.tags = g.tags
    <3>1. AnyVmTold(m) /\ AnyVmTold(g) /\ AnyVmTold(n)
      BY <1>2, <2>2, KindByName
    <3>2. DOMAIN m.tags = DOMAIN n.tags /\ DOMAIN g.tags = DOMAIN n.tags
      BY <3>1, TagsOf
    <3>3. /\ m.tags = [x \in DOMAIN m.tags |-> m.tags[x]]
          /\ g.tags = [x \in DOMAIN g.tags |-> g.tags[x]]
      <4>1. ASSUME NEW x, AnyVmTold(x) PROVE x.tags = [t \in DOMAIN x.tags |-> x.tags[t]]
        <5>1. PICK v, f : \E d \in ToSet(world.vnfrs[f]), b \in BOOLEAN :
                x = VmStatus(v, f, d, b)
          BY <4>1 DEF AnyVmTold, VmTold
        <5>2. PICK d \in ToSet(world.vnfrs[f]), b \in BOOLEAN : x = VmStatus(v, f, d, b)
          BY <5>1
        <5>3. x.tags = [vim |-> v, resource_uuid |-> d.vm, vnf |-> f, vdur_name |-> d.name]
          BY <5>2 DEF VmStatus, StatusMetric
        <5> QED
          BY <5>3
      <4> QED
        BY <3>1, <4>1
    <3>4. \A x \in DOMAIN n.tags : m.tags[x] = g.tags[x]
      BY <1>1, <3>2 DEF SameSeries
    <3> QED
      BY <3>2, <3>3, <3>4
  <2>4. ~ Apart(r[j])
    BY <1>1, <1>2, <2>1, <2>3 DEF Apart
  <2> QED
    BY <1>1, <2>1, <2>2, <2>4 DEF InfraFacts
<1>5. CASE m.name = "sdnc_status"
  <2>1. /\ j = <<"sdnc", m.tags.sdnc>> /\ SdncFacts(m.tags.sdnc, r[j])
        /\ k = <<"sdnc", g.tags.sdnc>>
    BY <1>2, <1>5, FromSdnc
  <2>2. m.tags.sdnc = g.tags.sdnc
    <3>1. SdncTold(m) /\ SdncTold(n)
      BY <1>2, <1>5, KindByName
    <3>2. DOMAIN m.tags = {"sdnc"} /\ DOMAIN n.tags = {"sdnc"}
      BY <3>1, TagsOf
    <3> QED
      BY <1>1, <3>2 DEF SameSeries
  <2> QED
    BY <2>1, <2>2 DEF SdncFacts
<1> QED
  BY <1>3, <1>4, <1>5

\* No two samples are of one series, those of different accounts included, but where
\* the VDU they name declares the metric twice, or charms measure it twice or what is
\* declared, or for vApps without VMs.
THEOREM Distinct == Spec => []SeriesDistinct
<1>1. ASSUME IInv, NEW j \in DOMAIN served, NEW k \in DOMAIN served,
             NEW i \in DOMAIN served[j], NEW h \in DOMAIN served[k], <<j, i>> # <<k, h>>,
             served[j][i].name = served[k][h].name, served[j][i].labels = served[k][h].labels
      PROVE  LET s == served[j][i]  L == s.labels IN
             \/ s.name = "vm_status" /\ <<>> \in Range(world.vims[L.vim].vapps)
             \/ /\ s.name \in Metric
                /\ \/ DeclaredTwice(L.vnf, L.vdu_name, s.name, DOMAIN L)
                   \/ MeasuredTwice(L.vnf, L.vdu_name, s.name)
  <2>1. PICK r, fam : Exposes(served, r, fam)
    BY <1>1 DEF IInv, ServedFacts
  <2>2. PICK m, g : m = r[j][i] /\ g = r[k][h]
    OBVIOUS
  <2>3. /\ j \in DOMAIN r /\ i \in DOMAIN r[j] /\ m \in All(r)
        /\ served[j][i] = SampleOf(m, LabelsIn(fam, m.name))
    BY <2>1, <2>2, Samples
  <2>4. /\ k \in DOMAIN r /\ h \in DOMAIN r[k] /\ g \in All(r)
        /\ served[k][h] = SampleOf(g, LabelsIn(fam, g.name))
    BY <2>1, <2>2, Samples
  <2>5. served[j][i].name = m.name /\ served[k][h].name = g.name
    BY <2>3, <2>4, SampleFields
  <2>6. PICK n \in All(r) : n.name = m.name /\ LabelsIn(fam, m.name) = DOMAIN n.tags
    BY <2>1, <2>2, Samples
  <2>7. SameSeries(m, g, n)
    <3>1. m.name = g.name
      BY <1>1, <2>5
    <3>2. SampleOf(m, DOMAIN n.tags).labels = SampleOf(g, DOMAIN n.tags).labels
      BY <1>1, <2>3, <2>4, <2>6, <3>1
    <3> QED
      BY <2>6, <3>1, <3>2, SeriesOf
  <2>8. ResultsFacts(r) /\ world \in Worlds
    BY <1>1, <2>1 DEF Exposes, IInv
  <2>9. PICK s : s = served[j][i] /\ s = SampleOf(m, DOMAIN n.tags)
    BY <2>3, <2>6
  <2>10. /\ DOMAIN s.labels = DOMAIN n.tags \cap DOMAIN m.tags
         /\ \A t \in DOMAIN n.tags \cap DOMAIN m.tags : s.labels[t] = m.tags[t]
    BY <2>9, SampleFields
  <2>11. CASE m.name \in Metric
    <3>1. LET L == DOMAIN n.tags \cap DOMAIN m.tags IN
          \/ DeclaredTwice(m.tags.vnf, m.tags.vdu_name, m.name, L)
          \/ MeasuredTwice(m.tags.vnf, m.tags.vdu_name, m.name)
      BY <1>1, <2>2, <2>3, <2>4, <2>7, <2>8, <2>11, VduApart
    <3>2. s.labels.vnf = m.tags.vnf /\ s.labels.vdu_name = m.tags.vdu_name
      <4>1. VduTold(m) /\ VduTold(n)
        BY <2>3, <2>6, <2>8, <2>11, KindByName
      <4>2. {"vnf", "vdu_name"} \subseteq DOMAIN n.tags \cap DOMAIN m.tags
        BY <4>1, TagsOf
      <4> QED
        BY <2>10, <4>2
    <3> QED
      BY <2>5, <2>9, <2>10, <2>11, <3>1, <3>2
  <2>12. CASE m.name \notin Metric
    <3>1. m.name = "vm_status" /\ <<>> \in Range(world.vims[m.tags.vim].vapps)
      BY <1>1, <2>2, <2>3, <2>4, <2>7, <2>8, <2>12, StatusApart
    <3>2. s.labels.vim = m.tags.vim
      <4>1. AnyVmTold(m) /\ AnyVmTold(n)
        BY <2>3, <2>6, <2>8, <3>1, KindByName
      <4>2. "vim" \in DOMAIN n.tags \cap DOMAIN m.tags
        BY <4>1, TagsOf
      <4> QED
        BY <2>10, <4>2
    <3> QED
      BY <2>5, <2>9, <3>1, <3>2
  <2> QED
    BY <2>11, <2>12
<1>2. IInv => SeriesDistinct
  BY <1>1 DEF SeriesDistinct
<1> QED
  BY <1>2, Invariance, PTL

-----------------------------------------------------------------------------
(* What a worker leaves out. *)

\* The parameters of a VNF that its plugin gets all have a metric.
Wanted(f, ms) ==
  \A w \in Measured(f) : \E m \in ToSet(ms) : m.name = w.param.metric /\ m.tags.vdu_name = w.name

\* What makes a parameter one of these.
IsMeasured(f, w, d, r) ==
  LET type == VimType(world.vim[f])
      acc == world.vims[world.vim[f]]
  IN  /\ w \in ToSet(Work(world.vnfrs[f])) /\ w.param \in ToSet(ParamsOf(d))
      /\ d \in ToSet(world.vnfrs[f]) /\ IsNamed(d) /\ d.name = w.name
      /\ r \in acc.measured /\ IsReading(r) /\ r.src = d.vm /\ r.metric = w.param.metric
      /\ r.iface \in IF type = "openstack" THEN Interfaces(w.param) ELSE {NoIface}
      /\ type # "openstack" =>
           /\ d.vm \in acc.listed
           /\ w.param.metric \in MonitoringKeys(Params[Last(Named(world.vnfrs[f])).vdu])
      /\ type \notin {"openstack", "vio"} => d.vm \in acc.resolved

LEMMA MeasuredOf ==
  ASSUME world \in Worlds, NEW f \in Vnfs, NEW w \in Measured(f)
  PROVE  \E d, r : IsMeasured(f, w, d, r)
<1>1. PICK type, acc : type = VimType(world.vim[f]) /\ acc = world.vims[world.vim[f]]
  OBVIOUS
<1>2. w \in ToSet(Work(world.vnfrs[f]))
  BY DEF Measured
<1>3. PICK vnfr : vnfr = world.vnfrs[f] /\ IsRecord(vnfr)
  BY WorldParts
<1>4. PICK d \in ToSet(vnfr) : IsNamed(d) /\ d.name = w.name /\ w.param \in ToSet(ParamsOf(d))
  <2>1. PICK x \in ToSet(vnfr) : \E p \in ToSet(ParamsOf(x)) :
          IsNamed(x) /\ w.name = x.name /\ w.param = p
    BY <1>2, <1>3, WorkOfRecord
  <2> QED
    BY <2>1
<1>5. Vdu(f, w.name) = {d}
  <2>1. ASSUME NEW x \in ToSet(vnfr), x.name = d.name PROVE x = d
    BY <1>3, <1>4, <2>1 DEF IsRecord, ToSet
  <2> QED
    BY <1>3, <1>4, <2>1 DEF Vdu
<1>6. (CHOOSE x \in Vdu(f, w.name) : TRUE) = d
  BY <1>5
<1>7. PICK r \in acc.measured :
        /\ r.src = d.vm /\ r.metric = w.param.metric
        /\ r.iface \in IF type = "openstack" THEN Interfaces(w.param) ELSE {NoIface}
  BY <1>1, <1>6 DEF Measured
<1>8. \/ type = "openstack"
      \/ /\ w.param.metric \in MonitoringKeys(Params[Last(Named(world.vnfrs[f])).vdu])
         /\ d.vm \in acc.listed /\ (type = "vio" \/ d.vm \in acc.resolved)
  BY <1>1, <1>6 DEF Measured
<1>9. IsReading(r)
  BY <1>1, <1>7, WorldParts DEF IsAccount
<1>10. IsMeasured(f, w, d, r)
  BY <1>1, <1>2, <1>3, <1>4, <1>7, <1>8, <1>9 DEF IsMeasured
<1> QED
  BY <1>10

\* OpenStack's plugin, with Gnocchi.
LEMMA OpenstackAll ==
  ASSUME world \in Worlds, NEW f \in Vnfs, Complete(world.vnfrs[f]),
         VimType(world.vim[f]) = "openstack", Declared(f) \subseteq Mapped
  PROVE  Wanted(f, OpenstackMetrics(f, world.vnfrs[f], "gnocchi",
                                    world.vims[world.vim[f]].measured))
<1>1. PICK vnfr, measured :
        vnfr = world.vnfrs[f] /\ measured = world.vims[world.vim[f]].measured
  OBVIOUS
<1>2. PICK ms : ms = OpenstackMetrics(f, vnfr, "gnocchi", measured)
  OBVIOUS
<1>3. IsRecord(vnfr) /\ Complete(vnfr)
  BY <1>1, WorldParts
<1>4. ASSUME NEW x \in ToSet(Work(vnfr)) PROVE x.param.metric \in Mapped
  <2>1. PICK d \in ToSet(vnfr) : \E p \in ToSet(ParamsOf(d)) : x.param = p
    BY <1>3, WorkOfRecord
  <2>2. x.param.metric \in Declared(f)
    BY <1>1, <2>1, InDeclared
  <2> QED
    BY <2>2
<1>5. ASSUME NEW w \in Measured(f)
      PROVE  \E m \in ToSet(ms) : m.name = w.param.metric /\ m.tags.vdu_name = w.name
  <2>1. PICK d, r : IsMeasured(f, w, d, r)
    BY MeasuredOf
  <2>2. /\ w \in ToSet(Work(vnfr)) /\ d \in ToSet(vnfr) /\ d.name = w.name
        /\ r \in measured /\ IsReading(r) /\ r.src = d.vm /\ r.metric = w.param.metric
        /\ r.iface \in Interfaces(w.param)
    BY <1>1, <2>1 DEF IsMeasured
  <2> QED
    BY <1>2, <1>3, <1>4, <2>2, OpenstackCollects
<1> QED
  BY <1>1, <1>2, <1>5 DEF Wanted

\* The plugins of vROPS.
LEMMA VropsAll ==
  ASSUME world \in Worlds, NEW f \in Vnfs, VimType(world.vim[f]) # "openstack",
         IsMonitored(Last(Named(world.vnfrs[f]))), NEW resolved,
         \A d \in ToSet(world.vnfrs[f]) :
           IsNamed(d) /\ (VimType(world.vim[f]) # "vio" =>
                            d.vm \in world.vims[world.vim[f]].resolved) => d.vm \in resolved
  PROVE  Wanted(f, VropsMetrics(f, world.vnfrs[f], resolved,
                                world.vims[world.vim[f]].listed,
                                world.vims[world.vim[f]].measured))
<1>1. PICK vnfr, acc : vnfr = world.vnfrs[f] /\ acc = world.vims[world.vim[f]]
  OBVIOUS
<1>2. PICK measured, listed : measured = acc.measured /\ listed = acc.listed
  OBVIOUS
<1>3. PICK ms : ms = VropsMetrics(f, vnfr, resolved, listed, measured)
  OBVIOUS
<1>4. IsRecord(vnfr) /\ IsFiniteSet(measured) /\ IsMonitored(Last(Named(vnfr)))
  BY <1>1, <1>2, WorldParts DEF IsAccount
<1>5. ASSUME NEW w \in Measured(f)
      PROVE  \E m \in ToSet(ms) : m.name = w.param.metric /\ m.tags.vdu_name = w.name
  <2>1. PICK d, r : IsMeasured(f, w, d, r)
    BY MeasuredOf
  <2>2. /\ w.param \in ToSet(ParamsOf(d)) /\ d \in ToSet(vnfr) /\ IsNamed(d) /\ d.name = w.name
        /\ r \in measured /\ IsReading(r) /\ r.src = d.vm /\ r.metric = w.param.metric
        /\ r.iface = NoIface /\ d.vm \in listed /\ d.vm \in resolved
        /\ r.metric \in MonitoringKeys(Params[Last(Named(vnfr)).vdu])
    BY <1>1, <1>2, <2>1 DEF IsMeasured
  <2>3. IsMonitored(d)
    BY <1>1, <2>2, InDeclared
  <2>4. \E m \in ToSet(ms) : m.name = r.metric /\ m.tags.vdu_name = d.name
    BY <1>3, <1>4, <2>2, <2>3, VropsCollects
  <2> QED
    BY <2>2, <2>4
<1> QED
  BY <1>1, <1>2, <1>3, <1>5 DEF Wanted

\* A system that does not fail gives all it is asked for.
LEMMA AllAnswered ==
  ASSUME NEW x, x \notin failing, NEW asked, NEW got \in Answers(x, asked)
  PROVE  got = asked
BY DEF Answers

LEMMA VimCollects ==
  ASSUME world \in Worlds, NEW f \in Vnfs, Reached(f), Collectable(f), NEW ms \in VimOutcomes(f)
  PROVE  Wanted(f, ms)
<1>0. PICK t, a, b, c : /\ t = VimType(world.vim[f]) /\ a = OpenstackOutcomes(f)
                        /\ b = VmwareOutcomes(f) /\ c = VioOutcomes(f)
  OBVIOUS
<1>1. ms \in CASE t = "openstack" -> a
               [] t = "vmware" -> b
               [] t = "vio" -> c
               [] OTHER -> {<<>>}
  BY <1>0 DEF VimOutcomes
<1>2. PICK acc, v : acc = world.vims[v] /\ v = world.vim[f]
  OBVIOUS
<1>3. <<"vim", v>> \notin failing /\ <<"vrops", v>> \notin failing
  BY <1>2 DEF Reached
<1>4. \/ /\ t = "openstack" /\ acc.backends = {"gnocchi"}
         /\ Complete(world.vnfrs[f]) /\ Declared(f) \subseteq Mapped
      \/ /\ t \in {"vmware", "vio"} /\ acc.vrops_site
         /\ IsMonitored(Last(Named(world.vnfrs[f])))
  BY <1>0, <1>2 DEF Collectable
<1>5. ASSUME NEW resolved, ms \in VropsOutcomes(f, resolved), acc.vrops_site
      PROVE  ms = VropsMetrics(f, world.vnfrs[f], resolved, acc.listed, acc.measured)
  <2>1. PICK got \in Answers(<<"vrops", v>>, acc.measured) :
          ms = VropsMetrics(f, world.vnfrs[f], resolved, acc.listed, got)
    BY <1>2, <1>5 DEF VropsOutcomes
  <2>2. got = acc.measured
    BY <1>3, <2>1, AllAnswered
  <2> QED
    BY <2>1, <2>2
<1>6. CASE /\ t = "openstack" /\ acc.backends = {"gnocchi"}
           /\ Complete(world.vnfrs[f]) /\ Declared(f) \subseteq Mapped
  <2>1. ms \in a
    BY <1>1, <1>6
  <2>2. PICK backends \in Answers(<<"vim", v>>, acc.backends),
             got \in Answers(<<"vim", v>>, acc.measured) :
          ms = IF backends = {} THEN <<>>
               ELSE OpenstackMetrics(f, world.vnfrs[f], Backend(backends), got)
    BY <1>0, <1>2, <2>1 DEF OpenstackOutcomes
  <2>3. backends = {"gnocchi"} /\ got = acc.measured
    BY <1>3, <1>6, AllAnswered
  <2>4. backends # {} /\ Backend(backends) = "gnocchi"
    BY <2>3 DEF Backend
  <2>5. ms = OpenstackMetrics(f, world.vnfrs[f], "gnocchi", acc.measured)
    BY <2>2, <2>3, <2>4
  <2> QED
    BY <1>0, <1>2, <1>6, <2>5, OpenstackAll
<1>7. CASE /\ t \in {"vmware", "vio"} /\ acc.vrops_site
           /\ IsMonitored(Last(Named(world.vnfrs[f])))
  <2>1. CASE t = "vmware"
    <3>1. ms \in b
      BY <1>1, <2>1
    <3>2. PICK resolved \in Answers(<<"vim", v>>, acc.resolved) : ms \in VropsOutcomes(f, resolved)
      BY <1>0, <1>2, <3>1 DEF VmwareOutcomes
    <3>3. resolved = acc.resolved
      BY <1>3, <3>2, AllAnswered
    <3>4. ms = VropsMetrics(f, world.vnfrs[f], acc.resolved, acc.listed, acc.measured)
      BY <1>5, <1>7, <3>2, <3>3
    <3>5. VimType(world.vim[f]) # "openstack" /\ VimType(world.vim[f]) # "vio"
      BY <1>0, <2>1
    <3> QED
      BY <1>2, <1>7, <3>4, <3>5, VropsAll
  <2>2. CASE t = "vio"
    <3>1. ms \in c
      BY <1>1, <2>2
    <3>2. ms = VropsMetrics(f, world.vnfrs[f], VmsOf(f), acc.listed, acc.measured)
      BY <1>0, <1>5, <1>7, <3>1 DEF VioOutcomes
    <3>3. \A d \in ToSet(world.vnfrs[f]) : IsNamed(d) => d.vm \in VmsOf(f)
      <4>1. IsRecord(world.vnfrs[f])
        BY WorldParts
      <4> QED
        BY <4>1, NamedOf DEF VmsOf
    <3>4. VimType(world.vim[f]) # "openstack"
      BY <1>0, <2>2
    <3> QED
      BY <1>2, <1>7, <3>2, <3>3, <3>4, VropsAll
  <2> QED
    BY <1>7, <2>1, <2>2
<1> QED
  BY <1>4, <1>6, <1>7

\* What is new among the results is what its worker returned.
LEMMA NewResult ==
  ASSUME Next, NEW j, j \in DOMAIN results' \ DOMAIN results
  PROVE  /\ \A f : j = <<"vim", f>> => f \in Vnfs /\ results'[j] \in VimOutcomes(f)
         /\ \A f : j = <<"vca", f>> => f \in Vnfs /\ results'[j] \in VcaOutcomes(f)
<1>1. ASSUME NEW k, NEW outcomes, Done(k, outcomes) PROVE j = k /\ results'[j] \in outcomes
  BY <1>1 DEF Done
<1>2. CASE Handle \/ HealthCheck
  BY <1>2 DEF Handle, HealthCheck, NoResults
<1>3. CASE \E x \in world.fallible : Break(x) \/ Repair(x)
  BY <1>3 DEF Break, Repair
<1>4. CASE \E s \in DOMAIN world.sdncs : CollectSdncInfraMetrics(s)
  BY <1>1, <1>4 DEF CollectSdncInfraMetrics
<1>5. CASE \E v \in Vims : CollectVimInfraMetrics(v)
  BY <1>1, <1>5 DEF CollectVimInfraMetrics
<1>6. CASE \E g \in Vnfs : CollectVcaMetrics(g)
  <2>1. PICK g \in Vnfs : Done(<<"vca", g>>, VcaOutcomes(g))
    BY <1>6 DEF CollectVcaMetrics
  <2>2. j = <<"vca", g>> /\ results'[j] \in VcaOutcomes(g)
    BY <1>1, <2>1
  <2> QED
    BY <2>2
<1>7. CASE \E g \in Vnfs : CollectVimMetrics(g)
  <2>1. PICK g \in Vnfs : Done(<<"vim", g>>, VimOutcomes(g))
    BY <1>7 DEF CollectVimMetrics
  <2>2. j = <<"vim", g>> /\ results'[j] \in VimOutcomes(g)
    BY <1>1, <2>1
  <2> QED
    BY <2>2
<1> QED
  BY <1>2, <1>3, <1>4, <1>5, <1>6, <1>7 DEF Next, Cycle

Collects ==
  \A f \in Vnfs :
    (<<"vim", f>> \in DOMAIN results' \ DOMAIN results /\ Reached(f) /\ Collectable(f)) =>
      \A w \in Measured(f) : \E m \in ToSet(results'[<<"vim", f>>]) :
        m.name = w.param.metric /\ m.tags.vdu_name = w.name

\* A plugin whose systems answer gets every parameter that the property says it can,
\* whatever fails for other accounts.
THEOREM AllCollected == Spec => DeclaredCollected
<1>1. ASSUME IInv, Next, NEW f \in Vnfs, <<"vim", f>> \in DOMAIN results' \ DOMAIN results,
             Reached(f), Collectable(f)
      PROVE  Wanted(f, results'[<<"vim", f>>])
  <2>1. PICK ms : ms = results'[<<"vim", f>>] /\ ms \in VimOutcomes(f)
    BY <1>1, NewResult
  <2>2. Wanted(f, ms)
    BY <1>1, <2>1, VimCollects DEF IInv
  <2> QED
    BY <2>1, <2>2
<1>2. IInv /\ Next => Collects
  BY <1>1 DEF Collects, Wanted
<1>3. DeclaredCollected <=> [][Collects]_vars
  BY DEF DeclaredCollected, Collects
<1>4. Spec => [][Next]_vars
  BY PTL DEF Spec
<1> QED
  BY <1>2, <1>3, <1>4, Invariance, PTL

CharmsAsked ==
  \A f \in Vnfs :
    (<<"vca", f>> \in DOMAIN results' \ DOMAIN results /\ <<"vca", f>> \notin failing
       /\ MgmtNamed(f)) =>
      \A r \in GaugesOf(f) : \E m \in ToSet(results'[<<"vca", f>>]) : m.val = {r}

\* A Juju that answers has every measure of every deployed charm reported, if there is
\* a name to report it under.
THEOREM CharmsAll == Spec => CharmsCollected
<1>1. ASSUME IInv, Next, NEW f \in Vnfs, <<"vca", f>> \in DOMAIN results' \ DOMAIN results,
             <<"vca", f>> \notin failing, MgmtNamed(f), NEW r \in GaugesOf(f)
      PROVE  \E m \in ToSet(results'[<<"vca", f>>]) : m.val = {r}
  <2>1. PICK ms : ms = results'[<<"vca", f>>] /\ ms \in VcaOutcomes(f)
    BY <1>1, NewResult
  <2>2. PICK vnfr, deployed, measured :
          vnfr = world.vnfrs[f] /\ deployed = world.deployed /\ measured = world.gauges
    OBVIOUS
  <2>3. ms = Answered(f, vnfr, deployed, measured)
    <3>1. PICK up \in BOOLEAN : up /\ ms = VcaMetrics(f, vnfr, up, deployed, measured)
      BY <1>1, <2>1, <2>2 DEF VcaOutcomes
    <3>2. up = TRUE
      BY <3>1
    <3> QED
      BY <3>1, <3>2, Zenon DEF Answered
  <2>4. IsRecord(vnfr) /\ IsFiniteSet(measured)
    BY <1>1, <2>2, WorldParts DEF IInv
  <2>5. f \in VnfCharm \cap deployed => MgmtVdurs(vnfr) # <<>> /\ Complete(MgmtVdurs(vnfr))
    BY <1>1, <2>2 DEF MgmtNamed
  <2>6. r \in measured /\ OfCharms(r, f, vnfr, deployed)
    BY <2>2 DEF GaugesOf, OfCharms
  <2>7. Reports(ms, r)
    BY <2>3, <2>4, <2>5, <2>6, VcaCollects
  <2> QED
    BY <2>1, <2>7 DEF Reports
<1>2. IInv /\ Next => CharmsAsked
  BY <1>1 DEF CharmsAsked
<1>3. CharmsCollected <=> [][CharmsAsked]_vars
  BY DEF CharmsCollected, CharmsAsked
<1>4. Spec => [][Next]_vars
  BY PTL DEF Spec
<1> QED
  BY <1>2, <1>3, <1>4, Invariance, PTL
=============================================================================
