----------------------- MODULE OpenstackWorkerProofs -----------------------
(***************************************************************************)
(* A worker of the OpenStack plugin asks about the VM that bears the name, *)
(* and about every vdur that survives, whatever LCM does to the record     *)
(* meanwhile.  Facts about a sequence of any length are shown by its least *)
(* counterexample, which the natural numbers have.                         *)
(***************************************************************************)
EXTENDS OpenstackWorker, RecordLemmas

\* What a record, a copy, the list of parameters and a dictionary hold.
Vdu == DOMAIN Params \cup UNION {ToSet(vdus) : vdus \in Layouts}

Vdur == {d \in [vdu : Vdu, name : Name \cup {Unfilled}, vm : 0..born] :
           IsNamed(d) <=> d.vm # NoVm}

Item == [name : Name, param : Param]

Tag == Iface \cup {NoIface}

Sample == [src : Nat, metric : Metric, iface : Iface \cup {NoIface}]

VdurMetric ==
  {VnfMetric(NoVnf, n, metric, value, tag) :
     n \in Name, metric \in Metric, value \in SUBSET Sample, tag \in Tag}

Dictionary == [tag : Tag, metrics : Seq(VdurMetric)]

TypeInv ==
  /\ vnfr # Gone => vnfr \in Seq(Vdur) /\ Len(vnfr) <= MaxVdurs
  /\ born \in Nat /\ scales \in 0..MaxScales
  /\ pc \in {"idle", "start", "lookup", "ask", "done", "raised", "refused", "killed"}
  /\ snap \in Seq(Vdur)
  /\ todo \in Seq(Item)
  /\ resource \in 0..born
  /\ collected \in Dictionary
  /\ named \subseteq [name : Name, vm : (0..born) \ {NoVm}]
  /\ missed \subseteq [name : Name, param : Param, vm : (0..born) \ {NoVm}]
  /\ pc = "ask" => todo # <<>> /\ resource # NoVm

\* No two vdurs of the record have a name in common.
Distinct ==
  vnfr # Gone => \A d, e \in ToSet(vnfr) : IsNamed(d) /\ d.name = e.name => d = e

\* What the record says now, and what it said when the worker read it, is among
\* what it said since the worker started, with no metric yet.
Witnessed ==
  /\ pc = "start" => collected.metrics = <<>>
  /\ pc \in {"lookup", "ask"} => Naming(vnfr) \subseteq named
  /\ pc = "ask" => [name |-> Head(todo).name, vm |-> resource] \in named

\* The vdurs of the copy that the record still has.
Survivor == ToSet(snap) \cap ToSet(vnfr)

Handled(w, d) ==
  \/ [name |-> w.name, param |-> w.param, vm |-> d.vm] \in missed
  \/ \E m \in ToSet(collected.metrics) :
       /\ m.name = w.param.metric /\ m.tags.vdu_name = d.name
       /\ \A r \in m.val : r.src = d.vm

\* What is no longer to do is done for the survivors, and the VM that is asked
\* about is the survivor's.
DoneOrToDo ==
  /\ pc \in {"lookup", "ask", "done"} /\ vnfr # Gone =>
       \A w \in ToSet(Work(snap)), d \in Survivor :
         w.name = d.name => w \in ToSet(todo) \/ Handled(w, d)
  /\ pc = "ask" /\ vnfr # Gone =>
       \A d \in Survivor : d.name = Head(todo).name => resource = d.vm
  /\ pc = "done" => todo = <<>>

-----------------------------------------------------------------------------
(* Types. *)

\* The parameters of a record are for named vdurs.
LEMMA WorkType ==
  ASSUME NEW D, NEW r \in Seq(D),
         \A d \in D : d.name \in Name \cup {Unfilled}
  PROVE  Work(r) \in Seq(Item)
<1>1. \A d \in D : IsNamed(d) => d.name \in Name
  BY DEF IsNamed
<1> QED
  BY <1>1, WorkProperties DEF Item

\* A vdur stays one when VMs are created.
LEMMA VdurGrows ==
  ASSUME born \in Nat, born' \in Nat, born <= born'
  PROVE  Vdur \subseteq Vdur' /\ Seq(Vdur) \subseteq Seq(Vdur')
<1>1. Vdur \subseteq Vdur'
  BY DEF Vdur, Vdu, IsNamed
<1> QED
  BY <1>1, SeqMonotonic

\* What a record says of names and VMs.
LEMMA NamingType ==
  ASSUME TypeInv
  PROVE  Naming(vnfr) \subseteq [name : Name, vm : (0..born) \ {NoVm}]
<1>1. CASE vnfr = Gone
  BY <1>1 DEF Naming
<1>2. CASE vnfr # Gone
  <2>1. ASSUME NEW d \in ToSet(vnfr), IsNamed(d)
        PROVE  [name |-> d.name, vm |-> d.vm] \in [name : Name, vm : (0..born) \ {NoVm}]
    <3>1. d \in Vdur
      BY <1>2, LenProperties DEF TypeInv, ToSet
    <3> QED
      BY <2>1, <3>1 DEF Vdur, IsNamed
  <2> QED
    BY <1>2, <2>1 DEF Naming
<1> QED
  BY <1>1, <1>2

\* LCM fills in a vdur: the record has one vdur of that name, with a VM that no
\* vdur had.
LEMMA FillRecord ==
  ASSUME TypeInv, NEW i \in 1..MaxVdurs, NEW n \in Name, Fill(i, n)
  PROVE  /\ born' = born + 1 /\ vnfr' \in Seq(Vdur') /\ Len(vnfr') = Len(vnfr)
         /\ \E new \in Vdur' : /\ new.name = n /\ new.vm = born'
                               /\ ToSet(vnfr') \subseteq ToSet(vnfr) \cup {new}
<1>1. vnfr # Gone /\ i \in DOMAIN vnfr /\ born' = born + 1
  BY DEF Fill
<1>2. PICK new : new = [vnfr[i] EXCEPT !.name = n, !.vm = born']
  OBVIOUS
<1>3. vnfr' = [vnfr EXCEPT ![i] = new]
  BY <1>2 DEF Fill
<1>4. vnfr \in Seq(Vdur) /\ born \in Nat /\ DOMAIN vnfr = 1..Len(vnfr)
  BY <1>1, LenProperties DEF TypeInv
<1>5. vnfr \in Seq(Vdur') /\ vnfr[i] \in Vdur
  BY <1>1, <1>4, VdurGrows
<1>6. new \in Vdur' /\ new.name = n /\ new.vm = born'
  <2>1. PICK d \in [vdu : Vdu, name : Name \cup {Unfilled}, vm : 0..born] : d = vnfr[i]
    BY <1>5 DEF Vdur
  <2>2. /\ new \in [vdu : Vdu, name : Name \cup {Unfilled}, vm : 0..born']
        /\ new.name = n /\ new.vm = born'
    <3>1. PICK m \in 0..born' : m = born'
      BY <1>1, <1>4
    <3>2. 0..born \subseteq 0..born' /\ n \in Name \cup {Unfilled}
      BY <1>1, <1>4
    <3>3. new = [d EXCEPT !.name = n, !.vm = m]
      BY <1>2, <2>1, <3>1
    <3> QED
      BY <2>1, <3>1, <3>2, <3>3
  <2>3. n # Unfilled /\ born' # 0
    BY <1>1, <1>4, OpenstackWorkerAssumption
  <2> QED
    BY <2>2, <2>3 DEF Vdur, Vdu, IsNamed, NoVm
<1>7. vnfr' \in Seq(Vdur') /\ Len(vnfr') = Len(vnfr)
  BY <1>1, <1>3, <1>4, <1>5, <1>6, ExceptSeq
<1>8. ToSet(vnfr') \subseteq ToSet(vnfr) \cup {new}
  BY <1>1, <1>3 DEF ToSet
<1> QED
  BY <1>1, <1>6, <1>7, <1>8

\* LCM adds a vdur that nothing is known of yet.
LEMMA ScaleOutRecord ==
  ASSUME TypeInv, NEW v \in DOMAIN Params, ScaleOut(v)
  PROVE  /\ born' = born /\ vnfr' \in Seq(Vdur') /\ Len(vnfr') <= MaxVdurs
         /\ ToSet(vnfr') = ToSet(vnfr) \cup {Empty(v)} /\ ~ IsNamed(Empty(v))
<1>1. vnfr \in Seq(Vdur) /\ Vdur' = Vdur /\ born' = born /\ Len(vnfr) < MaxVdurs
  BY DEF TypeInv, ScaleOut, Scales, Vdur, Vdu, IsNamed
<1>2. Empty(v) \in Vdur /\ ~ IsNamed(Empty(v))
  BY DEF TypeInv, Empty, Vdur, Vdu, IsNamed, NoVm
<1>3. vnfr' = Append(vnfr, Empty(v)) /\ Len(vnfr) \in Nat /\ MaxVdurs \in Nat
  BY <1>1, LenProperties, OpenstackWorkerAssumption DEF ScaleOut
<1>4. /\ vnfr' \in Seq(Vdur) /\ Len(vnfr') = Len(vnfr) + 1
      /\ ToSet(vnfr') = ToSet(vnfr) \cup {Empty(v)}
  BY <1>1, <1>2, <1>3, SetOfAppend
<1> QED
  BY <1>1, <1>2, <1>3, <1>4

\* LCM removes a vdur.
LEMMA ScaleInRecord ==
  ASSUME TypeInv, NEW i \in 1..MaxVdurs, ScaleIn(i)
  PROVE  /\ born' = born /\ vnfr' \in Seq(Vdur') /\ Len(vnfr') <= MaxVdurs
         /\ ToSet(vnfr') \subseteq ToSet(vnfr)
<1>1. vnfr \in Seq(Vdur) /\ Vdur' = Vdur /\ born' = born /\ Len(vnfr) <= MaxVdurs
  BY DEF TypeInv, ScaleIn, Scales, Vdur, Vdu, IsNamed
<1>2. /\ vnfr' = RemoveAt(vnfr, i) /\ i \in 1..Len(vnfr)
      /\ Len(vnfr) \in Nat /\ MaxVdurs \in Nat
  BY <1>1, LenProperties, OpenstackWorkerAssumption DEF ScaleIn
<1>3. /\ vnfr' \in Seq(Vdur) /\ Len(vnfr') = Len(vnfr) - 1
      /\ ToSet(vnfr') \subseteq ToSet(vnfr)
  BY <1>1, <1>2, SetOfRemoveAt
<1> QED
  BY <1>1, <1>2, <1>3

\* What is written of a record in force keeps its type, and so does what was said
\* of names since the worker started.
LEMMA RecordType ==
  ASSUME TypeInv, UNCHANGED <<worker, missed>>, NamedSince,
         born' \in {born, born + 1}, scales' \in 0..MaxScales,
         vnfr' \in Seq(Vdur'), Len(vnfr') <= MaxVdurs
  PROVE  TypeInv'
<1>1. born \in Nat /\ born' \in Nat /\ born <= born'
  BY DEF TypeInv
<1>2. Seq(Vdur) \subseteq Seq(Vdur') /\ 0..born \subseteq 0..born'
  BY <1>1, VdurGrows
<1>3. Naming(vnfr') \subseteq [name : Name, vm : (0..born') \ {NoVm}]
  <2>1. ASSUME NEW d \in ToSet(vnfr'), IsNamed(d)
        PROVE  [name |-> d.name, vm |-> d.vm] \in [name : Name, vm : (0..born') \ {NoVm}]
    <3>1. d \in Vdur'
      BY LenProperties DEF ToSet
    <3> QED
      BY <2>1, <3>1 DEF Vdur, IsNamed
  <2> QED
    BY <2>1 DEF Naming
<1>4. named' \subseteq [name : Name, vm : (0..born') \ {NoVm}]
  BY <1>2, <1>3 DEF TypeInv, NamedSince
<1>5. missed' \subseteq [name : Name, param : Param, vm : (0..born') \ {NoVm}]
  BY <1>2 DEF TypeInv
<1>6. snap' \in Seq(Vdur') /\ resource' \in 0..born'
  BY <1>2 DEF TypeInv, worker
<1>7. /\ todo' \in Seq(Item) /\ collected' \in Dictionary
      /\ pc' \in {"idle", "start", "lookup", "ask", "done", "raised", "refused", "killed"}
      /\ pc' = "ask" => todo' # <<>> /\ resource' # NoVm
  BY DEF TypeInv, worker
<1> QED
  BY <1>1, <1>4, <1>5, <1>6, <1>7 DEF TypeInv, Dictionary, Tag, VdurMetric, Item

LEMMA LcmType ==
  ASSUME TypeInv, Lcm
  PROVE  TypeInv'
<1>1. ASSUME NEW i \in 1..MaxVdurs, ScaleIn(i) PROVE TypeInv'
  <2>1. UNCHANGED <<worker, missed>> /\ NamedSince /\ scales' \in 0..MaxScales
    BY <1>1, OpenstackWorkerAssumption DEF ScaleIn, Scales, TypeInv
  <2> QED
    BY <1>1, <2>1, ScaleInRecord, RecordType
<1>2. ASSUME NEW i \in 1..MaxVdurs, NEW n \in Name, Fill(i, n) PROVE TypeInv'
  <2>1. /\ UNCHANGED <<worker, missed>> /\ NamedSince /\ scales' \in 0..MaxScales
        /\ Len(vnfr) <= MaxVdurs
    BY <1>2 DEF Fill, TypeInv
  <2>2. born' = born + 1 /\ vnfr' \in Seq(Vdur') /\ Len(vnfr') = Len(vnfr)
    BY <1>2, FillRecord
  <2> QED
    BY <2>1, <2>2, RecordType
<1>3. ASSUME NEW v \in DOMAIN Params, ScaleOut(v) PROVE TypeInv'
  <2>1. UNCHANGED <<worker, missed>> /\ NamedSince /\ scales' \in 0..MaxScales
    BY <1>3, OpenstackWorkerAssumption DEF ScaleOut, Scales, TypeInv
  <2> QED
    BY <1>3, <2>1, ScaleOutRecord, RecordType
<1>4. CASE Terminate
  BY <1>4 DEF Terminate, worker, TypeInv, Vdur, Vdu, IsNamed, Dictionary, Tag, VdurMetric, Item
<1> QED
  BY <1>1, <1>2, <1>3, <1>4 DEF Lcm

\* A value is made of readings of the VM that was asked about.
LEMMA ValueType ==
  ASSUME NEW p \in Param, NEW vm \in Nat, NEW measured
  PROVE  /\ CollectMetric("gnocchi", measured, p, vm) \in SUBSET Sample
         /\ \A r \in CollectMetric("gnocchi", measured, p, vm) : r.src = vm
<1>1. Interfaces(p) \subseteq Iface \cup {NoIface}
  BY DEF Interfaces, Param
<1>2. CollectMetric("gnocchi", measured, p, vm)
        \subseteq [src : {vm}, metric : {p.metric}, iface : Interfaces(p)]
  BY DEF CollectMetric
<1> QED
  BY <1>1, <1>2 DEF Sample, Param

\* One dictionary has a metric more than the other.
OneMore(acc, after, w, value) ==
  \E m \in VdurMetric :
    /\ m.name = w.param.metric /\ m.val = value /\ m.tags.vdu_name = w.name
    /\ ToSet(after.metrics) = ToSet(acc.metrics) \cup {m}

\* A value that there is becomes one metric more, of the vdur it is for.
LEMMA CollectedOne ==
  ASSUME NEW acc \in Dictionary,
         NEW w \in Item, NEW value \in SUBSET Sample,
         NEW after, after = Collected(NoVnf, acc, w, value)
  PROVE  /\ value = NoValue => after = acc
         /\ value # NoValue => after \in Dictionary /\ OneMore(acc, after, w, value)
<1>1. acc.tag \in Tag /\ acc.metrics \in Seq(VdurMetric)
  BY DEF Dictionary
<1>2. acc = [tag |-> acc.tag, metrics |-> acc.metrics]
  BY DEF Dictionary
<1>3. w.name \in Name /\ w.param.metric \in Metric /\ w.param.iface \in Tag
  BY DEF Item, Param, Tag
<1>4. PICK tag : tag = TagAfter(acc.tag, w, value)
  OBVIOUS
<1>5. after = [tag |-> tag, metrics |-> MetricsAfter(NoVnf, acc.metrics, tag, w, value)]
  BY <1>4 DEF Collected
<1>6. tag \in Tag
  BY <1>1, <1>3, <1>4 DEF TagAfter
<1>7. value = NoValue => after = acc
  BY <1>2, <1>4, <1>5 DEF TagAfter, MetricsAfter
<1>8. PICK m : m = VnfMetric(NoVnf, w.name, w.param.metric, value, tag)
  OBVIOUS
<1>9. m \in VdurMetric
  BY <1>3, <1>6, <1>8 DEF VdurMetric
<1>10. m.name = w.param.metric /\ m.val = value /\ m.tags.vdu_name = w.name
  BY <1>8 DEF VnfMetric
<1>11. /\ Append(acc.metrics, m) \in Seq(VdurMetric)
       /\ ToSet(Append(acc.metrics, m)) = ToSet(acc.metrics) \cup {m}
  BY <1>1, <1>9, SetOfAppend
<1>12. ASSUME value # NoValue PROVE after \in Dictionary /\ OneMore(acc, after, w, value)
  <2>1. after = [tag |-> tag, metrics |-> Append(acc.metrics, m)]
    BY <1>5, <1>8, <1>12 DEF MetricsAfter
  <2>2. after \in Dictionary /\ after.metrics = Append(acc.metrics, m)
    BY <1>6, <1>11, <2>1 DEF Dictionary
  <2> QED
    BY <1>9, <1>10, <1>11, <2>2 DEF OneMore
<1> QED
  BY <1>7, <1>12

\* One question to the VIM: a metric more of the VM asked about, or the parameter
\* and the VM noted as missed.
LEMMA AskOnce ==
  ASSUME TypeInv, Ask
  PROVE  /\ todo # <<>> /\ todo' = Tail(todo) /\ pc' = "lookup"
         /\ Head(todo) \in Item
         /\ collected' \in Dictionary
         /\ \/ /\ collected' = collected
               /\ missed' = missed \cup {[name |-> Head(todo).name,
                                          param |-> Head(todo).param, vm |-> resource]}
            \/ /\ missed' = missed
               /\ \E m \in VdurMetric :
                    /\ m.name = Head(todo).param.metric /\ m.tags.vdu_name = Head(todo).name
                    /\ \A r \in m.val : r.src = resource
                    /\ ToSet(collected'.metrics) = ToSet(collected.metrics) \cup {m}
<1> DEFINE w == Head(todo)
<1>1. todo # <<>> /\ w \in Item /\ w.param \in Param /\ resource \in Nat
  <2>1. todo \in Seq(Item) /\ todo # <<>> /\ resource \in 0..born /\ born \in Nat
    BY DEF TypeInv, Ask
  <2>2. w \in Item
    BY <2>1, SetOfTail
  <2> QED
    BY <2>1, <2>2 DEF Item
<1>2. PICK measured :
        LET value == CollectMetric("gnocchi", measured, w.param, resource) IN
        /\ collected' = Collected(NoVnf, collected, w, value)
        /\ missed' = IF value # NoValue THEN missed
                     ELSE missed \cup {[name |-> w.name, param |-> w.param,
                                        vm |-> resource]}
  BY DEF Ask
<1>3. PICK value : value = CollectMetric("gnocchi", measured, w.param, resource)
  OBVIOUS
<1>4. /\ value \in SUBSET Sample /\ \A r \in value : r.src = resource
      /\ collected \in Dictionary
  BY <1>1, <1>3, ValueType DEF TypeInv
<1>5. todo' = Tail(todo) /\ pc' = "lookup"
  BY DEF Ask
<1> HIDE DEF w
<1>6. CASE value = NoValue
  <2>1. /\ collected' = collected
        /\ missed' = missed \cup {[name |-> w.name, param |-> w.param, vm |-> resource]}
    BY <1>1, <1>2, <1>3, <1>4, <1>6, CollectedOne
  <2> QED
    BY <1>1, <1>4, <1>5, <2>1 DEF w
<1>7. CASE value # NoValue
  <2>1. collected' = Collected(NoVnf, collected, w, value) /\ missed' = missed
    BY <1>2, <1>3, <1>7
  <2>2. collected' \in Dictionary /\ OneMore(collected, collected', w, value)
    BY <1>1, <1>4, <1>7, <2>1, CollectedOne
  <2>3. \E m \in VdurMetric :
          /\ m.name = w.param.metric /\ m.tags.vdu_name = w.name
          /\ \A r \in m.val : r.src = resource
          /\ ToSet(collected'.metrics) = ToSet(collected.metrics) \cup {m}
    BY <1>4, <2>2 DEF OneMore
  <2> QED
    BY <1>1, <1>5, <2>1, <2>2, <2>3 DEF w
<1> QED
  BY <1>6, <1>7

\* The worker finds a vdur of the record that bears the name it looks for.
LEMMA FoundVdur ==
  ASSUME TypeInv, LookupFound
  PROVE  /\ vnfr # Gone /\ todo # <<>> /\ Head(todo) \in Item
         /\ \E d \in ToSet(vnfr) \cap Vdur :
              IsNamed(d) /\ d.name = Head(todo).name /\ resource' = d.vm
<1>1. vnfr # Gone /\ todo # <<>> /\ vnfr \in Seq(Vdur) /\ todo \in Seq(Item)
  BY DEF TypeInv, LookupFound, AtLookup
<1>2. Current \in DOMAIN vnfr /\ vnfr[Current].name \in {Head(todo).name, Unfilled}
  BY <1>1, WhereItStops DEF Current, LookupFound
<1>3. IsNamed(vnfr[Current]) /\ resource' = vnfr[Current].vm
  BY DEF LookupFound
<1>4. vnfr[Current] \in ToSet(vnfr) \cap Vdur /\ vnfr[Current].name = Head(todo).name
  BY <1>1, <1>2, <1>3, LenProperties DEF IsNamed, ToSet
<1>5. Head(todo) \in Item
  BY <1>1, SetOfTail
<1> QED
  BY <1>1, <1>3, <1>4, <1>5

LEMMA WorkerType ==
  ASSUME TypeInv, Worker
  PROVE  TypeInv'
<1>0. /\ born \in Nat /\ UNCHANGED record /\ Vdur' = Vdur
      /\ vnfr' # Gone => vnfr' \in Seq(Vdur') /\ Len(vnfr') <= MaxVdurs
      /\ born' \in Nat /\ scales' \in 0..MaxScales
  <2>1. UNCHANGED record
    BY DEF Worker, Fork, Start, Refused, LookupRaises, LookupNotFound, LookupFound, Ask,
           Return, Kill
  <2> QED
    BY <2>1 DEF record, TypeInv, Vdur, Vdu, IsNamed
<1>1. CASE Fork
  <2>1. NothingCollected \in Dictionary
    BY DEF NothingCollected, Dictionary, Tag
  <2>2. snap' \in Seq(Vdur') /\ todo' \in Seq(Item) /\ resource' \in 0..born'
    BY <1>0, <1>1 DEF Fork, TypeInv, NoVm
  <2>3. pc' = "start" /\ collected' \in Dictionary /\ named' = {} /\ missed' = {}
    BY <1>1, <2>1 DEF Fork
  <2> QED
    BY <1>0, <2>2, <2>3 DEF TypeInv, Dictionary, Tag, VdurMetric, Item
<1>2. CASE Start
  <2>1. Work(snap) \in Seq(Item) /\ Naming(vnfr) \subseteq [name : Name, vm : (0..born) \ {NoVm}]
    <3>1. \A d \in Vdur : d.name \in Name \cup {Unfilled}
      BY DEF Vdur
    <3>2. snap \in Seq(Vdur)
      BY DEF TypeInv
    <3>3. Work(snap) \in Seq(Item)
      BY <3>1, <3>2, WorkType
    <3> QED
      BY <3>3, NamingType
  <2>2. /\ todo' \in Seq(Item) /\ pc' \in {"lookup", "raised"}
        /\ named' \subseteq [name : Name, vm : (0..born) \ {NoVm}]
        /\ UNCHANGED <<record, snap, resource, collected, missed>>
    BY <1>2, <2>1 DEF Start, TypeInv
  <2> QED
    BY <1>0, <2>2 DEF TypeInv, record, Dictionary, Tag, VdurMetric, Item
<1>3. CASE LookupRaises \/ Refused
  BY <1>0, <1>3 DEF LookupRaises, Refused, record, TypeInv, Dictionary, Tag, VdurMetric, Item
<1>4. CASE LookupNotFound
  <2>1. todo' \in Seq(Item)
    <3>1. todo \in Seq(Item) /\ todo # <<>> /\ todo' = Tail(todo)
      BY <1>4 DEF LookupNotFound, AtLookup, TypeInv
    <3> QED
      BY <3>1, SetOfTail
  <2> QED
    BY <1>0, <1>4, <2>1
       DEF LookupNotFound, AtLookup, record, TypeInv, Dictionary, Tag, VdurMetric, Item
<1>5. CASE LookupFound
  <2>1. resource' \in (0..born) \ {NoVm} /\ todo # <<>>
    BY <1>5, FoundVdur DEF Vdur
  <2> QED
    BY <1>0, <1>5, <2>1
       DEF LookupFound, AtLookup, record, TypeInv, Dictionary, Tag, VdurMetric, Item
<1>6. CASE Ask
  <2>1. /\ todo # <<>> /\ todo' = Tail(todo) /\ pc' = "lookup" /\ Head(todo) \in Item
        /\ collected' \in Dictionary
        /\ \/ missed' = missed
           \/ missed' = missed \cup {[name |-> Head(todo).name,
                                      param |-> Head(todo).param, vm |-> resource]}
    BY <1>6, AskOnce
  <2>2. UNCHANGED <<record, snap, resource, named>> /\ resource \in (0..born) \ {NoVm}
    BY <1>6 DEF Ask, TypeInv
  <2>3. missed' \subseteq [name : Name, param : Param, vm : (0..born) \ {NoVm}]
    BY <2>1, <2>2 DEF TypeInv, Item
  <2>4. todo' \in Seq(Item)
    <3>1. todo \in Seq(Item)
      BY DEF TypeInv
    <3> QED
      BY <2>1, <3>1, SetOfTail
  <2> QED
    BY <1>0, <2>1, <2>2, <2>3, <2>4
       DEF record, TypeInv, Dictionary, Tag, VdurMetric, Item
<1>7. CASE Return
  BY <1>0, <1>7 DEF Return, record, TypeInv, Dictionary, Tag, VdurMetric, Item
<1>8. CASE Kill
  <2>1. NothingCollected \in Dictionary
    BY DEF NothingCollected, Dictionary, Tag
  <2> QED
    BY <1>0, <1>8, <2>1 DEF Kill, record, TypeInv, Dictionary, Tag, VdurMetric, Item
<1> QED
  BY <1>1, <1>2, <1>3, <1>4, <1>5, <1>6, <1>7, <1>8 DEF Worker

\* A VNF starts with vdurs that nothing is known of yet.
LEMMA InitType ==
  ASSUME Init
  PROVE  TypeInv /\ Distinct
<1>1. PICK vdus \in Layouts : vnfr = [i \in DOMAIN vdus |-> Empty(vdus[i])]
  BY DEF Init
<1>2. PICK n \in Nat : DOMAIN vdus = 1..n /\ n <= MaxVdurs
  <2>1. vdus \in Seq(ToSet(vdus)) /\ Len(vdus) <= MaxVdurs
    BY OpenstackWorkerAssumption
  <2> QED
    BY <2>1, LenProperties
<1>3. born = 0 /\ scales = 0 /\ MaxScales \in Nat
  BY OpenstackWorkerAssumption DEF Init
<1>4. ASSUME NEW i \in 1..n PROVE Empty(vdus[i]) \in Vdur /\ ~ IsNamed(Empty(vdus[i]))
  <2>1. vdus[i] \in Vdu
    BY <1>2 DEF Vdu, ToSet
  <2> QED
    BY <1>3, <2>1 DEF Empty, Vdur, IsNamed, NoVm
<1>5. vnfr \in Seq(Vdur) /\ Len(vnfr) <= MaxVdurs
  <2>1. vnfr \in [1..n -> Vdur]
    BY <1>1, <1>2, <1>4
  <2>2. vnfr \in Seq(Vdur) /\ Len(vnfr) = n
    BY <2>1, SeqDef, LenProperties
  <2> QED
    BY <1>2, <2>2
<1>6. Distinct
  BY <1>1, <1>2, <1>4 DEF Distinct, ToSet
<1>7. collected \in Dictionary
  BY DEF Init, NothingCollected, Dictionary, Tag
<1> QED
  BY <1>3, <1>5, <1>6, <1>7 DEF Init, TypeInv, NoVm

LEMMA NextType ==
  ASSUME TypeInv, [Next]_vars
  PROVE  TypeInv'
<1>1. CASE UNCHANGED vars
  BY <1>1 DEF vars, record, worker, TypeInv, Vdur, Vdu, IsNamed, Dictionary, Tag,
              VdurMetric, Item
<1> QED
  BY <1>1, LcmType, WorkerType DEF Next

\* The record, the copy, the list of parameters and the metrics have their types
\* whatever LCM does to the record between the steps of the worker.
THEOREM TypeCorrect == Spec => []TypeOK
<1>1. TypeInv => TypeOK
  <2> SUFFICES ASSUME TypeInv PROVE TypeOK
    OBVIOUS
  <2> DEFINE isRecord(r) == \A i \in DOMAIN r : /\ r[i].name \in Name \cup {Unfilled}
                                                /\ r[i].vm \in 0..born
                                                /\ IsNamed(r[i]) <=> r[i].vm # NoVm
  <2>1. ASSUME NEW r \in Seq(Vdur) PROVE isRecord(r)
    <3>1. \A i \in DOMAIN r : r[i] \in Vdur
      BY LenProperties
    <3> QED
      BY <3>1 DEF Vdur
  <2>2. \A i \in DOMAIN todo : todo[i].name \in Name /\ todo[i].param \in Param
    <3>1. \A i \in DOMAIN todo : todo[i] \in Item
      BY LenProperties DEF TypeInv
    <3> QED
      BY <3>1 DEF Item
  <2>3. \A m \in ToSet(collected.metrics) : m.name \in Metric
    <3>1. ASSUME NEW m \in VdurMetric PROVE m.name \in Metric
      <4>1. PICK n \in Name, metric \in Metric, value \in SUBSET Sample, tag \in Tag :
              m = VnfMetric(NoVnf, n, metric, value, tag)
        BY DEF VdurMetric
      <4> QED
        BY <4>1 DEF VnfMetric
    <3>2. collected.metrics \in Seq(VdurMetric)
      BY DEF TypeInv, Dictionary
    <3>3. \A m \in ToSet(collected.metrics) : m \in VdurMetric
      BY <3>2, LenProperties DEF ToSet
    <3> QED
      BY <3>1, <3>3
  <2>4. /\ vnfr # Gone => Len(vnfr) <= MaxVdurs /\ isRecord(vnfr)
        /\ isRecord(snap)
    <3> HIDE DEF isRecord
    <3> QED
      BY <2>1 DEF TypeInv
  <2> HIDE DEF Vdur
  <2> QED
    BY <2>2, <2>3, <2>4 DEF TypeInv, TypeOK
<1>2. Init => TypeInv
  BY InitType
<1>3. TypeInv /\ [Next]_vars => TypeInv'
  BY NextType
<1> QED
  BY <1>1, <1>2, <1>3, PTL DEF Spec

-----------------------------------------------------------------------------
(* Names and VMs. *)

\* LCM gives no name twice, and no vdur of a copy that the record lost comes back:
\* one of the same name has a VM that is newer than the copy.
LEMMA LcmRecord ==
  ASSUME TypeInv, Distinct, Lcm
  PROVE  /\ vnfr # Gone /\ Distinct' /\ UNCHANGED <<worker, missed>>
         /\ vnfr' # Gone =>
              \A d \in ToSet(vnfr') : IsNamed(d) /\ d \in ToSet(snap) => d \in ToSet(vnfr)
         /\ named \subseteq named'
         /\ pc \in {"lookup", "ask"} /\ Naming(vnfr) \subseteq named =>
              Naming(vnfr') \subseteq named'
<1>1. ASSUME NEW i \in 1..MaxVdurs, ScaleIn(i)
      PROVE  /\ vnfr # Gone /\ UNCHANGED <<worker, missed>> /\ NamedSince /\ Distinct'
             /\ \A d \in ToSet(vnfr') : d \in ToSet(vnfr)
  <2>1. vnfr # Gone /\ UNCHANGED <<worker, missed>> /\ NamedSince
    BY <1>1 DEF ScaleIn, Scales
  <2>2. ToSet(vnfr') \subseteq ToSet(vnfr)
    BY <1>1, ScaleInRecord
  <2> QED
    BY <2>1, <2>2 DEF Distinct, IsNamed
<1>2. ASSUME NEW i \in 1..MaxVdurs, NEW n \in Name, Fill(i, n)
      PROVE  /\ vnfr # Gone /\ UNCHANGED <<worker, missed>> /\ NamedSince /\ Distinct'
             /\ \A d \in ToSet(vnfr') : d \in ToSet(snap) => d \in ToSet(vnfr)
  <2>1. /\ vnfr # Gone /\ UNCHANGED <<worker, missed>> /\ NamedSince
        /\ \A d \in ToSet(vnfr) : d.name # n
    BY <1>2 DEF Fill
  <2>2. PICK new \in Vdur' : /\ new.name = n /\ new.vm = born'
                             /\ ToSet(vnfr') \subseteq ToSet(vnfr) \cup {new}
    BY <1>2, FillRecord
  <2>3. new \notin ToSet(snap)
    <3>1. \A d \in ToSet(snap) : d.vm \in 0..born
      BY LenProperties DEF TypeInv, ToSet, Vdur
    <3>2. born' = born + 1 /\ born \in Nat
      BY <1>2, FillRecord DEF TypeInv
    <3>3. born' \notin 0..born
      BY <3>2
    <3> QED
      BY <2>2, <3>1, <3>3
  <2>4. Distinct'
    <3>1. ASSUME NEW d \in ToSet(vnfr'), NEW e \in ToSet(vnfr'), IsNamed(d), d.name = e.name
          PROVE  d = e
      <4>1. CASE d \in ToSet(vnfr) /\ e \in ToSet(vnfr)
        BY <2>1, <3>1, <4>1 DEF Distinct
      <4>2. CASE ~ (d \in ToSet(vnfr) /\ e \in ToSet(vnfr))
        BY <2>1, <2>2, <3>1, <4>2
      <4> QED
        BY <4>1, <4>2
    <3> QED
      BY <3>1 DEF Distinct, IsNamed
  <2> QED
    BY <2>1, <2>2, <2>3, <2>4
<1>3. ASSUME NEW v \in DOMAIN Params, ScaleOut(v)
      PROVE  /\ vnfr # Gone /\ UNCHANGED <<worker, missed>> /\ NamedSince /\ Distinct'
             /\ \A d \in ToSet(vnfr') : IsNamed(d) => d \in ToSet(vnfr)
  <2>1. vnfr # Gone /\ UNCHANGED <<worker, missed>> /\ NamedSince
    BY <1>3 DEF ScaleOut, Scales
  <2>2. ToSet(vnfr') = ToSet(vnfr) \cup {Empty(v)} /\ ~ IsNamed(Empty(v))
    BY <1>3, ScaleOutRecord
  <2> HIDE DEF Empty
  <2>3. \A d \in ToSet(vnfr') : IsNamed(d) => d \in ToSet(vnfr)
    BY <2>2
  <2>4. Distinct'
    <3>1. ASSUME NEW d \in ToSet(vnfr'), NEW e \in ToSet(vnfr'), IsNamed(d), d.name = e.name
          PROVE  d = e
      <4>1. IsNamed(e)
        BY <3>1 DEF IsNamed
      <4> QED
        BY <2>1, <2>3, <3>1, <4>1 DEF Distinct
    <3> QED
      BY <3>1 DEF Distinct, IsNamed
  <2> QED
    BY <2>1, <2>3, <2>4
<1>4. CASE Terminate
  <2>1. /\ vnfr # Gone /\ vnfr' = Gone /\ UNCHANGED <<worker, missed>> /\ named' = named
    BY <1>4 DEF Terminate
  <2> QED
    BY <2>1 DEF Distinct, Naming
<1>5. ASSUME NamedSince
      PROVE  /\ named \subseteq named'
             /\ pc \in {"lookup", "ask"} => Naming(vnfr') \subseteq named'
  BY <1>5 DEF NamedSince
<1> QED
  BY <1>1, <1>2, <1>3, <1>4, <1>5 DEF Lcm

\* A named vdur of the record is what the record says of its name.
LEMMA NamingOf ==
  ASSUME vnfr # Gone, NEW d \in ToSet(vnfr), IsNamed(d)
  PROVE  [name |-> d.name, vm |-> d.vm] \in Naming(vnfr)
  BY DEF Naming

\* What CurrentVm needs to be inductive.
VmInv == TypeInv /\ Distinct /\ Witnessed /\ CurrentVm

LEMMA VmInvLcm ==
  ASSUME VmInv, Lcm
  PROVE  Distinct' /\ Witnessed' /\ CurrentVm'
<1>1. /\ Distinct' /\ UNCHANGED worker /\ named \subseteq named'
      /\ pc \in {"lookup", "ask"} /\ Naming(vnfr) \subseteq named =>
           Naming(vnfr') \subseteq named'
  BY LcmRecord DEF VmInv
<1>2. Witnessed'
  BY <1>1 DEF VmInv, Witnessed, worker
<1>3. CurrentVm'
  BY <1>1 DEF VmInv, CurrentVm, worker
<1> QED
  BY <1>1, <1>2, <1>3

LEMMA VmInvWorker ==
  ASSUME VmInv, Worker
  PROVE  Distinct' /\ Witnessed' /\ CurrentVm'
<1>0. UNCHANGED record /\ Distinct'
  <2>1. UNCHANGED record
    BY DEF Worker, Fork, Start, Refused, LookupRaises, LookupNotFound, LookupFound, Ask,
           Return, Kill
  <2> QED
    BY <2>1 DEF VmInv, Distinct, record, IsNamed
<1>1. CASE Fork
  <2>1. pc' = "start" /\ collected' = NothingCollected
    BY <1>1 DEF Fork
  <2> QED
    BY <1>0, <2>1 DEF Witnessed, CurrentVm, NothingCollected, ToSet
<1>2. CASE Start
  <2>1. /\ pc' \in {"lookup", "raised"} /\ UNCHANGED <<record, collected>>
        /\ collected.metrics = <<>>
        /\ pc' = "lookup" => named' = Naming(vnfr)
    BY <1>2 DEF Start, VmInv, Witnessed
  <2>2. Naming(vnfr') = Naming(vnfr)
    BY <2>1 DEF record, Naming
  <2>3. Witnessed'
    BY <2>1, <2>2 DEF Witnessed
  <2>4. CurrentVm'
    <3>1. collected'.metrics = <<>>
      BY <2>1
    <3> QED
      BY <3>1 DEF CurrentVm, ToSet
  <2> QED
    BY <1>0, <2>3, <2>4
<1>3. CASE LookupRaises \/ Refused \/ LookupNotFound \/ Return
  BY <1>0, <1>3 DEF VmInv, LookupRaises, Refused, LookupNotFound, Return, AtLookup,
                    Witnessed, CurrentVm, record, Naming
<1>4. CASE LookupFound
  <2>1. /\ pc = "lookup" /\ pc' = "ask" /\ vnfr # Gone
        /\ UNCHANGED <<record, snap, todo, collected, named, missed>>
    BY <1>4 DEF LookupFound, AtLookup
  <2>2. PICK d \in ToSet(vnfr) : IsNamed(d) /\ d.name = Head(todo).name /\ resource' = d.vm
    BY <1>4, FoundVdur DEF VmInv
  <2>3. [name |-> Head(todo).name, vm |-> resource'] \in Naming(vnfr)
    BY <2>1, <2>2, NamingOf
  <2>4. Naming(vnfr) \subseteq named
    BY <2>1 DEF VmInv, Witnessed
  <2>5. Naming(vnfr') = Naming(vnfr)
    BY <2>1 DEF record, Naming
  <2> QED
    BY <1>0, <2>1, <2>3, <2>4, <2>5 DEF VmInv, Witnessed, CurrentVm
<1>5. CASE Ask
  <2>1. UNCHANGED <<record, named>> /\ pc = "ask" /\ pc' = "lookup"
    BY <1>5 DEF Ask
  <2>2. \/ collected' = collected
        \/ \E m \in VdurMetric :
             /\ m.tags.vdu_name = Head(todo).name
             /\ \A r \in m.val : r.src = resource
             /\ ToSet(collected'.metrics) = ToSet(collected.metrics) \cup {m}
    BY <1>5, AskOnce DEF VmInv
  <2>3. /\ [name |-> Head(todo).name, vm |-> resource] \in named
        /\ Naming(vnfr) \subseteq named
    BY <2>1 DEF VmInv, Witnessed
  <2>4. CurrentVm'
    BY <2>1, <2>2, <2>3 DEF VmInv, CurrentVm
  <2>5. Witnessed'
    BY <2>1, <2>3 DEF Witnessed, record, Naming
  <2> QED
    BY <1>0, <2>4, <2>5
<1>6. CASE Kill
  <2>1. pc' = "killed" /\ collected' = NothingCollected
    BY <1>6 DEF Kill
  <2> QED
    BY <1>0, <2>1 DEF Witnessed, CurrentVm, NothingCollected, ToSet
<1> QED
  BY <1>1, <1>2, <1>3, <1>4, <1>5, <1>6 DEF Worker

\* The VM behind a metric had the name the metric carries at some time since the
\* worker started, for records and lists of parameters of any length.
THEOREM RightVm == Spec => []CurrentVm
<1>1. Init => VmInv
  <2>1. Init => Witnessed /\ CurrentVm
    BY DEF Init, Witnessed, CurrentVm, NothingCollected, ToSet
  <2> QED
    BY <2>1, InitType DEF VmInv
<1>2. VmInv /\ [Next]_vars => VmInv'
  <2> SUFFICES ASSUME VmInv, [Next]_vars PROVE VmInv'
    OBVIOUS
  <2>1. TypeInv'
    BY NextType DEF VmInv
  <2>2. CASE UNCHANGED vars
    BY <2>1, <2>2 DEF VmInv, vars, record, worker, Distinct, Witnessed, CurrentVm,
                      Naming, IsNamed
  <2> QED
    BY <2>1, <2>2, VmInvLcm, VmInvWorker DEF Next, VmInv
<1>3. VmInv => CurrentVm
  BY DEF VmInv
<1> QED
  BY <1>1, <1>2, <1>3, PTL DEF Spec

-----------------------------------------------------------------------------
(* Survivors. *)

\* What SurvivorsCollected needs to be inductive: DoneOrToDo while the worker runs,
\* and that a name leads to one vdur.
SurvivorInv == TypeInv /\ Distinct /\ DoneOrToDo

\* The parameters of a copy are for vdurs with a name.
LEMMA WorkNames ==
  ASSUME TypeInv
  PROVE  Work(snap) \in Seq(Item) /\ \A w \in ToSet(Work(snap)) : w \in Item
<1>1. snap \in Seq(Vdur) /\ \A d \in Vdur : d.name \in Name \cup {Unfilled}
  BY DEF TypeInv, Vdur
<1>2. Work(snap) \in Seq(Item)
  BY <1>1, WorkType
<1> QED
  BY <1>2, LenProperties DEF ToSet

\* A survivor that bears the name of a parameter has one.
LEMMA SurvivorNamed ==
  ASSUME NEW w \in Item, NEW d, w.name = d.name
  PROVE  IsNamed(d)
  BY OpenstackWorkerAssumption DEF IsNamed, Item

LEMMA SurvivorInvLcm ==
  ASSUME SurvivorInv, Lcm
  PROVE  Distinct' /\ DoneOrToDo'
<1>1. /\ vnfr # Gone /\ Distinct' /\ UNCHANGED <<worker, missed>>
      /\ vnfr' # Gone =>
           \A d \in ToSet(vnfr') : IsNamed(d) /\ d \in ToSet(snap) => d \in ToSet(vnfr)
  BY LcmRecord DEF SurvivorInv
<1>2. UNCHANGED <<pc, snap, todo, resource, collected, missed>>
  BY <1>1 DEF worker
<1>3. Work(snap') = Work(snap) /\ \A w, d : Handled(w, d) => Handled(w, d)'
  BY <1>2 DEF Handled
<1>4. ASSUME vnfr' # Gone, NEW w \in Item, NEW d \in Survivor', w.name = d.name
      PROVE  d \in Survivor
  BY <1>1, <1>2, <1>4, SurvivorNamed DEF Survivor
<1>5. ASSUME pc' \in {"lookup", "ask", "done"}, vnfr' # Gone,
             NEW w \in ToSet(Work(snap')), NEW d \in Survivor', w.name = d.name
      PROVE  w \in ToSet(todo') \/ Handled(w, d)'
  <2>1. w \in ToSet(Work(snap)) /\ w \in Item
    BY <1>3, <1>5, WorkNames DEF SurvivorInv
  <2>2. d \in Survivor
    BY <1>4, <1>5, <2>1
  <2>3. w \in ToSet(todo) \/ Handled(w, d)
    BY <1>1, <1>2, <1>5, <2>1, <2>2 DEF SurvivorInv, DoneOrToDo
  <2> QED
    BY <1>2, <1>3, <2>3
<1>6. ASSUME pc' = "ask", vnfr' # Gone, NEW d \in Survivor', d.name = Head(todo').name
      PROVE  resource' = d.vm
  <2>1. Head(todo) \in Item /\ Head(todo).name = d.name
    BY <1>2, <1>6, SetOfTail DEF SurvivorInv, TypeInv
  <2>2. d \in Survivor
    BY <1>4, <1>6, <2>1
  <2> QED
    BY <1>1, <1>2, <1>6, <2>1, <2>2 DEF SurvivorInv, DoneOrToDo
<1>7. pc' = "done" => todo' = <<>>
  BY <1>2 DEF SurvivorInv, DoneOrToDo
<1> QED
  BY <1>1, <1>5, <1>6, <1>7 DEF DoneOrToDo

\* What was handled stays handled while metrics are added.
LEMMA HandledStays ==
  ASSUME missed \subseteq missed', ToSet(collected.metrics) \subseteq ToSet(collected'.metrics),
         NEW w, NEW d, Handled(w, d)
  PROVE  Handled(w, d)'
  BY DEF Handled

\* The worker forgets a parameter of which it asked, or that is of no survivor.
LEMMA HeadDone ==
  ASSUME SurvivorInv, pc \in {"lookup", "ask"}, todo # <<>>,
         NEW head, head = Head(todo), todo' = Tail(todo),
         pc' = "lookup", UNCHANGED <<record, snap>>,
         missed \subseteq missed', ToSet(collected.metrics) \subseteq ToSet(collected'.metrics),
         vnfr # Gone =>
           \A d \in Survivor : d.name = head.name => Handled(head, d)'
  PROVE  DoneOrToDo'
<1>1. Survivor' = Survivor /\ vnfr' = vnfr /\ Work(snap') = Work(snap)
  BY DEF Survivor, record
<1>2. ToSet(todo) = {head} \cup ToSet(todo')
  BY SetOfTail DEF SurvivorInv, TypeInv
<1>3. ASSUME vnfr # Gone, NEW w \in ToSet(Work(snap)), NEW d \in Survivor, w.name = d.name
      PROVE  w \in ToSet(todo') \/ Handled(w, d)'
  <2>1. w \in ToSet(todo) \/ Handled(w, d)
    BY <1>3 DEF SurvivorInv, DoneOrToDo
  <2>2. CASE Handled(w, d)
    BY <2>2, HandledStays
  <2>3. CASE w = head
    BY <1>3, <2>3
  <2> QED
    BY <1>2, <2>1, <2>2, <2>3
<1> QED
  BY <1>1, <1>3 DEF DoneOrToDo

LEMMA SurvivorInvWorker ==
  ASSUME SurvivorInv, Worker
  PROVE  Distinct' /\ DoneOrToDo'
<1>0. UNCHANGED record /\ Distinct' /\ vnfr' = vnfr
  <2>1. UNCHANGED record
    BY DEF Worker, Fork, Start, Refused, LookupRaises, LookupNotFound, LookupFound, Ask,
           Return, Kill
  <2> QED
    BY <2>1 DEF SurvivorInv, Distinct, record, IsNamed
<1>1. CASE Fork \/ Refused \/ LookupRaises \/ Kill
  <2>1. pc' \in {"start", "raised", "refused", "killed"}
    BY <1>1 DEF Fork, Refused, LookupRaises, Kill
  <2> QED
    BY <1>0, <2>1 DEF DoneOrToDo
<1>2. CASE Start
  <2>1. /\ pc' \in {"lookup", "raised"} /\ snap' = snap
        /\ pc' = "lookup" => todo' = Work(snap)
    BY <1>2 DEF Start
  <2> QED
    BY <1>0, <2>1 DEF DoneOrToDo
<1>3. CASE LookupNotFound
  <2>1. /\ pc = "lookup" /\ todo # <<>> /\ todo' = Tail(todo) /\ pc' = "lookup"
        /\ vnfr # Gone /\ UNCHANGED <<record, snap, missed, collected>>
        /\ VdurIndex(vnfr, Head(todo).name) = 0
    BY <1>3 DEF LookupNotFound, AtLookup, Current
  <2>2. vnfr \in Seq(Vdur)
    BY <2>1 DEF SurvivorInv, TypeInv
  <2>3. \A d \in Survivor : d.name # Head(todo).name
    BY <2>1, <2>2, WhereItStops DEF Survivor
  <2> QED
    BY <1>0, <2>1, <2>3, HeadDone
<1>4. CASE LookupFound
  <2>1. /\ pc = "lookup" /\ pc' = "ask" /\ vnfr # Gone
        /\ UNCHANGED <<record, snap, todo, collected, named, missed>>
    BY <1>4 DEF LookupFound, AtLookup
  <2>2. PICK e \in ToSet(vnfr) :
          IsNamed(e) /\ e.name = Head(todo).name /\ resource' = e.vm
    BY <1>4, FoundVdur DEF SurvivorInv
  <2>3. ASSUME NEW d \in Survivor, d.name = Head(todo).name PROVE resource' = d.vm
    BY <2>1, <2>2, <2>3 DEF SurvivorInv, Distinct, Survivor
  <2>4. /\ Survivor' = Survivor /\ Work(snap') = Work(snap)
        /\ \A w, d : Handled(w, d) => Handled(w, d)'
    BY <1>0, <2>1 DEF Survivor, Handled
  <2> QED
    BY <1>0, <2>1, <2>3, <2>4 DEF SurvivorInv, DoneOrToDo
<1>5. CASE Ask
  <2>1. /\ pc = "ask" /\ UNCHANGED <<record, snap>>
        /\ todo # <<>> /\ todo' = Tail(todo) /\ pc' = "lookup"
    BY <1>5, AskOnce DEF Ask, SurvivorInv
  <2>2. \/ /\ collected' = collected
           /\ missed' = missed \cup {[name |-> Head(todo).name,
                                      param |-> Head(todo).param, vm |-> resource]}
        \/ /\ missed' = missed
           /\ \E m \in VdurMetric :
                /\ m.name = Head(todo).param.metric /\ m.tags.vdu_name = Head(todo).name
                /\ \A r \in m.val : r.src = resource
                /\ ToSet(collected'.metrics) = ToSet(collected.metrics) \cup {m}
    BY <1>5, AskOnce DEF SurvivorInv
  <2>3. /\ missed \subseteq missed'
        /\ ToSet(collected.metrics) \subseteq ToSet(collected'.metrics)
    BY <2>2
  <2>4. PICK head : head = Head(todo)
    OBVIOUS
  <2>5. ASSUME vnfr # Gone, NEW d \in Survivor, d.name = head.name
        PROVE  Handled(head, d)'
    <3>1. resource = d.vm
      BY <2>1, <2>4, <2>5 DEF SurvivorInv, DoneOrToDo
    <3> QED
      BY <2>2, <2>4, <2>5, <3>1 DEF Handled
  <2> QED
    BY <1>0, <2>1, <2>3, <2>4, <2>5, HeadDone
<1>6. CASE Return
  <2>1. /\ pc = "lookup" /\ pc' = "done" /\ todo = <<>>
        /\ UNCHANGED <<record, snap, todo, resource, collected, named, missed>>
    BY <1>6 DEF Return
  <2>2. /\ Survivor' = Survivor /\ Work(snap') = Work(snap)
        /\ \A w, d : Handled(w, d) => Handled(w, d)'
    BY <1>0, <2>1 DEF Survivor, Handled
  <2> QED
    BY <1>0, <2>1, <2>2 DEF SurvivorInv, DoneOrToDo
<1> QED
  BY <1>1, <1>2, <1>3, <1>4, <1>5, <1>6 DEF Worker

\* A worker that returns has asked for every parameter of each vdur that was in its
\* copy and still is in the record, for records of any length.
THEOREM Survivors == Spec => []SurvivorsCollected
<1>1. Init => SurvivorInv
  BY InitType DEF Init, SurvivorInv, DoneOrToDo
<1>2. SurvivorInv /\ [Next]_vars => SurvivorInv'
  <2> SUFFICES ASSUME SurvivorInv, [Next]_vars PROVE SurvivorInv'
    OBVIOUS
  <2>1. TypeInv'
    BY NextType DEF SurvivorInv
  <2>2. ASSUME UNCHANGED vars PROVE Distinct' /\ DoneOrToDo'
    <3>1. /\ Survivor' = Survivor /\ Work(snap') = Work(snap)
          /\ \A w, d : Handled(w, d) => Handled(w, d)'
      BY <2>2 DEF vars, record, worker, Survivor, Handled
    <3> QED
      BY <2>2, <3>1 DEF SurvivorInv, vars, record, worker, Distinct, DoneOrToDo, IsNamed
  <2> QED
    BY <2>1, <2>2, SurvivorInvLcm, SurvivorInvWorker DEF Next, SurvivorInv
<1>3. SurvivorInv => SurvivorsCollected
  <2> SUFFICES ASSUME SurvivorInv, pc = "done", vnfr # Gone,
                      NEW w \in ToSet(Work(snap)), NEW d \in ToSet(vnfr),
                      w.name = d.name, d \in ToSet(snap)
               PROVE  Handled(w, d)
    BY DEF SurvivorsCollected, Handled
  <2>1. w \notin ToSet(todo)
    BY DEF SurvivorInv, DoneOrToDo, ToSet
  <2> QED
    BY <2>1 DEF SurvivorInv, DoneOrToDo, Survivor
<1> QED
  BY <1>1, <1>2, <1>3, PTL DEF Spec
=============================================================================
