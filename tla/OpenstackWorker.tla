-------------------------- MODULE OpenstackWorker --------------------------
(***************************************************************************)
(* One worker of the collector on one OpenStack VNF, beside the life cycle *)
(* manager (LCM, external) that fills in, scales and terminates the VNF.   *)
(* The worker gets a copy of the record from the loop that forks it, goes  *)
(* through the parameters of that copy, and for each of them reads the     *)
(* record again to learn which VM to ask the VIM about.                    *)
(***************************************************************************)
EXTENDS OpenstackVnf

CONSTANTS Name,      \* names LCM gives to vdurs
          NoVnf,     \* the VNF, the only one here
          Gone,      \* the record of a terminated VNF
          Layouts,   \* sequences of VDUs that a VNF may start with
          MaxVdurs,  \* bound: vdurs of the record
          MaxScales  \* bound: scalings

ASSUME OpenstackWorkerAssumption ==
  /\ {MaxVdurs, MaxScales} \subseteq Nat
  /\ Unfilled \notin Name
  /\ \A vdus \in Layouts : vdus \in Seq(ToSet(vdus)) /\ Len(vdus) <= MaxVdurs

VARIABLES
  vnfr,      \* the record in the database
  born,      \* VMs created so far
  scales,    \* scalings so far
  pc,        \* where the worker is
  snap,      \* the record as the loop read it
  todo,      \* parameters the worker has yet to go through
  resource,  \* the VM it asks about
  collected, \* its dictionary of tags and its metrics
  named,     \* names and VMs of the record since the worker started (history)
  missed     \* the parameters and VMs the VIM gave no value for (history)

record == <<vnfr, born, scales>>
worker == <<pc, snap, todo, resource, collected>>
vars   == <<record, worker, named, missed>>

NoVm == 0

Empty(v) == [vdu |-> v, name |-> Unfilled, vm |-> NoVm]

Naming(r) ==
  IF r = Gone THEN {}
  ELSE {[name |-> d.name, vm |-> d.vm] : d \in {e \in ToSet(r) : IsNamed(e)}}

TypeOK ==
  LET vm == 0..born
      isRecord(r) == \A i \in DOMAIN r : /\ r[i].name \in Name \cup {Unfilled}
                                         /\ r[i].vm \in vm
                                         /\ IsNamed(r[i]) <=> r[i].vm # NoVm
  IN  /\ vnfr # Gone => Len(vnfr) <= MaxVdurs /\ isRecord(vnfr)
      /\ born \in Nat /\ scales \in 0..MaxScales
      /\ pc \in {"idle", "start", "lookup", "ask", "done", "raised", "refused", "killed"}
      /\ isRecord(snap)
      /\ \A i \in DOMAIN todo : todo[i].name \in Name /\ todo[i].param \in Param
      /\ resource \in vm
      /\ \A m \in ToSet(collected.metrics) : m.name \in Metric
      /\ named \subseteq [name : Name, vm : vm \ {NoVm}]
      /\ missed \subseteq [name : Name, param : Param, vm : vm \ {NoVm}]

Init ==
  /\ \E vdus \in Layouts : vnfr = [i \in DOMAIN vdus |-> Empty(vdus[i])]
  /\ born = 0 /\ scales = 0
  /\ pc = "idle" /\ snap = <<>> /\ todo = <<>> /\ resource = NoVm
  /\ collected = NothingCollected
  /\ named = {} /\ missed = {}

-----------------------------------------------------------------------------
(* LCM. *)

NamedSince ==
  named' = IF pc \in {"lookup", "ask"} THEN named \cup Naming(vnfr') ELSE named

Scales ==
  /\ scales < MaxScales /\ scales' = scales + 1
  /\ NamedSince
  /\ UNCHANGED <<born, worker, missed>>

Fill(i, n) ==
  /\ vnfr # Gone
  /\ i \in DOMAIN vnfr /\ ~IsNamed(vnfr[i])
  /\ \A d \in ToSet(vnfr) : d.name # n
  /\ born' = born + 1
  /\ vnfr' = [vnfr EXCEPT ![i].name = n, ![i].vm = born']
  /\ NamedSince
  /\ UNCHANGED <<scales, worker, missed>>

ScaleOut(v) ==
  /\ vnfr # Gone
  /\ Len(vnfr) < MaxVdurs
  /\ vnfr' = Append(vnfr, Empty(v))
  /\ Scales

ScaleIn(i) ==
  /\ vnfr # Gone
  /\ i \in DOMAIN vnfr
  /\ vnfr' = RemoveAt(vnfr, i)
  /\ Scales

Terminate ==
  /\ vnfr # Gone
  /\ vnfr' = Gone
  /\ UNCHANGED <<born, scales, worker, named, missed>>

-----------------------------------------------------------------------------
(* The worker. *)

\* Mutant: a worker that raised ends the loop.
ForkUnlessRaised ==
  /\ pc \in {"idle", "done", "refused", "killed"}
  /\ vnfr # Gone
  /\ pc' = "start" /\ snap' = vnfr
  /\ todo' = <<>> /\ resource' = NoVm /\ collected' = NothingCollected
  /\ named' = {} /\ missed' = {}
  /\ UNCHANGED record

Fork ==
  /\ pc \in {"idle", "done", "raised", "refused", "killed"}
  /\ vnfr # Gone
  /\ pc' = "start" /\ snap' = vnfr
  /\ todo' = <<>> /\ resource' = NoVm /\ collected' = NothingCollected
  /\ named' = {} /\ missed' = {}
  /\ UNCHANGED record

\* The NSR and the VNFD are read; those of a VNF that is gone may be gone too.
Start ==
  /\ pc = "start"
  /\ \/ pc' = "lookup" /\ todo' = Work(snap) /\ named' = Naming(vnfr)
     \/ vnfr = Gone /\ pc' = "raised" /\ UNCHANGED <<todo, named>>
  /\ UNCHANGED <<record, snap, resource, collected, missed>>

\* The database fails a read of the account, the VNFD, the NSR or the record, or the
\* VIM refuses the session of the backend: nothing catches it either.
Refused ==
  /\ pc = "start" \/ (pc = "lookup" /\ todo # <<>>)
  /\ pc' = "refused"
  /\ UNCHANGED <<record, snap, todo, resource, collected, named, missed>>

Current == VdurIndex(vnfr, Head(todo).name)

AtLookup == pc = "lookup" /\ todo # <<>>

\* METRIC_MAPPINGS has no such metric, there is no record, or get_vdur meets a
\* vdur without a name: none of these exceptions is caught.
LookupRaises ==
  /\ AtLookup
  /\ \/ Head(todo).param.metric \notin Mapped
     \/ vnfr = Gone
     \/ vnfr # Gone /\ Current # 0 /\ ~IsNamed(vnfr[Current])
  /\ pc' = "raised"
  /\ UNCHANGED <<record, snap, todo, resource, collected, named, missed>>

\* Mutant: what was collected is returned at once.
ReturnNotFound ==
  /\ AtLookup
  /\ Head(todo).param.metric \in Mapped /\ vnfr # Gone /\ Current = 0
  /\ todo' = <<>>
  /\ UNCHANGED <<record, pc, snap, resource, collected, named, missed>>

\* A ValueError: the vdur was removed since the loop read the record.
LookupNotFound ==
  /\ AtLookup
  /\ Head(todo).param.metric \in Mapped /\ vnfr # Gone /\ Current = 0
  /\ todo' = Tail(todo)
  /\ UNCHANGED <<record, pc, snap, resource, collected, named, missed>>

\* Mutant: the VM is taken from the copy.
LookupInCopy ==
  /\ AtLookup
  /\ Head(todo).param.metric \in Mapped /\ vnfr # Gone
  /\ LET r == Named(snap) IN resource' = r[VdurIndex(r, Head(todo).name)].vm
  /\ pc' = "ask"
  /\ UNCHANGED <<record, snap, todo, collected, named, missed>>

LookupFound ==
  /\ AtLookup
  /\ Head(todo).param.metric \in Mapped /\ vnfr # Gone
  /\ Current # 0 /\ IsNamed(vnfr[Current])
  /\ resource' = vnfr[Current].vm
  /\ pc' = "ask"
  /\ UNCHANGED <<record, snap, todo, collected, named, missed>>

\* Gnocchi has measures of some interfaces of the VM, or of the VM.
Ask ==
  LET w == Head(todo)
      any == {Reading(resource, w.param.metric, i) : i \in Iface \cup {NoIface}}
  IN  /\ pc = "ask"
      /\ \E measured \in SUBSET any :
           LET value == CollectMetric("gnocchi", measured, w.param, resource) IN
           /\ collected' = Collected(NoVnf, collected, w, value)
           /\ missed' = IF value # NoValue THEN missed
                        ELSE missed \cup {[name |-> w.name, param |-> w.param,
                                           vm |-> resource]}
      /\ todo' = Tail(todo)
      /\ pc' = "lookup"
      /\ UNCHANGED <<record, snap, resource, named>>

Return ==
  /\ pc = "lookup" /\ todo = <<>>
  /\ pc' = "done"
  /\ UNCHANGED <<record, snap, todo, resource, collected, named, missed>>

\* The VIM does not answer; the loop terminates the worker, whose metrics go.
Kill ==
  /\ pc = "ask"
  /\ pc' = "killed" /\ collected' = NothingCollected
  /\ UNCHANGED <<record, snap, todo, resource, named, missed>>

-----------------------------------------------------------------------------

Lcm ==
  \/ \E i \in 1..MaxVdurs : ScaleIn(i) \/ \E n \in Name : Fill(i, n)
  \/ \E v \in DOMAIN Params : ScaleOut(v)
  \/ Terminate

Worker ==
  \/ Fork \/ Start \/ Refused \/ LookupRaises \/ LookupNotFound \/ LookupFound \/ Ask
  \/ Return \/ Kill

Next == Lcm \/ Worker

Spec == Init /\ [][Next]_vars

\* The loop forks workers for ever; one that waits for a VIM is killed at last.
\* LCM may do nothing more, and the database and the VIM may refuse for ever.
FairSpec == Spec /\ WF_vars(Worker)

-----------------------------------------------------------------------------
(* Properties. *)

\* The VM behind a metric had the name the metric carries at some time since the
\* worker started: a record that changed before it does not lend the measures of
\* a removed VM to its successor of the same name (openstack.py 86-88, 118).
CurrentVm ==
  \A m \in ToSet(collected.metrics) :
    \A r \in m.val : [name |-> m.tags.vdu_name, vm |-> r.src] \in named

\* A worker that returns has asked for every parameter of each vdur that was in
\* its copy and still is in the record, whatever was removed meanwhile
\* (openstack.py 104-135).
SurvivorsCollected ==
  pc = "done" /\ vnfr # Gone =>
    \A w \in ToSet(Work(snap)), d \in ToSet(vnfr) :
      (w.name = d.name /\ d \in ToSet(snap)) =>
        \/ [name |-> w.name, param |-> w.param, vm |-> d.vm] \in missed
        \/ \E m \in ToSet(collected.metrics) :
             /\ m.name = w.param.metric /\ m.tags.vdu_name = d.name
             /\ \A r \in m.val : r.src = d.vm

Collectable ==
  /\ vnfr # Gone
  /\ Complete(vnfr)
  /\ \A w \in ToSet(Work(vnfr)) : w.param.metric \in Mapped

\* Once the record stays complete, every metric it asks for is known and database and
\* VIM answer, workers return for ever and none raises any more, whatever they met
\* before (service.py 62-71, 102-137).
CompleteReturns ==
  <>[]Collectable /\ <>[][~Kill /\ ~Refused]_vars => []<>(pc = "done") /\ <>[](pc # "raised")

\* openstack.py 105 says of the test for 'name': "This avoids errors when vdur
\* records have not been completely filled".
UnfilledHarmless ==
  pc = "raised" /\ vnfr # Gone => \E w \in ToSet(Work(snap)) : w.param.metric \notin Mapped
=============================================================================
