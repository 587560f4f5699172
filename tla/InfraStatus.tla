---------------------------- MODULE InfraStatus ----------------------------
(***************************************************************************)
(* The infrastructure plugins: status of a VIM and of the VMs of its VNFs, *)
(* as OpenStack (and VIO) or vCloud Director report it, and status of an   *)
(* ONOS controller.                                                        *)
(***************************************************************************)
EXTENDS Records

\* One observation: src is up, a status of 1 or True, or it is not.
Status(src, up) == {[src |-> src, up |-> up]}

StatusMetric(name, value, tags) == [name |-> name, val |-> value, tags |-> tags]

VimStatus(vim, value) == StatusMetric("vim_status", value, [vim |-> vim])

VmStatus(vim, vnf, d, up) ==
  StatusMetric("vm_status", Status(d.vm, up),
    [vim |-> vim, resource_uuid |-> d.vm, vnf |-> vnf, vdur_name |-> d.name])

SdncMetrics(sdnc, up) ==
  <<StatusMetric("sdnc_status", Status(sdnc, up), [sdnc |-> sdnc])>>

\* The vdurs of the VIM's VNFs, in order, each with its VNF.
Vdurs(vnfs, vnfrs) ==
  LET of(f) == [i \in DOMAIN vnfrs[f] |-> [vnf |-> f, vdur |-> vnfrs[f][i]]]
  IN  FlattenSeq([k \in DOMAIN vnfs |-> of(vnfs[k])])

\* What follows is given the requests that the VIM answers: those about its
\* account and those about VMs.  It may fail between two of them.

\* Mutant: an exception of Nova is not caught.
OpenstackInfraRaising(vim, vdurs, answers, active) ==
  LET filled == Only(vdurs, {x \in ToSet(vdurs) : IsNamed(x.vdur)})
  IN  IF \E x \in ToSet(filled) : x.vdur.vm \notin answers THEN <<>>
      ELSE <<VimStatus(vim, Status(vim, vim \in answers))>> \o
           [i \in DOMAIN filled |->
              VmStatus(vim, filled[i].vnf, filled[i].vdur, filled[i].vdur.vm \in active)]

\* Mutant: vdurs that are not filled in are asked about too.
OpenstackInfraUnfilled(vim, vdurs, answers, active) ==
  LET up(x) == x.vdur.vm \in answers \cap active
  IN  <<VimStatus(vim, Status(vim, vim \in answers))>> \o
      [i \in DOMAIN vdurs |-> VmStatus(vim, vdurs[i].vnf, vdurs[i].vdur, up(vdurs[i]))]

\* A vdur without a vim-id is passed over; whatever Nova raises is a status.
OpenstackInfra(vim, vdurs, answers, active) ==
  LET filled == Only(vdurs, {x \in ToSet(vdurs) : IsNamed(x.vdur)})
      up(x) == x.vdur.vm \in answers \cap active
  IN  <<VimStatus(vim, Status(vim, vim \in answers))>> \o
      [i \in DOMAIN filled |-> VmStatus(vim, filled[i].vnf, filled[i].vdur, up(filled[i]))]

\* check_vim_status: an exception is logged and None returned.  So ends every
\* failure: no connection, a refusal, an organisation that is not found.
CheckVimStatus(vim, answers, vdc) == IF vim \in answers THEN Status(vim, vdc) ELSE NoValue

\* A vApp that vCloud Director gives, and its VMs; one without VMs sets no status.
IsFound(x, answers, vapps) == x.vdur.vm \in answers \cap DOMAIN vapps

SetsStatus(x, answers, vapps) == IsFound(x, answers, vapps) => vapps[x.vdur.vm] # <<>>

\* Which vdur last set the status when the i-th is reported.
SetBy(i, vdurs, answers, vapps) == Max({k \in 1..i : SetsStatus(vdurs[k], answers, vapps)})

\* The last VM of a vApp gives its status, and one that cannot be read is down.
VappUp(x, answers, vapps) == IsFound(x, answers, vapps) /\ Last(vapps[x.vdur.vm])

\* Mutant: the status left by another vApp gets the tags of this one.
VmwareVmsRetagged(vim, vdurs, answers, vapps) ==
  [i \in DOMAIN vdurs |->
     VmStatus(vim, vdurs[i].vnf, vdurs[i].vdur,
              VappUp(vdurs[SetBy(i, vdurs, answers, vapps)], answers, vapps))]

\* A vApp without VMs leaves the variable with the metric before.
VmwareVms(vim, vdurs, answers, vapps) ==
  LET of(x) == VmStatus(vim, x.vnf, x.vdur, VappUp(x, answers, vapps))
  IN  [i \in DOMAIN vdurs |-> of(vdurs[SetBy(i, vdurs, answers, vapps)])]

\* A vdur without a vim-id, or a first vApp without VMs, raises.
VmwareInfraRaises(vdurs, answers, vapps) ==
  \/ \E i \in DOMAIN vdurs : ~IsNamed(vdurs[i].vdur)
  \/ vdurs # <<>> /\ ~SetsStatus(Head(vdurs), answers, vapps)

VmwareInfra(vim, vdurs, answers, vdc, vapps) ==
  IF VmwareInfraRaises(vdurs, answers, vapps) THEN <<>>
  ELSE <<VimStatus(vim, CheckVimStatus(vim, answers, vdc))>>
       \o VmwareVms(vim, vdurs, answers, vapps)
=============================================================================
