# OSM MON in TLA+

A TLA+ description of OSM MON, the monitoring module of Open Source MANO: the
processes under `src/osm_mon`, checked with TLC on small instances and, where
marked, proved with TLAPS for every instance.

## The system

MON is four processes in one container (`docker/scripts/start.sh`). They share
a document database (MongoDB), a Kafka bus and a TSDB (Prometheus), and no
memory.

| Part | State it keeps | Operations | Talks to |
|---|---|---|---|
| Server (`server/`) | its position in the topic `alarm_request` | create and delete an alarm, answer | clients by Kafka, the `alarms` collection |
| Evaluator (`evaluator/`) | a queue, the verdicts of a cycle, child processes | read the alarms, evaluate, notify | the `alarms` collection, Prometheus, Kafka |
| Collector (`collector/`) | a queue, child processes, the exported metrics | collect from VIMs, VCAs and SDN controllers, export | the OSM collections, the plugins' services, Prometheus (which scrapes it) |
| Dashboarder (`dashboarder/`) | none between two cycles | create and delete Grafana dashboards | the OSM collections, Grafana |

The plugins (`collector/vnf_collectors`, `collector/infra_collectors`) and
`core/` (configuration, alarm model, database and bus clients, responses) are
libraries of these processes. The health check (`cmd/mon_healthcheck.py`)
makes the container restart when one of the first three processes is gone or
the exporter does not answer.

How they interact: a client's request makes the server write the `alarms`
collection; the evaluator reads the collection once per interval; what the
evaluator queries is what Prometheus scraped from the collector's exporter.
Server and evaluator never call each other.

What is hard in it:

* *Late children.* Evaluator and collector fork one process per alarm or target
  and join each with a timeout. The evaluator leaves late ones running, so they
  write to the queue, or to Kafka, in a later cycle. The collector sends them
  SIGTERM, which acts some time after the call.
* *The queue.* `multiprocessing.Queue` is a pipe of finite capacity with a
  write semaphore. A child cannot exit before its feeder thread has written all
  it put, and the parent reads only after it has joined the children.
* *Redelivery.* The bus client commits on a timer: a restart of the server
  repeats the handling of requests already acted upon.
* *Partial failure.* A document that does not convert, a failed fork, a database
  error between two forks, a response that cannot be published.
* *Stale lists.* Every loop works for seconds on what it read at its start, and
  a record may be scaled between two lookups of one worker.
* *Half-filled records.* The life cycle manager (LCM) creates a vdur before its
  VM exists; until then it has no name and no `vim-id`.
* *Variables that outlive their loop.* Tags, the last VDU, the last status: what
  one element left is used for the next.

What makes each part correct:

* Server: answers tell the truth about the store; a deleted alarm never comes
  back; duplicates and alarms nobody knows of come from faults only; every
  request it can address an answer to gets one.
* Evaluator: an evaluation is notified at most once; notifications of an alarm
  keep their order as long as no join times out; every cycle ends; every stored
  alarm is evaluated again and again; late verdicts are not lost.
* Collector: a cycle without late workers exports exactly what its workers
  returned; no measurement is exported by two cycles, next to each other or not;
  every cycle ends; an overloaded
  or slow cycle does not spoil the next.
* Dashboarder: dashboards converge to the projects and network services there
  are; none of a live resource is deleted.
* VNF plugins: a sample names the vdur whose VM or charm was measured; metrics
  the descriptor declares, and no others, are collected; a worker that meets a
  record in transition does no harm to later ones.
* Infrastructure plugins: a VM is said to run only if it does, and the status of
  what does not answer is reported too.
* Exporter: no two samples of one series, of whichever accounts, and a scrape
  that fails does not fail for ever.

The hazards, each at its line, are listed in `PROJECT.json`.

## Modules

| Module | Models |
|---|---|
| `NotificationChannel` | what the evaluator promises readers of `alarm_response`: every notification is one verdict, reached once and published once |
| `Evaluator` | `evaluator/evaluator.py`, `evaluator/service.py`, `evaluator/backends/prometheus.py`, `Alarm.from_dict`, `CommonDbClient.get_alarms` |
| `EvaluatorProofs` | its theorems |
| `Server`, `ServerProofs` | `server/server.py`, `server/service.py`, the consumer's offsets; its theorems |
| `MonAlarms`, `MonAlarmsProofs` | `Server` and `Evaluator` on one `alarms` collection; its theorems |
| `Collector`, `CollectorProofs` | `collector/collector.py`, `collector/service.py`, `collector/backends/prometheus.py`: forks, joins, the queue; its theorems |
| `Records` | VNF records and descriptors as the plugins read them, `CommonDbClient.get_vdur`, `VnfMetric` |
| `OpenstackVnf` | `vnf_collectors/openstack.py`: kinds of metric, the two backends, one pass over a record |
| `OpenstackWorker`, `OpenstackWorkerProofs` | one worker of that plugin, lookup by lookup, beside the LCM; its theorems |
| `VropsVnf` | `vnf_collectors/vmware.py`, `vnf_collectors/vio.py`, `vnf_collectors/vrops/` |
| `VcaVnf` | `vnf_collectors/juju.py` |
| `InfraStatus` | `infra_collectors/` |
| `RecordLemmas` | what the operators on sequences and records return: `Only`, `SomeOrder`, `FlattenSeq`, `Work`, `VdurIndex` |
| `MetricPath`, `MetricPathProofs` | composes the four: choice of the plugin, workers, gauge families, scrape and health check, while the external systems break and come back; its theorems |
| `Dashboarder`, `DashboarderProofs` | `dashboarder/dashboarder.py`, `dashboarder/service.py`, `dashboarder/backends/grafana.py`; its theorems |
| `MC...` | the instances for TLC |

### Evaluator

`pc` is the place of the loop: `read` (get_alarms), `start` (forking workers),
`join`, `drain`, `notify` (forking notifiers), `settle` (joining them), and
`raised` (in the `except` of `evaluate_forever`). `todo`, `joining`, `tuples`
and `unjoined` are the local lists of `evaluate_alarms` and `evaluate`. The
children are sets: `querying` (workers awaiting Prometheus), `buffered`
(verdicts put, not yet written by the feeder thread), `notifying`. `pipe` is
what `queue.empty()` and `queue.get()` see. `bus` is the topic. The lists are
sets because a join only waits and a pipe's order is lost to the concurrent
notifiers; nothing outside sees the order of either.

An alarm's uuid carries its fields: `Operation[a]` and `Threshold[a]`. A
reading that is `NaN` crosses no threshold. The branch of `evaluate_forever`
for peewee's exceptions is left out: nothing raises them since the alarms are
in MongoDB. `clean` is history: no join has timed out and no cycle broke off.

A write of the Kafka producer succeeds once or fails: the retries inside the
client library are not modelled.

### Server

A request is named by its offset, which stands for its correlation id. `Take`
is the delivery of a message; the callback runs without a pause up to the await
of its response, so delivery, database write and the choice of the response
are one action, and `Respond` another: commits and crashes fall between.
`reply` is that response. `Commit` moves the committed offset to the position
whatever the callback is doing. `Crash` loses `reply` and returns to the
committed offset. A uuid is fresh (`uuid4`), and made for what its request
asks (`Asked`). Deleting what is not there raises in the database client and is
answered False; that the client raises then is its documented default, and the
one thing assumed of it.

### MonAlarms

The two specifications as they are, sharing `db` and `dropped`; the
evaluator's `StoreAlarm` and `DropAlarm` are left out, and the property
`EvaluatorSpec` says that the server's steps are such steps.

### Collector

Like the evaluator, with the write semaphore (`lock`), SIGTERM (`doomed`: sent
and not yet effective; `Die`: effective) and the swap of the exported values.
What the database knows is chosen afresh in every cycle (`Known`): its three
lists are read at different times, and each entry once. A metric is written to
the pipe whole or not at all, as the kernel does for messages under 4 KiB.
`past` is history: all that a swap has exported. `NeverReexported` compares each
swap with it, so neither a swap that is skipped nor a value that comes back after
a cycle without it passes. `Prompt` restricts join timeouts to workers blocked by the queue; the run on
the semaphore uses it so that no slow plugin plays a part.

### Plugins

`OpenstackVnf`, `VropsVnf`, `VcaVnf` and `InfraStatus` are operators: from a
record and what the external systems answer, the list of metrics a plugin returns,
the empty one if it raises. What vROPS's helper has made when an exception ends
its parsing is returned (`vrops_helper.py` 184-187): those are the metrics of a part
of the answer. `MetricPath` gives them to its workers. A value is
not a number but the set of readings it was computed from, each with the VM or
charm it was read from, so a property can ask whose measure a sample carries;
the empty set is `None`. A record is the sequence of its vdurs. VDUs stand
for their part of the descriptor: `Params` are their monitoring-params in order,
`VduCharm` and `MgmtVdu` say which have metrics of a charm or the management
interface. The tags that are the same for all metrics of a VNF
(`ns_id`, `project_id`, ...) are one, `vnf`.

In `OpenstackWorker` the worker is cut where the code waits for the database or
the VIM: `start` (VNFD and NSR), `lookup` (one `get_vdur` per parameter), `ask`
(`collect_metric`). Between any two the LCM, which is not part of MON, fills in
a vdur, scales the VNF out or in, or terminates it. `named` and `missed` are
history: the names VMs have borne since the worker started, and what the VIM had
no value for. Exceptions end the worker in two ways, told apart by `pc` because
only the first is of its own making. `LookupRaises` has those of a lookup that is
answered: a metric that is not mapped, a record that is gone, and the KeyError of
`get_vdur` on a vdur without a name. `Refused` has the requests that fail: any read
of the database, and the session or the backend in the constructor. A name may be
given again after a scaling.

In `MetricPath` a worker is one step, the records stay as they are, and the
queue is any order: that is what `OpenstackWorker` and `Collector` are for. A
world is any number of accounts, each with what its services know, the VNFs on
them with their records, the measures of charms, and SDN controllers. One exporter
serves the metrics of all of them (`service.py` 102-137, `backends/prometheus.py`
43-55). `Families` is nondeterministic because the first metric of a name that
leaves the queue, whichever account or charm it is of, decides the label names.
`HealthCheck` scrapes as Prometheus does (`docker/Dockerfile` 63-64); the
container it has restarted serves nothing at first.

`failing` has the external systems that fail requests. For a job on such a
system `Answers` gives any part of what it is asked for, from everything to
nothing, so a system may go down, come back or refuse one request in the middle of
a job. Each `...Outcomes` is the set of lists a plugin may return then. Juju and
ONOS either answer or do not: one request that fails has the outcome of all.
A measure of a charm names the unit of the application it is of, so two units
give two measures. A `float()` that refuses a charm's value raises as a refused
`GetMetrics` does, and is the same outcome.

Simplifications: one `resolved` stands for all requests of a vApp; a vApp has
the name of its VM, its managed object and its vROPS resource. A token or a list of
resources that vROPS refuses is an empty list, which leaves the query without its
filter by resource; as what comes back of resources that were not asked about is
dropped, the outcome is that of no answer.

### Dashboarder

`listed` and `known` are the lists `dashboard_uids` and `osm_resource_uids` of
`create_dashboards`; `todo` is what its current loop has left, so `pc` names
the three loops (`projects`, `services`, `delete`) and the points between the
reads. `live` is the database: `Appear` and `Vanish` are the rest of OSM and
fall between any two steps. An id is used once, as the ids of projects and
network services are. `Check` is the body of either loop, with the request it
makes. A request that Grafana refuses, or that the inner `except` catches, lets
the loop go on; any other exception (`Raises`) ends the cycle, after the request
was carried out or before, and `LoopAgain` starts over without the sleep. A
restart of the process is such an end too, as both lists are made anew. While
Grafana's name does not resolve the loop changes nothing. Records are taken to
have the fields OSM gives them.

## Runs

| Run | Shows | Bounds |
|---|---|---|
| `evaluator_safety` | types, `NotifiedOnce`, `OrderedWhileClean`, `ChannelSpec` | 2 alarms (one with an unknown operation), 2 cycles, pipe of 1, 1 fault |
| `evaluator_liveness` | `CycleCompletes`, `StoredAlarmEvaluated`, `VerdictHandedOver` | 2 alarms, one malformed, 3 cycles, pipe of 1, 1 fault, TSDB without data (the verdict's value does not matter) |
| `evaluator_poison` (violated) | one malformed alarm stops all evaluation | 2 alarms, one malformed, no fault |
| `server` | `AnswersTruthful`, `DeletedStaysDeleted`, `OneAlarmPerDelivery`, `UntoldAlarmsBounded`, `CommittedIsHandled`, `RequestAnswered` | 3 requests of every kind, 2 complete creates, 1 crash, 1 exception, 4 uuids |
| `server_unanswered` (violated) | a delete without `alarm_uuid` is not answered | 2 requests, no fault |
| `mon_alarms` | `DeletedGoesQuiet`, `EvaluatorSpec`, `AcknowledgedAlarmEvaluated` | a create (numeric or not) and a delete, 1 crash, 1 evaluator fault, 1 cycle with workers |
| `collector` | types, `WholeCycleExported`, `NeverReexported`, `CycleCompletes` | 2 targets, 1 metric each, 2 cycles, pipe of 2, 1 fault |
| `collector_lock` (violated) | a worker killed with the semaphore stops all later exports | 2 metrics each, pipe of 1, prompt workers, no fault |
| `dashboarder` | types, `NoLiveDashboardDeleted`, `Converges` | 1 project, 2 metered services, 1 plain one, 2 faults |
| `openstack_worker` | types, `CurrentVm`, `SurvivorsCollected`, `CompleteReturns` | 4 layouts of up to 2 vdurs, 2 scalings, 2 names, one interface metric, one metric that is not mapped, any number of refused requests |
| `openstack_unfilled` (violated) | an unfilled vdur makes the worker raise | the same |
| `metric_path` | types, `MeasuresTruthful`, `InterfaceTruthful`, `StatusTruthful`, `StatusReported`, `DeclaredOnly`, `SeriesDistinct`, `ValuesPresent`, `DeclaredCollected`, `CharmsCollected`, `Recovers` | 68 worlds: each kind of account on records with full, missing, unmapped and mixed parameters, also beside another VNF, and OpenStack beside vROPS; unfilled vdurs, empty and unknown vApps, charms of VDUs, of the VNF, of two units; 2 VMs, up to 2 VNFs and 2 accounts, up to 2 systems that fail |

The bounds are the least with which the cases meet: two cycles for a late child
to meet a newer one of the same alarm or target; a pipe that two verdicts fill;
three requests for create, delete and the redelivery of both; uuids for every
create and its redelivery; two metered services, so that one can be missed while
another is handled. After `MaxCycle` cycles with workers the loops go on
as if there were nothing to do, so that what is late still runs its course.
Two vdurs let one precede the other, be unfilled beside a filled one, and be the
last whose parameters or status count for both; two scalings give a name to a
second VM; two interfaces let the tag of one metric meet another; two accounts
let a family whose labels come from vROPS have samples of OpenStack. Not every record
of `metric_path` is put beside every failure: failures are tried where a plugin has
a choice of what to make of them.
`MCServer` turns the deadlock check off: a server with no request left waits;
`MCOpenstackWorker` does because the model ends when the VNF is gone.

Each property has a mutant of the code that breaks it (`PROJECT.json`): a join
without timeout, a list that outlives its loop, a new queue per cycle, a commit
of what was fetched, a uuid derived from the correlation id, and so on. They
stand before the definition they change, marked "Mutant".

## Fairness

`WF_vars(Main)` for evaluator, collector and dashboarder, `WF_vars(Callback)` for the
server: the operating system schedules a process that can run, and a join with
a timeout can always return. Nothing is assumed of the children: a worker may
hang on its target and a notifier on the broker. Clients need not send, the consumer need
not commit, faults need not occur. `VerdictHandedOver` starts at the pipe, not
at the worker's buffer, because a feeder thread is a child's. `Converges` needs requests
that return: `requests` sets no timeout in `grafana.py`, and one that never
returned would stop the dashboarder, which the model leaves out.

`WF_vars(Worker)` in `OpenstackWorker` and `WF_vars(Cycle)` in `MetricPath`: the
loop forks again and again, and terminates a worker that waits for too long. The
LCM may do nothing, and the external systems may never come back: `CompleteReturns`
and `Recovers` say what follows if the record stays complete and the systems answer.
The health check need not run for `Recovers`: the next cycle replaces what could
not be rendered.

## Findings

* `core/models.py:58`: the server stores any threshold and answers True;
  `Alarm.from_dict` then raises for the whole list. While the alarm is stored no
  alarm is evaluated, and the loop spins without its sleep
  (`evaluator_poison`).
* `server/server.py:90`: a delete request without `alarm_uuid` is logged and
  never answered, though it carries a correlation id (`server_unanswered`).
* `collector/service.py:133`: metrics are drained after the joins. When a cycle
  yields more than the pipe holds (64 KiB, a few hundred metrics), a worker
  blocks in its write holding the queue's semaphore, is terminated there, and no
  worker of a later cycle can write: the exporter stays empty until the process
  restarts (`collector_lock`).
* `core/common_db.py:89`: `get_vdur` reads the name of every vdur it passes. The
  OpenStack plugin skips unfilled vdurs so that they cause no errors
  (`openstack.py:105`), and then calls `get_vdur` for the filled ones: while an
  unfilled vdur precedes a filled one the VNF has no metrics
  (`openstack_unfilled`).

What the properties of `metric_path` except is worth knowing too; no document
promises otherwise.

* A VMware account whose vCloud Director does not answer has a status of `None`
  (`infra_collectors/vmware.py:142`), and the scrape of every metric fails until a
  later cycle (`ValuesPresent`, `Recovers`).
* `StatusReported` is unconditional for OpenStack and VIO. A VMware account may have
  no status for a vApp without VMs, whose place the previous metric takes once more.
  If a record is incomplete, or the first vApp of one of its records has no VM, it may
  have no metrics at all (`MayLoseAll`). No other status is ever lost.
* Of VDUs that declare different parameters vROPS is asked for those of the last, so a
  parameter that only an earlier one declares is lost (`DeclaredCollected`). An
  unmapped metric costs an OpenStack VNF all its metrics, and no other VNF any.
* A charm of the VNF without a management vdur that has a name costs the VNF the
  measures of all its charms (`CharmsCollected`).
* A metric that a VDU declares for all interfaces may carry the label of one
  (`InterfaceTruthful`).
* Two samples of one series come about in these ways, which `SeriesDistinct` excepts
  by name. A VDU declares the metric twice for one interface, or for one and for all;
  or it declares it for two interfaces, but the family was given its labels by a
  metric without one, be that of another VNF, of a charm, or of another account, as
  vROPS's all are (`DeclaredTwice`). Or a metric is measured by two charms, by two
  units of one, or by a charm and the VIM (`MeasuredTwice`). Or a vApp has no VM. Most
  were found by the proof attempt; the run has worlds with each of them since.

## Proofs

Checked by TLAPS for every value of the constants that meets the assumption
named. The assumptions give the constants their types and keep apart values that
are different in the code; TLC evaluates each on the instances. Every component
has its `TypeCorrect` (`Spec => []TypeOK`), which the others build on.

Most invariants are not inductive as they stand. For each the strengthening is
named here. They were model-checked before they were proved, but for that of
`MetricPath`, of which TLC checks what follows.

### Evaluator (`EvaluatorAssumption`)

* `NotifiedOnceHolds`: `Spec => []NotifiedOnce`. `NotifiedOnce` is about the
  topic only. `OnceInv` adds where a job can be: it is of a
  cycle that has begun and not of an alarm still without a worker (`AllBegun`),
  and it is in one place only of those a verdict passes through (`Apart`). The
  first makes a started job new, the second makes a published one the last of
  its kind. Steps are grouped by what they do to the verdicts: nothing, forget
  some, move one, put one, publish one, start a worker, begin a cycle.
* `OrderedHolds`: `Spec => []OrderedWhileClean`. `Isolated` adds what the joins
  achieve: while clean, every child and verdict is of the current cycle, every
  live child is among those to be joined, and the place of the loop says which
  sets are empty. So at `read` nothing is left, and a published verdict is newer
  than all before it.
* `ImplementsChannel`: `Spec => Channel!Spec`, with the pending verdicts mapped
  to those in buffers, pipe, list and notifiers. A worker's `Put` is `Judge`,
  `Publish` is `Publish`, failures and restarts are `Lose`, all else stutters.
  `Apart` gives the guards of `Judge` and `Publish`.

### Server (`ServerAssumption`)

Every step adds to the history and takes nothing from it (`NextGrows`): requests,
answers, uuids, deletions and the counts of faults. What a proof shows of one
step then holds for ever.

* `Truth` and `Deleted`: `[]AnswersTruthful` and `[]DeletedStaysDeleted`. A
  response is checked when it is chosen and not when it is published, so
  `AnswersInv` states truth of the pending one too. It needs `History` (the
  store holds the alarms ever made but not those deleted) and `RequestsTold`
  (clients delete what they were told of): without them a redelivered delete
  might be of an alarm not yet made.
* `Handled`: `[]CommittedIsHandled`. The committed offset goes back and forth
  after the position, which a crash sets back. `TakenIsHandled` says
  it of all that was taken up to the position.
* `OnePerDelivery` and `UntoldCost`: the bounds on duplicates and on alarms
  nobody can delete. They count sets, so each step is shown to add one element
  at most, and only with a crash or an exception to pay for it: a redelivery of a
  request for the first (`MadeBounded` knows that a request not yet taken since the last
  crash has at most `crashes` alarms), a lost answer for the second.

### Collector (`CollectorAssumption`)

* `WholeCycle`: `[]WholeCycleExported`. `WholeWhileClean` follows the metrics
  from the worker through feeder, pipe and list: at each place of the loop what
  was returned in this cycle is what these hold together, and live workers are
  among those to be joined.
* `Isolation`: `Spec => NeverReexported`. As for the evaluator, `AllBegun` and `Apart`:
  a metric is in one place, and its worker has nothing more to return. `past` is one
  of these places, so what any cycle has exported is in no list, pipe or feeder that a
  later swap could take it from. That the drain takes what a late worker wrote is in
  it: it is exported once, late.

### Server and evaluator (`MonAlarmsAssumption`, of both)

* `ImplementsEvaluator`: `Spec => EvaluatorSpec`. A `Store` of the server is a
  `StoreAlarm` of the evaluator's environment because its uuid is new (`Stored`),
  a `Drop` is a `DropAlarm`, all else leaves the evaluator's variables alone.
* `DeletedQuiet`: `Spec => DeletedGoesQuiet`. `EvaluatorProofs` is
  instantiated; with the refinement its invariant holds of the composition, and
  says that nothing is in memory when a clean cycle reads. `Quiet` adds that what
  is in memory (`InMemory`) is not settled while the run is clean.

### OpenStack worker (`OpenstackWorkerAssumption`, `RecordsAssumption`)

* `RightVm`: `[]CurrentVm`. `Witnessed` says that the record's present names are
  among those noted, and so is the pair of name and VM the worker is asking about;
  `FoundVdur` takes the pair from where `get_vdur` stops.
* `Survivors`: `[]SurvivorsCollected`. `DoneOrToDo` states it while the worker
  runs: a parameter of a survivor is still to do or was asked for, of the
  survivor's own VM. It needs that a name leads to one vdur (`Distinct`), and
  that no vdur the record lost comes back, since the VM of a new one is newer than
  the copy (`LcmRecord`).

Records and lists have any length here. The type of `Work` is that of a
`FlattenSeq`, a recursive function, and the place where `get_vdur` stops is a least index;
the induction these need is done by the least counterexample
(`LeastNat`, from the well-foundedness of `<` on the naturals).

### The path of a metric (`MetricPathAssumption`, `RecordsAssumption`)

The assumption is about what may be collected (`IsWorld`): filled vdurs of a
record differ in name and VM, no VM has the id of a VNF, charms know no interfaces,
a measure names its source. It bounds neither accounts nor VNFs nor lengths.

`Invariance` is `Spec => []IInv`. `ResultsFacts` says what each worker returned by
the kind of its job: `VimFacts`, `VcaFacts`, `InfraFacts`, `SdncFacts`. They are
shown of the operators first, for all worlds and every answer a failing system may
give (`AnswersOf`), so the step of a worker adds one entry and the step of an external system
nothing. `ServedFacts` is needed because samples outlive their cycle: what is
served is what the exporter made (`Exposes`) of the metrics of *some* cycle with
those facts, in families whose labels are the tags of some metric of that cycle
(`Fits`). Its quantifiers range over all functions, so TLC cannot evaluate
`ServedFacts`; what follows from it are the invariants the run checks.

* `Truth`, `StatusTruth`, `OnlyDeclared`, `NoneMissing`, `StatusComplete` and
  `TypeCorrect`: `ServedShows` takes a sample back to its metric, the name of a metric
  tells its kind (`KindByName`), and the facts of that kind say the rest. Labels
  that the family lacks are none of those the properties ask for (`TagsOf`).
* `StatusComplete`: of OpenStack's worker every filled vdur has an item
  (`OpenstackTells`). Of VMware's, a vdur whose vApp sets the status has its own
  (`VmwareTells`); the first vdur of the list is the first of some record
  (`VdursOfRecords`), which is where all may be lost.
* `InterfaceTruth`: `[]InterfaceTruthful`. A metric with a tag is of a parameter
  for that interface, or of one without: then the tag is an earlier parameter's and
  the value has the readings of all.
* `Distinct`: `[]SeriesDistinct`. Two samples of one name with the same labels come
  from workers for the same VNF (`FromVdu`, `FromInfra`, `FromSdnc`), whatever the
  accounts. Of one OpenStack worker they can differ in the interface only, because a
  parameter is declared once and the tag of one metric stays for the next
  (`OpenstackApart`); the family may lack that label, and then the metric that named
  its labels has no interface: `UntaggedBy` takes it back to a descriptor or a charm of
  whichever account. Of one Juju worker they have two measures
  (`VcaApart`, `CharmAgain`).
* `AllCollected`: `DeclaredCollected`, of the step that takes the worker's results.
  `OpenstackCollects`: `Picks` leaves out no parameter with a value. `VropsCollects`:
  what the last vdur's VDU declares as well is asked for and reported.
* `CharmsAll`: `CharmsCollected`, of that step too. `VcaCollects`: the worker does
  not raise, and the measures of each charm are all made metrics.

What `collect` makes of a list is a recursive function in the models (`tag`,
`metrics`, `Only`, `SomeOrder`, `FlattenSeq`). That such a function exists is shown by
induction over a set of lengths (`RecursionExists`), what it returns by a
least counterexample. Of the operators the proofs keep which items of the work
became metrics, in order (`Picks`), and for sets made into lists that every member
is there once (`SomeOrderProperties`).

### Dashboarder (`DashboarderAssumption`)

* `LiveDashboardsKept`: `Spec => NoLiveDashboardDeleted`.
  The argument is the order of the reads: what was listed belongs to a resource
  that existed by then (`OnlyResources`), so if it is in neither list read later
  it has left the database (`ObsoleteGone`). Listing dashboards last would
  break it.

### Only model-checked

Liveness (`CycleCompletes` and the like, `Converges`, `Recovers`): fairness and
ENABLED are out of the prover's reach. Every safety property of a passing run is
stated by a theorem.

## Not modelled

The text of queries, notifications and responses, logging, TLS and
authentication, command lines, the environment's overrides of the configuration
(read once, before any process has state), and the SQL migrations of earlier
releases. Decryption of passwords and the rates and multipliers of a measure are
data no property tells apart. Evaluator children are not killed, so a write of
theirs to the queue is one step (`Flush`); collector children are, and there it is
two. Workers of VMware, VIO and Juju read their record once, so only
OpenStack's has a module step by step. `aioread_once` has no caller in the
daemons.

## Plan

Done: all modules above, and proofs of every safety property the runs check.
Left: an abstract exporter that `Collector` implements.
