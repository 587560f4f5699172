----------------------------- MODULE Evaluator -----------------------------
(***************************************************************************)
(* The osm-mon-evaluator process (src/osm_mon/evaluator): a loop that, once *)
(* per interval, reads the stored alarms, forks one worker per alarm to     *)
(* query the TSDB, joins the workers with a timeout, drains the             *)
(* multiprocessing queue they write to, and forks one notifier per verdict, *)
(* joined with a timeout too.  A child whose join times out is left         *)
(* running.  A child that has put its verdict stays alive until its queue   *)
(* feeder thread has written it to the pipe, whose capacity is finite.      *)
(* Processes of one list are joined in any order: a join only waits, so the *)
(* order is visible to nobody.                                              *)
(***************************************************************************)
EXTENDS Integers, Sequences, FiniteSets

CONSTANTS Alarm,      \* alarm uuids; uuid4 never gives one of them twice
          Operation,  \* Operation[a] is "gt", "lt" or "other"
          Threshold,  \* Threshold[a] is what the alarm's document stores
          Malformed,  \* a stored threshold that float() refuses
          Sample,     \* values the TSDB may answer with
          NaN,        \* the sample float("NaN"): every comparison is false
          PipeCap,    \* verdicts the pipe of the queue can hold
          MaxCycle,   \* bound: cycles that start workers
          MaxFaults   \* bound: database errors, failed forks and restarts

WellFormed == {a \in Alarm : Threshold[a] # Malformed}

ASSUME EvaluatorAssumption ==
  /\ Operation \in [Alarm -> {"gt", "lt", "other"}]
  /\ Malformed \notin Int
  /\ NaN \notin Int
  /\ Threshold \in [Alarm -> Int \cup {Malformed}]
  /\ Sample \subseteq Int \cup {NaN}
  /\ PipeCap \in Nat \ {0}
  /\ MaxCycle \in Nat
  /\ MaxFaults \in Nat

VARIABLES
  db,         \* the alarms collection
  dropped,    \* alarms that have been deleted from it
  pc,         \* where the loop is
  cycle,      \* the current cycle
  todo,       \* alarms of this cycle with no worker yet
  joining,    \* jobs whose worker this cycle has yet to join
  querying,   \* workers that await the TSDB, of any cycle
  buffered,   \* verdicts put on the queue, still in their worker's feeder
  pipe,       \* verdicts in the pipe of the queue
  tuples,     \* alarms_tuples: verdicts with no notifier yet
  unjoined,   \* verdicts whose notifier this cycle has yet to join
  notifying,  \* notifiers that await the broker, of any cycle
  bus,        \* the topic "alarm_response", oldest first
  clean,      \* no join has timed out and no cycle broke off (history)
  faults      \* faults so far

store   == <<db, dropped>>
lists   == <<todo, joining, tuples, unjoined>>
workers == <<querying, buffered, pipe>>
topic   == <<notifying, bus>>
loop    == <<pc, cycle, lists, clean, faults>>
vars    == <<store, loop, workers, topic>>

Status == {"alarm", "ok", "insufficient-data"}
Job    == [alarm : Alarm, cycle : 1..MaxCycle]
Result == [job : Job, status : Status]

Control == {"read", "start", "join", "drain", "notify", "settle", "raised"}

Held == buffered \cup pipe \cup tuples \cup notifying

TypeOK ==
  /\ db \subseteq Alarm /\ dropped \subseteq Alarm
  /\ pc \in Control
  /\ cycle \in 0..MaxCycle
  /\ todo \subseteq Alarm
  /\ joining \subseteq Job /\ querying \subseteq Job
  /\ buffered \subseteq Result /\ pipe \subseteq Result
  /\ tuples \subseteq Result /\ unjoined \subseteq Result
  /\ notifying \subseteq Result
  /\ bus \in Seq(Result)
  /\ clean \in BOOLEAN
  /\ faults \in 0..MaxFaults

Init ==
  /\ db \in SUBSET Alarm
  /\ dropped = {}
  /\ pc = "read" /\ cycle = 0
  /\ todo = {} /\ joining = {} /\ querying = {}
  /\ buffered = {} /\ pipe = {} /\ tuples = {}
  /\ unjoined = {} /\ notifying = {}
  /\ bus = <<>>
  /\ clean = TRUE
  /\ faults = 0

-----------------------------------------------------------------------------
(* The store, written by the server. *)

StoreAlarm(a) ==
  /\ a \notin db \cup dropped
  /\ db' = db \cup {a}
  /\ UNCHANGED <<dropped, loop, workers, topic>>

DropAlarm(a) ==
  /\ a \in db
  /\ db' = db \ {a}
  /\ dropped' = dropped \cup {a}
  /\ UNCHANGED <<loop, workers, topic>>

-----------------------------------------------------------------------------
(* The loop. *)

Goto(from, to) ==
  /\ pc = from
  /\ pc' = to
  /\ UNCHANGED <<store, cycle, lists, clean, faults, workers, topic>>

\* After MaxCycle cycles the loop goes on as if nothing were stored (bound).
Snapshot == IF cycle < MaxCycle THEN db ELSE {}

\* Mutant: a new queue for every cycle.
GetAlarmsNewQueue ==
  /\ pc = "read" /\ pc' = "start"
  /\ db \subseteq WellFormed
  /\ todo' = Snapshot
  /\ cycle' = IF Snapshot = {} THEN cycle ELSE cycle + 1
  /\ pipe' = {}
  /\ UNCHANGED <<store, joining, tuples, unjoined, clean, faults, querying,
                 buffered, topic>>

GetAlarms ==
  /\ pc = "read" /\ pc' = "start"
  /\ db \subseteq WellFormed
  /\ todo' = Snapshot
  /\ cycle' = IF Snapshot = {} THEN cycle ELSE cycle + 1
  /\ UNCHANGED <<store, joining, tuples, unjoined, clean, faults, workers, topic>>

\* Alarm.from_dict raises on the first document whose threshold is no float.
GetAlarmsRaises == ~ (db \subseteq WellFormed) /\ Goto("read", "raised")

\* The database is out of reach.
GetAlarmsFails ==
  /\ pc = "read" /\ pc' = "raised"
  /\ faults < MaxFaults
  /\ faults' = faults + 1
  /\ UNCHANGED <<store, cycle, lists, clean, workers, topic>>

StartWorker(a) ==
  LET j == [alarm |-> a, cycle |-> cycle] IN
  /\ pc = "start"
  /\ a \in todo
  /\ todo' = todo \ {a}
  /\ querying' = querying \cup {j}
  /\ joining' = joining \cup {j}
  /\ UNCHANGED <<store, pc, cycle, tuples, unjoined, clean, faults, buffered,
                 pipe, topic>>

\* Mutant: the queue is drained without joining the workers.
AllStartedUnjoined == todo = {} /\ Goto("start", "drain")

AllStarted == todo = {} /\ Goto("start", "join")

\* A worker lives until it has no verdict left to flush.
Alive(j) == j \in querying \/ \E r \in buffered : r.job = j

JoinExited(j) ==
  /\ pc = "join"
  /\ j \in joining /\ ~ Alive(j)
  /\ joining' = joining \ {j}
  /\ UNCHANGED <<store, pc, cycle, todo, tuples, unjoined, clean, faults,
                 workers, topic>>

\* Mutant: join without a timeout.
JoinForever(j) == FALSE

JoinTimeout(j) ==
  /\ pc = "join"
  /\ j \in joining /\ Alive(j)
  /\ joining' = joining \ {j}
  /\ clean' = FALSE
  /\ UNCHANGED <<store, pc, cycle, todo, tuples, unjoined, faults, workers, topic>>

AllJoined == joining = {} /\ Goto("join", "drain")

DrainGet(r) ==
  /\ pc = "drain"
  /\ r \in pipe
  /\ pipe' = pipe \ {r}
  /\ tuples' = tuples \cup {r}
  /\ UNCHANGED <<store, pc, cycle, todo, joining, unjoined, clean, faults,
                 querying, buffered, topic>>

DrainEmpty == pipe = {} /\ Goto("drain", "notify")

\* Mutant: the list outlives the loop over it.
StartNotifierKeeps(r) ==
  /\ pc = "notify"
  /\ r \in tuples
  /\ notifying' = notifying \cup {r}
  /\ unjoined' = unjoined \cup {r}
  /\ UNCHANGED <<store, pc, cycle, todo, joining, tuples, clean, faults,
                 workers, bus>>

StartNotifier(r) ==
  /\ pc = "notify"
  /\ r \in tuples
  /\ tuples' = tuples \ {r}
  /\ notifying' = notifying \cup {r}
  /\ unjoined' = unjoined \cup {r}
  /\ UNCHANGED <<store, pc, cycle, todo, joining, clean, faults, workers, bus>>

AllNotified == tuples = {} /\ Goto("notify", "settle")

JoinNotifierExited(r) ==
  /\ pc = "settle"
  /\ r \in unjoined \ notifying
  /\ unjoined' = unjoined \ {r}
  /\ UNCHANGED <<store, pc, cycle, todo, joining, tuples, clean, faults,
                 workers, topic>>

JoinNotifierTimeout(r) ==
  /\ pc = "settle"
  /\ r \in unjoined \cap notifying
  /\ unjoined' = unjoined \ {r}
  /\ clean' = FALSE
  /\ UNCHANGED <<store, pc, cycle, todo, joining, tuples, faults, workers, topic>>

Sleep == unjoined = {} /\ Goto("settle", "read")

\* Mutant: the exception is raised again, as the handler for peewee's does.
RaiseAgain == FALSE

\* "except Exception" logs and the loop starts over, without the sleep.
LoopAgain == Goto("raised", "read")

\* A fork fails: the local lists go, the children already started live on.
StartFails ==
  /\ \/ pc = "start" /\ todo # {}
     \/ pc = "notify" /\ tuples # {}
  /\ pc' = "raised"
  /\ faults < MaxFaults
  /\ faults' = faults + 1
  /\ todo' = {} /\ joining' = {} /\ tuples' = {} /\ unjoined' = {}
  /\ clean' = FALSE
  /\ UNCHANGED <<store, cycle, workers, topic>>

\* The container stops and starts: every process and the queue are gone.
Restart ==
  /\ pc' = "read"
  /\ faults < MaxFaults
  /\ faults' = faults + 1
  /\ todo' = {} /\ joining' = {} /\ tuples' = {} /\ unjoined' = {}
  /\ querying' = {} /\ buffered' = {} /\ pipe' = {} /\ notifying' = {}
  /\ UNCHANGED <<store, cycle, clean, bus>>

-----------------------------------------------------------------------------
(* The children. *)

Crossed(a, v) ==
  /\ v # NaN
  /\ \/ Operation[a] = "gt" /\ v > Threshold[a]
     \/ Operation[a] = "lt" /\ v < Threshold[a]

\* Mutant: a third outcome that AlarmStatus does not have.
VerdictWithError(a, v) ==
  IF v = NaN THEN "error" ELSE IF Crossed(a, v) THEN "alarm" ELSE "ok"

Verdict(a, v) == IF Crossed(a, v) THEN "alarm" ELSE "ok"

\* A worker's queue.put: the verdict waits for the worker's feeder thread.
Put(j, status) ==
  /\ j \in querying
  /\ querying' = querying \ {j}
  /\ buffered' = buffered \cup {[job |-> j, status |-> status]}
  /\ UNCHANGED <<store, loop, pipe, topic>>

EvaluateSample(j) ==
  /\ Operation[j.alarm] # "other"
  /\ \E v \in Sample : Put(j, Verdict(j.alarm, v))

EvaluateNoData(j) == Put(j, "insufficient-data")

\* The query raises, or there is a sample and the operation is unknown.
EvaluateSilently(j) ==
  /\ j \in querying
  /\ querying' = querying \ {j}
  /\ UNCHANGED <<store, loop, buffered, pipe, topic>>

Flush(r) ==
  /\ r \in buffered
  /\ Cardinality(pipe) < PipeCap
  /\ buffered' = buffered \ {r}
  /\ pipe' = pipe \cup {r}
  /\ UNCHANGED <<store, loop, querying, topic>>

\* Mutant: the notifier retries a write that succeeded.
PublishAgain(r) ==
  /\ r \in notifying
  /\ bus' = Append(bus, r)
  /\ UNCHANGED <<store, loop, workers, notifying>>

Publish(r) ==
  /\ r \in notifying
  /\ notifying' = notifying \ {r}
  /\ bus' = Append(bus, r)
  /\ UNCHANGED <<store, loop, workers>>

PublishFails(r) ==
  /\ r \in notifying
  /\ notifying' = notifying \ {r}
  /\ UNCHANGED <<store, loop, workers, bus>>

-----------------------------------------------------------------------------

Env == \E a \in Alarm : StoreAlarm(a) \/ DropAlarm(a)

Main ==
  \/ GetAlarms \/ GetAlarmsRaises \/ AllStarted \/ AllJoined \/ DrainEmpty
  \/ AllNotified \/ Sleep \/ LoopAgain
  \/ \E a \in todo : StartWorker(a)
  \/ \E j \in joining : JoinExited(j) \/ JoinTimeout(j)
  \/ \E r \in pipe : DrainGet(r)
  \/ \E r \in tuples : StartNotifier(r)
  \/ \E r \in unjoined : JoinNotifierExited(r) \/ JoinNotifierTimeout(r)

Fault == GetAlarmsFails \/ StartFails \/ Restart

Child ==
  \/ \E j \in querying :
       EvaluateSample(j) \/ EvaluateNoData(j) \/ EvaluateSilently(j)
  \/ \E r \in buffered : Flush(r)
  \/ \E r \in notifying : Publish(r) \/ PublishFails(r)

Next == Env \/ Main \/ Fault \/ Child

Spec == Init /\ [][Next]_vars

\* The loop's process is scheduled; a child, the TSDB and the broker need not be.
FairSpec == Spec /\ WF_vars(Main)

-----------------------------------------------------------------------------
(* Properties. *)

\* No evaluation of an alarm is notified twice, whatever workers and notifiers
\* run late: a verdict goes through the queue, the list and one notifier
\* (evaluator.py 61-71, service.py 77-91).
NotifiedOnce ==
  \A i, k \in DOMAIN bus : i # k => bus[i].job # bus[k].job

\* Until a join times out or a cycle breaks off, the notifications of an alarm
\* reach the topic in the order of its evaluations: the joins, not the queue,
\* keep the cycles apart.
OrderedWhileClean ==
  clean => \A i, k \in DOMAIN bus :
             i < k /\ bus[i].job.alarm = bus[k].job.alarm
               => bus[i].job.cycle < bus[k].job.cycle

\* A cycle always ends, though a worker may hang on the TSDB, wait for room in
\* a pipe that nobody drains before the joins, or hang on the broker.
CycleCompletes == pc # "read" ~> pc = "read"

\* Some stored alarm has a threshold that float() refuses.
Poisoned == ~ (db \subseteq WellFormed)

\* A verdict that has reached the pipe is handed to a notifier, if need be in a
\* later cycle than its own, unless some fault has happened or a malformed alarm
\* stops the cycles.
VerdictHandedOver ==
  \A j \in Job :
    (\E r \in pipe \cup tuples : r.job = j)
      ~> \/ \E r \in notifying : r.job = j
         \/ \E i \in DOMAIN bus : bus[i].job = j
         \/ faults > 0 \/ Poisoned

\* A stored alarm is evaluated as long as it stays stored, database errors and
\* restarts notwithstanding (evaluator.py 51-59 loops again after any error),
\* unless a malformed alarm is stored too.
StoredAlarmEvaluated ==
  \A a \in WellFormed :
    a \in db ~> a \notin db \/ a \in todo \/ cycle = MaxCycle \/ Poisoned

\* docs/architecture.md 72: "MON Evaluator iterates over the alarms stored in the
\* system and evaluates the corresponding metric", whatever else is stored.
EveryStoredAlarmEvaluated ==
  \A a \in WellFormed : a \in db ~> a \notin db \/ a \in todo \/ cycle = MaxCycle

\* The loop implements the channel its readers are promised.
Channel == INSTANCE NotificationChannel WITH pending <- Held
ChannelSpec == Channel!Spec
=============================================================================
