-------------------------- MODULE EvaluatorProofs --------------------------
(***************************************************************************)
(* What the evaluator guarantees for every set of alarms, pipe capacity and *)
(* number of cycles and faults: its types; that an evaluation is notified   *)
(* once; that the notifications of an alarm keep the order of the cycles    *)
(* until a join times out or a cycle breaks off; and that what its queue,   *)
(* its list and its notifiers hold is NotificationChannel's set of pending  *)
(* verdicts.                                                                *)
(***************************************************************************)
EXTENDS Evaluator, TLAPS

\* A job the evaluator knows belongs to a cycle that has begun, and its alarm
\* has left the list of those still without a worker.
Begun(j) == j.cycle <= cycle /\ (j.cycle = cycle => j.alarm \notin todo)

AllBegun ==
  /\ \A j \in querying : Begun(j)
  /\ \A r \in Held : Begun(r.job)
  /\ \A i \in DOMAIN bus : Begun(bus[i].job)

\* The places a verdict can be in share no job.
Apart ==
  /\ buffered \cap pipe = {} /\ buffered \cap tuples = {}
  /\ buffered \cap notifying = {} /\ pipe \cap tuples = {}
  /\ pipe \cap notifying = {} /\ tuples \cap notifying = {}
  /\ \A r, s \in Held : r.job = s.job => r = s
  /\ \A r \in Held : r.job \notin querying
  /\ \A i \in DOMAIN bus : bus[i].job \notin querying
  /\ \A i \in DOMAIN bus, r \in Held : bus[i].job # r.job

CycleStarted == todo # {} => cycle >= 1

OnceInv == TypeOK /\ CycleStarted /\ AllBegun /\ Apart /\ NotifiedOnce

-----------------------------------------------------------------------------
(* Lemmas. *)

\* What Append does to the topic: one more message, the others as they were.
LEMMA AppendFacts ==
  ASSUME NEW S, NEW s \in Seq(S), NEW e \in S
  PROVE  /\ Append(s, e) \in Seq(S)
         /\ DOMAIN Append(s, e) = DOMAIN s \cup {Len(s) + 1}
         /\ Len(s) + 1 \notin DOMAIN s
         /\ \A i \in DOMAIN s : i \in Nat /\ i < Len(s) + 1 /\ Append(s, e)[i] = s[i]
         /\ Append(s, e)[Len(s) + 1] = e
  OBVIOUS

\* TypeOK holds initially (Evaluator.__init__ and EvaluatorService.__init__).
LEMMA InitTypeOK == Init => TypeOK /\ CycleStarted
  BY EvaluatorAssumption, SMT DEF Init, TypeOK, Control, CycleStarted

\* Every step keeps the types; a worker is only started in a cycle that counts.
LEMMA NextTypeOK ==
  TypeOK /\ CycleStarted /\ [Next]_vars => TypeOK' /\ CycleStarted'
<1> SUFFICES ASSUME TypeOK, CycleStarted, [Next]_vars
             PROVE  TypeOK' /\ CycleStarted'
  OBVIOUS
<1> USE EvaluatorAssumption DEF TypeOK, CycleStarted, store, lists, workers, topic, loop, Control
<1>1. CASE Env
  BY <1>1 DEF Env, StoreAlarm, DropAlarm
<1>2. CASE GetAlarms
  BY <1>2 DEF GetAlarms, Snapshot
<1>3. ASSUME NEW from \in Control, NEW to \in Control, Goto(from, to)
      PROVE  TypeOK' /\ CycleStarted'
  BY <1>3 DEF Goto
<1>4. CASE GetAlarmsRaises \/ AllStarted \/ AllJoined \/ DrainEmpty \/ AllNotified
           \/ Sleep \/ LoopAgain
  BY <1>3, <1>4 DEF GetAlarmsRaises, AllStarted, AllJoined, DrainEmpty,
                    AllNotified, Sleep, LoopAgain
<1>5. ASSUME NEW a \in todo, StartWorker(a)
      PROVE  TypeOK' /\ CycleStarted'
  <2>1. [alarm |-> a, cycle |-> cycle] \in Job
    BY <1>5 DEF Job
  <2> QED
    BY <1>5, <2>1 DEF StartWorker
<1>6. ASSUME NEW j \in joining, JoinExited(j) \/ JoinTimeout(j)
      PROVE  TypeOK' /\ CycleStarted'
  BY <1>6 DEF JoinExited, JoinTimeout
<1>7. ASSUME NEW r \in pipe, DrainGet(r)
      PROVE  TypeOK' /\ CycleStarted'
  BY <1>7 DEF DrainGet
<1>8. ASSUME NEW r \in tuples, StartNotifier(r)
      PROVE  TypeOK' /\ CycleStarted'
  BY <1>8 DEF StartNotifier
<1>9. ASSUME NEW r \in unjoined, JoinNotifierExited(r) \/ JoinNotifierTimeout(r)
      PROVE  TypeOK' /\ CycleStarted'
  BY <1>9 DEF JoinNotifierExited, JoinNotifierTimeout
<1>10. CASE Fault
  <2>1. CASE GetAlarmsFails
    BY <2>1 DEF GetAlarmsFails
  <2>2. CASE StartFails
    <3>1. clean' \in BOOLEAN
      BY <2>2 DEF StartFails
    <3>2. faults' \in 0..MaxFaults
      BY <2>2 DEF StartFails
    <3> QED
      BY <2>2, <3>1, <3>2 DEF StartFails
  <2>3. CASE Restart
    BY <2>3 DEF Restart
  <2> QED
    BY <1>10, <2>1, <2>2, <2>3 DEF Fault
<1>11. ASSUME NEW j \in querying,
              EvaluateSample(j) \/ EvaluateNoData(j) \/ EvaluateSilently(j)
       PROVE  TypeOK' /\ CycleStarted'
  <2>1. ASSUME NEW st \in Status, Put(j, st)
        PROVE  TypeOK' /\ CycleStarted'
    <3>1. [job |-> j, status |-> st] \in Result
      BY DEF Result
    <3> QED
      BY <2>1, <3>1 DEF Put
  <2>2. \A v \in Sample : Verdict(j.alarm, v) \in Status
    BY DEF Verdict, Status
  <2>3. "insufficient-data" \in Status
    BY DEF Status
  <2>4. CASE EvaluateSample(j)
    BY <2>1, <2>2, <2>4 DEF EvaluateSample
  <2>5. CASE EvaluateNoData(j)
    BY <2>1, <2>3, <2>5 DEF EvaluateNoData
  <2>6. CASE EvaluateSilently(j)
    BY <2>6 DEF EvaluateSilently
  <2> QED
    BY <1>11, <2>4, <2>5, <2>6
<1>12. ASSUME NEW r \in buffered, Flush(r)
       PROVE  TypeOK' /\ CycleStarted'
  BY <1>12 DEF Flush
<1>13. ASSUME NEW r \in notifying, Publish(r) \/ PublishFails(r)
       PROVE  TypeOK' /\ CycleStarted'
  <2>1. r \in Result /\ Append(bus, r) \in Seq(Result)
    BY AppendFacts
  <2>2. CASE Publish(r)
    BY <2>1, <2>2 DEF Publish
  <2>3. CASE PublishFails(r)
    BY <2>3 DEF PublishFails
  <2> QED
    BY <1>13, <2>2, <2>3
<1>14. CASE UNCHANGED vars
  BY <1>14 DEF vars
<1> QED
  BY <1>1, <1>2, <1>4, <1>5, <1>6, <1>7, <1>8, <1>9, <1>10, <1>11, <1>12,
     <1>13, <1>14 DEF Next, Main, Child

\* The state of every run is well typed.
THEOREM TypeCorrect == Spec => []TypeOK
<1>1. Spec => [](TypeOK /\ CycleStarted)
  BY InitTypeOK, NextTypeOK, PTL DEF Spec
<1> QED
  BY <1>1, PTL

-----------------------------------------------------------------------------
(* An evaluation is notified once. *)

Once == AllBegun /\ Apart /\ NotifiedOnce

\* Steps that touch no worker, verdict or message: joins, moves of the loop,
\* the store.
LEMMA QuietOnce ==
  ASSUME OnceInv, UNCHANGED <<cycle, workers, tuples, topic>>, todo' \subseteq todo
  PROVE  Once'
  BY DEF OnceInv, Once, AllBegun, Begun, Apart, NotifiedOnce, Held, workers, topic

\* Steps that only forget workers and verdicts: failures and restarts.
LEMMA ForgetOnce ==
  ASSUME OnceInv, UNCHANGED <<cycle, bus>>, todo' \subseteq todo,
         querying' \subseteq querying, buffered' \subseteq buffered,
         pipe' \subseteq pipe, tuples' \subseteq tuples,
         notifying' \subseteq notifying
  PROVE  Once'
<1>1. Held' \subseteq Held
  BY DEF Held
<1>2. AllBegun'
  BY <1>1 DEF OnceInv, AllBegun, Begun
<1>3. Apart'
  BY <1>1 DEF OnceInv, Apart
<1> QED
  BY <1>2, <1>3 DEF OnceInv, Once, NotifiedOnce

\* Steps that move one verdict from a place to the next.
LEMMA MoveOnce ==
  ASSUME OnceInv, UNCHANGED <<cycle, todo, querying, bus>>, Held' = Held,
         /\ buffered' \cap pipe' = {} /\ buffered' \cap tuples' = {}
         /\ buffered' \cap notifying' = {} /\ pipe' \cap tuples' = {}
         /\ pipe' \cap notifying' = {} /\ tuples' \cap notifying' = {}
  PROVE  Once'
<1>1. AllBegun'
  BY DEF OnceInv, AllBegun, Begun
<1>2. Apart'
  BY DEF OnceInv, Apart
<1> QED
  BY <1>1, <1>2 DEF OnceInv, Once, NotifiedOnce

\* A worker that puts its verdict: the job leaves querying for buffered.
LEMMA PutOnce ==
  ASSUME OnceInv, NEW j \in querying, NEW st \in Status, Put(j, st)
  PROVE  Once'
<1> DEFINE r == [job |-> j, status |-> st]
<1>1. r.job = j
  OBVIOUS
<1> HIDE DEF r
<1>2. /\ querying' = querying \ {j} /\ buffered' = buffered \cup {r}
      /\ UNCHANGED <<cycle, todo, pipe, tuples, notifying, bus>>
  BY DEF Put, r, loop, lists, topic
<1>3. Held' = Held \cup {r}
  BY <1>2 DEF Held
<1>4. r \notin Held
  BY <1>1 DEF OnceInv, Apart
<1>5. AllBegun'
  BY <1>1, <1>2, <1>3 DEF OnceInv, AllBegun, Begun
<1>6. Apart'
  <2>1. /\ buffered' \cap pipe' = {} /\ buffered' \cap tuples' = {}
        /\ buffered' \cap notifying' = {} /\ pipe' \cap tuples' = {}
        /\ pipe' \cap notifying' = {} /\ tuples' \cap notifying' = {}
    BY <1>2, <1>4 DEF OnceInv, Apart, Held
  <2>2. \A q, s \in Held' : q.job = s.job => q = s
    BY <1>1, <1>3 DEF OnceInv, Apart
  <2>3. \A q \in Held' : q.job \notin querying'
    BY <1>1, <1>2, <1>3 DEF OnceInv, Apart
  <2>4. \A i \in DOMAIN bus' : bus'[i].job \notin querying'
    BY <1>2 DEF OnceInv, Apart
  <2>5. \A i \in DOMAIN bus', q \in Held' : bus'[i].job # q.job
    BY <1>1, <1>2, <1>3 DEF OnceInv, Apart
  <2> QED
    BY <2>1, <2>2, <2>3, <2>4, <2>5 DEF Apart
<1>7. NotifiedOnce'
  BY <1>2 DEF OnceInv, NotifiedOnce
<1> QED
  BY <1>5, <1>6, <1>7 DEF Once

\* A notifier whose write succeeds: the verdict leaves memory for the topic.
LEMMA PublishOnce ==
  ASSUME OnceInv, NEW r \in notifying, Publish(r)
  PROVE  Once'
<1>1. /\ notifying' = notifying \ {r} /\ bus' = Append(bus, r)
      /\ UNCHANGED <<cycle, todo, querying, buffered, pipe, tuples>>
  BY DEF Publish, loop, lists, workers
<1>2. Held' = Held \ {r} /\ r \in Held
  BY <1>1 DEF OnceInv, Apart, Held
<1> DEFINE n == Len(bus) + 1
<1>3. /\ DOMAIN bus' = DOMAIN bus \cup {n} /\ n \notin DOMAIN bus
      /\ \A i \in DOMAIN bus : bus'[i] = bus[i]
      /\ bus'[n] = r
  BY <1>1, AppendFacts DEF OnceInv, TypeOK
<1> HIDE DEF n
<1>4. AllBegun'
  BY <1>1, <1>2, <1>3 DEF OnceInv, AllBegun, Begun
<1>5. Apart'
  <2>1. /\ buffered' \cap pipe' = {} /\ buffered' \cap tuples' = {}
        /\ buffered' \cap notifying' = {} /\ pipe' \cap tuples' = {}
        /\ pipe' \cap notifying' = {} /\ tuples' \cap notifying' = {}
    BY <1>1 DEF OnceInv, Apart
  <2>2. /\ \A q, s \in Held' : q.job = s.job => q = s
        /\ \A q \in Held' : q.job \notin querying'
    BY <1>1, <1>2 DEF OnceInv, Apart
  <2>3. \A i \in DOMAIN bus' : bus'[i].job \notin querying'
    BY <1>1, <1>2, <1>3 DEF OnceInv, Apart
  <2>4. \A i \in DOMAIN bus', q \in Held' : bus'[i].job # q.job
    BY <1>1, <1>2, <1>3 DEF OnceInv, Apart
  <2> QED
    BY <2>1, <2>2, <2>3, <2>4 DEF Apart
<1>6. NotifiedOnce'
  BY <1>2, <1>3 DEF OnceInv, NotifiedOnce, Apart
<1> QED
  BY <1>4, <1>5, <1>6 DEF Once

\* A worker is started for a job that is nowhere yet.
LEMMA StartWorkerOnce ==
  ASSUME OnceInv, NEW a \in todo, StartWorker(a)
  PROVE  Once'
<1>1. PICK j : j = [alarm |-> a, cycle |-> cycle]
  OBVIOUS
<1>2. j.alarm = a /\ j.cycle = cycle
  BY <1>1
<1>3. /\ querying' = querying \cup {j} /\ todo' = todo \ {a}
      /\ UNCHANGED <<cycle, buffered, pipe, tuples, notifying, bus>>
  BY <1>1 DEF StartWorker, topic
<1>4. Held' = Held
  BY <1>3 DEF Held
<1>5. /\ j \notin querying
      /\ \A r \in Held : r.job # j
      /\ \A i \in DOMAIN bus : bus[i].job # j
  BY <1>2 DEF OnceInv, AllBegun, Begun
<1>6. AllBegun'
  <2>1. \A k : Begun(k) => Begun(k)'
    BY <1>3 DEF Begun
  <2>2. Begun(j)'
    BY <1>2, <1>3, EvaluatorAssumption DEF OnceInv, TypeOK, Begun
  <2> QED
    BY <1>3, <1>4, <2>1, <2>2 DEF OnceInv, AllBegun
<1>7. Apart'
  BY <1>3, <1>4, <1>5 DEF OnceInv, Apart
<1> QED
  BY <1>3, <1>6, <1>7 DEF OnceInv, Once, NotifiedOnce

\* A new cycle leaves every known job behind.
LEMMA GetAlarmsOnce ==
  ASSUME OnceInv, GetAlarms
  PROVE  Once'
<1>1. UNCHANGED <<querying, buffered, pipe, tuples, notifying, bus>>
  BY DEF GetAlarms, workers, topic
<1>2. /\ \A j \in querying : j.cycle \in Int
      /\ \A r \in Held : r.job.cycle \in Int
      /\ \A i \in DOMAIN bus : bus[i].job.cycle \in Int
  <2>1. \A j \in Job : j.cycle \in Int
    BY EvaluatorAssumption DEF Job
  <2>2. \A r \in Result : r.job \in Job
    BY DEF Result
  <2>3. Held \subseteq Result /\ \A i \in DOMAIN bus : bus[i] \in Result
    BY DEF OnceInv, TypeOK, Held
  <2> QED
    BY <2>1, <2>2, <2>3 DEF OnceInv, TypeOK
<1>3. \A j : j.cycle \in Int /\ Begun(j) => Begun(j)'
  BY DEF OnceInv, TypeOK, Begun, GetAlarms
<1>4. AllBegun'
  BY <1>1, <1>2, <1>3 DEF OnceInv, AllBegun, Held
<1>5. Apart'
  BY <1>1 DEF OnceInv, Apart, Held
<1> QED
  BY <1>1, <1>4, <1>5 DEF OnceInv, Once, NotifiedOnce

\* Every step keeps an evaluation in one place and its notification single.
LEMMA NextOnce == OnceInv /\ [Next]_vars => OnceInv'
<1> SUFFICES ASSUME OnceInv, [Next]_vars
             PROVE  Once'
  BY NextTypeOK DEF OnceInv, Once
<1> USE DEF store, lists, workers, topic, loop
<1>1. CASE Env
  BY <1>1, QuietOnce DEF Env, StoreAlarm, DropAlarm
<1>2. CASE GetAlarms
  BY <1>2, GetAlarmsOnce
<1>3. ASSUME NEW from, NEW to, Goto(from, to)
      PROVE  Once'
  BY <1>3, QuietOnce DEF Goto
<1>4. CASE GetAlarmsRaises \/ AllStarted \/ AllJoined \/ DrainEmpty \/ AllNotified
           \/ Sleep \/ LoopAgain
  BY <1>3, <1>4 DEF GetAlarmsRaises, AllStarted, AllJoined, DrainEmpty,
                    AllNotified, Sleep, LoopAgain
<1>5. ASSUME NEW a \in todo, StartWorker(a)
      PROVE  Once'
  BY <1>5, StartWorkerOnce
<1>6. ASSUME NEW j \in joining, JoinExited(j) \/ JoinTimeout(j)
      PROVE  Once'
  BY <1>6, QuietOnce DEF JoinExited, JoinTimeout
<1>7. ASSUME NEW r \in pipe, DrainGet(r)
      PROVE  Once'
  <2>1. Held' = Held
    BY <1>7 DEF DrainGet, Held
  <2> QED
    BY <1>7, <2>1, MoveOnce DEF DrainGet, OnceInv, Apart
<1>8. ASSUME NEW r \in tuples, StartNotifier(r)
      PROVE  Once'
  <2>1. Held' = Held
    BY <1>8 DEF StartNotifier, Held
  <2> QED
    BY <1>8, <2>1, MoveOnce DEF StartNotifier, OnceInv, Apart
<1>9. ASSUME NEW r \in unjoined, JoinNotifierExited(r) \/ JoinNotifierTimeout(r)
      PROVE  Once'
  BY <1>9, QuietOnce DEF JoinNotifierExited, JoinNotifierTimeout
<1>10. CASE Fault
  <2>1. CASE GetAlarmsFails
    BY <2>1, QuietOnce DEF GetAlarmsFails
  <2>2. CASE StartFails
    BY <2>2, ForgetOnce DEF StartFails
  <2>3. CASE Restart
    BY <2>3, ForgetOnce DEF Restart
  <2> QED
    BY <1>10, <2>1, <2>2, <2>3 DEF Fault
<1>11. ASSUME NEW j \in querying,
              EvaluateSample(j) \/ EvaluateNoData(j) \/ EvaluateSilently(j)
       PROVE  Once'
  <2>1. \A v \in Sample : Verdict(j.alarm, v) \in Status
    BY DEF Verdict, Status
  <2>2. CASE EvaluateSample(j)
    BY <2>1, <2>2, PutOnce DEF EvaluateSample
  <2>3. CASE EvaluateNoData(j)
    BY <2>3, PutOnce DEF EvaluateNoData, Status
  <2>4. CASE EvaluateSilently(j)
    BY <2>4, ForgetOnce DEF EvaluateSilently
  <2> QED
    BY <1>11, <2>2, <2>3, <2>4
<1>12. ASSUME NEW r \in buffered, Flush(r)
       PROVE  Once'
  <2>1. Held' = Held
    BY <1>12 DEF Flush, Held
  <2> QED
    BY <1>12, <2>1, MoveOnce DEF Flush, OnceInv, Apart
<1>13. ASSUME NEW r \in notifying, Publish(r) \/ PublishFails(r)
       PROVE  Once'
  <2>1. CASE Publish(r)
    BY <2>1, PublishOnce
  <2>2. CASE PublishFails(r)
    BY <2>2, ForgetOnce DEF PublishFails
  <2> QED
    BY <1>13, <2>1, <2>2
<1>14. CASE UNCHANGED vars
  BY <1>14, QuietOnce DEF vars
<1> QED
  BY <1>1, <1>2, <1>4, <1>5, <1>6, <1>7, <1>8, <1>9, <1>10, <1>11, <1>12,
     <1>13, <1>14 DEF Next, Main, Child

\* Nothing is known of any job when the process starts.
LEMMA InitOnce == Init => OnceInv
<1> SUFFICES ASSUME Init PROVE OnceInv
  OBVIOUS
<1>1. Held = {} /\ querying = {} /\ DOMAIN bus = {}
  BY DEF Init, Held
<1> QED
  BY <1>1, InitTypeOK DEF OnceInv, AllBegun, Apart, NotifiedOnce, Held

LEMMA OnceInvariant == Spec => []OnceInv
  BY InitOnce, NextOnce, PTL DEF Spec

\* Whatever runs late, fails or restarts, no evaluation of an alarm is notified
\* twice.
THEOREM NotifiedOnceHolds == Spec => []NotifiedOnce
<1>1. OnceInv => NotifiedOnce
  BY DEF OnceInv
<1> QED
  BY <1>1, OnceInvariant, PTL

-----------------------------------------------------------------------------
(* Order: the two loops of joins leave nothing of a cycle alive when the   *)
(* next one begins.                                                        *)

\* While the run is clean all that is in memory is of the current cycle, the
\* live children are those still to be joined, and the loop's place says what
\* is empty.
Isolated ==
  clean =>
    /\ \A j \in querying : j.cycle = cycle /\ j \in joining
    /\ \A r \in buffered : r.job.cycle = cycle /\ r.job \in joining
    /\ \A r \in pipe \cup tuples : r.job.cycle = cycle
    /\ \A r \in notifying : r.job.cycle = cycle /\ r \in unjoined
    /\ pc \notin {"start", "join"} => joining = {}
    /\ pc \notin {"start", "join", "drain"} => pipe = {}
    /\ pc \notin {"drain", "notify"} => tuples = {}
    /\ pc \notin {"notify", "settle"} => unjoined = {}

OrderInv == OnceInv /\ Isolated /\ OrderedWhileClean

-----------------------------------------------------------------------------

\* Steps of the main loop between two of its phases.
LEMMA GotoIsolated ==
  ASSUME Isolated,
         \/ GetAlarmsRaises \/ AllStarted \/ AllJoined \/ DrainEmpty
         \/ AllNotified \/ Sleep \/ LoopAgain
  PROVE  Isolated'
<1> USE DEF Isolated, Goto, lists, workers, topic
<1>1. CASE GetAlarmsRaises
  BY <1>1 DEF GetAlarmsRaises
<1>2. CASE AllStarted
  BY <1>2 DEF AllStarted
<1>3. CASE AllJoined
  BY <1>3 DEF AllJoined
<1>4. CASE DrainEmpty
  BY <1>4 DEF DrainEmpty
<1>5. CASE AllNotified
  BY <1>5 DEF AllNotified
<1>6. CASE Sleep
  BY <1>6 DEF Sleep
<1>7. CASE LoopAgain
  BY <1>7 DEF LoopAgain
<1> QED
  BY <1>1, <1>2, <1>3, <1>4, <1>5, <1>6, <1>7

\* Every step keeps the cycles apart.
LEMMA NextIsolated == OnceInv /\ Isolated /\ [Next]_vars => Isolated'
<1> SUFFICES ASSUME OnceInv, Isolated, [Next]_vars
             PROVE  Isolated'
  OBVIOUS
<1> USE DEF Isolated, store, lists, workers, topic, loop
<1>1. CASE Env
  BY <1>1 DEF Env, StoreAlarm, DropAlarm
<1>2. CASE GetAlarms
  BY <1>2 DEF GetAlarms
<1>3. CASE GetAlarmsRaises \/ AllStarted \/ AllJoined \/ DrainEmpty \/ AllNotified
           \/ Sleep \/ LoopAgain
  BY <1>3, GotoIsolated
<1>4. ASSUME NEW a \in todo, StartWorker(a)
      PROVE  Isolated'
  BY <1>4 DEF StartWorker
<1>5. ASSUME NEW j \in joining, JoinExited(j) \/ JoinTimeout(j)
      PROVE  Isolated'
  BY <1>5 DEF JoinExited, JoinTimeout, Alive
<1>6. ASSUME NEW r \in pipe, DrainGet(r)
      PROVE  Isolated'
  BY <1>6 DEF DrainGet
<1>7. ASSUME NEW r \in tuples, StartNotifier(r)
      PROVE  Isolated'
  BY <1>7 DEF StartNotifier
<1>8. ASSUME NEW r \in unjoined, JoinNotifierExited(r) \/ JoinNotifierTimeout(r)
      PROVE  Isolated'
  BY <1>8 DEF JoinNotifierExited, JoinNotifierTimeout
<1>9. CASE Fault
  BY <1>9 DEF Fault, GetAlarmsFails, StartFails, Restart
<1>10. ASSUME NEW j \in querying,
              EvaluateSample(j) \/ EvaluateNoData(j) \/ EvaluateSilently(j)
       PROVE  Isolated'
  <2>1. ASSUME NEW st, Put(j, st)
        PROVE  Isolated'
    BY <2>1 DEF Put
  <2>2. CASE EvaluateSilently(j)
    BY <2>2 DEF EvaluateSilently
  <2> QED
    BY <1>10, <2>1, <2>2 DEF EvaluateSample, EvaluateNoData
<1>11. ASSUME NEW r \in buffered, Flush(r)
       PROVE  Isolated'
  BY <1>11 DEF Flush
<1>12. ASSUME NEW r \in notifying, Publish(r) \/ PublishFails(r)
       PROVE  Isolated'
  BY <1>12 DEF Publish, PublishFails
<1>13. CASE UNCHANGED vars
  BY <1>13 DEF vars
<1> QED
  BY <1>1, <1>2, <1>3, <1>4, <1>5, <1>6, <1>7, <1>8, <1>9, <1>10, <1>11,
     <1>12, <1>13 DEF Next, Main, Child

\* A notification published in a clean run comes after all those of earlier
\* cycles, and is the only one of its alarm in its own.
LEMMA PublishOrdered ==
  ASSUME OrderInv, NEW r \in notifying, Publish(r)
  PROVE  OrderedWhileClean'
<1> SUFFICES ASSUME clean'
             PROVE  \A i, k \in DOMAIN bus' :
                      i < k /\ bus'[i].job.alarm = bus'[k].job.alarm
                        => bus'[i].job.cycle < bus'[k].job.cycle
  BY DEF OrderedWhileClean
<1> DEFINE n == Len(bus) + 1
<1>1. /\ DOMAIN bus' = DOMAIN bus \cup {n} /\ n \notin DOMAIN bus
      /\ \A i \in DOMAIN bus : i \in Nat /\ i < n /\ bus'[i] = bus[i] /\ bus[i] \in Result
      /\ bus'[n] = r /\ r \in Result /\ n \in Nat
  BY AppendFacts DEF OrderInv, OnceInv, TypeOK, Publish
<1>2. clean /\ r.job.cycle = cycle
  BY DEF Publish, loop, OrderInv, Isolated
<1>3. \A i \in DOMAIN bus : bus[i].job.alarm = r.job.alarm
                              => bus[i].job.cycle < r.job.cycle
  <2> TAKE i \in DOMAIN bus
  <2> HAVE bus[i].job.alarm = r.job.alarm
  <2>1. bus[i].job \in Job /\ r.job \in Job
    BY <1>1 DEF Result
  <2>2. bus[i].job.cycle <= cycle
    BY DEF OrderInv, OnceInv, AllBegun, Begun
  <2>3. bus[i].job # r.job
    BY DEF OrderInv, OnceInv, Apart, Held
  <2>4. bus[i].job.cycle # r.job.cycle
    BY <2>1, <2>3 DEF Job
  <2> QED
    BY <1>2, <2>1, <2>2, <2>4, EvaluatorAssumption DEF Job
<1> HIDE DEF n
<1> QED
  BY <1>1, <1>2, <1>3 DEF OrderInv, OrderedWhileClean

\* Every other step leaves the topic as it was, and no step makes a run clean
\* again.
LEMMA OthersOrdered ==
  ASSUME OrderInv, [Next]_vars, bus' = bus
  PROVE  OrderedWhileClean'
<1>1. clean' => clean
  BY DEF Next, vars, loop, Env, Main, Fault, Child, StoreAlarm, DropAlarm, Goto,
         GetAlarms, GetAlarmsRaises, GetAlarmsFails, StartWorker, AllStarted,
         JoinExited, JoinTimeout, AllJoined, DrainGet, DrainEmpty, StartNotifier,
         AllNotified, JoinNotifierExited, JoinNotifierTimeout, Sleep, LoopAgain,
         StartFails, Restart, EvaluateSample, EvaluateNoData, EvaluateSilently,
         Put, Flush, Publish, PublishFails
<1> QED
  BY <1>1 DEF OrderInv, OrderedWhileClean

\* Only Publish writes to the topic.
LEMMA TopicStep ==
  ASSUME [Next]_vars
  PROVE  bus' = bus \/ \E r \in notifying : Publish(r)
<1> USE DEF vars, store, lists, workers, topic, loop
<1>1. CASE Env
  BY <1>1 DEF Env, StoreAlarm, DropAlarm
<1>2. CASE Main
  BY <1>2 DEF Main, Goto, GetAlarms, GetAlarmsRaises, StartWorker, AllStarted,
       JoinExited, JoinTimeout, AllJoined, DrainGet, DrainEmpty, StartNotifier,
       AllNotified, JoinNotifierExited, JoinNotifierTimeout, Sleep, LoopAgain
<1>3. CASE Fault
  BY <1>3 DEF Fault, GetAlarmsFails, StartFails, Restart
<1>4. CASE Child
  BY <1>4 DEF Child, EvaluateSample, EvaluateNoData, EvaluateSilently, Put,
       Flush, PublishFails
<1> QED
  BY <1>1, <1>2, <1>3, <1>4 DEF Next

LEMMA OrderInvariant == Spec => []OrderInv
<1>1. Init => OrderInv
  <2> SUFFICES ASSUME Init PROVE OrderInv
    OBVIOUS
  <2>1. Isolated
    BY DEF Init, Isolated
  <2>2. OrderedWhileClean
    BY DEF Init, OrderedWhileClean
  <2> QED
    BY <2>1, <2>2, InitOnce DEF OrderInv
<1>2. OrderInv /\ [Next]_vars => OrderInv'
  BY NextOnce, NextIsolated, PublishOrdered, OthersOrdered, TopicStep DEF OrderInv
<1> QED
  BY <1>1, <1>2, PTL DEF Spec

\* As long as every child ends before its join times out and no cycle breaks
\* off, an alarm's notifications are in the order of its evaluations.
THEOREM OrderedHolds == Spec => []OrderedWhileClean
<1>1. OrderInv => OrderedWhileClean
  BY DEF OrderInv
<1> QED
  BY <1>1, OrderInvariant, PTL

-----------------------------------------------------------------------------
(* The evaluator implements NotificationChannel. *)

\* Steps that add no verdict and publish none map to Lose or to a stutter.
LEMMA LoseStep ==
  ASSUME Held' \subseteq Held, bus' = bus
  PROVE  [Channel!Next]_(Channel!vars)
  BY DEF Channel!Next, Channel!Lose, Channel!vars

\* A worker that puts its verdict maps to Judge.
LEMMA JudgeStep ==
  ASSUME OnceInv, NEW j \in querying, NEW st \in Status, Put(j, st)
  PROVE  [Channel!Next]_(Channel!vars)
<1> DEFINE r == [job |-> j, status |-> st]
<1>1. r \in Channel!Result /\ r.job = j
  BY DEF OnceInv, TypeOK, Channel!Result
<1>2. j \notin Channel!Judged
  BY DEF OnceInv, Apart, Channel!Judged
<1>3. Held' = Held \cup {r} /\ bus' = bus
  BY DEF Put, Held, loop, lists, topic
<1> HIDE DEF r
<1>4. Channel!Judge(r)
  BY <1>1, <1>2, <1>3 DEF Channel!Judge
<1> QED
  BY <1>1, <1>4 DEF Channel!Next

\* A notifier whose write succeeds maps to Publish.
LEMMA PublishStep ==
  ASSUME OnceInv, NEW r \in notifying, Publish(r)
  PROVE  [Channel!Next]_(Channel!vars)
<1>1. r \in Channel!Result
  BY DEF OnceInv, TypeOK, Result, Channel!Result
<1>2. Held' = Held \ {r} /\ r \in Held /\ bus' = Append(bus, r)
  BY DEF Publish, OnceInv, Apart, Held, loop, lists, workers
<1>3. Channel!Publish(r)
  BY <1>2 DEF Channel!Publish
<1> QED
  BY <1>1, <1>3 DEF Channel!Next

\* Every step of the evaluator is a step of the channel or changes nothing of it.
LEMMA ChannelStep ==
  ASSUME OnceInv, [Next]_vars
  PROVE  [Channel!Next]_(Channel!vars)
<1> USE DEF store, lists, workers, topic, loop
<1>1. CASE Env
  BY <1>1, LoseStep DEF Env, StoreAlarm, DropAlarm, Held
<1>2. CASE Main
  <2>1. Held' \subseteq Held /\ bus' = bus
    BY <1>2 DEF Main, Goto, GetAlarms, GetAlarmsRaises, StartWorker, AllStarted,
       JoinExited, JoinTimeout, AllJoined, DrainGet, DrainEmpty, StartNotifier,
       AllNotified, JoinNotifierExited, JoinNotifierTimeout, Sleep, LoopAgain, Held
  <2> QED
    BY <2>1, LoseStep
<1>3. CASE Fault
  <2>1. Held' \subseteq Held /\ bus' = bus
    BY <1>3 DEF Fault, GetAlarmsFails, StartFails, Restart, Held
  <2> QED
    BY <2>1, LoseStep
<1>4. ASSUME NEW j \in querying,
             EvaluateSample(j) \/ EvaluateNoData(j) \/ EvaluateSilently(j)
      PROVE  [Channel!Next]_(Channel!vars)
  <2>1. \A v \in Sample : Verdict(j.alarm, v) \in Status
    BY DEF Verdict, Status
  <2>2. CASE EvaluateSample(j)
    BY <2>1, <2>2, JudgeStep DEF EvaluateSample
  <2>3. CASE EvaluateNoData(j)
    BY <2>3, JudgeStep DEF EvaluateNoData, Status
  <2>4. CASE EvaluateSilently(j)
    BY <2>4, LoseStep DEF EvaluateSilently, Held
  <2> QED
    BY <1>4, <2>2, <2>3, <2>4
<1>5. ASSUME NEW r \in buffered, Flush(r)
      PROVE  [Channel!Next]_(Channel!vars)
  BY <1>5, LoseStep DEF Flush, Held
<1>6. ASSUME NEW r \in notifying, Publish(r) \/ PublishFails(r)
      PROVE  [Channel!Next]_(Channel!vars)
  <2>1. CASE Publish(r)
    BY <2>1, PublishStep
  <2>2. CASE PublishFails(r)
    BY <2>2, LoseStep DEF PublishFails, Held
  <2> QED
    BY <1>6, <2>1, <2>2
<1>7. CASE UNCHANGED vars
  BY <1>7, LoseStep DEF vars, Held
<1> QED
  BY <1>1, <1>2, <1>3, <1>4, <1>5, <1>6, <1>7 DEF Next, Child

\* The evaluator keeps the promise made to the readers of "alarm_response":
\* every notification is one verdict reached once and published once.
THEOREM ImplementsChannel == Spec => ChannelSpec
<1>1. Init => Channel!Init
  BY DEF Init, Channel!Init, Held
<1>2. OnceInv /\ [Next]_vars => [Channel!Next]_(Channel!vars)
  BY ChannelStep
<1> QED
  BY <1>1, <1>2, OnceInvariant, PTL DEF Spec, ChannelSpec, Channel!Spec
=============================================================================
