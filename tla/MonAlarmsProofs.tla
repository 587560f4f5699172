-------------------------- MODULE MonAlarmsProofs --------------------------
(***************************************************************************)
(* The server is an environment the evaluator's guarantees hold in, and     *)
(* with it a deleted alarm goes quiet.  What the evaluator guarantees is    *)
(* taken from its own proofs.                                               *)
(***************************************************************************)
EXTENDS MonAlarms, TLAPS

EP == INSTANCE EvaluatorProofs

\* The collection holds the alarms ever made but not those deleted.
Stored ==
  /\ DOMAIN born \subseteq Alarm
  /\ db \cup dropped = DOMAIN born /\ db \cap dropped = {}

\* Storing an alarm gives it a uuid that no alarm had.
LEMMA StoreStep ==
  ASSUME Stored, NEW a \in Alarm, S!Store(a), UNCHANGED evaluator
  PROVE  Stored' /\ dropped' = dropped /\ E!StoreAlarm(a)
<1>1. DOMAIN born' = DOMAIN born \cup {a} /\ a \notin DOMAIN born
  BY DEF S!Store
<1>2. db' = db \cup {a} /\ dropped' = dropped
  BY DEF S!Store
<1> QED
  BY <1>1, <1>2 DEF Stored, E!StoreAlarm, evaluator, E!loop, E!lists, E!workers, E!topic

\* Dropping an alarm takes it from the collection.
LEMMA DropStep ==
  ASSUME Stored, NEW a \in db, S!Drop(a), UNCHANGED evaluator
  PROVE  Stored' /\ dropped \subseteq dropped' /\ E!DropAlarm(a) /\ a \in Alarm
  BY DEF S!Drop, Stored, E!DropAlarm, evaluator, E!loop, E!lists, E!workers, E!topic

\* Every step of the server is a step of the evaluator's environment, or changes
\* nothing the evaluator sees.
LEMMA ServerEnv ==
  ASSUME Stored, ServerStep
  PROVE  Stored' /\ dropped \subseteq dropped' /\ [E!Next]_(E!vars)
<1>0. S!Next /\ UNCHANGED evaluator
  BY DEF ServerStep
<1>1. ASSUME UNCHANGED <<db, dropped, born>>
      PROVE  Stored' /\ dropped \subseteq dropped' /\ [E!Next]_(E!vars)
  BY <1>0, <1>1 DEF Stored, E!vars, E!store, E!loop, E!lists, E!workers, E!topic, evaluator
<1>2. ASSUME NEW a \in Alarm, S!Store(a)
      PROVE  Stored' /\ dropped \subseteq dropped' /\ [E!Next]_(E!vars)
  BY <1>0, <1>2, StoreStep DEF E!Next, E!Env
<1>3. ASSUME NEW a \in db, S!Drop(a)
      PROVE  Stored' /\ dropped \subseteq dropped' /\ [E!Next]_(E!vars)
  BY <1>0, <1>3, DropStep DEF E!Next, E!Env
<1>4. CASE S!Send \/ S!Respond \/ S!RespondRaises \/ S!Commit \/ S!Crash
  BY <1>1, <1>4 DEF S!Send, S!Respond, S!RespondRaises, S!Commit, S!Crash, S!store
<1>5. CASE S!CreateAlarm \/ S!CreateRaises
  BY <1>1, <1>2, <1>5 DEF S!CreateAlarm, S!CreateRaises, S!store
<1>6. CASE S!DeleteAlarm \/ S!DeleteRaises
  BY <1>1, <1>3, <1>6 DEF S!DeleteAlarm, S!DeleteRaises, S!store
<1>7. CASE S!CreateRefused \/ S!DeleteNothing \/ S!Ignore
  BY <1>1, <1>7 DEF S!CreateRefused, S!DeleteNothing, S!Ignore, S!store
<1> QED
  BY <1>0, <1>4, <1>5, <1>6, <1>7 DEF S!Next, S!Callback

\* Every step of the evaluator leaves the collection as it was.
LEMMA EvaluatorOwn ==
  ASSUME Stored, EvaluatorStep
  PROVE  Stored' /\ UNCHANGED <<db, dropped>> /\ [E!Next]_(E!vars)
<1>1. E!Main \/ E!Fault \/ E!Child
  BY DEF EvaluatorStep
<1>2. UNCHANGED <<db, dropped>>
  BY <1>1 DEF E!Main, E!Fault, E!Child, E!Goto, E!GetAlarms, E!GetAlarmsRaises,
     E!StartWorker, E!AllStarted, E!JoinExited, E!JoinTimeout, E!AllJoined,
     E!DrainGet, E!DrainEmpty, E!StartNotifier, E!AllNotified, E!JoinNotifierExited,
     E!JoinNotifierTimeout, E!Sleep, E!LoopAgain, E!GetAlarmsFails, E!StartFails,
     E!Restart, E!EvaluateSample, E!EvaluateNoData, E!EvaluateSilently, E!Put,
     E!Flush, E!Publish, E!PublishFails, E!store
<1>3. born' = born
  BY DEF EvaluatorStep, server
<1>4. E!Next
  BY <1>1 DEF E!Next
<1> QED
  BY <1>2, <1>3, <1>4 DEF Stored

\* Server and evaluator together keep the store whole and are an evaluator.
LEMMA StepEvaluator ==
  ASSUME Stored, [Next]_vars
  PROVE  Stored' /\ [E!Next]_(E!vars)
<1>1. CASE UNCHANGED vars
  BY <1>1 DEF vars, server, evaluator, Stored, E!vars, E!store, E!loop, E!lists,
     E!workers, E!topic
<1> QED
  BY <1>1, ServerEnv, EvaluatorOwn DEF Next

\* The server implements the environment that the evaluator's guarantees assume:
\* a uuid is stored once and never after it was deleted, redelivered requests,
\* half-done writes and restarts of the server included.
THEOREM ImplementsEvaluator == Spec => EvaluatorSpec
<1>1. Init => Stored /\ E!Init
  BY DEF Init, S!Init, E!Init, Stored
<1>2. Stored /\ [Next]_vars => Stored' /\ [E!Next]_(E!vars)
  BY StepEvaluator
<1> QED
  BY <1>1, <1>2, PTL DEF Spec, EvaluatorSpec, E!Spec

-----------------------------------------------------------------------------
(* A deleted alarm goes quiet. *)

\* The evaluator here is the one its proofs are about.
LEMMA SameEvaluator == E!Spec => EP!Spec
<1>1. E!Init <=> EP!Init
  BY DEF E!Init, EP!Init
<1>2. [E!Next]_(E!vars) <=> [EP!Next]_(EP!vars)
  BY DEF E!vars, E!store, E!loop, E!lists, E!workers, E!topic, E!Next, E!Env,
     E!StoreAlarm, E!DropAlarm, E!Main, E!Fault, E!Child, E!Goto, E!WellFormed,
     E!Snapshot, E!GetAlarms, E!GetAlarmsRaises, E!StartWorker, E!AllStarted, E!Alive,
     E!JoinExited, E!JoinTimeout, E!AllJoined, E!DrainGet, E!DrainEmpty,
     E!StartNotifier, E!AllNotified, E!JoinNotifierExited, E!JoinNotifierTimeout,
     E!Sleep, E!LoopAgain, E!GetAlarmsFails, E!StartFails, E!Restart, E!Crossed,
     E!Verdict, E!Put, E!EvaluateSample, E!EvaluateNoData, E!EvaluateSilently,
     E!Cardinality, E!Flush, E!Publish, E!PublishFails,
     EP!vars, EP!store, EP!loop, EP!lists, EP!workers, EP!topic, EP!Next, EP!Env,
     EP!StoreAlarm, EP!DropAlarm, EP!Main, EP!Fault, EP!Child, EP!Goto, EP!WellFormed,
     EP!Snapshot, EP!GetAlarms, EP!GetAlarmsRaises, EP!StartWorker, EP!AllStarted, EP!Alive,
     EP!JoinExited, EP!JoinTimeout, EP!AllJoined, EP!DrainGet, EP!DrainEmpty,
     EP!StartNotifier, EP!AllNotified, EP!JoinNotifierExited, EP!JoinNotifierTimeout,
     EP!Sleep, EP!LoopAgain, EP!GetAlarmsFails, EP!StartFails, EP!Restart, EP!Crossed,
     EP!Verdict, EP!Put, EP!EvaluateSample, EP!EvaluateNoData, EP!EvaluateSilently,
     EP!Cardinality, EP!Flush, EP!Publish, EP!PublishFails
<1> QED
  BY <1>1, <1>2, PTL DEF E!Spec, EP!Spec

\* The alarms the evaluator still works on.
InMemory ==
  todo \cup {j.alarm : j \in querying} \cup {r.job.alarm : r \in E!Held}

\* While the run is clean none of them was deleted before the cycle began.
Quiet == settled \subseteq dropped /\ (clean => InMemory \cap settled = {})

\* Only reading the store brings an alarm into the evaluator's memory, and a run
\* that is not clean stays so.
LEMMA MemoryShrinks ==
  ASSUME E!Main \/ E!Fault \/ E!Child, ~ E!GetAlarms
  PROVE  InMemory' \subseteq InMemory /\ (clean' => clean)
<1> USE DEF E!store, E!loop, E!lists, E!workers, E!topic, InMemory, E!Held
<1>1. CASE \/ E!GetAlarmsRaises \/ E!AllStarted \/ E!AllJoined \/ E!DrainEmpty
           \/ E!AllNotified \/ E!Sleep \/ E!LoopAgain
  <2>1. UNCHANGED <<todo, querying, buffered, pipe, tuples, notifying, clean>>
    BY <1>1 DEF E!Goto, E!GetAlarmsRaises, E!AllStarted, E!AllJoined, E!DrainEmpty,
         E!AllNotified, E!Sleep, E!LoopAgain
  <2> QED
    BY <2>1
<1>2. ASSUME NEW a \in todo, E!StartWorker(a)
      PROVE  InMemory' \subseteq InMemory /\ (clean' => clean)
  BY <1>2 DEF E!StartWorker
<1>3. ASSUME NEW j \in joining, E!JoinExited(j) \/ E!JoinTimeout(j)
      PROVE  InMemory' \subseteq InMemory /\ (clean' => clean)
  BY <1>3 DEF E!JoinExited, E!JoinTimeout
<1>4. ASSUME NEW r \in pipe, E!DrainGet(r)
      PROVE  InMemory' \subseteq InMemory /\ (clean' => clean)
  BY <1>4 DEF E!DrainGet
<1>5. ASSUME NEW r \in tuples, E!StartNotifier(r)
      PROVE  InMemory' \subseteq InMemory /\ (clean' => clean)
  BY <1>5 DEF E!StartNotifier
<1>6. ASSUME NEW r \in unjoined, E!JoinNotifierExited(r) \/ E!JoinNotifierTimeout(r)
      PROVE  InMemory' \subseteq InMemory /\ (clean' => clean)
  BY <1>6 DEF E!JoinNotifierExited, E!JoinNotifierTimeout
<1>7. CASE E!Fault
  BY <1>7 DEF E!Fault, E!GetAlarmsFails, E!StartFails, E!Restart
<1>8. ASSUME NEW j \in querying, NEW st, E!Put(j, st)
      PROVE  InMemory' \subseteq InMemory /\ (clean' => clean)
  BY <1>8 DEF E!Put
<1>9. ASSUME NEW j \in querying,
             E!EvaluateSample(j) \/ E!EvaluateNoData(j) \/ E!EvaluateSilently(j)
      PROVE  InMemory' \subseteq InMemory /\ (clean' => clean)
  BY <1>8, <1>9 DEF E!EvaluateSample, E!EvaluateNoData, E!EvaluateSilently
<1>10. ASSUME NEW r \in buffered, E!Flush(r)
       PROVE  InMemory' \subseteq InMemory /\ (clean' => clean)
  BY <1>10 DEF E!Flush
<1>11. ASSUME NEW r \in notifying, E!Publish(r) \/ E!PublishFails(r)
       PROVE  InMemory' \subseteq InMemory /\ (clean' => clean)
  BY <1>11 DEF E!Publish, E!PublishFails
<1> QED
  BY <1>1, <1>2, <1>3, <1>4, <1>5, <1>6, <1>7, <1>9, <1>10, <1>11
     DEF E!Main, E!Child

\* A clean cycle begins with an empty memory and reads what is stored now.
LEMMA ReadQuiet ==
  ASSUME Stored, EP!OrderInv, Quiet, E!GetAlarms, settled' = dropped
  PROVE  Quiet'
<1>1. dropped' = dropped /\ clean' = clean /\ todo' \subseteq db /\ pc = "read"
  BY DEF E!GetAlarms, E!Snapshot, E!store
<1>2. UNCHANGED <<querying, buffered, pipe, tuples, notifying>>
  BY DEF E!GetAlarms, E!workers, E!topic
<1>3. ASSUME clean
      PROVE  querying = {} /\ E!Held = {}
  <2>1. joining = {} /\ pipe = {} /\ tuples = {} /\ unjoined = {}
    BY <1>1, <1>3 DEF EP!OrderInv, EP!Isolated
  <2> QED
    BY <1>3, <2>1 DEF EP!OrderInv, EP!Isolated, E!Held
<1>4. ASSUME clean'
      PROVE  InMemory' \subseteq db
  BY <1>1, <1>2, <1>3, <1>4 DEF InMemory, E!Held
<1> QED
  BY <1>1, <1>4 DEF Stored, Quiet

\* Every step keeps what was deleted before the cycle out of it.
LEMMA NextQuiet ==
  ASSUME Stored, EP!OrderInv, Quiet, [Next]_vars
  PROVE  Quiet'
<1>1. CASE ServerStep
  <2>1. dropped \subseteq dropped' /\ settled' = settled /\ InMemory' = InMemory /\ clean' = clean
    <3>1. dropped \subseteq dropped'
      BY <1>1, ServerEnv
    <3>2. UNCHANGED <<settled, evaluator>>
      BY <1>1 DEF ServerStep
    <3> QED
      BY <3>1, <3>2 DEF evaluator, InMemory, E!Held
  <2> QED
    BY <2>1 DEF Quiet
<1>2. CASE EvaluatorStep
  <2>1. E!Main \/ E!Fault \/ E!Child
    BY <1>2 DEF EvaluatorStep
  <2>2. CASE E!GetAlarms
    BY <1>2, <2>2, ReadQuiet DEF EvaluatorStep
  <2>3. CASE ~ E!GetAlarms
    <3>1. settled' = settled
      BY <1>2, <2>3 DEF EvaluatorStep
    <3>2. dropped' = dropped
      BY <1>2, EvaluatorOwn
    <3>3. InMemory' \subseteq InMemory /\ (clean' => clean)
      BY <2>1, <2>3, MemoryShrinks
    <3> QED
      BY <3>1, <3>2, <3>3 DEF Quiet
  <2> QED
    BY <2>2, <2>3
<1>3. CASE UNCHANGED vars
  BY <1>3 DEF vars, server, evaluator, Quiet, InMemory, E!Held
<1> QED
  BY <1>1, <1>2, <1>3 DEF Next

\* What is published was in memory.
LEMMA PublishedWasHeld ==
  ASSUME EP!OrderInv, [EP!Next]_(EP!vars), bus' # bus
  PROVE  bus'[Len(bus')].job.alarm \in InMemory
<1>1. PICK r \in notifying : EP!Publish(r)
  BY MonAlarmsAssumption, EP!TopicStep
<1>2. bus' = Append(bus, r)
  BY <1>1 DEF EP!Publish
<1>3. bus \in Seq(EP!Result) /\ r \in EP!Result
  BY DEF EP!OrderInv, EP!OnceInv, EP!TypeOK
<1>4. bus'[Len(bus')] = r
  BY <1>2, <1>3
<1> QED
  BY <1>4 DEF InMemory, E!Held

\* Once a cycle has read the store after an alarm was deleted, the alarm is not
\* notified any more, as long as no join times out (server.py 93-98,
\* evaluator.py 61-71).
THEOREM DeletedQuiet == Spec => DeletedGoesQuiet
<1>1. Spec => EP!Spec
  BY ImplementsEvaluator, SameEvaluator DEF EvaluatorSpec
<1>2. Spec => []EP!OrderInv
  BY <1>1, MonAlarmsAssumption, EP!OrderInvariant
<1>3. Spec => [][EP!Next]_(EP!vars)
  BY <1>1, PTL DEF EP!Spec
<1>4. Init => Stored /\ Quiet
  BY DEF Init, S!Init, E!Init, Stored, Quiet, InMemory, E!Held
<1>5. Stored /\ EP!OrderInv /\ Quiet /\ [Next]_vars => Stored' /\ Quiet'
  BY StepEvaluator, NextQuiet
<1>6. EP!OrderInv /\ Quiet /\ [EP!Next]_(EP!vars)
        => [clean /\ bus' # bus => bus'[Len(bus')].job.alarm \notin settled]_vars
  BY PublishedWasHeld DEF Quiet
<1> QED
  BY <1>2, <1>3, <1>4, <1>5, <1>6, PTL DEF Spec, DeletedGoesQuiet
=============================================================================
