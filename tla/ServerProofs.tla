---------------------------- MODULE ServerProofs ----------------------------
(***************************************************************************)
(* What the server guarantees for every number of clients, requests,        *)
(* crashes and exceptions: its types, that its answers are true, that a     *)
(* deleted alarm stays deleted, and what redelivery and lost answers cost.  *)
(***************************************************************************)
EXTENDS Server, FiniteSetTheorems, TLAPS

\* A delete request is about an alarm, and one response at most is pending.
DeletesNameAlarms ==
  \A i \in DOMAIN sent : sent[i].kind = "delete" => sent[i].about \in Alarm \cup {None}

OnePending == reply = {} \/ \E r \in Reply : reply = {r}

TypeInv == TypeOK /\ DeletesNameAlarms /\ OnePending

-----------------------------------------------------------------------------
(* Lemmas. *)

\* What is counted are natural numbers.
LEMMA Counts ==
  TypeInv => /\ position \in Nat /\ crashes \in Nat /\ errors \in Nat
             /\ committed \in Nat /\ committed <= position /\ position <= Len(sent)
<1>1. ASSUME TypeInv
      PROVE  /\ Len(sent) \in Nat /\ position \in 0..Len(sent) /\ committed \in 0..position
             /\ crashes \in 0..MaxCrashes /\ errors \in 0..MaxErrors
  BY <1>1 DEF TypeInv, TypeOK
<1>2. MaxCrashes \in Nat /\ MaxErrors \in Nat
  BY ServerAssumption
<1> QED
  BY <1>1, <1>2

LEMMA CountsAfter ==
  TypeInv' => position' \in Nat /\ crashes' \in Nat /\ errors' \in Nat
<1>1. ASSUME TypeInv'
      PROVE  /\ Len(sent') \in Nat /\ position' \in 0..Len(sent')
             /\ crashes' \in 0..MaxCrashes /\ errors' \in 0..MaxErrors
  BY <1>1 DEF TypeInv, TypeOK
<1>2. MaxCrashes \in Nat /\ MaxErrors \in Nat
  BY ServerAssumption
<1> QED
  BY <1>1, <1>2

\* The topic grows by one request, and the others stay where they were.
LEMMA AppendFacts ==
  ASSUME NEW S, NEW s \in Seq(S), NEW e \in S
  PROVE  /\ Append(s, e) \in Seq(S)
         /\ Len(Append(s, e)) = Len(s) + 1
         /\ DOMAIN Append(s, e) = DOMAIN s \cup {Len(s) + 1}
         /\ Len(s) + 1 \notin DOMAIN s
         /\ \A i \in DOMAIN s : Append(s, e)[i] = s[i]
         /\ Append(s, e)[Len(s) + 1] = e
  OBVIOUS

\* The request a callback is about to take.
LEMMA TakeFacts ==
  ASSUME TypeOK, NEW kind, Take(kind)
  PROVE  /\ position + 1 \in DOMAIN sent /\ position + 1 \in 1..MaxSent
         /\ position' \in 0..Len(sent) /\ committed \in 0..position'
         /\ Arrived = sent[position + 1] /\ Arrived \in Request
         /\ Arrived.about \in Alarm \cup Body \cup {None}
<1>1. /\ sent \in Seq(Request) /\ Len(sent) <= MaxSent /\ MaxSent \in Nat
      /\ position \in 0..Len(sent) /\ committed \in 0..position
      /\ position < Len(sent) /\ position' = position + 1
  BY ServerAssumption DEF TypeOK, Take
<1>2. position + 1 \in DOMAIN sent /\ Arrived \in Request
  BY <1>1 DEF Arrived
<1> QED
  BY <1>1, <1>2 DEF Arrived, Request

\* What storing an alarm does to the history of uuids.
LEMMA StoreFacts ==
  ASSUME TypeOK, NEW kind, Take(kind), NEW a \in Alarm, Store(a)
  PROVE  /\ DOMAIN born' = DOMAIN born \cup {a} /\ a \notin DOMAIN born
         /\ born'[a] = position + 1
         /\ \A b \in DOMAIN born : born'[b] = born[b]
         /\ \E S \in SUBSET Alarm : born' \in [S -> 1..MaxSent]
         /\ db' = db \cup {a} /\ dropped' = dropped
<1>1. /\ DOMAIN born \subseteq Alarm /\ \A b \in DOMAIN born : born[b] \in 1..MaxSent
  BY DEF TypeOK
<1>2. born' = [b \in DOMAIN born \cup {a} |-> IF b = a THEN position + 1 ELSE born[b]]
  BY DEF Store
<1>3. born' \in [DOMAIN born \cup {a} -> 1..MaxSent]
  BY <1>1, <1>2, TakeFacts
<1> QED
  BY <1>1, <1>2, <1>3 DEF Store

\* A response about the request just taken is well typed.
LEMMA AnswerType ==
  ASSUME TypeOK, NEW kind, Take(kind), NEW status \in BOOLEAN,
         NEW a \in Alarm \cup {None}, Answer(status, a)
  PROVE  reply' \subseteq Reply /\ OnePending'
<1>1. [offset |-> position + 1, status |-> status, alarm |-> a] \in Reply
  BY TakeFacts DEF Reply
<1> QED
  BY <1>1 DEF Answer, OnePending

\* The server starts with nothing requested, stored or answered.
LEMMA InitType == Init => TypeInv
<1> SUFFICES ASSUME Init PROVE TypeInv
  OBVIOUS
<1>1. /\ MaxSent \in Nat /\ MaxCrashes \in Nat /\ MaxErrors \in Nat
  BY ServerAssumption
<1>2. \E S \in SUBSET Alarm : born \in [S -> 1..MaxSent]
  <2>1. born \in [{} -> 1..MaxSent]
    BY DEF Init
  <2>2. {} \in SUBSET Alarm
    OBVIOUS
  <2> QED
    BY <2>1, <2>2
<1>3. sent \in Seq(Request) /\ Len(sent) = 0 /\ DOMAIN sent = {}
  BY DEF Init
<1>4. TypeOK
  BY <1>1, <1>2, <1>3 DEF Init, TypeOK
<1> QED
  BY <1>3, <1>4 DEF Init, TypeInv, DeletesNameAlarms, OnePending

\* A request of a client is well typed: it deletes what a client was told of.
LEMMA SendFacts ==
  ASSUME TypeOK, Send
  PROVE  /\ \E r \in Request : /\ sent' = Append(sent, r)
                               /\ r.kind = "delete" => r.about \in Told
         /\ UNCHANGED <<position, committed, store, reply, replies, crashes, errors>>
         /\ Len(sent) < MaxSent
<1>1. PICK k \in Sendable :
        \/ k = "create" /\ \E b \in Body : sent' = Append(sent, [kind |-> k, about |-> b])
        \/ k = "delete" /\ \E a \in Told : sent' = Append(sent, [kind |-> k, about |-> a])
        \/ /\ k \notin {"create", "delete"}
           /\ sent' = Append(sent, [kind |-> k, about |-> None])
  BY DEF Send
<1>2. k \in Kind
  BY <1>1, ServerAssumption
<1>3. Told \subseteq Alarm \cup {None}
  BY DEF Told, TypeOK, Reply
<1>4. ASSUME NEW x, x \in Alarm \cup Body \cup {None}, k = "delete" => x \in Told,
             sent' = Append(sent, [kind |-> k, about |-> x])
      PROVE  \E r \in Request : /\ sent' = Append(sent, r)
                                /\ r.kind = "delete" => r.about \in Told
  <2>1. [kind |-> k, about |-> x] \in Request
    BY <1>2, <1>4 DEF Request
  <2> QED
    BY <1>4, <2>1
<1>5. \E r \in Request : sent' = Append(sent, r) /\ (r.kind = "delete" => r.about \in Told)
  BY <1>1, <1>3, <1>4
<1> QED
  BY <1>5 DEF Send

\* What a callback that has taken a request leaves as it was.
LEMMA TakeType ==
  ASSUME TypeInv, NEW kind, Take(kind), errors' \in 0..MaxErrors,
         reply' \subseteq Reply, OnePending',
         db' \subseteq Alarm, dropped' \subseteq Alarm,
         \E S \in SUBSET Alarm : born' \in [S -> 1..MaxSent]
  PROVE  TypeInv'
<1>1. position' \in 0..Len(sent) /\ committed \in 0..position'
  BY TakeFacts DEF TypeInv
<1>2. sent' = sent /\ committed' = committed /\ replies' = replies /\ crashes' = crashes
  BY DEF Take
<1> QED
  BY <1>1, <1>2 DEF TypeInv, TypeOK, DeletesNameAlarms

\* A callback that leaves the store alone, or stores or drops an alarm, keeps the
\* store's type.
LEMMA StoreType ==
  ASSUME TypeInv, NEW kind, Take(kind),
         \/ UNCHANGED store
         \/ \E a \in Alarm : Store(a)
         \/ Arrived.about \in db /\ Drop(Arrived.about)
  PROVE  /\ db' \subseteq Alarm /\ dropped' \subseteq Alarm
         /\ \E S \in SUBSET Alarm : born' \in [S -> 1..MaxSent]
<1>1. CASE UNCHANGED store
  BY <1>1 DEF store, TypeInv, TypeOK
<1>2. CASE \E a \in Alarm : Store(a)
  BY <1>2, StoreFacts DEF TypeInv, TypeOK
<1>3. CASE Arrived.about \in db /\ Drop(Arrived.about)
  BY <1>3 DEF Drop, TypeInv, TypeOK
<1> QED
  BY <1>1, <1>2, <1>3

\* Every step keeps the types.
LEMMA NextType == TypeInv /\ [Next]_vars => TypeInv'
<1> SUFFICES ASSUME TypeInv, [Next]_vars PROVE TypeInv'
  OBVIOUS
<1> USE ServerAssumption
<1>0. TypeOK /\ errors \in 0..MaxErrors /\ MaxErrors \in Nat /\ MaxCrashes \in Nat
  BY DEF TypeInv, TypeOK
<1>1. CASE Send
  <2>1. PICK r \in Request : sent' = Append(sent, r) /\ (r.kind = "delete" => r.about \in Told)
    BY <1>0, <1>1, SendFacts
  <2>2. Told \subseteq Alarm \cup {None}
    BY <1>0 DEF Told, TypeOK, Reply
  <2>3. sent' \in Seq(Request) /\ Len(sent') = Len(sent) + 1 /\ Len(sent') <= MaxSent
    BY <1>0, <1>1, <2>1, AppendFacts DEF Send, TypeOK
  <2>4. DeletesNameAlarms'
    BY <1>0, <2>1, <2>2, AppendFacts DEF DeletesNameAlarms, TypeInv, TypeOK
  <2>5. UNCHANGED <<position, committed, db, dropped, born, reply, replies, crashes, errors>>
    BY <1>1 DEF Send, store
  <2> QED
    BY <1>0, <2>3, <2>4, <2>5 DEF TypeInv, TypeOK, OnePending
<1>2. ASSUME NEW kind, Take(kind), NEW status \in BOOLEAN, NEW a \in Alarm \cup {None},
             Answer(status, a), errors' \in 0..MaxErrors,
             \/ UNCHANGED store
             \/ \E b \in Alarm : Store(b)
             \/ Arrived.about \in db /\ Drop(Arrived.about)
      PROVE  TypeInv'
  BY <1>0, <1>2, AnswerType, StoreType, TakeType
<1>3. ASSUME Take("delete") PROVE Arrived.about \in Alarm \cup {None}
  BY <1>0, <1>3, TakeFacts DEF TypeInv, DeletesNameAlarms, Take
<1>4. CASE CreateAlarm
  BY <1>0, <1>2, <1>4 DEF CreateAlarm
<1>5. CASE CreateRefused
  BY <1>0, <1>2, <1>5 DEF CreateRefused
<1>6. CASE CreateRaises
  <2>1. errors' \in 0..MaxErrors
    BY <1>0, <1>6 DEF CreateRaises
  <2> QED
    BY <1>0, <1>2, <1>6, <2>1 DEF CreateRaises
<1>7. CASE DeleteAlarm
  BY <1>0, <1>2, <1>3, <1>7 DEF DeleteAlarm
<1>8. CASE DeleteNothing
  BY <1>0, <1>2, <1>3, <1>8 DEF DeleteNothing
<1>9. CASE DeleteRaises
  <2>1. errors' \in 0..MaxErrors
    BY <1>0, <1>9 DEF DeleteRaises
  <2> QED
    BY <1>0, <1>2, <1>3, <1>9, <2>1 DEF DeleteRaises
<1>10. CASE Ignore
  <2>1. PICK kind : Take(kind)
    BY <1>10 DEF Ignore
  <2>2. UNCHANGED store /\ reply' = reply /\ errors' = errors
    BY <1>10 DEF Ignore
  <2>3. reply' \subseteq Reply /\ OnePending'
    BY <1>0, <2>2 DEF TypeInv, TypeOK, OnePending
  <2> QED
    BY <1>0, <2>1, <2>2, <2>3, StoreType, TakeType
<1>11. CASE Respond \/ RespondRaises \/ Commit \/ Crash
  <2>1. UNCHANGED <<sent, db, dropped, born>>
    BY <1>11 DEF Respond, RespondRaises, Commit, Crash, store
  <2>2. reply' = reply \/ reply' = {}
    BY <1>11 DEF Respond, RespondRaises, Commit, Crash
  <2>3. replies' \subseteq Reply
    BY <1>0, <1>11 DEF Respond, RespondRaises, Commit, Crash, TypeOK
  <2>4. crashes' \in 0..MaxCrashes /\ errors' \in 0..MaxErrors
    BY <1>0, <1>11 DEF Respond, RespondRaises, Commit, Crash, TypeOK
  <2>5. position' \in 0..Len(sent) /\ committed' \in 0..position'
    BY <1>0, <1>11 DEF Respond, RespondRaises, Commit, Crash, TypeOK
  <2> QED
    BY <1>0, <2>1, <2>2, <2>3, <2>4, <2>5
       DEF TypeInv, TypeOK, DeletesNameAlarms, OnePending
<1>12. CASE UNCHANGED vars
  BY <1>12 DEF vars, store, TypeInv, TypeOK, DeletesNameAlarms, OnePending
<1> QED
  BY <1>1, <1>4, <1>5, <1>6, <1>7, <1>8, <1>9, <1>10, <1>11, <1>12 DEF Next, Callback

\* The state of every run is well typed.
THEOREM TypeCorrect == Spec => []TypeOK
<1>1. TypeInv => TypeOK
  BY DEF TypeInv
<1> QED
  BY <1>1, InitType, NextType, PTL DEF Spec

-----------------------------------------------------------------------------
(* What a step may do to the history the answers are about. *)

\* Requests and responses are never forgotten, uuids never made for another
\* request, deletions never undone, crashes and exceptions never uncounted.
Grows ==
  /\ DOMAIN sent \subseteq DOMAIN sent'
  /\ \A i \in DOMAIN sent : sent'[i] = sent[i]
  /\ DOMAIN born \subseteq DOMAIN born'
  /\ \A a \in DOMAIN born : born'[a] = born[a]
  /\ dropped \subseteq dropped' /\ replies \subseteq replies'
  /\ errors <= errors' /\ crashes <= crashes'

-----------------------------------------------------------------------------
(* The inductive invariants. *)

\* The collection holds the alarms ever made but not those deleted.
History == db \cup dropped = DOMAIN born /\ db \cap dropped = {}

\* Clients delete what they were told of.
RequestsTold == \A i \in DOMAIN sent : sent[i].kind = "delete" => sent[i].about \in Told

\* What a response, pending or published, says of the store, in a form that no
\* later step can make false.
Created(r) == sent[r.offset].kind = "create" /\ r.status

Truthful(r) ==
  /\ r.offset \in DOMAIN sent
  /\ Created(r) => r.alarm \in DOMAIN born
  /\ sent[r.offset].kind # "delete" /\ ~ Created(r) => r.alarm = None
  /\ sent[r.offset].kind = "delete" =>
       /\ r.alarm = sent[r.offset].about
       /\ r.alarm \in dropped \/ (~ r.status /\ errors > 0)

AnswersInv == History /\ RequestsTold /\ \A r \in replies \cup reply : Truthful(r)

\* Every request taken, not only those committed, has been acted upon.
TakenIsHandled ==
  \A k \in 1..position :
    sent[k].kind = "create" /\ errors = 0 => \E a \in DOMAIN born : born[a] = k

\* A delivery still to come is not counted yet.
Made(k) == {a \in DOMAIN born : born[a] = k}

MadeBounded ==
  /\ IsFiniteSet(DOMAIN born)
  /\ \A k \in 1..MaxSent :
       Cardinality(Made(k)) <= IF k <= position THEN 1 + crashes ELSE crashes

-----------------------------------------------------------------------------
(* Answers are true and what is deleted stays deleted. *)

\* Every step only adds to the history.
LEMMA NextGrows == TypeInv /\ [Next]_vars => Grows
<1> SUFFICES ASSUME TypeInv, [Next]_vars PROVE Grows
  OBVIOUS
<1>0. TypeOK /\ errors \in Int /\ crashes \in Int
  BY DEF TypeInv, TypeOK
<1>1. CASE Send
  <2>1. PICK r \in Request : sent' = Append(sent, r)
    BY <1>0, <1>1, SendFacts
  <2>2. UNCHANGED <<born, dropped, replies, errors, crashes>>
    BY <1>1 DEF Send, store
  <2>3. sent \in Seq(Request)
    BY <1>0 DEF TypeOK
  <2>4. DOMAIN sent \subseteq DOMAIN sent' /\ \A i \in DOMAIN sent : sent'[i] = sent[i]
    BY <2>1, <2>3, AppendFacts
  <2> QED
    BY <1>0, <2>2, <2>4 DEF Grows
<1>2. ASSUME NEW kind, Take(kind), errors <= errors',
             \/ UNCHANGED store
             \/ \E a \in Alarm : Store(a)
             \/ Arrived.about \in db /\ Drop(Arrived.about)
      PROVE  Grows
  <2>1. UNCHANGED <<sent, replies, crashes>>
    BY <1>2 DEF Take
  <2>2. CASE UNCHANGED store
    BY <1>0, <1>2, <2>1, <2>2 DEF Grows, store
  <2>3. CASE \E a \in Alarm : Store(a)
    <3>1. PICK a \in Alarm : Store(a)
      BY <2>3
    <3>2. /\ DOMAIN born \subseteq DOMAIN born' /\ dropped' = dropped
          /\ \A b \in DOMAIN born : born'[b] = born[b]
      BY <1>0, <1>2, <3>1, StoreFacts
    <3> QED
      BY <1>0, <1>2, <2>1, <3>2 DEF Grows
  <2>4. CASE Arrived.about \in db /\ Drop(Arrived.about)
    BY <1>0, <1>2, <2>1, <2>4 DEF Grows, Drop
  <2> QED
    BY <1>2, <2>2, <2>3, <2>4
<1>3. ASSUME CreateAlarm \/ CreateRefused \/ DeleteAlarm \/ DeleteNothing \/ Ignore
      PROVE  Grows
  <2>1. errors' = errors
    BY <1>3 DEF CreateAlarm, CreateRefused, DeleteAlarm, DeleteNothing, Ignore
  <2>2. errors <= errors'
    BY <1>0, <2>1
  <2>3. CASE CreateAlarm
    BY <1>2, <2>2, <2>3 DEF CreateAlarm
  <2>4. CASE DeleteAlarm
    BY <1>2, <2>2, <2>4 DEF DeleteAlarm
  <2>5. CASE CreateRefused \/ DeleteNothing \/ Ignore
    <3>1. UNCHANGED store /\ \E kind : Take(kind)
      BY <2>5 DEF CreateRefused, DeleteNothing, Ignore
    <3> QED
      BY <1>2, <2>2, <3>1
  <2> QED
    BY <1>3, <2>3, <2>4, <2>5
<1>4. ASSUME CreateRaises \/ DeleteRaises
      PROVE  Grows
  <2>1. errors' = errors + 1
    BY <1>4 DEF CreateRaises, DeleteRaises
  <2>2. errors <= errors'
    BY <1>0, <2>1
  <2> QED
    BY <1>2, <1>4, <2>2 DEF CreateRaises, DeleteRaises
<1>5. CASE Respond \/ RespondRaises \/ Commit \/ Crash
  BY <1>0, <1>5 DEF Respond, RespondRaises, Commit, Crash, Grows, store
<1>6. CASE UNCHANGED vars
  BY <1>0, <1>6 DEF vars, store, Grows
<1> QED
  BY <1>1, <1>3, <1>4, <1>5, <1>6 DEF Next, Callback

\* What a response says stays true, and who was told of an alarm stays told.
LEMMA TruthfulStable ==
  ASSUME TypeInv, TypeInv', Grows, NEW r, Truthful(r)
  PROVE  Truthful(r)'
<1>1. errors \in Nat /\ errors' \in Nat
  BY Counts, CountsAfter
<1> QED
  BY <1>1 DEF Truthful, Created, Grows

LEMMA ToldStable ==
  ASSUME TypeInv, TypeInv', Grows, AnswersInv
  PROVE  Told \subseteq Told'
<1>1. \A r \in replies : r.offset \in DOMAIN sent
  BY DEF AnswersInv, Truthful
<1> QED
  BY <1>1 DEF Told, Grows

\* Clients are told of alarms that were made.
LEMMA ToldBorn == AnswersInv => Told \subseteq DOMAIN born
  BY DEF AnswersInv, Told, Truthful, Created

\* The response to the request just taken is truthful.
LEMMA AnswerTruthful ==
  ASSUME TypeInv, TypeInv', AnswersInv, History', NEW r \in reply',
         \/ CreateAlarm \/ CreateRefused \/ CreateRaises
         \/ DeleteAlarm \/ DeleteNothing \/ DeleteRaises
  PROVE  Truthful(r)'
<1>0. TypeOK /\ errors \in Nat
  BY Counts DEF TypeInv
<1>1. ASSUME NEW kind, Take(kind), NEW status, NEW a, Answer(status, a)
      PROVE  /\ r.offset = position + 1 /\ r.offset \in DOMAIN sent'
             /\ sent'[r.offset] = Arrived /\ sent'[r.offset].kind = kind
             /\ r.status = status /\ r.alarm = a
  <2>1. r = [offset |-> position + 1, status |-> status, alarm |-> a]
    BY <1>1 DEF Answer
  <2>2. r.offset = position + 1 /\ r.status = status /\ r.alarm = a
    BY <2>1
  <2>3. sent' = sent /\ Arrived.kind = kind
    BY <1>1 DEF Take
  <2> QED
    BY <1>0, <1>1, <2>2, <2>3, TakeFacts
<1>2. CASE CreateAlarm
  <2>1. PICK a \in Alarm : Store(a) /\ Answer(TRUE, a)
    BY <1>2 DEF CreateAlarm
  <2>2. Take("create")
    BY <1>2 DEF CreateAlarm
  <2>3. a \in DOMAIN born'
    BY <1>0, <2>1, <2>2, StoreFacts
  <2>4. /\ r.offset \in DOMAIN sent' /\ sent'[r.offset].kind = "create"
        /\ r.status /\ r.alarm = a
    BY <1>1, <2>1, <2>2
  <2> QED
    BY <2>3, <2>4 DEF Truthful, Created
<1>3. CASE CreateRefused \/ CreateRaises
  <2>1. PICK kind \in {"create", "createPartial"} : Take(kind) /\ Answer(FALSE, None)
    BY <1>3 DEF CreateRefused, CreateRaises
  <2>2. /\ r.offset \in DOMAIN sent' /\ sent'[r.offset].kind # "delete"
        /\ ~ r.status /\ r.alarm = None
    BY <1>1, <2>1
  <2> QED
    BY <2>2 DEF Truthful, Created
<1>4. CASE DeleteAlarm
  <2>1. Arrived.about \in dropped'
    BY <1>4 DEF DeleteAlarm, Drop
  <2>2. Take("delete") /\ Answer(TRUE, Arrived.about)
    BY <1>4 DEF DeleteAlarm
  <2>3. /\ r.offset \in DOMAIN sent' /\ sent'[r.offset].kind = "delete"
        /\ sent'[r.offset] = Arrived /\ r.alarm = Arrived.about
    <3>1. r.alarm = Arrived.about
      BY <1>4 DEF DeleteAlarm, Answer
    <3> QED
      BY <1>1, <2>2, <3>1
  <2>4. r.alarm = sent'[r.offset].about /\ r.alarm \in dropped'
    BY <2>1, <2>3
  <2> QED
    BY <2>3, <2>4 DEF Truthful, Created
<1>5. CASE DeleteNothing
  <2>1. Take("delete") /\ Arrived.about \notin db /\ UNCHANGED store
    BY <1>5 DEF DeleteNothing
  <2>2. Arrived.about \in Told
    BY <1>0, <2>1, TakeFacts DEF AnswersInv, RequestsTold, Take
  <2>3. Arrived.about \in dropped'
    BY <2>1, <2>2, ToldBorn DEF AnswersInv, History, store
  <2> QED
    BY <1>1, <1>5, <2>3 DEF DeleteNothing, Truthful, Created
<1>6. CASE DeleteRaises
  <2>1. errors' > 0
    BY <1>0, <1>6 DEF DeleteRaises
  <2> QED
    BY <1>1, <1>6, <2>1 DEF DeleteRaises, Truthful, Created
<1> QED
  BY <1>2, <1>3, <1>4, <1>5, <1>6

\* A deletion is final: a uuid is stored when it is made and never again.
LEMMA NextHistory ==
  ASSUME TypeInv, History, [Next]_vars
  PROVE  History'
<1>0. TypeOK
  BY DEF TypeInv
<1>1. CASE UNCHANGED store
  BY <1>1 DEF store, History
<1>2. ASSUME NEW kind, Take(kind), NEW a \in Alarm, Store(a)
      PROVE  History'
  BY <1>0, <1>2, StoreFacts DEF History
<1>3. ASSUME Arrived.about \in db /\ Drop(Arrived.about)
      PROVE  History'
  BY <1>3 DEF Drop, History
<1>4. CASE Send \/ Respond \/ RespondRaises \/ Commit \/ Crash
  BY <1>1, <1>4 DEF Send, Respond, RespondRaises, Commit, Crash
<1>5. CASE CreateAlarm \/ CreateRaises
  BY <1>1, <1>2, <1>5 DEF CreateAlarm, CreateRaises
<1>6. CASE DeleteAlarm \/ DeleteRaises
  BY <1>1, <1>3, <1>6 DEF DeleteAlarm, DeleteRaises
<1>7. CASE CreateRefused \/ DeleteNothing \/ Ignore
  BY <1>1, <1>7 DEF CreateRefused, DeleteNothing, Ignore
<1>8. CASE UNCHANGED vars
  BY <1>1, <1>8 DEF vars
<1> QED
  BY <1>4, <1>5, <1>6, <1>7, <1>8 DEF Next, Callback

\* Every step keeps the answers true.
LEMMA NextAnswers ==
  ASSUME TypeInv, TypeInv', AnswersInv, [Next]_vars
  PROVE  AnswersInv'
<1>1. Grows
  BY NextGrows
<1>2. History'
  BY NextHistory DEF AnswersInv
<1>3. Told \subseteq Told'
  BY <1>1, ToldStable
<1>4. RequestsTold'
  <2>1. CASE Send
    <3>1. PICK r \in Request : sent' = Append(sent, r) /\ (r.kind = "delete" => r.about \in Told)
      BY <2>1, SendFacts DEF TypeInv
    <3>2. sent \in Seq(Request)
      BY DEF TypeInv, TypeOK
    <3>3. \A i \in DOMAIN sent' : \/ i \in DOMAIN sent /\ sent'[i] = sent[i]
                                  \/ sent'[i] = r
      BY <3>1, <3>2, AppendFacts
    <3> QED
      BY <1>3, <3>1, <3>3 DEF AnswersInv, RequestsTold
  <2>2. CASE sent' = sent
    BY <1>3, <2>2 DEF AnswersInv, RequestsTold
  <2>3. Send \/ sent' = sent
    BY DEF Next, Callback, CreateAlarm, CreateRefused, CreateRaises, DeleteAlarm,
           DeleteNothing, DeleteRaises, Ignore, Take, Respond, RespondRaises,
           Commit, Crash, vars
  <2> QED
    BY <2>1, <2>2, <2>3
<1>5. ASSUME NEW r \in replies' \cup reply'
      PROVE  Truthful(r)'
  <2>1. CASE r \in replies \cup reply
    BY <1>1, <2>1, TruthfulStable DEF AnswersInv
  <2>2. CASE r \notin replies \cup reply
    <3>1. \/ CreateAlarm \/ CreateRefused \/ CreateRaises
          \/ DeleteAlarm \/ DeleteNothing \/ DeleteRaises
      BY <2>2 DEF Next, Callback, Send, Ignore, Respond, RespondRaises, Commit, Crash, Take, vars
    <3>2. replies' = replies
      BY <3>1 DEF CreateAlarm, CreateRefused, CreateRaises, DeleteAlarm,
                  DeleteNothing, DeleteRaises, Take
    <3> QED
      BY <1>2, <2>2, <3>1, <3>2, AnswerTruthful
  <2> QED
    BY <2>1, <2>2
<1> QED
  BY <1>2, <1>4, <1>5 DEF AnswersInv

\* Nothing was asked, made or answered yet.
LEMMA InitAnswers == Init => AnswersInv
  BY DEF Init, AnswersInv, History, RequestsTold

\* The two invariants hold together.
LEMMA AnswersInductive == Spec => [](TypeInv /\ AnswersInv)
<1>1. Init => TypeInv /\ AnswersInv
  BY InitType, InitAnswers
<1>2. (TypeInv /\ AnswersInv) /\ [Next]_vars => (TypeInv /\ AnswersInv)'
  BY NextType, NextAnswers
<1> QED
  BY <1>1, <1>2, PTL DEF Spec

\* A response is the truth about the store, however requests are redelivered,
\* responses lost and writes half done (server.py 66-105).
THEOREM Truth == Spec => []AnswersTruthful
<1>1. TypeInv /\ AnswersInv => AnswersTruthful
  <2>1. SUFFICES ASSUME TypeInv, AnswersInv, NEW r \in replies
                 PROVE  /\ Created(r) => r.alarm \in db \cup dropped
                        /\ sent[r.offset].kind = "delete" /\ r.status => r.alarm \notin db
                        /\ sent[r.offset].kind = "delete" /\ ~ r.status /\ r.alarm \in db
                             => errors > 0
    BY DEF AnswersTruthful, Created
  <2>2. Truthful(r) /\ History
    BY <2>1 DEF AnswersInv
  <2> QED
    BY <2>2 DEF Truthful, History
<1> QED
  BY <1>1, AnswersInductive, PTL

\* No redelivered create request brings a deleted alarm back (models.py 28-37).
THEOREM Deleted == Spec => []DeletedStaysDeleted
<1>1. AnswersInv => DeletedStaysDeleted
  BY DEF AnswersInv, History, DeletedStaysDeleted
<1> QED
  BY <1>1, AnswersInductive, PTL

-----------------------------------------------------------------------------
(* What is committed has been acted upon. *)

\* A callback that takes a request leaves no create request behind it undone,
\* unless the database raised.
LEMMA NextHandled ==
  ASSUME TypeInv, TypeInv', TakenIsHandled, [Next]_vars
  PROVE  TakenIsHandled'
<1>0. /\ TypeOK /\ position \in Nat /\ errors \in Nat /\ position <= Len(sent)
      /\ committed <= position /\ committed \in Nat
  BY Counts DEF TypeInv
<1>1. Grows
  BY NextGrows
<1>2. ASSUME position' <= position, position' \in Nat
      PROVE  TakenIsHandled'
  <2>1. SUFFICES ASSUME NEW k \in 1..position', sent'[k].kind = "create", errors' = 0
                 PROVE  \E a \in DOMAIN born' : born'[a] = k
    BY DEF TakenIsHandled
  <2>2. k \in 1..position /\ k \in DOMAIN sent /\ sent'[k] = sent[k] /\ errors = 0
    <3>1. k \in 1..position /\ k \in DOMAIN sent
      BY <1>0, <1>2, <2>1 DEF TypeOK
    <3>2. errors' \in Nat
      BY CountsAfter
    <3> QED
      BY <1>0, <1>1, <2>1, <3>1, <3>2 DEF Grows
  <2>3. PICK a \in DOMAIN born : born[a] = k
    BY <2>1, <2>2 DEF TakenIsHandled
  <2> QED
    BY <1>1, <2>3 DEF Grows
<1>3. ASSUME NEW kind, Take(kind),
             kind = "create" /\ errors' = 0 => \E a \in Alarm : Store(a)
      PROVE  TakenIsHandled'
  <2>1. SUFFICES ASSUME NEW k \in 1..position', sent'[k].kind = "create", errors' = 0
                 PROVE  \E a \in DOMAIN born' : born'[a] = k
    BY DEF TakenIsHandled
  <2>2. sent' = sent /\ position' = position + 1 /\ sent[position + 1].kind = kind
    BY <1>3 DEF Take, Arrived
  <2>3. CASE k \in 1..position
    <3>1. errors = 0
      <4>1. errors' \in Nat
        BY CountsAfter
      <4> QED
        BY <1>0, <1>1, <2>1, <4>1 DEF Grows
    <3>2. PICK a \in DOMAIN born : born[a] = k
      BY <2>1, <2>2, <2>3, <3>1 DEF TakenIsHandled
    <3> QED
      BY <1>1, <3>2 DEF Grows
  <2>4. CASE k = position + 1
    <3>1. PICK a \in Alarm : Store(a)
      BY <1>3, <2>1, <2>2, <2>4
    <3>2. a \in DOMAIN born' /\ born'[a] = position + 1
      BY <1>0, <1>3, <3>1, StoreFacts
    <3> QED
      BY <2>4, <3>2
  <2> QED
    BY <1>0, <2>1, <2>2, <2>3, <2>4
<1>4. CASE Send \/ Respond \/ RespondRaises \/ Commit \/ UNCHANGED vars
  BY <1>0, <1>2, <1>4 DEF Send, Respond, RespondRaises, Commit, vars
<1>5. CASE Crash
  BY <1>0, <1>2, <1>5 DEF Crash
<1>6. CASE CreateAlarm
  BY <1>3, <1>6 DEF CreateAlarm
<1>7. CASE CreateRaises
  <2>1. errors' # 0
    BY <1>0, <1>7 DEF CreateRaises
  <2> QED
    BY <1>3, <1>7, <2>1 DEF CreateRaises
<1>8. CASE CreateRefused \/ Ignore
  <2>1. Take("createPartial") \/ Take("deletePartial") \/ Take("garbled")
    BY <1>8 DEF CreateRefused, Ignore
  <2> QED
    BY <1>3, <2>1
<1>9. CASE DeleteAlarm \/ DeleteNothing \/ DeleteRaises
  <2>1. Take("delete")
    BY <1>9 DEF DeleteAlarm, DeleteNothing, DeleteRaises
  <2> QED
    BY <1>3, <2>1
<1> QED
  BY <1>4, <1>5, <1>6, <1>7, <1>8, <1>9 DEF Next, Callback

\* The broker forgets no create request that was not acted upon: the timer
\* commits what was taken, and what is taken is stored before the next await.
THEOREM Handled == Spec => []CommittedIsHandled
<1>1. Init => TakenIsHandled
  BY DEF Init, TakenIsHandled
<1>2. TypeInv /\ TakenIsHandled => CommittedIsHandled
  <2>1. ASSUME TypeInv PROVE 1..committed \subseteq 1..position
    BY <2>1 DEF TypeInv, TypeOK
  <2> QED
    BY <2>1 DEF TakenIsHandled, CommittedIsHandled
<1>3. Init => TypeInv /\ TakenIsHandled
  BY <1>1, InitType
<1>4. (TypeInv /\ TakenIsHandled) /\ [Next]_vars => (TypeInv /\ TakenIsHandled)'
  BY NextType, NextHandled
<1> QED
  BY <1>2, <1>3, <1>4, PTL DEF Spec

-----------------------------------------------------------------------------
(* What redelivery and lost answers cost. *)

\* A set that gains one element at most counts one more at most.
LEMMA OneMore ==
  ASSUME NEW S, IsFiniteSet(S), NEW x, NEW T, T \subseteq S \cup {x}
  PROVE  /\ IsFiniteSet(T) /\ Cardinality(T) \in Nat /\ Cardinality(S) \in Nat
         /\ Cardinality(T) <= Cardinality(S) + 1
<1>1. IsFiniteSet(S \cup {x}) /\ Cardinality(S \cup {x}) <= Cardinality(S) + 1
  <2>1. IsFiniteSet(S \cup {x})
        /\ Cardinality(S \cup {x}) = IF x \in S THEN Cardinality(S) ELSE Cardinality(S) + 1
    BY FS_AddElement
  <2> QED
    BY <2>1, FS_CardinalityType
<1>2. IsFiniteSet(T) /\ Cardinality(T) <= Cardinality(S \cup {x})
  BY <1>1, FS_Subset
<1> QED
  BY <1>1, <1>2, FS_CardinalityType

\* A subset of what was counted counts no more.
LEMMA NoMore ==
  ASSUME NEW S, IsFiniteSet(S), NEW T, T \subseteq S
  PROVE  /\ IsFiniteSet(T) /\ Cardinality(T) \in Nat /\ Cardinality(S) \in Nat
         /\ Cardinality(T) <= Cardinality(S)
  BY FS_Subset, FS_CardinalityType

\* The bounds that the properties state.
Untold == DOMAIN born \ (Told \cup {r.alarm : r \in reply})

UntoldBounded == Cardinality(Untold) <= crashes + errors

\* A step stores one alarm at most, for the request it takes.
LEMMA NextMade ==
  ASSUME TypeInv, TypeInv', MadeBounded, [Next]_vars
  PROVE  MadeBounded'
<1>0. TypeOK /\ crashes \in Nat /\ crashes' \in Nat /\ position \in Nat /\ position' \in Nat
  BY Counts, CountsAfter DEF TypeInv
<1>1. crashes <= crashes'
  BY NextGrows DEF Grows
<1>2. ASSUME NEW k \in 1..MaxSent
      PROVE  IsFiniteSet(Made(k)) /\ Cardinality(Made(k)) \in Nat
  <2>1. Made(k) \subseteq DOMAIN born
    BY DEF Made
  <2> QED
    BY <2>1, NoMore DEF MadeBounded
<1>3. ASSUME born' = born,
             position <= position' \/ crashes' = crashes + 1
      PROVE  MadeBounded'
  <2>1. SUFFICES ASSUME NEW k \in 1..MaxSent
                 PROVE  Cardinality(Made(k)') <= IF k <= position' THEN 1 + crashes' ELSE crashes'
    BY <1>3 DEF MadeBounded
  <2>2. Made(k)' = Made(k)
    BY <1>3 DEF Made
  <2>3. Cardinality(Made(k)) <= IF k <= position THEN 1 + crashes ELSE crashes
    BY DEF MadeBounded
  <2> QED
    BY <1>0, <1>1, <1>2, <1>3, <2>2, <2>3
<1>4. ASSUME NEW kind, Take(kind), NEW a \in Alarm, Store(a)
      PROVE  MadeBounded'
  <2>1. /\ DOMAIN born' = DOMAIN born \cup {a} /\ a \notin DOMAIN born
        /\ born'[a] = position + 1 /\ \A b \in DOMAIN born : born'[b] = born[b]
    BY <1>0, <1>4, StoreFacts
  <2>2. IsFiniteSet(DOMAIN born')
    BY <2>1, OneMore DEF MadeBounded
  <2>3. ASSUME NEW k \in 1..MaxSent
        PROVE  Cardinality(Made(k)') <= IF k <= position' THEN 1 + crashes' ELSE crashes'
    <3>1. position' = position + 1 /\ crashes' = crashes
      BY <1>4 DEF Take
    <3>2. Cardinality(Made(k)) <= IF k <= position THEN 1 + crashes ELSE crashes
      BY DEF MadeBounded
    <3>3. CASE k = position + 1
      <4>1. Made(k)' \subseteq Made(k) \cup {a}
        BY <2>1 DEF Made
      <4>2. /\ Cardinality(Made(k)') <= Cardinality(Made(k)) + 1
            /\ Cardinality(Made(k)') \in Nat
        BY <1>2, <4>1, OneMore
      <4> QED
        BY <1>0, <1>2, <3>1, <3>2, <3>3, <4>2
    <3>4. CASE k # position + 1
      <4>1. Made(k)' = Made(k)
        BY <2>1, <3>4 DEF Made
      <4> QED
        BY <1>0, <3>1, <3>2, <3>4, <4>1
    <3> QED
      BY <3>3, <3>4
  <2> QED
    BY <2>2, <2>3 DEF MadeBounded
<1>5. CASE Send \/ Respond \/ RespondRaises \/ Commit \/ UNCHANGED vars
  BY <1>0, <1>3, <1>5 DEF Send, Respond, RespondRaises, Commit, vars, store
<1>6. CASE Crash
  BY <1>3, <1>6 DEF Crash, store
<1>7. ASSUME NEW kind, Take(kind), UNCHANGED born
      PROVE  MadeBounded'
  BY <1>0, <1>3, <1>7 DEF Take
<1>8. CASE CreateAlarm
  BY <1>4, <1>8 DEF CreateAlarm
<1>9. CASE CreateRaises
  BY <1>4, <1>7, <1>9 DEF CreateRaises, store
<1>10. CASE CreateRefused \/ Ignore
  BY <1>7, <1>10 DEF CreateRefused, Ignore, store
<1>11. CASE DeleteAlarm \/ DeleteNothing \/ DeleteRaises
  BY <1>7, <1>11 DEF DeleteAlarm, DeleteNothing, DeleteRaises, Drop, store
<1> QED
  BY <1>5, <1>6, <1>8, <1>9, <1>10, <1>11 DEF Next, Callback

\* Every invariant of the server together.
ServerInv == TypeInv /\ AnswersInv /\ MadeBounded

\* The conjunction holds in every state.
LEMMA ServerInductive == Spec => []ServerInv
<1>1. Init => MadeBounded
  <2>1. SUFFICES ASSUME Init PROVE MadeBounded
    OBVIOUS
  <2>2. DOMAIN born = {} /\ crashes = 0 /\ position = 0
    BY <2>1 DEF Init
  <2>3. \A k \in 1..MaxSent : Made(k) = {}
    BY <2>2 DEF Made
  <2> QED
    BY <2>2, <2>3, FS_EmptySet DEF MadeBounded
<1>2. Init => ServerInv
  BY <1>1, InitType, InitAnswers DEF ServerInv
<1>3. ServerInv /\ [Next]_vars => ServerInv'
  BY NextType, NextAnswers, NextMade DEF ServerInv
<1> QED
  BY <1>2, <1>3, PTL DEF Spec

\* A create request makes one alarm per delivery, and it takes a crash to have it
\* delivered again.
THEOREM OnePerDelivery == Spec => []OneAlarmPerDelivery
<1>1. ServerInv => OneAlarmPerDelivery
  <2>1. SUFFICES ASSUME TypeInv, MadeBounded, NEW k \in 1..MaxSent
                 PROVE  Cardinality(Made(k)) <= 1 + crashes
    BY DEF ServerInv, OneAlarmPerDelivery, Made
  <2>2. crashes \in Nat /\ position \in Nat /\ Made(k) \subseteq DOMAIN born
    BY <2>1, Counts DEF Made
  <2>3. Cardinality(Made(k)) \in Nat
    BY <2>1, <2>2, NoMore DEF MadeBounded
  <2> QED
    BY <2>1, <2>2, <2>3 DEF MadeBounded
<1> QED
  BY <1>1, ServerInductive, PTL

\* An alarm joins those nobody was told of only by a crash or an exception: the
\* response that names it is pending until it is published or lost.
LEMMA NextUntold ==
  ASSUME ServerInv, ServerInv', UntoldBounded, [Next]_vars
  PROVE  UntoldBounded'
<1>0. /\ TypeOK /\ TypeInv /\ AnswersInv /\ None \notin Alarm
      /\ crashes \in Nat /\ crashes' \in Nat /\ errors \in Nat /\ errors' \in Nat
  <2>1. TypeOK /\ TypeInv /\ TypeInv' /\ AnswersInv
    BY DEF ServerInv, TypeInv
  <2> QED
    BY <2>1, Counts, CountsAfter, ServerAssumption
<1>1. Grows /\ Told \subseteq Told'
  BY <1>0, NextGrows, ToldStable DEF ServerInv
<1>2. IsFiniteSet(Untold)
  <2>1. Untold \subseteq DOMAIN born
    BY DEF Untold
  <2> QED
    BY <2>1, NoMore DEF ServerInv, MadeBounded
<1>3. ASSUME Untold' \subseteq Untold
      PROVE  UntoldBounded'
  <2>1. Cardinality(Untold') <= Cardinality(Untold)
        /\ Cardinality(Untold) \in Nat /\ Cardinality(Untold') \in Nat
    BY <1>2, <1>3, NoMore
  <2> QED
    BY <1>0, <1>1, <2>1 DEF UntoldBounded, Grows
<1>4. ASSUME NEW x, Untold' \subseteq Untold \cup {x},
             crashes' + errors' = crashes + errors + 1
      PROVE  UntoldBounded'
  <2>1. Cardinality(Untold') <= Cardinality(Untold) + 1
        /\ Cardinality(Untold) \in Nat /\ Cardinality(Untold') \in Nat
    BY <1>2, <1>4, OneMore
  <2>2. Cardinality(Untold) <= crashes + errors
    BY DEF UntoldBounded
  <2>3. crashes + errors \in Nat
    BY <1>0
  <2>4. Cardinality(Untold') <= crashes + errors + 1
    BY <2>1, <2>2, <2>3
  <2>5. crashes' + errors' = crashes + errors + 1
    BY <1>4
  <2> QED
    BY <2>4, <2>5 DEF UntoldBounded
<1>5. CASE Send \/ Commit \/ UNCHANGED vars
  <2>1. born' = born /\ reply' = reply
    BY <1>5 DEF Send, Commit, vars, store
  <2> QED
    BY <1>1, <1>3, <2>1 DEF Untold
<1>6. CASE Respond
  <2>1. /\ reply' = {} /\ replies' = replies \cup reply
        /\ born' = born /\ sent' = sent
    BY <1>6 DEF Respond, store
  <2>2. ASSUME NEW r \in reply, r.alarm \in DOMAIN born
        PROVE  r.alarm \in Told'
    <3>1. Truthful(r)
      BY <1>0 DEF AnswersInv
    <3>2. CASE sent[r.offset].kind = "delete"
      BY <1>0, <1>1, <3>1, <3>2 DEF AnswersInv, RequestsTold, Truthful
    <3>3. CASE Created(r)
      BY <2>1, <3>3 DEF Told, Created
    <3>4. CASE sent[r.offset].kind # "delete" /\ ~ Created(r)
      BY <1>0, <2>2, <3>1, <3>4 DEF Truthful, TypeOK
    <3> QED
      BY <3>2, <3>3, <3>4
  <2>3. Untold' \subseteq Untold
    BY <1>1, <2>1, <2>2 DEF Untold
  <2> QED
    BY <1>3, <2>3
<1>7. CASE RespondRaises \/ Crash
  <2>1. born' = born /\ crashes' + errors' = crashes + errors + 1
    <3>1. CASE RespondRaises
      BY <1>0, <3>1 DEF RespondRaises, store
    <3>2. CASE Crash
      BY <1>0, <3>2 DEF Crash, store
    <3> QED
      BY <1>7, <3>1, <3>2
  <2>2. PICK x : \A r \in reply : r.alarm = x
    BY <1>0 DEF TypeInv, OnePending
  <2>3. Untold' \subseteq Untold \cup {x}
    BY <1>1, <2>1, <2>2 DEF Untold
  <2> QED
    BY <1>4, <2>1, <2>3
<1>8. ASSUME NEW kind, Take(kind), born' = born
      PROVE  UntoldBounded'
  <2>1. Untold' \subseteq Untold
    BY <1>1, <1>8 DEF Untold, Take
  <2> QED
    BY <1>3, <2>1
<1>9. CASE CreateAlarm
  <2>1. PICK a \in Alarm : Store(a) /\ Answer(TRUE, a)
    BY <1>9 DEF CreateAlarm
  <2>2. Take("create")
    BY <1>9 DEF CreateAlarm
  <2>3. DOMAIN born' = DOMAIN born \cup {a} /\ \E r \in reply' : r.alarm = a
    <3>1. DOMAIN born' = DOMAIN born \cup {a}
      BY <1>0, <2>1, <2>2, StoreFacts
    <3>2. [offset |-> position + 1, status |-> TRUE, alarm |-> a] \in reply'
      BY <2>1 DEF Answer
    <3> QED
      BY <3>1, <3>2
  <2>4. Untold' \subseteq Untold
    BY <1>1, <2>2, <2>3 DEF Untold, Take
  <2> QED
    BY <1>3, <2>4
<1>10. CASE CreateRaises
  <2>1. Take("create") /\ errors' = errors + 1 /\ crashes' = crashes /\ reply = {}
    BY <1>10 DEF CreateRaises, Take
  <2>2. CASE UNCHANGED store
    BY <1>8, <2>1, <2>2 DEF store
  <2>3. CASE \E a \in Alarm : Store(a)
    <3>1. PICK a \in Alarm : Store(a)
      BY <2>3
    <3>2. DOMAIN born' = DOMAIN born \cup {a}
      BY <1>0, <2>1, <3>1, StoreFacts
    <3>3. Untold' \subseteq Untold \cup {a}
      BY <1>1, <2>1, <3>2 DEF Untold, Take
    <3>4. crashes' + errors' = crashes + errors + 1
      BY <1>0, <2>1
    <3> QED
      BY <1>4, <3>3, <3>4
  <2> QED
    BY <1>10, <2>2, <2>3 DEF CreateRaises
<1>11. CASE CreateRefused \/ Ignore
  BY <1>8, <1>11 DEF CreateRefused, Ignore, store
<1>12. CASE DeleteAlarm \/ DeleteNothing \/ DeleteRaises
  BY <1>8, <1>12 DEF DeleteAlarm, DeleteNothing, DeleteRaises, Drop, store
<1> QED
  BY <1>5, <1>6, <1>7, <1>9, <1>10, <1>11, <1>12 DEF Next, Callback

\* An alarm that stays evaluated and that no client can delete costs a crash or an
\* exception, for every number of them.
THEOREM UntoldCost == Spec => []UntoldAlarmsBounded
<1>1. Init => UntoldBounded
  <2>1. SUFFICES ASSUME Init PROVE UntoldBounded
    OBVIOUS
  <2>2. Untold = {} /\ crashes = 0 /\ errors = 0
    BY <2>1 DEF Init, Untold
  <2> QED
    BY <2>2, FS_EmptySet DEF UntoldBounded
<1>2. ServerInv /\ ServerInv' /\ UntoldBounded /\ [Next]_vars => UntoldBounded'
  BY NextUntold
<1>3. UntoldBounded => UntoldAlarmsBounded
  BY DEF UntoldBounded, Untold, UntoldAlarmsBounded
<1> QED
  BY <1>1, <1>2, <1>3, ServerInductive, PTL DEF Spec
=============================================================================
