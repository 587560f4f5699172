------------------------------- MODULE Server -------------------------------
(***************************************************************************)
(* The osm-mon-server process (src/osm_mon/server): an asyncio callback that *)
(* takes the requests of the Kafka topic "alarm_request" one at a time,     *)
(* writes the alarms collection and answers on the topic                    *)
(* "alarm_response_<correlation_id>".  The consumer commits its position on *)
(* a timer, whatever the callback is doing; a process that starts again     *)
(* resumes at the committed offset.                                         *)
(* A request is named by its offset, which stands for its correlation id.   *)
(***************************************************************************)
EXTENDS Integers, Sequences, FiniteSets

CONSTANTS Alarm,       \* uuids; uuid4 never gives one of them twice
          Body,        \* what a complete create request can ask for
          Asked,       \* Asked[a] is the body of the request a is made for
          None,        \* no alarm uuid
          Sendable,    \* the kinds of request the clients send
          MaxSent,     \* bound: requests sent
          MaxCreates,  \* bound: complete create requests among them
          MaxCrashes,  \* bound: restarts of the process
          MaxErrors    \* bound: exceptions of the database and the broker

(***************************************************************************)
(* "create" and "delete" are complete.  "createPartial" has a correlation   *)
(* id and lacks, or has of a wrong type, another field; "deletePartial" has *)
(* a correlation id and no alarm_uuid; "garbled" has neither, or no known   *)
(* key.                                                                     *)
(***************************************************************************)
Kind == {"create", "createPartial", "delete", "deletePartial", "garbled"}

ASSUME ServerAssumption ==
  /\ Sendable \subseteq Kind
  /\ None \notin Alarm \cup Body
  /\ Asked \in [Alarm -> Body]
  /\ {MaxSent, MaxCreates, MaxCrashes, MaxErrors} \subseteq Nat

VARIABLES
  sent,       \* the topic "alarm_request", oldest first
  position,   \* requests the consumer has taken
  committed,  \* requests the broker will not deliver again
  db,         \* the alarms collection
  dropped,    \* alarms deleted from it (history)
  born,       \* the request each uuid was made for (history)
  reply,      \* the set of at most one response about to be published
  replies,    \* the responses published, on all topics
  crashes,    \* restarts so far
  errors      \* exceptions so far

store == <<db, dropped, born>>
vars  == <<sent, position, committed, store, reply, replies, crashes, errors>>

Request == [kind : Kind, about : Alarm \cup Body \cup {None}]
Reply == [offset : 1..MaxSent, status : BOOLEAN, alarm : Alarm \cup {None}]

TypeOK ==
  /\ sent \in Seq(Request) /\ Len(sent) <= MaxSent
  /\ position \in 0..Len(sent)
  /\ committed \in 0..position
  /\ db \subseteq Alarm /\ dropped \subseteq Alarm
  /\ \E S \in SUBSET Alarm : born \in [S -> 1..MaxSent]
  /\ reply \subseteq Reply /\ replies \subseteq Reply
  /\ crashes \in 0..MaxCrashes
  /\ errors \in 0..MaxErrors

Init ==
  /\ sent = <<>> /\ position = 0 /\ committed = 0
  /\ db = {} /\ dropped = {} /\ born = [a \in {} |-> 0]
  /\ reply = {} /\ replies = {}
  /\ crashes = 0 /\ errors = 0

\* The alarms the clients were told the uuid of.
Told == {r.alarm : r \in {q \in replies : q.status /\ sent[q.offset].kind = "create"}}

-----------------------------------------------------------------------------
(* The clients. *)

Sent(kind) == Cardinality({i \in DOMAIN sent : sent[i].kind = kind})

Send ==
  /\ Len(sent) < MaxSent
  /\ \E k \in Sendable :
       \/ /\ k = "create" /\ Sent(k) < MaxCreates
          /\ \E b \in Body : sent' = Append(sent, [kind |-> k, about |-> b])
       \/ /\ k = "delete"
          /\ \E a \in Told : sent' = Append(sent, [kind |-> k, about |-> a])
       \/ /\ k \notin {"create", "delete"}
          /\ sent' = Append(sent, [kind |-> k, about |-> None])
  /\ UNCHANGED <<position, committed, store, reply, replies, crashes, errors>>

-----------------------------------------------------------------------------
(* The callback, from a message's arrival to the await of its response. *)

Arrived == sent[position + 1]

Take(kind) ==
  /\ reply = {}
  /\ position < Len(sent)
  /\ Arrived.kind = kind
  /\ position' = position + 1
  /\ UNCHANGED <<sent, committed, replies, crashes>>

Answer(status, a) ==
  reply' = {[offset |-> position + 1, status |-> status, alarm |-> a]}

Store(a) ==
  /\ a \notin DOMAIN born
  /\ Asked[a] = Arrived.about
  /\ db' = db \cup {a}
  /\ born' = [b \in DOMAIN born \cup {a} |-> IF b = a THEN position + 1 ELSE born[b]]
  /\ UNCHANGED dropped

Drop(a) ==
  /\ db' = db \ {a}
  /\ dropped' = dropped \cup {a}
  /\ UNCHANGED born

\* Mutant: the uuid is derived from the correlation id.
CreateAlarmAgain ==
  /\ Take("create")
  /\ \E a \in Alarm :
       /\ IF \E b \in DOMAIN born : born[b] = position + 1
            THEN /\ a \in DOMAIN born /\ born[a] = position + 1
                 /\ db' = db \cup {a} /\ UNCHANGED <<dropped, born>>
            ELSE Store(a)
       /\ Answer(TRUE, a)
  /\ UNCHANGED errors

\* Mutant: building the response raises once the alarm is stored.
CreateUnanswered ==
  /\ Take("create")
  /\ \E a \in Alarm : Store(a)
  /\ Answer(FALSE, None)
  /\ UNCHANGED errors

CreateAlarm ==
  /\ Take("create")
  /\ \E a \in Alarm : Store(a) /\ Answer(TRUE, a)
  /\ UNCHANGED errors

\* Mutant: the fields are read outside the inner try.
CreateRefusedSilently ==
  /\ Take("createPartial")
  /\ UNCHANGED <<store, reply, errors>>

CreateRefused ==
  /\ Take("createPartial")
  /\ Answer(FALSE, None)
  /\ UNCHANGED <<store, errors>>

\* The database raises, before or after it has applied the write.
CreateRaises ==
  /\ Take("create")
  /\ UNCHANGED store \/ \E a \in Alarm : Store(a)
  /\ Answer(FALSE, None)
  /\ errors < MaxErrors /\ errors' = errors + 1

DeleteAlarm ==
  /\ Take("delete")
  /\ Arrived.about \in db
  /\ Drop(Arrived.about)
  /\ Answer(TRUE, Arrived.about)
  /\ UNCHANGED errors

\* del_one raises when it finds nothing to delete.
DeleteNothing ==
  /\ Take("delete")
  /\ Arrived.about \notin db
  /\ Answer(FALSE, Arrived.about)
  /\ UNCHANGED <<store, errors>>

\* Mutant: the exception of the database is logged and not answered.
DeleteAssumed ==
  /\ Take("delete")
  /\ UNCHANGED store \/ Drop(Arrived.about)
  /\ Answer(TRUE, Arrived.about)
  /\ errors < MaxErrors /\ errors' = errors + 1

DeleteRaises ==
  /\ Take("delete")
  /\ UNCHANGED store \/ (Arrived.about \in db /\ Drop(Arrived.about))
  /\ Answer(FALSE, Arrived.about)
  /\ errors < MaxErrors /\ errors' = errors + 1

\* A KeyError outside the inner try, or no branch for the key: no response.
Ignore ==
  /\ Take("deletePartial") \/ Take("garbled")
  /\ UNCHANGED <<store, reply, errors>>

-----------------------------------------------------------------------------
(* The await of aiowrite, the consumer's timer, and the process. *)

Respond ==
  /\ reply # {}
  /\ reply' = {}
  /\ replies' = replies \cup reply
  /\ UNCHANGED <<sent, position, committed, store, crashes, errors>>

\* Mutant: a response that cannot be published puts the request back.
RespondRetries ==
  /\ reply # {}
  /\ reply' = {}
  /\ errors < MaxErrors /\ errors' = errors + 1
  /\ position' = position - 1
  /\ committed' = IF committed < position THEN committed ELSE position - 1
  /\ UNCHANGED <<sent, store, replies, crashes>>

RespondRaises ==
  /\ reply # {}
  /\ reply' = {}
  /\ errors < MaxErrors /\ errors' = errors + 1
  /\ UNCHANGED <<sent, position, committed, store, replies, crashes>>

\* Mutant: the consumer commits what it has fetched.
CommitFetched ==
  /\ committed' = Len(sent)
  /\ UNCHANGED <<sent, position, store, reply, replies, crashes, errors>>

Commit ==
  /\ committed < position
  /\ committed' = position
  /\ UNCHANGED <<sent, position, store, reply, replies, crashes, errors>>

Crash ==
  /\ crashes < MaxCrashes
  /\ crashes' = crashes + 1
  /\ reply' = {}
  /\ position' = committed
  /\ UNCHANGED <<sent, committed, store, replies, errors>>

Callback ==
  \/ CreateAlarm \/ CreateRefused \/ CreateRaises
  \/ DeleteAlarm \/ DeleteNothing \/ DeleteRaises \/ Ignore
  \/ Respond \/ RespondRaises

Next == Send \/ Callback \/ Commit \/ Crash

Spec == Init /\ [][Next]_vars

\* The event loop keeps running the callback; no client need send, no commit
\* need happen.
FairSpec == Spec /\ WF_vars(Callback)

-----------------------------------------------------------------------------
(* Properties. *)

\* A response is the truth about the store: True for a create means stored (or
\* deleted since), True for a delete means gone, and False for a delete of an
\* alarm that is there means the database raised (server.py 66-105).
AnswersTruthful ==
  \A r \in replies :
    /\ sent[r.offset].kind = "create" /\ r.status => r.alarm \in db \cup dropped
    /\ sent[r.offset].kind = "delete" /\ r.status => r.alarm \notin db
    /\ sent[r.offset].kind = "delete" /\ ~ r.status /\ r.alarm \in db => errors > 0

\* A deleted alarm never comes back, though its create request is delivered
\* again after a crash: every delivery makes a uuid of its own (models.py 28-37).
DeletedStaysDeleted == db \cap dropped = {}

\* A create request makes one alarm per delivery, and only a crash makes the
\* broker deliver it again.
OneAlarmPerDelivery ==
  \A k \in 1..MaxSent :
    Cardinality({a \in DOMAIN born : born[a] = k}) <= 1 + crashes

\* An alarm whose uuid no client was told, and which nobody can delete, costs a
\* crash or an exception.
UntoldAlarmsBounded ==
  Cardinality(DOMAIN born \ (Told \cup {r.alarm : r \in reply})) <= crashes + errors

\* The broker forgets no create request that was not acted upon: the position is
\* committed by the timer, yet never before the callback has written the store.
CommittedIsHandled ==
  \A k \in 1..committed :
    sent[k].kind = "create" /\ errors = 0 => \E a \in DOMAIN born : born[a] = k

Answered(kinds) ==
  \A k \in 1..MaxSent :
    k <= Len(sent) /\ sent[k].kind \in kinds
      ~> (\E r \in replies : r.offset = k) \/ crashes + errors > 0

\* Every request the callback can address a response to gets one, unless the
\* process crashes or something raises.
RequestAnswered == Answered({"create", "createPartial", "delete"})

\* docs/architecture.md 51: the server "performs the corresponding action and
\* sends a response" for both kinds of request; a correlation id is all it needs.
EveryRequestAnswered ==
  Answered({"create", "createPartial", "delete", "deletePartial"})
=============================================================================
