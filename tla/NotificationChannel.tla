------------------------ MODULE NotificationChannel ------------------------
(***************************************************************************)
(* What the MON evaluator promises the readers of the Kafka topic           *)
(* "alarm_response".  A job is one evaluation of one alarm in one cycle.    *)
(* A job is judged at most once; its verdict is then published once or is   *)
(* lost; nothing is published that was not judged, and nothing twice.       *)
(* No order is promised: src/osm_mon/evaluator joins its processes with a   *)
(* timeout and leaves the late ones running.                                *)
(***************************************************************************)
EXTENDS Sequences

CONSTANTS Job,      \* an evaluation of one alarm in one cycle
          Status    \* the values of AlarmStatus

VARIABLES pending,  \* verdicts reached and not yet published
          bus       \* the notifications on the topic, oldest first

vars == <<pending, bus>>

Result == [job : Job, status : Status]

Judged == {r.job : r \in pending} \cup {bus[i].job : i \in DOMAIN bus}

Init == pending = {} /\ bus = <<>>

Judge(r) ==
  /\ r.job \notin Judged
  /\ pending' = pending \cup {r}
  /\ UNCHANGED bus

Publish(r) ==
  /\ r \in pending
  /\ bus' = Append(bus, r)
  /\ pending' = pending \ {r}

\* A notifier fails, a cycle is abandoned, or the process restarts.
Lose ==
  /\ pending' \in SUBSET pending
  /\ UNCHANGED bus

Next == Lose \/ \E r \in Result : Judge(r) \/ Publish(r)

Spec == Init /\ [][Next]_vars
=============================================================================
