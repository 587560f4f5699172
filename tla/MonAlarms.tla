----------------------------- MODULE MonAlarms -----------------------------
(***************************************************************************)
(* The server and the evaluator together: two processes that share nothing  *)
(* but the alarms collection of the database.  The server writes it, the    *)
(* evaluator reads it once per cycle.                                       *)
(***************************************************************************)
EXTENDS Integers, Sequences, FiniteSets

CONSTANTS Alarm, Body, Asked, None, Sendable, MaxSent, MaxCreates, MaxCrashes,
          MaxErrors, Operation, Threshold, Malformed, Sample, NaN, PipeCap,
          MaxCycle, MaxFaults

VARIABLES
  db, dropped,                                             \* shared
  sent, position, committed, born, reply, replies, crashes, errors,  \* Server
  pc, cycle, todo, joining, querying, buffered, pipe, tuples, unjoined,
  notifying, bus, clean, faults,                           \* Evaluator
  settled   \* alarms deleted before the current cycle read the store (history)

server    == <<sent, position, committed, born, reply, replies, crashes, errors>>
evaluator == <<pc, cycle, todo, joining, querying, buffered, pipe, tuples,
               unjoined, notifying, bus, clean, faults>>
vars      == <<db, dropped, server, evaluator, settled>>

S == INSTANCE Server
E == INSTANCE Evaluator

ASSUME MonAlarmsAssumption == S!ServerAssumption /\ E!EvaluatorAssumption

Init == S!Init /\ E!Init /\ settled = {}

ServerStep == S!Next /\ UNCHANGED <<evaluator, settled>>

EvaluatorStep ==
  /\ E!Main \/ E!Fault \/ E!Child
  /\ settled' = IF E!GetAlarms THEN dropped ELSE settled
  /\ UNCHANGED server

Next == ServerStep \/ EvaluatorStep

Spec == Init /\ [][Next]_vars

\* Both loops are scheduled; a client, a commit, the TSDB and the broker's
\* answers to the notifiers need not come.
FairSpec ==
  /\ Spec
  /\ WF_vars(S!Callback /\ UNCHANGED <<evaluator, settled>>)
  /\ WF_vars(E!Main /\ EvaluatorStep)

-----------------------------------------------------------------------------
(* Properties. *)

\* Once a cycle has read the store after an alarm was deleted, the alarm is not
\* notified any more, as long as no join times out: no verdict outlives the
\* cycle that asked for it (server.py 93-98, evaluator.py 61-71).
DeletedGoesQuiet ==
  [][clean /\ bus' # bus => bus'[Len(bus')].job.alarm \notin settled]_vars

\* The server is an environment the evaluator's guarantees hold in: redelivered
\* requests and restarts of the server included, a uuid is stored once and never
\* after it was deleted.
EvaluatorSpec == E!Spec

\* An alarm whose creation a client was told of is evaluated as long as it stays
\* stored, unless some stored alarm has a threshold that float() refuses.
AcknowledgedAlarmEvaluated ==
  \A a \in Alarm :
    a \in S!Told ~> \/ a \in todo \/ a \notin db \/ cycle = MaxCycle
                    \/ E!Poisoned
=============================================================================
