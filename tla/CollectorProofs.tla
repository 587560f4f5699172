-------------------------- MODULE CollectorProofs --------------------------
(***************************************************************************)
(* What the collector guarantees for every number of targets, metrics,      *)
(* cycles and faults and every capacity of the pipe: its types, that a      *)
(* cycle without a timeout exports all its workers returned, and that a      *)
(* cycle that ends serves nothing any earlier one has served.               *)
(***************************************************************************)
EXTENDS Collector, TLAPS

\* Workers are started in a cycle that counts.
CycleStarted == todo # {} => cycle >= 1

TypeInv == TypeOK /\ CycleStarted

\* As long as no join timed out and no cycle broke off: the workers alive are
\* those of this cycle still to be joined, and what they returned is in a
\* feeder, in the pipe or with the loop, until the exporter has it.
WholeWhileClean ==
  clean =>
    /\ pc # "raised" /\ doomed = {}
    /\ \A j \in collecting : j \in joining /\ j.cycle = cycle
    /\ \A m \in buffered : m.job \in joining
    /\ pc \notin {"spawn", "join"} => joining = {}
    /\ pc \notin {"drain", "handle"} => gathered = {}
    /\ pc \in {"handle", "read"} => pipe = {}
    /\ pc = "read" => exported = answered
    /\ pc # "read" => answered = buffered \cup pipe \cup gathered

\* A job the collector knows belongs to a cycle that has begun, and its target
\* has left the list of those still without a worker.
Begun(j) == j.cycle <= cycle /\ (j.cycle = cycle => j.target \notin todo)

\* `past` holds all that was ever exported, so a metric leaves none of the places.
Returned == buffered \cup pipe \cup gathered \cup past

AllBegun ==
  /\ \A j \in collecting : Begun(j)
  /\ \A m \in Returned : Begun(m.job)

\* A metric is in one place, and its worker has nothing more to return.
Apart ==
  /\ buffered \cap pipe = {} /\ buffered \cap gathered = {}
  /\ buffered \cap past = {} /\ pipe \cap gathered = {}
  /\ pipe \cap past = {} /\ gathered \cap past = {}
  /\ \A m \in Returned : m.job \notin collecting

-----------------------------------------------------------------------------
(* Lemmas. *)

\* The bounds are natural numbers.
LEMMA Bounds == MaxYield \in Nat /\ MaxCycle \in Nat /\ MaxFaults \in Nat
  BY CollectorAssumption

\* What a worker returns: metrics of its own job.
LEMMA CollectFacts ==
  ASSUME TypeOK, NEW j \in collecting, Collect(j)
  PROVE  \E got \in SUBSET Metric :
           /\ \A m \in got : m.job = j
           /\ buffered' = buffered \cup got
           /\ answered' = IF j.cycle = cycle THEN answered \cup got ELSE answered
           /\ collecting' = collecting \ {j}
           /\ UNCHANGED <<pc, cycle, todo, joining, processes, gathered, exported,
                          faults, doomed, lock, pipe, clean, past>>
<1>1. PICK k \in 0..MaxYield :
        LET got == {[job |-> j, n |-> i] : i \in 1..k} IN
        /\ buffered' = buffered \cup got
        /\ answered' = IF j.cycle = cycle THEN answered \cup got ELSE answered
  BY DEF Collect
<1> DEFINE got == {[job |-> j, n |-> i] : i \in 1..k}
<1>2. got \in SUBSET Metric
  BY Bounds DEF TypeOK, Metric
<1>3. \A m \in got : m.job = j
  OBVIOUS
<1>4. UNCHANGED <<pc, cycle, todo, joining, processes, gathered, exported,
                  faults, doomed, lock, pipe, clean, past>> /\ collecting' = collecting \ {j}
  BY DEF Collect, loop, lists
<1> HIDE DEF got
<1>5. /\ buffered' = buffered \cup got
      /\ answered' = IF j.cycle = cycle THEN answered \cup got ELSE answered
  BY <1>1 DEF got
<1> QED
  BY <1>2, <1>3, <1>4, <1>5

\* The collector starts with nothing known, returned or exported.
LEMMA InitType == Init => TypeInv
  BY Bounds DEF Init, TypeInv, TypeOK, CycleStarted

\* Every step keeps the types.
LEMMA NextType == TypeInv /\ [Next]_vars => TypeInv'
<1> SUFFICES ASSUME TypeInv, [Next]_vars PROVE TypeInv'
  OBVIOUS
<1>0. TypeOK /\ CycleStarted
  BY DEF TypeInv
<1> USE <1>0, Bounds DEF TypeInv, TypeOK, CycleStarted, loop, lists, workers, history
<1>1. CASE Begin
  BY <1>1 DEF Begin, Goto, Known
<1>2. CASE AllSpawned \/ LoopAgain \/ AllJoined \/ AllTerminated \/ DrainEmpty \/ Handle
  BY <1>2 DEF AllSpawned, LoopAgain, AllJoined, AllTerminated, DrainEmpty, Handle, Goto
<1>3. ASSUME NEW t \in todo, Spawn(t)
      PROVE  TypeInv'
  <2>1. [target |-> t, cycle |-> cycle] \in Job
    BY <1>3 DEF Job
  <2> QED
    BY <1>3, <2>1 DEF Spawn
<1>4. ASSUME NEW j \in joining, JoinExited(j) \/ JoinTimeout(j)
      PROVE  TypeInv'
  BY <1>4 DEF JoinExited, JoinTimeout
<1>5. ASSUME NEW j \in processes, Terminate(j)
      PROVE  TypeInv'
  BY <1>5 DEF Terminate
<1>6. ASSUME NEW m \in pipe, DrainGet(m)
      PROVE  TypeInv'
  BY <1>6 DEF DrainGet
<1>7. ASSUME NEW j \in collecting, Collect(j)
      PROVE  TypeInv'
  <2>1. PICK got \in SUBSET Metric :
          /\ buffered' = buffered \cup got
          /\ answered' = IF j.cycle = cycle THEN answered \cup got ELSE answered
          /\ collecting' = collecting \ {j}
          /\ UNCHANGED <<pc, cycle, todo, joining, processes, gathered, exported,
                         faults, doomed, lock, pipe, clean, past>>
    BY <1>7, CollectFacts
  <2> QED
    BY <2>1
<1>8. ASSUME NEW m \in buffered, Acquire(m) \/ Write(m)
      PROVE  TypeInv'
  BY <1>8 DEF Acquire, Write, Metric
<1>9. ASSUME NEW j \in doomed, Die(j)
      PROVE  TypeInv'
  BY <1>9 DEF Die
<1>10. CASE SpawnFails \/ Restart
  <2>1. faults' \in 0..MaxFaults
    BY <1>10 DEF SpawnFails, Restart, Fault
  <2>2. CASE SpawnFails
    BY <2>1, <2>2 DEF SpawnFails, Goto
  <2>3. CASE Restart
    BY <2>1, <2>3 DEF Restart
  <2> QED
    BY <1>10, <2>2, <2>3
<1>11. CASE UNCHANGED vars
  BY <1>11 DEF vars
<1> QED
  BY <1>1, <1>2, <1>3, <1>4, <1>5, <1>6, <1>7, <1>8, <1>9, <1>10, <1>11
     DEF Next, Main, Child

\* The state of every run is well typed.
THEOREM TypeCorrect == Spec => []TypeOK
<1>1. TypeInv => TypeOK
  BY DEF TypeInv
<1> QED
  BY <1>1, InitType, NextType, PTL DEF Spec

-----------------------------------------------------------------------------
(* A cycle without a timeout exports what its workers returned. *)

\* Every step keeps the whole cycle together.
LEMMA NextWhole == TypeInv /\ WholeWhileClean /\ [Next]_vars => WholeWhileClean'
<1> SUFFICES ASSUME TypeInv, WholeWhileClean, [Next]_vars PROVE WholeWhileClean'
  OBVIOUS
<1>0. TypeOK
  BY DEF TypeInv
<1> USE DEF WholeWhileClean, loop, lists, workers, history
<1>1. CASE Begin
  BY <1>1 DEF Begin, Goto
<1>2. CASE AllSpawned \/ LoopAgain \/ AllJoined \/ AllTerminated \/ DrainEmpty
  BY <1>2 DEF AllSpawned, LoopAgain, AllJoined, AllTerminated, DrainEmpty, Goto
<1>3. CASE Handle
  <2>1. ASSUME clean PROVE buffered = {} /\ pipe = {}
    BY <1>3, <2>1 DEF Handle, Goto
  <2> QED
    BY <1>3, <2>1 DEF Handle, Goto
<1>4. ASSUME NEW t \in todo, Spawn(t)
      PROVE  WholeWhileClean'
  BY <1>4 DEF Spawn
<1>5. ASSUME NEW j \in joining, JoinExited(j)
      PROVE  WholeWhileClean'
  BY <1>5 DEF JoinExited, Alive
<1>6. ASSUME NEW j \in processes, Terminate(j)
      PROVE  WholeWhileClean'
  BY <1>6 DEF Terminate, Alive
<1>7. ASSUME NEW m \in pipe, DrainGet(m)
      PROVE  WholeWhileClean'
  BY <1>7 DEF DrainGet
<1>8. ASSUME NEW j \in collecting, Collect(j)
      PROVE  WholeWhileClean'
  <2>1. PICK got \in SUBSET Metric :
          /\ \A m \in got : m.job = j
          /\ buffered' = buffered \cup got
          /\ answered' = IF j.cycle = cycle THEN answered \cup got ELSE answered
          /\ collecting' = collecting \ {j}
          /\ UNCHANGED <<pc, cycle, todo, joining, processes, gathered, exported,
                         faults, doomed, lock, pipe, clean, past>>
    BY <1>0, <1>8, CollectFacts
  <2>2. ASSUME clean
        PROVE  j \in joining /\ j.cycle = cycle /\ pc \in {"spawn", "join"}
    BY <2>2
  <2> QED
    BY <2>1, <2>2
<1>9. ASSUME NEW m \in buffered, Acquire(m) \/ Write(m)
      PROVE  WholeWhileClean'
  BY <1>9 DEF Acquire, Write
<1>10. ASSUME NEW j \in doomed, Die(j)
       PROVE  WholeWhileClean'
  BY <1>10 DEF Die
<1>11. CASE SpawnFails \/ \E j \in joining : JoinTimeout(j)
  BY <1>11 DEF SpawnFails, JoinTimeout
<1>12. CASE Restart
  BY <1>12 DEF Restart
<1>13. CASE UNCHANGED vars
  BY <1>13 DEF vars
<1> QED
  BY <1>1, <1>2, <1>3, <1>4, <1>5, <1>6, <1>7, <1>8, <1>9, <1>10, <1>11, <1>12,
     <1>13 DEF Next, Main, Child

\* Until a join times out or a cycle breaks off, a finished cycle exports exactly
\* what its own workers returned (service.py 129-137, backends/prometheus.py 43-55).
THEOREM WholeCycle == Spec => []WholeCycleExported
<1>1. Init => TypeInv /\ WholeWhileClean
  BY InitType DEF Init, WholeWhileClean
<1>2. (TypeInv /\ WholeWhileClean) /\ [Next]_vars => (TypeInv /\ WholeWhileClean)'
  BY NextType, NextWhole
<1>3. WholeWhileClean => WholeCycleExported
  BY DEF WholeWhileClean, WholeCycleExported
<1> QED
  BY <1>1, <1>2, <1>3, PTL DEF Spec

-----------------------------------------------------------------------------
(* No measurement is exported twice. *)

IsolatedInv == TypeInv /\ AllBegun /\ Apart

\* Every step keeps the places a metric can be in apart.
LEMMA NextIsolated == IsolatedInv /\ [Next]_vars => AllBegun' /\ Apart'
<1> SUFFICES ASSUME IsolatedInv, [Next]_vars PROVE AllBegun' /\ Apart'
  OBVIOUS
<1>0. TypeOK /\ CycleStarted /\ cycle \in Nat
  BY Bounds DEF IsolatedInv, TypeInv, TypeOK
<1>1. ASSUME UNCHANGED <<cycle, collecting, buffered, pipe, gathered, past>>,
             todo' \subseteq todo
      PROVE  AllBegun' /\ Apart'
  BY <1>1 DEF IsolatedInv, AllBegun, Begun, Apart, Returned
<1>2. CASE \/ AllSpawned \/ LoopAgain \/ AllJoined \/ AllTerminated \/ DrainEmpty
           \/ SpawnFails \/ UNCHANGED vars
  BY <1>1, <1>2 DEF AllSpawned, LoopAgain, AllJoined, AllTerminated, DrainEmpty,
                    SpawnFails, vars, loop, lists, workers, history
<1>3. ASSUME NEW j, JoinExited(j) \/ JoinTimeout(j) \/ Terminate(j)
      PROVE  AllBegun' /\ Apart'
  BY <1>1, <1>3 DEF JoinExited, JoinTimeout, Terminate, workers, history
<1>4. ASSUME NEW m \in buffered, Acquire(m)
      PROVE  AllBegun' /\ Apart'
  BY <1>1, <1>4 DEF Acquire, loop, lists, history
<1>5. CASE Begin
  <2>1. UNCHANGED <<collecting, buffered, pipe, gathered, past>>
    BY <1>5 DEF Begin, workers
  <2>2. (cycle' = cycle /\ todo' = {}) \/ cycle' = cycle + 1
    BY <1>5 DEF Begin
  <2>3. \A j : j.cycle \in Nat /\ Begun(j) => Begun(j)'
    BY <1>0, <2>2 DEF Begun
  <2>4. /\ \A j \in collecting : j.cycle \in Nat
        /\ \A m \in Returned : m.job.cycle \in Nat
    BY <1>0, Bounds DEF TypeOK, Job, Metric, Returned
  <2> QED
    BY <2>1, <2>3, <2>4 DEF IsolatedInv, AllBegun, Apart, Returned
<1>6. ASSUME NEW t \in todo, Spawn(t)
      PROVE  AllBegun' /\ Apart'
  <2> PICK j : j = [target |-> t, cycle |-> cycle]
    OBVIOUS
  <2>1. /\ collecting' = collecting \cup {j} /\ todo' = todo \ {t}
        /\ UNCHANGED <<cycle, buffered, pipe, gathered, past>>
    BY <1>6 DEF Spawn, history
  <2>2. ~ Begun(j)
    BY <1>6 DEF Begun
  <2>3. \A m \in Returned : m.job # j
    BY <2>2 DEF IsolatedInv, AllBegun
  <2>4. Begun(j)'
    BY <1>0, <2>1 DEF Begun
  <2>5. \A i : Begun(i) => Begun(i)'
    BY <2>1 DEF Begun
  <2>6. AllBegun'
    BY <2>1, <2>4, <2>5 DEF IsolatedInv, AllBegun, Returned
  <2>7. Returned' = Returned
    BY <2>1 DEF Returned
  <2>8. \A m \in Returned' : m.job \notin collecting'
    BY <2>1, <2>3, <2>7 DEF IsolatedInv, Apart
  <2> QED
    BY <2>1, <2>6, <2>8 DEF IsolatedInv, Apart
<1>7. ASSUME NEW m \in pipe, DrainGet(m)
      PROVE  AllBegun' /\ Apart'
  BY <1>7 DEF DrainGet, history, IsolatedInv, AllBegun, Begun, Apart, Returned
<1>8. CASE Handle
  BY <1>8 DEF Handle, Goto, workers, IsolatedInv, AllBegun, Begun, Apart, Returned
<1>9. ASSUME NEW j \in collecting, Collect(j)
      PROVE  AllBegun' /\ Apart'
  <2>1. PICK got \in SUBSET Metric :
          /\ \A m \in got : m.job = j
          /\ buffered' = buffered \cup got
          /\ collecting' = collecting \ {j}
          /\ UNCHANGED <<cycle, todo, pipe, gathered, past>>
    BY <1>0, <1>9, CollectFacts
  <2>2. Begun(j) /\ \A m \in Returned : m.job # j
    BY <1>9 DEF IsolatedInv, AllBegun, Apart
  <2>3. \A m \in got : m \notin Returned
    BY <2>1, <2>2
  <2>4. Returned' = Returned \cup got
    BY <2>1 DEF Returned
  <2>5. AllBegun'
    BY <2>1, <2>2, <2>4 DEF IsolatedInv, AllBegun, Begun
  <2>6. \A m \in Returned' : m.job \notin collecting'
    BY <2>1, <2>4 DEF IsolatedInv, Apart
  <2> QED
    BY <2>1, <2>3, <2>5, <2>6 DEF IsolatedInv, Apart, Returned
<1>10. ASSUME NEW m \in buffered, Write(m)
      PROVE  AllBegun' /\ Apart'
  BY <1>10 DEF Write, loop, lists, history, IsolatedInv, AllBegun, Begun, Apart, Returned
<1>11. ASSUME NEW j \in doomed, Die(j)
      PROVE  AllBegun' /\ Apart'
  BY <1>11 DEF Die, loop, lists, history, IsolatedInv, AllBegun, Begun, Apart, Returned
<1>12. CASE Restart
  <2>1. /\ collecting' = {} /\ buffered' = {} /\ pipe' = {} /\ gathered' = {}
        /\ todo' = {} /\ UNCHANGED <<cycle, past>>
    BY <1>12 DEF Restart
  <2> QED
    BY <2>1 DEF IsolatedInv, AllBegun, Begun, Apart, Returned
<1> QED
  BY <1>2, <1>3, <1>4, <1>5, <1>6, <1>7, <1>8, <1>9, <1>10, <1>11, <1>12
     DEF Next, Main, Child

\* A cycle that reaches its end serves nothing an earlier one has served, and no
\* other step but a restart, which empties it, changes what is served.
THEOREM Isolation == Spec => NeverReexported
<1> DEFINE Ends == (pc = "handle" /\ pc' # "handle") \/ exported' # exported
<1>1. Init => IsolatedInv
  BY InitType DEF Init, IsolatedInv, AllBegun, Apart, Returned
<1>2. IsolatedInv /\ [Next]_vars => IsolatedInv'
  BY NextType, NextIsolated DEF IsolatedInv
<1>3. IsolatedInv /\ [Next]_vars => [Ends => exported' \cap past = {}]_vars
  <2>0. SUFFICES ASSUME IsolatedInv, [Next]_vars, Ends
                 PROVE  exported' \cap past = {}
    OBVIOUS
  <2>1. Next
    BY <2>0 DEF vars, loop
  <2>2. CASE Handle
    BY <2>0, <2>2 DEF Handle, IsolatedInv, Apart
  <2>3. CASE Restart
    BY <2>3 DEF Restart
  <2>4. Handle \/ Restart
    BY <2>0, <2>1 DEF Next, Main, Child, Begin, AllSpawned, LoopAgain, AllJoined, AllTerminated,
         DrainEmpty, Spawn, JoinExited, JoinTimeout, Terminate, DrainGet, Collect, Acquire,
         Write, Die, SpawnFails, Goto, loop, lists
  <2> QED
    BY <2>2, <2>3, <2>4
<1> QED
  BY <1>1, <1>2, <1>3, PTL DEF Spec, NeverReexported
=============================================================================
