----------------------------- MODULE Collector -----------------------------
(***************************************************************************)
(* The osm-mon-collector process (src/osm_mon/collector): a loop that, once *)
(* per interval, forks one worker per thing to collect from, joins the      *)
(* workers with a timeout, terminates those still alive, drains the         *)
(* multiprocessing queue they write to and swaps what it drained into the   *)
(* Prometheus exporter, whose threads serve it to any scrape.               *)
(* The queue is a pipe of finite capacity guarded by a semaphore.  A worker *)
(* that has put its metrics on the queue stays alive until its feeder       *)
(* thread has written them all; a worker that SIGTERM kills while its       *)
(* feeder holds the semaphore leaves the semaphore taken.                   *)
(***************************************************************************)
EXTENDS Integers, FiniteSets

CONSTANTS Target,    \* a VNF's VIM or VCA, a VIM account, an SDN controller
          MaxYield,  \* metrics one worker returns at most
          PipeCap,   \* metrics the pipe of the queue can hold
          Prompt,    \* no worker is slow: a join only times out on blocked ones
          MaxCycle,  \* bound: cycles that start workers
          MaxFaults  \* bound: database errors, failed forks and restarts

ASSUME CollectorAssumption ==
  /\ {MaxYield, MaxCycle, MaxFaults} \subseteq Nat
  /\ PipeCap \in Nat \ {0}
  /\ Prompt \in BOOLEAN

VARIABLES
  pc,          \* where the loop is
  cycle,       \* the current cycle
  todo,        \* targets of this cycle with no worker yet
  joining,     \* workers this cycle has yet to join
  processes,   \* workers this cycle has yet to test for termination
  collecting,  \* workers that await their target, of any cycle
  doomed,      \* workers that SIGTERM has been sent to
  buffered,    \* metrics put on the queue, still in their worker's feeder
  lock,        \* the set of at most one worker that took the write semaphore
  pipe,        \* metrics in the pipe of the queue
  gathered,    \* metrics drained in this cycle
  exported,    \* what a scrape of the exporter returns
  answered,    \* metrics returned by the workers of this cycle (history)
  clean,       \* no join has timed out and no cycle broke off (history)
  past,        \* all that any swap so far has exported (history)
  faults       \* faults so far

lists   == <<todo, joining, processes, gathered>>
loop    == <<pc, cycle, lists, exported, faults>>
workers == <<collecting, doomed, buffered, lock, pipe>>
history == <<answered, clean, past>>
vars    == <<loop, workers, history>>

Job    == [target : Target, cycle : 1..MaxCycle]
Metric == [job : Job, n : 1..MaxYield]

TypeOK ==
  /\ todo \subseteq Target
  /\ pc \in {"read", "spawn", "join", "terminate", "drain", "handle", "raised"}
  /\ cycle \in 0..MaxCycle
  /\ joining \subseteq Job /\ processes \subseteq Job
  /\ collecting \subseteq Job /\ doomed \subseteq Job
  /\ lock \subseteq Job
  /\ buffered \subseteq Metric /\ pipe \subseteq Metric
  /\ gathered \subseteq Metric /\ exported \subseteq Metric
  /\ answered \subseteq Metric /\ past \subseteq Metric
  /\ clean \in BOOLEAN
  /\ faults \in 0..MaxFaults

Init ==
  /\ pc = "read" /\ cycle = 0
  /\ todo = {} /\ joining = {} /\ processes = {}
  /\ collecting = {} /\ doomed = {}
  /\ buffered = {} /\ lock = {} /\ pipe = {}
  /\ gathered = {} /\ exported = {}
  /\ answered = {} /\ clean = TRUE /\ past = {}
  /\ faults = 0

Goto(from, to) == pc = from /\ pc' = to

Fault == faults < MaxFaults /\ faults' = faults + 1

Alive(j) == j \in collecting \/ \E m \in buffered : m.job = j

-----------------------------------------------------------------------------
(* The loop. *)

\* The VNFs, VIMs and controllers known to the database come and go between
\* two cycles.  After MaxCycle cycles there are none (bound).
Known == IF cycle < MaxCycle THEN SUBSET Target ELSE {{}}

Begin ==
  /\ Goto("read", "spawn")
  /\ todo' \in Known
  /\ cycle' = IF todo' = {} THEN cycle ELSE cycle + 1
  /\ answered' = {}
  /\ UNCHANGED <<joining, processes, gathered, exported, faults, workers, clean,
                 past>>

Spawn(t) ==
  LET j == [target |-> t, cycle |-> cycle] IN
  /\ pc = "spawn"
  /\ t \in todo
  /\ todo' = todo \ {t}
  /\ collecting' = collecting \cup {j}
  /\ joining' = joining \cup {j}
  /\ processes' = processes \cup {j}
  /\ UNCHANGED <<pc, cycle, gathered, exported, faults, doomed, buffered,
                 lock, pipe, history>>

AllSpawned ==
  /\ Goto("spawn", "join")
  /\ todo = {}
  /\ UNCHANGED <<cycle, lists, exported, faults, workers, history>>

\* A read of the database, such as get_vim_account_id between two forks, or a
\* fork raises: the list of processes goes, the workers already started live on.
SpawnFails ==
  /\ Goto("spawn", "raised")
  /\ Fault
  /\ todo' = {} /\ joining' = {} /\ processes' = {}
  /\ answered' = {} /\ clean' = FALSE
  /\ UNCHANGED <<cycle, gathered, exported, workers, past>>

\* "except Exception" logs and the loop starts over, without the sleep.
LoopAgain ==
  /\ Goto("raised", "read")
  /\ UNCHANGED <<cycle, lists, exported, faults, workers, history>>

JoinExited(j) ==
  /\ pc = "join"
  /\ j \in joining /\ ~ Alive(j)
  /\ joining' = joining \ {j}
  /\ UNCHANGED <<pc, cycle, todo, processes, gathered, exported, faults,
                 workers, history>>

\* Some worker has something to do other than wait for the pipe or the semaphore.
Moving ==
  \/ collecting # {}
  \/ lock = {} /\ buffered # {}
  \/ Cardinality(pipe) < PipeCap /\ \E m \in buffered : m.job \in lock

\* Mutant: join without a timeout.
JoinForever(j) == FALSE

JoinTimeout(j) ==
  /\ pc = "join"
  /\ j \in joining /\ Alive(j)
  /\ Prompt => ~ Moving
  /\ joining' = joining \ {j}
  /\ clean' = FALSE
  /\ UNCHANGED <<pc, cycle, todo, processes, gathered, exported, faults,
                 workers, answered, past>>

AllJoined ==
  /\ Goto("join", "terminate")
  /\ joining = {}
  /\ UNCHANGED <<cycle, lists, exported, faults, workers, history>>

\* Mutant: the signal is addressed to what the worker collects from.
TerminateTarget(j) ==
  /\ pc = "terminate"
  /\ j \in processes
  /\ processes' = processes \ {j}
  /\ doomed' = IF Alive(j) THEN doomed \cup {j.target} ELSE doomed
  /\ UNCHANGED <<pc, cycle, todo, joining, gathered, exported, faults,
                 collecting, buffered, lock, pipe, history>>

Terminate(j) ==
  /\ pc = "terminate"
  /\ j \in processes
  /\ processes' = processes \ {j}
  /\ doomed' = IF Alive(j) THEN doomed \cup {j} ELSE doomed
  /\ UNCHANGED <<pc, cycle, todo, joining, gathered, exported, faults,
                 collecting, buffered, lock, pipe, history>>

AllTerminated ==
  /\ Goto("terminate", "drain")
  /\ processes = {}
  /\ UNCHANGED <<cycle, lists, exported, faults, workers, history>>

DrainGet(m) ==
  /\ pc = "drain"
  /\ m \in pipe
  /\ pipe' = pipe \ {m}
  /\ gathered' = gathered \cup {m}
  /\ UNCHANGED <<pc, cycle, todo, joining, processes, exported, faults,
                 collecting, doomed, buffered, lock, history>>

DrainEmpty ==
  /\ Goto("drain", "handle")
  /\ pipe = {}
  /\ UNCHANGED <<cycle, lists, exported, faults, workers, history>>

\* Mutant: no swap when the cycle has gathered nothing.
HandleIfAny ==
  /\ Goto("handle", "read")
  /\ exported' = IF gathered = {} THEN exported ELSE gathered
  /\ gathered' = {}
  /\ past' = past \cup gathered
  /\ UNCHANGED <<cycle, todo, joining, processes, faults, workers, answered, clean>>

\* PrometheusBackend.handle: one assignment replaces what the scrapes see.
Handle ==
  /\ Goto("handle", "read")
  /\ exported' = gathered
  /\ gathered' = {}
  /\ past' = past \cup gathered
  /\ UNCHANGED <<cycle, todo, joining, processes, faults, workers, answered, clean>>

\* The container stops and starts: workers, queue and exporter are new.
Restart ==
  /\ Fault
  /\ pc' = "read"
  /\ todo' = {} /\ joining' = {} /\ processes' = {} /\ gathered' = {}
  /\ collecting' = {} /\ doomed' = {} /\ buffered' = {} /\ lock' = {} /\ pipe' = {}
  /\ exported' = {} /\ answered' = {}
  /\ UNCHANGED <<cycle, clean, past>>

-----------------------------------------------------------------------------
(* The workers. *)

\* Mutant: the worker does not wait for its feeder (cancel_join_thread).
CollectUnflushed(j) ==
  /\ j \in collecting
  /\ collecting' = collecting \ {j}
  /\ \E k \in 0..MaxYield :
       LET got == {[job |-> j, n |-> i] : i \in 1..k} IN
       /\ buffered' = buffered
       /\ answered' = IF j.cycle = cycle THEN answered \cup got ELSE answered
  /\ UNCHANGED <<loop, doomed, lock, pipe, clean, past>>

\* A plugin returns some metrics, or none, or raises before any was put.
Collect(j) ==
  /\ j \in collecting
  /\ collecting' = collecting \ {j}
  /\ \E k \in 0..MaxYield :
       LET got == {[job |-> j, n |-> i] : i \in 1..k} IN
       /\ buffered' = buffered \cup got
       /\ answered' = IF j.cycle = cycle THEN answered \cup got ELSE answered
  /\ UNCHANGED <<loop, doomed, lock, pipe, clean, past>>

Acquire(m) ==
  /\ lock = {}
  /\ m \in buffered
  /\ lock' = {m.job}
  /\ UNCHANGED <<loop, collecting, doomed, buffered, pipe, history>>

Write(m) ==
  /\ m \in buffered /\ m.job \in lock
  /\ Cardinality(pipe) < PipeCap
  /\ buffered' = buffered \ {m}
  /\ pipe' = pipe \cup {m}
  /\ lock' = {}
  /\ UNCHANGED <<loop, collecting, doomed, history>>

\* SIGTERM takes effect.  Nobody releases the semaphore for the dead.
Die(j) ==
  /\ j \in doomed
  /\ doomed' = doomed \ {j}
  /\ collecting' = collecting \ {j}
  /\ buffered' = {m \in buffered : m.job # j}
  /\ UNCHANGED <<loop, lock, pipe, history>>

-----------------------------------------------------------------------------

Main ==
  \/ Begin \/ AllSpawned \/ LoopAgain \/ AllJoined \/ AllTerminated
  \/ DrainEmpty \/ Handle
  \/ \E t \in todo : Spawn(t)
  \/ \E j \in joining : JoinExited(j) \/ JoinTimeout(j)
  \/ \E j \in processes : Terminate(j)
  \/ \E m \in pipe : DrainGet(m)

Child ==
  \/ \E j \in collecting : Collect(j)
  \/ \E m \in buffered : Acquire(m) \/ Write(m)
  \/ \E j \in doomed : Die(j)

Next == Main \/ Child \/ SpawnFails \/ Restart

Spec == Init /\ [][Next]_vars

\* The loop's process is scheduled; a worker may hang for ever.
FairSpec == Spec /\ WF_vars(Main)

-----------------------------------------------------------------------------
(* Properties. *)

\* Until a join times out or a cycle breaks off, what a finished cycle exports is
\* exactly what its own workers returned: nothing of theirs is still in a feeder
\* or the pipe when the drain ends, and nothing of another cycle is left
\* (service.py 129-137, backends/prometheus.py 43-55).
WholeCycleExported ==
  clean /\ pc = "read" => exported = answered

\* Every cycle that reaches its end serves only measurements no earlier cycle has
\* served, whatever workers outlive theirs: none is exported twice, and a target
\* that stops answering does not keep its last value (service.py 134-137,
\* backends/prometheus.py 43-76).  A cycle that breaks off swaps nothing.
NeverReexported ==
  [][(pc = "handle" /\ pc' # "handle") \/ exported' # exported
       => exported' \cap past = {}]_vars

\* A cycle always ends, though a worker may hang on its target, on a full pipe
\* that is drained after the joins only, or on a semaphore that a dead worker took.
CycleCompletes == pc # "read" ~> pc = "read"

\* docs/architecture.md 64: "In every collection cycle, it iterates over the
\* running VNFs (VNFRs) as obtains the declared metrics in their VNFD".  Asked
\* here only of a cycle whose metrics all fit in the pipe, every worker prompt.
FittingCycleExported ==
  pc = "read" /\ Cardinality(answered) <= PipeCap => answered \subseteq exported
=============================================================================
