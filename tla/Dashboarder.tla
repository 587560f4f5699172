---------------------------- MODULE Dashboarder ----------------------------
(***************************************************************************)
(* The osm-mon-dashboarder process (src/osm_mon/dashboarder): a loop that,  *)
(* once per interval, lists the dashboards OSM made in Grafana, creates     *)
(* those missing for the projects and the network services with metrics,    *)
(* and deletes those it listed that no project or service has.  Projects    *)
(* and services come and go at any time; a dashboard has the id of its      *)
(* resource.                                                                *)
(***************************************************************************)
EXTENDS Integers

CONSTANTS Resource,  \* ids of projects and network services, used once
          Project,   \* those of projects
          Metered,   \* services with a VNFD that has a monitoring-param
          MaxFaults  \* bound: requests and database reads that fail

ASSUME DashboarderAssumption ==
  /\ Project \subseteq Resource
  /\ Metered \subseteq Resource \ Project
  /\ MaxFaults \in Nat

VARIABLES
  live,       \* the projects and network services in the database
  gone,       \* those removed from it
  dashboards, \* the dashboards in Grafana
  pc,         \* where the loop is
  listed,     \* dashboard_uids
  known,      \* osm_resource_uids
  todo,       \* what is left of the list the loop goes through
  faults      \* faults so far

vars == <<live, gone, dashboards, pc, listed, known, todo, faults>>

Control == {"list", "listed", "projects", "services", "delete", "raised"}

TypeOK ==
  /\ live \subseteq Resource /\ gone \subseteq Resource
  /\ dashboards \subseteq Resource
  /\ pc \in Control
  /\ listed \subseteq Resource /\ known \subseteq Resource /\ todo \subseteq Resource
  /\ faults \in 0..MaxFaults

Init ==
  /\ live \in SUBSET Resource /\ gone = {}
  /\ dashboards = {}
  /\ pc = "list"
  /\ listed = {} /\ known = {} /\ todo = {}
  /\ faults = 0

Fault == faults < MaxFaults /\ faults' = faults + 1

-----------------------------------------------------------------------------
(* The rest of OSM. *)

Appear(x) ==
  /\ x \notin live \cup gone
  /\ live' = live \cup {x}
  /\ UNCHANGED <<gone, dashboards, pc, listed, known, todo, faults>>

Vanish(x) ==
  /\ x \in live
  /\ live' = live \ {x}
  /\ gone' = gone \cup {x}
  /\ UNCHANGED <<dashboards, pc, listed, known, todo, faults>>

-----------------------------------------------------------------------------
(* The loop. *)

Wanted == Project \cup Metered

\* Mutant: osm_resource_uids is made once, not in every cycle.
ListKeepsKnown ==
  /\ pc = "list" /\ pc' = "listed"
  /\ listed' = dashboards
  /\ UNCHANGED <<live, gone, dashboards, known, todo, faults>>

ListDashboards ==
  /\ pc = "list" /\ pc' = "listed"
  /\ listed' = dashboards
  /\ known' = {}
  /\ UNCHANGED <<live, gone, dashboards, todo, faults>>

ReadProjects ==
  /\ pc = "listed" /\ pc' = "projects"
  /\ todo' = live \cap Project
  /\ UNCHANGED <<live, gone, dashboards, listed, known, faults>>

\* Mutant: the record is noted in place of its id.
CheckRecord(x) ==
  /\ pc \in {"projects", "services"}
  /\ x \in todo
  /\ todo' = todo \ {x}
  /\ known' = known \cup {[id |-> x]}
  /\ dashboards' = dashboards \cup ({x} \cap (Wanted \ listed))
  /\ UNCHANGED <<live, gone, pc, listed, faults>>

\* The id is noted first; a dashboard is asked for if it is wanted and was not
\* listed.  An answer of Grafana is never looked at, and an exception about a
\* VNFD is logged: either way the loop goes on.
Check(x) ==
  /\ pc \in {"projects", "services"}
  /\ x \in todo
  /\ todo' = todo \ {x}
  /\ known' = known \cup {x}
  /\ \/ /\ dashboards' = dashboards \cup ({x} \cap (Wanted \ listed))
        /\ UNCHANGED faults
     \/ dashboards' = dashboards /\ Fault
  /\ UNCHANGED <<live, gone, pc, listed>>

ReadServices ==
  /\ pc = "projects" /\ pc' = "services"
  /\ todo = {}
  /\ todo' = live \ Project
  /\ UNCHANGED <<live, gone, dashboards, listed, known, faults>>

BeginDelete ==
  /\ pc = "services" /\ pc' = "delete"
  /\ todo = {}
  /\ todo' = listed \ known
  /\ UNCHANGED <<live, gone, dashboards, listed, known, faults>>

Delete(x) ==
  /\ pc = "delete"
  /\ x \in todo
  /\ todo' = todo \ {x}
  /\ \/ dashboards' = dashboards \ {x} /\ UNCHANGED faults
     \/ dashboards' = dashboards /\ Fault
  /\ UNCHANGED <<live, gone, pc, listed, known>>

Sleep ==
  /\ pc = "delete" /\ pc' = "list"
  /\ todo = {}
  /\ UNCHANGED <<live, gone, dashboards, listed, known, todo, faults>>

\* Mutant: the exception is caught where it is raised, and the cycle goes on.
RaisesLater ==
  /\ pc \in {"projects", "services"} /\ todo # {}
  /\ Fault
  /\ todo' = {}
  /\ UNCHANGED <<live, gone, dashboards, pc, listed, known>>

\* A request of Grafana or a read of the database raises; a request may have
\* been carried out all the same.
Raises ==
  /\ pc # "raised" /\ pc' = "raised"
  /\ Fault
  /\ \/ UNCHANGED dashboards
     \/ pc = "projects" /\ \E x \in todo \ listed : dashboards' = dashboards \cup {x}
     \/ pc = "delete" /\ \E x \in todo : dashboards' = dashboards \ {x}
  /\ UNCHANGED <<live, gone, listed, known, todo>>

\* "except Exception" logs and the loop starts over, without the sleep.
LoopAgain ==
  /\ pc = "raised" /\ pc' = "list"
  /\ UNCHANGED <<live, gone, dashboards, listed, known, todo, faults>>

Main ==
  \/ ListDashboards \/ ReadProjects \/ ReadServices \/ BeginDelete \/ Sleep
  \/ LoopAgain
  \/ \E x \in todo : Check(x) \/ Delete(x)

Next == Main \/ Raises \/ \E x \in Resource : Appear(x) \/ Vanish(x)

Spec == Init /\ [][Next]_vars

\* The process is scheduled; nothing is asked of the rest of OSM.
FairSpec == Spec /\ WF_vars(Main)

-----------------------------------------------------------------------------
(* Properties. *)

\* No dashboard of a project or service that exists is ever deleted, though the
\* three lists are read at different times and any request may fail: an id that
\* was listed and is in neither list read later has left the database.
NoLiveDashboardDeleted == [][dashboards \ dashboards' \subseteq gone]_vars

\* Once projects and services stop changing and requests stop failing, the
\* dashboards become those of the existing projects and metered services, and
\* stay so.  Resources are used once and faults are bounded: they do stop.
Converges == <>[](dashboards = live \cap Wanted)
=============================================================================
