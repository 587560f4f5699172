------------------------- MODULE DashboarderProofs -------------------------
(***************************************************************************)
(* Proofs of Dashboarder, for all sets of projects and services and any    *)
(* number of faults: the type invariant, and that no dashboard of a living *)
(* project or service is deleted.                                          *)
(***************************************************************************)
EXTENDS Dashboarder, TLAPS

\* The listed dashboards that the lists read so far say nothing of are those of
\* resources already gone; in the end they are all that is left to delete.
ObsoleteGone ==
  /\ pc = "projects" => listed \cap Project \subseteq known \cup todo \cup gone
  /\ pc = "services" => listed \subseteq known \cup todo \cup gone
  /\ pc = "delete" => todo \subseteq gone

\* A dashboard, a listed id and an id in hand are those of a resource that
\* exists or existed: only such a resource is ever given one.
OnlyResources ==
  /\ dashboards \subseteq live \cup gone
  /\ listed \subseteq live \cup gone
  /\ todo \subseteq live \cup gone

IInv == TypeOK /\ OnlyResources /\ ObsoleteGone

-----------------------------------------------------------------------------
\* A step of the loop, of the rest of OSM or of a fault keeps the types.
LEMMA TypeStep == TypeOK /\ [Next]_vars => TypeOK'
<1> SUFFICES ASSUME TypeOK, [Next]_vars PROVE TypeOK'
  OBVIOUS
<1> USE DashboarderAssumption DEF TypeOK, Control, Fault
<1>1. CASE ListDashboards
  BY <1>1 DEF ListDashboards
<1>2. CASE ReadProjects
  BY <1>2 DEF ReadProjects
<1>3. CASE ReadServices
  BY <1>3 DEF ReadServices
<1>4. CASE BeginDelete
  BY <1>4 DEF BeginDelete
<1>5. CASE Sleep \/ LoopAgain
  BY <1>5 DEF Sleep, LoopAgain
<1>6. ASSUME NEW x \in todo, Check(x) PROVE TypeOK'
  BY <1>6 DEF Check
<1>7. ASSUME NEW x \in todo, Delete(x) PROVE TypeOK'
  BY <1>7 DEF Delete
<1>8. CASE Raises
  BY <1>8 DEF Raises
<1>9. ASSUME NEW x \in Resource, Appear(x) \/ Vanish(x) PROVE TypeOK'
  BY <1>9 DEF Appear, Vanish
<1>10. CASE UNCHANGED vars
  BY <1>10 DEF vars
<1> QED
  BY <1>1, <1>2, <1>3, <1>4, <1>5, <1>6, <1>7, <1>8, <1>9, <1>10 DEF Next, Main

\* The invariant is inductive.  The heart of it is the order of the reads: what
\* was listed existed before the projects and services were read, so an id that
\* is missing from them has left the database in between or before.
LEMMA InvariantStep == IInv /\ [Next]_vars => IInv'
<1> SUFFICES ASSUME IInv, [Next]_vars PROVE IInv'
  OBVIOUS
<1> USE DEF IInv, OnlyResources, ObsoleteGone
<1>0. TypeOK'
  BY TypeStep
<1>1. CASE ListDashboards
  BY <1>0, <1>1 DEF ListDashboards
<1>2. CASE ReadProjects
  BY <1>0, <1>2 DEF ReadProjects
<1>3. CASE ReadServices
  BY <1>0, <1>3 DEF ReadServices
<1>4. CASE BeginDelete
  BY <1>0, <1>4 DEF BeginDelete
<1>5. CASE Sleep \/ LoopAgain
  BY <1>0, <1>5 DEF Sleep, LoopAgain
<1>6. ASSUME NEW x \in todo, Check(x) PROVE IInv'
  <2>1. OnlyResources'
    BY <1>6 DEF Check
  <2>2. ObsoleteGone'
    BY <1>6 DEF Check
  <2> QED
    BY <1>0, <2>1, <2>2
<1>7. ASSUME NEW x \in todo, Delete(x) PROVE IInv'
  BY <1>0, <1>7 DEF Delete
<1>8. CASE Raises
  BY <1>0, <1>8 DEF Raises
<1>9. ASSUME NEW x \in Resource, Appear(x) \/ Vanish(x) PROVE IInv'
  BY <1>0, <1>9 DEF Appear, Vanish
<1>10. CASE UNCHANGED vars
  BY <1>0, <1>10 DEF vars
<1> QED
  BY <1>1, <1>2, <1>3, <1>4, <1>5, <1>6, <1>7, <1>8, <1>9, <1>10 DEF Next, Main

\* Every reachable state satisfies the invariant.
THEOREM Invariance == Spec => []IInv
<1>1. Init => IInv
  BY DashboarderAssumption DEF Init, IInv, TypeOK, Control, OnlyResources, ObsoleteGone
<1> QED
  BY <1>1, InvariantStep, PTL DEF Spec

-----------------------------------------------------------------------------
\* Every reachable state of the dashboarder is well typed.
THEOREM TypeCorrect == Spec => []TypeOK
<1>1. IInv => TypeOK
  BY DEF IInv
<1> QED
  BY <1>1, Invariance, PTL

\* Whatever the interleaving of the loop with projects and services that come
\* and go, and whatever fails, only dashboards of resources that left the
\* database are deleted (dashboarder/service.py:90-92).
THEOREM LiveDashboardsKept == Spec => NoLiveDashboardDeleted
<1> DEFINE Keeps == dashboards \ dashboards' \subseteq gone
<1>1. IInv /\ [Next]_vars => Keeps \/ UNCHANGED vars
  <2> SUFFICES ASSUME IInv, Next PROVE Keeps
    OBVIOUS
  <2>1. ASSUME NEW x \in todo, Delete(x) PROVE Keeps
    BY <2>1 DEF Delete, IInv, ObsoleteGone
  <2>2. CASE Raises
    BY <2>2 DEF Raises, IInv, ObsoleteGone
  <2>3. ASSUME NEW x \in todo, Check(x) PROVE Keeps
    BY <2>3 DEF Check
  <2>4. ASSUME NEW x \in Resource, Appear(x) \/ Vanish(x) PROVE Keeps
    BY <2>4 DEF Appear, Vanish
  <2> QED
    BY <2>1, <2>2, <2>3, <2>4 DEF Next, Main, ListDashboards, ReadProjects,
       ReadServices, BeginDelete, Sleep, LoopAgain
<1> QED
  BY <1>1, Invariance, PTL DEF Spec, NoLiveDashboardDeleted
=============================================================================
