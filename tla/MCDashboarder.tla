--------------------------- MODULE MCDashboarder ---------------------------
(* A small instance of Dashboarder: a project, two services with metrics and  *)
(* one without.                                                              *)
EXTENDS Dashboarder

CONSTANTS project, metered1, metered2, plain

MCResource == {project, metered1, metered2, plain}
=============================================================================
