------------------------------ MODULE MCDashboard ------------------------------
(***************************************************************************)
(* An instance of DashboardRenderer for TLC.  The log grows through a line *)
(* that is cut short (1) and names an address, the whole line (2), which   *)
(* belongs to no protected endpoint, and a line (3) that does.             *)
(***************************************************************************)
EXTENDS DashboardRenderer

Windows == {1, 3}
=============================================================================
