-------------------------- MODULE MCDashboardPage --------------------------
(* Small instances of DashboardPage for TLC: the configs give the settings. *)
EXTENDS DashboardPage
=============================================================================
