------------------------- MODULE MCDashboardServer -------------------------
(* Small instances of DashboardServer for TLC.                             *)
EXTENDS DashboardServer, TLC

Symmetry == Permutations(Handlers)
=============================================================================
