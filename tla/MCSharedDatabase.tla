-------------------------- MODULE MCSharedDatabase --------------------------
(* Small instances of SharedDatabase for TLC.                             *)
EXTENDS SharedDatabase, TLC

MCTimes == {1}

\* The processes of the gateway are alike, and so are the tools.
Symmetry == Permutations(Processes) \cup Permutations(Tools)
MCReqIds == {1000}
============================================================================
