------------------------- MODULE MCInstrumentStore -------------------------
(* Small instances of InstrumentStore for TLC.                             *)
EXTENDS InstrumentStore, TLC

MCTimes == {1}
MCReqIds == {1000}
============================================================================
