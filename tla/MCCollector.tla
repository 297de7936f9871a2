---------------------------- MODULE MCCollector ----------------------------
(* Small instances of Collector for TLC, a few seconds long: the config
   gives every constant its value.  Days have 6 seconds, months 12, and a
   minute, which a month is taken for, 4.                                  *)
EXTENDS Collector

MCUnitSeconds == [S |-> 1, D |-> 6, M |-> 12]
MCIntervalUnits == [S |-> 1, D |-> 6, M |-> 4]
MCDurations == {[amount |-> 2, unit |-> "D"], [amount |-> 1, unit |-> "M"]}
=============================================================================
