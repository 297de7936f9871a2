---------------------------- MODULE MCOptionStrip ----------------------------
(* Small instances of OptionStrip and OptionPanel for TLC.                 *)
EXTENDS OptionPanel

\* One symbol, listed in two rows, on two exchanges: one expiry has passed, one
\* is a monthly.  One price is below all strikes and one above, and each takes
\* two of the three.
MCListedTwice == "SPY" :> {[expiries |-> {1, 4}, strikes |-> {10, 20}],
                           [expiries |-> {4, 6}, strikes |-> {20, 30}]}
MCSpotsAcross == {5, 35}
MCComputations == {Columns, {"underlying_price"}}

\* The symbol in one row.
MCListed == "SPY" :> {[expiries |-> {1, 4, 6}, strikes |-> {10, 20}]}
MCSpots == {15}
MCAll == {Columns}

MCRights == <<"C">>
MCMonthlies == {6}
==============================================================================
