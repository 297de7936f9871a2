----------------------------- MODULE OptionPanel -----------------------------
(***************************************************************************)
(* The dashboard's option panel beside the option strip: what              *)
(* /api/options-probability (_fetch_options_probability_payload of         *)
(* ib_gateway_app/visualization.py) answers from the greeks that the strip, *)
(* IBKR and the backfill have put into the database.                       *)
(*                                                                         *)
(* The handler keeps no state and reads with one SELECT, so an answer is   *)
(* an operator of the table.  It may be asked for at any moment, in any    *)
(* mode of the page's expiry selector.  A price or a volatility that is    *)
(* not NULL is positive; created_at orders the rows as their ids do.  The  *)
(* probability itself is left out.                                         *)
(***************************************************************************)
EXTENDS OptionStrip

CONSTANT Limit \* 400, which the page asks for

ASSUME LimitAssumption == Limit \in Nat \ {0}

Modes == {"nearest", "weekly", "monthly"}

\* The JOIN with instruments: a row without an instrument is not found.
Joined(s) == {i \in DOMAIN greeks : greeks[i].instrument.symbol = s}

\* Mutant: the newest row comes first, whatever it holds.
NewerIsBetter(i, k) == i > k

\* The ORDER BY of ROW_NUMBER(): a row with a volatility and a price before
\* one without, then one with a price of the underlying, then the newest.
Better(i, k) ==
    LET Whole(j) == {"implied_vol", "option_price"} \subseteq greeks[j].has
        Placed(j) == "underlying_price" \in greeks[j].has
    IN  IF Whole(i) # Whole(k) THEN Whole(i)
        ELSE IF Placed(i) # Placed(k) THEN Placed(i)
        ELSE i > k

\* PARTITION BY instrument, row_number = 1.
LatestGreeks(s) ==
    {i \in Joined(s) :
        \A k \in Joined(s) \ {i} : greeks[k].instrument = greeks[i].instrument => Better(i, k)}

\* ORDER BY created_at DESC LIMIT.
Cut(s) == {i \in LatestGreeks(s) : Cardinality({k \in LatestGreeks(s) : k > i}) < Limit}

\* _select_probability_expiry, of at least one expiry: an expiry in the
\* future, or the last of those that have passed.
ProbabilityExpiry(expiries, mode) ==
    LET monthlies == Future(expiries) \cap Monthlies
    IN  CASE Future(expiries) = {} -> Max(expiries)
          [] mode = "monthly" /\ monthlies # {} -> Min(monthlies)
          [] OTHER -> Min(Future(expiries))

\* The rows the points are made of: a point takes the row's own price of the
\* underlying, or the median of the others'.
Points(s, mode) ==
    LET expiries == {greeks[i].instrument.expiry : i \in Cut(s)}
        selected == {i \in Cut(s) : greeks[i].instrument.expiry = ProbabilityExpiry(expiries, mode)}
        spots == {i \in selected : "underlying_price" \in greeks[i].has}
    IN  {i \in selected : "implied_vol" \in greeks[i].has /\ spots # {}}

\* The options on the curve.
Curve(s, mode) == {greeks[i].instrument : i \in Points(s, mode)}

----------------------------------------------------------------------------
\* README.md:377, the collector "populates option_greeks rows that the
\* dashboard can serve immediately through /api/options-probability", and 355,
\* the selector switches "between the nearest weekly and monthly cached
\* probability curves": an option whose greeks were once complete stays on its
\* curve, however many incomplete ticks follow, as long as no more options are
\* cached than the page asks for.  It leaves the curve of a mode only for an
\* option of an expiry that suits the mode better.
CompleteStaysOnCurve ==
    \A s \in Symbols :
        LET cached == {greeks[i].instrument : i \in Joined(s)}
            future == Future({o.expiry : o \in cached})
            complete == {greeks[i].instrument : i \in {k \in Joined(s) : greeks[k].has = Columns}}
        IN  Cardinality(cached) <= Limit =>
                \A o \in complete, mode \in Modes :
                    \/ o \in Curve(s, mode)
                    \/ o.expiry \notin future /\ \E e \in {p.expiry : p \in cached} : e > o.expiry
                    \/ \E e \in future :
                          IF mode = "monthly" /\ e \in Monthlies
                          THEN e < o.expiry \/ o.expiry \notin Monthlies
                          ELSE e < o.expiry /\ (mode = "monthly" => o.expiry \notin Monthlies)
==============================================================================
