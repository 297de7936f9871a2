---------------------------- MODULE SharedDatabase ----------------------------
(***************************************************************************)
(* One database file shared by processes of InstrumentStore, a collector   *)
(* and the dashboard's bootstrap, say, whose writes wait for each other no *)
(* longer than SQLite's busy timeout, and by ib_historical_store, the C++  *)
(* tool (IBHistoricalStore.cpp): it runs the gateway twice, for the        *)
(* details and the bars of one contract, and then stores both.             *)
(*                                                                         *)
(* The gateways it runs get no --db and leave the database alone; a fetch  *)
(* that fails has not opened it yet, so a fetch starts here with what was  *)
(* read.  The transaction of the bars is one step, for nobody sees it half *)
(* done.  A contract without a strike has NULL there; the Python store     *)
(* writes a 0 for it, so the two never share a row of such a contract.     *)
(***************************************************************************)
EXTENDS InstrumentStore

CONSTANTS
    Tools,
    Options,    \* the bases that have a strike
    MaxFetches  \* bound: fetches in all

ASSUME ToolAssumption == Options \subseteq Bases /\ MaxFetches \in Nat

\* The columns of the instrument, which has no strike but that of an option.
Instrument(c) ==
    IF c.base \in Options THEN c ELSE [base |-> c.base, detail |-> c.detail, strike |-> "NULL"]
ASSUME InstrumentAssumption == \A c \in Contracts : Instrument(c) # NoContract

VARIABLES
    locked,  \* whether a write timed out: "database is locked"
    fetch,   \* the fetch of each tool and how far it is
    fetches, \* how many there were
    kept     \* the contracts tools have stored bars of, and in which rows

tool_vars == <<fetch, fetches, kept>>
shared_vars == <<vars, locked, tool_vars>>

NoFetch == [step |-> "idle", contract |-> NoContract, bars |-> {}, instrument |-> NoRow]

InitShared ==
    /\ Init /\ locked = FALSE
    /\ fetch = [t \in Tools |-> NoFetch] /\ fetches = 0 /\ kept = {}

----------------------------------------------------------------------------
\* Another process holds the write lock for more than the busy timeout: the
\* write raises, emit_event swallows it, and the event is over.
WriteTimesOut(p) ==
    /\ job[p].step \notin {"find", "exact"} /\ ~MayWrite(p)
    /\ locked' = TRUE
    /\ job' = [job EXCEPT ![p] = Idle]
    /\ UNCHANGED <<instruments, rows, raw, writer, uncommitted, requests, failed, crashes,
                   tool_vars>>

----------------------------------------------------------------------------
\* HistoricalGatewayClient::fetch: details, if the gateway gave any, and bars.
\* (A fetch without bars is one that ends before it stores them.)
Fetched(t, c, bars) ==
    /\ fetch[t].step = "idle" /\ fetches < MaxFetches
    /\ fetches' = fetches + 1
    /\ fetch' = [fetch EXCEPT ![t] = [NoFetch EXCEPT !.step = "fetched", !.bars = bars,
                                                     !.contract = Instrument(c)]]
    /\ UNCHANGED <<vars, locked, kept>>

\* INSERT ... ON CONFLICT: a NULL is never in conflict with another, so a
\* contract without a strike is inserted again.
UpsertInstrument(t) ==
    LET c == fetch[t].contract
        i == IF c.base \in Options /\ RowOf(c) # NoRow THEN RowOf(c) ELSE NewId
    IN  /\ fetch[t].step = "fetched" /\ i \in InstrumentIds
        /\ Commit(t)
        /\ instruments' = [instruments EXCEPT ![i] = c]
        /\ fetch' = [fetch EXCEPT ![t].step = "upserted"]
        /\ UNCHANGED <<rows, raw, uncommitted, requests, job, failed, crashes, locked, fetches,
                       kept>>

RowsOf(c) == {i \in InstrumentIds : instruments[i] = c}

\* Mutant: the row that was inserted is taken.
SelectInserted(t) ==
    LET found == RowsOf(fetch[t].contract)
    IN  /\ fetch[t].step = "upserted"
        /\ fetch' = [fetch EXCEPT
               ![t].step = "selected",
               ![t].instrument = IF found = {} THEN NoRow
                                 ELSE CHOOSE i \in found : \A k \in found : k <= i]
        /\ UNCHANGED <<vars, locked, fetches, kept>>

\* The SELECT after it, a statement of its own, takes the first of the rows;
\* that it finds none is no error, and reads as id 0.
SelectInstrument(t) ==
    LET found == RowsOf(fetch[t].contract)
    IN  /\ fetch[t].step = "upserted"
        /\ fetch' = [fetch EXCEPT
               ![t].step = "selected",
               ![t].instrument = IF found = {} THEN NoRow
                                 ELSE CHOOSE i \in found : \A k \in found : i <= k]
        /\ UNCHANGED <<vars, locked, fetches, kept>>

\* insertHistoricalBars: all of them, each in the place of the one it has.
InsertHistoricalBars(t) ==
    LET new == {[instrument |-> fetch[t].instrument, time |-> time,
                 base |-> fetch[t].contract.base] : time \in fetch[t].bars}
    IN  /\ fetch[t].step = "selected"
        /\ Commit(t)
        /\ rows' = [rows EXCEPT !["historical_prices"] =
                       {r \in @ : ~(r.instrument = fetch[t].instrument /\ r.time \in fetch[t].bars)}
                       \cup new]
        /\ kept' = kept \cup {[contract |-> fetch[t].contract, instrument |-> fetch[t].instrument] :
                            time \in fetch[t].bars}
        /\ fetch' = [fetch EXCEPT ![t] = NoFetch]
        /\ UNCHANGED <<instruments, raw, uncommitted, requests, job, failed, crashes, locked,
                       fetches>>

\* The tool sets no busy timeout: a lock that another process holds ends it
\* at once (throwOnSqlError), and so may a signal.
ToolEnds(t) ==
    /\ fetch[t].step # "idle"
    /\ fetch' = [fetch EXCEPT ![t] = NoFetch]
    /\ UNCHANGED <<vars, locked, fetches, kept>>

ToolStep(t) ==
    \/ \E c \in Contracts, bars \in SUBSET Times \ {{}} : Fetched(t, c, bars)
    \/ UpsertInstrument(t) \/ SelectInstrument(t) \/ InsertHistoricalBars(t) \/ ToolEnds(t)

NextShared ==
    \/ Next /\ UNCHANGED <<locked, tool_vars>>
    \/ \E p \in Processes : WriteTimesOut(p)
    \/ \E t \in Tools : ToolStep(t)

SpecShared == InitShared /\ [][NextShared]_shared_vars

----------------------------------------------------------------------------
\* README.md:107, "without reproducing the earlier `database is locked`
\* failures", as far as it goes: as long as no event fails to be applied,
\* every process gives the write lock up within the step that took it, and no
\* other waits out its busy timeout.
LocksNeedFailure == locked => failed

\* README.md:464, "historical_prices stores the bar history keyed by
\* instrument id": although a contract without a strike gets another row with
\* every fetch, whichever tools fetch it at a time, its bars are not spread
\* over those rows.
OneHome ==
    \A f, g \in kept :
        f.contract = g.contract /\ {f.instrument, g.instrument} \subseteq RowsOf(f.contract) =>
            f.instrument = g.instrument
============================================================================
