-------------------------- MODULE InstrumentStore --------------------------
(***************************************************************************)
(* SQLiteEventStore (ib_gateway_app/persistence.py): what handle_event     *)
(* does to the database, one step per commit, in the processes that share  *)
(* a database file (a collector and the dashboard's bootstrap, say), each  *)
(* of which may crash or close between two steps.                          *)
(*                                                                         *)
(* The events of one process are handled one at a time (SQLiteEventStore   *)
(* holds its lock throughout handle_event), so a process is at one step.   *)
(* An instrument is abstracted to its base, the columns a request and its  *)
(* details agree on, and its detail, the local symbol and trading class,   *)
(* Bare when both are empty; a bar's time stands for the whole of its key. *)
(* Prices and descriptions are left out.                                   *)
(***************************************************************************)
EXTENDS Naturals, FiniteSets

CONSTANTS
    Processes, NoProcess,
    Bases, Details, Bare,
    NoContract,
    ReqIds,         \* request ids, the same in every session
    Times,          \* bar times
    MaxEvents,      \* bound: events handled in all
    MaxInstruments, \* bound: row ids of instruments
    MaxCrashes      \* bound: crashes and closes

ASSUME ConstantAssumption ==
    /\ NoProcess \notin Processes /\ Bare \notin Details
    /\ MaxEvents \in Nat /\ MaxInstruments \in Nat /\ MaxCrashes \in Nat

Contracts == [base : Bases, detail : Details \cup {Bare}]
ASSUME NoContractAssumption == NoContract \notin Contracts

InstrumentIds == 1 .. MaxInstruments
NoRow == 0
Merged == {"historical_prices", "market_data_ticks", "option_greeks"}
Unattached == {"option_chain_snapshots", "account_summaries"}
Tables == Merged \cup Unattached
\* The request contexts kept in memory that name the instrument of an answer.
Contexts == {"historical_prices", "market_data_ticks"}

VARIABLES
    instruments, \* the table: the contract of each row id, or NoContract
    rows,        \* the tables that refer to it
    raw,         \* how many events raw_gateway_events holds
    writer,      \* the process that keeps SQLite's write lock between two steps
    uncommitted, \* the merge in the transaction it keeps open, or NoMerge
    requests,    \* the request contexts of each process
    job,         \* the event each process is handling and how far it is
    failed,      \* whether a handler raised an exception
    crashes      \* crashes and closes so far

vars == <<instruments, rows, raw, writer, uncommitted, requests, job, failed, crashes>>

Idle == [step |-> "idle", table |-> "none", contract |-> NoContract,
         time |-> 0, provisional |-> NoRow, exact |-> NoRow, instrument |-> NoRow]
Steps == {"idle", "find", "exact", "upsert", "row"}
Jobs == [step : Steps, table : Tables \cup {"none"}, contract : Contracts \cup {NoContract},
         time : Times \cup {0}, provisional : InstrumentIds \cup {NoRow},
         exact : InstrumentIds \cup {NoRow}, instrument : InstrumentIds \cup {NoRow}]

NoMerge == [from |-> NoRow, to |-> NoRow]

NoRequests == [k \in Contexts |-> [r \in ReqIds |-> NoContract]]

Init ==
    /\ instruments = [i \in InstrumentIds |-> NoContract]
    /\ rows = [t \in Tables |-> {}]
    /\ raw = 0 /\ writer = NoProcess /\ uncommitted = NoMerge
    /\ requests = [p \in Processes |-> NoRequests]
    /\ job = [p \in Processes |-> Idle]
    /\ failed = FALSE /\ crashes = 0

----------------------------------------------------------------------------
(* Transactions.  A write needs SQLite's write lock, and a commit gives it *)
(* up, with what a failed event has left open: the next one is that of     *)
(* _insert_raw_event, whatever the event.                                  *)

MayWrite(p) == writer \in {NoProcess, p}

Commit(p) == MayWrite(p) /\ writer' = NoProcess

\* _find_instrument_id and the UNIQUE constraint of instruments: the row of
\* a contract, if it has one.
RowOf(c) == IF \E i \in InstrumentIds : instruments[i] = c
            THEN CHOOSE i \in InstrumentIds : instruments[i] = c
            ELSE NoRow

Used == {i \in InstrumentIds : instruments[i] # NoContract}

\* An INTEGER PRIMARY KEY without AUTOINCREMENT: one more than the largest.
NewId == IF Used = {} THEN 1
         ELSE 1 + (CHOOSE i \in Used : \A k \in Used : k <= i)

\* Mutant: the merge forgets the greeks.
MoveTwoTables(from, to) ==
    [t \in Tables |->
        IF t \in Merged \ {"option_greeks"}
        THEN {IF r.instrument = from THEN [r EXCEPT !.instrument = to] ELSE r : r \in rows[t]}
        ELSE rows[t]]

\* Mutant: the duplicate takes its rows with it.
CascadeRows(from, to) ==
    [t \in Tables |-> IF t \in Merged THEN {r \in rows[t] : r.instrument # from} ELSE rows[t]]

\* _merge_duplicate_instrument_rows: the rows of one instrument move to another.
MoveRows(from, to) ==
    [t \in Tables |->
        IF t \in Merged
        THEN {IF r.instrument = from THEN [r EXCEPT !.instrument = to] ELSE r : r \in rows[t]}
        ELSE rows[t]]

\* A commit of what a failed event has left in the open transaction.
CommitMerge ==
    /\ uncommitted' = NoMerge
    /\ IF uncommitted = NoMerge THEN UNCHANGED <<instruments, rows>>
       ELSE /\ instruments' = [instruments EXCEPT ![uncommitted.from] = NoContract]
            /\ rows' = MoveRows(uncommitted.from, uncommitted.to)

----------------------------------------------------------------------------
(* handle_event, up to and with the commit of _insert_raw_event.           *)

Receive(p, next) ==
    /\ job[p].step = "idle" /\ raw < MaxEvents
    /\ raw' = raw + 1
    /\ Commit(p) /\ CommitMerge
    /\ job' = [job EXCEPT ![p] = next]
    /\ UNCHANGED <<failed, crashes>>

Job(step, table, c, time) ==
    [Idle EXCEPT !.step = step, !.table = table, !.contract = c, !.time = time]

\* request.marketData and request.historicalData keep the request for its
\* answers; request.contractDetails and request.placeOrder do not.
ReceiveRequest(p, k, r, c) ==
    /\ Receive(p, Job("find", "none", c, 0))
    /\ requests' = IF k \in Contexts THEN [requests EXCEPT ![p][k][r] = c] ELSE requests

ReceiveDetails(p, c) ==
    /\ c.detail # Bare
    /\ Receive(p, Job("find", "none", c, 0))
    /\ UNCHANGED requests

\* A bar whose request is not known yet is recorded and dropped.
ReceiveBar(p, r, time) ==
    LET c == requests[p]["historical_prices"][r]
    IN  /\ Receive(p, IF c = NoContract THEN Idle ELSE Job("find", "historical_prices", c, time))
        /\ UNCHANGED requests

\* A tick or greeks without their request get a row without an instrument.
ReceiveTick(p, r, table) ==
    LET c == requests[p]["market_data_ticks"][r]
    IN  /\ Receive(p, Job(IF c = NoContract THEN "row" ELSE "find", table, c, 0))
        /\ UNCHANGED requests

\* option.chain and account.summary.
ReceiveRow(p, table) ==
    /\ Receive(p, Job("row", table, NoContract, 0))
    /\ UNCHANGED requests

ReceiveOther(p) == Receive(p, Idle) /\ UNCHANGED requests

----------------------------------------------------------------------------
(* _upsert_instrument.                                                     *)

\* Mutant: the row without a name is not looked up.
FindNothing(p) ==
    /\ job[p].step = "find"
    /\ job' = [job EXCEPT ![p].step = "exact"]
    /\ UNCHANGED <<instruments, rows, raw, writer, uncommitted, requests, failed, crashes>>

\* The two look-ups are reads of their own: no transaction is open yet, and
\* another process may write between them.  has_detail always holds, for the
\* gateway sends conId 0 for an unknown id.
FindProvisional(p) ==
    /\ job[p].step = "find"
    /\ job' = [job EXCEPT ![p].step = "exact",
                          ![p].provisional = RowOf([job[p].contract EXCEPT !.detail = Bare])]
    /\ UNCHANGED <<instruments, rows, raw, writer, uncommitted, requests, failed, crashes>>

FindExact(p) ==
    /\ job[p].step = "exact"
    /\ job' = [job EXCEPT ![p].step = "upsert", ![p].exact = RowOf(job[p].contract)]
    /\ UNCHANGED <<instruments, rows, raw, writer, uncommitted, requests, failed, crashes>>

\* After the upsert: the row of a bar or tick is next, or nothing is.
Resolved(p, i) ==
    IF job[p].table = "none" THEN Idle
    ELSE [job[p] EXCEPT !.step = "row", !.instrument = i]

\* UNIQUE(instrument_id, bar_time, ...) would be violated by that move.
BarsCollide(from, to) ==
    \E r, s \in rows["historical_prices"] :
        r.instrument = from /\ s.instrument = to /\ r.time = s.time

Duplicate(p) == job[p].exact # NoRow /\ job[p].exact # job[p].provisional

\* Mutant: the update leaves the local symbol and trading class as they were.
NameKept(p) ==
    [i \in InstrumentIds |->
        IF Duplicate(p) /\ i = job[p].exact THEN NoContract ELSE instruments[i]]

\* The instruments once the duplicate is deleted and the provisional row has
\* taken the detail of the event.
Named(p) ==
    [i \in InstrumentIds |->
        IF Duplicate(p) /\ i = job[p].exact THEN NoContract
        ELSE IF i = job[p].provisional /\ instruments[i] # NoContract
        THEN [instruments[i] EXCEPT !.detail = IF job[p].contract.detail = Bare
                                               THEN @ ELSE job[p].contract.detail]
        ELSE instruments[i]]

NameTaken(p) ==
    \E i \in InstrumentIds \ {job[p].provisional} :
        Named(p)[i] # NoContract /\ Named(p)[i] = Named(p)[job[p].provisional]

\* There is a provisional row: it absorbs its duplicate and takes the detail.
Absorb(p) ==
    /\ job[p].step = "upsert" /\ job[p].provisional # NoRow
    /\ ~(Duplicate(p) /\ BarsCollide(job[p].exact, job[p].provisional)) /\ ~NameTaken(p)
    /\ Commit(p)
    /\ instruments' = Named(p)
    /\ rows' = IF Duplicate(p) THEN MoveRows(job[p].exact, job[p].provisional) ELSE rows
    /\ job' = [job EXCEPT ![p] = Resolved(p, job[p].provisional)]
    /\ UNCHANGED <<raw, uncommitted, requests, failed, crashes>>

\* A constraint fails: emit_event swallows the exception, nothing is rolled
\* back, and the transaction stays open with the write lock.  When the bars
\* collide that was its first statement, of which SQLite leaves nothing; when
\* the name is taken, a merge comes before it, for the next commit to keep.
AbsorbFails(p) ==
    /\ job[p].step = "upsert" /\ job[p].provisional # NoRow
    /\ (Duplicate(p) /\ BarsCollide(job[p].exact, job[p].provisional)) \/ NameTaken(p)
    /\ MayWrite(p)
    /\ writer' = p
    /\ uncommitted' = IF Duplicate(p) /\ ~BarsCollide(job[p].exact, job[p].provisional)
                      THEN [from |-> job[p].exact, to |-> job[p].provisional] ELSE NoMerge
    /\ failed' = TRUE
    /\ job' = [job EXCEPT ![p] = Idle]
    /\ UNCHANGED <<instruments, rows, raw, requests, crashes>>

\* There is none: INSERT ... ON CONFLICT DO UPDATE, then the id of the row.
Insert(p) ==
    LET c == job[p].contract
        i == IF RowOf(c) # NoRow THEN RowOf(c) ELSE NewId
    IN  /\ job[p].step = "upsert" /\ job[p].provisional = NoRow
        /\ i \in InstrumentIds
        /\ Commit(p)
        /\ instruments' = [instruments EXCEPT ![i] = c]
        /\ job' = [job EXCEPT ![p] = Resolved(p, i)]
        /\ UNCHANGED <<rows, raw, uncommitted, requests, failed, crashes>>

----------------------------------------------------------------------------
(* The rows of bars, ticks, greeks, chains and account summaries.          *)

RowFor(p) ==
    [instrument |-> job[p].instrument, time |-> job[p].time,
     base |-> IF job[p].contract = NoContract THEN NoContract ELSE job[p].contract.base]

\* Mutant: the row is inserted and not committed.
RowNotCommitted(p) ==
    /\ job[p].step = "row"
    /\ MayWrite(p) /\ writer' = p
    /\ rows' = [rows EXCEPT ![job[p].table] = @ \cup {RowFor(p)}]
    /\ job' = [job EXCEPT ![p] = Idle]
    /\ UNCHANGED <<instruments, raw, uncommitted, requests, failed, crashes>>

\* A bar replaces the one of the same instrument and time.
InsertRow(p) ==
    /\ job[p].step = "row"
    /\ Commit(p)
    /\ rows' = [rows EXCEPT ![job[p].table] =
                   {r \in @ : ~(/\ job[p].table = "historical_prices"
                                /\ r.instrument = job[p].instrument
                                /\ r.time = job[p].time)} \cup {RowFor(p)}]
    /\ job' = [job EXCEPT ![p] = Idle]
    /\ UNCHANGED <<instruments, raw, uncommitted, requests, failed, crashes>>

----------------------------------------------------------------------------
(* A process crashes at any step, or closes the store between two events,  *)
(* and a new one takes its place; SQLite rolls its open transaction back.  *)

Restart(p) ==
    /\ crashes < MaxCrashes /\ crashes' = crashes + 1
    /\ job' = [job EXCEPT ![p] = Idle]
    /\ requests' = [requests EXCEPT ![p] = NoRequests]
    /\ writer' = IF writer = p THEN NoProcess ELSE writer
    /\ uncommitted' = IF writer = p THEN NoMerge ELSE uncommitted
    /\ UNCHANGED <<instruments, rows, raw, failed>>

Next ==
    \E p \in Processes :
        \/ \E c \in Contracts :
              \/ ReceiveDetails(p, c)
              \/ \E k \in Contexts \cup {"none"}, r \in ReqIds : ReceiveRequest(p, k, r, c)
        \/ \E r \in ReqIds :
              \/ \E time \in Times : ReceiveBar(p, r, time)
              \/ \E table \in {"market_data_ticks", "option_greeks"} : ReceiveTick(p, r, table)
        \/ \E table \in Unattached : ReceiveRow(p, table)
        \/ ReceiveOther(p)
        \/ FindProvisional(p) \/ FindExact(p)
        \/ Absorb(p) \/ AbsorbFails(p) \/ Insert(p) \/ InsertRow(p) \/ Restart(p)

Spec == Init /\ [][Next]_vars

----------------------------------------------------------------------------
\* The type invariant.
TypeOK ==
    /\ instruments \in [InstrumentIds -> Contracts \cup {NoContract}]
    /\ rows \in [Tables -> SUBSET [instrument : InstrumentIds \cup {NoRow},
                                   time : Times \cup {0}, base : Bases \cup {NoContract}]]
    /\ raw \in 0 .. MaxEvents
    /\ writer \in Processes \cup {NoProcess}
    /\ uncommitted \in [from : InstrumentIds \cup {NoRow}, to : InstrumentIds \cup {NoRow}]
    /\ requests \in [Processes -> [Contexts -> [ReqIds -> Contracts \cup {NoContract}]]]
    /\ job \in [Processes -> Jobs]
    /\ failed \in BOOLEAN
    /\ crashes \in 0 .. MaxCrashes

\* persistence.py:145, 161, 180, the FOREIGN KEYs of the schema (which SQLite
\* does not enforce here): a row refers to an instrument that exists.
ReferencesHold ==
    \A t \in Tables : \A r \in rows[t] :
        r.instrument # NoRow => instruments[r.instrument] # NoContract

\* The row of a bar, tick or greeks is filed under an instrument of the
\* contract that was asked for, however often provisional and detailed rows
\* were merged since and ids of deleted rows were used again.
RowsKeepTheirContract ==
    /\ ReferencesHold
    /\ \A t \in Tables : \A r \in rows[t] :
           r.instrument # NoRow => instruments[r.instrument].base = r.base

\* Bars are never lost: a step may refile or replace the bar of a contract
\* and time, and never takes the last one away.
BarsSurvive ==
    [][\A r \in rows["historical_prices"] :
          \E s \in rows'["historical_prices"] : s.base = r.base /\ s.time = r.time]_vars

\* A contract once named keeps a row of that name: no merge, crash or reused
\* id makes the store forget it.
NamesSurvive ==
    [][\A i \in InstrumentIds : instruments[i] # NoContract /\ instruments[i].detail # Bare =>
          \E k \in InstrumentIds : instruments'[k] = instruments[i]]_vars

\* Details settle the identity of a contract: once they are applied, one row
\* has that name and no provisional row of the same contract is left.
DetailsUnify ==
    [][\A p \in Processes :
          LET c == job[p].contract
          IN  job[p].step = "upsert" /\ c.detail # Bare /\ instruments' # instruments
                  /\ job'[p] # job[p] =>
                  /\ Cardinality({i \in InstrumentIds : instruments'[i] = c}) = 1
                  /\ \A i \in InstrumentIds : instruments'[i] # [c EXCEPT !.detail = Bare]]_vars
============================================================================
