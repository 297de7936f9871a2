-------------------------- MODULE DashboardServer --------------------------
(***************************************************************************)
(* The dashboard server (DashboardRequestHandler of                        *)
(* ib_gateway_app/visualization.py): threads that answer /api/bars from    *)
(* the SQLite cache, and fill it with one IBKR request at a time when it   *)
(* has no bars for a key (_bootstrap_historical_cache).                    *)
(*                                                                         *)
(* A key stands for the filters of _fetch_bar_rows: contract, bar size,    *)
(* what to show, trading hours.  A step is what a thread does between two  *)
(* accesses to the database, the lock, the gateway or the watcher.  The    *)
(* collector writes to the same database.  Any of its users may find it    *)
(* locked (sqlite3.OperationalError).                                      *)
(***************************************************************************)
EXTENDS Naturals

CONSTANTS
    Handlers, NoHandler, \* the threads that answer requests
    Keys,
    Served,              \* the keys IBKR has bars for
    Bootstrap,           \* --bootstrap-missing
    MaxRequests          \* bound: requests of the browsers

ASSUME ConstantAssumption ==
    /\ NoHandler \notin Handlers /\ Served \subseteq Keys
    /\ Bootstrap \in BOOLEAN /\ MaxRequests \in Nat

VARIABLES
    cached,   \* the keys with bars in the database
    at,       \* where each handler is
    want,     \* the key it was asked for
    lock,     \* who holds _bootstrap_lock
    stores,   \* the handlers whose SQLiteEventStore is open
    known,    \* those whose store has the context of their request
    sessions, \* the handlers whose gateway may be connected
    query,    \* what IBKR makes of each handler's request
    event,    \* the watcher's Event of it
    error,    \* whether the watcher has an error of it
    filled,   \* whether the bootstrap of the handler succeeded
    reply,    \* what each handler answered last
    received, \* the requests received
    asked,    \* the requests made to IBKR, by key
    succeeded, \* the keys whose bootstrap succeeded and left bars
    dropped   \* the handlers of whose request an open store has dropped a bar

store_vars == <<stores, known>>
watcher_vars == <<event, error>>
history_vars == <<received, asked, succeeded, dropped>>
vars == <<cached, at, want, lock, store_vars, sessions, query, watcher_vars, filled, reply,
          history_vars>>

Steps == {"idle", "fetch", "locking", "recheck", "opening", "connecting", "asking",
          "announcing", "waiting", "cancelling", "closing", "shutdown", "retry"}

Init ==
    /\ cached \in SUBSET Keys
    /\ at = [h \in Handlers |-> "idle"] /\ want \in [Handlers -> Keys]
    /\ lock = NoHandler /\ stores = {} /\ known = {} /\ sessions = {}
    /\ query = [h \in Handlers |-> "none"]
    /\ event = [h \in Handlers |-> FALSE] /\ error = [h \in Handlers |-> FALSE]
    /\ filled = [h \in Handlers |-> FALSE] /\ reply = [h \in Handlers |-> "none"]
    /\ received = 0 /\ asked = [k \in Keys |-> 0] /\ succeeded = {}
    /\ dropped = {}

Go(h, from, to) == at[h] = from /\ at' = [at EXCEPT ![h] = to]
Answer(h, from, what) == Go(h, from, "idle") /\ reply' = [reply EXCEPT ![h] = what]

----------------------------------------------------------------------------
(* _handle_bars_api.                                                       *)

Get(h, k) ==
    /\ received < MaxRequests /\ received' = received + 1
    /\ Go(h, "idle", "fetch")
    /\ want' = [want EXCEPT ![h] = k] /\ filled' = [filled EXCEPT ![h] = FALSE]
    /\ dropped' = dropped \ {h} /\ reply' = [reply EXCEPT ![h] = "none"]
    /\ UNCHANGED <<cached, lock, store_vars, sessions, query, watcher_vars, asked, succeeded>>

\* _fetch_bar_rows, whose ValueError leads to the bootstrap.
Fetch(h) ==
    /\ CASE want[h] \in cached -> Answer(h, "fetch", "bars")
         [] want[h] \notin cached /\ Bootstrap -> Go(h, "fetch", "locking") /\ UNCHANGED reply
         [] OTHER -> Answer(h, "fetch", "message")
    /\ UNCHANGED <<cached, want, lock, store_vars, sessions, query, watcher_vars, filled,
                   history_vars>>

FetchLocked(h) ==
    /\ Answer(h, "fetch", "busy")
    /\ UNCHANGED <<cached, want, lock, store_vars, sessions, query, watcher_vars, filled,
                   history_vars>>

\* After the bootstrap: the rows are fetched once more.
Retry(h) ==
    /\ Answer(h, "retry", IF want[h] \in cached THEN "bars" ELSE "message")
    /\ UNCHANGED <<cached, want, lock, store_vars, sessions, query, watcher_vars, filled,
                   history_vars>>

\* The handler of the ValueError is beside the one of the OperationalError,
\* not under it: the exception ends the thread, without an answer.
RetryLocked(h) ==
    /\ Answer(h, "retry", "dropped")
    /\ UNCHANGED <<cached, want, lock, store_vars, sessions, query, watcher_vars, filled,
                   history_vars>>

----------------------------------------------------------------------------
(* _bootstrap_historical_cache.                                            *)

Lock(h) ==
    /\ Go(h, "locking", "recheck")
    /\ lock = NoHandler /\ lock' = h
    /\ UNCHANGED <<cached, want, store_vars, sessions, query, watcher_vars, filled, reply,
                   history_vars>>

\* Mutant: the rows are not looked for again under the lock.
RecheckNothing(h) ==
    /\ Go(h, "recheck", "opening") /\ UNCHANGED lock
    /\ UNCHANGED <<cached, want, store_vars, sessions, query, watcher_vars, filled, reply,
                   history_vars>>

Recheck(h) ==
    /\ IF want[h] \in cached THEN Go(h, "recheck", "retry") /\ lock' = NoHandler
                             ELSE Go(h, "recheck", "opening") /\ UNCHANGED lock
    /\ UNCHANGED <<cached, want, store_vars, sessions, query, watcher_vars, filled, reply,
                   history_vars>>

\* Mutant: acquire and release instead of with.
DropsWithLock(h) ==
    /\ \/ Answer(h, "recheck", "dropped") \/ Answer(h, "opening", "dropped")
    /\ UNCHANGED <<cached, want, lock, store_vars, sessions, query, watcher_vars, filled,
                   history_vars>>

\* The recheck, or the SQLiteEventStore that is made outside of the try, finds
\* the database locked: the exception leaves the lock and ends the thread.
BootstrapLocked(h) ==
    /\ \/ Answer(h, "recheck", "dropped") \/ Answer(h, "opening", "dropped")
    /\ lock' = NoHandler
    /\ UNCHANGED <<cached, want, store_vars, sessions, query, watcher_vars, filled,
                   history_vars>>

\* A gateway, a store and a watcher of its own for each bootstrap.
OpenStore(h) ==
    /\ Go(h, "opening", "connecting")
    /\ stores' = stores \cup {h}
    /\ UNCHANGED <<cached, want, lock, known, sessions, query, watcher_vars, filled, reply,
                   history_vars>>

\* connect_and_start; one that fails may have opened the connection.
Connect(h) ==
    /\ Go(h, "connecting", "asking") \/ Go(h, "connecting", "closing")
    /\ sessions' = sessions \cup {h}
    /\ UNCHANGED <<cached, want, lock, store_vars, query, watcher_vars, filled, reply,
                   history_vars>>

\* request_historical_data up to the API call: from here on IBKR may answer ...
Ask(h) ==
    /\ Go(h, "asking", "announcing")
    /\ query' = [query EXCEPT ![h] = "asked"]
    /\ asked' = [asked EXCEPT ![want[h]] = @ + 1]
    /\ UNCHANGED <<cached, want, lock, store_vars, sessions, watcher_vars, filled, reply,
                   received, succeeded, dropped>>

\* ... and then its event, by which the store learns of the request; unless
\* the raw event finds the database locked, an exception nobody hears of.
Announce(h) ==
    /\ Go(h, "announcing", "waiting")
    /\ known' \in {known, known \cup {h}}
    /\ UNCHANGED <<cached, want, lock, stores, sessions, query, watcher_vars, filled, reply,
                   history_vars>>

\* The gateway has failed: the except block cancels what was asked, if it can.
GatewayRaises(h) ==
    /\ Go(h, "asking", "closing") \/ Go(h, "cancelling", "closing")
    /\ UNCHANGED <<cached, want, lock, store_vars, sessions, query, watcher_vars, filled, reply,
                   history_vars>>

\* wait_for_request: the Event of an End or an error ...
WaitReturns(h) ==
    /\ event[h]
    /\ IF error[h]
       THEN Go(h, "waiting", "cancelling") /\ UNCHANGED <<filled, succeeded>>
       ELSE /\ Go(h, "waiting", "closing")
            /\ filled' = [filled EXCEPT ![h] = TRUE]
            /\ succeeded' = succeeded \cup ({want[h]} \cap cached)
    /\ UNCHANGED <<cached, want, lock, store_vars, sessions, query, watcher_vars, reply,
                   received, asked, dropped>>

\* Mutant: a wait that times out counts as one that returned.
WaitEndsAnyway(h) ==
    /\ ~event[h]
    /\ Go(h, "waiting", "closing")
    /\ filled' = [filled EXCEPT ![h] = TRUE]
    /\ UNCHANGED <<cached, want, lock, store_vars, sessions, query, watcher_vars, reply,
                   history_vars>>

\* ... or its timeout, --bootstrap-timeout.
WaitTimesOut(h) ==
    /\ ~event[h]
    /\ Go(h, "waiting", "cancelling")
    /\ UNCHANGED <<cached, want, lock, store_vars, sessions, query, watcher_vars, filled, reply,
                   history_vars>>

Cancel(h) ==
    /\ Go(h, "cancelling", "closing")
    /\ query' = [query EXCEPT ![h] = "cancelled"]
    /\ UNCHANGED <<cached, want, lock, store_vars, sessions, watcher_vars, filled, reply,
                   history_vars>>

\* Mutant: the lock does not cover the finally block.
CloseStoreUnlocks(h) ==
    /\ Go(h, "closing", "shutdown")
    /\ stores' = stores \ {h} /\ lock' = NoHandler
    /\ UNCHANGED <<cached, want, known, sessions, query, watcher_vars, filled, reply, history_vars>>

\* The finally block closes the store ...
CloseStore(h) ==
    /\ Go(h, "closing", "shutdown")
    /\ stores' = stores \ {h}
    /\ UNCHANGED <<cached, want, lock, known, sessions, query, watcher_vars, filled, reply,
                   history_vars>>

\* ... and shuts the gateway down; then the lock is left, and the gateway, the
\* store and the watcher are gone.
Shutdown(h) ==
    /\ IF filled[h] THEN Go(h, "shutdown", "retry") /\ UNCHANGED reply
                    ELSE Answer(h, "shutdown", "message")
    /\ sessions' = sessions \ {h} /\ known' = known \ {h} /\ lock' = NoHandler
    /\ query' = [query EXCEPT ![h] = "none"]
    /\ event' = [event EXCEPT ![h] = FALSE] /\ error' = [error EXCEPT ![h] = FALSE]
    /\ UNCHANGED <<cached, want, stores, filled, history_vars>>

----------------------------------------------------------------------------
(* The network thread of a bootstrap's gateway, and the collector.         *)

\* A bar goes to the store first, which drops it when it does not know the
\* request or finds the database locked; a closed store can keep nothing.
BarArrives(h, busy) ==
    /\ query[h] \in {"asked", "answering", "cancelled"} /\ want[h] \in Served
    /\ LET kept == h \in stores \cap known /\ ~busy
       IN  /\ cached' = IF kept THEN cached \cup {want[h]} ELSE cached
           /\ dropped' = IF h \in stores /\ ~kept THEN dropped \cup {h} ELSE dropped
    /\ query' = [query EXCEPT ![h] = IF @ = "asked" THEN "answering" ELSE @]
    /\ UNCHANGED <<at, want, lock, store_vars, sessions, watcher_vars, filled, reply, received,
                   asked, succeeded>>

\* The End follows the bars; a key without bars has nothing before it.
EndArrives(h) ==
    /\ query[h] = IF want[h] \in Served THEN "answering" ELSE "asked"
    /\ query' = [query EXCEPT ![h] = "ended"]
    /\ event' = [event EXCEPT ![h] = TRUE]
    /\ UNCHANGED <<cached, at, want, lock, store_vars, sessions, error, filled, reply,
                   history_vars>>

\* An error that refuses the request, or a warning about it.
ErrorArrives(h, refuses) ==
    /\ query[h] \in {"asked", "answering"}
    /\ query' = [query EXCEPT ![h] = IF refuses THEN "refused" ELSE @]
    /\ event' = [event EXCEPT ![h] = TRUE] /\ error' = [error EXCEPT ![h] = TRUE]
    /\ UNCHANGED <<cached, at, want, lock, store_vars, sessions, filled, reply, history_vars>>

CollectorStores(k) ==
    /\ k \notin cached /\ cached' = cached \cup {k}
    /\ UNCHANGED <<at, want, lock, store_vars, sessions, query, watcher_vars, filled, reply,
                   history_vars>>

----------------------------------------------------------------------------
HandlerStep(h) ==
    \/ Fetch(h) \/ FetchLocked(h) \/ Lock(h) \/ Recheck(h) \/ BootstrapLocked(h)
    \/ OpenStore(h) \/ Connect(h) \/ Ask(h) \/ Announce(h) \/ GatewayRaises(h)
    \/ WaitReturns(h) \/ WaitTimesOut(h) \/ Cancel(h) \/ CloseStore(h) \/ Shutdown(h)
    \/ Retry(h) \/ RetryLocked(h)

Next ==
    \/ \E h \in Handlers :
          \/ \E k \in Keys : Get(h, k)
          \/ HandlerStep(h) \/ EndArrives(h)
          \/ \E busy \in BOOLEAN : BarArrives(h, busy)
          \/ \E refuses \in BOOLEAN : ErrorArrives(h, refuses)
    \/ \E k \in Keys : CollectorStores(k)

Spec == Init /\ [][Next]_vars

\* Threads run, waits time out, and IBKR owes nothing.
FairSpec == Spec /\ \A h \in Handlers : WF_vars(HandlerStep(h))

----------------------------------------------------------------------------
\* The bootstraps share one IBKR client id, and IBKR refuses a second session
\* of it (README.md:384): sessions and stores are open only under the lock.
OneSession == \A h \in stores \cup sessions : lock = h

\* README.md:351, the dashboard can "issue one short historical request,
\* populate SQLite, and then return to the normal DB-only path": a key whose
\* bootstrap has succeeded is never asked for again, by whichever tab.
BootstrapOnce == [][\A k \in succeeded : asked'[k] = asked[k]]_vars

\* A bootstrap that succeeds has filled the cache by the time the handler
\* looks, unless the store dropped bars of it: the Event comes after the last
\* bar, bars go to the store first, and the store is open until the wait is
\* over.  Bars may be dropped, since the store knows the request by an event
\* that follows the API call (gateway.py:225).
FilledHasBars ==
    \A h \in Handlers \ dropped :
        at[h] = "retry" /\ filled[h] /\ want[h] \in Served => want[h] \in cached

\* No request is left waiting, whatever IBKR, the database and the handlers
\* before it in the queue for the lock do.
RequestsEnd == \A h \in Handlers : at[h] # "idle" ~> at[h] = "idle"
=============================================================================
