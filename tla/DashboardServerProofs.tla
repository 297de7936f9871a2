----------------------- MODULE DashboardServerProofs -----------------------
(***************************************************************************)
(* What the bootstrap of the dashboard server promises, for any number of  *)
(* threads, keys and requests: one session of the client id at a time, no  *)
(* second request for a key that was filled, and bars in the database when *)
(* a bootstrap has succeeded and the store has dropped none.               *)
(*                                                                         *)
(* None of these is inductive: the session and the second look at the      *)
(* cache are safe because of the lock, and what the watcher says of the    *)
(* bars depends on the store being open until the wait is over.            *)
(***************************************************************************)
EXTENDS DashboardServer, TLAPS

Queries == {"none", "asked", "answering", "ended", "refused", "cancelled"}

TypeOK ==
    /\ cached \subseteq Keys /\ succeeded \subseteq cached
    /\ at \in [Handlers -> Steps] /\ want \in [Handlers -> Keys]
    /\ lock \in Handlers \cup {NoHandler}
    /\ stores \subseteq Handlers /\ known \subseteq Handlers /\ sessions \subseteq Handlers
    /\ query \in [Handlers -> Queries]
    /\ event \in [Handlers -> BOOLEAN] /\ error \in [Handlers -> BOOLEAN]
    /\ filled \in [Handlers -> BOOLEAN]
    /\ asked \in [Keys -> Nat] /\ dropped \subseteq Handlers

Preparing == {"recheck", "opening"}
Open == {"connecting", "asking", "announcing", "waiting", "cancelling", "closing"}
Inside == Preparing \cup Open \cup {"shutdown"}

\* A thread inside the lock holds it; its store and its session are open
\* nowhere else.
LockInv ==
    \A h \in Handlers :
        /\ at[h] \in Inside => lock = h
        /\ h \in stores <=> at[h] \in Open
        /\ h \in sessions => at[h] \in Open \cup {"shutdown"}

\* The watcher has heard nothing before the request; what it hears then of a
\* key with bars it hears after the first bar, which the store, open all the
\* while, has kept or dropped.
WatcherInv ==
    \A h \in Handlers :
        /\ at[h] \in {"connecting", "asking"} => query[h] = "none" /\ ~event[h]
        /\ at[h] \in {"announcing", "waiting"} =>
              /\ event[h] /\ ~error[h] => query[h] = "ended"
              /\ query[h] \in {"answering", "ended"} /\ want[h] \in Served =>
                    want[h] \in cached \/ h \in dropped
        /\ at[h] \in {"idle", "fetch", "locking", "recheck", "opening", "retry"} =>
              query[h] = "none" /\ ~event[h]

\* Between the second look at the cache and the request nobody else can have
\* filled the key: the collector may have, but no bootstrap.
OnceInv ==
    \A h \in Handlers : at[h] \in {"opening", "connecting", "asking"} => want[h] \notin succeeded

\* A bootstrap that is said to have succeeded has.
FilledInv ==
    \A h \in Handlers :
        /\ filled[h] => at[h] \in {"closing", "shutdown", "retry", "idle"}
        /\ filled[h] /\ at[h] # "idle" /\ want[h] \in Served =>
              want[h] \in cached \/ h \in dropped

IInv == TypeOK /\ LockInv /\ WatcherInv /\ OnceInv /\ FilledInv

----------------------------------------------------------------------------
(* The steps: a lemma per action. *)

LEMMA GetKeeps ==
    ASSUME NEW h \in Handlers, NEW k \in Keys, IInv, Get(h, k)
    PROVE  IInv'
<1>1. TypeOK'
  BY ConstantAssumption DEF IInv, TypeOK, Steps, Queries, Get, Go, watcher_vars, store_vars
<1>2. LockInv'
  BY ConstantAssumption DEF IInv, TypeOK, LockInv, Inside, Preparing, Open, Get, Go,
     watcher_vars, store_vars
<1>3. WatcherInv'
  BY ConstantAssumption DEF IInv, TypeOK, LockInv, WatcherInv, Open, Get, Go, watcher_vars,
     store_vars
<1>4. OnceInv'
  BY ConstantAssumption DEF IInv, TypeOK, LockInv, OnceInv, Inside, Preparing, Open, Get, Go,
     watcher_vars, store_vars
<1>5. FilledInv'
  BY ConstantAssumption DEF IInv, TypeOK, WatcherInv, FilledInv, Get, Go, watcher_vars,
     store_vars
<1> QED BY <1>1, <1>2, <1>3, <1>4, <1>5 DEF IInv

\* The first look at the cache decides whether to queue for the lock.
LEMMA FetchKeeps ==
    ASSUME NEW h \in Handlers, IInv, Fetch(h)
    PROVE  IInv'
<1>1. TypeOK'
  BY ConstantAssumption DEF IInv, TypeOK, Steps, Queries, Fetch, Go, Answer, history_vars,
     watcher_vars, store_vars
<1>2. LockInv'
  BY ConstantAssumption DEF IInv, TypeOK, LockInv, Inside, Preparing, Open, Fetch, Go, Answer,
     history_vars, watcher_vars, store_vars
<1>3. WatcherInv'
  BY ConstantAssumption DEF IInv, TypeOK, LockInv, WatcherInv, Open, Fetch, Go, Answer,
     history_vars, watcher_vars, store_vars
<1>4. OnceInv'
  BY ConstantAssumption DEF IInv, TypeOK, LockInv, OnceInv, Inside, Preparing, Open, Fetch, Go,
     Answer, history_vars, watcher_vars, store_vars
<1>5. FilledInv'
  BY ConstantAssumption DEF IInv, TypeOK, WatcherInv, FilledInv, Fetch, Go, Answer,
     history_vars, watcher_vars, store_vars
<1> QED BY <1>1, <1>2, <1>3, <1>4, <1>5 DEF IInv

\* A locked database ends the request before the lock.
LEMMA FetchLockedKeeps ==
    ASSUME NEW h \in Handlers, IInv, FetchLocked(h)
    PROVE  IInv'
<1>1. TypeOK'
  BY ConstantAssumption DEF IInv, TypeOK, Steps, Queries, FetchLocked, Go, Answer, history_vars,
     watcher_vars, store_vars
<1>2. LockInv'
  BY ConstantAssumption DEF IInv, TypeOK, LockInv, Inside, Preparing, Open, FetchLocked, Go,
     Answer, history_vars, watcher_vars, store_vars
<1>3. WatcherInv'
  BY ConstantAssumption DEF IInv, TypeOK, LockInv, WatcherInv, Open, FetchLocked, Go, Answer,
     history_vars, watcher_vars, store_vars
<1>4. OnceInv'
  BY ConstantAssumption DEF IInv, TypeOK, LockInv, OnceInv, Inside, Preparing, Open,
     FetchLocked, Go, Answer, history_vars, watcher_vars, store_vars
<1>5. FilledInv'
  BY ConstantAssumption DEF IInv, TypeOK, WatcherInv, FilledInv, FetchLocked, Go, Answer,
     history_vars, watcher_vars, store_vars
<1> QED BY <1>1, <1>2, <1>3, <1>4, <1>5 DEF IInv

\* The lock is taken when nobody holds it.
LEMMA LockKeeps ==
    ASSUME NEW h \in Handlers, IInv, Lock(h)
    PROVE  IInv'
<1>1. TypeOK'
  BY ConstantAssumption DEF IInv, TypeOK, Steps, Queries, Lock, Go, history_vars, watcher_vars,
     store_vars
<1>2. LockInv'
  BY ConstantAssumption DEF IInv, TypeOK, LockInv, Inside, Preparing, Open, Lock, Go,
     history_vars, watcher_vars, store_vars
<1>3. WatcherInv'
  BY ConstantAssumption DEF IInv, TypeOK, LockInv, WatcherInv, Open, Lock, Go, history_vars,
     watcher_vars, store_vars
<1>4. OnceInv'
  BY ConstantAssumption DEF IInv, TypeOK, LockInv, OnceInv, Inside, Preparing, Open, Lock, Go,
     history_vars, watcher_vars, store_vars
<1>5. FilledInv'
  BY ConstantAssumption DEF IInv, TypeOK, WatcherInv, FilledInv, Lock, Go, history_vars,
     watcher_vars, store_vars
<1> QED BY <1>1, <1>2, <1>3, <1>4, <1>5 DEF IInv

\* The second look: a key that was filled meanwhile is not asked for.
LEMMA RecheckKeeps ==
    ASSUME NEW h \in Handlers, IInv, Recheck(h)
    PROVE  IInv'
<1>1. TypeOK'
  BY ConstantAssumption DEF IInv, TypeOK, Steps, Queries, Recheck, Go, history_vars,
     watcher_vars, store_vars
<1>2. LockInv'
  <2>1. CASE want[h] \in cached
    <3>1. at' = [at EXCEPT ![h] = "retry"] /\ lock' = NoHandler /\ at[h] = "recheck"
      BY <2>1 DEF Recheck, Go
    <3>2. \A g \in Handlers \ {h} : at[g] \notin Inside
      BY <3>1 DEF IInv, LockInv, Inside, Preparing
    <3> QED BY <3>1, <3>2 DEF IInv, TypeOK, LockInv, Inside, Preparing, Open, Recheck,
       store_vars
  <2>2. CASE want[h] \notin cached
    BY <2>2 DEF IInv, TypeOK, LockInv, Inside, Preparing, Open, Recheck, Go, store_vars
  <2> QED BY <2>1, <2>2
<1>3. WatcherInv'
  BY ConstantAssumption DEF IInv, TypeOK, LockInv, WatcherInv, Open, Recheck, Go, history_vars,
     watcher_vars, store_vars
<1>4. OnceInv'
  BY ConstantAssumption DEF IInv, TypeOK, LockInv, OnceInv, Inside, Preparing, Open, Recheck,
     Go, history_vars, watcher_vars, store_vars
<1>5. FilledInv'
  BY ConstantAssumption DEF IInv, TypeOK, WatcherInv, FilledInv, Recheck, Go, history_vars,
     watcher_vars, store_vars
<1> QED BY <1>1, <1>2, <1>3, <1>4, <1>5 DEF IInv

\* A locked database under the lock leaves it.
LEMMA BootstrapLockedKeeps ==
    ASSUME NEW h \in Handlers, IInv, BootstrapLocked(h)
    PROVE  IInv'
<1>1. TypeOK'
  BY ConstantAssumption DEF IInv, TypeOK, Steps, Queries, BootstrapLocked, Go, Answer,
     history_vars, watcher_vars, store_vars
<1>2. LockInv'
  <2>1. /\ at' = [at EXCEPT ![h] = "idle"] /\ lock' = NoHandler
        /\ at[h] \in {"recheck", "opening"}
    BY DEF BootstrapLocked, Answer, Go
  <2>2. \A g \in Handlers \ {h} : at[g] \notin Inside
    BY <2>1 DEF IInv, LockInv, Inside, Preparing
  <2> QED BY <2>1, <2>2 DEF IInv, TypeOK, LockInv, Inside, Preparing, Open, BootstrapLocked,
     store_vars
<1>3. WatcherInv'
  BY ConstantAssumption DEF IInv, TypeOK, LockInv, WatcherInv, Open, BootstrapLocked, Go,
     Answer, history_vars, watcher_vars, store_vars
<1>4. OnceInv'
  BY ConstantAssumption DEF IInv, TypeOK, LockInv, OnceInv, Inside, Preparing, Open,
     BootstrapLocked, Go, Answer, history_vars, watcher_vars, store_vars
<1>5. FilledInv'
  BY ConstantAssumption DEF IInv, TypeOK, WatcherInv, FilledInv, BootstrapLocked, Go, Answer,
     history_vars, watcher_vars, store_vars
<1> QED BY <1>1, <1>2, <1>3, <1>4, <1>5 DEF IInv

\* The store opens under the lock.
LEMMA OpenStoreKeeps ==
    ASSUME NEW h \in Handlers, IInv, OpenStore(h)
    PROVE  IInv'
<1>1. TypeOK'
  BY ConstantAssumption DEF IInv, TypeOK, Steps, Queries, OpenStore, Go, history_vars,
     watcher_vars, store_vars
<1>2. LockInv'
  BY ConstantAssumption DEF IInv, TypeOK, LockInv, Inside, Preparing, Open, OpenStore, Go,
     history_vars, watcher_vars, store_vars
<1>3. WatcherInv'
  BY ConstantAssumption DEF IInv, TypeOK, LockInv, WatcherInv, Open, OpenStore, Go,
     history_vars, watcher_vars, store_vars
<1>4. OnceInv'
  BY ConstantAssumption DEF IInv, TypeOK, LockInv, OnceInv, Inside, Preparing, Open, OpenStore,
     Go, history_vars, watcher_vars, store_vars
<1>5. FilledInv'
  BY ConstantAssumption DEF IInv, TypeOK, WatcherInv, FilledInv, OpenStore, Go, history_vars,
     watcher_vars, store_vars
<1> QED BY <1>1, <1>2, <1>3, <1>4, <1>5 DEF IInv

\* The session begins under the lock.
LEMMA ConnectKeeps ==
    ASSUME NEW h \in Handlers, IInv, Connect(h)
    PROVE  IInv'
<1>1. TypeOK'
  BY ConstantAssumption DEF IInv, TypeOK, Steps, Queries, Connect, Go, history_vars,
     watcher_vars, store_vars
<1>2. LockInv'
  BY ConstantAssumption DEF IInv, TypeOK, LockInv, Inside, Preparing, Open, Connect, Go,
     history_vars, watcher_vars, store_vars
<1>3. WatcherInv'
  BY ConstantAssumption DEF IInv, TypeOK, LockInv, WatcherInv, Open, Connect, Go, history_vars,
     watcher_vars, store_vars
<1>4. OnceInv'
  BY ConstantAssumption DEF IInv, TypeOK, LockInv, OnceInv, Inside, Preparing, Open, Connect,
     Go, history_vars, watcher_vars, store_vars
<1>5. FilledInv'
  BY ConstantAssumption DEF IInv, TypeOK, WatcherInv, FilledInv, Connect, Go, history_vars,
     watcher_vars, store_vars
<1> QED BY <1>1, <1>2, <1>3, <1>4, <1>5 DEF IInv

\* The request starts with a watcher that has heard nothing.
LEMMA AskKeeps ==
    ASSUME NEW h \in Handlers, IInv, Ask(h)
    PROVE  IInv'
<1>1. TypeOK'
  BY ConstantAssumption DEF IInv, TypeOK, Steps, Queries, Ask, Go, watcher_vars, store_vars
<1>2. LockInv'
  BY ConstantAssumption DEF IInv, TypeOK, LockInv, Inside, Preparing, Open, Ask, Go,
     watcher_vars, store_vars
<1>3. WatcherInv'
  BY ConstantAssumption DEF IInv, TypeOK, LockInv, WatcherInv, Open, Ask, Go, watcher_vars,
     store_vars
<1>4. OnceInv'
  BY ConstantAssumption DEF IInv, TypeOK, LockInv, OnceInv, Inside, Preparing, Open, Ask, Go,
     watcher_vars, store_vars
<1>5. FilledInv'
  BY ConstantAssumption DEF IInv, TypeOK, WatcherInv, FilledInv, Ask, Go, watcher_vars,
     store_vars
<1> QED BY <1>1, <1>2, <1>3, <1>4, <1>5 DEF IInv

\* The watcher may hear of the request before the store does.
LEMMA AnnounceKeeps ==
    ASSUME NEW h \in Handlers, IInv, Announce(h)
    PROVE  IInv'
<1>1. TypeOK'
  BY ConstantAssumption DEF IInv, TypeOK, Steps, Queries, Announce, Go, history_vars,
     watcher_vars, store_vars
<1>2. LockInv'
  BY ConstantAssumption DEF IInv, TypeOK, LockInv, Inside, Preparing, Open, Announce, Go,
     history_vars, watcher_vars, store_vars
<1>3. WatcherInv'
  BY ConstantAssumption DEF IInv, TypeOK, LockInv, WatcherInv, Open, Announce, Go, history_vars,
     watcher_vars, store_vars
<1>4. OnceInv'
  BY ConstantAssumption DEF IInv, TypeOK, LockInv, OnceInv, Inside, Preparing, Open, Announce,
     Go, history_vars, watcher_vars, store_vars
<1>5. FilledInv'
  BY ConstantAssumption DEF IInv, TypeOK, WatcherInv, FilledInv, Announce, Go, history_vars,
     watcher_vars, store_vars
<1> QED BY <1>1, <1>2, <1>3, <1>4, <1>5 DEF IInv

\* A session that fails fills nothing.
LEMMA GatewayRaisesKeeps ==
    ASSUME NEW h \in Handlers, IInv, GatewayRaises(h)
    PROVE  IInv'
<1>1. TypeOK'
  BY ConstantAssumption DEF IInv, TypeOK, Steps, Queries, GatewayRaises, Go, history_vars,
     watcher_vars, store_vars
<1>2. LockInv'
  BY ConstantAssumption DEF IInv, TypeOK, LockInv, Inside, Preparing, Open, GatewayRaises, Go,
     history_vars, watcher_vars, store_vars
<1>3. WatcherInv'
  BY ConstantAssumption DEF IInv, TypeOK, LockInv, WatcherInv, Open, GatewayRaises, Go,
     history_vars, watcher_vars, store_vars
<1>4. OnceInv'
  BY ConstantAssumption DEF IInv, TypeOK, LockInv, OnceInv, Inside, Preparing, Open,
     GatewayRaises, Go, history_vars, watcher_vars, store_vars
<1>5. FilledInv'
  BY ConstantAssumption DEF IInv, TypeOK, WatcherInv, FilledInv, GatewayRaises, Go,
     history_vars, watcher_vars, store_vars
<1> QED BY <1>1, <1>2, <1>3, <1>4, <1>5 DEF IInv

\* What ends the wait is an End, after the bars, or an error.
LEMMA WaitReturnsKeeps ==
    ASSUME NEW h \in Handlers, IInv, WaitReturns(h)
    PROVE  IInv'
<1>1. TypeOK'
  BY ConstantAssumption DEF IInv, TypeOK, Steps, Queries, WaitReturns, Go, watcher_vars,
     store_vars
<1>2. LockInv'
  BY ConstantAssumption DEF IInv, TypeOK, LockInv, Inside, Preparing, Open, WaitReturns, Go,
     watcher_vars, store_vars
<1>3. WatcherInv'
  BY ConstantAssumption DEF IInv, TypeOK, LockInv, WatcherInv, Open, WaitReturns, Go,
     watcher_vars, store_vars
<1>4. OnceInv'
  BY ConstantAssumption DEF IInv, TypeOK, LockInv, OnceInv, Inside, Preparing, Open,
     WaitReturns, Go, watcher_vars, store_vars
<1>5. FilledInv'
  BY ConstantAssumption DEF IInv, TypeOK, WatcherInv, FilledInv, WaitReturns, Go, watcher_vars,
     store_vars
<1> QED BY <1>1, <1>2, <1>3, <1>4, <1>5 DEF IInv

\* A wait that times out fills nothing.
LEMMA WaitTimesOutKeeps ==
    ASSUME NEW h \in Handlers, IInv, WaitTimesOut(h)
    PROVE  IInv'
<1>1. TypeOK'
  BY ConstantAssumption DEF IInv, TypeOK, Steps, Queries, WaitTimesOut, Go, history_vars,
     watcher_vars, store_vars
<1>2. LockInv'
  BY ConstantAssumption DEF IInv, TypeOK, LockInv, Inside, Preparing, Open, WaitTimesOut, Go,
     history_vars, watcher_vars, store_vars
<1>3. WatcherInv'
  BY ConstantAssumption DEF IInv, TypeOK, LockInv, WatcherInv, Open, WaitTimesOut, Go,
     history_vars, watcher_vars, store_vars
<1>4. OnceInv'
  BY ConstantAssumption DEF IInv, TypeOK, LockInv, OnceInv, Inside, Preparing, Open,
     WaitTimesOut, Go, history_vars, watcher_vars, store_vars
<1>5. FilledInv'
  BY ConstantAssumption DEF IInv, TypeOK, WatcherInv, FilledInv, WaitTimesOut, Go, history_vars,
     watcher_vars, store_vars
<1> QED BY <1>1, <1>2, <1>3, <1>4, <1>5 DEF IInv

\* The cancel changes nothing the handler has learnt.
LEMMA CancelKeeps ==
    ASSUME NEW h \in Handlers, IInv, Cancel(h)
    PROVE  IInv'
<1>1. TypeOK'
  BY ConstantAssumption DEF IInv, TypeOK, Steps, Queries, Cancel, Go, history_vars,
     watcher_vars, store_vars
<1>2. LockInv'
  BY ConstantAssumption DEF IInv, TypeOK, LockInv, Inside, Preparing, Open, Cancel, Go,
     history_vars, watcher_vars, store_vars
<1>3. WatcherInv'
  BY ConstantAssumption DEF IInv, TypeOK, LockInv, WatcherInv, Open, Cancel, Go, history_vars,
     watcher_vars, store_vars
<1>4. OnceInv'
  BY ConstantAssumption DEF IInv, TypeOK, LockInv, OnceInv, Inside, Preparing, Open, Cancel, Go,
     history_vars, watcher_vars, store_vars
<1>5. FilledInv'
  BY ConstantAssumption DEF IInv, TypeOK, WatcherInv, FilledInv, Cancel, Go, history_vars,
     watcher_vars, store_vars
<1> QED BY <1>1, <1>2, <1>3, <1>4, <1>5 DEF IInv

\* The store closes under the lock.
LEMMA CloseStoreKeeps ==
    ASSUME NEW h \in Handlers, IInv, CloseStore(h)
    PROVE  IInv'
<1>1. TypeOK'
  BY ConstantAssumption DEF IInv, TypeOK, Steps, Queries, CloseStore, Go, history_vars,
     watcher_vars, store_vars
<1>2. LockInv'
  BY ConstantAssumption DEF IInv, TypeOK, LockInv, Inside, Preparing, Open, CloseStore, Go,
     history_vars, watcher_vars, store_vars
<1>3. WatcherInv'
  BY ConstantAssumption DEF IInv, TypeOK, LockInv, WatcherInv, Open, CloseStore, Go,
     history_vars, watcher_vars, store_vars
<1>4. OnceInv'
  BY ConstantAssumption DEF IInv, TypeOK, LockInv, OnceInv, Inside, Preparing, Open, CloseStore,
     Go, history_vars, watcher_vars, store_vars
<1>5. FilledInv'
  BY ConstantAssumption DEF IInv, TypeOK, WatcherInv, FilledInv, CloseStore, Go, history_vars,
     watcher_vars, store_vars
<1> QED BY <1>1, <1>2, <1>3, <1>4, <1>5 DEF IInv

\* The session ends before the lock is left.
LEMMA ShutdownKeeps ==
    ASSUME NEW h \in Handlers, IInv, Shutdown(h)
    PROVE  IInv'
<1>1. TypeOK'
  BY ConstantAssumption DEF IInv, TypeOK, Steps, Queries, Shutdown, Go, Answer, history_vars,
     watcher_vars, store_vars
<1>2. LockInv'
  BY ConstantAssumption DEF IInv, TypeOK, LockInv, Inside, Preparing, Open, Shutdown, Go,
     Answer, history_vars, watcher_vars, store_vars
<1>3. WatcherInv'
  BY ConstantAssumption DEF IInv, TypeOK, LockInv, WatcherInv, Open, Shutdown, Go, Answer,
     history_vars, watcher_vars, store_vars
<1>4. OnceInv'
  BY ConstantAssumption DEF IInv, TypeOK, LockInv, OnceInv, Inside, Preparing, Open, Shutdown,
     Go, Answer, history_vars, watcher_vars, store_vars
<1>5. FilledInv'
  BY ConstantAssumption DEF IInv, TypeOK, WatcherInv, FilledInv, Shutdown, Go, Answer,
     history_vars, watcher_vars, store_vars
<1> QED BY <1>1, <1>2, <1>3, <1>4, <1>5 DEF IInv

\* The last look at the cache ends the request.
LEMMA RetryKeeps ==
    ASSUME NEW h \in Handlers, IInv, Retry(h)
    PROVE  IInv'
<1>1. TypeOK'
  BY ConstantAssumption DEF IInv, TypeOK, Steps, Queries, Retry, Go, Answer, history_vars,
     watcher_vars, store_vars
<1>2. LockInv'
  BY ConstantAssumption DEF IInv, TypeOK, LockInv, Inside, Preparing, Open, Retry, Go, Answer,
     history_vars, watcher_vars, store_vars
<1>3. WatcherInv'
  BY ConstantAssumption DEF IInv, TypeOK, LockInv, WatcherInv, Open, Retry, Go, Answer,
     history_vars, watcher_vars, store_vars
<1>4. OnceInv'
  BY ConstantAssumption DEF IInv, TypeOK, LockInv, OnceInv, Inside, Preparing, Open, Retry, Go,
     Answer, history_vars, watcher_vars, store_vars
<1>5. FilledInv'
  BY ConstantAssumption DEF IInv, TypeOK, WatcherInv, FilledInv, Retry, Go, Answer,
     history_vars, watcher_vars, store_vars
<1> QED BY <1>1, <1>2, <1>3, <1>4, <1>5 DEF IInv

\* So does a locked database.
LEMMA RetryLockedKeeps ==
    ASSUME NEW h \in Handlers, IInv, RetryLocked(h)
    PROVE  IInv'
<1>1. TypeOK'
  BY ConstantAssumption DEF IInv, TypeOK, Steps, Queries, RetryLocked, Go, Answer, history_vars,
     watcher_vars, store_vars
<1>2. LockInv'
  BY ConstantAssumption DEF IInv, TypeOK, LockInv, Inside, Preparing, Open, RetryLocked, Go,
     Answer, history_vars, watcher_vars, store_vars
<1>3. WatcherInv'
  BY ConstantAssumption DEF IInv, TypeOK, LockInv, WatcherInv, Open, RetryLocked, Go, Answer,
     history_vars, watcher_vars, store_vars
<1>4. OnceInv'
  BY ConstantAssumption DEF IInv, TypeOK, LockInv, OnceInv, Inside, Preparing, Open,
     RetryLocked, Go, Answer, history_vars, watcher_vars, store_vars
<1>5. FilledInv'
  BY ConstantAssumption DEF IInv, TypeOK, WatcherInv, FilledInv, RetryLocked, Go, Answer,
     history_vars, watcher_vars, store_vars
<1> QED BY <1>1, <1>2, <1>3, <1>4, <1>5 DEF IInv

\* A bar is stored, or dropped, before the watcher hears of more.
LEMMA BarArrivesKeeps ==
    ASSUME NEW h \in Handlers, NEW busy \in BOOLEAN, IInv, BarArrives(h, busy)
    PROVE  IInv'
<1>1. TypeOK'
  BY ConstantAssumption DEF IInv, TypeOK, Steps, Queries, BarArrives, history_vars,
     watcher_vars, store_vars
<1>2. LockInv'
  BY ConstantAssumption DEF IInv, TypeOK, LockInv, Inside, Preparing, Open, BarArrives,
     history_vars, watcher_vars, store_vars
<1>3. WatcherInv'
  BY ConstantAssumption DEF IInv, TypeOK, LockInv, WatcherInv, Open, BarArrives, history_vars,
     watcher_vars, store_vars
<1>4. OnceInv'
  BY ConstantAssumption DEF IInv, TypeOK, LockInv, OnceInv, Inside, Preparing, Open, BarArrives,
     history_vars, watcher_vars, store_vars
<1>5. FilledInv'
  BY ConstantAssumption DEF IInv, TypeOK, WatcherInv, FilledInv, BarArrives, history_vars,
     watcher_vars, store_vars
<1> QED BY <1>1, <1>2, <1>3, <1>4, <1>5 DEF IInv

\* The End comes after the first bar of a key that has any.
LEMMA EndArrivesKeeps ==
    ASSUME NEW h \in Handlers, IInv, EndArrives(h)
    PROVE  IInv'
<1>1. TypeOK'
  BY ConstantAssumption DEF IInv, TypeOK, Steps, Queries, EndArrives, history_vars, store_vars
<1>2. LockInv'
  BY ConstantAssumption DEF IInv, TypeOK, LockInv, Inside, Preparing, Open, EndArrives,
     history_vars, store_vars
<1>3. WatcherInv'
  BY ConstantAssumption DEF IInv, TypeOK, LockInv, WatcherInv, Open, EndArrives, history_vars,
     store_vars
<1>4. OnceInv'
  BY ConstantAssumption DEF IInv, TypeOK, LockInv, OnceInv, Inside, Preparing, Open, EndArrives,
     history_vars, store_vars
<1>5. FilledInv'
  BY ConstantAssumption DEF IInv, TypeOK, WatcherInv, FilledInv, EndArrives, history_vars,
     store_vars
<1> QED BY <1>1, <1>2, <1>3, <1>4, <1>5 DEF IInv

\* An error is never taken for an End.
LEMMA ErrorArrivesKeeps ==
    ASSUME NEW h \in Handlers, NEW refuses \in BOOLEAN, IInv, ErrorArrives(h, refuses)
    PROVE  IInv'
<1>1. TypeOK'
  BY ConstantAssumption DEF IInv, TypeOK, Steps, Queries, ErrorArrives, history_vars, store_vars
<1>2. LockInv'
  BY ConstantAssumption DEF IInv, TypeOK, LockInv, Inside, Preparing, Open, ErrorArrives,
     history_vars, store_vars
<1>3. WatcherInv'
  BY ConstantAssumption DEF IInv, TypeOK, LockInv, WatcherInv, Open, ErrorArrives, history_vars,
     store_vars
<1>4. OnceInv'
  BY ConstantAssumption DEF IInv, TypeOK, LockInv, OnceInv, Inside, Preparing, Open,
     ErrorArrives, history_vars, store_vars
<1>5. FilledInv'
  BY ConstantAssumption DEF IInv, TypeOK, WatcherInv, FilledInv, ErrorArrives, history_vars,
     store_vars
<1> QED BY <1>1, <1>2, <1>3, <1>4, <1>5 DEF IInv

\* The collector only adds to the cache.
LEMMA CollectorStoresKeeps ==
    ASSUME NEW k \in Keys, IInv, CollectorStores(k)
    PROVE  IInv'
<1>1. TypeOK'
  BY ConstantAssumption DEF IInv, TypeOK, Steps, Queries, CollectorStores, history_vars,
     watcher_vars, store_vars
<1>2. LockInv'
  BY ConstantAssumption DEF IInv, TypeOK, LockInv, Inside, Preparing, Open, CollectorStores,
     history_vars, watcher_vars, store_vars
<1>3. WatcherInv'
  BY ConstantAssumption DEF IInv, TypeOK, LockInv, WatcherInv, Open, CollectorStores,
     history_vars, watcher_vars, store_vars
<1>4. OnceInv'
  BY ConstantAssumption DEF IInv, TypeOK, LockInv, OnceInv, Inside, Preparing, Open,
     CollectorStores, history_vars, watcher_vars, store_vars
<1>5. FilledInv'
  BY ConstantAssumption DEF IInv, TypeOK, WatcherInv, FilledInv, CollectorStores, history_vars,
     watcher_vars, store_vars
<1> QED BY <1>1, <1>2, <1>3, <1>4, <1>5 DEF IInv
----------------------------------------------------------------------------

\* A server that has just started.
LEMMA InitHolds == Init => IInv
BY ConstantAssumption DEF Init, IInv, TypeOK, Steps, Queries, LockInv, Inside, Preparing, Open,
   WatcherInv, OnceInv, FilledInv, store_vars

\* Nothing changes.
LEMMA StutterKeeps == ASSUME IInv, UNCHANGED vars PROVE IInv'
BY DEF IInv, TypeOK, LockInv, WatcherInv, OnceInv, FilledInv, vars, store_vars, watcher_vars,
   history_vars

\* Every step of a handler, IBKR and the collector keeps the invariant.
LEMMA NextKeeps == ASSUME IInv, [Next]_vars PROVE IInv'
<1>1. ASSUME NEW h \in Handlers, NEW k \in Keys, Get(h, k) PROVE IInv'
  BY <1>1, GetKeeps
<1>2. ASSUME NEW h \in Handlers, HandlerStep(h) PROVE IInv'
  BY <1>2, FetchKeeps, FetchLockedKeeps, LockKeeps, RecheckKeeps, BootstrapLockedKeeps,
     OpenStoreKeeps, ConnectKeeps, AskKeeps, AnnounceKeeps, GatewayRaisesKeeps,
     WaitReturnsKeeps, WaitTimesOutKeeps, CancelKeeps, CloseStoreKeeps, ShutdownKeeps,
     RetryKeeps, RetryLockedKeeps DEF HandlerStep
<1>3. ASSUME NEW h \in Handlers, NEW busy \in BOOLEAN, BarArrives(h, busy) \/ EndArrives(h)
      PROVE  IInv'
  BY <1>3, BarArrivesKeeps, EndArrivesKeeps
<1>4. ASSUME NEW h \in Handlers, NEW refuses \in BOOLEAN, ErrorArrives(h, refuses) PROVE IInv'
  BY <1>4, ErrorArrivesKeeps
<1>5. ASSUME NEW k \in Keys, CollectorStores(k) PROVE IInv'
  BY <1>5, CollectorStoresKeeps
<1> QED BY <1>1, <1>2, <1>3, <1>4, <1>5, StutterKeeps DEF Next

\* The lock, the open sessions, the watchers and the cache agree in every
\* reachable state.
THEOREM Invariance == Spec => []IInv
BY InitHolds, NextKeeps, PTL DEF Spec

\* Two bootstraps never have a store or a session of the shared client id
\* open at the same time.
THEOREM OneSessionHolds == Spec => []OneSession
<1>1. IInv => OneSession
  BY DEF IInv, TypeOK, LockInv, OneSession, Inside, Open, store_vars
<1> QED BY <1>1, Invariance, PTL

\* A bootstrap that succeeded has left bars by the time they are fetched again,
\* unless the store dropped some of them.
THEOREM FilledHasBarsHolds == Spec => []FilledHasBars
<1>1. IInv => FilledHasBars
  BY DEF IInv, FilledInv, FilledHasBars
<1> QED BY <1>1, Invariance, PTL

\* No step asks IBKR for a key that a bootstrap has filled.
THEOREM BootstrapOnceHolds == Spec => BootstrapOnce
<1> DEFINE Once == \A k \in succeeded : asked'[k] = asked[k]
<1>1. ASSUME IInv, [Next]_vars PROVE [Once]_vars
  <2>1. ASSUME NEW h \in Handlers, Ask(h) PROVE Once
    <3>1. want[h] \notin succeeded /\ asked' = [asked EXCEPT ![want[h]] = @ + 1]
      BY <1>1, <2>1 DEF IInv, OnceInv, Ask, Go
    <3>2. succeeded \subseteq Keys /\ asked \in [Keys -> Nat]
      BY <1>1 DEF IInv, TypeOK, store_vars
    <3> QED BY <3>1, <3>2
  <2>2. ASSUME UNCHANGED asked PROVE Once
    BY <2>2
  <2>3. ASSUME NEW h \in Handlers, HandlerStep(h) PROVE Once
    BY <2>1, <2>2, <2>3 DEF HandlerStep, history_vars, Fetch, FetchLocked, Lock, Recheck,
       BootstrapLocked, OpenStore, Connect, Announce, GatewayRaises, WaitReturns, WaitTimesOut,
       Cancel, CloseStore, Shutdown, Retry, RetryLocked
  <2>4. ASSUME NEW h \in Handlers, NEW k \in Keys, Get(h, k) PROVE Once
    BY <2>2, <2>4 DEF Get
  <2>5. ASSUME NEW h \in Handlers, NEW busy \in BOOLEAN, NEW refuses \in BOOLEAN,
               BarArrives(h, busy) \/ EndArrives(h) \/ ErrorArrives(h, refuses)
        PROVE  Once
    BY <2>2, <2>5 DEF BarArrives, EndArrives, ErrorArrives, history_vars
  <2>6. ASSUME NEW k \in Keys, CollectorStores(k) PROVE Once
    BY <2>2, <2>6 DEF CollectorStores, history_vars
  <2> QED BY <1>1, <2>3, <2>4, <2>5, <2>6 DEF Next
<1> QED BY <1>1, Invariance, PTL DEF Spec, BootstrapOnce
=============================================================================
