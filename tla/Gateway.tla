------------------------------ MODULE Gateway ------------------------------
(***************************************************************************)
(* The session of one IBGateway (ib_gateway_app/gateway.py) as run_command *)
(* (ib_gateway_app/cli.py) drives it: connect, issue requests, wait for    *)
(* their answers, shut down, while the threads of the IBKR Python API run  *)
(* the EWrapper callbacks.                                                 *)
(*                                                                         *)
(* A step is what one thread does between two points at which another can  *)
(* observe or change shared state: a read or a set of a threading.Event,   *)
(* a `with self._state_lock` block, a call into the API.  The lock is      *)
(* explicit only where a block reads an Event that is set outside it; the  *)
(* other blocks are single steps that need the lock to be free.            *)
(***************************************************************************)
EXTENDS Naturals

CONSTANTS
    Main,             \* the thread that runs run_command
    NetworkThread,    \* the thread shutdown() joins: it runs EClient.run
    ReaderThread,     \* the socket thread of the API, which reports a lost socket
    NoThread,
    Streams,          \* the account-wide answers: one Event each, no request id
    FirstRequestId,   \* 1000 in the code
    MaxRequests,      \* bound: request ids a session acquires
    FirstOrderId,     \* the order id nextValidId brings
    MaxOrders,        \* bound: orders a session places
    Codes,            \* the connection error codes IBKR sends (1100, 1300, ...)
    MaxFailures       \* bound: failure callbacks IBKR makes in a session

ASSUME ThreadsDistinct ==
    /\ Main # NetworkThread /\ Main # ReaderThread /\ Main # NoThread
    /\ NetworkThread # ReaderThread
    /\ NetworkThread # NoThread /\ ReaderThread # NoThread
ASSUME NumberAssumption ==
    /\ FirstRequestId \in Nat \ {0} /\ FirstOrderId \in Nat \ {0}
    /\ MaxRequests \in Nat /\ MaxOrders \in Nat /\ MaxFailures \in Nat
    /\ Streams \subseteq 1 .. (FirstRequestId - 1)
ASSUME CodeAssumption == Codes \cap {"none", "502", "504", "closed"} = {}

Callbacks == {NetworkThread, ReaderThread}
Threads == Callbacks \cup {Main}
ReqIds == FirstRequestId .. (FirstRequestId + MaxRequests - 1)
Waitables == Streams \cup ReqIds
OrderIds == FirstOrderId .. (FirstOrderId + MaxOrders - 1)

\* What _set_failure is told: an error code, or connectionClosed's None.
Failures == Codes \cup {"502", "504", "closed"}

VARIABLES
    pc,             \* where each thread is
    ret,            \* where Main continues after a _set_failure or a _release_waiters
    lock,           \* the holder of _state_lock
    connected,      \* isConnected()
    ready,          \* _ready_event
    failure,        \* _failure_event
    lastError,      \* _last_error_code and _last_error_message
    err,            \* the failure each thread is reporting
    events,         \* the Event of each stream and request: "absent", "clear", "set"
    nextRequestId,  \* _next_request_id
    nextOrderId,    \* _next_order_id, 0 for None
    op,             \* the call Main is in: its kind and the request or stream it is about
    late,           \* whether the deadline of Main's current call has passed
    storeOpen,      \* whether the SQLite listener is registered and open
    \* what the session has done so far
    handshake,      \* nextValidId has arrived
    sent,           \* requests and streams handed to the API
    orders,         \* order ids handed to the API
    ended,          \* requests and streams whose End callback has run
    completed,      \* waits that returned True, and on which path
    raised,         \* the failure a ConnectionError reported to the caller
    reports,        \* how many failure callbacks IBKR made
    missed          \* the types of the events the SQLite store never saw

conn_vars   == <<connected, ready, failure, lastError, err>>
req_vars    == <<events, nextRequestId, nextOrderId, sent, orders, ended>>
main_vars   == <<ret, op, late, storeOpen, completed, raised>>
vars == <<pc, lock, conn_vars, req_vars, main_vars, handshake, reports, missed>>

----------------------------------------------------------------------------
MainLabels ==
    {"start", "pollCheck", "pollWait", "pollRecheck", "open",
     "ensureFailed", "ensureReady", "register", "send", "emitRequest",
     "waitCheck", "waitTime", "waitRecheck", "sleepCheck", "raising",
     "closeStore", "disconnect", "join", "done"}
CallbackLabels == {"idle", "readySet", "emitReady", "emitEnd", "exited"}
FailureLabels == {"failCheck", "failWrite", "failSet", "release", "releaseRequests"}

Requests == {"request", "marketData", "stream", "order", "cancel"}
Kinds == Requests \cup {"none", "wait", "sleep"}

EventTypes ==
    {"connection.ready", "connection.closed", "ib.error", "request", "data", "end"}

Move(t, from, to) == pc[t] = from /\ pc' = [pc EXCEPT ![t] = to]

\* Where a thread goes when _set_failure or _release_waiters returns.
Return(t) == IF t = Main THEN ret ELSE "idle"

\* emit_event: it takes _state_lock to copy the listeners, then calls each.
\* The store sees nothing once it is removed from the listeners and closed.
Emit(type) ==
    /\ lock = NoThread
    /\ missed' = IF storeOpen THEN missed ELSE missed \cup {type}

NoOp == [kind |-> "none", key |-> 0]

Init ==
    /\ pc = [t \in Threads |-> IF t = Main THEN "start" ELSE "idle"]
    /\ ret = "pollCheck" /\ lock = NoThread
    /\ connected = FALSE /\ ready = FALSE /\ failure = FALSE
    /\ lastError = "none" /\ err = [t \in Threads |-> "none"]
    /\ events = [w \in Waitables |-> IF w \in Streams THEN "clear" ELSE "absent"]
    /\ nextRequestId = FirstRequestId /\ nextOrderId = 0
    /\ op = NoOp /\ late = FALSE /\ storeOpen = TRUE
    /\ handshake = FALSE /\ sent = {} /\ orders = {} /\ ended = {}
    /\ completed = {} /\ raised = "none" /\ reports = 0
    /\ missed = {}

----------------------------------------------------------------------------
(* _set_failure and _release_waiters, run by any thread.                   *)

\* A callback of the API, or the API call Main is in, reports failure e:
\* error() and connectionClosed() emit first and record the failure next.
Report(t, e) ==
    /\ Emit(IF e = "closed" THEN "connection.closed" ELSE "ib.error")
    /\ err' = [err EXCEPT ![t] = e]

\* The early return of _set_failure: an earlier failure stays recorded.
FailureAlreadySet(t) ==
    /\ Move(t, "failCheck", Return(t))
    /\ lock = NoThread /\ failure
    /\ err' = [err EXCEPT ![t] = "none"]
    /\ UNCHANGED <<lock, connected, ready, failure, lastError, req_vars, main_vars,
                   handshake, reports, missed>>

\* Mutant: the flag is tested outside the lock that guards the write.
FailCheckUnlocked(t) ==
    /\ Move(t, "failCheck", "failWrite")
    /\ lock = NoThread /\ ~failure
    /\ UNCHANGED <<lock, conn_vars, req_vars, main_vars, handshake, reports, missed>>

FailCheck(t) ==
    /\ Move(t, "failCheck", "failWrite")
    /\ lock = NoThread /\ ~failure
    /\ lock' = t
    /\ UNCHANGED <<conn_vars, req_vars, main_vars, handshake, reports, missed>>

FailWrite(t) ==
    /\ Move(t, "failWrite", "failSet")
    /\ lastError' = err[t] /\ err' = [err EXCEPT ![t] = "none"]
    /\ lock' = NoThread
    /\ UNCHANGED <<connected, ready, failure, req_vars, main_vars,
                   handshake, reports, missed>>

\* Mutant: the waiters are released and the failure flag is forgotten.
FailSetForgotten(t) ==
    /\ Move(t, "failSet", "release")
    /\ UNCHANGED <<lock, conn_vars, req_vars, main_vars, handshake, reports, missed>>

FailSet(t) ==
    /\ Move(t, "failSet", "release")
    /\ failure' = TRUE
    /\ UNCHANGED <<lock, connected, ready, lastError, err, req_vars, main_vars,
                   handshake, reports, missed>>

\* The Events every request shares ...
Release(t) ==
    /\ Move(t, "release", "releaseRequests")
    /\ ready' = TRUE
    /\ events' = [w \in Waitables |-> IF w \in Streams THEN "set" ELSE events[w]]
    /\ UNCHANGED <<lock, connected, failure, lastError, err, nextRequestId, nextOrderId,
                   sent, orders, ended, main_vars, handshake, reports, missed>>

\* ... then, under the lock, those registered for a request id.
ReleaseRequests(t) ==
    /\ Move(t, "releaseRequests", Return(t))
    /\ lock = NoThread
    /\ events' = [w \in Waitables |-> IF w \in ReqIds /\ events[w] = "clear"
                                      THEN "set" ELSE events[w]]
    /\ UNCHANGED <<lock, conn_vars, nextRequestId, nextOrderId, sent, orders, ended,
                   main_vars, handshake, reports, missed>>

SetFailure(t) ==
    \/ FailureAlreadySet(t) \/ FailCheck(t) \/ FailWrite(t) \/ FailSet(t)
    \/ Release(t) \/ ReleaseRequests(t)

----------------------------------------------------------------------------
(* The EWrapper callbacks.                                                 *)

\* The API delivers callbacks from the moment connect() succeeded; messages
\* queued before a disconnect are still delivered after it.
Alive == pc[Main] # "start"

\* nextValidId: the id under the lock, then _ready_event, then the event.
NextValidId ==
    /\ Alive /\ connected /\ ~handshake /\ lock = NoThread
    /\ Move(NetworkThread, "idle", "readySet")
    /\ nextOrderId' = FirstOrderId
    /\ handshake' = TRUE
    /\ UNCHANGED <<lock, conn_vars, events, nextRequestId, sent, orders, ended,
                   main_vars, reports, missed>>

ReadySet ==
    /\ Move(NetworkThread, "readySet", "emitReady")
    /\ ready' = TRUE
    /\ UNCHANGED <<lock, connected, failure, lastError, err, req_vars, main_vars,
                   handshake, reports, missed>>

EmitReady ==
    /\ Move(NetworkThread, "emitReady", "idle")
    /\ Emit("connection.ready")
    /\ UNCHANGED <<lock, conn_vars, req_vars, main_vars, handshake, reports>>

\* historicalDataEnd, contractDetailsEnd, accountSummaryEnd, positionEnd, ...:
\* find or create the Event, set it, and only then emit the End event.
EndArrives(w) ==
    /\ Alive /\ w \in sent \ ended /\ lock = NoThread
    /\ Move(NetworkThread, "idle", "emitEnd")
    /\ events' = [events EXCEPT ![w] = "set"]
    /\ ended' = ended \cup {w}
    /\ UNCHANGED <<lock, conn_vars, nextRequestId, nextOrderId, sent, orders, main_vars, handshake, reports, missed>>

EmitEnd ==
    /\ Move(NetworkThread, "emitEnd", "idle")
    /\ Emit("end")
    /\ UNCHANGED <<lock, conn_vars, req_vars, main_vars, handshake, reports>>

\* tickPrice, historicalData, contractDetails, orderStatus, ... and error()
\* with any other code: the callback is the event.
DataArrives ==
    /\ Alive
    /\ Move(NetworkThread, "idle", "idle")
    /\ Emit("data")
    /\ UNCHANGED <<lock, conn_vars, req_vars, main_vars, handshake, reports>>

\* error() with a connection error code, on the thread of run().
ConnectionError(code) ==
    /\ Alive /\ connected /\ reports < MaxFailures
    /\ Move(NetworkThread, "idle", "failCheck")
    /\ Report(NetworkThread, code)
    /\ reports' = reports + 1
    /\ UNCHANGED <<lock, connected, ready, failure, lastError, req_vars, main_vars, handshake>>

\* The socket is gone: the API clears its connection and calls
\* connectionClosed() on the thread that noticed.
ConnectionClosed(t) ==
    /\ Alive /\ connected /\ reports < MaxFailures
    /\ Move(t, "idle", "failCheck")
    /\ connected' = FALSE
    /\ Report(t, "closed")
    /\ reports' = reports + 1
    /\ UNCHANGED <<lock, ready, failure, lastError, req_vars, main_vars, handshake>>

\* run() and the socket thread end once the connection is gone.
ThreadExits(t) ==
    /\ Alive /\ ~connected
    /\ Move(t, "idle", "exited")
    /\ UNCHANGED <<lock, conn_vars, req_vars, main_vars, handshake, reports, missed>>

CallbackStep(t) ==
    \/ SetFailure(t) \/ ConnectionClosed(t) \/ ThreadExits(t)
    \/ /\ t = NetworkThread
       /\ \/ NextValidId \/ ReadySet \/ EmitReady \/ EmitEnd \/ DataArrives
          \/ \E w \in Waitables : EndArrives(w)
          \/ \E code \in Codes : ConnectionError(code)

----------------------------------------------------------------------------
(* The thread that runs run_command.                                       *)

\* raise_if_failed: on a failure Main leaves for the except path, else it
\* goes on.  The recorded error is read later, under the lock (RaiseFailure).
RaiseIfFailed(from, next) ==
    /\ Move(Main, from, IF failure THEN "raising" ELSE next)
    /\ UNCHANGED <<lock, conn_vars, req_vars, main_vars, handshake, reports, missed>>

RaiseFailure ==
    /\ Move(Main, "raising", "closeStore")
    /\ lock = NoThread
    /\ raised' = lastError
    /\ UNCHANGED <<lock, conn_vars, req_vars, ret, op, late, storeOpen, completed,
                   handshake, reports, missed>>

\* connect_and_start: the socket opens and run() starts on its thread, or
\* connect() reports 502 and returns; either way the poll loop follows.
Connect ==
    /\ Move(Main, "start", "pollCheck")
    /\ connected' = TRUE
    /\ UNCHANGED <<lock, ready, failure, lastError, err, req_vars, main_vars,
                   handshake, reports, missed>>

ConnectFails ==
    /\ Move(Main, "start", "failCheck")
    /\ Report(Main, "502")
    /\ ret' = "pollCheck"
    /\ UNCHANGED <<lock, connected, ready, failure, lastError, req_vars, op, late, storeOpen,
                   completed, raised, handshake, reports>>

PollCheck == RaiseIfFailed("pollCheck", "pollWait")

\* Mutant: the poll loop never looks at its deadline.
PollWaitForever ==
    /\ Move(Main, "pollWait", IF ready THEN "pollRecheck" ELSE "pollCheck")
    /\ UNCHANGED <<lock, conn_vars, req_vars, main_vars, handshake, reports, missed>>

\* The deadline, then a bounded wait for _ready_event.
PollWait ==
    /\ Move(Main, "pollWait", IF late THEN "closeStore"          \* TimeoutError
                              ELSE IF ready THEN "pollRecheck" ELSE "pollCheck")
    /\ UNCHANGED <<lock, conn_vars, req_vars, main_vars, handshake, reports, missed>>

PollRecheck == RaiseIfFailed("pollRecheck", "open")

\* The command's next call.  MaxRequests and MaxOrders bound the calls; no
\* command asks for the same account-wide stream twice.
Begin(kind, key) ==
    /\ Move(Main, "open", "ensureFailed")
    /\ kind \in {"request", "marketData"} => nextRequestId \in ReqIds
    /\ kind = "order" => nextOrderId < FirstOrderId + MaxOrders
    /\ IF kind = "stream" THEN key \in Streams \ sent ELSE key = 0
    /\ op' = [kind |-> kind, key |-> key] /\ late' = FALSE
    /\ UNCHANGED <<lock, conn_vars, req_vars, ret, storeOpen, completed, raised,
                   handshake, reports, missed>>

\* ensure_ready: raise_if_failed, then RuntimeError unless the session is ready.
EnsureFailed == RaiseIfFailed("ensureFailed", "ensureReady")

EnsureReady ==
    /\ Move(Main, "ensureReady", IF ready THEN "register" ELSE "closeStore")
    /\ UNCHANGED <<lock, conn_vars, req_vars, main_vars, handshake, reports, missed>>

\* The id the call is about, and the order id the next one will get.
Key == CASE op.kind \in {"request", "marketData"} -> nextRequestId
         [] op.kind = "order" -> nextOrderId
         [] OTHER -> op.key

\* Mutant: the order id is handed out and not counted.
OrderIdKept == nextOrderId

OrderIdAfter ==
    IF op.kind = "order" /\ nextOrderId # 0 THEN nextOrderId + 1 ELSE nextOrderId

\* What the call does before it reaches the API, under the lock: take an id,
\* register a fresh Event for it, clear the Event of a stream.
Register ==
    /\ Move(Main, "register",
            IF op.kind = "order" /\ nextOrderId = 0 THEN "closeStore" ELSE "send")
    /\ lock = NoThread
    /\ op' = [op EXCEPT !.key = Key]
    /\ nextOrderId' = OrderIdAfter
    /\ nextRequestId' = IF op.kind \in {"request", "marketData"}
                        THEN nextRequestId + 1 ELSE nextRequestId
    /\ events' = IF op.kind \in {"request", "stream"}
                 THEN [events EXCEPT ![Key] = "clear"] ELSE events
    /\ UNCHANGED <<lock, conn_vars, sent, orders, ended, ret, late, storeOpen, completed,
                   raised, handshake, reports, missed>>

\* The API call itself.  Without a connection the API reports 504 to error()
\* on this thread instead, and the call goes on as if it had been sent.
Send ==
    /\ connected
    /\ Move(Main, "send", "emitRequest")
    /\ sent' = IF op.kind \in {"request", "stream"} THEN sent \cup {op.key} ELSE sent
    /\ orders' = IF op.kind = "order" THEN orders \cup {op.key} ELSE orders
    /\ UNCHANGED <<lock, conn_vars, events, nextRequestId, nextOrderId, ended, main_vars,
                   handshake, reports, missed>>

SendNotConnected ==
    /\ ~connected
    /\ Move(Main, "send", "failCheck")
    /\ Report(Main, "504")
    /\ ret' = "emitRequest"
    /\ UNCHANGED <<lock, connected, ready, failure, lastError, req_vars, op, late, storeOpen,
                   completed, raised, handshake, reports>>

\* Mutant: the Event of a request is registered after the API call.
EmitRequestRegisters ==
    /\ Move(Main, "emitRequest", "open")
    /\ Emit("request")
    /\ op' = NoOp
    /\ events' = IF op.kind = "request" THEN [events EXCEPT ![op.key] = "clear"] ELSE events
    /\ UNCHANGED <<lock, conn_vars, nextRequestId, nextOrderId, sent, orders, ended, ret, late,
                   storeOpen, completed, raised, handshake, reports>>

EmitRequest ==
    /\ Move(Main, "emitRequest", "open")
    /\ Emit("request")
    /\ op' = NoOp
    /\ UNCHANGED <<lock, conn_vars, req_vars, ret, late, storeOpen, completed, raised,
                   handshake, reports>>

\* wait_for_*: find the Event, start the deadline.
BeginWait(w) ==
    /\ Move(Main, "open", "waitCheck")
    /\ lock = NoThread
    /\ IF w \in Streams THEN w \in sent ELSE events[w] # "absent"
    /\ op' = [kind |-> "wait", key |-> w] /\ late' = FALSE
    /\ UNCHANGED <<lock, conn_vars, req_vars, ret, storeOpen, completed, raised,
                   handshake, reports, missed>>

WaitCheck == RaiseIfFailed("waitCheck", "waitTime")

Complete(path) == completed' = completed \cup {[key |-> op.key, path |-> path]}

\* The deadline: the wait returns whatever the Event says.
WaitDeadline ==
    /\ Move(Main, "waitTime", "open")
    /\ late
    /\ IF events[op.key] = "set" THEN Complete("deadline") ELSE UNCHANGED completed
    /\ op' = NoOp /\ late' = FALSE
    /\ UNCHANGED <<lock, conn_vars, req_vars, ret, storeOpen, raised,
                   handshake, reports, missed>>

\* Before it: 0.1 s in Event.wait, which returns early when the Event is set.
WaitSlice ==
    /\ Move(Main, "waitTime", IF events[op.key] = "set" THEN "waitRecheck" ELSE "waitCheck")
    /\ ~late
    /\ UNCHANGED <<lock, conn_vars, req_vars, main_vars, handshake, reports, missed>>

\* Mutant: Event.wait's True is taken for the answer.
WaitNoRecheck ==
    /\ Move(Main, "waitRecheck", "open")
    /\ Complete("inTime") /\ op' = NoOp /\ late' = FALSE
    /\ UNCHANGED <<lock, conn_vars, req_vars, ret, storeOpen, raised,
                   handshake, reports, missed>>

WaitRecheck ==
    /\ Move(Main, "waitRecheck", IF failure THEN "raising" ELSE "open")
    /\ IF failure THEN UNCHANGED <<completed, op>>
                  ELSE Complete("inTime") /\ op' = NoOp
    /\ late' = FALSE
    /\ UNCHANGED <<lock, conn_vars, req_vars, ret, storeOpen, raised,
                   handshake, reports, missed>>

\* sleep_while_connected: until the deadline, look for a failure every 0.1 s.
BeginSleep ==
    /\ Move(Main, "open", "sleepCheck")
    /\ op' = [kind |-> "sleep", key |-> 0] /\ late' = FALSE
    /\ UNCHANGED <<lock, conn_vars, req_vars, ret, storeOpen, completed, raised,
                   handshake, reports, missed>>

\* Mutant: the sleep ends at its deadline and at nothing else.
SleepThrough ==
    /\ Move(Main, "sleepCheck", "open")
    /\ late
    /\ op' = NoOp /\ late' = FALSE
    /\ UNCHANGED <<lock, conn_vars, req_vars, ret, storeOpen, completed, raised,
                   handshake, reports, missed>>

SleepCheck ==
    /\ Move(Main, "sleepCheck",
            IF failure THEN "raising" ELSE IF late THEN "open" ELSE "sleepCheck")
    /\ failure \/ late
    /\ op' = IF failure THEN op ELSE NoOp
    /\ late' = FALSE
    /\ UNCHANGED <<lock, conn_vars, req_vars, ret, storeOpen, completed, raised,
                   handshake, reports, missed>>

\* The command returns, or raises an error of its own.
CommandEnds ==
    /\ Move(Main, "open", "closeStore")
    /\ UNCHANGED <<lock, conn_vars, req_vars, main_vars, handshake, reports, missed>>

\* The finally block of run_command: the store is taken off the listeners
\* and closed, and then shutdown() releases the waiters ...
CloseStore ==
    /\ Move(Main, "closeStore", "release")
    /\ lock = NoThread
    /\ storeOpen' = FALSE /\ ret' = "disconnect"
    /\ op' = NoOp /\ late' = FALSE
    /\ UNCHANGED <<lock, conn_vars, req_vars, completed, raised,
                   handshake, reports, missed>>

\* ... disconnects, which runs connectionClosed() on this thread ...
Disconnect ==
    /\ connected
    /\ Move(Main, "disconnect", "failCheck")
    /\ connected' = FALSE
    /\ Report(Main, "closed")
    /\ ret' = "join"
    /\ UNCHANGED <<lock, ready, failure, lastError, req_vars, op, late, storeOpen, completed, raised,
                   handshake, reports>>

NotConnected ==
    /\ ~connected
    /\ Move(Main, "disconnect", "join")
    /\ UNCHANGED <<lock, conn_vars, req_vars, main_vars, handshake, reports, missed>>

\* ... and joins the network thread, for five seconds.
Join ==
    /\ Move(Main, "join", "done")
    /\ pc[NetworkThread] = "exited" \/ late
    /\ UNCHANGED <<lock, conn_vars, req_vars, main_vars, handshake, reports, missed>>

MainStep ==
    \/ SetFailure(Main) \/ RaiseFailure
    \/ Connect \/ ConnectFails \/ PollCheck \/ PollWait \/ PollRecheck
    \/ \E kind \in Requests, key \in Streams \cup {0} : Begin(kind, key)
    \/ EnsureFailed \/ EnsureReady \/ Register \/ Send \/ SendNotConnected \/ EmitRequest
    \/ \E w \in Waitables : BeginWait(w)
    \/ WaitCheck \/ WaitDeadline \/ WaitSlice \/ WaitRecheck
    \/ BeginSleep \/ SleepCheck \/ CommandEnds
    \/ CloseStore \/ Disconnect \/ NotConnected \/ Join

\* Time passes: the deadline of the call Main is in expires.
TimedLabels == {"pollCheck", "pollWait", "waitCheck", "waitTime", "sleepCheck", "join"}

DeadlinePasses ==
    /\ pc[Main] \in TimedLabels /\ ~late
    /\ late' = TRUE
    /\ UNCHANGED <<pc, lock, conn_vars, req_vars, ret, op, storeOpen, completed, raised,
                   handshake, reports, missed>>

\* The process has ended; nothing runs any more.
Done == pc[Main] = "done" /\ UNCHANGED vars

Next ==
    \/ pc[Main] # "done" /\ (MainStep \/ (\E t \in Callbacks : CallbackStep(t)) \/ DeadlinePasses)
    \/ Done

Spec == Init /\ [][Next]_vars

\* Main and the callbacks keep running; IBKR owes no callback, and only the
\* part of a callback that is left runs to its end.
CallbackEnds(t) ==
    \/ SetFailure(t) \/ ThreadExits(t)
    \/ t = NetworkThread /\ (ReadySet \/ EmitReady \/ EmitEnd)

Fairness ==
    /\ WF_vars(pc[Main] # "done" /\ MainStep)
    /\ \A t \in Callbacks : WF_vars(pc[Main] # "done" /\ CallbackEnds(t))

FairSpec == Spec /\ Fairness
DeadlinesExpire == WF_vars(DeadlinePasses)

----------------------------------------------------------------------------
\* The type invariant.
TypeOK ==
    /\ pc \in [Threads -> MainLabels \cup CallbackLabels \cup FailureLabels]
    /\ ret \in {"pollCheck", "emitRequest", "disconnect", "join"}
    /\ lock \in Threads \cup {NoThread}
    /\ connected \in BOOLEAN /\ ready \in BOOLEAN /\ failure \in BOOLEAN
    /\ lastError \in Failures \cup {"none"}
    /\ err \in [Threads -> Failures \cup {"none"}]
    /\ events \in [Waitables -> {"absent", "clear", "set"}]
    /\ nextRequestId \in FirstRequestId .. (FirstRequestId + MaxRequests)
    /\ nextOrderId \in Nat
    /\ op \in [kind : Kinds, key : Nat]
    /\ late \in BOOLEAN /\ storeOpen \in BOOLEAN
    /\ handshake \in BOOLEAN
    /\ sent \subseteq Waitables /\ orders \subseteq OrderIds /\ ended \subseteq sent
    /\ completed \subseteq [key : Waitables, path : {"inTime", "deadline"}]
    /\ raised \in Failures \cup {"none"}
    /\ reports \in 0 .. MaxFailures
    /\ missed \subseteq EventTypes

\* README.md:600, "waits for `nextValidId` before sending requests": nothing
\* reaches the API before the handshake, although a failure sets _ready_event
\* too (_release_waiters), on another thread than the one that tests it.
HandshakeFirst == sent # {} \/ orders # {} => handshake

\* _set_failure keeps the first failure: the error raise_if_failed reported is
\* a recorded one and is never replaced afterwards, whatever is reported later
\* and by which thread.
RaisedErrorIsFinal ==
    /\ raised # "none" => raised = lastError
    /\ pc[Main] \in {"closeStore", "disconnect", "join", "done"} /\ failure => lastError # "none"

\* An answer that has arrived stays visible: once the End callback of a
\* request or stream has run its Event is set, however early it came.
EndIsNotLost == \A w \in ended : events[w] = "set"

\* What a wait that returned True promises.  A wait that ends before its
\* deadline has seen the End callback, never the release of a failure; one
\* that ends at its deadline may have seen either, because the Event is read
\* after the last look at _failure_event.
WaitTrueIsExplained ==
    \A c \in completed : c.key \in ended \/ (c.path = "deadline" /\ failure)

\* An order id is handed to the API once: IBKR takes a second use of it as a
\* change of the first order.
OrdersAreNew ==
    [][pc[Main] = "send" /\ pc'[Main] = "emitRequest" /\ op.kind = "order" =>
          op.key \notin orders]_vars

\* README.md:445, "the Python gateway writes all emitted events into
\* raw_gateway_events": no End event misses the store.
EndEventsStored == "end" \notin missed

\* A failure ends the session, with no deadline to help: no poll, wait or
\* sleep of Main outlasts it, and no thread keeps another one out of the lock.
FailureEndsSession == failure ~> pc[Main] = "done"

\* Whatever IBKR does, when deadlines expire connecting takes no longer than
\* its own, a wait no longer than its own, and a session that leaves the open
\* state ends.
CallsReturn ==
    DeadlinesExpire =>
        /\ pc[Main] \in {"start", "waitCheck", "ensureFailed"} ~> pc[Main] \in {"open", "done"}
        /\ pc[Main] = "closeStore" ~> pc[Main] = "done"

----------------------------------------------------------------------------
(* The inductive invariant behind the safety properties: what holds of     *)
(* every thread at every step, whatever the others do.                     *)

ClosedLabels == {"raising", "closeStore", "disconnect", "join", "done"}
OpenLabels ==
    {"open", "ensureFailed", "ensureReady", "register", "send", "emitRequest",
     "waitCheck", "waitTime", "waitRecheck", "sleepCheck"}

\* Where Main is, the calls of _set_failure and _release_waiters left out.
MainAt == IF pc[Main] \in FailureLabels THEN ret ELSE pc[Main]
Closing == MainAt \in ClosedLabels

\* The lock is held in the middle of _set_failure and nowhere else, and
\* Main calls _release_waiters without a failure only from shutdown().
ThreadsInv ==
    /\ pc[Main] \in MainLabels \cup FailureLabels
    /\ \A t \in Callbacks : pc[t] \in CallbackLabels \cup FailureLabels
    /\ \A t \in Threads : pc[t] = "failWrite" <=> lock = t
    /\ \A t \in Threads : pc[t] \in {"release", "releaseRequests"} =>
           failure \/ (t = Main /\ ret = "disconnect")
    /\ pc[Main] \in {"failCheck", "failWrite", "failSet"} => ret # "disconnect"

\* A set _ready_event is explained by the handshake, by a failure that is
\* recorded, or by the shutdown; so a session that got past it had the first.
HandshakeInv ==
    /\ ready => handshake \/ failure \/ Closing
    /\ pc[NetworkThread] = "readySet" => handshake
    /\ pc[Main] = "pollRecheck" => ready
    /\ MainAt \in OpenLabels => handshake
    /\ nextOrderId # 0 <=> handshake
    /\ HandshakeFirst

\* Ids are fresh until they are handed to the API.
CallsInv ==
    /\ pc[Main] \in {"ensureFailed", "ensureReady", "register"} =>
           /\ op.kind \in {"request", "marketData"} => nextRequestId \in ReqIds
           /\ op.kind = "order" => nextOrderId < FirstOrderId + MaxOrders
           /\ op.kind = "stream" => op.key \in Streams \ sent
    /\ pc[Main] = "send" =>
           /\ op.kind \in {"request", "stream"} =>
                  op.key \in Waitables \ sent /\ op.key < nextRequestId
           /\ op.kind = "order" => op.key \in OrderIds \ orders /\ op.key < nextOrderId
    /\ pc[Main] \in {"waitCheck", "waitTime", "waitRecheck"} => op.key \in Waitables
    /\ nextOrderId = 0 \/ nextOrderId >= FirstOrderId
    /\ \A w \in sent : w < nextRequestId
    /\ \A o \in orders : o < nextOrderId

\* A failure is recorded before it shows, and stays as it was reported.
FailureInv ==
    /\ \A t \in Threads : pc[t] \in {"failCheck", "failWrite"} => err[t] # "none"
    /\ \A t \in Threads : pc[t] = "failSet" => lastError # "none"
    /\ failure => lastError # "none"
    /\ pc[Main] = "raising" => failure
    /\ raised # "none" =>
           /\ failure /\ raised = lastError /\ lock = NoThread
           /\ Closing /\ pc[Main] # "raising"

\* A set Event is explained by an answer, a failure or the shutdown.
AnswersInv ==
    /\ EndIsNotLost
    /\ \A w \in Waitables : events[w] = "set" => w \in ended \/ failure \/ Closing
    /\ pc[Main] = "waitRecheck" => events[op.key] = "set"
    /\ WaitTrueIsExplained

IInv == TypeOK /\ ThreadsInv /\ HandshakeInv /\ CallsInv /\ FailureInv /\ AnswersInv

\* The session as the caller of the gateway sees it.
Phase == CASE Closing -> "closed"
           [] MainAt \in OpenLabels -> "open"
           [] OTHER -> "connecting"

Promise == INSTANCE Session WITH
    Asks <- Waitables, Errors <- Failures,
    phase <- Phase, asked <- sent, arrived <- ended, placed <- orders, error <- raised,
    answered <- {w \in Waitables : [key |-> w, path |-> "inTime"] \in completed}

\* The gateway implements the session: every step of every thread is a step
\* of Session or invisible to the caller.
ImplementsSession == Promise!Spec
============================================================================
