------------------------------ MODULE Collector ------------------------------
(***************************************************************************)
(* The keep-up-to-date collector (_run_historical_collector of             *)
(* ib_gateway_app/cli.py) and its _HistoricalBarTracker: one subscription  *)
(* to a contract's bars, kept filled by refreshes of the tail, with retries *)
(* after a pacing error, until a deadline.                                 *)
(*                                                                         *)
(* The clock counts seconds and advances while the command waits or        *)
(* sleeps; what it computes in between takes no time.  A bar is its start, *)
(* a multiple of BarSeconds; the waits and sleeps of the gateway are       *)
(* Gateway's, of which the collector sees the answer, the deadline and the *)
(* ConnectionError.  The tracker counts every bar that arrives, also one   *)
(* the event store drops because the database is locked (DashboardServer): *)
(* a bar that is lost there is not asked for again.                        *)
(***************************************************************************)
EXTENDS Integers, Sequences

CONSTANTS
    Start,          \* when the command starts
    Runtime,        \* --runtime-seconds, 0 for no deadline
    Poll,           \* --poll-seconds
    ReadyTimeout,   \* --ready-timeout
    Durations,      \* what --duration may be, an amount and a unit
    UnitSeconds,    \* what IBKR serves for one of each unit
    IntervalUnits,  \* and what the code takes it for
    BarSeconds,     \* --bar-size
    MinBackoff,     \* 30 in the code
    LongTail,       \* 300 in the code
    TailPerSecond,  \* 60 in the code
    MaxThrottle,    \* 60 in the code
    Delay,          \* how far the feed is behind
    TimesParse,     \* whether _parse_ib_timestamp knows the form of the bars' times
    Ahead,          \* how far the clock they are given by is ahead of the computer's
    BarSizeParses,  \* whether _parse_interval_seconds knows --bar-size; not "1 month"
    MaxRequests,    \* bound: requests made
    MaxTime         \* bound: the clock

ASSUME ConstantAssumption ==
    /\ {Start, Poll, ReadyTimeout, BarSeconds, MinBackoff, LongTail, TailPerSecond,
        MaxThrottle} \subseteq Nat \ {0}
    /\ {Runtime, Delay, MaxRequests, MaxTime} \subseteq Nat
    /\ {TimesParse, BarSizeParses} \subseteq BOOLEAN /\ Ahead \in Int
    /\ UnitSeconds \in [DOMAIN UnitSeconds -> Nat \ {0}]
    /\ IntervalUnits \in [DOMAIN UnitSeconds -> Nat \ {0}]
    /\ "S" \in DOMAIN UnitSeconds /\ UnitSeconds["S"] = 1 /\ IntervalUnits["S"] = 1
    /\ Durations \subseteq [amount : Nat \ {0}, unit : DOMAIN UnitSeconds]
    /\ \A d \in Durations : d.amount * UnitSeconds[d.unit] < Start

NoTime == -1

VARIABLES
    now,          \* the clock
    duration,     \* --duration
    pc,           \* where the command is
    asks,         \* the historical requests made
    current,      \* the request the command is about
    subscription, \* request_id once the subscription has answered
    window,       \* refresh_duration
    until,        \* when the wait or sleep the command is in ends
    latest,       \* _latest_bar_time, as the start of the bar
    lastBar,      \* _last_bar_event_monotonic
    pacing,       \* _pacing_errors
    failed,       \* the gateway's _failure_event
    arrived,      \* the bars the listeners have been called with
    skipped,      \* those that an update passed over
    code,         \* the exit code
    pacedAt       \* when the command last found a pacing error

tracker_vars == <<latest, lastBar, arrived, skipped>>
main_vars == <<pc, current, subscription, window, until, code, pacedAt>>
vars == <<now, duration, asks, pacing, failed, tracker_vars, main_vars>>

Blocked == {"waiting", "backoff", "sleeping"}
Labels == Blocked \cup {"first", "loop", "pausing", "asking", "cancelling", "consuming",
                        "releasing", "done", "raised"}

Init ==
    /\ now = Start /\ pc = "first" /\ asks = <<>>
    /\ current = 0 /\ subscription = 0 /\ until = Start
    /\ duration \in Durations /\ window = duration
    /\ latest = NoTime /\ lastBar = NoTime /\ pacing = {}
    /\ failed = FALSE /\ arrived = {} /\ skipped = {} /\ code = 0 /\ pacedAt = NoTime

----------------------------------------------------------------------------
(* The durations.                                                          *)

Larger(a, b) == IF a > b THEN a ELSE b
Smaller(a, b) == IF a < b THEN a ELSE b
Ceil(a, b) == (a + b - 1) \div b

\* What IBKR takes a duration for.
Served(d) == d.amount * UnitSeconds[d.unit]

\* Mutant: the amount is dropped.
ParseUnit(d) == IntervalUnits[d.unit]

\* _parse_interval_seconds: the unit is looked up in lower case, where M, a
\* month to IBKR, is a minute.
Parse(d) == Larger(1, d.amount * IntervalUnits[d.unit])

\* What a bar's time is when it is taken for local time.
Stamp(bar) == bar + Ahead

\* _current_tail_duration: from the latest bar to now, in whole bars, and no
\* more than the whole duration, whose unit is always one the code knows.
TailDuration ==
    IF latest = NoTime \/ ~BarSizeParses THEN duration
    ELSE LET uncovered == Larger(BarSeconds, now - Stamp(latest))
             whole == Ceil(uncovered, BarSeconds) * BarSeconds
         IN  [amount |-> Larger(BarSeconds, Smaller(Parse(duration), whole)), unit |-> "S"]

\* _effective_refresh_interval_seconds: long tails are refreshed more slowly.
RefreshInterval(tail) ==
    IF Parse(tail) <= LongTail THEN Larger(1, Poll)
    ELSE Larger(1, Larger(Poll, Smaller(MaxThrottle, Ceil(Parse(tail), TailPerSecond))))

\* Mutant: no floor under the backoff.
BackoffBare(tail) == RefreshInterval(tail)

\* _pacing_backoff_seconds
Backoff(tail) == Larger(MinBackoff, 2 * RefreshInterval(tail))

Deadline == Start + Runtime
Expired == Runtime > 0 /\ now >= Deadline

----------------------------------------------------------------------------
(* IBKR and the listener it calls.                                         *)

Newest == ((now - Delay) \div BarSeconds) * BarSeconds

\* A request for what a duration covers up to now, answered with the bars that
\* start in it.
Request(w, keepUp) ==
    [at |-> now, first |-> Ceil(now - Served(w), BarSeconds) * BarSeconds,
     next |-> Ceil(now - Served(w), BarSeconds) * BarSeconds, last |-> Newest, keepUp |-> keepUp,
     live |-> TRUE, answered |-> FALSE, refused |-> FALSE]

\* handle_event for historical.bar; a time it cannot parse counts for nothing.
Track(bar) ==
    /\ latest' = IF TimesParse THEN Larger(latest, bar) ELSE latest
    /\ lastBar' = IF TimesParse THEN now ELSE lastBar

\* An answer ends with the newest bar; what is under way when its request is
\* cancelled ends with the newest one of the time it was made.
LastBar(r) == IF asks[r].live THEN Newest ELSE asks[r].last

\* historicalData: the next bars of an answer.
BarsArrive(r, bar) ==
    /\ ~asks[r].refused /\ ~asks[r].answered /\ bar % BarSeconds = 0
    /\ arrived' = arrived \cup {b \in asks[r].next .. bar : b % BarSeconds = 0}
    /\ asks' = [asks EXCEPT ![r].next = bar + BarSeconds]
    /\ Track(bar)
    /\ UNCHANGED <<now, duration, pacing, failed, skipped, main_vars>>

\* historicalDataUpdate: the subscription delivers the bar of the moment, the
\* one it delivered last, the next or, if it has stalled since, a later one.
UpdateArrives(r) ==
    /\ asks[r].keepUp /\ asks[r].live /\ asks[r].answered
    /\ Newest >= asks[r].next - BarSeconds
    /\ arrived' = arrived \cup {Newest}
    /\ skipped' = skipped \cup {b \in asks[r].next .. Newest - 1 : b % BarSeconds = 0}
    /\ asks' = [asks EXCEPT ![r].next = Newest + BarSeconds]
    /\ Track(Newest)
    /\ UNCHANGED <<now, duration, pacing, failed, main_vars>>

EndArrives(r) ==
    /\ asks[r].live /\ ~asks[r].answered /\ asks[r].next > Newest
    /\ asks' = [asks EXCEPT ![r].answered = TRUE, ![r].live = asks[r].keepUp]
    /\ UNCHANGED <<now, duration, pacing, failed, tracker_vars, main_vars>>

\* Error 162, which IBKR sends for a pacing violation, and for a query that
\* was cancelled; or another error, which the tracker ignores.
ErrorArrives(r, paced) ==
    /\ ~asks[r].answered /\ ~asks[r].refused
    /\ asks' = [asks EXCEPT ![r].live = FALSE, ![r].refused = TRUE]
    /\ pacing' = IF paced THEN pacing \cup {r} ELSE pacing
    /\ UNCHANGED <<now, duration, failed, tracker_vars, main_vars>>

ConnectionFails ==
    /\ ~failed /\ failed' = TRUE
    /\ UNCHANGED <<now, duration, asks, pacing, tracker_vars, main_vars>>

----------------------------------------------------------------------------
(* _run_historical_collector.                                              *)

\* request_historical_data, and the wait for its answer that follows.
Ask(w, keepUp) ==
    /\ Len(asks) < MaxRequests
    /\ asks' = Append(asks, Request(w, keepUp))
    /\ current' = Len(asks) + 1
    /\ until' = now + ReadyTimeout
    /\ pc' = "waiting"

AskFirst ==
    /\ pc = "first" /\ ~failed
    /\ Ask(duration, TRUE)
    /\ UNCHANGED <<now, duration, pacing, failed, tracker_vars, subscription, window, code,
                   pacedAt>>

\* The wait returns True: the subscription stands, or the refresh is done.
Answered ==
    /\ pc = "waiting" /\ ~failed /\ asks[current].answered
    /\ subscription' = IF subscription = 0 THEN current ELSE subscription
    /\ pc' = "loop"
    /\ UNCHANGED <<now, duration, asks, pacing, failed, tracker_vars, current, window, until,
                   code, pacedAt>>

WaitTimesOut ==
    /\ pc = "waiting" /\ ~failed /\ ~asks[current].answered /\ now >= until
    /\ pc' = "cancelling"
    /\ UNCHANGED <<now, duration, asks, pacing, failed, tracker_vars, current, subscription,
                   window, until, code, pacedAt>>

\* cancel_historical_request(current)
Cancel ==
    /\ pc = "cancelling" /\ ~failed
    /\ asks' = [asks EXCEPT ![current].live = FALSE]
    /\ pc' = "consuming"
    /\ UNCHANGED <<now, duration, pacing, failed, tracker_vars, current, subscription, window,
                   until, code, pacedAt>>

\* The command gives up: with a subscription, that is cancelled first.
GiveUp(exit) ==
    /\ pc' = IF subscription = 0 THEN "done" ELSE "releasing"
    /\ code' = exit

\* Mutant: the backoff is slept in full, whatever is left of the runtime.
SleepInFull ==
    /\ pc = "consuming" /\ current \in pacing
    /\ pacing' = pacing \ {current} /\ pacedAt' = now
    /\ until' = now + Backoff(window) /\ pc' = "backoff"
    /\ UNCHANGED <<now, duration, asks, failed, tracker_vars, current, subscription, window,
                   code>>

\* consume_pacing_error, and _sleep_for_retry up to the sleep, which is cut
\* short at the deadline.
BackOff ==
    /\ pc = "consuming" /\ current \in pacing
    /\ pacing' = pacing \ {current} /\ pacedAt' = now
    /\ IF Expired
       THEN GiveUp(IF subscription = 0 THEN 1 ELSE 0) /\ UNCHANGED until
       ELSE /\ until' = IF Runtime = 0 THEN now + Backoff(window)
                        ELSE Smaller(now + Backoff(window), Deadline)
            /\ pc' = "backoff" /\ UNCHANGED code
    /\ UNCHANGED <<now, duration, asks, failed, tracker_vars, current, subscription, window>>

Unanswered ==
    /\ pc = "consuming" /\ current \notin pacing
    /\ GiveUp(1)
    /\ UNCHANGED <<now, duration, asks, pacing, failed, tracker_vars, current, subscription,
                   window, until, pacedAt>>

\* _sleep_for_retry returns whether the deadline is still ahead.
Retry ==
    /\ pc = "backoff" /\ ~failed /\ now >= until
    /\ IF Expired THEN GiveUp(IF subscription = 0 THEN 1 ELSE 0)
       ELSE pc' = (IF subscription = 0 THEN "first" ELSE "loop") /\ UNCHANGED code
    /\ UNCHANGED <<now, duration, asks, pacing, failed, tracker_vars, current, subscription,
                   window, until, pacedAt>>

\* Mutant: the deadline returns without cancelling the subscription.
LoopReturns ==
    /\ pc = "loop" /\ ~failed
    /\ IF Expired THEN pc' = "done" /\ UNCHANGED window
                  ELSE pc' = "pausing" /\ window' = TailDuration
    /\ UNCHANGED <<now, duration, asks, pacing, failed, tracker_vars, current, subscription,
                   until, code, pacedAt>>

\* The top of the loop: the deadline, then the tail.
Loop ==
    /\ pc = "loop" /\ ~failed
    /\ IF Expired THEN GiveUp(0) /\ UNCHANGED window
                  ELSE pc' = "pausing" /\ window' = TailDuration /\ UNCHANGED code
    /\ UNCHANGED <<now, duration, asks, pacing, failed, tracker_vars, current, subscription,
                   until, pacedAt>>

\* seconds_since_last_bar: less than the interval ago, so sleep for a second.
Pause ==
    /\ pc = "pausing" /\ lastBar # NoTime /\ now - lastBar < RefreshInterval(window)
    /\ pc' = "sleeping" /\ until' = now + 1
    /\ UNCHANGED <<now, duration, asks, pacing, failed, tracker_vars, current, subscription,
                   window, code, pacedAt>>

Resume ==
    /\ pc = "sleeping" /\ ~failed /\ now >= until
    /\ pc' = "loop"
    /\ UNCHANGED <<now, duration, asks, pacing, failed, tracker_vars, current, subscription,
                   window, until, code, pacedAt>>

\* No bar for an interval, or none yet: refresh the tail.
Refresh ==
    /\ pc = "pausing" /\ ~(lastBar # NoTime /\ now - lastBar < RefreshInterval(window))
    /\ ~failed
    /\ Ask(window, FALSE)
    /\ UNCHANGED <<now, duration, pacing, failed, tracker_vars, subscription, window, code,
                   pacedAt>>

Release ==
    /\ pc = "releasing" /\ ~failed
    /\ asks' = [asks EXCEPT ![subscription].live = FALSE]
    /\ pc' = "done"
    /\ UNCHANGED <<now, duration, pacing, failed, tracker_vars, current, subscription, window,
                   until, code, pacedAt>>

\* raise_if_failed, wherever the command calls the gateway.
Raise ==
    /\ failed /\ pc \notin {"consuming", "done", "raised"}
    /\ pc' = "raised"
    /\ UNCHANGED <<now, duration, asks, pacing, failed, tracker_vars, current, subscription,
                   window, until, code, pacedAt>>

Tick ==
    /\ pc \in Blocked /\ now < until /\ now < MaxTime
    /\ ~failed /\ ~(pc = "waiting" /\ asks[current].answered)
    /\ now' = now + 1
    /\ UNCHANGED <<duration, asks, pacing, failed, tracker_vars, main_vars>>

\* The command has returned, or a bound is reached.
Stopped ==
    /\ \/ pc \in {"done", "raised"} \/ now = MaxTime
       \/ pc \in {"first", "pausing"} /\ Len(asks) = MaxRequests
    /\ UNCHANGED vars

MainStep ==
    \/ AskFirst \/ Answered \/ WaitTimesOut \/ Cancel \/ BackOff \/ Unanswered \/ Retry
    \/ Loop \/ Pause \/ Resume \/ Refresh \/ Release \/ Raise

Running == pc \notin {"done", "raised"}

Next ==
    \/ MainStep \/ Tick \/ Stopped
    \/ Running /\ ConnectionFails
    \/ /\ Running
       /\ \E r \in 1 .. Len(asks) :
             \/ \E bar \in asks[r].next .. LastBar(r) : BarsArrive(r, bar)
             \/ UpdateArrives(r) \/ EndArrives(r)
             \/ \E paced \in BOOLEAN : ErrorArrives(r, paced)

Spec == Init /\ [][Next]_vars

----------------------------------------------------------------------------
\* A collector that returns leaves nothing running at IBKR, whichever of its
\* five ways out it takes and whatever errors raced with it.
NothingLeftRunning == pc = "done" => \A r \in 1 .. Len(asks) : ~asks[r].live

\* After a pacing error no request is made before the backoff has passed.
BackoffKept ==
    [][Len(asks') > Len(asks) /\ pacedAt # NoTime => now >= pacedAt + MinBackoff]_vars

\* The collector outlasts its deadline by no more than the wait it is in.
OverrunBounded ==
    Runtime > 0 /\ Running => now <= Deadline + ReadyTimeout

\* --runtime-seconds is set, and a duration that is not in months reaches
\* back from the deadline to before the start of the command; the code takes
\* no unit but the month for less than IBKR does; and no bar's time is read as
\* later than it is.
OutlastsRuntime ==
    /\ Ahead <= 0
    /\ Runtime > 0
    /\ \A d \in Durations : d.unit # "M" => Served(d) >= Runtime + Delay + BarSeconds
    /\ \A u \in DOMAIN UnitSeconds \ {"M"} : IntervalUnits[u] >= UnitSeconds[u]

\* README.md:322, "upserts only the uncovered window into SQLite": from the
\* first bar of the subscription on, the tails leave no hole between the bars
\* that have arrived, but for the bars an update of the subscription itself
\* passed over: the tracker takes the newest bar for the end of what it has.
\* (A duration in months is cut to as many minutes, and its tails with it.)
NoHole ==
    subscription # 0 /\ duration.unit # "M" =>
        \A b \in asks[subscription].first .. now :
            b % BarSeconds = 0 /\ (\E a, c \in arrived : a < b /\ b < c) => b \in arrived \cup skipped
=============================================================================
