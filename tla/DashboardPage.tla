--------------------------- MODULE DashboardPage ---------------------------
(***************************************************************************)
(* The script of the dashboard (dashboard/live_ticker.html): it polls the  *)
(* dashboard server for the cached bars and the option probabilities of    *)
(* the watch settings, and restarts when those change.                     *)
(*                                                                         *)
(* The browser runs one handler, timer or continuation at a time, so a     *)
(* step is what runs between two awaits.  The watch settings are two       *)
(* values: what a refresh is begun for (contract, duration, bar size), and *)
(* the mode of the option expiry, which it reads only when it asks for the *)
(* points, after its first await.  Bars and points are abstracted to the   *)
(* settings they were fetched for; the chart and the texts are left out.   *)
(***************************************************************************)
EXTENDS Naturals, Sequences, SequencesExt

CONSTANTS
    Watches,    \* the contracts, durations and bar sizes to choose from
    Modes,      \* the option expiries to choose from
    None,       \* no bars, no points
    MaxRunning  \* bound: refreshes that run at once

Settings == [watch : Watches, mode : Modes]

ASSUME NoneAssumption == None \notin Watches \cup Settings

VARIABLES
    settings, \* what the watch settings show
    page      \* the variables of the script, the refreshes that run, and, since the chart was
              \* cleared, the outcome of the last request for bars (for which settings the
              \* refresh was begun) and the settings of the last answer about points

vars == <<settings, page>>

Statuses == {"Idle", "Loading", "Updating", "Streaming", "Delayed", "No Data",
             "Cache Error", "Paused"}
NoOutcome == [of |-> None, result |-> "none"]

Init ==
    /\ settings \in Settings
    /\ page = [streaming |-> FALSE, inFlight |-> FALSE, pending |-> FALSE,
               pollTimer |-> FALSE, watchTimer |-> FALSE,
               bars |-> None, points |-> None, status |-> "Idle", running |-> <<>>,
               outcome |-> NoOutcome, answered |-> None]

----------------------------------------------------------------------------
(* What the functions of the script make of its variables.                 *)

\* Mutant: the poll timer is left running.
StopKeepsTimer(p) ==
    [p EXCEPT !.watchTimer = FALSE, !.pending = FALSE, !.streaming = FALSE, !.status = "Paused"]

\* stopStream
StopStream(p) ==
    [p EXCEPT !.pollTimer = FALSE, !.watchTimer = FALSE, !.pending = FALSE,
              !.streaming = FALSE, !.status = "Paused"]

\* resetSeries
ResetSeries(p) ==
    [p EXCEPT !.pollTimer = FALSE, !.bars = None, !.points = None, !.outcome = NoOutcome,
              !.answered = None]

\* A refresh that has asked for its bars; the mode is read later.
Begun == [of |-> settings, mode |-> settings.mode, at |-> "bars", found |-> FALSE]

\* Mutant: a second refresh may begin while one is in flight.
RefreshAnyway(p) ==
    [p EXCEPT !.inFlight = TRUE, !.running = Append(@, Begun)]

\* refreshFromDatabase up to its first await: the request for the bars.
Refresh(p) ==
    IF p.inFlight THEN p
    ELSE [p EXCEPT !.inFlight = TRUE, !.running = Append(@, Begun)]

\* startStream
StartStream(p) ==
    LET stopped == IF p.streaming \/ p.bars # None THEN StopStream(p) ELSE p
    IN  Refresh([ResetSeries(stopped) EXCEPT !.streaming = TRUE, !.status = "Loading"])

\* Mutant: a refresh that a restart waits for schedules no other one.
FinallyNoTimer(p) ==
    LET q == [p EXCEPT !.inFlight = FALSE]
    IN  IF q.pending THEN [q EXCEPT !.pending = FALSE]
        ELSE [q EXCEPT !.pollTimer = q.streaming]

\* The finally block of refreshFromDatabase, with scheduleDatabaseRefresh.
Finally(p) ==
    LET q == [p EXCEPT !.inFlight = FALSE]
    IN  IF q.pending /\ q.streaming THEN StartStream([q EXCEPT !.pending = FALSE])
        ELSE [q EXCEPT !.pollTimer = q.streaming]

----------------------------------------------------------------------------
(* The user.                                                               *)

\* scheduleWatchSettingsRefresh
Change(s) ==
    /\ s # settings /\ settings' = s
    /\ page' = [page EXCEPT !.pending = FALSE, !.watchTimer = page.streaming,
                            !.status = IF page.streaming THEN "Updating" ELSE @]

\* connectAndStream
Connect == page' = StartStream(page) /\ UNCHANGED settings

Stop == page' = StopStream(page) /\ UNCHANGED settings

----------------------------------------------------------------------------
(* The timers.                                                             *)

WatchTimerFires ==
    /\ page.watchTimer
    /\ LET p == [page EXCEPT !.watchTimer = FALSE]
       IN  page' = IF p.inFlight THEN [p EXCEPT !.pending = TRUE] ELSE StartStream(p)
    /\ UNCHANGED settings

PollTimerFires ==
    /\ page.pollTimer
    /\ page' = Refresh([page EXCEPT !.pollTimer = FALSE])
    /\ UNCHANGED settings

----------------------------------------------------------------------------
(* The answers of the dashboard server, and the rest of a refresh.         *)

\* loadCachedBars: the server has bars, or a message that says why not.  The
\* request for the points is then made with the mode the page shows by now.
BarsArrive(i, found) ==
    /\ page.running[i].at = "bars"
    /\ page' = [page EXCEPT !.bars = IF found THEN page.running[i].of.watch ELSE None,
                            !.status = IF found THEN @ ELSE "No Data",
                            !.running[i].at = "points", !.running[i].found = found,
                            !.running[i].mode = settings.mode,
                            !.outcome = [of |-> page.running[i].of,
                                         result |-> IF found THEN "bars" ELSE "empty"]]
    /\ UNCHANGED settings

Failed(i) == [of |-> page.running[i].of, result |-> "failed"]

\* Mutant: the refresh ends without a word.
BarsFailSilently(i) ==
    /\ page.running[i].at = "bars"
    /\ page' = Finally([page EXCEPT !.running = RemoveAt(@, i), !.outcome = Failed(i)])
    /\ UNCHANGED settings

\* An HTTP status that is not ok, or no answer at all.
BarsFail(i) ==
    /\ page.running[i].at = "bars"
    /\ page' = Finally([page EXCEPT !.status = "Cache Error", !.running = RemoveAt(@, i),
                                    !.outcome = Failed(i)])
    /\ UNCHANGED settings

\* What the points of a refresh are asked for.
Asked(r) == [watch |-> r.of.watch, mode |-> r.mode]

\* Mutant: points that cannot be loaded leave the old ones on the chart.
PointsKept(i, found, delayed) ==
    /\ page.running[i].at = "points"
    /\ delayed => page.bars # None
    /\ LET r == page.running[i]
       IN  page' = Finally([page EXCEPT
               !.points = IF found THEN Asked(r) ELSE @,
               !.answered = Asked(r),
               !.status = IF ~r.found THEN "No Data" ELSE IF delayed THEN "Delayed" ELSE "Streaming",
               !.running = RemoveAt(@, i)])
    /\ UNCHANGED settings

\* loadOptionsProbability, whose failure clears the points, and the status.
PointsArrive(i, found, delayed) ==
    /\ page.running[i].at = "points"
    /\ delayed => page.bars # None
    /\ LET r == page.running[i]
       IN  page' = Finally([page EXCEPT
               !.points = IF found THEN Asked(r) ELSE None,
               !.answered = Asked(r),
               !.status = IF ~r.found THEN "No Data" ELSE IF delayed THEN "Delayed" ELSE "Streaming",
               !.running = RemoveAt(@, i)])
    /\ UNCHANGED settings

Arrives(i) ==
    \/ BarsFail(i)
    \/ \E found \in BOOLEAN : BarsArrive(i, found)
    \/ \E found, delayed \in BOOLEAN : PointsArrive(i, found, delayed)

Next ==
    /\ \/ \E s \in Settings : Change(s)
       \/ Connect \/ Stop \/ WatchTimerFires \/ PollTimerFires
       \/ \E i \in 1 .. Len(page.running) : Arrives(i)
    /\ Len(page'.running) <= MaxRunning

Spec == Init /\ [][Next]_vars

\* The browser fires its timers and the server answers, in time or not.
Fairness ==
    /\ WF_vars(WatchTimerFires) /\ WF_vars(PollTimerFires)
    /\ WF_vars(page.running # <<>> /\ Arrives(1))

FairSpec == Spec /\ Fairness

----------------------------------------------------------------------------
\* Clicks, timers and restarts never run two refreshes at once, so an answer
\* never overtakes a newer one.
OneRefreshAtATime == Len(page.running) <= 1

\* README.md:352, "Cache and bootstrap failures now surface in the page status
\* banner instead of silently clearing the chart": when a refresh found no
\* bars or failed, the banner says so until the next one begins.
FailuresSurface ==
    page.streaming /\ page.running = <<>> /\ ~page.watchTimer
        /\ page.outcome.result \in {"empty", "failed"} =>
    page.status \in {"No Data", "Cache Error"}

\* Between two refreshes the panes of the chart are of the same contract,
\* duration and bar size, whatever was changed during either await.
OnePicture ==
    page.running = <<>> /\ page.bars # None /\ page.points # None =>
        page.bars = page.points.watch

\* A page that was stopped begins no refresh: what runs may go on to its
\* second request and end, and no timer or late answer begins another one.
StoppedStaysStopped ==
    [][~page.streaming /\ ~page'.streaming => Len(page'.running) <= Len(page.running)]_vars

\* README.md:356, "Watch settings are dropdown-based and auto-refresh the
\* chart when changed": whatever was in flight, and whichever part of the
\* settings it had read by then, a page that streams one day shows the bars
\* of its settings, and one day the points, unless the bars cannot be had.
SettingsReachChart ==
    \A s \in Settings :
        LET Wanted   == page.streaming /\ settings = s
            Answered == page.answered = s \/ page.outcome = [of |-> s, result |-> "failed"]
        IN  /\ Wanted ~> page.outcome.of = s \/ ~Wanted
            /\ Wanted ~> Answered \/ ~Wanted
=============================================================================
