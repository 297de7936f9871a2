------------------------ MODULE DashboardPageProofs ------------------------
(***************************************************************************)
(* What the page promises, for any settings to choose from and however     *)
(* clicks, timers and answers interleave: one refresh at a time, no request *)
(* of a stopped page, failures that stay on the banner, and panes of the   *)
(* same settings.                                                          *)
(*                                                                         *)
(* One refresh at a time rests on in_flight being set exactly while a      *)
(* refresh runs; the rest on what a refresh may have put on the page by    *)
(* its second await, and on stop and start clearing it in between.         *)
(***************************************************************************)
EXTENDS DashboardPage, TLAPS

Refreshes == [of : Settings, mode : Modes, at : {"bars", "points"}, found : BOOLEAN]

Pages ==
    [streaming : BOOLEAN, inFlight : BOOLEAN, pending : BOOLEAN,
     pollTimer : BOOLEAN, watchTimer : BOOLEAN,
     bars : Watches \cup {None}, points : Settings \cup {None}, status : Statuses,
     running : {<<>>} \cup {<<r>> : r \in Refreshes},
     outcome : [of : Settings \cup {None}, result : {"none", "bars", "empty", "failed"}],
     answered : Settings \cup {None}]

\* The flag is set while a refresh runs, and never otherwise.
Single(p) == p.inFlight <=> p.running # <<>>

\* A page that does not stream waits for nothing.
Quiet(p) == p.pollTimer \/ p.watchTimer \/ p.pending => p.streaming

AtPoints(p) == p.running # <<>> /\ p.running[1].at = "points"

\* A refresh at its second await has put its own bars on the page, if a
\* restart has not cleared them since; before, the panes agree.
Picture(p) ==
    IF AtPoints(p) THEN p.bars \in {None, p.running[1].of.watch}
    ELSE p.bars # None /\ p.points # None => p.bars = p.points.watch

\* It remembers what the last request for bars came to, for the banner.
Banner(p) ==
    /\ AtPoints(p) =>
           p.outcome.result \in {"none", IF p.running[1].found THEN "bars" ELSE "empty"}
    /\ p.streaming /\ p.running = <<>> /\ ~p.watchTimer
           /\ p.outcome.result \in {"empty", "failed"} =>
       p.status \in {"No Data", "Cache Error"}

Good(p) == p \in Pages /\ Single(p) /\ Quiet(p) /\ Picture(p) /\ Banner(p)

IInv == settings \in Settings /\ Good(page)
----------------------------------------------------------------------------
(* What the functions of the script make of a good page.                   *)

LEMMA StopGood ==
    ASSUME NEW p, Good(p)
    PROVE  Good(StopStream(p))
<1>1. StopStream(p) \in Pages
  BY DEF Good, Pages, Statuses, StopStream
<1>2. Single(StopStream(p)) /\ Quiet(StopStream(p))
  BY DEF Good, Pages, Single, Quiet, StopStream
<1>3. Picture(StopStream(p)) /\ Banner(StopStream(p))
  BY DEF Good, Pages, Picture, Banner, AtPoints, StopStream
<1> QED BY <1>1, <1>2, <1>3 DEF Good

\* refreshFromDatabase: a refresh begins only when none runs.
LEMMA RefreshGood ==
    ASSUME NEW p, Good(p), settings \in Settings
    PROVE  Good(Refresh(p))
<1> DEFINE r == Begun
           q == [p EXCEPT !.inFlight = TRUE, !.running = <<r>>]
<1>1. CASE p.inFlight
  BY <1>1 DEF Refresh
<1>2. CASE ~p.inFlight
  <2>1. p.running = <<>> /\ Append(p.running, r) = <<r>>
    <3>1. p.running = <<>>
      BY <1>2 DEF Good, Single, Pages
    <3>2. \A b : Append(<<>>, b) = <<b>>
      OBVIOUS
    <3> QED BY <3>1, <3>2
  <2>2. Refresh(p) = q
    BY <1>2, <2>1 DEF Refresh
  <2>3. q \in Pages
    BY DEF Good, Pages, Refreshes, Begun, Settings
  <2>4. q.running # <<>> /\ q.running[1].at = "bars" /\ q.inFlight
    BY DEF Good, Pages, Begun
  <2>5. Single(q) /\ Quiet(q)
    BY <2>4 DEF Good, Pages, Single, Quiet
  <2>6. Picture(q) /\ Banner(q)
    BY <2>1, <2>4 DEF Good, Pages, Picture, Banner, AtPoints
  <2> QED BY <2>2, <2>3, <2>5, <2>6 DEF Good
<1> QED BY <1>1, <1>2 DEF Good, Pages

\* startStream keeps no timer of the stream before it, and no series.
LEMMA StartGood ==
    ASSUME NEW p, Good(p), settings \in Settings
    PROVE  Good(StartStream(p)) /\ StartStream(p).streaming
<1> DEFINE s == IF p.streaming \/ p.bars # None THEN StopStream(p) ELSE p
           q == [ResetSeries(s) EXCEPT !.streaming = TRUE, !.status = "Loading"]
<1>1. Good(s)
  BY StopGood
<1>2. q \in Pages /\ q.streaming
  <2>1. s \in Pages /\ NoOutcome \in [of : Settings \cup {None},
                                      result : {"none", "bars", "empty", "failed"}]
    BY <1>1 DEF Good, NoOutcome
  <2> HIDE DEF s
  <2>2. ResetSeries(s) \in Pages
    BY <2>1 DEF Pages, ResetSeries
  <2> QED BY <2>2 DEF Pages, Statuses
<1>3. Single(q) /\ Quiet(q)
  BY <1>1 DEF Good, Pages, Single, Quiet, ResetSeries
<1>4. q.bars = None /\ q.points = None /\ q.outcome.result = "none"
  BY <1>1 DEF Good, Pages, ResetSeries, NoOutcome
<1>5. Picture(q) /\ Banner(q)
  BY <1>4 DEF Picture, Banner
<1>6. Good(q)
  BY <1>2, <1>3, <1>5 DEF Good
<1>7. StartStream(p) = Refresh(q)
  BY DEF StartStream
<1>8. Refresh(q).streaming
  BY <1>2 DEF Refresh, Pages
<1> QED BY <1>6, <1>7, <1>8, RefreshGood

\* The end of the only refresh.
LEMMA FinallyGood ==
    ASSUME NEW p, p \in Pages, p.running = <<>>, Quiet(p), Picture(p), Banner(p),
           settings \in Settings
    PROVE  Good(Finally(p))
<1> DEFINE q == [p EXCEPT !.inFlight = FALSE]
<1>1. Good(q)
  BY DEF Good, Pages, Single, Quiet, Picture, Banner, AtPoints
<1>2. CASE q.pending /\ q.streaming
  <2> DEFINE n == [q EXCEPT !.pending = FALSE]
  <2>1. n \in Pages /\ Single(n) /\ Quiet(n)
    BY <1>1, <1>2 DEF Good, Pages, Single, Quiet
  <2>2. Picture(n) /\ Banner(n)
    BY <1>1 DEF Good, Pages, Picture, Banner, AtPoints
  <2>3. Good(n)
    BY <2>1, <2>2 DEF Good
  <2> QED BY <1>2, <2>3, StartGood DEF Finally
<1>3. CASE ~(q.pending /\ q.streaming)
  <2> DEFINE n == [q EXCEPT !.pollTimer = q.streaming]
  <2>1. n \in Pages /\ Single(n) /\ Quiet(n)
    BY <1>1 DEF Good, Pages, Single, Quiet
  <2>2. Picture(n) /\ Banner(n)
    BY <1>1 DEF Good, Pages, Picture, Banner, AtPoints
  <2> QED BY <1>3, <2>1, <2>2 DEF Good, Finally
<1> QED BY <1>2, <1>3

\* One refresh or none.
LEMMA AtMostOne ==
    ASSUME NEW p \in Pages
    PROVE  Len(p.running) \in {0, 1}
<1>1. CASE p.running = <<>>
  BY <1>1
<1>2. CASE p.running # <<>>
  <2>1. PICK r \in Refreshes : p.running = <<r>>
    BY <1>2 DEF Pages
  <2> QED BY <2>1
<1> QED BY <1>1, <1>2

\* The refresh that answers is the only one, and its end leaves none.
LEMMA OnlyOne ==
    ASSUME Good(page), NEW i \in 1 .. Len(page.running)
    PROVE  /\ i = 1 /\ page.running = <<page.running[1]>> /\ page.running[1] \in Refreshes
           /\ RemoveAt(page.running, i) = <<>>
<1>1. PICK r \in Refreshes : page.running = <<r>>
  BY DEF Good, Pages
<1>2. i = 1 /\ page.running[1] = r
  BY <1>1
<1>3. RemoveAt(<<r>>, 1) = <<>>
  <2>1. SubSeq(<<r>>, 1, 0) = <<>> /\ SubSeq(<<r>>, 2, 1) = <<>>
    OBVIOUS
  <2> QED BY <2>1 DEF RemoveAt
<1> QED BY <1>1, <1>2, <1>3

----------------------------------------------------------------------------
(* The steps.                                                              *)

LEMMA ChangeKeeps ==
    ASSUME IInv, NEW s \in Settings, Change(s)
    PROVE  IInv'
<1>1. page' \in Pages
  BY DEF IInv, Good, Pages, Statuses, Change
<1>2. Single(page)' /\ Quiet(page)'
  BY DEF IInv, Good, Pages, Single, Quiet, Change
<1>3. Picture(page)' /\ Banner(page)'
  BY DEF IInv, Good, Pages, Picture, Banner, AtPoints, Change
<1> QED BY <1>1, <1>2, <1>3 DEF IInv, Good, Change

\* The buttons.
LEMMA ClickKeeps ==
    ASSUME IInv, Connect \/ Stop
    PROVE  IInv'
BY StartGood, StopGood DEF IInv, Connect, Stop

\* A change that finds a refresh running waits for it in the flag.
LEMMA WatchTimerKeeps ==
    ASSUME IInv, WatchTimerFires
    PROVE  IInv'
<1> DEFINE p == [page EXCEPT !.watchTimer = FALSE]
           q == [p EXCEPT !.pending = TRUE]
<1>1. CASE page.inFlight
  <2>1. page' = q /\ page.running # <<>> /\ page.streaming
    BY <1>1 DEF IInv, Good, Pages, Single, Quiet, WatchTimerFires
  <2>2. q \in Pages /\ Single(q) /\ Quiet(q)
    BY <2>1 DEF IInv, Good, Pages, Single, Quiet
  <2>3. Picture(q) /\ Banner(q)
    BY <2>1 DEF IInv, Good, Pages, Picture, Banner, AtPoints
  <2> QED BY <2>1, <2>2, <2>3 DEF IInv, Good, WatchTimerFires
<1>2. CASE ~page.inFlight
  <2>1. page' = StartStream(p)
    BY <1>2 DEF IInv, Good, Pages, WatchTimerFires
  <2> DEFINE c == [page EXCEPT !.watchTimer = FALSE, !.outcome = NoOutcome]
  <2>2. c \in Pages /\ Single(c) /\ Quiet(c) /\ Picture(c) /\ Banner(c)
    BY <1>2 DEF IInv, Good, Pages, Single, Quiet, Picture, Banner, AtPoints, NoOutcome
  <2>3. StartStream(c) = StartStream(p)
    BY DEF StartStream, StopStream, ResetSeries, IInv, Good, Pages
  <2> QED BY <2>1, <2>2, <2>3, StartGood DEF IInv, Good, WatchTimerFires
<1> QED BY <1>1, <1>2

\* The poll timer is used up when it fires.
LEMMA PollTimerKeeps ==
    ASSUME IInv, PollTimerFires
    PROVE  IInv'
<1> DEFINE p == [page EXCEPT !.pollTimer = FALSE]
<1>1. p \in Pages /\ Single(p) /\ Quiet(p)
  BY DEF IInv, Good, Pages, Single, Quiet
<1>2. Picture(p) /\ Banner(p)
  BY DEF IInv, Good, Pages, Picture, Banner, AtPoints
<1> QED BY <1>1, <1>2, RefreshGood DEF IInv, Good, PollTimerFires

\* The first answer puts its bars on the page and asks for the points.
LEMMA BarsArriveKeeps ==
    ASSUME IInv, NEW i \in 1 .. Len(page.running), NEW found \in BOOLEAN, BarsArrive(i, found)
    PROVE  IInv'
<1> DEFINE r == page.running[1]
           n == [r EXCEPT !.at = "points", !.found = found, !.mode = settings.mode]
<1>1. i = 1 /\ page.running = <<r>> /\ r \in Refreshes /\ r.at = "bars"
  BY OnlyOne DEF IInv, BarsArrive
<1>2. n \in Refreshes /\ n.of = r.of /\ n.at = "points" /\ n.found = found
  BY <1>1 DEF Refreshes, IInv, Settings
<1>3. page'.running = <<n>>
  <2>1. page'.running = [[[page.running EXCEPT ![1].at = "points"] EXCEPT ![1].found = found]
                             EXCEPT ![1].mode = settings.mode]
    BY <1>1 DEF IInv, Good, Pages, BarsArrive
  <2>2. \A m : [<<m>> EXCEPT ![1].at = "points"] = <<[m EXCEPT !.at = "points"]>>
    OBVIOUS
  <2>3. \A m : [<<m>> EXCEPT ![1].found = found] = <<[m EXCEPT !.found = found]>>
    OBVIOUS
  <2>4. [[[r EXCEPT !.at = "points"] EXCEPT !.found = found] EXCEPT !.mode = settings.mode] = n
    BY <1>1 DEF Refreshes
  <2>5. \A m : [<<m>> EXCEPT ![1].mode = settings.mode] = <<[m EXCEPT !.mode = settings.mode]>>
    OBVIOUS
  <2> HIDE DEF r
  <2> QED BY <1>1, <2>1, <2>2, <2>3, <2>4, <2>5
<1> DEFINE q == [page EXCEPT !.bars = IF found THEN r.of.watch ELSE None,
                             !.status = IF found THEN @ ELSE "No Data",
                             !.running = <<n>>,
                             !.outcome = [of |-> r.of, result |-> IF found THEN "bars" ELSE "empty"]]
<1>4. page' = q
  BY <1>1, <1>3, ZenonT(40) DEF IInv, Good, Pages, BarsArrive
<1>5. q \in Pages
  <2>1. r.of.watch \in Watches
    BY <1>1 DEF Refreshes, Settings
  <2> QED BY <1>1, <1>2, <2>1, ZenonT(40) DEF IInv, Good, Pages, Statuses, Refreshes
<1>6. Single(q) /\ Quiet(q)
  BY <1>1 DEF IInv, Good, Pages, Single, Quiet
<1>7. q.running[1] = n /\ q.running # <<>> /\ q.bars \in {None, n.of.watch}
      /\ q.outcome.result = IF n.found THEN "bars" ELSE "empty"
  BY <1>1, <1>2, <1>5 DEF IInv, Good, Pages
<1>8. Picture(q) /\ Banner(q)
  BY <1>2, <1>7 DEF Picture, Banner, AtPoints
<1> QED BY <1>4, <1>5, <1>6, <1>8 DEF IInv, Good, BarsArrive

\* A failed request ends the refresh with the banner.
LEMMA BarsFailKeeps ==
    ASSUME IInv, NEW i \in 1 .. Len(page.running), BarsFail(i)
    PROVE  IInv'
<1> DEFINE r == page.running[1]
           q == [page EXCEPT !.status = "Cache Error", !.running = <<>>,
                             !.outcome = [of |-> r.of, result |-> "failed"]]
<1>1. /\ i = 1 /\ page.running = <<r>> /\ r \in Refreshes /\ r.at = "bars"
      /\ RemoveAt(page.running, i) = <<>>
  BY OnlyOne DEF IInv, BarsFail
<1>2. page' = Finally(q)
  BY <1>1 DEF BarsFail, Failed
<1>3. q \in Pages /\ q.running = <<>> /\ q.status = "Cache Error"
  BY <1>1 DEF IInv, Good, Pages, Statuses, Refreshes
<1>4. Quiet(q)
  BY DEF IInv, Good, Pages, Quiet
<1>5. ~AtPoints(page) /\ ~AtPoints(q)
  BY <1>1, <1>3 DEF AtPoints
<1>6. Picture(q) /\ Banner(q)
  BY <1>3, <1>5 DEF IInv, Good, Pages, Picture, Banner
<1> QED BY <1>2, <1>3, <1>4, <1>6, FinallyGood DEF IInv, BarsFail

\* The second answer, or its failure, ends the refresh with points of the
\* same settings or none.
LEMMA PointsArriveKeeps ==
    ASSUME IInv, NEW i \in 1 .. Len(page.running), NEW found \in BOOLEAN,
           NEW delayed \in BOOLEAN, PointsArrive(i, found, delayed)
    PROVE  IInv'
<1> DEFINE r == page.running[1]
           status == IF ~r.found THEN "No Data" ELSE IF delayed THEN "Delayed" ELSE "Streaming"
           q == [page EXCEPT !.points = IF found THEN Asked(r) ELSE None,
                             !.answered = Asked(r), !.status = status, !.running = <<>>]
<1>1. /\ i = 1 /\ page.running = <<r>> /\ r \in Refreshes /\ r.at = "points"
      /\ RemoveAt(page.running, i) = <<>>
  BY OnlyOne DEF IInv, PointsArrive
<1>2. page' = Finally(q)
  BY <1>1 DEF PointsArrive
<1>8. Asked(r) \in Settings /\ Asked(r).watch = r.of.watch
  BY <1>1 DEF Asked, Refreshes, Settings
<1>3. q \in Pages /\ q.running = <<>> /\ q.status = status /\ q.outcome = page.outcome
      /\ q.points = (IF found THEN Asked(r) ELSE None) /\ q.bars = page.bars
  BY <1>1, <1>8 DEF IInv, Good, Pages, Statuses, Refreshes
<1>4. Quiet(q)
  BY DEF IInv, Good, Pages, Quiet
<1>5. AtPoints(page) /\ ~AtPoints(q)
  BY <1>1, <1>3 DEF AtPoints
<1>6. Picture(q)
  BY <1>3, <1>5, <1>8 DEF IInv, Good, Picture
<1>7. Banner(q)
  BY <1>1, <1>3, <1>5 DEF IInv, Good, Banner, Refreshes
<1> QED BY <1>2, <1>3, <1>4, <1>6, <1>7, FinallyGood, ZenonT(40) DEF IInv, PointsArrive

\* A page that was just loaded.
LEMMA InitHolds == Init => IInv
<1> SUFFICES ASSUME Init PROVE IInv
  OBVIOUS
<1>1. page \in Pages
  BY DEF Init, Pages, Statuses, NoOutcome
<1>2. Single(page) /\ Quiet(page) /\ Picture(page) /\ Banner(page)
  BY DEF Init, Single, Quiet, Picture, Banner, AtPoints, NoOutcome
<1> QED BY <1>1, <1>2 DEF IInv, Good, Init

\* Every click, change, timer and answer keeps the invariant.
LEMMA NextKeeps == ASSUME IInv, [Next]_vars PROVE IInv'
<1>1. CASE UNCHANGED vars
  BY <1>1 DEF IInv, vars
<1>2. ASSUME NEW i \in 1 .. Len(page.running), Arrives(i) PROVE IInv'
  BY <1>2, BarsArriveKeeps, BarsFailKeeps, PointsArriveKeeps DEF Arrives
<1> QED BY <1>1, <1>2, ChangeKeeps, ClickKeeps, WatchTimerKeeps, PollTimerKeeps DEF Next

\* The page's flags, timers, panes and banner agree in every reachable state.
THEOREM Invariance == Spec => []IInv
BY InitHolds, NextKeeps, PTL DEF Spec

\* Two refreshes never run at once.
THEOREM OneRefreshHolds == Spec => []OneRefreshAtATime
<1>1. IInv => OneRefreshAtATime
  <2>1. IInv => Len(page.running) \in {0, 1}
    BY AtMostOne DEF IInv, Good
  <2>2. \A n \in {0, 1} : n <= 1
    OBVIOUS
  <2> QED BY <2>1, <2>2 DEF OneRefreshAtATime
<1> QED BY <1>1, Invariance, PTL

\* The banner keeps a failure until the next refresh begins.
THEOREM FailuresSurfaceHolds == Spec => []FailuresSurface
<1>1. IInv => FailuresSurface
  BY DEF IInv, Good, Banner, FailuresSurface
<1> QED BY <1>1, Invariance, PTL

\* Between two refreshes both panes are of the same contract, duration and bar size.
THEOREM OnePictureHolds == Spec => []OnePicture
<1>1. IInv => OnePicture
  BY DEF IInv, Good, Picture, AtPoints, OnePicture
<1> QED BY <1>1, Invariance, PTL
\* The end of a refresh begins no other one on a page that was stopped.
LEMMA FinallyQuiet ==
    ASSUME NEW p \in Pages, p.running = <<>>, ~p.streaming
    PROVE  Finally(p).running = <<>>
BY DEF Pages, Finally

\* No timer and no late answer makes a stopped page ask again.
THEOREM StoppedStaysStoppedHolds == Spec => StoppedStaysStopped
<1> DEFINE Asks == ~page.streaming /\ ~page'.streaming => Len(page'.running) <= Len(page.running)
<1>1. ASSUME IInv, [Next]_vars PROVE [Asks]_vars
  <2>1. ASSUME page'.running = page.running \/ page'.running = <<>> PROVE Asks
    <3>1. Len(page.running) \in {0, 1} /\ Len(<<>>) = 0
      BY <1>1, AtMostOne DEF IInv, Good
    <3>2. CASE page'.running = page.running
      BY <3>1, <3>2
    <3>3. CASE page'.running = <<>>
      BY <3>1, <3>3
    <3> QED BY <2>1, <3>2, <3>3
  <2>2. ASSUME NEW s \in Settings, Change(s) PROVE Asks
    BY <1>1, <2>1, <2>2 DEF IInv, Good, Pages, Change
  <2>3. ASSUME Stop PROVE Asks
    BY <1>1, <2>1, <2>3 DEF IInv, Good, Pages, Stop, StopStream
  <2>4. ASSUME Connect PROVE Asks
    BY <1>1, <2>4, StartGood DEF IInv, Connect
  <2>5. ASSUME WatchTimerFires \/ PollTimerFires PROVE Asks
    BY <1>1, <2>5 DEF IInv, Good, Quiet, Pages, WatchTimerFires, PollTimerFires
  <2>6. ASSUME NEW i \in 1 .. Len(page.running), Arrives(i), ~page.streaming PROVE Asks
    <3>1. RemoveAt(page.running, i) = <<>>
      BY <1>1, OnlyOne DEF IInv
    <3>2. ASSUME BarsFail(i) PROVE page'.running = <<>>
      <4> DEFINE q == [page EXCEPT !.status = "Cache Error", !.running = <<>>, !.outcome = Failed(i)]
      <4>1. page' = Finally(q)
        BY <3>1, <3>2 DEF BarsFail
      <4>2. q \in Pages /\ q.running = <<>> /\ ~q.streaming
        BY <1>1, <2>6, OnlyOne DEF IInv, Good, Pages, Statuses, Failed, Refreshes
      <4> QED BY <4>1, <4>2, FinallyQuiet
    <3>3. ASSUME NEW found \in BOOLEAN, NEW delayed \in BOOLEAN, PointsArrive(i, found, delayed)
          PROVE  page'.running = <<>>
      <4> DEFINE r == page.running[i]
                 q == [page EXCEPT
                     !.points = IF found THEN Asked(r) ELSE None, !.answered = Asked(r),
                     !.status = IF ~r.found THEN "No Data"
                                ELSE IF delayed THEN "Delayed" ELSE "Streaming",
                     !.running = <<>>]
      <4>1. page' = Finally(q)
        BY <3>1, <3>3 DEF PointsArrive
      <4>2. q \in Pages /\ q.running = <<>> /\ ~q.streaming
        <5>1. Asked(r) \in Settings
          BY <1>1, OnlyOne DEF IInv, Asked, Refreshes, Settings
        <5> QED BY <1>1, <2>6, <5>1, OnlyOne, ZenonT(40)
                DEF IInv, Good, Pages, Statuses, Refreshes
      <4> QED BY <4>1, <4>2, FinallyQuiet
    <3>4. ASSUME NEW found \in BOOLEAN, BarsArrive(i, found)
          PROVE  Len(page'.running) <= Len(page.running)
      <4>1. Len(page.running) \in {0, 1} /\ Len(page'.running) \in {0, 1}
        BY <1>1, <3>4, AtMostOne, BarsArriveKeeps DEF IInv, Good
      <4> QED BY <4>1
    <3> QED BY <2>1, <2>6, <3>2, <3>3, <3>4 DEF Arrives
  <2>7. CASE UNCHANGED vars
    BY <2>7
  <2> QED BY <1>1, <2>2, <2>3, <2>4, <2>5, <2>6, <2>7 DEF Next
<1> QED BY <1>1, Invariance, PTL DEF Spec, StoppedStaysStopped
============================================================================
