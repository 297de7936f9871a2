--------------------------- MODULE CollectorProofs ---------------------------
(***************************************************************************)
(* What the collector promises, for any durations, deadlines and number of *)
(* requests: it leaves nothing running at IBKR, does not outlast its       *)
(* deadline by more than a wait, keeps its backoff, and its tails leave no *)
(* hole if it runs no longer than its duration.                            *)
(*                                                                         *)
(* Each depends on where the command can be when a bound was last looked   *)
(* at: the deadline is looked at by the loop and by _sleep_for_retry only, *)
(* the backoff is cut short at the deadline, and a request is cancelled on *)
(* some paths and ended by IBKR on others.                                 *)
(***************************************************************************)
EXTENDS Collector, TLAPS

Requests ==
    [at : Int, first : Int, next : Int, last : Int, keepUp : BOOLEAN,
     live : BOOLEAN, answered : BOOLEAN, refused : BOOLEAN]

Windows == [amount : Int, unit : DOMAIN UnitSeconds]

ClockOK ==
    /\ now \in Nat /\ until \in Nat /\ pacedAt \in Nat \cup {NoTime}
    /\ latest \in Int /\ duration \in Durations /\ window \in Windows

AsksOK ==
    /\ asks \in Seq(Requests)
    /\ current \in 0 .. Len(asks) /\ subscription \in 0 .. Len(asks)

\* What IBKR still serves: the subscription, and the request the command
\* waits for or is about to cancel; only the first one is kept up to date.
LiveInv ==
    /\ \A r \in 1 .. Len(asks) :
           asks[r].live =>
               r = subscription \/ (r = current /\ pc \in {"waiting", "cancelling", "raised"})
    /\ \A r \in 1 .. Len(asks) : asks[r].answered /\ asks[r].live => asks[r].keepUp
    /\ pc \in {"waiting", "cancelling"} => current > 0
    /\ pc = "waiting" => (asks[current].keepUp <=> subscription = 0)
    /\ pc = "first" => subscription = 0
    /\ pc \in {"loop", "pausing", "sleeping", "releasing"} => subscription > 0
    /\ pc = "done" => \A r \in 1 .. Len(asks) : ~asks[r].live

DeadlineInv ==
    Runtime > 0 =>
        /\ pc \in {"first", "pausing"} => now <= Deadline
        /\ pc \in Blocked => until <= Deadline + ReadyTimeout
        /\ now <= Deadline + ReadyTimeout

\* A backoff that is cut short leaves no time for another request.
BackoffInv ==
    pacedAt # NoTime =>
        /\ pc \notin {"backoff", "releasing", "done", "raised"} => now >= pacedAt + MinBackoff
        /\ pc = "backoff" => until >= pacedAt + MinBackoff \/ (Runtime > 0 /\ until >= Deadline)

IInv == ClockOK /\ AsksOK /\ LiveInv /\ DeadlineInv /\ BackoffInv

----------------------------------------------------------------------------
(* The constants and the durations.                                        *)

\* What the deadlines need of the constants.
LEMMA ConstantsAre ==
    /\ Start \in Nat /\ Runtime \in Nat /\ Deadline \in Nat /\ Start <= Deadline
    /\ ReadyTimeout \in Nat /\ ReadyTimeout > 0 /\ MinBackoff \in Nat
    /\ BarSeconds \in Nat \ {0} /\ TailPerSecond \in Nat \ {0} /\ Delay \in Nat
    /\ Poll \in Nat /\ MaxThrottle \in Nat /\ LongTail \in Nat /\ Ahead \in Int
BY ConstantAssumption DEF Deadline

\* Rounding up yields an integer.
LEMMA CeilIs ==
    ASSUME NEW a \in Int, NEW b \in Nat \ {0}
    PROVE  Ceil(a, b) \in Int
BY DEF Ceil

\* What a duration is served and parsed as.
LEMMA WindowIs ==
    ASSUME NEW w \in Windows
    PROVE  Parse(w) \in Int /\ Served(w) \in Int
<1>1. w.unit \in DOMAIN UnitSeconds /\ w.amount \in Int
  BY DEF Windows
<1>2. UnitSeconds[w.unit] \in Int /\ IntervalUnits[w.unit] \in Int
  <2>1. /\ UnitSeconds \in [DOMAIN UnitSeconds -> Nat \ {0}]
        /\ IntervalUnits \in [DOMAIN UnitSeconds -> Nat \ {0}]
    BY ConstantAssumption
  <2> QED BY <1>1, <2>1
<1>3. w.amount * UnitSeconds[w.unit] \in Int /\ w.amount * IntervalUnits[w.unit] \in Int
  BY <1>1, <1>2
<1> QED BY <1>3 DEF Parse, Served, Larger

\* The backoff is never shorter than MinBackoff.
LEMMA BackoffIs ==
    ASSUME NEW w \in Windows
    PROVE  Backoff(w) \in Nat /\ Backoff(w) >= MinBackoff
<1>1. Parse(w) \in Int
  BY WindowIs
<1>2. Ceil(Parse(w), TailPerSecond) \in Int
  BY <1>1, CeilIs, ConstantsAre
<1>3. RefreshInterval(w) \in Int
  BY <1>1, <1>2, ConstantsAre DEF RefreshInterval, Larger, Smaller
<1> QED BY <1>3, ConstantsAre DEF Backoff, Larger

\* --duration is a duration.
LEMMA DurationIs ==
    ASSUME NEW d \in Durations
    PROVE  d \in Windows
<1>1. Durations \subseteq [amount : Nat \ {0}, unit : DOMAIN UnitSeconds]
  BY ConstantAssumption
<1> QED BY <1>1 DEF Windows

\* So is the tail.
LEMMA TailIs ==
    ASSUME ClockOK
    PROVE  TailDuration \in Windows
<1>1. duration \in Windows /\ Parse(duration) \in Int
  BY DurationIs, WindowIs DEF ClockOK
<1>2. "S" \in DOMAIN UnitSeconds
  BY ConstantAssumption
<1>3. CASE latest = NoTime \/ ~BarSizeParses
  BY <1>1, <1>3 DEF TailDuration
<1>4. CASE latest # NoTime /\ BarSizeParses
  <2> DEFINE uncovered == Larger(BarSeconds, now - Stamp(latest))
             whole == Ceil(uncovered, BarSeconds) * BarSeconds
             amount == Larger(BarSeconds, Smaller(Parse(duration), whole))
  <2>1. uncovered \in Int
    BY ConstantsAre DEF ClockOK, Larger, Stamp
  <2>2. Ceil(uncovered, BarSeconds) \in Int
    BY <2>1, CeilIs, ConstantsAre
  <2>3. whole \in Int
    BY <2>2, ConstantsAre
  <2>4. amount \in Int
    BY <1>1, <2>3, ConstantsAre DEF Larger, Smaller
  <2>5. TailDuration = [amount |-> amount, unit |-> "S"]
    BY <1>4 DEF TailDuration
  <2> QED BY <1>2, <2>4, <2>5 DEF Windows
<1> QED BY <1>3, <1>4

\* The newest bar starts at an integer.
LEMMA NewestIs ==
    ASSUME ClockOK
    PROVE  Newest \in Int
<1>1. now - Delay \in Int
  BY ConstantsAre DEF ClockOK
<1>2. (now - Delay) \div BarSeconds \in Int
  BY <1>1, ConstantsAre
<1> QED BY <1>2, ConstantsAre DEF Newest

\* What is asked of IBKR is a request that is yet to be answered.
LEMMA RequestIs ==
    ASSUME ClockOK, NEW w \in Windows, NEW keepUp \in BOOLEAN
    PROVE  /\ Request(w, keepUp) \in Requests
           /\ Request(w, keepUp).keepUp = keepUp /\ ~Request(w, keepUp).answered
<1>1. Served(w) \in Int /\ Newest \in Int /\ now \in Int
  BY WindowIs, NewestIs DEF ClockOK
<1>2. now - Served(w) \in Int
  BY <1>1
<1>3. Ceil(now - Served(w), BarSeconds) \in Int
  BY <1>2, CeilIs, ConstantsAre
<1>4. Ceil(now - Served(w), BarSeconds) * BarSeconds \in Int
  BY <1>3, ConstantsAre
<1> QED BY <1>1, <1>4 DEF Request, Requests

----------------------------------------------------------------------------
(* The requests.                                                           *)

\* What changes when one request does.
LEMMA Replaced ==
    ASSUME NEW s \in Seq(Requests), NEW r \in 1 .. Len(s), NEW q \in Requests
    PROVE  LET t == [s EXCEPT ![r] = q]
           IN  /\ t \in Seq(Requests) /\ Len(t) = Len(s)
               /\ \A i \in 1 .. Len(s) : t[i] = IF i = r THEN q ELSE s[i]
OBVIOUS

\* A request that IBKR changes, without taking it up again, keeps what is
\* known of the requests.
LEMMA Changed ==
    ASSUME AsksOK, LiveInv, NEW r \in 1 .. Len(asks), NEW q \in Requests,
           asks' = [asks EXCEPT ![r] = q], UNCHANGED <<pc, current, subscription>>,
           q.keepUp = asks[r].keepUp, q.live => asks[r].live,
           q.answered /\ q.live => q.keepUp
    PROVE  AsksOK' /\ LiveInv'
<1>1. /\ asks' \in Seq(Requests) /\ Len(asks') = Len(asks)
      /\ \A i \in 1 .. Len(asks) : asks'[i] = IF i = r THEN q ELSE asks[i]
  BY Replaced DEF AsksOK
<1>2. AsksOK'
  BY <1>1 DEF AsksOK
<1>3. \A i \in 1 .. Len(asks) :
          /\ asks'[i].live => asks[i].live
          /\ asks'[i].keepUp = asks[i].keepUp
          /\ asks'[i].answered /\ asks'[i].live => asks'[i].keepUp
  BY <1>1 DEF LiveInv
<1>4. pc = "waiting" => current \in 1 .. Len(asks)
  BY DEF AsksOK, LiveInv
<1> QED BY <1>1, <1>2, <1>3, <1>4 DEF LiveInv

\* A request that is made comes after the others, which it leaves alone.
LEMMA Asked ==
    ASSUME ClockOK, AsksOK, LiveInv, NEW w \in Windows, NEW keepUp \in BOOLEAN,
           Ask(w, keepUp), UNCHANGED subscription, pc \in {"first", "pausing"},
           keepUp <=> subscription = 0
    PROVE  AsksOK' /\ LiveInv'
<1> DEFINE q == Request(w, keepUp)
<1>1. q \in Requests /\ q.keepUp = keepUp /\ ~q.answered
  BY RequestIs
<1>2. /\ asks' = Append(asks, q) /\ current' = Len(asks) + 1 /\ pc' = "waiting"
      /\ subscription' = subscription
  BY DEF Ask
<1> HIDE DEF q
<1>3. /\ asks' \in Seq(Requests) /\ Len(asks') = Len(asks) + 1 /\ Len(asks) \in Nat
      /\ asks'[Len(asks) + 1] = q
      /\ \A i \in 1 .. Len(asks) : asks'[i] = asks[i]
  BY <1>1, <1>2 DEF AsksOK
<1>4. AsksOK'
  BY <1>2, <1>3 DEF AsksOK
<1>5. \A i \in 1 .. Len(asks') : i = current' \/ i \in 1 .. Len(asks)
  BY <1>2, <1>3
<1>6. \A i \in 1 .. Len(asks') : asks'[i].live => i = subscription' \/ i = current'
  BY <1>2, <1>3, <1>5 DEF LiveInv
<1>7. \A i \in 1 .. Len(asks') : asks'[i].answered /\ asks'[i].live => asks'[i].keepUp
  BY <1>1, <1>2, <1>3, <1>5 DEF LiveInv
<1>8. asks'[current'].keepUp <=> subscription' = 0
  BY <1>1, <1>2, <1>3
<1>9. current' > 0
  BY <1>2, <1>3
<1>10. LiveInv'
  BY <1>2, <1>6, <1>7, <1>8, <1>9 DEF LiveInv
<1> QED BY <1>4, <1>10

\* A request that the command cancels, if it is the one it is about and the
\* command moves on, or if it is the subscription and the command is done.
LEMMA Cancelled ==
    ASSUME AsksOK, LiveInv, NEW r \in 1 .. Len(asks), NEW q \in Requests,
           asks' = [asks EXCEPT ![r] = q], ~q.live, UNCHANGED <<current, subscription>>,
           \/ r = current /\ pc' = "consuming"
           \/ r = subscription /\ pc = "releasing" /\ pc' = "done"
    PROVE  AsksOK' /\ LiveInv'
<1>1. /\ asks' \in Seq(Requests) /\ Len(asks') = Len(asks)
      /\ \A i \in 1 .. Len(asks) : asks'[i] = IF i = r THEN q ELSE asks[i]
  BY Replaced DEF AsksOK
<1>2. AsksOK'
  BY <1>1 DEF AsksOK
<1>3. \A i \in 1 .. Len(asks) : asks'[i].live => asks[i].live /\ i # r /\ asks'[i] = asks[i]
  BY <1>1
<1> QED BY <1>1, <1>2, <1>3 DEF LiveInv

\* A request that is cancelled is not live.
LEMMA Dead ==
    ASSUME AsksOK, NEW r \in 1 .. Len(asks)
    PROVE  \E q \in Requests : ~q.live /\ [asks EXCEPT ![r].live = FALSE] = [asks EXCEPT ![r] = q]
<1> DEFINE q == [asks[r] EXCEPT !.live = FALSE]
<1>1. asks[r] \in Requests
  BY DEF AsksOK
<1>2. q \in Requests /\ ~q.live
  BY <1>1 DEF Requests
<1>3. [asks EXCEPT ![r].live = FALSE] = [asks EXCEPT ![r] = q]
  OBVIOUS
<1> QED BY <1>2, <1>3

----------------------------------------------------------------------------
(* The steps: a lemma per action.                                          *)

\* The requests are as they were, and the command is where they allow it.
LEMMA AskFirstKeeps ==
    ASSUME IInv, AskFirst
    PROVE  IInv'
<1>1. duration \in Windows /\ until' = now + ReadyTimeout /\ pc' = "waiting"
  BY DurationIs DEF IInv, ClockOK, AskFirst, Ask
<1>2. AsksOK' /\ LiveInv'
  BY <1>1, Asked DEF IInv, LiveInv, AskFirst
<1>3. ClockOK'
  BY <1>1, ConstantsAre DEF IInv, ClockOK, AskFirst, tracker_vars
<1>4. DeadlineInv'
  BY <1>1, ConstantsAre DEF IInv, ClockOK, DeadlineInv, AskFirst, Deadline
<1>5. BackoffInv'
  BY <1>1 DEF IInv, BackoffInv, AskFirst
<1> QED BY <1>2, <1>3, <1>4, <1>5 DEF IInv

\* A refresh is asked for with a subscription, and before the deadline.
LEMMA RefreshKeeps ==
    ASSUME IInv, Refresh
    PROVE  IInv'
<1>1. window \in Windows /\ until' = now + ReadyTimeout /\ pc' = "waiting"
  BY DEF IInv, ClockOK, Refresh, Ask
<1>2. AsksOK' /\ LiveInv'
  <2>1. subscription # 0
    BY DEF IInv, AsksOK, LiveInv, Refresh
  <2> QED BY <1>1, <2>1, Asked DEF IInv, Refresh
<1>3. ClockOK'
  BY <1>1, ConstantsAre DEF IInv, ClockOK, Refresh, tracker_vars
<1>4. DeadlineInv'
  BY <1>1, ConstantsAre DEF IInv, ClockOK, DeadlineInv, Refresh, Deadline
<1>5. BackoffInv'
  BY <1>1 DEF IInv, BackoffInv, Refresh
<1> QED BY <1>2, <1>3, <1>4, <1>5 DEF IInv

\* An answer makes the first request the subscription; a refresh that is
\* answered is not live any more.
LEMMA AnsweredKeeps ==
    ASSUME IInv, Answered
    PROVE  IInv'
<1>1. current \in 1 .. Len(asks) /\ asks[current].answered
  BY DEF IInv, AsksOK, LiveInv, Answered
<1>2. asks[current].live => subscription = 0
  BY <1>1 DEF IInv, LiveInv, Answered
<1>3. AsksOK'
  BY DEF IInv, AsksOK, Answered
<1>4. LiveInv'
  BY <1>1, <1>2 DEF IInv, AsksOK, LiveInv, Answered
<1>5. ClockOK'
  BY DEF IInv, ClockOK, Answered, tracker_vars
<1>6. DeadlineInv'
  BY DEF IInv, DeadlineInv, Blocked, Deadline, Answered
<1>7. BackoffInv'
  BY DEF IInv, BackoffInv, Answered
<1> QED BY <1>3, <1>4, <1>5, <1>6, <1>7 DEF IInv

\* The wait ends; the request is cancelled next.
LEMMA WaitTimesOutKeeps ==
    ASSUME IInv, WaitTimesOut
    PROVE  IInv'
<1>1. AsksOK'
  BY DEF IInv, AsksOK, WaitTimesOut
<1>2. LiveInv'
  BY DEF IInv, LiveInv, WaitTimesOut
<1>3. ClockOK'
  BY DEF IInv, ClockOK, WaitTimesOut, tracker_vars
<1>4. DeadlineInv'
  BY DEF IInv, DeadlineInv, Blocked, Deadline, WaitTimesOut
<1>5. BackoffInv'
  BY DEF IInv, BackoffInv, WaitTimesOut
<1> QED BY <1>1, <1>2, <1>3, <1>4, <1>5 DEF IInv

\* What the command waited for in vain is cancelled.
LEMMA CancelKeeps ==
    ASSUME IInv, Cancel
    PROVE  IInv'
<1>1. current \in 1 .. Len(asks)
  BY DEF IInv, AsksOK, LiveInv, Cancel
<1>2. AsksOK' /\ LiveInv'
  <2>1. PICK q \in Requests :
            ~q.live /\ [asks EXCEPT ![current].live = FALSE] = [asks EXCEPT ![current] = q]
    BY <1>1, Dead DEF IInv
  <2> QED BY <1>1, <2>1, Cancelled DEF IInv, Cancel
<1>3. ClockOK'
  BY DEF IInv, ClockOK, Cancel, tracker_vars
<1>4. DeadlineInv'
  BY DEF IInv, DeadlineInv, Blocked, Deadline, Cancel
<1>5. BackoffInv'
  BY DEF IInv, BackoffInv, Cancel
<1> QED BY <1>2, <1>3, <1>4, <1>5 DEF IInv

\* The last thing a command does is to cancel its subscription.
LEMMA ReleaseKeeps ==
    ASSUME IInv, Release
    PROVE  IInv'
<1>1. subscription \in 1 .. Len(asks)
  BY DEF IInv, AsksOK, LiveInv, Release
<1>2. AsksOK' /\ LiveInv'
  <2>1. PICK q \in Requests :
            /\ ~q.live
            /\ [asks EXCEPT ![subscription].live = FALSE] = [asks EXCEPT ![subscription] = q]
    BY <1>1, Dead DEF IInv
  <2> QED BY <1>1, <2>1, Cancelled DEF IInv, Release
<1>3. ClockOK'
  BY DEF IInv, ClockOK, Release, tracker_vars
<1>4. DeadlineInv'
  BY DEF IInv, DeadlineInv, Blocked, Deadline, Release
<1>5. BackoffInv'
  BY DEF IInv, BackoffInv, Release
<1> QED BY <1>2, <1>3, <1>4, <1>5 DEF IInv

\* The backoff ends at the deadline at the latest.
LEMMA BackOffKeeps ==
    ASSUME IInv, BackOff
    PROVE  IInv'
<1>1. Backoff(window) \in Nat /\ Backoff(window) >= MinBackoff /\ pacedAt' = now
  BY BackoffIs DEF IInv, ClockOK, BackOff
<1>2. CASE Expired
  <2>1. pc' \in {"done", "releasing"} /\ (pc' = "done" <=> subscription = 0) /\ until' = until
    BY <1>2 DEF BackOff, GiveUp
  <2>2. AsksOK'
    BY DEF IInv, AsksOK, BackOff
  <2>3. LiveInv'
    BY <2>1 DEF IInv, AsksOK, LiveInv, BackOff
  <2>4. ClockOK'
    BY <1>1, <2>1 DEF IInv, ClockOK, BackOff, tracker_vars
  <2>5. DeadlineInv'
    BY <2>1 DEF IInv, DeadlineInv, Blocked, Deadline, BackOff
  <2>6. BackoffInv'
    BY <2>1 DEF BackoffInv
  <2> QED BY <2>2, <2>3, <2>4, <2>5, <2>6 DEF IInv
<1>3. CASE ~Expired
  <2>1. pc' = "backoff" /\ until' = IF Runtime = 0 THEN now + Backoff(window)
                                   ELSE Smaller(now + Backoff(window), Deadline)
    BY <1>3 DEF BackOff
  <2>2. AsksOK'
    BY DEF IInv, AsksOK, BackOff
  <2>3. LiveInv'
    BY <2>1 DEF IInv, LiveInv, BackOff
  <2>4. /\ now \in Nat /\ until' \in Nat
        /\ Runtime > 0 => until' <= Deadline
        /\ until' >= now + MinBackoff \/ (Runtime > 0 /\ until' >= Deadline)
    BY <1>1, <2>1, ConstantsAre DEF IInv, ClockOK, Smaller
  <2>5. ClockOK'
    BY <1>1, <2>4 DEF IInv, ClockOK, BackOff, tracker_vars
  <2>6. DeadlineInv'
    BY <2>1, <2>4, ConstantsAre DEF IInv, DeadlineInv, Deadline, BackOff
  <2>7. BackoffInv'
    BY <1>1, <2>1, <2>4 DEF BackoffInv, Deadline
  <2> QED BY <2>2, <2>3, <2>5, <2>6, <2>7 DEF IInv
<1> QED BY <1>2, <1>3

\* Without a pacing error the command gives up.
LEMMA UnansweredKeeps ==
    ASSUME IInv, Unanswered
    PROVE  IInv'
<1>1. pc' \in {"done", "releasing"} /\ (pc' = "done" <=> subscription = 0)
  BY DEF Unanswered, GiveUp
<1>2. AsksOK'
  BY DEF IInv, AsksOK, Unanswered
<1>3. LiveInv'
  BY <1>1 DEF IInv, AsksOK, LiveInv, Unanswered
<1>4. ClockOK'
  BY DEF IInv, ClockOK, Unanswered, tracker_vars
<1>5. DeadlineInv'
  BY <1>1 DEF IInv, DeadlineInv, Blocked, Deadline, Unanswered
<1>6. BackoffInv'
  BY <1>1 DEF BackoffInv
<1> QED BY <1>2, <1>3, <1>4, <1>5, <1>6 DEF IInv

\* A retry comes before the deadline, hence after a backoff that was not cut.
LEMMA RetryKeeps ==
    ASSUME IInv, Retry
    PROVE  IInv'
<1>1. /\ pc = "backoff" /\ now >= until
      /\ UNCHANGED <<now, asks, current, subscription, until, pacedAt>>
  BY DEF Retry
<1>2. CASE Expired
  <2>1. pc' \in {"done", "releasing"} /\ (pc' = "done" <=> subscription = 0)
    BY <1>2 DEF Retry, GiveUp
  <2>2. LiveInv'
    BY <1>1, <2>1 DEF IInv, AsksOK, LiveInv
  <2>3. DeadlineInv' /\ BackoffInv'
    BY <1>1, <2>1 DEF IInv, DeadlineInv, BackoffInv, Blocked, Deadline
  <2> QED BY <1>1, <2>2, <2>3 DEF IInv, ClockOK, AsksOK, Retry, tracker_vars
<1>3. CASE ~Expired
  <2>1. pc' = IF subscription = 0 THEN "first" ELSE "loop"
    BY <1>3 DEF Retry
  <2>2. LiveInv'
    BY <1>1, <2>1 DEF IInv, AsksOK, LiveInv
  <2>3. Runtime > 0 => now < Deadline
    BY <1>3, ConstantsAre DEF IInv, ClockOK, Expired
  <2>4. DeadlineInv'
    BY <1>1, <2>1, <2>3, ConstantsAre DEF IInv, ClockOK, DeadlineInv, Blocked, Deadline
  <2>5. pacedAt # NoTime => now >= pacedAt + MinBackoff
    BY <1>1, <2>3, ConstantsAre DEF IInv, ClockOK, BackoffInv, NoTime
  <2>6. BackoffInv'
    BY <1>1, <2>1, <2>5 DEF BackoffInv
  <2> QED BY <1>1, <2>2, <2>4, <2>6 DEF IInv, ClockOK, AsksOK, Retry, tracker_vars
<1> QED BY <1>2, <1>3

\* The loop goes on before the deadline only.
LEMMA LoopKeeps ==
    ASSUME IInv, Loop
    PROVE  IInv'
<1>1. /\ pc = "loop" /\ TailDuration \in Windows /\ subscription > 0
      /\ UNCHANGED <<now, asks, current, subscription, until, pacedAt>>
  BY TailIs DEF IInv, LiveInv, Loop
<1>2. AsksOK'
  BY <1>1 DEF IInv, AsksOK
<1>3. CASE Expired
  <2>1. pc' = "releasing" /\ window' = window
    BY <1>1, <1>3 DEF IInv, AsksOK, Loop, GiveUp
  <2>2. LiveInv'
    BY <1>1, <2>1 DEF IInv, LiveInv
  <2>3. DeadlineInv' /\ BackoffInv'
    BY <1>1, <2>1 DEF IInv, DeadlineInv, BackoffInv, Blocked, Deadline
  <2> QED BY <1>1, <1>2, <2>1, <2>2, <2>3 DEF IInv, ClockOK, Loop, tracker_vars
<1>4. CASE ~Expired
  <2>1. pc' = "pausing" /\ window' \in Windows
    BY <1>1, <1>4 DEF Loop
  <2>2. LiveInv'
    BY <1>1, <2>1 DEF IInv, LiveInv
  <2>3. Runtime > 0 => now < Deadline
    BY <1>4, ConstantsAre DEF IInv, ClockOK, Expired
  <2>4. DeadlineInv'
    BY <1>1, <2>1, <2>3, ConstantsAre DEF IInv, ClockOK, DeadlineInv, Blocked, Deadline
  <2>5. BackoffInv'
    BY <1>1, <2>1 DEF IInv, BackoffInv
  <2> QED BY <1>1, <1>2, <2>1, <2>2, <2>4, <2>5 DEF IInv, ClockOK, Loop, tracker_vars
<1> QED BY <1>3, <1>4

\* A pause is a second, which the wait of a request would be, too.
LEMMA PauseKeeps ==
    ASSUME IInv, Pause
    PROVE  IInv'
<1>1. /\ pc = "pausing" /\ pc' = "sleeping" /\ until' = now + 1
      /\ UNCHANGED <<now, asks, current, subscription, pacedAt>>
  BY DEF Pause
<1>2. AsksOK' /\ LiveInv'
  BY <1>1 DEF IInv, AsksOK, LiveInv
<1>3. ClockOK'
  BY <1>1 DEF IInv, ClockOK, Pause, tracker_vars
<1>4. DeadlineInv'
  BY <1>1, ConstantsAre DEF IInv, ClockOK, DeadlineInv, Deadline
<1>5. BackoffInv'
  BY <1>1 DEF IInv, BackoffInv
<1> QED BY <1>2, <1>3, <1>4, <1>5 DEF IInv

\* A sleep ends, or the gateway's failure ends the command.
LEMMA ResumeOrRaiseKeeps ==
    ASSUME IInv, Resume \/ Raise
    PROVE  IInv'
<1>1. /\ UNCHANGED <<now, asks, current, subscription, until, pacedAt>>
      /\ \/ pc = "sleeping" /\ pc' = "loop"
         \/ pc # "done" /\ pc' = "raised"
  <2>1. CASE Resume
    BY <2>1 DEF Resume
  <2>2. CASE Raise
    BY <2>2 DEF Raise
  <2> QED BY <2>1, <2>2
<1>2. AsksOK'
  BY <1>1 DEF IInv, AsksOK
<1>3. LiveInv'
  BY <1>1 DEF IInv, LiveInv
<1>4. ClockOK'
  BY <1>1 DEF IInv, ClockOK, Resume, Raise, tracker_vars
<1>5. DeadlineInv' /\ BackoffInv'
  BY <1>1 DEF IInv, DeadlineInv, BackoffInv, Blocked, Deadline
<1> QED BY <1>2, <1>3, <1>4, <1>5 DEF IInv

\* The clock advances up to the end of the wait or sleep.
LEMMA TickKeeps ==
    ASSUME IInv, Tick
    PROVE  IInv'
<1>1. /\ pc \in Blocked /\ now < until /\ now' = now + 1
      /\ UNCHANGED <<asks, current, subscription, until, pacedAt, pc>>
  BY DEF Tick, main_vars
<1>2. AsksOK' /\ LiveInv'
  BY <1>1 DEF IInv, AsksOK, LiveInv
<1>3. ClockOK'
  BY <1>1 DEF IInv, ClockOK, Tick, tracker_vars, main_vars
<1>4. DeadlineInv'
  BY <1>1, ConstantsAre DEF IInv, ClockOK, DeadlineInv, Blocked, Deadline
<1>5. BackoffInv'
  BY <1>1, ConstantsAre DEF IInv, ClockOK, BackoffInv, Blocked, Deadline, NoTime
<1> QED BY <1>2, <1>3, <1>4, <1>5 DEF IInv

\* What IBKR and the listener do leaves the command and its clock alone.
LEMMA ListenerKeeps ==
    ASSUME IInv, AsksOK', LiveInv', latest' \in Int,
           UNCHANGED <<now, duration, main_vars>>
    PROVE  IInv'
<1>1. ClockOK'
  BY DEF IInv, ClockOK, main_vars
<1>2. DeadlineInv' /\ BackoffInv'
  BY DEF IInv, DeadlineInv, BackoffInv, Blocked, Deadline, main_vars
<1> QED BY <1>1, <1>2 DEF IInv

\* A lost connection is noticed by the command in its own time.
LEMMA ConnectionFailsKeeps ==
    ASSUME IInv, ConnectionFails
    PROVE  IInv'
<1>1. AsksOK' /\ LiveInv'
  BY DEF IInv, AsksOK, LiveInv, ConnectionFails, main_vars
<1>2. latest' \in Int
  BY DEF IInv, ClockOK, ConnectionFails, tracker_vars
<1> QED BY <1>1, <1>2, ListenerKeeps DEF ConnectionFails

\* Bars move a request on.
LEMMA BarsArriveKeeps ==
    ASSUME IInv, NEW r \in 1 .. Len(asks), NEW bar \in Int, BarsArrive(r, bar)
    PROVE  IInv'
<1> DEFINE q == [asks[r] EXCEPT !.next = bar + BarSeconds]
<1>1. asks[r] \in Requests /\ bar + BarSeconds \in Int
  BY ConstantsAre DEF IInv, AsksOK
<1>2. /\ q \in Requests /\ q.live = asks[r].live /\ q.keepUp = asks[r].keepUp
      /\ q.answered = asks[r].answered
  BY <1>1 DEF Requests
<1>3. asks' = [asks EXCEPT ![r] = q] /\ UNCHANGED <<pc, current, subscription>>
  BY DEF BarsArrive, main_vars
<1> HIDE DEF q
<1>4. AsksOK' /\ LiveInv'
  BY <1>2, <1>3, Changed DEF IInv, LiveInv
<1>5. latest' \in Int
  BY DEF IInv, ClockOK, BarsArrive, Track, Larger
<1> QED BY <1>4, <1>5, ListenerKeeps DEF BarsArrive

\* So does an update.
LEMMA UpdateArrivesKeeps ==
    ASSUME IInv, NEW r \in 1 .. Len(asks), UpdateArrives(r)
    PROVE  IInv'
<1> DEFINE q == [asks[r] EXCEPT !.next = Newest + BarSeconds]
<1>1. Newest \in Int
  BY NewestIs DEF IInv
<1>2. asks[r] \in Requests /\ Newest + BarSeconds \in Int
  BY <1>1, ConstantsAre DEF IInv, AsksOK
<1>3. /\ q \in Requests /\ q.live = asks[r].live /\ q.keepUp = asks[r].keepUp
      /\ q.answered = asks[r].answered
  BY <1>2 DEF Requests
<1>4. asks' = [asks EXCEPT ![r] = q] /\ UNCHANGED <<pc, current, subscription>>
  BY DEF UpdateArrives, main_vars
<1> HIDE DEF q
<1>5. AsksOK' /\ LiveInv'
  BY <1>3, <1>4, Changed DEF IInv, LiveInv
<1>6. latest' \in Int
  BY <1>1 DEF IInv, ClockOK, UpdateArrives, Track, Larger
<1> QED BY <1>5, <1>6, ListenerKeeps DEF UpdateArrives

\* The End leaves a request live only if it is kept up to date.
LEMMA EndArrivesKeeps ==
    ASSUME IInv, NEW r \in 1 .. Len(asks), EndArrives(r)
    PROVE  IInv'
<1> DEFINE q == [asks[r] EXCEPT !.answered = TRUE, !.live = asks[r].keepUp]
<1>1. asks[r] \in Requests /\ asks[r].live
  BY DEF IInv, AsksOK, EndArrives
<1>2. q \in Requests /\ q.keepUp = asks[r].keepUp /\ (q.live => q.keepUp)
  BY <1>1 DEF Requests
<1>3. asks' = [asks EXCEPT ![r] = q] /\ UNCHANGED <<pc, current, subscription>>
  BY <1>1 DEF IInv, AsksOK, EndArrives, main_vars
<1> HIDE DEF q
<1>4. AsksOK' /\ LiveInv'
  BY <1>1, <1>2, <1>3, Changed DEF IInv
<1>5. latest' \in Int
  BY DEF IInv, ClockOK, EndArrives, tracker_vars
<1> QED BY <1>4, <1>5, ListenerKeeps DEF EndArrives

\* An error ends its request.
LEMMA ErrorArrivesKeeps ==
    ASSUME IInv, NEW r \in 1 .. Len(asks), NEW paced \in BOOLEAN, ErrorArrives(r, paced)
    PROVE  IInv'
<1> DEFINE q == [asks[r] EXCEPT !.live = FALSE, !.refused = TRUE]
<1>1. asks[r] \in Requests
  BY DEF IInv, AsksOK
<1>2. q \in Requests /\ q.keepUp = asks[r].keepUp /\ ~q.live
  BY <1>1 DEF Requests
<1>3. asks' = [asks EXCEPT ![r] = q] /\ UNCHANGED <<pc, current, subscription>>
  BY <1>1 DEF IInv, AsksOK, ErrorArrives, main_vars
<1> HIDE DEF q
<1>4. AsksOK' /\ LiveInv'
  BY <1>2, <1>3, Changed DEF IInv
<1>5. latest' \in Int
  BY DEF IInv, ClockOK, ErrorArrives, tracker_vars
<1> QED BY <1>4, <1>5, ListenerKeeps DEF ErrorArrives

----------------------------------------------------------------------------
\* The invariant holds when the command starts, before any request.
LEMMA InitIInv == Init => IInv
<1> SUFFICES ASSUME Init
             PROVE  IInv
  OBVIOUS
<1>1. asks = <<>> /\ Len(asks) = 0
  BY DEF Init
<1>2. ClockOK
  BY ConstantsAre, DurationIs DEF Init, ClockOK, NoTime
<1>3. AsksOK /\ LiveInv
  BY <1>1 DEF Init, AsksOK, LiveInv
<1>4. DeadlineInv
  BY ConstantsAre DEF Init, DeadlineInv, Blocked, Deadline
<1>5. BackoffInv
  BY DEF Init, BackoffInv
<1> QED BY <1>2, <1>3, <1>4, <1>5 DEF IInv

\* Every step of the command, of the listener and of the clock keeps it.
LEMMA NextIInv == IInv /\ [Next]_vars => IInv'
<1> SUFFICES ASSUME IInv, [Next]_vars
             PROVE  IInv'
  OBVIOUS
<1>1. CASE MainStep
  BY <1>1, AskFirstKeeps, AnsweredKeeps, WaitTimesOutKeeps, CancelKeeps, BackOffKeeps,
     UnansweredKeeps, RetryKeeps, LoopKeeps, PauseKeeps, ResumeOrRaiseKeeps, RefreshKeeps,
     ReleaseKeeps DEF MainStep
<1>2. CASE Tick
  BY <1>2, TickKeeps
<1>3. CASE ConnectionFails
  BY <1>3, ConnectionFailsKeeps
<1>4. ASSUME NEW r \in 1 .. Len(asks), NEW bar \in asks[r].next .. LastBar(r), BarsArrive(r, bar)
      PROVE  IInv'
  BY <1>4, BarsArriveKeeps
<1>5. ASSUME NEW r \in 1 .. Len(asks), UpdateArrives(r) \/ EndArrives(r)
      PROVE  IInv'
  BY <1>5, UpdateArrivesKeeps, EndArrivesKeeps
<1>6. ASSUME NEW r \in 1 .. Len(asks), NEW paced \in BOOLEAN, ErrorArrives(r, paced)
      PROVE  IInv'
  BY <1>6, ErrorArrivesKeeps
<1>7. CASE Stopped \/ UNCHANGED vars
  <2>1. UNCHANGED <<now, duration, asks, latest, main_vars>>
    BY <1>7 DEF Stopped, vars, tracker_vars
  <2>2. AsksOK' /\ LiveInv'
    BY <2>1 DEF IInv, AsksOK, LiveInv, main_vars
  <2> QED BY <2>1, <2>2, ListenerKeeps DEF IInv, ClockOK
<1> QED BY <1>1, <1>2, <1>3, <1>4, <1>5, <1>6, <1>7 DEF Next

\* The invariant holds throughout.
LEMMA Invariance == Spec => []IInv
BY InitIInv, NextIInv, PTL DEF Spec

----------------------------------------------------------------------------
\* A collector that returns leaves nothing running at IBKR, whatever answers,
\* errors and failures raced with its way out.
THEOREM NothingRuns == Spec => []NothingLeftRunning
<1>1. IInv => NothingLeftRunning
  BY DEF IInv, LiveInv, NothingLeftRunning
<1> QED BY <1>1, Invariance, PTL

\* It outlasts its deadline by no more than the wait it is in.
THEOREM OverrunIsBounded == Spec => []OverrunBounded
<1>1. IInv => OverrunBounded
  BY DEF IInv, DeadlineInv, OverrunBounded
<1> QED BY <1>1, Invariance, PTL

\* No request is made before the backoff of a pacing error has passed.
THEOREM BackoffIsKept == Spec => BackoffKept
<1>1. ASSUME IInv, [Next]_vars, Len(asks') > Len(asks), pacedAt # NoTime
      PROVE  now >= pacedAt + MinBackoff
  <2>1. asks' # asks
    BY <1>1 DEF IInv, AsksOK
  <2>2. CASE AskFirst \/ Refresh
    BY <1>1, <2>2 DEF IInv, BackoffInv, AskFirst, Refresh
  <2>3. CASE Cancel \/ Release
    BY <1>1, <2>3 DEF IInv, AsksOK, Cancel, Release
  <2>4. ASSUME NEW r \in 1 .. Len(asks), NEW bar \in asks[r].next .. LastBar(r),
               BarsArrive(r, bar)
        PROVE  FALSE
    BY <1>1, <2>4 DEF IInv, AsksOK, BarsArrive
  <2>5. ASSUME NEW r \in 1 .. Len(asks), UpdateArrives(r) \/ EndArrives(r)
        PROVE  FALSE
    BY <1>1, <2>5 DEF IInv, AsksOK, UpdateArrives, EndArrives
  <2>6. ASSUME NEW r \in 1 .. Len(asks), NEW paced \in BOOLEAN, ErrorArrives(r, paced)
        PROVE  FALSE
    BY <1>1, <2>6 DEF IInv, AsksOK, ErrorArrives
  <2>7. CASE Tick \/ Stopped \/ ConnectionFails \/ UNCHANGED vars
    BY <2>1, <2>7 DEF Tick, Stopped, ConnectionFails, vars
  <2>8. CASE Answered \/ WaitTimesOut \/ BackOff \/ Unanswered \/ Retry
    BY <2>1, <2>8 DEF Answered, WaitTimesOut, BackOff, Unanswered, Retry
  <2>9. CASE Loop \/ Pause \/ Resume \/ Raise
    BY <2>1, <2>9 DEF Loop, Pause, Resume, Raise
  <2> QED BY <1>1, <2>2, <2>3, <2>4, <2>5, <2>6, <2>7, <2>8, <2>9 DEF Next, MainStep
<1>2. IInv /\ [Next]_vars =>
          [Len(asks') > Len(asks) /\ pacedAt # NoTime => now >= pacedAt + MinBackoff]_vars
  BY <1>1
<1> QED BY <1>2, Invariance, PTL DEF Spec, BackoffKept
----------------------------------------------------------------------------
(* Between the tails.  Bars lie on a grid; what a request has delivered,   *)
(* or passed over, reaches from its first bar to its next.  The            *)
(* subscription reaches beyond the newest bar of the start, and every      *)
(* later request begins in what there is, or before the start: so there is *)
(* no hole below any bar that has arrived.                                   *)

OnGrid(b) == b % BarSeconds = 0

\* No bar is missing from a up to z, which is left out.
Covers(a, z) == \A b \in a .. z - 1 : OnGrid(b) => b \in arrived \cup skipped

GridInv ==
    /\ \A r \in 1 .. Len(asks) : OnGrid(asks[r].first) /\ OnGrid(asks[r].next)
    /\ arrived \subseteq Int
    /\ \A c \in arrived : OnGrid(c)
    /\ latest = NoTime \/ latest \in arrived
    /\ now >= Start

\* What each request has brought; the answer to one ends after the newest bar
\* of the start.
SegmentsInv ==
    /\ \A r \in 1 .. Len(asks) : Covers(asks[r].first, asks[r].next)
    /\ \A c \in arrived : \E r \in 1 .. Len(asks) : c < asks[r].next
    /\ \A r \in 1 .. Len(asks) :
           asks[r].answered => asks[r].next > Start - Delay - BarSeconds

\* The first requests all ask for the whole duration, each later than the
\* one before.
FirstInv ==
    subscription = 0 =>
        /\ \A r \in 1 .. Len(asks) : asks[r].first < now - Served(duration) + BarSeconds
        /\ pc = "waiting" => \A r \in 1 .. Len(asks) : asks[r].first <= asks[current].first

\* From the first bar of the subscription on, nothing is missing below a bar
\* or below the tail that is about to be asked for.
TailsInv ==
    subscription # 0 /\ duration.unit # "M" =>
        /\ asks[subscription].answered
        /\ \A r \in 1 .. Len(asks) : Covers(asks[subscription].first, asks[r].first)
        /\ \A c \in arrived : Covers(asks[subscription].first, c)
        /\ pc = "pausing" => Covers(asks[subscription].first, now - Served(window))

HoleInv == GridInv /\ SegmentsInv /\ FirstInv /\ TailsInv

----------------------------------------------------------------------------
(* The grid.                                                               *)

\* A bar takes time.
LEMMA BarSecondsIs == BarSeconds \in Nat /\ BarSeconds > 0
BY ConstantAssumption

\* A multiple is on the grid.
LEMMA MultipleOnGrid ==
    ASSUME NEW k \in Int
    PROVE  OnGrid(k * BarSeconds)
BY ConstantsAre DEF OnGrid

\* What is on the grid is a multiple.
LEMMA GridMultiple ==
    ASSUME NEW b \in Int, OnGrid(b)
    PROVE  \E k \in Int : b = k * BarSeconds
<1>1. BarSeconds \in Nat \ {0}
  BY ConstantsAre
<1>2. b \div BarSeconds \in Int
  BY <1>1
<1>3. b = BarSeconds * (b \div BarSeconds) + (b % BarSeconds)
  BY <1>1
<1> QED BY <1>1, <1>2, <1>3 DEF OnGrid

\* The next bar.
LEMMA NextOnGrid ==
    ASSUME NEW b \in Int, OnGrid(b)
    PROVE  OnGrid(b + BarSeconds)
<1>1. PICK k \in Int : b = k * BarSeconds
  BY GridMultiple
<1>2. b + BarSeconds = (k + 1) * BarSeconds
  BY <1>1, ConstantsAre
<1> QED BY <1>2, MultipleOnGrid

\* Two bars that are less than a bar apart.
LEMMA BarsApart ==
    ASSUME NEW b \in Int, NEW c \in Int, OnGrid(b), OnGrid(c), b < c + BarSeconds
    PROVE  b <= c
<1>1. PICK k \in Int : b = k * BarSeconds
  BY GridMultiple
<1>2. PICK l \in Int : c = l * BarSeconds
  BY GridMultiple
<1>3. k < l + 1
  <2> SUFFICES ASSUME k >= l + 1
               PROVE  FALSE
    OBVIOUS
  <2>1. k * BarSeconds >= (l + 1) * BarSeconds
    BY ConstantsAre
  <2> QED BY <2>1, <1>1, <1>2, ConstantsAre
<1>4. (l - k) * BarSeconds >= 0
  BY <1>3, ConstantsAre
<1> QED BY <1>1, <1>2, <1>4, ConstantsAre

\* Rounding up to a bar.
LEMMA CeilBounds ==
    ASSUME NEW x \in Int
    PROVE  LET c == Ceil(x, BarSeconds) * BarSeconds
           IN  c \in Int /\ OnGrid(c) /\ x <= c /\ c < x + BarSeconds
<1>1. Ceil(x, BarSeconds) \in Int
  BY CeilIs, ConstantsAre
<1>2. OnGrid(Ceil(x, BarSeconds) * BarSeconds)
  BY <1>1, MultipleOnGrid
<1>3. /\ Ceil(x, BarSeconds) * BarSeconds \in Int
      /\ Ceil(x, BarSeconds) * BarSeconds >= x
      /\ Ceil(x, BarSeconds) * BarSeconds < x + BarSeconds
  BY ConstantsAre DEF Ceil
<1> QED BY <1>2, <1>3

\* The newest bar is less than a bar behind the feed.
LEMMA NewestBounds ==
    ASSUME ClockOK
    PROVE  Newest \in Int /\ OnGrid(Newest) /\ Newest > now - Delay - BarSeconds
<1>1. now - Delay \in Int /\ now \in Int
  BY ConstantsAre DEF ClockOK
<1>2. (now - Delay) \div BarSeconds \in Int
  BY <1>1, ConstantsAre
<1>3. ((now - Delay) \div BarSeconds) * BarSeconds > now - Delay - BarSeconds
  BY <1>1, ConstantsAre
<1> QED BY <1>2, <1>3, MultipleOnGrid, NewestIs DEF Newest

\* Pieces that follow each other, and parts of a piece.
LEMMA CoversChain ==
    ASSUME NEW a \in Int, NEW z \in Int, NEW y \in Int, Covers(a, z), Covers(z, y) \/ y <= z
    PROVE  Covers(a, y)
BY DEF Covers

\* Nothing that was there is lost.
LEMMA CoversStays ==
    ASSUME NEW a \in Int, NEW z \in Int, Covers(a, z),
           arrived \cup skipped \subseteq arrived' \cup skipped'
    PROVE  Covers(a, z)'
BY DEF Covers

----------------------------------------------------------------------------
(* The tails reach back to what there is.                                  *)

\* What the code takes a duration for is no less than what IBKR serves.
LEMMA ParseCovers ==
    ASSUME OutlastsRuntime, NEW d \in Durations, d.unit # "M"
    PROVE  Parse(d) >= Served(d) /\ Served(d) \in Int /\ Parse(d) \in Int
<1>1. d \in Windows /\ d.amount \in Nat \ {0} /\ d.unit \in DOMAIN UnitSeconds
  <2>1. Durations \subseteq [amount : Nat \ {0}, unit : DOMAIN UnitSeconds]
    BY ConstantAssumption
  <2> QED BY <2>1, DurationIs
<1>2. UnitSeconds[d.unit] \in Int /\ IntervalUnits[d.unit] \in Int
  <2>1. /\ UnitSeconds \in [DOMAIN UnitSeconds -> Nat \ {0}]
        /\ IntervalUnits \in [DOMAIN UnitSeconds -> Nat \ {0}]
    BY ConstantAssumption
  <2> QED BY <1>1, <2>1
<1>3. IntervalUnits[d.unit] >= UnitSeconds[d.unit]
  BY <1>1 DEF OutlastsRuntime
<1>4. d.amount * IntervalUnits[d.unit] >= d.amount * UnitSeconds[d.unit]
  BY <1>1, <1>2, <1>3
<1>5. Parse(d) >= d.amount * IntervalUnits[d.unit]
  BY <1>1, <1>2 DEF Parse, Larger
<1> QED BY <1>1, <1>2, <1>4, <1>5, WindowIs DEF Served

\* A tail reaches back to the latest bar, or as far as the whole duration.
LEMMA TailReaches ==
    ASSUME ClockOK, OutlastsRuntime, duration.unit # "M"
    PROVE  /\ Served(TailDuration) \in Int /\ Served(duration) \in Int
           /\ \/ latest # NoTime /\ now - Served(TailDuration) <= latest
              \/ now - Served(TailDuration) <= now - Served(duration)
<1>1. /\ duration \in Durations /\ Parse(duration) \in Int /\ Served(duration) \in Int
      /\ Parse(duration) >= Served(duration) /\ now \in Int /\ latest \in Int
  BY ParseCovers DEF ClockOK
<1>2. CASE latest = NoTime \/ ~BarSizeParses
  BY <1>1, <1>2 DEF TailDuration
<1>3. CASE latest # NoTime /\ BarSizeParses
  <2> DEFINE uncovered == Larger(BarSeconds, now - Stamp(latest))
             whole == Ceil(uncovered, BarSeconds) * BarSeconds
             amount == Larger(BarSeconds, Smaller(Parse(duration), whole))
  <2>1. uncovered \in Int /\ uncovered >= now - latest
    BY <1>1, ConstantsAre DEF Larger, Stamp, OutlastsRuntime
  <2> HIDE DEF uncovered
  <2>2. whole \in Int /\ whole >= uncovered
    BY <2>1, CeilBounds
  <2> HIDE DEF whole
  <2>3. amount \in Int /\ (amount >= Parse(duration) \/ amount >= whole)
    BY <1>1, <2>2, ConstantsAre DEF Larger, Smaller
  <2>4. TailDuration = [amount |-> amount, unit |-> "S"]
    BY <1>3 DEF TailDuration, uncovered, whole
  <2> HIDE DEF amount
  <2>5. Served(TailDuration) = amount
    <3>1. UnitSeconds["S"] = 1
      BY ConstantAssumption
    <3> QED BY <2>3, <2>4, <3>1 DEF Served
  <2> QED BY <1>1, <1>3, <2>1, <2>2, <2>3, <2>5
<1> QED BY <1>2, <1>3

\* Before the deadline nothing is missing below the tail.
LEMMA TailIsCovered ==
    ASSUME OutlastsRuntime, IInv, HoleInv, pc = "loop", now <= Deadline,
           subscription # 0, duration.unit # "M"
    PROVE  Covers(asks[subscription].first, now - Served(TailDuration))
<1>1. /\ subscription \in 1 .. Len(asks) /\ asks[subscription] \in Requests
      /\ asks[subscription].answered
  BY DEF IInv, AsksOK, HoleInv, TailsInv
<1>2. asks[subscription].first \in Int /\ asks[subscription].next \in Int
  BY <1>1 DEF Requests
<1>3. now \in Int /\ latest \in Int /\ duration \in Durations
  BY DEF IInv, ClockOK
<1>4. Served(TailDuration) \in Int /\ Served(duration) \in Int
  BY TailReaches DEF IInv
<1>5. CASE latest # NoTime /\ now - Served(TailDuration) <= latest
  <2>1. Covers(asks[subscription].first, latest)
    BY <1>5 DEF HoleInv, TailsInv, GridInv
  <2> QED BY <1>2, <1>3, <1>4, <1>5, <2>1, CoversChain
<1>6. CASE now - Served(TailDuration) <= now - Served(duration)
  <2>1. Covers(asks[subscription].first, asks[subscription].next)
    BY <1>1 DEF HoleInv, SegmentsInv
  <2>2. asks[subscription].next > Start - Delay - BarSeconds
    BY <1>1 DEF HoleInv, SegmentsInv
  <2>3. Served(duration) >= Runtime + Delay + BarSeconds
    BY <1>3 DEF OutlastsRuntime
  <2>4. now - Served(TailDuration) <= asks[subscription].next
    BY <1>2, <1>3, <1>4, <1>6, <2>2, <2>3, ConstantsAre DEF Deadline
  <2> QED BY <1>2, <1>3, <1>4, <2>1, <2>4, CoversChain
<1> QED BY <1>5, <1>6, TailReaches DEF IInv

----------------------------------------------------------------------------
(* The steps.                                                              *)

\* What the requests are made of.
LEMMA AsksAre ==
    ASSUME AsksOK, NEW r \in 1 .. Len(asks)
    PROVE  /\ asks[r] \in Requests /\ asks[r].first \in Int /\ asks[r].next \in Int
           /\ asks[r].answered \in BOOLEAN
<1>1. asks[r] \in Requests
  BY DEF AsksOK
<1> QED BY <1>1 DEF Requests

\* Steps that bring no bar, ask for nothing and do not stop to look.
LEMMA HolesStay ==
    ASSUME IInv, HoleInv, UNCHANGED <<now, duration, latest, arrived, skipped>>,
           UNCHANGED <<subscription, current, window>>, Len(asks') = Len(asks),
           \A r \in 1 .. Len(asks) :
               /\ asks'[r].first = asks[r].first /\ asks'[r].next = asks[r].next
               /\ asks[r].answered => asks'[r].answered
               /\ asks'[r].answered => asks[r].answered \/ asks[r].next > Newest,
           pc' = pc \/ pc' \notin {"waiting", "pausing"}
    PROVE  HoleInv'
<1>1. GridInv'
  BY DEF HoleInv, GridInv, OnGrid
<1>2. \A r \in 1 .. Len(asks) : asks[r].next \in Int
  BY AsksAre DEF IInv
<1>3. Newest \in Int /\ Newest > Start - Delay - BarSeconds
  BY NewestBounds, ConstantsAre DEF IInv, ClockOK, HoleInv, GridInv
<1>4. SegmentsInv'
  BY <1>2, <1>3, ConstantsAre DEF HoleInv, SegmentsInv, Covers
<1>5. pc' = "waiting" => current \in 1 .. Len(asks)
  BY DEF IInv, AsksOK, LiveInv
<1>6. FirstInv'
  BY <1>5 DEF HoleInv, FirstInv, Served
<1>7. subscription # 0 => subscription \in 1 .. Len(asks)
  BY DEF IInv, AsksOK
<1>8. TailsInv'
  BY <1>7 DEF HoleInv, TailsInv, Covers, Served
<1> QED BY <1>1, <1>4, <1>6, <1>8 DEF HoleInv

\* Bars arrive, or are passed over, from a request's next bar up to one.
LEMMA BarsFill ==
    ASSUME IInv, HoleInv, NEW r \in 1 .. Len(asks), NEW bar \in Int, OnGrid(bar),
           asks' = [asks EXCEPT ![r].next = bar + BarSeconds],
           bar >= asks[r].next - BarSeconds,
           arrived \subseteq arrived', skipped \subseteq skipped', bar \in arrived',
           \A c \in arrived' \ arrived : c \in Int /\ OnGrid(c) /\ c <= bar,
           \A b \in asks[r].next .. bar : OnGrid(b) => b \in arrived' \cup skipped',
           latest' \in {latest, bar},
           UNCHANGED <<now, duration, main_vars>>
    PROVE  HoleInv'
<1> DEFINE q == [asks[r] EXCEPT !.next = bar + BarSeconds]
<1>1. \A i \in 1 .. Len(asks) :
          asks[i] \in Requests /\ asks[i].first \in Int /\ asks[i].next \in Int
  BY AsksAre DEF IInv
<1>2. /\ q \in Requests /\ q.first = asks[r].first /\ q.next = bar + BarSeconds
      /\ q.answered = asks[r].answered
  <2>1. asks[r] \in Requests /\ bar + BarSeconds \in Int
    BY <1>1, BarSecondsIs
  <2> QED BY <2>1, SMTT(30) DEF Requests
<1>3. asks' = [asks EXCEPT ![r] = q]
  OBVIOUS
<1> HIDE DEF q
<1>4. /\ Len(asks') = Len(asks)
      /\ \A i \in 1 .. Len(asks) : asks'[i] = IF i = r THEN q ELSE asks[i]
  <2>1. asks \in Seq(Requests)
    BY DEF IInv, AsksOK
  <2> QED BY <1>2, <1>3, <2>1, Replaced
<1>5. /\ asks'[r].next = bar + BarSeconds
      /\ \A i \in 1 .. Len(asks) :
             /\ asks'[i].first = asks[i].first /\ asks'[i].answered = asks[i].answered
             /\ i # r => asks'[i].next = asks[i].next
  BY <1>2, <1>4
<1>6. OnGrid(bar + BarSeconds)
  BY NextOnGrid
<1>7. GridInv'
  BY <1>4, <1>5, <1>6 DEF HoleInv, GridInv, OnGrid
<1>8. arrived \cup skipped \subseteq arrived' \cup skipped'
  OBVIOUS
<1>9. \A b \in asks[r].next .. bar + BarSeconds - 1 :
          OnGrid(b) => b \in arrived' \cup skipped'
  <2> SUFFICES ASSUME NEW b \in asks[r].next .. bar + BarSeconds - 1, OnGrid(b)
               PROVE  b \in arrived' \cup skipped'
    OBVIOUS
  <2>1. b \in Int /\ b < bar + BarSeconds /\ asks[r].next <= b
    BY <1>1, BarSecondsIs
  <2> QED BY <1>1, <2>1, BarsApart
<1>10. \A i \in 1 .. Len(asks) : Covers(asks[i].first, asks[i].next)'
  <2> SUFFICES ASSUME NEW i \in 1 .. Len(asks)
               PROVE  Covers(asks[i].first, asks[i].next)'
    OBVIOUS
  <2>1. \A b \in asks[i].first .. asks[i].next - 1 :
            OnGrid(b) => b \in arrived' \cup skipped'
    BY <1>8 DEF HoleInv, SegmentsInv, Covers
  <2>2. CASE i # r
    BY <1>5, <2>1, <2>2 DEF Covers
  <2>3. CASE i = r
    <3>1. asks'[i].first = asks[r].first /\ asks'[i].next = bar + BarSeconds
      BY <1>5, <2>3
    <3>2. ASSUME NEW b \in asks'[i].first .. asks'[i].next - 1, OnGrid(b)
          PROVE  b \in arrived' \cup skipped'
      <4>1. b < asks[r].next \/ b >= asks[r].next
        BY <1>1
      <4> QED BY <1>1, <1>9, <2>1, <2>3, <3>1, <3>2, <4>1, BarSecondsIs
    <3> QED BY <3>2 DEF Covers
  <2> QED BY <2>2, <2>3
<1>11. \A i \in 1 .. Len(asks) :
           asks'[i].next >= asks[i].next /\ asks'[i].next \in Int
  <2>1. bar + BarSeconds >= asks[r].next /\ bar + BarSeconds \in Int
    BY <1>1, BarSecondsIs
  <2> QED BY <1>1, <1>5, <2>1
<1>12. \A c \in arrived' : \E i \in 1 .. Len(asks) : c < asks'[i].next
  <2> SUFFICES ASSUME NEW c \in arrived'
               PROVE  \E i \in 1 .. Len(asks) : c < asks'[i].next
    OBVIOUS
  <2>1. CASE c \in arrived
    <3>1. c \in Int /\ \E i \in 1 .. Len(asks) : c < asks[i].next
      BY <2>1 DEF HoleInv, SegmentsInv, GridInv
    <3> QED BY <1>1, <1>11, <3>1
  <2>2. CASE c \notin arrived
    <3>1. c \in Int /\ c < bar + BarSeconds
      BY <2>2, BarSecondsIs
    <3> QED BY <1>5, <3>1
  <2> QED BY <2>1, <2>2
<1>13. SegmentsInv'
  <2>1. \A i \in 1 .. Len(asks) :
            asks'[i].answered => asks'[i].next > Start - Delay - BarSeconds
    <3> SUFFICES ASSUME NEW i \in 1 .. Len(asks), asks'[i].answered
                 PROVE  asks'[i].next > Start - Delay - BarSeconds
      OBVIOUS
    <3>1. asks[i].next > Start - Delay - BarSeconds
      BY <1>5 DEF HoleInv, SegmentsInv
    <3>2. Start - Delay - BarSeconds \in Int
      BY ConstantsAre
    <3> QED BY <1>1, <1>11, <3>1, <3>2
  <2> QED BY <1>4, <1>10, <1>12, <2>1 DEF SegmentsInv
<1>14. FirstInv'
  <2>1. pc = "waiting" => current \in 1 .. Len(asks)
    BY DEF IInv, AsksOK, LiveInv
  <2> QED BY <1>4, <1>5, <2>1 DEF HoleInv, FirstInv, Served, main_vars
<1>15. ASSUME subscription # 0, duration.unit # "M"
       PROVE  TailsInv'
  <2> DEFINE first == asks[subscription].first
  <2>1. /\ subscription \in 1 .. Len(asks) /\ first \in Int
        /\ asks'[subscription].first = first /\ asks'[subscription].answered
        /\ UNCHANGED <<subscription, duration, pc, now, window>>
    BY <1>1, <1>5, <1>15 DEF IInv, AsksOK, HoleInv, TailsInv, main_vars
  <2>2. Covers(first, asks[r].first) /\ Covers(asks[r].first, asks[r].next)
    BY <1>15 DEF HoleInv, TailsInv, SegmentsInv
  <2>3. \A i \in 1 .. Len(asks) : Covers(first, asks[i].first)
    BY <1>15 DEF HoleInv, TailsInv
  <2>4. pc = "pausing" => Covers(first, now - Served(window))
    BY <1>15 DEF HoleInv, TailsInv
  <2>5. \A c \in arrived : Covers(first, c)
    BY <1>15 DEF HoleInv, TailsInv
  <2> HIDE DEF first
  <2>6. \A b \in first .. bar + BarSeconds - 1 : OnGrid(b) => b \in arrived' \cup skipped'
    <3> SUFFICES ASSUME NEW b \in first .. bar + BarSeconds - 1, OnGrid(b)
                 PROVE  b \in arrived' \cup skipped'
      OBVIOUS
    <3>1. b \in Int /\ first <= b /\ b < bar + BarSeconds
      BY <2>1, BarSecondsIs
    <3>2. CASE b < asks[r].first
      BY <1>1, <1>8, <2>1, <2>2, <3>1, <3>2 DEF Covers
    <3>3. CASE asks[r].first <= b /\ b < asks[r].next
      BY <1>1, <1>8, <2>2, <3>1, <3>3 DEF Covers
    <3>4. CASE asks[r].next <= b
      BY <1>1, <1>9, <3>1, <3>4, BarSecondsIs
    <3> QED BY <1>1, <3>1, <3>2, <3>3, <3>4
  <2>7. \A c \in arrived' : \A b \in first .. c - 1 : OnGrid(b) => b \in arrived' \cup skipped'
    <3> SUFFICES ASSUME NEW c \in arrived'
                 PROVE  \A b \in first .. c - 1 : OnGrid(b) => b \in arrived' \cup skipped'
      OBVIOUS
    <3>1. CASE c \in arrived
      BY <1>8, <2>5, <3>1 DEF Covers
    <3>2. CASE c \notin arrived
      <4>1. c \in Int /\ c <= bar
        BY <3>2
      <4> QED BY <2>1, <2>6, <4>1, BarSecondsIs
    <3> QED BY <3>1, <3>2
  <2>8. \A i \in 1 .. Len(asks) :
            \A b \in first .. asks[i].first - 1 : OnGrid(b) => b \in arrived' \cup skipped'
    BY <1>8, <2>3 DEF Covers
  <2>9. pc = "pausing" =>
            \A b \in first .. now - Served(window) - 1 :
                OnGrid(b) => b \in arrived' \cup skipped'
    BY <1>8, <2>4 DEF Covers
  <2> QED BY <1>4, <1>5, <2>1, <2>7, <2>8, <2>9 DEF TailsInv, Covers, Served
<1> QED BY <1>7, <1>13, <1>14, <1>15 DEF HoleInv, TailsInv, main_vars

\* historicalData brings all the bars up to one.
LEMMA BarsArriveFill ==
    ASSUME IInv, HoleInv, NEW r \in 1 .. Len(asks), NEW bar \in asks[r].next .. LastBar(r),
           BarsArrive(r, bar)
    PROVE  HoleInv'
<1>1. asks[r].next \in Int /\ bar \in Int /\ bar >= asks[r].next - BarSeconds /\ OnGrid(bar)
  BY AsksAre, BarSecondsIs DEF IInv, BarsArrive, OnGrid
<1>2. /\ arrived' = arrived \cup {b \in asks[r].next .. bar : OnGrid(b)}
      /\ UNCHANGED <<now, duration, skipped, main_vars>>
      /\ asks' = [asks EXCEPT ![r].next = bar + BarSeconds]
  BY DEF BarsArrive, OnGrid
<1>3. latest' \in {latest, bar}
  BY DEF BarsArrive, Track, Larger
<1>4. bar \in arrived' /\ \A c \in arrived' \ arrived : c \in Int /\ OnGrid(c) /\ c <= bar
  BY <1>1, <1>2
<1>5. \A b \in asks[r].next .. bar : OnGrid(b) => b \in arrived' \cup skipped'
  BY <1>2
<1> QED BY <1>1, <1>2, <1>3, <1>4, <1>5, BarsFill

\* An update passes over what it does not bring.
LEMMA UpdateArrivesFill ==
    ASSUME IInv, HoleInv, NEW r \in 1 .. Len(asks), UpdateArrives(r)
    PROVE  HoleInv'
<1>1. asks[r].next \in Int /\ Newest \in Int /\ OnGrid(Newest)
  BY AsksAre, NewestBounds DEF IInv
<1>2. /\ Newest >= asks[r].next - BarSeconds
      /\ arrived' = arrived \cup {Newest}
      /\ skipped' = skipped \cup {b \in asks[r].next .. Newest - 1 : OnGrid(b)}
      /\ asks' = [asks EXCEPT ![r].next = Newest + BarSeconds]
      /\ UNCHANGED <<now, duration, main_vars>>
  BY DEF UpdateArrives, OnGrid
<1>3. latest' \in {latest, Newest}
  BY DEF UpdateArrives, Track, Larger
<1>4. PICK bar \in Int : bar = Newest
  BY <1>1
<1>5. \A b \in asks[r].next .. bar : OnGrid(b) => b \in arrived' \cup skipped'
  <2> SUFFICES ASSUME NEW b \in asks[r].next .. bar, OnGrid(b)
               PROVE  b \in arrived' \cup skipped'
    OBVIOUS
  <2>1. b = bar \/ b \in asks[r].next .. bar - 1
    BY <1>1
  <2> QED BY <1>2, <1>4, <2>1
<1>6. /\ OnGrid(bar) /\ bar >= asks[r].next - BarSeconds
      /\ asks' = [asks EXCEPT ![r].next = bar + BarSeconds]
      /\ arrived \subseteq arrived' /\ skipped \subseteq skipped' /\ bar \in arrived'
      /\ \A c \in arrived' \ arrived : c \in Int /\ OnGrid(c) /\ c <= bar
      /\ latest' \in {latest, bar}
  BY <1>1, <1>2, <1>3, <1>4
<1> QED BY <1>2, <1>5, <1>6, BarsFill

\* The end of an answer, which ends with the newest bar, an error and a
\* cancellation bring no bar.
LEMMA OthersKeepHoles ==
    ASSUME IInv, HoleInv,
           \/ \E r \in 1 .. Len(asks) :
                 EndArrives(r) \/ \E paced \in BOOLEAN : ErrorArrives(r, paced)
           \/ Cancel \/ Release
    PROVE  HoleInv'
<1> DEFINE Same(r) == /\ asks'[r].first = asks[r].first /\ asks'[r].next = asks[r].next
                      /\ asks[r].answered => asks'[r].answered
                      /\ asks'[r].answered => asks[r].answered \/ asks[r].next > Newest
<1>1. \A r \in 1 .. Len(asks) : asks[r] \in Requests
  BY AsksAre DEF IInv
<1>2. asks \in Seq(Requests)
  BY DEF IInv, AsksOK
<1>3. ASSUME NEW r \in 1 .. Len(asks), EndArrives(r)
      PROVE  HoleInv'
  <2> DEFINE q == [asks[r] EXCEPT !.answered = TRUE, !.live = asks[r].keepUp]
  <2>1. /\ q \in Requests /\ q.first = asks[r].first /\ q.next = asks[r].next
        /\ asks' = [asks EXCEPT ![r] = q] /\ asks[r].next > Newest /\ q.answered
    BY <1>1, <1>3 DEF EndArrives, Requests
  <2> HIDE DEF q
  <2>2. Len(asks') = Len(asks) /\ \A i \in 1 .. Len(asks) : Same(i)
    BY <1>2, <2>1, Replaced
  <2>3. UNCHANGED <<now, duration, latest, arrived, skipped, subscription, current, window, pc>>
    BY <1>3 DEF EndArrives, tracker_vars, main_vars
  <2> QED BY <2>2, <2>3, HolesStay
<1>4. ASSUME NEW r \in 1 .. Len(asks), NEW paced \in BOOLEAN, ErrorArrives(r, paced)
      PROVE  HoleInv'
  <2> DEFINE q == [asks[r] EXCEPT !.live = FALSE, !.refused = TRUE]
  <2>1. /\ q \in Requests /\ q.first = asks[r].first /\ q.next = asks[r].next
        /\ asks' = [asks EXCEPT ![r] = q] /\ q.answered = asks[r].answered
    BY <1>1, <1>4 DEF ErrorArrives, Requests
  <2> HIDE DEF q
  <2>2. Len(asks') = Len(asks) /\ \A i \in 1 .. Len(asks) : Same(i)
    BY <1>2, <2>1, Replaced
  <2>3. UNCHANGED <<now, duration, latest, arrived, skipped, subscription, current, window, pc>>
    BY <1>4 DEF ErrorArrives, tracker_vars, main_vars
  <2> QED BY <2>2, <2>3, HolesStay
<1>5. CASE Cancel \/ Release
  <2>1. PICK r \in 1 .. Len(asks) : asks' = [asks EXCEPT ![r].live = FALSE]
    BY <1>5 DEF IInv, AsksOK, LiveInv, Cancel, Release
  <2> DEFINE q == [asks[r] EXCEPT !.live = FALSE]
  <2>2. /\ q \in Requests /\ q.first = asks[r].first /\ q.next = asks[r].next
        /\ asks' = [asks EXCEPT ![r] = q] /\ q.answered = asks[r].answered
    BY <1>1, <2>1 DEF Requests
  <2> HIDE DEF q
  <2>3. Len(asks') = Len(asks) /\ \A i \in 1 .. Len(asks) : Same(i)
    BY <1>2, <2>2, Replaced
  <2>4. /\ UNCHANGED <<now, duration, latest, arrived, skipped, subscription, current, window>>
        /\ pc' \in {"consuming", "done"}
    BY <1>5 DEF Cancel, Release, tracker_vars
  <2> QED BY <2>3, <2>4, HolesStay
<1> QED BY <1>3, <1>4, <1>5

\* Nor do these steps of the command.
LEMMA CommandKeepsHoles ==
    ASSUME IInv, HoleInv,
           \/ WaitTimesOut \/ BackOff \/ Unanswered \/ Retry \/ Pause \/ Resume \/ Raise
           \/ Stopped \/ ConnectionFails \/ UNCHANGED vars
    PROVE  HoleInv'
<1>1. /\ UNCHANGED <<now, duration, latest, arrived, skipped, asks>>
      /\ UNCHANGED <<subscription, current, window>>
      /\ pc' = pc \/ pc' \notin {"waiting", "pausing"}
  <2>1. CASE WaitTimesOut \/ BackOff \/ Unanswered \/ Retry
    BY <2>1 DEF WaitTimesOut, BackOff, Unanswered, Retry, GiveUp, tracker_vars
  <2>2. CASE Pause \/ Resume \/ Raise
    BY <2>2 DEF Pause, Resume, Raise, tracker_vars
  <2>3. CASE Stopped \/ ConnectionFails \/ UNCHANGED vars
    BY <2>3 DEF Stopped, ConnectionFails, vars, tracker_vars, main_vars
  <2> QED BY <2>1, <2>2, <2>3
<1> QED BY <1>1, HolesStay

\* The answer makes the first request the subscription, which begins no
\* earlier than those before it.
LEMMA AnsweredKeepsHoles ==
    ASSUME IInv, HoleInv, Answered
    PROVE  HoleInv'
<1>1. /\ UNCHANGED <<now, duration, latest, arrived, skipped, asks, current, window>>
      /\ pc' = "loop" /\ pc = "waiting" /\ asks[current].answered
      /\ subscription' = IF subscription = 0 THEN current ELSE subscription
      /\ current \in 1 .. Len(asks)
  BY DEF Answered, tracker_vars, IInv, AsksOK, LiveInv
<1>2. GridInv' /\ SegmentsInv'
  BY <1>1 DEF HoleInv, GridInv, SegmentsInv, Covers, OnGrid
<1>3. FirstInv' /\ subscription' # 0
  BY <1>1 DEF HoleInv, FirstInv, IInv, AsksOK
<1>4. CASE subscription # 0
  BY <1>1, <1>2, <1>3, <1>4 DEF HoleInv, TailsInv, Covers
<1>5. CASE subscription = 0
  <2>1. \A r \in 1 .. Len(asks) : /\ asks[r].first \in Int /\ asks[r].next \in Int
                                  /\ asks[r].first <= asks[current].first
    BY <1>1, <1>5, AsksAre DEF HoleInv, FirstInv, IInv
  <2>2. \A r \in 1 .. Len(asks) : Covers(asks[current].first, asks[r].first)
    BY <1>1, <2>1 DEF Covers
  <2>3. \A c \in arrived : Covers(asks[current].first, c)
    <3> SUFFICES ASSUME NEW c \in arrived, NEW b \in asks[current].first .. c - 1, OnGrid(b)
                 PROVE  b \in arrived \cup skipped
      BY DEF Covers
    <3>1. PICK r \in 1 .. Len(asks) : c < asks[r].next
      BY DEF HoleInv, SegmentsInv
    <3>2. c \in Int /\ b \in asks[r].first .. asks[r].next - 1
      BY <1>1, <2>1, <3>1 DEF HoleInv, GridInv
    <3> QED BY <3>2 DEF HoleInv, SegmentsInv, Covers
  <2>4. TailsInv'
    BY <1>1, <1>5, <2>2, <2>3 DEF TailsInv, Covers
  <2> QED BY <1>2, <1>3, <2>4 DEF HoleInv
<1> QED BY <1>4, <1>5

\* A request begins on the grid, less than a bar after what is asked for.
LEMMA RequestBounds ==
    ASSUME ClockOK, NEW w \in Windows, NEW keepUp \in BOOLEAN
    PROVE  LET q == Request(w, keepUp)
           IN  /\ q \in Requests /\ q.first \in Int /\ q.next = q.first /\ OnGrid(q.first)
               /\ Served(w) \in Int /\ now - Served(w) <= q.first
               /\ q.first < now - Served(w) + BarSeconds /\ ~q.answered
<1>1. now - Served(w) \in Int /\ Served(w) \in Int
  BY WindowIs DEF ClockOK
<1>2. Request(w, keepUp) \in Requests
  BY RequestIs
<1>3. /\ Request(w, keepUp).first = Ceil(now - Served(w), BarSeconds) * BarSeconds
      /\ Request(w, keepUp).next = Ceil(now - Served(w), BarSeconds) * BarSeconds
      /\ ~Request(w, keepUp).answered
  BY DEF Request
<1> QED BY <1>1, <1>2, <1>3, CeilBounds

\* A request that is made has brought nothing yet.
LEMMA AskKeepsHoles ==
    ASSUME IInv, HoleInv, AskFirst \/ Refresh
    PROVE  HoleInv'
<1>1. PICK w \in Windows, keepUp \in BOOLEAN :
          /\ Ask(w, keepUp)
          /\ AskFirst => w = duration
          /\ Refresh => w = window
  BY DurationIs DEF IInv, ClockOK, AskFirst, Refresh
<1>2. PICK q \in Requests : q = Request(w, keepUp)
  BY RequestIs DEF IInv
<1>3. /\ q.first \in Int /\ q.next = q.first /\ OnGrid(q.first) /\ Served(w) \in Int
      /\ now - Served(w) <= q.first /\ q.first < now - Served(w) + BarSeconds /\ ~q.answered
  BY <1>2, RequestBounds DEF IInv
<1>4. /\ UNCHANGED <<now, duration, latest, arrived, skipped, subscription, window>>
      /\ pc' = "waiting" /\ asks' = Append(asks, q) /\ current' = Len(asks) + 1
      /\ pc \in {"first", "pausing"} /\ (pc = "first" <=> AskFirst) /\ (pc = "pausing" <=> Refresh)
  BY <1>1, <1>2 DEF AskFirst, Refresh, Ask, tracker_vars
<1>5. /\ Len(asks) \in Nat /\ Len(asks') = Len(asks) + 1 /\ asks'[Len(asks) + 1] = q
      /\ \A i \in 1 .. Len(asks) : asks'[i] = asks[i]
      /\ \A i \in 1 .. Len(asks') : i = Len(asks) + 1 \/ i \in 1 .. Len(asks)
  BY <1>4 DEF IInv, AsksOK
<1>6. GridInv'
  BY <1>3, <1>4, <1>5 DEF HoleInv, GridInv, OnGrid
<1>7. SegmentsInv'
  <2>1. Covers(q.first, q.next)'
    BY <1>3 DEF Covers
  <2>2. \A c \in arrived : \E r \in 1 .. Len(asks) : c < asks[r].next
    BY DEF HoleInv, SegmentsInv
  <2>3. \A c \in arrived' : \E r \in 1 .. Len(asks') : c < asks'[r].next
    BY <1>4, <1>5, <2>2
  <2> QED BY <1>3, <1>4, <1>5, <2>1, <2>3 DEF HoleInv, SegmentsInv, Covers
<1>8. FirstInv'
  <2> SUFFICES ASSUME subscription = 0
               PROVE  FirstInv'
    BY <1>4 DEF FirstInv
  <2>1. w = duration
    BY <1>1, <1>4 DEF IInv, LiveInv
  <2>2. \A i \in 1 .. Len(asks) : asks[i].first <= q.first
    <3> SUFFICES ASSUME NEW i \in 1 .. Len(asks)
                 PROVE  asks[i].first <= q.first
      OBVIOUS
    <3>1. asks[i].first \in Int /\ OnGrid(asks[i].first) /\ now \in Int
      BY AsksAre DEF IInv, ClockOK, HoleInv, GridInv
    <3>2. asks[i].first < now - Served(w) + BarSeconds
      BY <2>1 DEF HoleInv, FirstInv
    <3> QED BY <1>3, <3>1, <3>2, BarSecondsIs, BarsApart
  <2>3. \A i \in 1 .. Len(asks) : asks[i].first < now - Served(duration) + BarSeconds
    BY DEF HoleInv, FirstInv
  <2>4. \A i \in 1 .. Len(asks') : asks'[i].first < now - Served(duration) + BarSeconds
    BY <1>3, <1>5, <2>1, <2>3
  <2>5. \A i \in 1 .. Len(asks') : asks'[i].first <= asks'[Len(asks) + 1].first
    BY <1>3, <1>5, <2>2
  <2> QED BY <1>4, <2>4, <2>5 DEF FirstInv, Served
<1>9. TailsInv'
  <2> SUFFICES ASSUME subscription # 0, duration.unit # "M"
               PROVE  TailsInv'
    BY <1>4 DEF TailsInv
  <2> DEFINE first == asks[subscription].first
  <2>1. /\ subscription \in 1 .. Len(asks) /\ first \in Int
        /\ asks'[subscription] = asks[subscription]
        /\ asks[subscription].answered
    BY <1>5, AsksAre DEF IInv, AsksOK, HoleInv, TailsInv
  <2>2. w = window /\ pc = "pausing"
    BY <1>1, <1>4, <2>1 DEF IInv, LiveInv, AsksOK
  <2>3. Covers(first, now - Served(w))
    BY <2>2 DEF HoleInv, TailsInv
  <2>4. Covers(first, q.first)
    <3> SUFFICES ASSUME NEW b \in first .. q.first - 1, OnGrid(b)
                 PROVE  b \in arrived \cup skipped
      BY DEF Covers
    <3>1. b \in Int /\ first <= b /\ now - Served(w) \in Int
      BY <1>3, <2>1 DEF IInv, ClockOK
    <3>2. b < now - Served(w)
      <4> SUFFICES ASSUME b >= now - Served(w)
                   PROVE  FALSE
        BY <3>1
      <4>1. q.first < b + BarSeconds
        BY <1>3, <3>1, BarSecondsIs
      <4>2. q.first <= b
        BY <1>3, <3>1, <4>1, BarsApart
      <4> QED BY <1>3, <2>1, <4>2
    <3> QED BY <2>1, <2>3, <3>1, <3>2 DEF Covers
  <2>5. \A i \in 1 .. Len(asks) : Covers(first, asks[i].first)
    BY DEF HoleInv, TailsInv
  <2>6. \A c \in arrived : Covers(first, c)
    BY DEF HoleInv, TailsInv
  <2> HIDE DEF first
  <2>7. \A i \in 1 .. Len(asks') : Covers(first, asks'[i].first)
    BY <1>5, <2>4, <2>5
  <2> QED BY <1>4, <1>5, <2>1, <2>6, <2>7 DEF TailsInv, Covers, first
<1> QED BY <1>6, <1>7, <1>8, <1>9 DEF HoleInv

\* Before the deadline the loop sets a tail that reaches back to what there is.
LEMMA LoopKeepsHoles ==
    ASSUME OutlastsRuntime, IInv, HoleInv, Loop
    PROVE  HoleInv'
<1>1. /\ UNCHANGED <<now, duration, latest, arrived, skipped, asks, subscription, current>>
      /\ pc = "loop"
  BY DEF Loop, tracker_vars
<1>2. CASE Expired
  <2>1. pc' \in {"done", "releasing"} /\ window' = window
    BY <1>2 DEF Loop, GiveUp
  <2> QED BY <1>1, <2>1, HolesStay
<1>3. CASE ~Expired
  <2>1. pc' = "pausing" /\ window' = TailDuration
    BY <1>3 DEF Loop
  <2>2. now <= Deadline
    BY <1>3, ConstantsAre DEF Expired, OutlastsRuntime, IInv, ClockOK
  <2>3. GridInv' /\ SegmentsInv' /\ FirstInv'
    BY <1>1, <2>1 DEF HoleInv, GridInv, SegmentsInv, FirstInv, Covers, OnGrid, Served
  <2>4. subscription # 0 /\ duration.unit # "M" =>
            Covers(asks[subscription].first, now - Served(TailDuration))
    BY <1>1, <2>2, TailIsCovered
  <2>5. TailsInv'
    BY <1>1, <2>1, <2>4 DEF HoleInv, TailsInv, Covers, Served
  <2> QED BY <2>3, <2>5 DEF HoleInv
<1> QED BY <1>2, <1>3

\* The clock does not advance while the command looks.
LEMMA TickKeepsHoles ==
    ASSUME IInv, HoleInv, Tick
    PROVE  HoleInv'
<1>1. /\ UNCHANGED <<duration, latest, arrived, skipped, asks, main_vars>>
      /\ now' = now + 1 /\ pc # "pausing" /\ now \in Nat
  BY DEF Tick, Blocked, tracker_vars, IInv, ClockOK
<1>2. GridInv'
  BY <1>1, ConstantsAre DEF HoleInv, GridInv, OnGrid
<1>3. SegmentsInv' /\ TailsInv'
  BY <1>1 DEF HoleInv, SegmentsInv, TailsInv, Covers, main_vars
<1>4. FirstInv'
  <2>1. \A r \in 1 .. Len(asks) : asks[r].first \in Int
    BY AsksAre DEF IInv
  <2>2. Served(duration) \in Int
    BY DurationIs, WindowIs DEF IInv, ClockOK
  <2>3. \A r \in 1 .. Len(asks) :
            asks[r].first < now - Served(duration) + BarSeconds =>
                asks[r].first < now' - Served(duration) + BarSeconds
    <3>1. now' = now + 1 /\ now \in Int
      BY <1>1
    <3> QED BY <2>1, <2>2, <3>1, BarSecondsIs
  <2>4. UNCHANGED <<asks, subscription, current, duration, pc>>
    BY <1>1 DEF main_vars
  <2>5. subscription = 0 =>
            \A r \in 1 .. Len(asks) : asks[r].first < now' - Served(duration) + BarSeconds
    <3>1. subscription = 0 =>
              \A r \in 1 .. Len(asks) : asks[r].first < now - Served(duration) + BarSeconds
      BY DEF HoleInv, FirstInv
    <3> QED BY <2>3, <3>1
  <2>6. subscription = 0 /\ pc = "waiting" =>
            \A r \in 1 .. Len(asks) : asks[r].first <= asks[current].first
    BY DEF HoleInv, FirstInv
  <2>7. Served(duration)' = Served(duration)
    BY <2>4 DEF Served
  <2> QED BY <2>4, <2>5, <2>6, <2>7 DEF FirstInv
<1> QED BY <1>2, <1>3, <1>4 DEF HoleInv

\* The invariant holds when the command starts, and whatever happens next.
LEMMA HolesInvariance == OutlastsRuntime /\ Spec => []HoleInv
<1> SUFFICES ASSUME OutlastsRuntime
             PROVE  Spec => []HoleInv
  OBVIOUS
<1>1. Init => HoleInv
  BY ConstantsAre DEF Init, HoleInv, GridInv, SegmentsInv, FirstInv, TailsInv
<1>2. IInv /\ HoleInv /\ [Next]_vars => HoleInv'
  <2> SUFFICES ASSUME IInv, HoleInv, [Next]_vars
               PROVE  HoleInv'
    OBVIOUS
  <2>1. CASE MainStep
    BY <2>1, AskKeepsHoles, AnsweredKeepsHoles, LoopKeepsHoles, OthersKeepHoles,
       CommandKeepsHoles DEF MainStep
  <2>2. CASE Tick
    BY <2>2, TickKeepsHoles
  <2>3. CASE Stopped \/ ConnectionFails \/ UNCHANGED vars
    BY <2>3, CommandKeepsHoles
  <2>4. ASSUME NEW r \in 1 .. Len(asks), NEW bar \in asks[r].next .. LastBar(r),
               BarsArrive(r, bar)
        PROVE  HoleInv'
    BY <2>4, BarsArriveFill
  <2>5. ASSUME NEW r \in 1 .. Len(asks), UpdateArrives(r)
        PROVE  HoleInv'
    BY <2>5, UpdateArrivesFill
  <2>6. ASSUME NEW r \in 1 .. Len(asks),
               EndArrives(r) \/ \E paced \in BOOLEAN : ErrorArrives(r, paced)
        PROVE  HoleInv'
    BY <2>6, OthersKeepHoles
  <2> QED BY <2>1, <2>2, <2>3, <2>4, <2>5, <2>6 DEF Next
<1> QED BY <1>1, <1>2, Invariance, PTL DEF Spec

\* From the first bar of the subscription on, the tails leave no hole between
\* the bars that have arrived, but for what updates passed over, for any
\* durations, poll and bar size, and however retries, late answers and a
\* stalled feed meet: if --runtime-seconds is no longer than the duration.
THEOREM NoHoleHolds == OutlastsRuntime /\ Spec => []NoHole
<1>1. IInv /\ HoleInv => NoHole
  <2> SUFFICES ASSUME IInv, HoleInv, subscription # 0, duration.unit # "M",
                      NEW b \in asks[subscription].first .. now, b % BarSeconds = 0,
                      NEW c \in arrived, b < c
               PROVE  b \in arrived \cup skipped
    BY DEF NoHole
  <2>1. Covers(asks[subscription].first, c) /\ c \in Int
    BY DEF HoleInv, TailsInv, GridInv
  <2>2. asks[subscription].first \in Int /\ now \in Int
    BY AsksAre DEF IInv, AsksOK, ClockOK
  <2> QED BY <2>1, <2>2 DEF Covers, OnGrid
<1> QED BY <1>1, HolesInvariance, Invariance, PTL
==============================================================================
