--------------------------- MODULE GatewayProofs ---------------------------
(***************************************************************************)
(* Proofs about Gateway for any streams, error codes, bounds and first     *)
(* ids: IInv is an inductive invariant, so the safety properties hold of   *)
(* every interleaving of the three threads, and the gateway implements     *)
(* Session.  IInv strengthens the properties because each of them depends  *)
(* on where the other threads are: HandshakeFirst, say, needs to know that *)
(* a thread about to set _ready_event has already recorded a failure.      *)
(***************************************************************************)
EXTENDS Gateway, TLAPS

USE ThreadsDistinct, NumberAssumption, CodeAssumption
USE DEF Threads, Callbacks, conn_vars, req_vars, main_vars

\* The socket is lost on a callback's thread: the failure it carries is not
\* recorded yet, so only the reporter's place and error change.
LEMMA StepConnectionClosed ==
  ASSUME IInv, NEW t \in Callbacks, ConnectionClosed(t) PROVE IInv'
<1>1. TypeOK'
  <2>1. pc' \in [Threads -> MainLabels \cup CallbackLabels \cup FailureLabels]
    BY DEF IInv, TypeOK, ConnectionClosed, Move, MainLabels, CallbackLabels, FailureLabels
  <2>4. err' \in [Threads -> Failures \cup {"none"}]
    BY DEF IInv, TypeOK, ConnectionClosed, Report, Emit, Failures
  <2>5. missed' \subseteq EventTypes
    BY DEF IInv, TypeOK, EventTypes, ConnectionClosed, Report, Emit
  <2>7. connected' \in BOOLEAN /\ UNCHANGED <<lock, ready, failure, lastError, req_vars, main_vars, handshake>>
    BY DEF ConnectionClosed
  <2>8. reports' \in 0 .. MaxFailures
    BY DEF IInv, TypeOK, ConnectionClosed
  <2> QED BY <2>1, <2>4, <2>5, <2>7, <2>8, ZenonT(40) DEF IInv, TypeOK
<1>2. ThreadsInv' BY SMTT(20) DEF ConnectionClosed, Report, Emit, Move, IInv,
      TypeOK, ThreadsInv, MainLabels, CallbackLabels, FailureLabels
<1>3. HandshakeInv' BY SMTT(20) DEF ConnectionClosed, Report, Emit, Move, IInv,
      TypeOK, ThreadsInv, MainLabels, CallbackLabels, FailureLabels, HandshakeInv,
      HandshakeFirst, Closing, MainAt, ClosedLabels, OpenLabels, FailureInv
<1>4. CallsInv' BY SMTT(20) DEF ConnectionClosed, Report, Emit, Move, IInv, TypeOK,
      ThreadsInv, MainLabels, CallbackLabels, FailureLabels, CallsInv, HandshakeInv,
      MainAt, OpenLabels, NoOp, Waitables, ReqIds, OrderIds
<1>5. FailureInv' BY SMTT(20) DEF ConnectionClosed, Report, Emit, Move, IInv,
      TypeOK, ThreadsInv, MainLabels, CallbackLabels, FailureLabels, FailureInv,
      Failures, Closing, MainAt, ClosedLabels
<1>6. AnswersInv' BY SMTT(20) DEF ConnectionClosed, Report, Emit, Move, IInv,
      TypeOK, ThreadsInv, MainLabels, CallbackLabels, FailureLabels, AnswersInv,
      EndIsNotLost, WaitTrueIsExplained, Closing, MainAt, ClosedLabels, OpenLabels,
      CallsInv, FailureInv
<1> QED BY <1>1, <1>2, <1>3, <1>4, <1>5, <1>6 DEF IInv

\* connect() fails: the same report, on the command's own thread.
LEMMA StepConnectFails ==
  ASSUME IInv, ConnectFails PROVE IInv'
<1>1. TypeOK'
  <2>1. pc' \in [Threads -> MainLabels \cup CallbackLabels \cup FailureLabels]
    BY DEF IInv, TypeOK, ConnectFails, Move, MainLabels, CallbackLabels, FailureLabels
  <2>4. err' \in [Threads -> Failures \cup {"none"}]
    BY DEF IInv, TypeOK, ConnectFails, Report, Emit, Failures
  <2>5. missed' \subseteq EventTypes
    BY DEF IInv, TypeOK, EventTypes, ConnectFails, Report, Emit
  <2> QED BY <2>1, <2>4, <2>5 DEF IInv, TypeOK, ConnectFails
<1>2. ThreadsInv' BY SMTT(20) DEF ConnectFails, Report, Emit, Move, IInv, TypeOK,
      ThreadsInv, MainLabels, CallbackLabels, FailureLabels
<1>3. HandshakeInv' BY SMTT(20) DEF ConnectFails, Report, Emit, Move, IInv, TypeOK,
      ThreadsInv, MainLabels, CallbackLabels, FailureLabels, HandshakeInv,
      HandshakeFirst, Closing, MainAt, ClosedLabels, OpenLabels, FailureInv
<1>4. CallsInv' BY SMTT(20) DEF ConnectFails, Report, Emit, Move, IInv, TypeOK,
      ThreadsInv, MainLabels, CallbackLabels, FailureLabels, CallsInv, HandshakeInv,
      MainAt, OpenLabels, NoOp, Waitables, ReqIds, OrderIds
<1>5. FailureInv' BY SMTT(20) DEF ConnectFails, Report, Emit, Move, IInv, TypeOK,
      ThreadsInv, MainLabels, CallbackLabels, FailureLabels, FailureInv, Failures,
      Closing, MainAt, ClosedLabels
<1>6. AnswersInv' BY SMTT(20) DEF ConnectFails, Report, Emit, Move, IInv, TypeOK,
      ThreadsInv, MainLabels, CallbackLabels, FailureLabels, AnswersInv,
      EndIsNotLost, WaitTrueIsExplained, Closing, MainAt, ClosedLabels, OpenLabels,
      CallsInv, FailureInv
<1> QED BY <1>1, <1>2, <1>3, <1>4, <1>5, <1>6 DEF IInv

\* The command starts a call: the ids it may take are still free.
LEMMA StepBegin ==
  ASSUME IInv, NEW kind \in Requests, NEW key \in Streams \cup {0}, Begin(kind, key) PROVE IInv'
<1>1. TypeOK'
  <2>1. pc' \in [Threads -> MainLabels \cup CallbackLabels \cup FailureLabels]
    BY DEF IInv, TypeOK, Begin, Move, MainLabels, CallbackLabels, FailureLabels
  <2>2. op' \in [kind : Kinds, key : Nat]
    BY DEF IInv, TypeOK, Begin, Kinds, Requests, NoOp, Waitables, ReqIds
  <2>7. late' \in BOOLEAN /\ UNCHANGED <<lock, conn_vars, req_vars, ret, storeOpen, completed, raised, handshake, reports, missed>>
    BY DEF Begin
  <2> QED BY <2>1, <2>2, <2>7, ZenonT(40) DEF IInv, TypeOK
<1>2. ThreadsInv' BY SMTT(20) DEF Begin, Move, IInv, TypeOK, ThreadsInv, MainLabels,
      CallbackLabels, FailureLabels
<1>3. HandshakeInv' BY SMTT(20) DEF Begin, Move, IInv, TypeOK, ThreadsInv,
      MainLabels, CallbackLabels, FailureLabels, HandshakeInv, HandshakeFirst,
      Closing, MainAt, ClosedLabels, OpenLabels, FailureInv
<1>4. CallsInv' BY SMTT(20) DEF Begin, Move, IInv, TypeOK, ThreadsInv, MainLabels,
      CallbackLabels, FailureLabels, CallsInv, HandshakeInv, MainAt, OpenLabels,
      NoOp, Waitables, ReqIds, OrderIds
<1>5. FailureInv' BY SMTT(20) DEF Begin, Move, IInv, TypeOK, ThreadsInv, MainLabels,
      CallbackLabels, FailureLabels, FailureInv, Failures, Closing, MainAt,
      ClosedLabels
<1>6. AnswersInv' BY SMTT(20) DEF Begin, Move, IInv, TypeOK, ThreadsInv, MainLabels,
      CallbackLabels, FailureLabels, AnswersInv, EndIsNotLost, WaitTrueIsExplained,
      Closing, MainAt, ClosedLabels, OpenLabels, CallsInv, FailureInv
<1> QED BY <1>1, <1>2, <1>3, <1>4, <1>5, <1>6 DEF IInv

\* The API call: the handshake has come and the id was never used, by CallsInv.
LEMMA StepSend ==
  ASSUME IInv, Send PROVE IInv'
<1>1. TypeOK'
  <2>1. pc' \in [Threads -> MainLabels \cup CallbackLabels \cup FailureLabels]
    BY DEF IInv, TypeOK, Send, Move, MainLabels, CallbackLabels, FailureLabels
  <2>6. sent' \subseteq Waitables /\ orders' \subseteq OrderIds /\ ended \subseteq sent'
    BY DEF IInv, TypeOK, CallsInv, Send, Move
  <2> QED BY <2>1, <2>6 DEF IInv, TypeOK, Send
<1>2. ThreadsInv' BY SMTT(20) DEF Send, Move, IInv, TypeOK, ThreadsInv, MainLabels,
      CallbackLabels, FailureLabels
<1>3. HandshakeInv' BY SMTT(20) DEF Send, Move, IInv, TypeOK, ThreadsInv,
      MainLabels, CallbackLabels, FailureLabels, HandshakeInv, HandshakeFirst,
      Closing, MainAt, ClosedLabels, OpenLabels, FailureInv
<1>4. CallsInv' BY SMTT(20) DEF Send, Move, IInv, TypeOK, ThreadsInv, MainLabels,
      CallbackLabels, FailureLabels, CallsInv, HandshakeInv, MainAt, OpenLabels,
      NoOp, Waitables, ReqIds, OrderIds
<1>5. FailureInv' BY SMTT(20) DEF Send, Move, IInv, TypeOK, ThreadsInv, MainLabels,
      CallbackLabels, FailureLabels, FailureInv, Failures, Closing, MainAt,
      ClosedLabels
<1>6. AnswersInv' BY SMTT(20) DEF Send, Move, IInv, TypeOK, ThreadsInv, MainLabels,
      CallbackLabels, FailureLabels, AnswersInv, EndIsNotLost, WaitTrueIsExplained,
      Closing, MainAt, ClosedLabels, OpenLabels, CallsInv, FailureInv
<1> QED BY <1>1, <1>2, <1>3, <1>4, <1>5, <1>6 DEF IInv

\* A wait begins on an Event that exists.
LEMMA StepBeginWait ==
  ASSUME IInv, NEW w \in Waitables, BeginWait(w) PROVE IInv'
<1>1. TypeOK'
  <2>1. pc' \in [Threads -> MainLabels \cup CallbackLabels \cup FailureLabels]
    BY DEF IInv, TypeOK, BeginWait, Move, MainLabels, CallbackLabels, FailureLabels
  <2>2. op' \in [kind : Kinds, key : Nat]
    BY DEF IInv, TypeOK, BeginWait, Kinds, Requests, NoOp, Waitables, ReqIds
  <2> QED BY <2>1, <2>2 DEF IInv, TypeOK, BeginWait
<1>2. ThreadsInv' BY SMTT(20) DEF BeginWait, Move, IInv, TypeOK, ThreadsInv,
      MainLabels, CallbackLabels, FailureLabels
<1>3. HandshakeInv' BY SMTT(20) DEF BeginWait, Move, IInv, TypeOK, ThreadsInv,
      MainLabels, CallbackLabels, FailureLabels, HandshakeInv, HandshakeFirst,
      Closing, MainAt, ClosedLabels, OpenLabels, FailureInv
<1>4. CallsInv' BY SMTT(20) DEF BeginWait, Move, IInv, TypeOK, ThreadsInv,
      MainLabels, CallbackLabels, FailureLabels, CallsInv, HandshakeInv, MainAt,
      OpenLabels, NoOp, Waitables, ReqIds, OrderIds
<1>5. FailureInv' BY SMTT(20) DEF BeginWait, Move, IInv, TypeOK, ThreadsInv,
      MainLabels, CallbackLabels, FailureLabels, FailureInv, Failures, Closing,
      MainAt, ClosedLabels
<1>6. AnswersInv' BY SMTT(20) DEF BeginWait, Move, IInv, TypeOK, ThreadsInv,
      MainLabels, CallbackLabels, FailureLabels, AnswersInv, EndIsNotLost,
      WaitTrueIsExplained, Closing, MainAt, ClosedLabels, OpenLabels, CallsInv,
      FailureInv
<1> QED BY <1>1, <1>2, <1>3, <1>4, <1>5, <1>6 DEF IInv

\* A wait returns at its deadline: a set Event has its End or a failure behind it.
LEMMA StepWaitDeadline ==
  ASSUME IInv, WaitDeadline PROVE IInv'
<1>1. TypeOK'
  <2>1. pc' \in [Threads -> MainLabels \cup CallbackLabels \cup FailureLabels]
    BY DEF IInv, TypeOK, WaitDeadline, Move, MainLabels, CallbackLabels, FailureLabels
  <2>2. op' \in [kind : Kinds, key : Nat]
    BY DEF IInv, TypeOK, WaitDeadline, Complete, Kinds, Requests, NoOp, Waitables, ReqIds
  <2>3. completed' \subseteq [key : Waitables, path : {"inTime", "deadline"}]
    BY DEF IInv, TypeOK, CallsInv, WaitDeadline, Complete, Move
  <2> QED BY <2>1, <2>2, <2>3, ZenonT(40) DEF IInv, TypeOK, WaitDeadline
<1>2. ThreadsInv' BY SMTT(20) DEF WaitDeadline, Complete, Move, IInv, TypeOK,
      ThreadsInv, MainLabels, CallbackLabels, FailureLabels
<1>3. HandshakeInv' BY SMTT(20) DEF WaitDeadline, Complete, Move, IInv, TypeOK,
      ThreadsInv, MainLabels, CallbackLabels, FailureLabels, HandshakeInv,
      HandshakeFirst, Closing, MainAt, ClosedLabels, OpenLabels, FailureInv
<1>4. CallsInv' BY SMTT(20) DEF WaitDeadline, Complete, Move, IInv, TypeOK,
      ThreadsInv, MainLabels, CallbackLabels, FailureLabels, CallsInv, HandshakeInv,
      MainAt, OpenLabels, NoOp, Waitables, ReqIds, OrderIds
<1>5. FailureInv' BY SMTT(20) DEF WaitDeadline, Complete, Move, IInv, TypeOK,
      ThreadsInv, MainLabels, CallbackLabels, FailureLabels, FailureInv, Failures,
      Closing, MainAt, ClosedLabels
<1>6. AnswersInv' BY SMTT(20) DEF WaitDeadline, Complete, Move, IInv, TypeOK,
      ThreadsInv, MainLabels, CallbackLabels, FailureLabels, AnswersInv,
      EndIsNotLost, WaitTrueIsExplained, Closing, MainAt, ClosedLabels, OpenLabels,
      CallsInv, FailureInv
<1> QED BY <1>1, <1>2, <1>3, <1>4, <1>5, <1>6 DEF IInv

\* A wait returns in time: no failure showed, so the set Event has its End.
LEMMA StepWaitRecheck ==
  ASSUME IInv, WaitRecheck PROVE IInv'
<1>1. TypeOK'
  <2>1. pc' \in [Threads -> MainLabels \cup CallbackLabels \cup FailureLabels]
    BY DEF IInv, TypeOK, WaitRecheck, Move, MainLabels, CallbackLabels, FailureLabels
  <2>2. op' \in [kind : Kinds, key : Nat]
    BY DEF IInv, TypeOK, WaitRecheck, Complete, Kinds, Requests, NoOp, Waitables, ReqIds
  <2>3. completed' \subseteq [key : Waitables, path : {"inTime", "deadline"}]
    BY DEF IInv, TypeOK, CallsInv, WaitRecheck, Complete, Move
  <2>7. late' \in BOOLEAN /\ UNCHANGED <<lock, conn_vars, req_vars, ret, storeOpen, raised, handshake, reports, missed>>
    BY DEF WaitRecheck
  <2> QED BY <2>1, <2>2, <2>3, <2>7, ZenonT(40) DEF IInv, TypeOK
<1>2. ThreadsInv' BY SMTT(20) DEF WaitRecheck, Complete, Move, IInv, TypeOK,
      ThreadsInv, MainLabels, CallbackLabels, FailureLabels
<1>3. HandshakeInv' BY SMTT(20) DEF WaitRecheck, Complete, Move, IInv, TypeOK,
      ThreadsInv, MainLabels, CallbackLabels, FailureLabels, HandshakeInv,
      HandshakeFirst, Closing, MainAt, ClosedLabels, OpenLabels, FailureInv
<1>4. CallsInv' BY SMTT(20) DEF WaitRecheck, Complete, Move, IInv, TypeOK,
      ThreadsInv, MainLabels, CallbackLabels, FailureLabels, CallsInv, HandshakeInv,
      MainAt, OpenLabels, NoOp, Waitables, ReqIds, OrderIds
<1>5. FailureInv' BY SMTT(20) DEF WaitRecheck, Complete, Move, IInv, TypeOK,
      ThreadsInv, MainLabels, CallbackLabels, FailureLabels, FailureInv, Failures,
      Closing, MainAt, ClosedLabels
<1>6. AnswersInv' BY SMTT(20) DEF WaitRecheck, Complete, Move, IInv, TypeOK,
      ThreadsInv, MainLabels, CallbackLabels, FailureLabels, AnswersInv,
      EndIsNotLost, WaitTrueIsExplained, Closing, MainAt, ClosedLabels, OpenLabels,
      CallsInv, FailureInv
<1> QED BY <1>1, <1>2, <1>3, <1>4, <1>5, <1>6 DEF IInv

\* A sleep begins: only the command's place and call change.
LEMMA StepBeginSleep ==
  ASSUME IInv, BeginSleep PROVE IInv'
<1>1. TypeOK'
  <2>1. pc' \in [Threads -> MainLabels \cup CallbackLabels \cup FailureLabels]
    BY DEF IInv, TypeOK, BeginSleep, Move, MainLabels, CallbackLabels, FailureLabels
  <2>2. op' \in [kind : Kinds, key : Nat]
    BY DEF IInv, TypeOK, BeginSleep, Kinds, Requests, NoOp, Waitables, ReqIds
  <2> QED BY <2>1, <2>2, ZenonT(40) DEF IInv, TypeOK, BeginSleep
<1>2. ThreadsInv' BY SMTT(20) DEF BeginSleep, Move, IInv, TypeOK, ThreadsInv,
      MainLabels, CallbackLabels, FailureLabels
<1>3. HandshakeInv' BY SMTT(20) DEF BeginSleep, Move, IInv, TypeOK, ThreadsInv,
      MainLabels, CallbackLabels, FailureLabels, HandshakeInv, HandshakeFirst,
      Closing, MainAt, ClosedLabels, OpenLabels, FailureInv
<1>4. CallsInv' BY SMTT(20) DEF BeginSleep, Move, IInv, TypeOK, ThreadsInv,
      MainLabels, CallbackLabels, FailureLabels, CallsInv, HandshakeInv, MainAt,
      OpenLabels, NoOp, Waitables, ReqIds, OrderIds
<1>5. FailureInv' BY SMTT(20) DEF BeginSleep, Move, IInv, TypeOK, ThreadsInv,
      MainLabels, CallbackLabels, FailureLabels, FailureInv, Failures, Closing,
      MainAt, ClosedLabels
<1>6. AnswersInv' BY SMTT(20) DEF BeginSleep, Move, IInv, TypeOK, ThreadsInv,
      MainLabels, CallbackLabels, FailureLabels, AnswersInv, EndIsNotLost,
      WaitTrueIsExplained, Closing, MainAt, ClosedLabels, OpenLabels, CallsInv,
      FailureInv
<1> QED BY <1>1, <1>2, <1>3, <1>4, <1>5, <1>6 DEF IInv

\* A sleep ends, at its deadline or on a failure.
LEMMA StepSleepCheck ==
  ASSUME IInv, SleepCheck PROVE IInv'
<1>1. TypeOK'
  <2>1. pc' \in [Threads -> MainLabels \cup CallbackLabels \cup FailureLabels]
    BY DEF IInv, TypeOK, SleepCheck, Move, MainLabels, CallbackLabels, FailureLabels
  <2>2. op' \in [kind : Kinds, key : Nat]
    BY DEF IInv, TypeOK, SleepCheck, Kinds, Requests, NoOp, Waitables, ReqIds
  <2> QED BY <2>1, <2>2, ZenonT(40) DEF IInv, TypeOK, SleepCheck
<1>2. ThreadsInv' BY SMTT(20) DEF SleepCheck, Move, IInv, TypeOK, ThreadsInv,
      MainLabels, CallbackLabels, FailureLabels
<1>3. HandshakeInv' BY SMTT(20) DEF SleepCheck, Move, IInv, TypeOK, ThreadsInv,
      MainLabels, CallbackLabels, FailureLabels, HandshakeInv, HandshakeFirst,
      Closing, MainAt, ClosedLabels, OpenLabels, FailureInv
<1>4. CallsInv' BY SMTT(20) DEF SleepCheck, Move, IInv, TypeOK, ThreadsInv,
      MainLabels, CallbackLabels, FailureLabels, CallsInv, HandshakeInv, MainAt,
      OpenLabels, NoOp, Waitables, ReqIds, OrderIds
<1>5. FailureInv' BY SMTT(20) DEF SleepCheck, Move, IInv, TypeOK, ThreadsInv,
      MainLabels, CallbackLabels, FailureLabels, FailureInv, Failures, Closing,
      MainAt, ClosedLabels
<1>6. AnswersInv' BY SMTT(20) DEF SleepCheck, Move, IInv, TypeOK, ThreadsInv,
      MainLabels, CallbackLabels, FailureLabels, AnswersInv, EndIsNotLost,
      WaitTrueIsExplained, Closing, MainAt, ClosedLabels, OpenLabels, CallsInv,
      FailureInv
<1> QED BY <1>1, <1>2, <1>3, <1>4, <1>5, <1>6 DEF IInv

\* The session closes: from here on _release_waiters needs no failure.
LEMMA StepCloseStore ==
  ASSUME IInv, CloseStore PROVE IInv'
<1>1. TypeOK'
  <2>1. pc' \in [Threads -> MainLabels \cup CallbackLabels \cup FailureLabels]
    BY DEF IInv, TypeOK, CloseStore, Move, MainLabels, CallbackLabels, FailureLabels
  <2>2. op' \in [kind : Kinds, key : Nat]
    BY DEF IInv, TypeOK, CloseStore, Kinds, Requests, NoOp, Waitables, ReqIds
  <2> QED BY <2>1, <2>2 DEF IInv, TypeOK, CloseStore
<1>2. ThreadsInv' BY SMTT(20) DEF CloseStore, Move, IInv, TypeOK, ThreadsInv,
      MainLabels, CallbackLabels, FailureLabels
<1>3. HandshakeInv' BY SMTT(20) DEF CloseStore, Move, IInv, TypeOK, ThreadsInv,
      MainLabels, CallbackLabels, FailureLabels, HandshakeInv, HandshakeFirst,
      Closing, MainAt, ClosedLabels, OpenLabels, FailureInv
<1>4. CallsInv' BY SMTT(20) DEF CloseStore, Move, IInv, TypeOK, ThreadsInv,
      MainLabels, CallbackLabels, FailureLabels, CallsInv, HandshakeInv, MainAt,
      OpenLabels, NoOp, Waitables, ReqIds, OrderIds
<1>5. FailureInv' BY SMTT(20) DEF CloseStore, Move, IInv, TypeOK, ThreadsInv,
      MainLabels, CallbackLabels, FailureLabels, FailureInv, Failures, Closing,
      MainAt, ClosedLabels
<1>6. AnswersInv' BY SMTT(20) DEF CloseStore, Move, IInv, TypeOK, ThreadsInv,
      MainLabels, CallbackLabels, FailureLabels, AnswersInv, EndIsNotLost,
      WaitTrueIsExplained, Closing, MainAt, ClosedLabels, OpenLabels, CallsInv,
      FailureInv
<1> QED BY <1>1, <1>2, <1>3, <1>4, <1>5, <1>6 DEF IInv

\* disconnect() reports on the command's own thread, like any other loss.
LEMMA StepDisconnect ==
  ASSUME IInv, Disconnect PROVE IInv'
<1>1. TypeOK'
  <2>1. pc' \in [Threads -> MainLabels \cup CallbackLabels \cup FailureLabels]
    BY DEF IInv, TypeOK, Disconnect, Move, MainLabels, CallbackLabels, FailureLabels
  <2>4. err' \in [Threads -> Failures \cup {"none"}]
    BY DEF IInv, TypeOK, Disconnect, Report, Emit, Failures
  <2>5. missed' \subseteq EventTypes
    BY DEF IInv, TypeOK, EventTypes, Disconnect, Report, Emit
  <2> QED BY <2>1, <2>4, <2>5 DEF IInv, TypeOK, Disconnect
<1>2. ThreadsInv' BY SMTT(20) DEF Disconnect, Report, Emit, Move, IInv, TypeOK,
      ThreadsInv, MainLabels, CallbackLabels, FailureLabels
<1>3. HandshakeInv' BY SMTT(20) DEF Disconnect, Report, Emit, Move, IInv, TypeOK,
      ThreadsInv, MainLabels, CallbackLabels, FailureLabels, HandshakeInv,
      HandshakeFirst, Closing, MainAt, ClosedLabels, OpenLabels, FailureInv
<1>4. CallsInv' BY SMTT(20) DEF Disconnect, Report, Emit, Move, IInv, TypeOK,
      ThreadsInv, MainLabels, CallbackLabels, FailureLabels, CallsInv, HandshakeInv,
      MainAt, OpenLabels, NoOp, Waitables, ReqIds, OrderIds
<1>5. FailureInv' BY SMTT(20) DEF Disconnect, Report, Emit, Move, IInv, TypeOK,
      ThreadsInv, MainLabels, CallbackLabels, FailureLabels, FailureInv, Failures,
      Closing, MainAt, ClosedLabels
<1>6. AnswersInv' BY SMTT(20) DEF Disconnect, Report, Emit, Move, IInv, TypeOK,
      ThreadsInv, MainLabels, CallbackLabels, FailureLabels, AnswersInv,
      EndIsNotLost, WaitTrueIsExplained, Closing, MainAt, ClosedLabels, OpenLabels,
      CallsInv, FailureInv
<1> QED BY <1>1, <1>2, <1>3, <1>4, <1>5, <1>6 DEF IInv

\* _set_failure and _release_waiters keep the invariant on whichever thread
\* they run: the lock makes the test of the flag and the write one thread's.
LEMMA SetFailureStep ==
  ASSUME IInv, NEW t \in Threads, SetFailure(t) PROVE IInv'
<1> USE DEF IInv, TypeOK, ThreadsInv, HandshakeInv, HandshakeFirst, CallsInv,
        FailureInv, AnswersInv, EndIsNotLost, WaitTrueIsExplained, MainLabels,
        CallbackLabels, FailureLabels, Closing, MainAt, ClosedLabels, OpenLabels,
        Failures, Kinds, Requests, Waitables, ReqIds, OrderIds, NoOp, EventTypes,
        Move
<1>1. CASE FailureAlreadySet(t)  BY <1>1, SMTT(20) DEF FailureAlreadySet, Return
<1>2. CASE FailCheck(t)  BY <1>2, SMTT(20) DEF FailCheck
<1>3. CASE FailWrite(t)  BY <1>3, SMTT(20) DEF FailWrite
<1>4. CASE FailSet(t)  BY <1>4, SMTT(20) DEF FailSet
<1>5. CASE Release(t)  BY <1>5, SMTT(20) DEF Release
<1>6. CASE ReleaseRequests(t)  BY <1>6, SMTT(20) DEF ReleaseRequests, Return
<1> HIDE DEF IInv
<1> QED BY <1>1, <1>2, <1>3, <1>4, <1>5, <1>6 DEF SetFailure

\* Every step of a callback keeps the invariant.
LEMMA CallbackStepInv ==
  ASSUME IInv, NEW u \in Callbacks, CallbackStep(u) PROVE IInv'
<1> USE DEF IInv, TypeOK, ThreadsInv, HandshakeInv, HandshakeFirst, CallsInv,
        FailureInv, AnswersInv, EndIsNotLost, WaitTrueIsExplained, MainLabels,
        CallbackLabels, FailureLabels, Closing, MainAt, ClosedLabels, OpenLabels,
        Failures, Kinds, Requests, Waitables, ReqIds, OrderIds, NoOp, EventTypes,
        Move
<1>1. CASE NextValidId  BY <1>1, SMTT(20) DEF NextValidId
<1>2. CASE ReadySet  BY <1>2, SMTT(20) DEF ReadySet
<1>3. CASE EmitReady  BY <1>3, SMTT(20) DEF EmitReady, Emit
<1>4. ASSUME NEW w \in Waitables, EndArrives(w) PROVE IInv'
  BY <1>4, SMTT(20) DEF EndArrives
<1>5. CASE EmitEnd  BY <1>5, SMTT(20) DEF EmitEnd, Emit
<1>6. CASE DataArrives  BY <1>6, SMTT(20) DEF DataArrives, Emit
<1>7. ASSUME NEW c \in Codes, ConnectionError(c) PROVE IInv'
  BY <1>7, SMTT(20) DEF ConnectionError, Report, Emit
<1>8. ASSUME NEW t \in Callbacks, ConnectionClosed(t) PROVE IInv'
  BY <1>8, StepConnectionClosed, SMTT(30)
<1>9. ASSUME NEW t \in Callbacks, ThreadExits(t) PROVE IInv'
  BY <1>9, SMTT(20) DEF ThreadExits
<1> HIDE DEF IInv
<1> QED BY SetFailureStep, <1>1, <1>2, <1>3, <1>4, <1>5, <1>6, <1>7, <1>8, <1>9 DEF
        CallbackStep

\* Every step of the command's thread keeps the invariant.
LEMMA MainStepInv ==
  ASSUME IInv, MainStep PROVE IInv'
<1> USE DEF IInv, TypeOK, ThreadsInv, HandshakeInv, HandshakeFirst, CallsInv,
        FailureInv, AnswersInv, EndIsNotLost, WaitTrueIsExplained, MainLabels,
        CallbackLabels, FailureLabels, Closing, MainAt, ClosedLabels, OpenLabels,
        Failures, Kinds, Requests, Waitables, ReqIds, OrderIds, NoOp, EventTypes,
        Move
<1>1. CASE RaiseFailure  BY <1>1, SMTT(20) DEF RaiseFailure
<1>2. CASE Connect  BY <1>2, SMTT(20) DEF Connect
<1>3. CASE ConnectFails  BY <1>3, StepConnectFails
<1>4. CASE PollCheck  BY <1>4, SMTT(20) DEF PollCheck, RaiseIfFailed
<1>5. CASE PollWait  BY <1>5, SMTT(20) DEF PollWait
<1>6. CASE PollRecheck  BY <1>6, SMTT(20) DEF PollRecheck, RaiseIfFailed
<1>7. ASSUME NEW kind \in Requests, NEW key \in Streams \cup {0}, Begin(kind, key) PROVE IInv'
  BY <1>7, StepBegin, ZenonT(40)
<1>8. CASE EnsureFailed  BY <1>8, SMTT(20) DEF EnsureFailed, RaiseIfFailed
<1>9. CASE EnsureReady  BY <1>9, SMTT(20) DEF EnsureReady
<1>10. CASE Register  BY <1>10, SMTT(20) DEF Register, Key, OrderIdAfter
<1>11. CASE Send  BY <1>11, StepSend
<1>12. CASE SendNotConnected  BY <1>12, SMTT(20) DEF SendNotConnected, Report, Emit
<1>13. CASE EmitRequest  BY <1>13, SMTT(20) DEF EmitRequest, Emit
<1>14. ASSUME NEW w \in Waitables, BeginWait(w) PROVE IInv'
  BY <1>14, StepBeginWait
<1>15. CASE WaitCheck  BY <1>15, SMTT(20) DEF WaitCheck, RaiseIfFailed
<1>16. CASE WaitDeadline  BY <1>16, StepWaitDeadline
<1>17. CASE WaitSlice  BY <1>17, SMTT(20) DEF WaitSlice
<1>18. CASE WaitRecheck  BY <1>18, StepWaitRecheck
<1>19. CASE BeginSleep  BY <1>19, StepBeginSleep
<1>20. CASE SleepCheck  BY <1>20, StepSleepCheck
<1>21. CASE CommandEnds  BY <1>21, SMTT(20) DEF CommandEnds
<1>22. CASE CloseStore  BY <1>22, StepCloseStore
<1>23. CASE Disconnect  BY <1>23, StepDisconnect
<1>24. CASE NotConnected  BY <1>24, SMTT(20) DEF NotConnected
<1>25. CASE Join  BY <1>25, SMTT(20) DEF Join
<1> HIDE DEF IInv
<1> QED BY SetFailureStep, <1>1, <1>2, <1>3, <1>4, <1>5, <1>6, <1>7, <1>8, <1>9, <1>10,
        <1>11, <1>12, <1>13, <1>14, <1>15, <1>16, <1>17, <1>18, <1>19, <1>20, <1>21,
        <1>22, <1>23, <1>24, <1>25 DEF MainStep

\* IInv holds at the start and is kept by every step.
LEMMA InitIInv == Init => IInv
<1> SUFFICES ASSUME Init PROVE IInv
  OBVIOUS
<1> USE DEF Init, MainLabels, CallbackLabels, FailureLabels
<1>1. TypeOK
  <2>1. op \in [kind : Kinds, key : Nat]  BY DEF NoOp, Kinds
  <2>2. pc \in [Threads -> MainLabels \cup CallbackLabels \cup FailureLabels]
    OBVIOUS
  <2>3. events \in [Waitables -> {"absent", "clear", "set"}]
    OBVIOUS
  <2>4. nextRequestId \in FirstRequestId .. (FirstRequestId + MaxRequests) /\ reports \in 0 .. MaxFailures
    OBVIOUS
  <2>5. completed \subseteq [key : Waitables, path : {"inTime", "deadline"}]
    OBVIOUS
  <2>6. err \in [Threads -> Failures \cup {"none"}]
    OBVIOUS
  <2> QED BY <2>1, <2>2, <2>3, <2>4, <2>5, <2>6 DEF TypeOK
<1>2. ThreadsInv  BY DEF ThreadsInv
<1>3. HandshakeInv  BY DEF HandshakeInv, HandshakeFirst, MainAt, OpenLabels
<1>4. CallsInv  BY DEF CallsInv
<1>5. FailureInv  BY DEF FailureInv
<1>6. AnswersInv  BY DEF AnswersInv, EndIsNotLost, WaitTrueIsExplained
<1> QED BY <1>1, <1>2, <1>3, <1>4, <1>5, <1>6 DEF IInv

\* A deadline changes nothing the invariant looks at.
LEMMA DeadlineStep == ASSUME IInv, DeadlinePasses PROVE IInv'
BY DEF DeadlinePasses, IInv, TypeOK, ThreadsInv, HandshakeInv, HandshakeFirst, CallsInv,
       FailureInv, AnswersInv, EndIsNotLost, WaitTrueIsExplained, Closing, MainAt

\* Nor does a step that changes nothing.
LEMMA StutterStep == ASSUME IInv, UNCHANGED vars PROVE IInv'
BY DEF vars, IInv, TypeOK, ThreadsInv, HandshakeInv, HandshakeFirst, CallsInv, FailureInv,
       AnswersInv, EndIsNotLost, WaitTrueIsExplained, Closing, MainAt

\* Every step of the session keeps the invariant.
LEMMA NextIInv == IInv /\ [Next]_vars => IInv'
<1> SUFFICES ASSUME IInv, [Next]_vars PROVE IInv'
  OBVIOUS
<1>1. CASE MainStep  BY <1>1, MainStepInv
<1>2. ASSUME NEW u \in Callbacks, CallbackStep(u) PROVE IInv'
  BY <1>2, CallbackStepInv
<1>3. CASE DeadlinePasses  BY <1>3, DeadlineStep
<1>4. CASE UNCHANGED vars  BY <1>4, StutterStep
<1> QED BY <1>1, <1>2, <1>3, <1>4 DEF Next, Done

\* Every reachable state satisfies IInv.
THEOREM Invariance == Spec => []IInv
<1>1. Init => IInv  BY InitIInv
<1>2. IInv /\ [Next]_vars => IInv'  BY NextIInv
<1> QED BY <1>1, <1>2, PTL DEF Spec

----------------------------------------------------------------------------
\* The state of the gateway stays within its types.
THEOREM TypeCorrect == Spec => []TypeOK
<1>1. IInv => TypeOK  BY DEF IInv
<1> QED BY <1>1, Invariance, PTL

\* Nothing is handed to the API before nextValidId has arrived, although
\* _release_waiters sets the same Event as nextValidId does.
THEOREM HandshakeTheorem == Spec => []HandshakeFirst
<1>1. IInv => HandshakeFirst  BY DEF IInv, HandshakeInv
<1> QED BY <1>1, Invariance, PTL

\* The failure raise_if_failed reports is recorded and final.
THEOREM ErrorTheorem == Spec => []RaisedErrorIsFinal
<1>1. IInv => RaisedErrorIsFinal  BY DEF IInv, FailureInv, RaisedErrorIsFinal
<1> QED BY <1>1, Invariance, PTL

\* The Event of an answer that has arrived is set for good.
THEOREM EndTheorem == Spec => []EndIsNotLost
<1>1. IInv => EndIsNotLost  BY DEF IInv, AnswersInv
<1> QED BY <1>1, Invariance, PTL

\* A wait that returned True before its deadline has its answer.
THEOREM WaitTheorem == Spec => []WaitTrueIsExplained
<1>1. IInv => WaitTrueIsExplained  BY DEF IInv, AnswersInv
<1> QED BY <1>1, Invariance, PTL

\* No order id reaches the API twice, for the counter is ahead of every id
\* handed out, and is read and incremented in one step.
THEOREM OrderTheorem == Spec => OrdersAreNew
<1>1. IInv /\ [Next]_vars =>
        [pc[Main] = "send" /\ pc'[Main] = "emitRequest" /\ op.kind = "order" =>
           op.key \notin orders]_vars
  BY DEF IInv, CallsInv
<1> QED BY <1>1, Invariance, PTL DEF Spec, OrdersAreNew

----------------------------------------------------------------------------
(* Refinement: which action of Session each step of the gateway is.        *)

\* A step the caller of the gateway cannot see.
Invisible ==
    UNCHANGED <<Phase, handshake, sent, ended, completed, orders, raised>>

\* Such a step leaves the variables of Session alone.
LEMMA InvisibleStutters == Invisible => UNCHANGED Promise!vars
BY DEF Invisible, Promise!vars

\* The caller sees nothing of a failure until raise_if_failed tells it.
LEMMA SetFailureInvisible ==
  ASSUME IInv, NEW t \in Threads, SetFailure(t) PROVE Invisible
<1> USE DEF Invisible, Phase, Closing, MainAt, ClosedLabels, OpenLabels, FailureLabels, IInv,
            TypeOK, Move
<1>1. CASE FailureAlreadySet(t)  BY <1>1 DEF FailureAlreadySet, Return
<1>2. CASE FailCheck(t)  BY <1>2 DEF FailCheck
<1>3. CASE FailWrite(t)  BY <1>3 DEF FailWrite
<1>4. CASE FailSet(t)  BY <1>4 DEF FailSet
<1>5. CASE Release(t)  BY <1>5 DEF Release
<1>6. CASE ReleaseRequests(t)  BY <1>6 DEF ReleaseRequests, Return
<1> QED BY <1>1, <1>2, <1>3, <1>4, <1>5, <1>6 DEF SetFailure

\* A callback accepts the session, delivers an answer, or is invisible.
LEMMA CallbackRefines ==
  ASSUME IInv, NEW u \in Callbacks, CallbackStep(u) PROVE [Promise!Next]_(Promise!vars)
<1> USE DEF Invisible, Phase, Closing, MainAt, ClosedLabels, OpenLabels, FailureLabels, IInv,
            TypeOK, Move
<1>1. CASE SetFailure(u)  BY <1>1, SetFailureInvisible, InvisibleStutters
<1>2. CASE ConnectionClosed(u)
  <2>1. Invisible  BY <1>2 DEF ConnectionClosed, Report, Emit
  <2> QED BY <2>1, InvisibleStutters
<1>3. CASE ThreadExits(u)
  <2>1. Invisible  BY <1>3 DEF ThreadExits
  <2> QED BY <2>1, InvisibleStutters
<1>4. CASE NextValidId
  <2>1. Promise!Accept  BY <1>4 DEF NextValidId, Promise!Accept
  <2> QED BY <2>1 DEF Promise!Next
<1>5. CASE ReadySet \/ EmitReady \/ EmitEnd \/ DataArrives
  <2>1. Invisible  BY <1>5 DEF ReadySet, EmitReady, EmitEnd, DataArrives, Emit
  <2> QED BY <2>1, InvisibleStutters
<1>6. ASSUME NEW w \in Waitables, EndArrives(w) PROVE [Promise!Next]_(Promise!vars)
  <2>1. Promise!Arrive(w)  BY <1>6 DEF EndArrives, Promise!Arrive
  <2> QED BY <2>1 DEF Promise!Next
<1>7. ASSUME NEW code \in Codes, ConnectionError(code) PROVE [Promise!Next]_(Promise!vars)
  <2>1. Invisible  BY <1>7 DEF ConnectionError, Report, Emit
  <2> QED BY <2>1, InvisibleStutters
<1> HIDE DEF IInv
<1> QED BY <1>1, <1>2, <1>3, <1>4, <1>5, <1>6, <1>7 DEF CallbackStep

\* A step of the command opens or closes the session, asks, places, answers,
\* tells the error, or is invisible.
LEMMA MainRefines ==
  ASSUME IInv, MainStep PROVE [Promise!Next]_(Promise!vars)
<1> USE DEF Invisible, Phase, Closing, MainAt, ClosedLabels, OpenLabels, FailureLabels, IInv,
            TypeOK, Move
<1>1. CASE SetFailure(Main)  BY <1>1, SetFailureInvisible, InvisibleStutters
<1>2. CASE RaiseFailure
  <2>1. lastError \in Failures /\ raised = "none"
    BY <1>2 DEF RaiseFailure, FailureInv
  <2>2. Promise!Tell(lastError)  BY <1>2, <2>1 DEF RaiseFailure, Promise!Tell
  <2> QED BY <2>1, <2>2 DEF Promise!Next
<1>3. CASE Connect \/ ConnectFails
  <2>1. Invisible  BY <1>3 DEF Connect, ConnectFails, Report, Emit
  <2> QED BY <2>1, InvisibleStutters
<1>4. CASE PollCheck \/ PollWait \/ EnsureFailed \/ EnsureReady \/ WaitCheck \/ CommandEnds
  <2>1. Invisible \/ Promise!Close
    BY <1>4 DEF PollCheck, PollWait, EnsureFailed, EnsureReady, WaitCheck, CommandEnds,
                RaiseIfFailed, Promise!Close
  <2> QED BY <2>1, InvisibleStutters DEF Promise!Next
<1>5. CASE PollRecheck
  <2>1. CASE failure
    <3>1. Promise!Close  BY <1>5, <2>1 DEF PollRecheck, RaiseIfFailed, Promise!Close
    <3> QED BY <3>1 DEF Promise!Next
  <2>2. CASE ~failure
    <3>1. handshake  BY <1>5, <2>2 DEF PollRecheck, RaiseIfFailed, HandshakeInv
    <3>2. Promise!Open
      BY <1>5, <2>2, <3>1 DEF PollRecheck, RaiseIfFailed, Promise!Open
    <3> QED BY <3>2 DEF Promise!Next
  <2> QED BY <2>1, <2>2
<1>6. CASE Register
  <2>1. Invisible \/ Promise!Close  BY <1>6 DEF Register, Promise!Close
  <2> QED BY <2>1, InvisibleStutters DEF Promise!Next
<1>7. CASE Send
  <2>1. CASE op.kind \in {"request", "stream"}
    <3>1. op.key \in Waitables /\ Promise!Ask(op.key)
      BY <1>7, <2>1 DEF Send, CallsInv, Promise!Ask
    <3> QED BY <3>1 DEF Promise!Next
  <2>2. CASE op.kind = "order"
    <3>1. op.key \in OrderIds /\ Promise!Place(op.key)
      BY <1>7, <2>2 DEF Send, CallsInv, Promise!Place
    <3> QED BY <3>1 DEF Promise!Next
  <2>3. CASE op.kind \notin {"request", "stream", "order"}
    <3>1. Invisible  BY <1>7, <2>3 DEF Send
    <3> QED BY <3>1, InvisibleStutters
  <2> QED BY <2>1, <2>2, <2>3
<1>8. ASSUME NEW kind \in Requests, NEW key \in Streams \cup {0}, Begin(kind, key)
      PROVE [Promise!Next]_(Promise!vars)
  <2>1. Invisible  BY <1>8 DEF Begin
  <2> QED BY <2>1, InvisibleStutters
<1>9. ASSUME NEW w \in Waitables, BeginWait(w) PROVE [Promise!Next]_(Promise!vars)
  <2>1. Invisible  BY <1>9 DEF BeginWait
  <2> QED BY <2>1, InvisibleStutters
<1>10. CASE SendNotConnected \/ EmitRequest \/ WaitSlice \/ BeginSleep
  <2>1. Invisible
    BY <1>10 DEF SendNotConnected, EmitRequest, WaitSlice, BeginSleep, Report, Emit
  <2> QED BY <2>1, InvisibleStutters
<1>11. CASE WaitDeadline
  <2>1. \A w \in Waitables : [key |-> w, path |-> "inTime"] \in completed'
                             <=> [key |-> w, path |-> "inTime"] \in completed
    BY <1>11 DEF WaitDeadline, Complete
  <2>2. UNCHANGED <<Phase, handshake, sent, ended, orders, raised>>
    BY <1>11 DEF WaitDeadline
  <2>3. UNCHANGED Promise!vars  BY <2>1, <2>2 DEF Promise!vars
  <2> QED BY <2>3
<1>12. CASE WaitRecheck
  <2>1. CASE failure
    <3>1. Promise!Close  BY <1>12, <2>1 DEF WaitRecheck, Promise!Close
    <3> QED BY <3>1 DEF Promise!Next
  <2>2. CASE ~failure
    <3>1. PICK k \in Waitables : k = op.key
      BY <1>12 DEF WaitRecheck, CallsInv
    <3>2. k \in ended  BY <1>12, <2>2, <3>1 DEF WaitRecheck, AnswersInv
    <3>3. {w \in Waitables : [key |-> w, path |-> "inTime"] \in completed}'
          = {w \in Waitables : [key |-> w, path |-> "inTime"] \in completed} \cup {k}
      BY <1>12, <2>2, <3>1 DEF WaitRecheck, Complete
    <3>4. Phase = "open" /\ UNCHANGED <<Phase, handshake, sent, ended, orders, raised>>
      BY <1>12, <2>2 DEF WaitRecheck
    <3>5. Promise!Answer(k)  BY <3>2, <3>3, <3>4 DEF Promise!Answer
    <3> QED BY <3>5 DEF Promise!Next
  <2> QED BY <2>1, <2>2
<1>13. CASE SleepCheck
  <2>1. Invisible \/ Promise!Close  BY <1>13 DEF SleepCheck, Promise!Close
  <2> QED BY <2>1, InvisibleStutters DEF Promise!Next
<1>14. CASE CloseStore \/ Disconnect \/ NotConnected \/ Join
  <2>1. Invisible  BY <1>14 DEF CloseStore, Disconnect, NotConnected, Join, Report, Emit
  <2> QED BY <2>1, InvisibleStutters
<1> HIDE DEF IInv
<1> QED BY <1>1, <1>2, <1>3, <1>4, <1>5, <1>6, <1>7, <1>8, <1>9, <1>10, <1>11, <1>12,
           <1>13, <1>14 DEF MainStep

\* Every behaviour of the gateway is one Session allows: no request before
\* the handshake or after the end, no wait answered in time without its
\* answer, one error told at most.
THEOREM Refinement == Spec => ImplementsSession
<1>1. Init => Promise!Init
  BY DEF Init, Promise!Init, Phase, Closing, MainAt, ClosedLabels, OpenLabels, FailureLabels
<1>2. IInv /\ [Next]_vars => [Promise!Next]_(Promise!vars)
  <2> SUFFICES ASSUME IInv, [Next]_vars PROVE [Promise!Next]_(Promise!vars)
    OBVIOUS
  <2>1. CASE MainStep  BY <2>1, MainRefines
  <2>2. ASSUME NEW u \in Callbacks, CallbackStep(u) PROVE [Promise!Next]_(Promise!vars)
    BY <2>2, CallbackRefines
  <2>3. CASE DeadlinePasses \/ UNCHANGED vars
    <3>1. Invisible
      BY <2>3 DEF DeadlinePasses, vars, Invisible, Phase, Closing, MainAt
    <3> QED BY <3>1, InvisibleStutters
  <2> QED BY <2>1, <2>2, <2>3 DEF Next, Done
<1> QED BY <1>1, <1>2, Invariance, PTL DEF Spec, ImplementsSession, Promise!Spec

============================================================================
