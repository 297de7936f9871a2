----------------------------- MODULE OptionStrip -----------------------------
(***************************************************************************)
(* The option-greeks-strip command (_run_option_greeks_strip_collector of  *)
(* ib_gateway_app/cli.py): it asks for an option chain, finds a spot price, *)
(* subscribes to the options around it for a while, and fills in an        *)
(* implied volatility for the options that got prices and no greeks.       *)
(*                                                                         *)
(* What IBKR answers reaches the command through the database, which the   *)
(* command reads by request id.  One session of the command follows        *)
(* another on the same database, and each numbers its requests from        *)
(* FirstRequestId.  A tick is abstracted to whether its price is positive; *)
(* a price that is positive stands for one the volatility can be solved    *)
(* for.  What contract details tell (the conId) is left out, and --symbol is *)
(* spelt as IBKR spells it.                                                 *)
(*                                                                         *)
(* Whoever finds the database locked fails: a read or an insert of the     *)
(* command raises, and the event store drops the event in hand.  A chain   *)
(* row, a tick, a bar or a computation that is dropped is as if it had not *)
(* come, which each of them may do; a request event that is dropped leaves *)
(* what follows without an instrument.                                     *)
(***************************************************************************)
EXTENDS Integers, Sequences, FiniteSets, SequencesExt

CONSTANTS
    Listed,         \* the chain rows IBKR has for each symbol
    Monthlies,      \* the expiries that are third Fridays
    Today,
    ExpiryMode,     \* --expiry-mode
    Around,         \* --strikes-around
    Rights,         \* <<"C", "P">> in the code
    Spots,          \* prices of an underlying
    NoPrice,
    Computations,   \* what IBKR may have computed of an option's greeks
    Window,         \* 50 in the code: LIMIT of _load_latest_option_quote
    FirstRequestId, \* 1000 in the code
    MaxSessions,    \* bound: sessions
    MaxRows         \* bound: ticks and greeks received, and request events dropped

ASSUME ConstantAssumption ==
    /\ {Around, Window, FirstRequestId, MaxSessions, MaxRows} \subseteq Nat
    /\ Today \in Nat /\ Spots \subseteq Nat /\ NoPrice \notin Spots
    /\ ExpiryMode \in {"weekly", "monthly", "both"}
    /\ Rights \in Seq({"C", "P"}) /\ Rights # <<>>

\* A row of a chain lists finitely many expiries and strikes.
ASSUME ListedAssumption ==
    \A s \in DOMAIN Listed : \A row \in Listed[s] :
        /\ IsFiniteSet(row.expiries) /\ row.expiries \subseteq Nat
        /\ IsFiniteSet(row.strikes) /\ row.strikes \subseteq Nat \ {0}

\* The columns of option_greeks that count; IBKR leaves out what it has not
\* computed, and the column is NULL.
Columns == {"implied_vol", "option_price", "underlying_price"}
ASSUME ComputationsAssumption == Computations \subseteq SUBSET Columns

Symbols == DOMAIN Listed
Options(symbol, expiries, strikes) ==
    [symbol : {symbol}, expiry : expiries, strike : strikes, right : Range(Rights)]
Unknown == [symbol |-> "", expiry |-> 0, strike |-> 0, right |-> ""]

VARIABLES
    session,    \* the sessions so far
    symbol,     \* --symbol of this one
    pc,         \* where the command is
    nextId,     \* the gateway's _next_request_id
    pending,    \* the requests IBKR has not answered
    answered,   \* those it has, their events set
    sent,       \* the contract of each market-data request
    contexts,   \* the market-data requests whose request event is stored
    live,       \* the subscriptions IBKR keeps
    failed,     \* the gateway's _failure_event
    snapshot,   \* chain_snapshot, and the id of its request
    spot,       \* spot_price
    todo,       \* the options the loop has not come to
    requestIds, \* request_ids
    left,       \* those the cancel or backfill loop has not come to
    chains, ticks, greeks, \* the tables, by request id; rows of the last two
                \* are in the order of their ids
    closes, quotes         \* the latest bar and tick prices of each underlying

database == <<chains, ticks, greeks, closes, quotes>>
network == <<pending, answered, sent, contexts, live>>
main == <<pc, nextId, snapshot, spot, todo, requestIds, left>>
vars == <<session, symbol, failed, main, network, database>>

Waiting == {"waitDetails", "waitChain", "waitHistory", "waitOption"}
Sleeping == {"sleepSpot", "sleep"}
Over == {"off", "done", "returned", "raised"}
Labels == Waiting \cup Sleeping \cup Over \cup
    {"askDetails", "askChain", "resolve", "askHistory", "askSpot", "emitSpot", "resolveAgain",
     "select", "next", "subscribe", "emit", "cancel", "abandon", "check", "fill"}

NoChain == [req |-> 0, expiries |-> {}, strikes |-> {}]

Init ==
    /\ session = 0 /\ symbol = "" /\ pc = "off" /\ nextId = FirstRequestId
    /\ pending = {} /\ answered = {} /\ sent = <<>> /\ contexts = {} /\ live = {}
    /\ failed = FALSE /\ snapshot = NoChain /\ spot = NoPrice
    /\ todo = <<>> /\ requestIds = <<>> /\ left = <<>>
    /\ chains = {} /\ ticks = <<>> /\ greeks = <<>>
    /\ closes = [s \in Symbols |-> NoPrice]
    /\ quotes = [s \in Symbols |-> NoPrice]

----------------------------------------------------------------------------
(* The selection of options.                                               *)

Distance(a, b) == IF a < b THEN b - a ELSE a - b

Sorted(set) ==
    [i \in 1 .. Cardinality(set) |->
        CHOOSE x \in set : Cardinality({y \in set : y <= x}) = i]

Nearest(ordered, price) ==
    CHOOSE i \in DOMAIN ordered : \A k \in DOMAIN ordered :
        \/ Distance(ordered[i], price) < Distance(ordered[k], price)
        \/ Distance(ordered[i], price) = Distance(ordered[k], price) /\ i <= k

\* Mutant: a slice that begins before the first strike is counted from the end.
StripWraps(strikes, price) ==
    LET ordered == Sorted(strikes)
        nearest == Nearest(ordered, price)
        first == nearest - Around
    IN  SubSeq(ordered, IF first < 1 THEN first + Len(ordered) ELSE first,
               Min({Len(ordered), nearest + Around}))

\* _select_strike_strip: the nearest strike, the lower of two, and Around on
\* each side of it.
StrikeStrip(strikes, price) ==
    LET ordered == Sorted(strikes)
        nearest == Nearest(ordered, price)
    IN  SubSeq(ordered, Max({1, nearest - Around}), Min({Len(ordered), nearest + Around}))

Future(expiries) == {e \in expiries : e >= Today}

\* _select_option_expiries, of at least one future expiry.
SelectedExpiries(expiries) ==
    LET weekly == Min(Future(expiries))
        monthlies == Future(expiries) \cap Monthlies
        monthly == IF monthlies = {} THEN weekly ELSE Min(monthlies)
    IN  CASE ExpiryMode = "weekly" -> <<weekly>>
          [] ExpiryMode = "monthly" -> <<monthly>>
          [] OTHER -> IF monthly = weekly THEN <<weekly>> ELSE <<weekly, monthly>>

\* The nested loops of the command over expiries, strikes and rights.
Strip(expiries, strikes) ==
    LET perExpiry == Len(strikes) * Len(Rights)
    IN  [i \in 1 .. Len(expiries) * perExpiry |->
            [symbol |-> symbol,
             expiry |-> expiries[((i - 1) \div perExpiry) + 1],
             strike |-> strikes[(((i - 1) % perExpiry) \div Len(Rights)) + 1],
             right |-> Rights[((i - 1) % Len(Rights)) + 1]]]

----------------------------------------------------------------------------
(* What the command reads of the database.                                 *)

\* _load_option_chain_snapshot: every row of the request id, of any session.
Snapshot(id) ==
    LET rows == {c \in chains : c.req = id}
    IN  [req |-> id, expiries |-> UNION {c.expiries : c \in rows},
         strikes |-> UNION {c.strikes : c \in rows}]

\* The ticks of a request id, of any session, that have an instrument, and the
\* newest Window of them.
Filed(id) == {i \in DOMAIN ticks : ticks[i].req = id /\ ticks[i].instrument # Unknown}
Recent(id) == {i \in Filed(id) : Cardinality({k \in Filed(id) : k > i}) < Window}

\* latest_by_field: the newest of them for a field, or none.
LatestOf(id, field) ==
    LET those == {i \in Recent(id) : ticks[i].field = field}
    IN  IF those = {} THEN {} ELSE {ticks[Max(those)]}

\* The instrument the quote is filed under: that of the newest tick.
QuotedInstrument(id) == ticks[Max(Recent(id))].instrument

Usable(set) == set # {} /\ \A t \in set : t.positive

\* _load_latest_option_quote: the ticks an option price is made of, a last
\* price before a bid and an ask; none if there is no price.
PriceOf(id) ==
    IF Usable(LatestOf(id, "LAST")) THEN LatestOf(id, "LAST")
    ELSE IF Usable(LatestOf(id, "BID")) /\ Usable(LatestOf(id, "ASK"))
    THEN LatestOf(id, "BID") \cup LatestOf(id, "ASK")
    ELSE {}

GreeksExist(id) == \E g \in Range(greeks) : g.req = id

----------------------------------------------------------------------------
(* The command: its sessions, and the gateway's calls in it.               *)

Start(s, given) ==
    /\ pc = "off" /\ session < MaxSessions
    /\ session' = session + 1 /\ symbol' = s
    /\ pc' = IF given THEN "askChain" ELSE "askDetails"
    /\ UNCHANGED <<nextId, snapshot, spot, todo, requestIds, left, failed, network, database>>

\* The command is over: the gateway disconnects, the process ends.
Close ==
    /\ pc \in Over \ {"off"}
    /\ pc' = "off" /\ nextId' = FirstRequestId
    /\ pending' = {} /\ answered' = {} /\ sent' = <<>> /\ contexts' = {} /\ live' = {}
    /\ failed' = FALSE /\ snapshot' = NoChain /\ spot' = NoPrice
    /\ todo' = <<>> /\ requestIds' = <<>> /\ left' = <<>>
    /\ UNCHANGED <<session, symbol, database>>

Move(at, next) == pc = at /\ pc' = next

\* The id of the last request made.
Current == nextId - 1

\* A request for one answer, which the command goes on to wait for.
Ask(at, kind, next) ==
    /\ pc = at /\ ~failed
    /\ pending' = pending \cup {[id |-> nextId, kind |-> kind]}
    /\ nextId' = nextId + 1
    /\ pc' = next
    /\ UNCHANGED <<session, symbol, failed, snapshot, spot, todo, requestIds, left,
                   answered, sent, contexts, live, database>>

AskDetails == Ask("askDetails", "details", "waitDetails")
AskChain == Ask("askChain", "chain", "waitChain")
AskHistory == Ask("askHistory", "history", "waitHistory")

\* request_contract_details of an option, whose answer is left out.
AskOption ==
    /\ todo # <<>> /\ ~failed /\ Move("next", "waitOption")
    /\ nextId' = nextId + 1
    /\ UNCHANGED <<session, symbol, failed, snapshot, spot, todo, requestIds, left,
                   network, database>>

\* reqMktData; the request event follows.
Subscribe(at, contract, next) ==
    /\ pc = at /\ ~failed
    /\ sent' = [id \in DOMAIN sent \cup {nextId} |->
                  IF id = nextId THEN contract ELSE sent[id]]
    /\ live' = live \cup {nextId}
    /\ nextId' = nextId + 1
    /\ pc' = next
    /\ UNCHANGED <<session, symbol, failed, snapshot, spot, todo, requestIds, left,
                   pending, answered, contexts, database>>

SubscribeSpot ==
    Subscribe("askSpot", [symbol |-> symbol, expiry |-> 0, strike |-> 0, right |-> ""], "emitSpot")
SubscribeOption == todo # <<>> /\ Subscribe("subscribe", Head(todo), "emit")

\* What MaxRows bounds; a request whose event is still to come counts.
Bounded ==
    Len(ticks) + Cardinality({i \in DOMAIN greeks : ~greeks[i].synthetic})
        + Cardinality(DOMAIN sent \ contexts)

\* emit_event("request.marketData"), which files what follows under its
\* contract, unless the store finds the database locked.
Announce ==
    \/ contexts' = contexts \cup {Current}
    \/ contexts' = contexts /\ Bounded <= MaxRows

EmitSpot ==
    /\ Move("emitSpot", "sleepSpot")
    /\ Announce
    /\ UNCHANGED <<session, symbol, failed, nextId, snapshot, spot, todo, requestIds, left,
                   pending, answered, sent, live, database>>

EmitOption ==
    /\ Move("emit", "next")
    /\ Announce
    /\ requestIds' = Append(requestIds, Current)
    /\ todo' = Tail(todo)
    /\ UNCHANGED <<session, symbol, failed, nextId, snapshot, spot, left,
                   pending, answered, sent, live, database>>

\* _load_underlying_con_id, once the details have ended.  It finds a conId,
\* for the row of the request itself has the conId 0, if that was stored.
DetailsCome ==
    /\ ~failed /\ Current \in answered /\ Move("waitDetails", "askChain")
    /\ UNCHANGED <<session, symbol, failed, nextId, snapshot, spot, todo, requestIds, left,
                   network, database>>

ChainComes ==
    /\ pc = "waitChain" /\ ~failed /\ Current \in answered
    /\ snapshot' = Snapshot(Current)
    /\ pc' = IF snapshot'.expiries = {} \/ snapshot'.strikes = {} THEN "raised" ELSE "resolve"
    /\ UNCHANGED <<session, symbol, failed, nextId, spot, todo, requestIds, left, network, database>>

\* Without details or a chain the command returns 1.
AnswerTimesOut ==
    /\ pc \in {"waitDetails", "waitChain"} /\ ~failed /\ Current \notin answered
    /\ pc' = "returned"
    /\ UNCHANGED <<session, symbol, failed, nextId, snapshot, spot, todo, requestIds, left,
                   network, database>>

\* _resolve_spot_price: ticks before bars, however old.
Resolve ==
    /\ pc = "resolve"
    /\ spot' = IF quotes[symbol] # NoPrice THEN quotes[symbol] ELSE closes[symbol]
    /\ pc' = IF spot' = NoPrice THEN "askHistory" ELSE "select"
    /\ UNCHANGED <<session, symbol, failed, nextId, snapshot, todo, requestIds, left, network, database>>

\* _bootstrap_spot_from_history, or its cancel after the wait timed out.
HistoryWaitEnds ==
    /\ pc = "waitHistory" /\ ~failed
    /\ spot' = IF Current \in answered THEN closes[symbol] ELSE NoPrice
    /\ pending' = {r \in pending : r.id # Current}
    /\ pc' = IF spot' = NoPrice THEN "askSpot" ELSE "select"
    /\ UNCHANGED <<session, symbol, failed, nextId, snapshot, todo, requestIds, left,
                   answered, sent, contexts, live, database>>

SpotSleepEnds ==
    /\ ~failed /\ Move("sleepSpot", "resolveAgain")
    /\ live' = live \ {Current}
    /\ UNCHANGED <<session, symbol, failed, nextId, snapshot, spot, todo, requestIds, left,
                   pending, answered, sent, contexts, database>>

ResolveAgain ==
    /\ pc = "resolveAgain"
    /\ spot' = quotes[symbol]
    /\ pc' = IF spot' = NoPrice THEN "raised" ELSE "select"
    /\ UNCHANGED <<session, symbol, failed, nextId, snapshot, todo, requestIds, left, network, database>>

Select ==
    /\ pc = "select"
    /\ IF Future(snapshot.expiries) = {}
       THEN pc' = "raised" /\ UNCHANGED todo
       ELSE /\ pc' = "next"
            /\ todo' = Strip(SelectedExpiries(snapshot.expiries), StrikeStrip(snapshot.strikes, spot))
    /\ UNCHANGED <<session, symbol, failed, nextId, snapshot, spot, requestIds, left, network, database>>

\* _qualify_option_contract goes on when the details come, and when they do not.
OptionWaitEnds ==
    /\ ~failed /\ Move("waitOption", "subscribe")
    /\ UNCHANGED <<session, symbol, failed, nextId, snapshot, spot, todo, requestIds, left,
                   network, database>>

StripIsSubscribed ==
    /\ todo = <<>> /\ Move("next", "sleep")
    /\ UNCHANGED <<session, symbol, failed, nextId, snapshot, spot, todo, requestIds, left,
                   network, database>>

SleepEnds ==
    /\ ~failed /\ Move("sleep", "cancel")
    /\ left' = requestIds
    /\ UNCHANGED <<session, symbol, failed, nextId, snapshot, spot, todo, requestIds, network, database>>

\* The ConnectionError of a call before the try statement.
Raise ==
    /\ failed
    /\ pc \in {"askDetails", "waitDetails", "askChain", "waitChain", "askHistory", "waitHistory",
               "askSpot", "sleepSpot"}
    /\ pc' = "raised"
    /\ UNCHANGED <<session, symbol, failed, nextId, snapshot, spot, todo, requestIds, left,
                   network, database>>

\* The ConnectionError of a call in it: the finally clause runs first.
RaiseInStrip ==
    /\ failed
    /\ pc \in {"waitOption", "subscribe", "sleep"} \/ (pc = "next" /\ todo # <<>>)
    /\ pc' = "abandon" /\ left' = requestIds
    /\ UNCHANGED <<session, symbol, failed, nextId, snapshot, spot, todo, requestIds, network, database>>

\* Mutant: the contract of an option is read before the try statement.
DatabaseFailsBefore ==
    /\ \/ pc \in {"waitDetails", "waitChain", "waitHistory"} /\ ~failed /\ Current \in answered
       \/ pc = "waitOption" /\ ~failed
       \/ pc \in {"resolve", "resolveAgain", "fill"}
       \/ pc = "check" /\ left # <<>>
    /\ pc' = "raised"
    /\ UNCHANGED <<session, symbol, failed, nextId, snapshot, spot, todo, requestIds, left,
                   network, database>>

\* A read or an insert of the command finds the database locked, or
\* _load_underlying_con_id no row of the request; that of a qualified option
\* is in the try statement.
DatabaseFails ==
    /\ \/ /\ \/ pc \in {"waitDetails", "waitChain", "waitHistory"} /\ ~failed /\ Current \in answered
             \/ pc \in {"resolve", "resolveAgain", "fill"}
             \/ pc = "check" /\ left # <<>>
          /\ pc' = "raised" /\ UNCHANGED left
       \/ ~failed /\ Move("waitOption", "abandon") /\ left' = requestIds
    /\ UNCHANGED <<session, symbol, failed, nextId, snapshot, spot, todo, requestIds, network, database>>

\* A cancel of the finally clause, whose exception is passed over.
CancelOne ==
    /\ pc \in {"cancel", "abandon"} /\ left # <<>>
    /\ live' = IF failed THEN live ELSE live \ {Head(left)}
    /\ left' = Tail(left)
    /\ UNCHANGED <<session, symbol, failed, pc, nextId, snapshot, spot, todo, requestIds,
                   pending, answered, sent, contexts, database>>

CancelsEnd ==
    /\ pc \in {"cancel", "abandon"} /\ left = <<>>
    /\ IF pc = "cancel" THEN pc' = "check" /\ left' = requestIds
                        ELSE pc' = "raised" /\ UNCHANGED left
    /\ UNCHANGED <<session, symbol, failed, nextId, snapshot, spot, todo, requestIds, network, database>>

\* Mutant: any greeks in the table will do.
CheckAnyGreeks ==
    /\ pc = "check" /\ left # <<>>
    /\ IF greeks # <<>> THEN left' = Tail(left) /\ UNCHANGED pc
                      ELSE pc' = "fill" /\ UNCHANGED left
    /\ UNCHANGED <<session, symbol, failed, nextId, snapshot, spot, todo, requestIds, network, database>>

\* _option_greeks_exist_for_request
Check ==
    /\ pc = "check" /\ left # <<>>
    /\ IF GreeksExist(Head(left)) THEN left' = Tail(left) /\ UNCHANGED pc
                                  ELSE pc' = "fill" /\ UNCHANGED left
    /\ UNCHANGED <<session, symbol, failed, nextId, snapshot, spot, todo, requestIds, network, database>>

Synthetic(id, price) ==
    [session |-> session, req |-> id, synthetic |-> TRUE, has |-> Columns,
     instrument |-> QuotedInstrument(id), sources |-> {t.instrument : t \in price}]

\* Mutant: the quote of the request before it.
FillFromNeighbour ==
    LET price == PriceOf(Head(left) - 2)
    IN  /\ pc = "fill"
        /\ greeks' = IF price = {} \/ Recent(Head(left)) = {} THEN greeks
                     ELSE Append(greeks, Synthetic(Head(left), price))
        /\ left' = Tail(left) /\ pc' = "check"
        /\ UNCHANGED <<session, symbol, failed, nextId, snapshot, spot, todo, requestIds, network,
                       chains, ticks, closes, quotes>>

\* _load_latest_option_quote and _insert_synthetic_option_greek.  There is no
\* volatility to solve for when the newest tick is of an underlying.
Fill ==
    LET price == PriceOf(Head(left))
    IN  /\ pc = "fill"
        /\ greeks' = IF price = {} \/ QuotedInstrument(Head(left)).strike = 0 THEN greeks
                     ELSE Append(greeks, Synthetic(Head(left), price))
        /\ left' = Tail(left) /\ pc' = "check"
        /\ UNCHANGED <<session, symbol, failed, nextId, snapshot, spot, todo, requestIds, network,
                       chains, ticks, closes, quotes>>

Finish ==
    /\ left = <<>> /\ Move("check", "done")
    /\ UNCHANGED <<session, symbol, failed, nextId, snapshot, spot, todo, requestIds, left,
                   network, database>>

----------------------------------------------------------------------------
(* IBKR's answers and the reader thread, which stores each as it comes,    *)
(* also those on their way when the request was cancelled.                 *)

Receiving == pc # "off" /\ ~failed

Answer(r) ==
    /\ pending' = pending \ {r}
    /\ answered' = answered \cup {r.id}
    /\ UNCHANGED <<session, symbol, failed, main, sent, contexts, live>>

DetailsEnd(r) ==
    /\ Receiving /\ r.kind = "details"
    /\ Answer(r)
    /\ UNCHANGED database

\* _insert_option_chain
ChainRow(r, row) ==
    /\ Receiving /\ r.kind = "chain"
    /\ chains' = chains \cup
           {[session |-> session, req |-> r.id, expiries |-> row.expiries, strikes |-> row.strikes]}
    /\ UNCHANGED <<session, symbol, failed, main, network, ticks, greeks, closes, quotes>>

ChainEnds(r) ==
    /\ Receiving /\ r.kind = "chain"
    /\ Answer(r)
    /\ UNCHANGED database

HistoryAnswered(r, price) ==
    /\ Receiving /\ r.kind = "history"
    /\ Answer(r)
    /\ closes' = IF price = NoPrice THEN closes ELSE [closes EXCEPT ![symbol] = price]
    /\ UNCHANGED <<chains, ticks, greeks, quotes>>

OfSession(rows) == {r \in rows : r.session = session}

InstrumentOf(id) == IF id \in contexts THEN sent[id] ELSE Unknown

Tick(id, field, positive) ==
    /\ Receiving /\ Bounded < MaxRows
    /\ ticks' = Append(ticks, [session |-> session, req |-> id, field |-> field,
                               positive |-> positive, instrument |-> InstrumentOf(id),
                               inTime |-> id \in live])
    /\ UNCHANGED <<session, symbol, failed, main, network, chains, greeks, closes>>

\* A last or close price of the underlying.
SpotTick(id, price) ==
    /\ sent[id].strike = 0
    /\ Tick(id, "LAST", TRUE)
    /\ quotes' = IF id \in contexts THEN [quotes EXCEPT ![symbol] = price] ELSE quotes

OptionTick(id, field, positive) ==
    /\ sent[id].strike # 0
    /\ Tick(id, field, positive)
    /\ UNCHANGED quotes

\* _insert_option_greeks
Greeks(id, has) ==
    /\ Receiving /\ sent[id].strike # 0
    /\ Bounded < MaxRows
    /\ greeks' = Append(greeks, [session |-> session, req |-> id, synthetic |-> FALSE, has |-> has,
                                 instrument |-> InstrumentOf(id), sources |-> {}])
    /\ UNCHANGED <<session, symbol, failed, main, network, chains, ticks, closes, quotes>>

\* The connection is lost.
Fail ==
    /\ pc \notin Over /\ ~failed
    /\ failed' = TRUE
    /\ UNCHANGED <<session, symbol, main, network, database>>

----------------------------------------------------------------------------
Main ==
    \/ Close
    \/ AskDetails \/ DetailsCome \/ AskChain \/ ChainComes \/ AnswerTimesOut
    \/ Resolve \/ AskHistory \/ HistoryWaitEnds
    \/ SubscribeSpot \/ EmitSpot \/ SpotSleepEnds \/ ResolveAgain
    \/ Select \/ AskOption \/ OptionWaitEnds \/ SubscribeOption \/ EmitOption
    \/ StripIsSubscribed \/ SleepEnds \/ Raise \/ RaiseInStrip \/ DatabaseFails
    \/ CancelOne \/ CancelsEnd
    \/ Check \/ Fill \/ Finish

IBKR ==
    \/ \E r \in pending :
          \/ DetailsEnd(r)
          \/ \E row \in Listed[symbol] : ChainRow(r, row)
          \/ ChainEnds(r)
          \/ \E price \in Spots \cup {NoPrice} : HistoryAnswered(r, price)
    \/ \E id \in DOMAIN sent :
          \/ \E price \in Spots : SpotTick(id, price)
          \/ \E field \in {"LAST", "BID", "ASK"}, positive \in BOOLEAN : OptionTick(id, field, positive)
          \/ \E has \in Computations : Greeks(id, has)
    \/ Fail

Next ==
    \/ \E s \in Symbols, given \in BOOLEAN : Start(s, given)
    \/ Main \/ IBKR

Spec == Init /\ [][Next]_vars

----------------------------------------------------------------------------
Subscribed == {sent[id] : id \in Range(requestIds)}

\* No earlier session has left rows of this request id.
Own(rows, id) == \A r \in rows : r.req = id => r.session = session

\* _select_strike_strip, _select_option_expiries: in a session whose chain
\* request has an id no earlier one used, the options the command collects are
\* the calls and puts of every selected expiry and of a run of listed strikes:
\* the nearest to the spot price and Around on each side, as far as there are.
StripIsAroundSpot ==
    pc \in {"sleep", "cancel", "check", "fill", "done"} /\ Own(chains, snapshot.req) =>
        LET rows == OfSession(chains)
            strikes == UNION {c.strikes : c \in rows}
            future == Future(UNION {c.expiries : c \in rows})
            chosen == {o.strike : o \in Subscribed}
            expiries == {o.expiry : o \in Subscribed}
            Below(set, n) == Cardinality({k \in set : k < n})
            Above(set, n) == Cardinality({k \in set : k > n})
        IN  /\ \A o \in Subscribed : o.symbol = symbol
            /\ Subscribed = Options(symbol, expiries, chosen)
            /\ expiries \subseteq future
            /\ ExpiryMode # "monthly" => \E e \in expiries : \A f \in future : e <= f
            /\ chosen \subseteq strikes
            /\ \A k \in strikes : Min(chosen) <= k /\ k <= Max(chosen) => k \in chosen
            /\ \E n \in chosen :
                  /\ \A k \in strikes : Distance(n, spot) <= Distance(k, spot)
                  /\ Below(chosen, n) = Min({Around, Below(strikes, n)})
                  /\ Above(chosen, n) = Min({Around, Above(strikes, n)})

\* The finally clauses: while the strip is collected nothing else is
\* subscribed to, and when the command is over, however it ended with the
\* connection up (a locked database in the middle of the strip included),
\* nothing is.
NothingLeftRunning ==
    ~failed =>
        /\ pc = "sleep" => live = Range(requestIds)
        /\ pc \in {"check", "fill", "done", "returned", "raised"} => live = {}

FreshId(id) == Own(Range(ticks) \cup Range(greeks), id)

\* _backfill_option_greeks_from_ticks: the volatility filled in for an option
\* is filed under that option and comes from its own prices, when no earlier
\* session of the database used the id of its request.
OwnPrices ==
    \A g \in OfSession(Range(greeks)) : g.synthetic /\ pc # "off" /\ FreshId(g.req) =>
        g.instrument = sent[g.req] /\ g.sources = {g.instrument}

\* A price that IBKR sent for the option while it was subscribed was stored,
\* and nothing else came that hides it.
HadPrice(id) ==
    LET mine == {t \in OfSession(Range(ticks)) : t.req = id}
        fields == {t.field : t \in mine}
    IN  /\ \A t \in mine : t.positive /\ t.inTime /\ t.instrument # Unknown
        /\ Cardinality({i \in DOMAIN ticks : ticks[i] \in mine}) <= Window
        /\ "LAST" \in fields \/ {"BID", "ASK"} \subseteq fields

Filled(id) ==
    HadPrice(id) /\ (\A g \in OfSession(Range(greeks)) : g.req = id => g.synthetic) =>
        \E g \in OfSession(Range(greeks)) : g.req = id

\* README.md:377, "If IBKR withholds model-computation ticks for a contract,
\* the collector also has a fallback path that can backfill implied volatility
\* from delayed option prices": an option that got prices and no greeks in this
\* session has the volatility filled in at its end.
BackfillFillsIn ==
    pc = "done" => \A id \in Range(requestIds) : Filled(id)

\* The same for the options whose request ids no earlier session used.
FreshIdsFilledIn ==
    pc = "done" => \A id \in Range(requestIds) : FreshId(id) => Filled(id)
============================================================================
