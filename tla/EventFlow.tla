------------------------------ MODULE EventFlow ------------------------------
(***************************************************************************)
(* The event lines of the gateway and the C++ event processor that reads   *)
(* them (IBEventProcessor.cpp): it joins the request id of a tick or bar   *)
(* to the symbol of the request and keeps a quote for each symbol.         *)
(*                                                                         *)
(* The lines are those of the gateway's log, to which one session after    *)
(* another appends, each with request ids from FirstRequestId, or of a     *)
(* pipe, which has one session but whose long lines another thread's event *)
(* may run into.  A price or size is abstracted to the number of the line  *)
(* that brought it, so a quote tells where each of its fields comes from;  *)
(* 0 is no value.                                                          *)
(***************************************************************************)
EXTENDS FlatJson, Integers, FiniteSets, Functions

CONSTANTS
    Symbols, NoSymbol,
    TickFields,     \* the names of ticks: some of the known ones and others
    Filter,         \* --symbol, or NoSymbol
    EmitQuotes, EmitBars,
    FirstRequestId, \* 1000 in the code
    MaxRequests,    \* bound: requests in one session
    MaxSessions,    \* bound: sessions
    MaxLines        \* bound: lines in all

ASSUME ConstantAssumption ==
    /\ NoSymbol \notin Symbols /\ Filter \in Symbols \cup {NoSymbol}
    /\ {EmitQuotes, EmitBars} \subseteq BOOLEAN
    /\ {MaxRequests, MaxSessions, MaxLines} \subseteq Nat /\ FirstRequestId \in Nat \ {0}

Prices == {"BID", "ASK", "LAST", "CLOSE"}
Sizes == {"BID_SIZE", "ASK_SIZE", "LAST_SIZE"}
Known == Prices \cup Sizes
Kinds == {"marketData", "historical"}
Ids == FirstRequestId .. FirstRequestId + MaxRequests - 1

VARIABLES
    piped,       \* the processor reads the gateway's output, not its log
    session,     \* the sessions so far
    asked,       \* the kind and symbol of each request sent in this one, in order
    unannounced, \* the request sent whose event is not written yet, or 0
    lines,       \* the lines written, each the events whose texts are on it
    torn,        \* whether the text of an option chain still lacks its newline
                 \* ("open"), which another event may have supplied ("ended")
    processed,   \* how many lines the processor has read
    parseErrors, \* parseErrors_
    marketDataRequests, historicalRequests, \* its maps from request ids to symbols
    quotes,      \* quotesBySymbol_
    output       \* the normalized events it has written

gateway == <<piped, session, asked, unannounced, lines, torn>>
processor == <<processed, parseErrors, marketDataRequests, historicalRequests, quotes, output>>
vars == <<gateway, processor>>

NoQuote == [f \in Known |-> 0]
NoRequests == [id \in Ids |-> NoSymbol]

Init ==
    /\ piped \in BOOLEAN
    /\ session = 1 /\ asked = <<>> /\ unannounced = 0 /\ lines = <<>> /\ torn = "no"
    /\ processed = 0 /\ parseErrors = 0 /\ marketDataRequests = NoRequests
    /\ historicalRequests = NoRequests
    /\ quotes = [s \in Symbols |-> NoQuote] /\ output = <<>>

----------------------------------------------------------------------------
(* The gateway: the main thread sends a request to IBKR and then writes    *)
(* its event; the reader thread writes what IBKR sends meanwhile.          *)

\* The request with an id, which counts from FirstRequestId.
AskedIds == FirstRequestId .. FirstRequestId + Len(asked) - 1
Asked(id) == asked[id - FirstRequestId + 1]

Event(type, id, field, value) ==
    [type |-> type, req |-> id, field |-> field, value |-> value, session |-> session,
     symbol |-> IF id = 0 THEN NoSymbol ELSE Asked(id).symbol]

\* An option chain has a list of expirations: one, or two for many.
Chain(expirations) == Event("chain", 0, expirations, TRUE)

\* The text of an event, as far as the processor can tell it from others.
RequestText(e) ==
    <<Open, Str("type"), Colon, Str(e.type), Comma, Str("reqId"), Colon, Bare(e.req), Comma,
      Str("symbol"), Colon, Str(e.symbol), Close>>
TickText(e) ==
    <<Open, Str("type"), Colon, Str("tick"), Comma, Str("reqId"), Colon, Bare(e.req), Comma,
      Str("field"), Colon, Str(e.field), Comma,
      Str("value"), Colon, Bare(IF e.value THEN "number" ELSE "null"), Close>>
BarText(e) ==
    <<Open, Str("type"), Colon, Str("bar"), Comma, Str("reqId"), Colon, Bare(e.req), Close>>
ShortChainText ==
    <<Open, Str("type"), Colon, Str("chain"), Comma, Str("expirations"), Colon,
      OpenList, Str("e1"), CloseList, Close>>
LongChainText ==
    <<Open, Str("type"), Colon, Str("chain"), Comma, Str("expirations"), Colon,
      OpenList, Str("e1"), Comma, Str("e2"), CloseList, Close>>

TextOf(e) ==
    CASE e.type \in Kinds -> RequestText(e)
      [] e.type = "tick"  -> TickText(e)
      [] e.type = "bar"   -> BarText(e)
      [] e.type = "chain" -> IF e.field = "many" THEN LongChainText ELSE ShortChainText

\* print: a line of its own, or the end of the text that lacks its newline.
EmitLine(e) ==
    /\ Len(lines) < MaxLines
    /\ lines' = Append(lines, IF torn = "open" THEN <<Chain("many"), e>> ELSE <<e>>)

Send(kind, symbol) ==
    /\ unannounced = 0 /\ Len(asked) < MaxRequests
    /\ unannounced' = FirstRequestId + Len(asked)
    /\ asked' = Append(asked, [kind |-> kind, symbol |-> symbol])
    /\ UNCHANGED <<piped, session, lines, torn, processor>>

\* The request's event, printed by the main thread.
Announce ==
    /\ unannounced # 0
    /\ EmitLine(Event(Asked(unannounced).kind, unannounced, "none", FALSE))
    /\ unannounced' = 0 /\ torn' = IF torn = "open" THEN "ended" ELSE torn
    /\ UNCHANGED <<piped, session, asked, processor>>

\* The reader thread prints one event after the other.
ReaderEmits(e) ==
    /\ torn = "no"
    /\ EmitLine(e)
    /\ UNCHANGED <<piped, session, asked, unannounced, torn, processor>>

\* tickPrice, tickSize; IBKR may leave the price out.
Tick(id, field, value) ==
    Asked(id).kind = "marketData" /\ ReaderEmits(Event("tick", id, field, value))

Bar(id) == Asked(id).kind = "historical" /\ ReaderEmits(Event("bar", id, "none", TRUE))

ShortChain == ReaderEmits(Chain("one"))

\* A text longer than the buffer goes out before its newline, and meanwhile
\* another thread may run; the log gets text and newline in one write.
LongChain ==
    IF piped
    THEN /\ torn = "no" /\ Len(lines) < MaxLines
         /\ torn' = "open"
         /\ UNCHANGED <<piped, session, asked, unannounced, lines, processor>>
    ELSE ReaderEmits(Chain("many"))

ChainNewline ==
    /\ torn # "no" /\ Len(lines) < MaxLines
    /\ lines' = Append(lines, IF torn = "open" THEN <<Chain("many")>> ELSE <<>>)
    /\ torn' = "no"
    /\ UNCHANGED <<piped, session, asked, unannounced, processor>>

\* The gateway ends, at any step, and is started again on the same log.
Restart ==
    /\ ~piped /\ session < MaxSessions
    /\ session' = session + 1 /\ asked' = <<>> /\ unannounced' = 0
    /\ UNCHANGED <<piped, lines, torn, processor>>

----------------------------------------------------------------------------
(* The processor.                                                          *)

\* What is printed on a line, which no third event runs into.
LineText(line) ==
    CASE Len(line) = 0 -> <<>>
      [] Len(line) = 1 -> TextOf(line[1])
      [] OTHER         -> TextOf(line[1]) \o TextOf(line[2])

\* parseLine, of the next line.
Line == ParseLine(LineText(lines[processed + 1]))

\* parseStringField, parseIntField, parseDoubleField.
Field(key) == Line.fields[key]
Id == Field("reqId")

\* processStream, processLine and handleEvent: the next line is of the type.
Read(type) ==
    /\ processed < Len(lines) /\ Line.ok /\ Field("type") = type
    /\ processed' = processed + 1
    /\ UNCHANGED <<parseErrors, gateway>>

\* A line that is empty, or of a type the processor has no use for, is passed
\* over; one it does not understand is counted.
PassOver ==
    /\ processed < Len(lines)
    /\ lines[processed + 1] = <<>> \/ (Line.ok /\ Field("type") = "chain")
    /\ processed' = processed + 1
    /\ UNCHANGED <<parseErrors, marketDataRequests, historicalRequests, quotes, output, gateway>>

ParseError ==
    /\ processed < Len(lines) /\ lines[processed + 1] # <<>> /\ ~Line.ok
    /\ processed' = processed + 1 /\ parseErrors' = parseErrors + 1
    /\ UNCHANGED <<marketDataRequests, historicalRequests, quotes, output, gateway>>

\* shouldEmitSymbol
Shown(symbol) == Filter = NoSymbol \/ symbol = Filter

\* Mutant: a request clears the quote of its symbol.
RequestClearsQuote ==
    /\ Read("marketData")
    /\ marketDataRequests' = [marketDataRequests EXCEPT ![Id] = Field("symbol")]
    /\ quotes' = [quotes EXCEPT ![Field("symbol")] = NoQuote]
    /\ UNCHANGED <<historicalRequests, output>>

\* Mutant: an id keeps the symbol it had first.
RequestKept ==
    /\ Read("marketData")
    /\ marketDataRequests' = [marketDataRequests EXCEPT ![Id] =
                                 IF @ = NoSymbol THEN Field("symbol") ELSE @]
    /\ UNCHANGED <<historicalRequests, quotes, output>>

MarketDataRequest ==
    /\ Read("marketData")
    /\ marketDataRequests' = [marketDataRequests EXCEPT ![Id] = Field("symbol")]
    /\ UNCHANGED <<historicalRequests, quotes, output>>

HistoricalRequest ==
    /\ Read("historical")
    /\ historicalRequests' = [historicalRequests EXCEPT ![Id] = Field("symbol")]
    /\ UNCHANGED <<marketDataRequests, quotes, output>>

\* emitNormalizedQuote and emitNormalizedBar.
NormalizedQuote(symbol, quote) == [line |-> processed + 1, symbol |-> symbol, quote |-> quote]
NormalizedBar(symbol) == [line |-> processed + 1, symbol |-> symbol, quote |-> NoQuote]

\* A tick without a value, of an unknown id or with an unknown name counts for
\* nothing; any other is kept, and the quote written.
HandleTick ==
    LET symbol == marketDataRequests[Id]
    IN  /\ Read("tick")
        /\ IF Field("value") # "null" /\ symbol # NoSymbol /\ Field("field") \in Known
           THEN /\ quotes' = [quotes EXCEPT ![symbol][Field("field")] = processed']
                /\ output' = IF EmitQuotes /\ Shown(symbol)
                             THEN Append(output, NormalizedQuote(symbol, quotes'[symbol]))
                             ELSE output
           ELSE UNCHANGED <<quotes, output>>
        /\ UNCHANGED <<marketDataRequests, historicalRequests>>

HandleBar ==
    LET symbol == historicalRequests[Id]
    IN  /\ Read("bar")
        /\ output' = IF symbol # NoSymbol /\ EmitBars /\ Shown(symbol)
                     THEN Append(output, NormalizedBar(symbol))
                     ELSE output
        /\ UNCHANGED <<marketDataRequests, historicalRequests, quotes>>

Next ==
    \/ \E kind \in Kinds, symbol \in Symbols : Send(kind, symbol)
    \/ Announce
    \/ \E id \in AskedIds :
          \/ \E field \in TickFields, value \in BOOLEAN : Tick(id, field, value)
          \/ Bar(id)
    \/ ShortChain \/ LongChain \/ ChainNewline \/ Restart
    \/ PassOver \/ ParseError
    \/ MarketDataRequest \/ HistoricalRequest \/ HandleTick \/ HandleBar

Spec == Init /\ [][Next]_vars

----------------------------------------------------------------------------
KindOf(e) == IF e.type = "tick" THEN "marketData" ELSE "historical"

\* A line with one event; the event of it.
Whole(i) == Len(lines[i]) = 1
Of(i) == lines[i][1]

\* The request lines that the data on line i may be joined to, of any session.
Announced(i) ==
    {k \in 1 .. i : Whole(k) /\ Of(k).type = KindOf(Of(i)) /\ Of(k).req = Of(i).req}

\* The symbol that the last of them names.
JoinedTo(i) == IF Announced(i) = {} THEN NoSymbol ELSE Of(Max(Announced(i))).symbol

Counts(i) ==
    /\ Whole(i) /\ Of(i).type \in {"tick", "bar"} /\ JoinedTo(i) # NoSymbol
    /\ Of(i).type = "tick" => Of(i).value /\ Of(i).field \in Known

\* The lines normalized events are written for.
Normalized ==
    {i \in 1 .. processed :
        /\ Counts(i) /\ Shown(JoinedTo(i))
        /\ IF Of(i).type = "tick" THEN EmitQuotes ELSE EmitBars}

\* The quote after line i, from the lines alone.
QuoteAt(i) ==
    [f \in Known |->
        LET those == {k \in 1 .. i : /\ Counts(k) /\ Of(k).type = "tick"
                                     /\ Of(k).field = f /\ JoinedTo(k) = JoinedTo(i)}
        IN  IF those = {} THEN 0 ELSE Max(those)]

\* processLine and its handlers: whatever the order of requests, ticks and
\* bars, and whatever lines it cannot read, one normalized event is written for
\* each line that can be joined, in their order, and a quote has the newest
\* value of each field of its symbol.
OutputIsNormalized ==
    /\ {output[i].line : i \in DOMAIN output} = Normalized
    /\ \A i, j \in DOMAIN output : i < j => output[i].line < output[j].line
    /\ \A e \in Range(output) :
           /\ e.symbol = JoinedTo(e.line)
           /\ e.quote = IF Of(e.line).type = "tick" THEN QuoteAt(e.line) ELSE NoQuote

\* README.md:607, "joins `reqId` values back to symbols": a normalized event
\* has the symbol its request was made for, though ids are used again in every
\* session, once the event of the request precedes it.
JoinedRight ==
    \A e \in Range(output) :
        (\E k \in Announced(e.line) : Of(k).session = Of(e.line).session) =>
            e.symbol = Of(e.line).symbol

\* The exit status of the processor is a failure just when a line held two
\* events, which it lost, or an option chain with a list of two or more.
ErrorsCounted ==
    parseErrors = Cardinality({i \in 1 .. processed :
        Len(lines[i]) > 1 \/ (Whole(i) /\ Of(i).type = "chain" /\ Of(i).field = "many")})
============================================================================
