------------------------------ MODULE FlatJson ------------------------------
(***************************************************************************)
(* FlatJsonParser (IBEventProcessor.cpp): what the processor understands   *)
(* of a line of JSON.  A text is a sequence of tokens: the punctuation of  *)
(* JSON, strings and other scalars.  Escapes inside a string and the       *)
(* whitespace json.dumps puts after a comma or a colon are left out, and   *)
(* of a value only the first token is kept: those the processor reads have *)
(* one.                                                                    *)
(***************************************************************************)
EXTENDS Naturals, Sequences, FiniteSetsExt

Mark(c) == [t |-> c, v |-> c]
Open == Mark("open")
Close == Mark("close")
Colon == Mark("colon")
Comma == Mark("comma")
OpenList == Mark("openList")
CloseList == Mark("closeList")
Str(v) == [t |-> "string", v |-> v]
Bare(v) == [t |-> "bare", v |-> v]

TokenAt(text, p) == IF p \in DOMAIN text THEN text[p].t ELSE "end"

\* parseValue: a string, or whatever comes before the next comma or brace.
ValueEnd(text, p) ==
    IF TokenAt(text, p) = "string" THEN p + 1
    ELSE Min({q \in p .. Len(text) + 1 : TokenAt(text, q) \in {"comma", "close", "end"}})

Failed == [ok |-> FALSE, fields |-> <<>>]

\* Mutant: a field that fails leaves those before it.
GoesOnAnyway(text, end, rest) == TokenAt(text, end) = "comma"

\* A comma, and then what could be parsed.
GoesOn(text, end, rest) == TokenAt(text, end) = "comma" /\ rest.ok

\* The field whose key is at p, before what the rest of the line is parsed to:
\* a string, a colon and a value, then a comma or the closing brace, after
\* which nothing may follow; of two fields with one key the later counts.
ParseField(text, p, rest) ==
    LET end   == ValueEnd(text, p + 2)
        key   == text[p].v
        value == text[p + 2].v
    IN  IF TokenAt(text, p) # "string" \/ TokenAt(text, p + 1) # "colon" \/ end = p + 2
        THEN Failed
        ELSE CASE TokenAt(text, end) = "close" /\ end = Len(text) ->
                    [ok |-> TRUE, fields |-> [k \in {key} |-> value]]
               [] GoesOn(text, end, rest) ->
                    [ok |-> TRUE,
                     fields |-> [k \in {key} \cup DOMAIN rest.fields |->
                                    IF k \in DOMAIN rest.fields THEN rest.fields[k] ELSE value]]
               [] OTHER -> Failed

\* parseObject, from the key at each position on: the first field that fails
\* fails the line.
ParseFrom(text) ==
    LET from[p \in 1 .. Len(text) + 1] ==
            ParseField(text, p, from[ValueEnd(text, p + 2) + 1])
    IN  from

ParseLine(text) ==
    IF TokenAt(text, 1) # "open" THEN Failed
    ELSE IF TokenAt(text, 2) = "close" THEN [Failed EXCEPT !.ok = Len(text) = 2]
    ELSE ParseFrom(text)[2]
=============================================================================
