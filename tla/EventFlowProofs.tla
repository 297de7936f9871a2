--------------------------- MODULE EventFlowProofs ---------------------------
(***************************************************************************)
(* What the processor writes, for any symbols, filters, sessions, requests *)
(* and lines: the proofs first follow the parser through the texts of the  *)
(* gateway's events, and then the joins through the lines.                 *)
(***************************************************************************)
EXTENDS EventFlow, FiniteSetTheorems, SequenceTheorems, WellFoundedInduction, TLAPS

----------------------------------------------------------------------------
(* Least and largest elements.                                             *)

Less == {ss \in Nat \X Nat : ss[1] < ss[2]}

\* The naturals are well-founded.
LEMMA LessWellFounded == IsWellFoundedOn(Less, Nat)
  BY NatLessThanWellFounded DEF OpToRel, Less

\* A nonempty set of naturals has a least element.
LEMMA LeastExists ==
  ASSUME NEW S \in SUBSET Nat, S # {}
  PROVE  \E k \in S : \A l \in S : k <= l
<1>1. PICK x \in S : \A y \in S : ~(<<y, x>> \in Less)
  BY LessWellFounded, WFMin
<1>2. ASSUME NEW l \in S PROVE x <= l
  <2>1. ~(<<l, x>> \in Less)
    BY <1>1
  <2>2. l \in Nat /\ x \in Nat
    OBVIOUS
  <2> QED
    BY <2>1, <2>2 DEF Less
<1> QED
  BY <1>2

\* One with a bound has a largest.
LEMMA LargestExists ==
  ASSUME NEW n \in Nat, NEW T \in SUBSET (0 .. n), T # {}
  PROVE  \E i \in T : \A k \in T : k <= i
<1> DEFINE S == {n - k : k \in T}
<1>1. S \subseteq Nat /\ S # {}
  <2>1. \A k \in T : n - k \in Nat
    OBVIOUS
  <2>2. \A x \in S : \E k \in T : x = n - k
    OBVIOUS
  <2>3. PICK k \in T : TRUE
    OBVIOUS
  <2>4. n - k \in S
    OBVIOUS
  <2> HIDE DEF S
  <2> QED
    BY <2>1, <2>2, <2>4
<1>2. PICK x \in S : \A y \in S : x <= y
  <2> HIDE DEF S
  <2> QED
    BY <1>1, LeastExists
<1>3. PICK i \in T : x = n - i
  OBVIOUS
<1>4. ASSUME NEW k \in T PROVE k <= i
  <2>1. n - i <= n - k
    BY <1>2, <1>3
  <2>2. k \in Nat /\ i \in Nat
    OBVIOUS
  <2> QED
    BY <2>1, <2>2
<1> QED
  BY <1>4

\* What Min and Max choose.
LEMMA MinIs ==
  ASSUME NEW S \in SUBSET Nat, S # {}
  PROVE  Min(S) \in S /\ \A l \in S : Min(S) <= l
BY LeastExists DEF Min

LEMMA MaxIs ==
  ASSUME NEW n \in Nat, NEW T \in SUBSET (0 .. n), T # {}
  PROVE  Max(T) \in T /\ \A l \in T : l <= Max(T)
<1>1. \E i \in T : \A k \in T : i >= k
  <2>1. PICK i \in T : \A k \in T : k <= i
    BY LargestExists
  <2> QED
    BY <2>1
<1>2. Max(T) \in T /\ \A k \in T : Max(T) >= k
  BY <1>1 DEF Max
<1>3. \A k \in T : k \in Nat
  OBVIOUS
<1> QED
  BY <1>2, <1>3

----------------------------------------------------------------------------
(* The parser.  A text is any sequence of tokens.                          *)

\* What the parser sees at a position is a token or the end.
LEMMA ValueEndIs ==
  ASSUME NEW text, NEW n \in Nat, DOMAIN text = 1 .. n, Len(text) = n, NEW p \in 1 .. n + 1
  PROVE  ValueEnd(text, p) \in p .. n + 1
<1>1. CASE TokenAt(text, p) = "string"
  <2>1. p \in 1 .. n
    BY <1>1 DEF TokenAt
  <2> QED
    BY <1>1, <2>1 DEF ValueEnd
<1>2. CASE TokenAt(text, p) # "string"
  <2> DEFINE S == {q \in p .. Len(text) + 1 : TokenAt(text, q) \in {"comma", "close", "end"}}
  <2>1. TokenAt(text, n + 1) = "end"
    BY DEF TokenAt
  <2>2. S \subseteq Nat /\ n + 1 \in S
    <3>1. n + 1 \in p .. Len(text) + 1 /\ \A q \in p .. Len(text) + 1 : q \in Nat
      OBVIOUS
    <3> QED
      BY <2>1, <3>1
  <2>3. Min(S) \in S
    <3> HIDE DEF S
    <3> QED
      BY <2>2, MinIs
  <2>4. ValueEnd(text, p) = Min(S)
    BY <1>2 DEF ValueEnd
  <2> QED
    BY <2>3, <2>4
<1> QED
  BY <1>1, <1>2

\* A field takes what follows it from the position after its end only.
LEMMA RestOfField ==
  ASSUME NEW text, NEW n \in Nat, DOMAIN text = 1 .. n, Len(text) = n, NEW p \in 1 .. n + 1,
         NEW r, NEW s, ValueEnd(text, p + 2) + 1 \in p + 1 .. n + 1 => r = s
  PROVE  ParseField(text, p, r) = ParseField(text, p, s)
<1>1. CASE p + 2 \notin 1 .. n + 1
  <2>1. TokenAt(text, p + 1) = "end"
    BY <1>1 DEF TokenAt
  <2> QED
    BY <2>1 DEF ParseField, GoesOn
<1>2. CASE p + 2 \in 1 .. n + 1
  <2>1. ValueEnd(text, p + 2) \in p + 2 .. n + 1
    BY <1>2, ValueEndIs
  <2>2. CASE ValueEnd(text, p + 2) \in p + 2 .. n
    BY <2>2
  <2>3. CASE ValueEnd(text, p + 2) = n + 1
    <3>1. TokenAt(text, n + 1) = "end"
      BY DEF TokenAt
    <3> QED
      BY <2>3, <3>1 DEF ParseField, GoesOn
  <2> QED
    BY <2>1, <2>2, <2>3
<1> QED
  BY <1>1, <1>2

\* So there is a function that parses every suffix of the text.
LEMMA ParseFromIs ==
  ASSUME NEW text, NEW n \in Nat, DOMAIN text = 1 .. n, Len(text) = n
  PROVE  ParseFrom(text) =
           [p \in 1 .. n + 1 |->
               ParseField(text, p, ParseFrom(text)[ValueEnd(text, p + 2) + 1])]
<1> DEFINE Body(g, p) == ParseField(text, p, g[ValueEnd(text, p + 2) + 1])
           Parses(g, m) == g = [p \in n + 1 - m .. n + 1 |-> Body(g, p)]
           Bad == {m \in 0 .. n : \A g : ~Parses(g, m)}
<1>1. Bad = {}
  <2> SUFFICES ASSUME Bad # {}
               PROVE  FALSE
    OBVIOUS
  <2>1. PICK m \in Bad : \A l \in Bad : m <= l
    <3>1. Bad \in SUBSET Nat
      OBVIOUS
    <3> HIDE DEF Bad
    <3> QED
      BY <3>1, LeastExists
  <2>2. m \in 0 .. n
    OBVIOUS
  <2>3. CASE m = 0
    <3> DEFINE g == [p \in {n + 1} |-> ParseField(text, p, 0)]
    <3>1. ParseField(text, n + 1, 0) = ParseField(text, n + 1, g[ValueEnd(text, n + 3) + 1])
      <4> HIDE DEF g
      <4> QED
        BY RestOfField
    <3>2. n + 1 - 0 .. n + 1 = {n + 1}
      OBVIOUS
    <3>3. Parses(g, 0)
      BY <3>1, <3>2
    <3> QED
      BY <2>3, <3>3
  <2>4. CASE m # 0
    <3>1. m - 1 \in 0 .. n /\ m - 1 \notin Bad
      <4>1. m - 1 \in 0 .. n
        BY <2>2, <2>4
      <4> HIDE DEF Bad
      <4> QED
        BY <2>1, <2>2, <4>1
    <3>2. PICK g : Parses(g, m - 1)
      BY <3>1
    <3> DEFINE k == n + 1 - m
               h == [p \in k .. n + 1 |-> IF p = k THEN Body(g, k) ELSE g[p]]
    <3>3. k \in 1 .. n /\ n + 1 - (m - 1) = k + 1
      BY <2>2, <2>4
    <3>4. g = [p \in k + 1 .. n + 1 |-> Body(g, p)]
      BY <3>2, <3>3
    <3> HIDE DEF k
    <3>5. \A p \in k + 1 .. n + 1 : h[p] = g[p]
      BY <3>3
    <3>6. ASSUME NEW p \in k .. n + 1
          PROVE  Body(h, p) = Body(g, p)
      <4> DEFINE e == ValueEnd(text, p + 2) + 1
      <4>1. e \in p + 1 .. n + 1 => h[e] = g[e]
        <5> HIDE DEF e, h
        <5> QED
          BY <3>3, <3>5
      <4> HIDE DEF h
      <4> QED
        BY <3>3, <4>1, RestOfField
    <3>7. \A p \in k .. n + 1 : h[p] = Body(g, p)
      <4> SUFFICES ASSUME NEW p \in k .. n + 1
                   PROVE  h[p] = Body(g, p)
        OBVIOUS
      <4>1. CASE p = k
        BY <3>3, <4>1
      <4>2. CASE p # k
        <5>1. p \in k + 1 .. n + 1
          BY <3>3, <4>2
        <5>2. g[p] = Body(g, p)
          BY <3>4, <5>1
        <5> QED
          BY <3>5, <5>1, <5>2
      <4> QED
        BY <4>1, <4>2
    <3>8. h = [p \in k .. n + 1 |-> Body(h, p)]
      BY <3>6, <3>7
    <3>9. Parses(h, m)
      BY <3>8 DEF k
    <3> QED
      BY <2>2, <3>9
  <2> QED
    BY <2>3, <2>4
<1>2. PICK g : Parses(g, n)
  <2>1. n \in 0 .. n /\ n \notin Bad
    <3> HIDE DEF Bad
    <3> QED
      BY <1>1
  <2> QED
    BY <2>1
<1>3. g = [p \in 1 .. Len(text) + 1 |-> Body(g, p)]
  BY <1>2
<1> DEFINE F == CHOOSE from :
                    from = [p \in 1 .. Len(text) + 1 |->
                               ParseField(text, p, from[ValueEnd(text, p + 2) + 1])]
<1>4. F = [p \in 1 .. Len(text) + 1 |-> ParseField(text, p, F[ValueEnd(text, p + 2) + 1])]
  BY <1>3
<1>5. ParseFrom(text) = F
  BY DEF ParseFrom
<1> QED
  BY <1>4, <1>5

----------------------------------------------------------------------------
(* The fields of a line.                                                   *)

\* A text of n tokens.
IsText(text, n) == n \in Nat /\ DOMAIN text = 1 .. n /\ Len(text) = n

\* A field at p whose value is one token, before another token.
FieldAt(text, p, key, value, after) ==
    /\ p \in Nat \ {0}
    /\ TokenAt(text, p) = "string" /\ text[p].v = key
    /\ TokenAt(text, p + 1) = "colon"
    /\ TokenAt(text, p + 2) \in {"string", "bare"} /\ text[p + 2].v = value
    /\ TokenAt(text, p + 3) = after

\* The tokens of a text are at its positions.
LEMMA TokenIsThere ==
  ASSUME NEW text, NEW n, IsText(text, n), NEW p \in Nat, TokenAt(text, p) # "end"
  PROVE  p \in 1 .. n
BY DEF IsText, TokenAt

\* A value ends at the first comma or brace, a string at itself.
LEMMA ValueEndAt ==
  ASSUME NEW text, NEW n, IsText(text, n), NEW p \in 1 .. n,
         NEW e \in p .. n, TokenAt(text, p) # "string", TokenAt(text, e) \in {"comma", "close"},
         \A q \in p .. e - 1 : TokenAt(text, q) \notin {"comma", "close", "end"}
  PROVE  ValueEnd(text, p) = e
<1> DEFINE S == {q \in p .. Len(text) + 1 : TokenAt(text, q) \in {"comma", "close", "end"}}
<1>1. n \in Nat /\ Len(text) = n /\ p \in Nat /\ e \in Nat
  BY DEF IsText
<1>2. e \in S
  BY <1>1
<1>3. S \subseteq Nat
  BY <1>1
<1>4. \A q \in S : q \in Nat /\ ~(q < e)
  BY <1>1
<1>5. Min(S) = e
  <2> HIDE DEF S
  <2>1. Min(S) \in S /\ Min(S) <= e
    BY <1>2, <1>3, MinIs
  <2>2. Min(S) \in Nat /\ ~(Min(S) < e)
    BY <1>4, <2>1
  <2> QED
    BY <1>1, <2>1, <2>2
<1> QED
  BY <1>5 DEF ValueEnd

\* A value of one token.
LEMMA PlainValue ==
  ASSUME NEW text, NEW n, IsText(text, n), NEW p, NEW key, NEW value,
         NEW after \in {"comma", "close"}, FieldAt(text, p, key, value, after)
  PROVE  ValueEnd(text, p + 2) = p + 3 /\ p + 2 \in 1 .. n /\ p + 3 \in 1 .. n
<1>1. p \in Nat \ {0} /\ p + 2 \in Nat /\ p + 3 \in Nat
  BY DEF FieldAt
<1>2. /\ TokenAt(text, p + 2) \in {"string", "bare"}
      /\ TokenAt(text, p + 3) \in {"comma", "close"}
  BY DEF FieldAt
<1>3. p + 2 \in 1 .. n /\ p + 3 \in 1 .. n
  BY <1>1, <1>2, TokenIsThere
<1>4. CASE TokenAt(text, p + 2) = "string"
  BY <1>1, <1>3, <1>4 DEF ValueEnd
<1>5. CASE TokenAt(text, p + 2) = "bare"
  <2>1. p + 3 \in p + 2 .. n
    BY <1>1, <1>3 DEF IsText
  <2>2. \A q \in p + 2 .. (p + 3) - 1 : q = p + 2
    BY <1>1
  <2>3. \A q \in p + 2 .. (p + 3) - 1 : TokenAt(text, q) \notin {"comma", "close", "end"}
    BY <1>5, <2>2
  <2>4. ValueEnd(text, p + 2) = p + 3
    BY <1>2, <1>3, <1>5, <2>1, <2>3, ValueEndAt
  <2> QED
    BY <1>3, <2>4
<1> QED
  BY <1>2, <1>4, <1>5

\* What is parsed from one key on.
LEMMA ParseAt ==
  ASSUME NEW text, NEW n, IsText(text, n), NEW p \in 1 .. n,
         NEW e, ValueEnd(text, p + 2) = e
  PROVE  ParseFrom(text)[p] = ParseField(text, p, ParseFrom(text)[e + 1])
<1>1. n \in Nat /\ DOMAIN text = 1 .. n /\ Len(text) = n /\ p \in 1 .. n + 1
  BY DEF IsText
<1>2. ParseFrom(text) =
        [m \in 1 .. n + 1 |-> ParseField(text, m, ParseFrom(text)[ValueEnd(text, m + 2) + 1])]
  BY <1>1, ParseFromIs
<1> QED
  BY <1>1, <1>2

\* A field before a comma is added to those that follow.
LEMMA AddField ==
  ASSUME NEW text, NEW n, IsText(text, n), NEW p, NEW key, NEW value,
         FieldAt(text, p, key, value, "comma"), NEW r, r = ParseFrom(text)[p + 4], r.ok
  PROVE  LET q == ParseFrom(text)[p]
         IN  /\ q.ok /\ DOMAIN q.fields = {key} \cup DOMAIN r.fields
             /\ \A k \in DOMAIN q.fields :
                   q.fields[k] = IF k \in DOMAIN r.fields THEN r.fields[k] ELSE value
<1>1. ValueEnd(text, p + 2) = p + 3 /\ p \in 1 .. n /\ p \in Nat /\ (p + 3) + 1 = p + 4
  <2>1. ValueEnd(text, p + 2) = p + 3 /\ p + 3 \in 1 .. n
    BY PlainValue
  <2> QED
    BY <2>1 DEF FieldAt, IsText
<1>2. ParseFrom(text)[p] = ParseField(text, p, r)
  BY <1>1, ParseAt
<1>3. ParseField(text, p, r) =
        [ok |-> TRUE,
         fields |-> [k \in {key} \cup DOMAIN r.fields |->
                        IF k \in DOMAIN r.fields THEN r.fields[k] ELSE value]]
  BY <1>1 DEF ParseField, GoesOn, FieldAt
<1> QED
  BY <1>2, <1>3

\* If what follows the comma fails, so does the line.
LEMMA FailField ==
  ASSUME NEW text, NEW n, IsText(text, n), NEW p \in 1 .. n,
         NEW e \in Nat, ValueEnd(text, p + 2) = e,
         TokenAt(text, e) = "comma", ~ParseFrom(text)[e + 1].ok
  PROVE  ~ParseFrom(text)[p].ok
<1>1. ParseFrom(text)[p] = ParseField(text, p, ParseFrom(text)[e + 1])
  BY ParseAt
<1>2. ParseField(text, p, ParseFrom(text)[e + 1]) = Failed
  BY DEF ParseField, GoesOn
<1>3. ~Failed.ok
  BY DEF Failed
<1> QED
  BY <1>1, <1>2, <1>3

\* The last field ends the line.
LEMMA LastField ==
  ASSUME NEW text, NEW n, IsText(text, n), NEW p, NEW key, NEW value,
         FieldAt(text, p, key, value, "close"), p + 3 = n
  PROVE  LET q == ParseFrom(text)[p]
         IN  q.ok /\ DOMAIN q.fields = {key} /\ q.fields[key] = value
<1>1. ValueEnd(text, p + 2) = p + 3 /\ p \in 1 .. n /\ p \in Nat
  <2>1. ValueEnd(text, p + 2) = p + 3 /\ p + 3 \in 1 .. n
    BY PlainValue
  <2> QED
    BY <2>1 DEF FieldAt, IsText
<1>2. ParseFrom(text)[p] = ParseField(text, p, ParseFrom(text)[p + 3 + 1])
  BY <1>1, ParseAt
<1>3. ParseField(text, p, ParseFrom(text)[p + 3 + 1]) =
        [ok |-> TRUE, fields |-> [k \in {key} |-> value]]
  BY <1>1 DEF ParseField, GoesOn, FieldAt, IsText
<1> QED
  BY <1>2, <1>3

\* A line that begins with a key.
LEMMA LineOfFields ==
  ASSUME NEW text, TokenAt(text, 1) = "open", TokenAt(text, 2) = "string"
  PROVE  ParseLine(text) = ParseFrom(text)[2]
BY DEF ParseLine

----------------------------------------------------------------------------
(* The texts of the events.                                                *)

\* The tokens.
LEMMA TokensAre ==
  /\ Open.t = "open" /\ Close.t = "close" /\ Colon.t = "colon" /\ Comma.t = "comma"
  /\ OpenList.t = "openList" /\ CloseList.t = "closeList"
  /\ \A v : Str(v).t = "string" /\ Str(v).v = v
  /\ \A v : Bare(v).t = "bare" /\ Bare(v).v = v
BY DEF Open, Close, Colon, Comma, OpenList, CloseList, Mark, Str, Bare

\* The event of a request.
LEMMA RequestLine ==
  ASSUME NEW e
  PROVE  LET q == ParseLine(RequestText(e))
         IN  /\ q.ok /\ q.fields["type"] = e.type
             /\ q.fields["reqId"] = e.req /\ q.fields["symbol"] = e.symbol
<1> DEFINE T == RequestText(e)
           F == ParseFrom(T)
<1>1. IsText(T, 13)
  BY DEF RequestText, IsText
<1>2. /\ FieldAt(T, 2, "type", e.type, "comma") /\ FieldAt(T, 6, "reqId", e.req, "comma")
      /\ FieldAt(T, 10, "symbol", e.symbol, "close")
  BY TokensAre DEF RequestText, FieldAt, TokenAt
<1>3. TokenAt(T, 1) = "open" /\ TokenAt(T, 2) = "string"
  BY TokensAre DEF RequestText, TokenAt
<1> HIDE DEF T
<1>4. F[10].ok /\ DOMAIN F[10].fields = {"symbol"} /\ F[10].fields["symbol"] = e.symbol
  BY <1>1, <1>2, LastField
<1>5. /\ F[6].ok /\ DOMAIN F[6].fields = {"reqId", "symbol"}
      /\ F[6].fields["symbol"] = e.symbol /\ F[6].fields["reqId"] = e.req
  BY <1>1, <1>2, <1>4, AddField
<1>6. /\ F[2].ok /\ F[2].fields["type"] = e.type
      /\ F[2].fields["symbol"] = e.symbol /\ F[2].fields["reqId"] = e.req
  BY <1>1, <1>2, <1>5, AddField
<1> QED
  BY <1>3, <1>6, LineOfFields DEF T

\* The event of a tick.
LEMMA TickLine ==
  ASSUME NEW e
  PROVE  LET q == ParseLine(TickText(e))
         IN  /\ q.ok /\ q.fields["type"] = "tick"
             /\ q.fields["reqId"] = e.req /\ q.fields["field"] = e.field
             /\ q.fields["value"] = IF e.value THEN "number" ELSE "null"
<1> DEFINE T == TickText(e)
           F == ParseFrom(T)
           v == IF e.value THEN "number" ELSE "null"
<1>1. IsText(T, 17)
  BY DEF TickText, IsText
<1>2. /\ FieldAt(T, 2, "type", "tick", "comma") /\ FieldAt(T, 6, "reqId", e.req, "comma")
      /\ FieldAt(T, 10, "field", e.field, "comma") /\ FieldAt(T, 14, "value", v, "close")
  BY TokensAre DEF TickText, FieldAt, TokenAt
<1>3. TokenAt(T, 1) = "open" /\ TokenAt(T, 2) = "string"
  BY TokensAre DEF TickText, TokenAt
<1> HIDE DEF T, v
<1>4. F[14].ok /\ DOMAIN F[14].fields = {"value"} /\ F[14].fields["value"] = v
  BY <1>1, <1>2, LastField
<1>5. /\ F[10].ok /\ DOMAIN F[10].fields = {"field", "value"}
      /\ F[10].fields["field"] = e.field /\ F[10].fields["value"] = v
  BY <1>1, <1>2, <1>4, AddField
<1>6. /\ F[6].ok /\ DOMAIN F[6].fields = {"reqId", "field", "value"}
      /\ F[6].fields["reqId"] = e.req /\ F[6].fields["field"] = e.field
      /\ F[6].fields["value"] = v
  BY <1>1, <1>2, <1>5, AddField
<1>7. /\ F[2].ok /\ F[2].fields["type"] = "tick" /\ F[2].fields["reqId"] = e.req
      /\ F[2].fields["field"] = e.field /\ F[2].fields["value"] = v
  BY <1>1, <1>2, <1>6, AddField
<1> QED
  BY <1>3, <1>7, LineOfFields DEF T, v

\* The event of a bar.
LEMMA BarLine ==
  ASSUME NEW e
  PROVE  LET q == ParseLine(BarText(e))
         IN  q.ok /\ q.fields["type"] = "bar" /\ q.fields["reqId"] = e.req
<1> DEFINE T == BarText(e)
           F == ParseFrom(T)
<1>1. IsText(T, 9)
  BY DEF BarText, IsText
<1>2. FieldAt(T, 2, "type", "bar", "comma") /\ FieldAt(T, 6, "reqId", e.req, "close")
  BY TokensAre DEF BarText, FieldAt, TokenAt
<1>3. TokenAt(T, 1) = "open" /\ TokenAt(T, 2) = "string"
  BY TokensAre DEF BarText, TokenAt
<1> HIDE DEF T
<1>4. F[6].ok /\ DOMAIN F[6].fields = {"reqId"} /\ F[6].fields["reqId"] = e.req
  BY <1>1, <1>2, LastField
<1>5. F[2].ok /\ F[2].fields["type"] = "bar" /\ F[2].fields["reqId"] = e.req
  BY <1>1, <1>2, <1>4, AddField
<1> QED
  BY <1>3, <1>5, LineOfFields DEF T

\* A chain with one expiration is understood.
LEMMA ShortChainLine ==
  LET q == ParseLine(ShortChainText)
  IN  q.ok /\ q.fields["type"] = "chain"
<1> DEFINE T == ShortChainText
           F == ParseFrom(T)
<1>1. IsText(T, 11)
  BY DEF IsText, ShortChainText
<1>2. FieldAt(T, 2, "type", "chain", "comma")
  BY TokensAre DEF FieldAt, TokenAt, ShortChainText
<1>3. /\ TokenAt(T, 1) = "open" /\ TokenAt(T, 2) = "string" /\ TokenAt(T, 6) = "string"
      /\ TokenAt(T, 7) = "colon" /\ TokenAt(T, 8) = "openList" /\ TokenAt(T, 9) = "string"
      /\ TokenAt(T, 10) = "closeList" /\ TokenAt(T, 11) = "close" /\ T[6].v = "expirations"
  BY TokensAre DEF TokenAt, ShortChainText
<1> HIDE DEF T
<1>4. ValueEnd(T, 8) = 11
  <2>1. \A q \in 8 .. 11 - 1 : q = 8 \/ q = 9 \/ q = 10
    OBVIOUS
  <2>2. \A q \in 8 .. 11 - 1 : TokenAt(T, q) \notin {"comma", "close", "end"}
    BY <1>3, <2>1
  <2> QED
    BY <1>1, <1>3, <2>2, ValueEndAt
<1>5. F[6] = [ok |-> TRUE, fields |-> [k \in {"expirations"} |-> T[8].v]]
  <2>1. F[6] = ParseField(T, 6, F[11 + 1])
    BY <1>1, <1>4, ParseAt
  <2>2. Len(T) = 11
    BY <1>1 DEF IsText
  <2> QED
    BY <1>3, <1>4, <2>1, <2>2 DEF ParseField, GoesOn
<1>6. F[2].ok /\ F[2].fields["type"] = "chain"
  BY <1>1, <1>2, <1>5, AddField
<1> QED
  BY <1>3, <1>6, LineOfFields DEF T

\* One with two is not, nor is a line that begins with one.
LEMMA LongChainLine ==
  ASSUME NEW text, NEW n, IsText(text, n), n >= 13,
         \A i \in 1 .. 13 : text[i] = LongChainText[i]
  PROVE  ~ParseLine(text).ok
<1> DEFINE F == ParseFrom(text)
<1>1. n \in Nat /\ \A i \in 1 .. 13 : TokenAt(text, i) = LongChainText[i].t
  BY DEF IsText, TokenAt
<1>2. /\ TokenAt(text, 1) = "open" /\ TokenAt(text, 2) = "string" /\ TokenAt(text, 3) = "colon"
      /\ TokenAt(text, 4) = "string" /\ TokenAt(text, 5) = "comma"
      /\ TokenAt(text, 8) = "openList" /\ TokenAt(text, 9) = "string"
      /\ TokenAt(text, 10) = "comma" /\ TokenAt(text, 11) = "string"
      /\ TokenAt(text, 12) = "closeList"
  BY <1>1, TokensAre DEF LongChainText
<1>3. ~F[11].ok
  <2>1. F[11] = ParseField(text, 11, F[ValueEnd(text, 11 + 2) + 1])
    BY <1>1, ParseAt
  <2> QED
    BY <1>2, <2>1 DEF ParseField, GoesOn, Failed
<1>4. ~F[6].ok
  <2>1. \A q \in 8 .. 10 - 1 : q = 8 \/ q = 9
    OBVIOUS
  <2>2. \A q \in 8 .. 10 - 1 : TokenAt(text, q) \notin {"comma", "close", "end"}
    BY <1>2, <2>1
  <2>3. 8 \in 1 .. n /\ 10 \in 8 .. n /\ 6 + 2 = 8
    BY <1>1
  <2>4. ValueEnd(text, 8) = 10
    BY <1>2, <2>2, <2>3, ValueEndAt
  <2> QED
    BY <1>1, <1>2, <1>3, <2>3, <2>4, FailField
<1>5. ~F[2].ok
  <2>1. ValueEnd(text, 2 + 2) = 5
    BY <1>2 DEF ValueEnd
  <2> QED
    BY <1>1, <1>2, <1>4, <2>1, FailField
<1> QED
  BY <1>2, <1>5, LineOfFields

----------------------------------------------------------------------------
(* The lines of the log or of the pipe.                                    *)

\* What the processor needs of an event.
IsEvent(e) ==
    /\ e.type \in Kinds \cup {"tick", "bar", "chain"}
    /\ e.session \in Nat
    /\ e.type # "chain" => e.req \in Ids /\ e.symbol \in Symbols
    /\ e.type = "tick" => e.value \in BOOLEAN

\* A line has an event, or none, or a chain and what ran into it.
IsLine(line) ==
    \/ line = <<>>
    \/ \E e : line = <<e>> /\ IsEvent(e)
    \/ \E c, e : line = <<c, e>> /\ IsEvent(c) /\ IsEvent(e) /\ c.type = "chain" /\ c.field = "many"

\* What the processor makes of the text of an event.
Understood(e, q) ==
    /\ q.ok <=> ~(e.type = "chain" /\ e.field = "many")
    /\ q.ok => q.fields["type"] = e.type
    /\ e.type # "chain" => q.fields["reqId"] = e.req
    /\ e.type \in Kinds => q.fields["symbol"] = e.symbol
    /\ e.type = "tick" => /\ q.fields["field"] = e.field
                          /\ (q.fields["value"] # "null") = e.value

\* Each type of event has its text.
LEMMA TextIs ==
  ASSUME NEW e, IsEvent(e)
  PROVE  /\ e.type \in Kinds => TextOf(e) = RequestText(e)
         /\ e.type = "tick" => TextOf(e) = TickText(e)
         /\ e.type = "bar" => TextOf(e) = BarText(e)
         /\ e.type = "chain" /\ e.field = "many" => TextOf(e) = LongChainText
         /\ e.type = "chain" /\ e.field # "many" => TextOf(e) = ShortChainText
BY DEF TextOf, Kinds

\* The text of an event is a sequence of tokens.
LEMMA TextIsText ==
  ASSUME NEW e, IsEvent(e)
  PROVE  \E n : IsText(TextOf(e), n) /\ TextOf(e) = [i \in 1 .. n |-> TextOf(e)[i]]
<1>1. IsText(RequestText(e), 13) /\ RequestText(e) = [i \in 1 .. 13 |-> RequestText(e)[i]]
  BY DEF RequestText, IsText
<1>2. IsText(TickText(e), 17) /\ TickText(e) = [i \in 1 .. 17 |-> TickText(e)[i]]
  BY DEF TickText, IsText
<1>3. IsText(BarText(e), 9) /\ BarText(e) = [i \in 1 .. 9 |-> BarText(e)[i]]
  BY DEF BarText, IsText
<1>4. /\ IsText(LongChainText, 13) /\ LongChainText = [i \in 1 .. 13 |-> LongChainText[i]]
      /\ IsText(ShortChainText, 11) /\ ShortChainText = [i \in 1 .. 11 |-> ShortChainText[i]]
  BY DEF LongChainText, ShortChainText, IsText
<1> QED
  <2>1. CASE e.type \in Kinds
    BY <1>1, <2>1, TextIs
  <2>2. CASE e.type = "tick"
    BY <1>2, <2>2, TextIs
  <2>3. CASE e.type = "bar"
    BY <1>3, <2>3, TextIs
  <2>4. CASE e.type = "chain" /\ e.field = "many"
    BY <1>4, <2>4, TextIs
  <2>5. CASE e.type = "chain" /\ e.field # "many"
    BY <1>4, <2>5, TextIs
  <2> QED
    BY <2>1, <2>2, <2>3, <2>4, <2>5 DEF IsEvent

\* A line with one event.
LEMMA WholeLine ==
  ASSUME NEW e, IsEvent(e)
  PROVE  Understood(e, ParseLine(TextOf(e)))
<1>1. CASE e.type \in Kinds
  BY <1>1, TextIs, RequestLine DEF Understood, Kinds
<1>2. CASE e.type = "tick"
  <2>1. e.value \in BOOLEAN
    BY <1>2 DEF IsEvent
  <2>2. TextOf(e) = TickText(e)
    BY <1>2, TextIs
  <2> QED
    BY <1>2, <2>1, <2>2, TickLine DEF Understood, Kinds
<1>3. CASE e.type = "bar"
  BY <1>3, TextIs, BarLine DEF Understood, Kinds
<1>4. CASE e.type = "chain" /\ e.field = "many"
  <2>1. IsText(LongChainText, 13)
    BY DEF LongChainText, IsText
  <2>2. ~ParseLine(LongChainText).ok
    BY <2>1, LongChainLine
  <2> QED
    BY <1>4, <2>2, TextIs DEF Understood, Kinds
<1>5. CASE e.type = "chain" /\ e.field # "many"
  BY <1>5, TextIs, ShortChainLine DEF Understood, Kinds
<1> QED
  BY <1>1, <1>2, <1>3, <1>4, <1>5 DEF IsEvent

\* A line with two.
LEMMA TornLine ==
  ASSUME NEW c, NEW e, IsEvent(c), IsEvent(e), c.type = "chain", c.field = "many"
  PROVE  ~ParseLine(TextOf(c) \o TextOf(e)).ok
<1> DEFINE T == TextOf(c) \o TextOf(e)
<1>1. TextOf(c) = LongChainText
  BY TextIs
<1>2. PICK n : IsText(TextOf(e), n) /\ TextOf(e) = [i \in 1 .. n |-> TextOf(e)[i]]
  BY TextIsText
<1>3. Len(LongChainText) = 13 /\ LongChainText = [i \in 1 .. 13 |-> LongChainText[i]]
  BY DEF LongChainText
<1>4. T = [i \in 1 .. 13 + n |-> IF i <= 13 THEN LongChainText[i] ELSE TextOf(e)[i - 13]]
  <2> DEFINE S == {LongChainText[i] : i \in 1 .. 13} \cup {TextOf(e)[i] : i \in 1 .. n}
  <2>1. n \in Nat /\ Len(TextOf(e)) = n
    BY <1>2 DEF IsText
  <2>2. LongChainText \in [1 .. 13 -> S] /\ TextOf(e) \in [1 .. n -> S]
    BY <1>2, <1>3
  <2> HIDE DEF S
  <2>3. LongChainText \in Seq(S) /\ TextOf(e) \in Seq(S)
    BY <2>1, <2>2, SeqDef
  <2>4. /\ Len(T) = 13 + n /\ T \in Seq(S)
        /\ \A i \in 1 .. 13 + n : T[i] = IF i <= 13 THEN LongChainText[i] ELSE TextOf(e)[i - 13]
    BY <1>1, <1>3, <2>1, <2>3, ConcatProperties
  <2> HIDE DEF T
  <2> QED
    BY <2>1, <2>4
<1>5. IsText(T, 13 + n) /\ 13 + n >= 13
  <2>1. n \in Nat
    BY <1>2 DEF IsText
  <2> QED
    BY <1>4, <2>1 DEF IsText
<1>6. \A i \in 1 .. 13 : T[i] = LongChainText[i]
  <2>1. n \in Nat
    BY <1>2 DEF IsText
  <2> QED
    BY <1>4, <2>1
<1> HIDE DEF T
<1> QED
  BY <1>5, <1>6, LongChainLine DEF T

\* What the processor makes of a line.
LEMMA LineIs ==
  ASSUME NEW line, IsLine(line)
  PROVE  LET q == ParseLine(LineText(line))
         IN  /\ Len(line) \in 0 .. 2
             /\ Len(line) = 0 <=> line = <<>>
             /\ Len(line) = 1 => IsEvent(line[1]) /\ Understood(line[1], q)
             /\ Len(line) # 1 => ~q.ok
<1>1. CASE line = <<>>
  <2>1. Len(line) = 0 /\ LineText(line) = <<>>
    BY <1>1 DEF LineText
  <2>2. TokenAt(<<>>, 1) = "end"
    BY DEF TokenAt
  <2> QED
    BY <1>1, <2>1, <2>2 DEF ParseLine, Failed
<1>2. ASSUME NEW e, line = <<e>>, IsEvent(e)
      PROVE  Len(line) = 1 /\ line[1] = e /\ Understood(e, ParseLine(LineText(line)))
  <2>1. Len(line) = 1 /\ line[1] = e
    BY <1>2
  <2>2. LineText(line) = TextOf(e)
    BY <2>1 DEF LineText
  <2> QED
    BY <1>2, <2>1, <2>2, WholeLine
<1>3. ASSUME NEW c, NEW e, line = <<c, e>>, IsEvent(c), IsEvent(e),
             c.type = "chain", c.field = "many"
      PROVE  Len(line) = 2 /\ ~ParseLine(LineText(line)).ok
  <2>1. Len(line) = 2 /\ line[1] = c /\ line[2] = e
    BY <1>3
  <2>2. LineText(line) = TextOf(c) \o TextOf(e)
    BY <2>1 DEF LineText
  <2> QED
    BY <1>3, <2>1, <2>2, TornLine
<1> QED
  BY <1>1, <1>2, <1>3 DEF IsLine

----------------------------------------------------------------------------
(* The invariant.                                                          *)

Requests == [kind : Kinds, symbol : Symbols]
Events == [type : Kinds \cup {"tick", "bar", "chain"}, req : Ids \cup {0},
           field : TickFields \cup {"none", "one", "many"}, value : BOOLEAN, session : Nat,
           symbol : Symbols \cup {NoSymbol}]
Quotes == [Known -> Nat]

\* Each variable is of its kind.
TypeInv ==
    /\ piped \in BOOLEAN /\ session \in Nat
    /\ asked \in Seq(Requests) /\ Len(asked) <= MaxRequests
    /\ unannounced \in {0} \cup AskedIds
    /\ torn \in {"no", "open", "ended"}
    /\ lines \in Seq(Seq(Events)) /\ \A i \in 1 .. Len(lines) : IsLine(lines[i])
    /\ processed \in 0 .. Len(lines) /\ parseErrors \in Nat
    /\ marketDataRequests \in [Ids -> Symbols \cup {NoSymbol}]
    /\ historicalRequests \in [Ids -> Symbols \cup {NoSymbol}]
    /\ quotes \in [Symbols -> Quotes]
    /\ output \in Seq([line : Nat, symbol : Symbols, quote : Quotes])

\* The symbol of the last request of a kind under an id, up to a line.
AnnouncedBy(kind, id, i) ==
    {k \in 1 .. i : Whole(k) /\ Of(k).type = kind /\ Of(k).req = id}
JoinedBy(kind, id, i) ==
    IF AnnouncedBy(kind, id, i) = {} THEN NoSymbol ELSE Of(Max(AnnouncedBy(kind, id, i))).symbol

\* The maps are what the lines say.
MapsInv ==
    \A id \in Ids :
        /\ marketDataRequests[id] = JoinedBy("marketData", id, processed)
        /\ historicalRequests[id] = JoinedBy("historical", id, processed)

\* The last line that brought a field of a symbol.
TicksOf(s, f, i) ==
    {k \in 1 .. i : Counts(k) /\ Of(k).type = "tick" /\ Of(k).field = f /\ JoinedTo(k) = s}
Newest(s, f, i) == IF TicksOf(s, f, i) = {} THEN 0 ELSE Max(TicksOf(s, f, i))

\* And so are the quotes.
QuotesInv == \A s \in Symbols, f \in Known : quotes[s][f] = Newest(s, f, processed)

\* An event is of a request of the running session.
OfSession(e) ==
    /\ e.session <= session
    /\ e.session = session /\ e.type # "chain" =>
          e.req \in AskedIds /\ e.symbol = Asked(e.req).symbol

\* The sessions follow each other, and in one of them an id has one symbol.
SessionsInv ==
    /\ \A i \in 1 .. Len(lines) : Whole(i) => OfSession(Of(i))
    /\ \A i, j \in 1 .. Len(lines) : Whole(i) /\ Whole(j) =>
          /\ i <= j => Of(i).session <= Of(j).session
          /\ /\ Of(i).session = Of(j).session /\ Of(i).req = Of(j).req
             /\ Of(i).type # "chain" /\ Of(j).type # "chain"
             => Of(i).symbol = Of(j).symbol

FlowInv ==
    TypeInv /\ MapsInv /\ QuotesInv /\ SessionsInv /\ OutputIsNormalized /\ ErrorsCounted

\* The assumptions on the constants.
LEMMA ConstantsAre ==
  /\ NoSymbol \notin Symbols /\ MaxRequests \in Nat
  /\ FirstRequestId \in Nat /\ FirstRequestId # 0
  /\ Ids \subseteq Nat /\ 0 \notin Ids
<1>1. /\ NoSymbol \notin Symbols /\ MaxRequests \in Nat
      /\ FirstRequestId \in Nat /\ FirstRequestId # 0
  BY ConstantAssumption
<1> QED
  BY <1>1 DEF Ids

----------------------------------------------------------------------------
(* What a line adds.                                                       *)

\* The largest of a set to which a larger element is added.
LEMMA MaxNext ==
  ASSUME NEW n \in Nat, NEW T \in SUBSET (1 .. n + 1), n + 1 \in T
  PROVE  Max(T) = n + 1
<1>1. T \in SUBSET (0 .. n + 1) /\ T # {} /\ n + 1 \in Nat
  OBVIOUS
<1>2. Max(T) \in T /\ n + 1 <= Max(T)
  BY <1>1, MaxIs
<1>3. Max(T) \in 1 .. n + 1
  BY <1>2
<1> QED
  BY <1>2, <1>3

LEMMA JoinedStep ==
  ASSUME NEW i \in Nat, NEW kind, NEW id
  PROVE  JoinedBy(kind, id, i + 1) =
           IF Whole(i + 1) /\ Of(i + 1).type = kind /\ Of(i + 1).req = id
           THEN Of(i + 1).symbol
           ELSE JoinedBy(kind, id, i)
<1> DEFINE P(k) == Whole(k) /\ Of(k).type = kind /\ Of(k).req = id
<1>1. AnnouncedBy(kind, id, i) = {k \in 1 .. i : P(k)}
  BY DEF AnnouncedBy
<1>2. AnnouncedBy(kind, id, i + 1) = {k \in 1 .. i + 1 : P(k)}
  BY DEF AnnouncedBy
<1>3. i + 1 \in 1 .. i + 1 /\ \A k : k \in 1 .. i + 1 <=> k \in 1 .. i \/ k = i + 1
  OBVIOUS
<1>4. CASE P(i + 1)
  <2> DEFINE A == AnnouncedBy(kind, id, i + 1)
  <2>1. A \in SUBSET (1 .. i + 1) /\ i + 1 \in A
    BY <1>2, <1>3, <1>4
  <2> HIDE DEF A
  <2>2. Max(A) = i + 1 /\ A # {}
    BY <2>1, MaxNext
  <2> QED
    BY <1>4, <2>2 DEF JoinedBy, A
<1>5. CASE ~P(i + 1)
  <2>1. AnnouncedBy(kind, id, i + 1) = AnnouncedBy(kind, id, i)
    <3> HIDE DEF P
    <3> QED
      BY <1>1, <1>2, <1>3, <1>5
  <2> QED
    BY <1>5, <2>1 DEF JoinedBy
<1> QED
  BY <1>4, <1>5

LEMMA NewestStep ==
  ASSUME NEW i \in Nat, NEW s, NEW f
  PROVE  Newest(s, f, i + 1) =
           IF /\ Counts(i + 1) /\ Of(i + 1).type = "tick" /\ Of(i + 1).field = f
              /\ JoinedTo(i + 1) = s
           THEN i + 1
           ELSE Newest(s, f, i)
<1> DEFINE P(k) == Counts(k) /\ Of(k).type = "tick" /\ Of(k).field = f /\ JoinedTo(k) = s
<1>1. TicksOf(s, f, i) = {k \in 1 .. i : P(k)}
  BY DEF TicksOf
<1>2. TicksOf(s, f, i + 1) = {k \in 1 .. i + 1 : P(k)}
  BY DEF TicksOf
<1>3. i + 1 \in 1 .. i + 1 /\ \A k : k \in 1 .. i + 1 <=> k \in 1 .. i \/ k = i + 1
  OBVIOUS
<1>4. CASE P(i + 1)
  <2> DEFINE A == TicksOf(s, f, i + 1)
  <2>1. A \in SUBSET (1 .. i + 1) /\ i + 1 \in A
    BY <1>2, <1>3, <1>4
  <2> HIDE DEF A
  <2>2. Max(A) = i + 1 /\ A # {}
    BY <2>1, MaxNext
  <2> QED
    BY <1>4, <2>2 DEF Newest, A
<1>5. CASE ~P(i + 1)
  <2>1. TicksOf(s, f, i + 1) = TicksOf(s, f, i)
    <3> HIDE DEF P
    <3> QED
      BY <1>1, <1>2, <1>3, <1>5
  <2> QED
    BY <1>5, <2>1 DEF Newest
<1> QED
  BY <1>4, <1>5

\* What data on a line are joined to.
LEMMA JoinedToIs ==
  ASSUME NEW i
  PROVE  JoinedTo(i) = JoinedBy(KindOf(Of(i)), Of(i).req, i)
BY DEF JoinedTo, JoinedBy, Announced, AnnouncedBy

\* A data line is no request, so it is joined to what the maps had before it.
LEMMA JoinedBefore ==
  ASSUME NEW i \in Nat, Of(i + 1).type \notin Kinds
  PROVE  JoinedTo(i + 1) = JoinedBy(KindOf(Of(i + 1)), Of(i + 1).req, i)
<1>1. KindOf(Of(i + 1)) \in Kinds
  BY DEF KindOf, Kinds
<1> QED
  BY <1>1, JoinedToIs, JoinedStep

LEMMA QuoteAtIs ==
  ASSUME NEW i
  PROVE  QuoteAt(i) = [f \in Known |-> Newest(JoinedTo(i), f, i)]
BY DEF QuoteAt, Newest, TicksOf

\* None of this depends on later lines.
LEMMA JoinedFrame ==
  ASSUME NEW n \in Nat, \A k \in 1 .. n : lines'[k] = lines[k], NEW i \in 0 .. n,
         NEW kind, NEW id
  PROVE  JoinedBy(kind, id, i)' = JoinedBy(kind, id, i)
<1>1. \A k \in 1 .. i : (Whole(k)' <=> Whole(k)) /\ Of(k)' = Of(k)
  BY DEF Whole, Of
<1>2. AnnouncedBy(kind, id, i)' = AnnouncedBy(kind, id, i)
  BY <1>1 DEF AnnouncedBy
<1>3. CASE AnnouncedBy(kind, id, i) # {}
  <2> DEFINE A == AnnouncedBy(kind, id, i)
  <2>1. A \in SUBSET (1 .. i) /\ A \in SUBSET (0 .. i) /\ A # {} /\ i \in Nat
    BY <1>3 DEF AnnouncedBy
  <2>2. Max(A) \in 1 .. i
    <3> HIDE DEF A
    <3> QED
      BY <2>1, MaxIs
  <2>3. \A m : m \in 1 .. i => Of(m)' = Of(m)
    BY <1>1
  <2>4. PICK m : m = Max(A)
    OBVIOUS
  <2> QED
    BY <1>2, <1>3, <2>2, <2>3, <2>4 DEF JoinedBy
<1>4. CASE AnnouncedBy(kind, id, i) = {}
  BY <1>2, <1>4 DEF JoinedBy
<1> QED
  BY <1>3, <1>4

LEMMA LineFrame ==
  ASSUME NEW n \in Nat, \A k \in 1 .. n : lines'[k] = lines[k], NEW i \in 1 .. n
  PROVE  /\ Whole(i)' <=> Whole(i)
         /\ Of(i)' = Of(i)
         /\ JoinedTo(i)' = JoinedTo(i)
         /\ Counts(i)' <=> Counts(i)
<1>1. (Whole(i)' <=> Whole(i)) /\ Of(i)' = Of(i)
  BY DEF Whole, Of
<1>2. JoinedTo(i)' = JoinedTo(i)
  <2>1. PICK kind, id : kind = KindOf(Of(i)) /\ id = Of(i).req
    OBVIOUS
  <2>2. JoinedBy(kind, id, i)' = JoinedBy(kind, id, i)
    BY JoinedFrame
  <2>3. Announced(i) = AnnouncedBy(kind, id, i)
    BY <2>1 DEF Announced, AnnouncedBy
  <2>4. Announced(i)' = AnnouncedBy(kind, id, i)'
    BY <1>1, <2>1 DEF Announced, AnnouncedBy, KindOf
  <2>5. JoinedTo(i) = JoinedBy(kind, id, i)
    BY <2>3 DEF JoinedTo, JoinedBy
  <2>6. JoinedTo(i)' = JoinedBy(kind, id, i)'
    BY <2>4 DEF JoinedTo, JoinedBy
  <2> QED
    BY <2>2, <2>5, <2>6
<1> QED
  BY <1>1, <1>2 DEF Counts

LEMMA NewestFrame ==
  ASSUME NEW n \in Nat, \A k \in 1 .. n : lines'[k] = lines[k], NEW i \in 0 .. n,
         NEW s, NEW f
  PROVE  Newest(s, f, i)' = Newest(s, f, i)
<1>1. \A k \in 1 .. i : /\ Of(k)' = Of(k) /\ JoinedTo(k)' = JoinedTo(k)
                        /\ Counts(k)' <=> Counts(k)
  BY LineFrame
<1>2. TicksOf(s, f, i)' = TicksOf(s, f, i)
  BY <1>1 DEF TicksOf
<1> QED
  BY <1>2 DEF Newest

LEMMA QuoteFrame ==
  ASSUME NEW n \in Nat, \A k \in 1 .. n : lines'[k] = lines[k], NEW i \in 1 .. n
  PROVE  QuoteAt(i)' = QuoteAt(i)
<1>1. PICK s : s = JoinedTo(i)
  OBVIOUS
<1>2. JoinedTo(i)' = s
  BY <1>1, LineFrame
<1>3. \A f : Newest(s, f, i)' = Newest(s, f, i)
  BY NewestFrame
<1>4. QuoteAt(i) = [f \in Known |-> Newest(s, f, i)]
  BY <1>1, QuoteAtIs
<1>5. QuoteAt(i)' = [f \in Known |-> Newest(s, f, i)']
  BY <1>2 DEF QuoteAt, Newest, TicksOf
<1> QED
  BY <1>3, <1>4, <1>5

----------------------------------------------------------------------------
(* What the processor has written, as lines are added and read.            *)

\* A line a normalized event is written for.
IsNormalized(i) ==
    /\ Counts(i) /\ Shown(JoinedTo(i))
    /\ IF Of(i).type = "tick" THEN EmitQuotes ELSE EmitBars
\* The event.
EventFor(i) ==
    [line |-> i, symbol |-> JoinedTo(i),
     quote |-> IF Of(i).type = "tick" THEN QuoteAt(i) ELSE NoQuote]

\* A line whose events are lost.
Lost(i) == Len(lines[i]) > 1 \/ (Whole(i) /\ Of(i).type = "chain" /\ Of(i).field = "many")

LEMMA EventFrame ==
  ASSUME NEW n \in Nat, \A k \in 1 .. n : lines'[k] = lines[k], NEW i \in 1 .. n
  PROVE  /\ IsNormalized(i)' <=> IsNormalized(i)
         /\ EventFor(i)' = EventFor(i)
         /\ Lost(i)' <=> Lost(i)
<1>1. /\ Whole(i)' <=> Whole(i)
      /\ Of(i)' = Of(i)
      /\ JoinedTo(i)' = JoinedTo(i)
      /\ Counts(i)' <=> Counts(i)
  BY LineFrame
<1>2. QuoteAt(i)' = QuoteAt(i)
  BY QuoteFrame
<1>3. IsNormalized(i)' <=> IsNormalized(i)
  BY <1>1 DEF IsNormalized, Shown
<1>4. EventFor(i)' = EventFor(i)
  BY <1>1, <1>2 DEF EventFor, NoQuote
<1>5. Lost(i)' <=> Lost(i)
  BY <1>1 DEF Lost
<1> QED
  BY <1>3, <1>4, <1>5

\* OutputIsNormalized, of the events as they should be.
EventsAreFor ==
    /\ {output[i].line : i \in DOMAIN output} = {i \in 1 .. processed : IsNormalized(i)}
    /\ \A i, j \in DOMAIN output : i < j => output[i].line < output[j].line
    /\ \A i \in DOMAIN output : output[i] = EventFor(output[i].line)

LEMMA OutputIs == TypeInv => (OutputIsNormalized <=> EventsAreFor)
<1> SUFFICES ASSUME TypeInv
             PROVE  OutputIsNormalized <=> EventsAreFor
  OBVIOUS
<1>1. Normalized = {i \in 1 .. processed : IsNormalized(i)}
  BY DEF Normalized, IsNormalized
<1>2. \A i \in DOMAIN output : output[i] \in [line : Nat, symbol : Symbols, quote : Quotes]
  <2>1. output \in Seq([line : Nat, symbol : Symbols, quote : Quotes])
    BY DEF TypeInv
  <2> QED
    BY <2>1, LenProperties, ElementOfSeq
<1>3. ASSUME NEW i \in DOMAIN output
      PROVE  output[i] = EventFor(output[i].line) <=>
               /\ output[i].symbol = JoinedTo(output[i].line)
               /\ output[i].quote = IF Of(output[i].line).type = "tick"
                                    THEN QuoteAt(output[i].line) ELSE NoQuote
  <2>1. PICK e : e = output[i]
    OBVIOUS
  <2>2. e \in [line : Nat, symbol : Symbols, quote : Quotes]
    BY <1>2, <2>1
  <2>3. e = [line |-> e.line, symbol |-> e.symbol, quote |-> e.quote]
    BY <2>2
  <2> QED
    BY <2>1, <2>3 DEF EventFor
<1>4. Range(output) = {output[i] : i \in DOMAIN output}
  BY DEF Range
<1> QED
  BY <1>1, <1>3, <1>4 DEF OutputIsNormalized, EventsAreFor

\* Lines that are added change nothing of what was read.
LEMMA WritingKeeps ==
  ASSUME TypeInv, UNCHANGED processor, \A k \in 1 .. Len(lines) : lines'[k] = lines[k],
         TypeInv', MapsInv, QuotesInv, OutputIsNormalized, ErrorsCounted
  PROVE  MapsInv' /\ QuotesInv' /\ OutputIsNormalized' /\ ErrorsCounted'
<1>1. /\ processed' = processed /\ parseErrors' = parseErrors /\ output' = output
      /\ marketDataRequests' = marketDataRequests /\ historicalRequests' = historicalRequests
      /\ quotes' = quotes
  BY DEF processor
<1>2. processed \in Nat /\ \A k \in 1 .. processed : lines'[k] = lines[k]
  <2>1. Len(lines) \in Nat /\ processed \in 0 .. Len(lines)
    BY DEF TypeInv
  <2> QED
    BY <2>1
<1>3. PICK n : n = processed
  OBVIOUS
<1>4. n \in Nat /\ n \in 0 .. n /\ \A k \in 1 .. n : lines'[k] = lines[k]
  BY <1>2, <1>3
<1>5. MapsInv'
  <2>1. \A kind, id : JoinedBy(kind, id, n)' = JoinedBy(kind, id, n)
    BY <1>4, JoinedFrame
  <2> QED
    BY <1>1, <1>3, <2>1 DEF MapsInv
<1>6. QuotesInv'
  <2>1. \A s, f : Newest(s, f, n)' = Newest(s, f, n)
    BY <1>4, NewestFrame
  <2> QED
    BY <1>1, <1>3, <2>1 DEF QuotesInv
<1>7. \A i \in 1 .. n : /\ IsNormalized(i)' <=> IsNormalized(i)
                        /\ EventFor(i)' = EventFor(i)
                        /\ Lost(i)' <=> Lost(i)
  BY <1>4, EventFrame
<1>8. OutputIsNormalized'
  <2>1. /\ {output[i].line : i \in DOMAIN output} = {i \in 1 .. processed : IsNormalized(i)}
        /\ \A i, j \in DOMAIN output : i < j => output[i].line < output[j].line
        /\ \A i \in DOMAIN output : output[i] = EventFor(output[i].line)
    BY OutputIs DEF EventsAreFor
  <2>2. {i \in 1 .. processed' : IsNormalized(i)'} = {i \in 1 .. processed : IsNormalized(i)}
    BY <1>1, <1>3, <1>7
  <2>3. ASSUME NEW i \in DOMAIN output
        PROVE  output[i] = EventFor(output[i].line)'
    <3>1. PICK l : l = output[i].line
      OBVIOUS
    <3>2. l \in 1 .. n /\ output[i] = EventFor(l)
      BY <1>3, <2>1, <3>1
    <3>3. output[i] = EventFor(l)'
      BY <1>7, <3>2
    <3>4. output'[i].line = l
      BY <1>1, <3>1
    <3> QED
      BY <1>1, <3>1, <3>3, <3>4
  <2>4. /\ {output'[i].line : i \in DOMAIN output'} = {i \in 1 .. processed' : IsNormalized(i)'}
        /\ \A i, j \in DOMAIN output' : i < j => output'[i].line < output'[j].line
        /\ \A i \in DOMAIN output' : output'[i] = EventFor(output[i].line)'
    BY <1>1, <2>1, <2>2, <2>3
  <2>5. EventsAreFor'
    BY <2>4 DEF EventsAreFor
  <2>6. (TypeInv => (OutputIsNormalized <=> EventsAreFor))'
    BY OutputIs, PTL
  <2> QED
    BY <2>5, <2>6
<1>9. ErrorsCounted'
  <2>1. {i \in 1 .. processed' : Lost(i)'} = {i \in 1 .. processed : Lost(i)}
    BY <1>1, <1>3, <1>7
  <2> QED
    BY <1>1, <2>1 DEF ErrorsCounted, Lost
<1> QED
  BY <1>5, <1>6, <1>8, <1>9

----------------------------------------------------------------------------
(* The gateway's steps.                                                    *)

\* The requests of the session have ids in their range.
LEMMA AskedIs ==
  ASSUME TypeInv, NEW id \in AskedIds
  PROVE  /\ id \in Ids /\ id # 0
         /\ Asked(id).symbol \in Symbols /\ Asked(id).kind \in Kinds
<1>1. /\ FirstRequestId \in Nat /\ FirstRequestId # 0 /\ MaxRequests \in Nat
      /\ asked \in Seq(Requests) /\ Len(asked) \in Nat /\ Len(asked) <= MaxRequests
  BY ConstantsAre, LenProperties DEF TypeInv
<1>2. id \in Ids /\ id # 0 /\ id - FirstRequestId + 1 \in 1 .. Len(asked)
  BY <1>1 DEF AskedIds, Ids
<1>3. Asked(id) \in Requests
  BY <1>1, <1>2, ElementOfSeq DEF Asked
<1> QED
  BY <1>2, <1>3 DEF Requests

\* An event of a request of the session.
LEMMA EventIs ==
  ASSUME TypeInv, NEW id \in AskedIds, NEW type \in Kinds \cup {"tick", "bar"},
         NEW field \in TickFields \cup {"none"}, NEW value \in BOOLEAN
  PROVE  LET e == Event(type, id, field, value)
         IN  e \in Events /\ IsEvent(e) /\ OfSession(e) /\ e.session = session
<1>1. /\ id \in Ids /\ id # 0 /\ Asked(id).symbol \in Symbols /\ session \in Nat
  BY AskedIs DEF TypeInv
<1>2. Event(type, id, field, value) =
        [type |-> type, req |-> id, field |-> field, value |-> value, session |-> session,
         symbol |-> Asked(id).symbol]
  BY <1>1 DEF Event
<1>3. Event(type, id, field, value) \in Events
  BY <1>1, <1>2 DEF Events
<1>4. type # "chain"
  BY DEF Kinds
<1> QED
  BY <1>1, <1>2, <1>3, <1>4 DEF IsEvent, OfSession

\* An option chain.
LEMMA ChainIs ==
  ASSUME TypeInv, NEW field \in {"one", "many"}
  PROVE  LET e == Chain(field)
         IN  /\ e \in Events /\ IsEvent(e) /\ OfSession(e) /\ e.session = session
             /\ e.type = "chain" /\ e.field = field
<1>1. session \in Nat
  BY DEF TypeInv
<1>2. Chain(field) = [type |-> "chain", req |-> 0, field |-> field, value |-> TRUE,
                      session |-> session, symbol |-> NoSymbol]
  BY DEF Chain, Event
<1>3. Chain(field) \in Events
  BY <1>1, <1>2 DEF Events
<1> QED
  BY <1>1, <1>2, <1>3 DEF IsEvent, OfSession

\* A line that the running session can write.
IsNew(line) ==
    /\ line \in Seq(Events) /\ IsLine(line)
    /\ Len(line) = 1 => OfSession(line[1]) /\ line[1].session = session

LEMMA NewLines ==
  ASSUME TypeInv, NEW e \in Events, IsEvent(e), OfSession(e), e.session = session
  PROVE  IsNew(<<e>>) /\ IsNew(<<>>) /\ IsNew(<<Chain("many"), e>>)
<1>1. PICK c : c = Chain("many")
  OBVIOUS
<1>2. c \in Events /\ IsEvent(c) /\ c.type = "chain" /\ c.field = "many"
  BY <1>1, ChainIs
<1>3. IsNew(<<e>>)
  <2>1. Len(<<e>>) = 1 /\ <<e>>[1] = e /\ <<e>> \in Seq(Events)
    OBVIOUS
  <2>2. IsLine(<<e>>)
    BY DEF IsLine
  <2> QED
    BY <2>1, <2>2 DEF IsNew
<1>4. IsNew(<<>>)
  <2>1. Len(<<>>) = 0 /\ <<>> \in Seq(Events)
    BY EmptySeq
  <2>2. IsLine(<<>>)
    BY DEF IsLine
  <2> QED
    BY <2>1, <2>2 DEF IsNew
<1>5. IsNew(<<c, e>>)
  <2>1. Len(<<c, e>>) = 2 /\ <<c, e>> \in Seq(Events)
    BY <1>2
  <2>2. IsLine(<<c, e>>)
    BY <1>2 DEF IsLine
  <2> QED
    BY <2>1, <2>2 DEF IsNew
<1> QED
  BY <1>1, <1>3, <1>4, <1>5

\* The lines when one is added.
LEMMA LineAdded ==
  ASSUME TypeInv, NEW line, IsNew(line), lines' = Append(lines, line)
  PROVE  /\ lines' \in Seq(Seq(Events)) /\ Len(lines) \in Nat /\ Len(lines') = Len(lines) + 1
         /\ \A k \in 1 .. Len(lines) : lines'[k] = lines[k]
         /\ lines'[Len(lines) + 1] = line
         /\ \A i \in 1 .. Len(lines') : i \in 1 .. Len(lines) \/ i = Len(lines) + 1
         /\ \A i \in 1 .. Len(lines') : IsLine(lines'[i])
         /\ processed \in 0 .. Len(lines')
<1>1. lines \in Seq(Seq(Events)) /\ line \in Seq(Events) /\ Len(lines) \in Nat
  BY LenProperties DEF TypeInv, IsNew
<1>2. /\ lines' \in Seq(Seq(Events)) /\ Len(lines') = Len(lines) + 1
      /\ \A k \in 1 .. Len(lines) : lines'[k] = lines[k]
      /\ lines'[Len(lines) + 1] = line
  BY <1>1, AppendProperties
<1>3. \A i \in 1 .. Len(lines') : i \in 1 .. Len(lines) \/ i = Len(lines) + 1
  BY <1>1, <1>2
<1>4. \A i \in 1 .. Len(lines') : IsLine(lines'[i])
  BY <1>2, <1>3 DEF TypeInv, IsNew
<1>5. processed \in 0 .. Len(lines')
  BY <1>1, <1>2 DEF TypeInv
<1> QED
  BY <1>1, <1>2, <1>3, <1>4, <1>5

LEMMA SessionsGoOn ==
  ASSUME TypeInv, SessionsInv, NEW line, IsNew(line), lines' = Append(lines, line),
         session' = session, asked' = asked
  PROVE  SessionsInv'
<1> PICK n : n = Len(lines)
  OBVIOUS
<1>1. /\ n \in Nat /\ Len(lines') = n + 1
      /\ \A k \in 1 .. n : lines'[k] = lines[k]
      /\ lines'[n + 1] = line
      /\ \A i \in 1 .. Len(lines') : i \in 1 .. n \/ i = n + 1
  BY LineAdded
<1>2. \A k \in 1 .. n : (Whole(k)' <=> Whole(k)) /\ Of(k)' = Of(k)
  BY <1>1 DEF Whole, Of
<1>3. \A e : OfSession(e)' <=> OfSession(e)
  BY DEF OfSession, AskedIds, Asked
<1>4. Whole(n + 1)' => Of(n + 1)' = line[1] /\ OfSession(line[1]) /\ line[1].session = session
  BY <1>1 DEF Whole, Of, IsNew
<1>5. /\ \A k \in 1 .. n : Whole(k) => OfSession(Of(k))
      /\ \A i, j \in 1 .. n : Whole(i) /\ Whole(j) =>
          /\ i <= j => Of(i).session <= Of(j).session
          /\ /\ Of(i).session = Of(j).session /\ Of(i).req = Of(j).req
             /\ Of(i).type # "chain" /\ Of(j).type # "chain"
             => Of(i).symbol = Of(j).symbol
  BY DEF SessionsInv
<1>6. ASSUME NEW i \in 1 .. Len(lines'), Whole(i)'
      PROVE  OfSession(Of(i)')
  <2>1. CASE i \in 1 .. n
    BY <1>2, <1>5, <1>6, <2>1
  <2>2. CASE i = n + 1
    BY <1>4, <1>6, <2>2
  <2> QED
    BY <1>1, <2>1, <2>2
<1>7. ASSUME NEW i \in 1 .. Len(lines'), NEW j \in 1 .. Len(lines'), Whole(i)', Whole(j)'
      PROVE  /\ i <= j => Of(i)'.session <= Of(j)'.session
             /\ /\ Of(i)'.session = Of(j)'.session /\ Of(i)'.req = Of(j)'.req
                /\ Of(i)'.type # "chain" /\ Of(j)'.type # "chain"
                => Of(i)'.symbol = Of(j)'.symbol
  <2>1. CASE i \in 1 .. n /\ j \in 1 .. n
    BY <1>2, <1>5, <1>7, <2>1
  <2>2. CASE i \in 1 .. n /\ j = n + 1
    BY <1>4, <1>6, <1>7, <2>2 DEF OfSession
  <2>3. CASE i = n + 1 /\ j \in 1 .. n
    <3>1. ~(i <= j)
      BY <1>1, <2>3
    <3> QED
      BY <1>4, <1>6, <1>7, <2>3, <3>1 DEF OfSession
  <2>4. CASE i = n + 1 /\ j = n + 1
    <3>1. Of(i)' = line[1] /\ line[1].session = session /\ session \in Nat
      BY <1>4, <1>7, <2>4 DEF TypeInv
    <3> QED
      BY <2>4, <3>1
  <2> QED
    BY <1>1, <2>1, <2>2, <2>3, <2>4
<1> QED
  BY <1>3, <1>6, <1>7 DEF SessionsInv

\* A line is written.
LEMMA WritingStep ==
  ASSUME FlowInv, NEW line, IsNew(line), lines' = Append(lines, line),
         unannounced' \in {0, unannounced}, torn' \in {"no", "open", "ended"},
         UNCHANGED <<piped, session, asked, processor>>
  PROVE  FlowInv'
<1>1. TypeInv'
  <2>1. AskedIds' = AskedIds
    BY DEF AskedIds
  <2>2. /\ lines' \in Seq(Seq(Events)) /\ \A i \in 1 .. Len(lines') : IsLine(lines'[i])
        /\ processed \in 0 .. Len(lines')
    BY LineAdded DEF FlowInv
  <2> QED
    BY <2>1, <2>2 DEF FlowInv, TypeInv, processor
<1>2. \A k \in 1 .. Len(lines) : lines'[k] = lines[k]
  BY LineAdded DEF FlowInv
<1>3. MapsInv' /\ QuotesInv' /\ OutputIsNormalized' /\ ErrorsCounted'
  BY <1>1, <1>2, WritingKeeps DEF FlowInv
<1>4. SessionsInv'
  BY SessionsGoOn DEF FlowInv
<1> QED
  BY <1>1, <1>3, <1>4 DEF FlowInv

LEMMA Emitted ==
  ASSUME FlowInv, NEW e, e \in Events, IsEvent(e), OfSession(e), e.session = session, EmitLine(e),
         unannounced' \in {0, unannounced}, torn' \in {"no", "open", "ended"},
         UNCHANGED <<piped, session, asked, processor>>
  PROVE  FlowInv'
<1>1. TypeInv
  BY DEF FlowInv
<1>2. IsNew(<<e>>) /\ IsNew(<<Chain("many"), e>>)
  BY <1>1, NewLines
<1>3. CASE torn = "open"
  BY <1>2, <1>3, WritingStep DEF EmitLine
<1>4. CASE torn # "open"
  BY <1>2, <1>4, WritingStep DEF EmitLine
<1> QED
  BY <1>3, <1>4

LEMMA ReaderKeeps ==
  ASSUME FlowInv, NEW e, e \in Events, IsEvent(e), OfSession(e), e.session = session,
         ReaderEmits(e)
  PROVE  FlowInv'
<1>1. EmitLine(e) /\ UNCHANGED <<piped, session, asked, unannounced, torn, processor>>
  BY DEF ReaderEmits
<1>2. torn' \in {"no", "open", "ended"}
  BY <1>1 DEF FlowInv, TypeInv
<1> QED
  BY <1>1, <1>2, Emitted

\* Steps that write no line.
LEMMA NoLineStep ==
  ASSUME FlowInv, lines' = lines, UNCHANGED processor, TypeInv', SessionsInv'
  PROVE  FlowInv'
<1>1. MapsInv' /\ QuotesInv' /\ OutputIsNormalized' /\ ErrorsCounted'
  BY WritingKeeps DEF FlowInv
<1> QED
  BY <1>1 DEF FlowInv

LEMMA SendKeeps ==
  ASSUME FlowInv, NEW kind \in Kinds, NEW symbol \in Symbols, Send(kind, symbol)
  PROVE  FlowInv'
<1> DEFINE r == [kind |-> kind, symbol |-> symbol]
<1>1. /\ unannounced' = FirstRequestId + Len(asked) /\ Len(asked) < MaxRequests
      /\ asked' = Append(asked, r)
      /\ UNCHANGED <<piped, session, lines, torn, processor>>
  BY DEF Send
<1>2. asked \in Seq(Requests) /\ r \in Requests /\ Len(asked) \in Nat /\ TypeInv
  BY LenProperties DEF FlowInv, TypeInv, Requests
<1> HIDE DEF r
<1>3. /\ asked' \in Seq(Requests) /\ Len(asked') = Len(asked) + 1
      /\ \A k \in 1 .. Len(asked) : asked'[k] = asked[k]
  BY <1>1, <1>2, AppendProperties
<1>4. FirstRequestId \in Nat /\ MaxRequests \in Nat
  BY ConstantsAre
<1>5. \A id \in AskedIds : id \in AskedIds' /\ Asked(id)' = Asked(id)
  <2> SUFFICES ASSUME NEW id \in AskedIds
               PROVE  id \in AskedIds' /\ Asked(id)' = Asked(id)
    OBVIOUS
  <2>1. id \in Nat /\ id - FirstRequestId + 1 \in 1 .. Len(asked)
    BY <1>2, <1>4 DEF AskedIds
  <2> QED
    BY <1>2, <1>3, <1>4, <2>1 DEF AskedIds, Asked
<1>6. unannounced' \in AskedIds' /\ Len(asked') <= MaxRequests
  BY <1>1, <1>2, <1>3, <1>4 DEF AskedIds
<1>7. TypeInv'
  BY <1>1, <1>2, <1>3, <1>6 DEF TypeInv, processor
<1>8. SessionsInv'
  <2>1. \A e : OfSession(e) => OfSession(e)'
    BY <1>1, <1>5 DEF OfSession
  <2>2. \A i \in 1 .. Len(lines) : (Whole(i)' <=> Whole(i)) /\ Of(i)' = Of(i)
    BY <1>1 DEF Whole, Of
  <2>3. SessionsInv /\ lines' = lines
    BY <1>1 DEF FlowInv
  <2> QED
    BY <2>1, <2>2, <2>3 DEF SessionsInv
<1> QED
  BY <1>1, <1>7, <1>8, NoLineStep

LEMMA AnnounceKeeps ==
  ASSUME FlowInv, Announce
  PROVE  FlowInv'
<1>1. unannounced \in AskedIds /\ TypeInv
  BY DEF Announce, FlowInv, TypeInv
<1>2. Asked(unannounced).kind \in Kinds
  BY <1>1, AskedIs
<1>3. PICK e : e = Event(Asked(unannounced).kind, unannounced, "none", FALSE)
  OBVIOUS
<1>4. e \in Events /\ IsEvent(e) /\ OfSession(e) /\ e.session = session
  BY <1>1, <1>2, <1>3, EventIs
<1>5. EmitLine(e) /\ unannounced' = 0 /\ torn' \in {"no", "open", "ended"}
  BY <1>1, <1>3 DEF Announce, TypeInv
<1>6. UNCHANGED <<piped, session, asked, processor>>
  BY DEF Announce
<1> QED
  BY <1>4, <1>5, <1>6, Emitted

LEMMA TickKeeps ==
  ASSUME FlowInv, NEW id \in AskedIds, NEW field \in TickFields, NEW value \in BOOLEAN,
         Tick(id, field, value)
  PROVE  FlowInv'
<1>1. PICK e : e = Event("tick", id, field, value)
  OBVIOUS
<1>2. e \in Events /\ IsEvent(e) /\ OfSession(e) /\ e.session = session
  BY <1>1, EventIs DEF FlowInv
<1> QED
  BY <1>1, <1>2, ReaderKeeps DEF Tick

LEMMA BarKeeps ==
  ASSUME FlowInv, NEW id \in AskedIds, Bar(id)
  PROVE  FlowInv'
<1>1. PICK e : e = Event("bar", id, "none", TRUE)
  OBVIOUS
<1>2. e \in Events /\ IsEvent(e) /\ OfSession(e) /\ e.session = session
  BY <1>1, EventIs DEF FlowInv
<1> QED
  BY <1>1, <1>2, ReaderKeeps DEF Bar

LEMMA ShortChainKeeps ==
  ASSUME FlowInv, ShortChain
  PROVE  FlowInv'
<1>1. PICK e : e = Chain("one")
  OBVIOUS
<1>2. e \in Events /\ IsEvent(e) /\ OfSession(e) /\ e.session = session
  BY <1>1, ChainIs DEF FlowInv
<1> QED
  BY <1>1, <1>2, ReaderKeeps DEF ShortChain

LEMMA LongChainKeeps ==
  ASSUME FlowInv, LongChain
  PROVE  FlowInv'
<1>1. CASE piped
  <2>1. torn' = "open" /\ UNCHANGED <<piped, session, asked, unannounced, lines, processor>>
    BY <1>1 DEF LongChain
  <2>2. AskedIds' = AskedIds
    BY <2>1 DEF AskedIds
  <2>3. TypeInv'
    BY <2>1, <2>2 DEF FlowInv, TypeInv, processor
  <2>4. SessionsInv'
    BY <2>1, <2>2 DEF FlowInv, SessionsInv, OfSession, Asked, Whole, Of
  <2> QED
    BY <2>1, <2>3, <2>4, NoLineStep
<1>2. CASE ~piped
  <2>1. PICK e : e = Chain("many")
    OBVIOUS
  <2>2. e \in Events /\ IsEvent(e) /\ OfSession(e) /\ e.session = session
    BY <2>1, ChainIs DEF FlowInv
  <2> QED
    BY <1>2, <2>1, <2>2, ReaderKeeps DEF LongChain
<1> QED
  BY <1>1, <1>2

LEMMA ChainNewlineKeeps ==
  ASSUME FlowInv, ChainNewline
  PROVE  FlowInv'
<1>1. PICK e : e = Chain("many")
  OBVIOUS
<1>2. e \in Events /\ IsEvent(e) /\ OfSession(e) /\ e.session = session
  BY <1>1, ChainIs DEF FlowInv
<1>3. IsNew(<<e>>) /\ IsNew(<<>>)
  BY <1>2, NewLines DEF FlowInv
<1>4. /\ lines' = Append(lines, IF torn = "open" THEN <<e>> ELSE <<>>)
      /\ torn' = "no" /\ UNCHANGED <<piped, session, asked, unannounced, processor>>
  BY <1>1 DEF ChainNewline
<1>5. PICK line : line = IF torn = "open" THEN <<e>> ELSE <<>>
  OBVIOUS
<1>6. IsNew(line)
  BY <1>3, <1>5
<1> QED
  BY <1>4, <1>5, <1>6, WritingStep

LEMMA RestartKeeps ==
  ASSUME FlowInv, Restart
  PROVE  FlowInv'
<1>1. /\ session' = session + 1 /\ asked' = <<>> /\ unannounced' = 0
      /\ UNCHANGED <<piped, lines, torn, processor>>
  BY DEF Restart
<1>2. session \in Nat /\ MaxRequests \in Nat
  BY ConstantsAre DEF FlowInv, TypeInv
<1>3. asked' \in Seq(Requests) /\ Len(asked') <= MaxRequests
  BY <1>1, <1>2, EmptySeq
<1>4. TypeInv'
  BY <1>1, <1>2, <1>3 DEF FlowInv, TypeInv, processor
<1>5. SessionsInv'
  <2>1. \A i \in 1 .. Len(lines) : Whole(i) => IsEvent(Of(i)) /\ Of(i).session <= session
    BY LineIs DEF FlowInv, TypeInv, SessionsInv, OfSession, Whole, Of
  <2>2. \A i \in 1 .. Len(lines) : Whole(i) => Of(i).session \in Nat /\ Of(i).session <= session
    BY <2>1 DEF IsEvent
  <2>3. \A i \in 1 .. Len(lines) : (Whole(i)' <=> Whole(i)) /\ Of(i)' = Of(i)
    BY <1>1 DEF Whole, Of
  <2>4. \A i \in 1 .. Len(lines) : Whole(i) => OfSession(Of(i))'
    <3> SUFFICES ASSUME NEW i \in 1 .. Len(lines), Whole(i)
                 PROVE  OfSession(Of(i))'
      OBVIOUS
    <3>1. Of(i)'.session \in Nat /\ Of(i)'.session <= session
      BY <2>2, <2>3
    <3> QED
      BY <1>1, <1>2, <3>1 DEF OfSession
  <2>5. SessionsInv /\ lines' = lines
    BY <1>1 DEF FlowInv
  <2> QED
    BY <2>3, <2>4, <2>5 DEF SessionsInv
<1> QED
  BY <1>1, <1>4, <1>5, NoLineStep

----------------------------------------------------------------------------
(* The processor's steps.                                                  *)

\* What the processor makes of the next line.
LEMMA LineRead ==
  ASSUME TypeInv, processed < Len(lines), NEW i, i = processed + 1
  PROVE  /\ i \in 1 .. Len(lines) /\ i \in Nat /\ processed \in Nat /\ Len(lines) \in Nat
         /\ Line.ok => Whole(i) /\ IsEvent(Of(i)) /\ Understood(Of(i), Line)
         /\ lines[i] = <<>> => ~Whole(i)
         /\ Lost(i) <=> lines[i] # <<>> /\ ~Line.ok
<1>1. Len(lines) \in Nat /\ processed \in 0 .. Len(lines)
  BY LenProperties DEF TypeInv
<1>2. i \in 1 .. Len(lines) /\ i \in Nat /\ processed \in Nat
  BY <1>1
<1>3. PICK line : line = lines[i]
  OBVIOUS
<1>4. PICK q : q = Line
  OBVIOUS
<1>5. IsLine(line) /\ q = ParseLine(LineText(line))
  BY <1>2, <1>3, <1>4 DEF TypeInv, Line
<1>6. /\ Len(line) \in 0 .. 2
      /\ Len(line) = 0 <=> line = <<>>
      /\ Len(line) = 1 => IsEvent(line[1]) /\ Understood(line[1], q)
      /\ Len(line) # 1 => ~q.ok
  BY <1>5, LineIs
<1>7. q.ok => Whole(i) /\ IsEvent(Of(i)) /\ Understood(Of(i), q)
  BY <1>3, <1>6 DEF Whole, Of
<1>8. lines[i] = <<>> => ~Whole(i)
  BY <1>3, <1>6 DEF Whole
<1>9. Lost(i) <=> lines[i] # <<>> /\ ~q.ok
  <2>1. CASE Len(line) = 0
    BY <1>3, <1>6, <2>1 DEF Lost, Whole
  <2>2. CASE Len(line) = 1
    <3>1. q.ok <=> ~(line[1].type = "chain" /\ line[1].field = "many")
      BY <1>6, <2>2 DEF Understood
    <3> QED
      BY <1>3, <1>6, <2>2, <3>1 DEF Lost, Whole, Of
  <2>3. CASE Len(line) = 2
    BY <1>3, <1>6, <2>3 DEF Lost, Whole
  <2> QED
    BY <1>6, <2>1, <2>2, <2>3
<1> QED
  BY <1>1, <1>2, <1>4, <1>7, <1>8, <1>9

\* The lines stay as they are.
LEMMA ReadingFrame ==
  ASSUME UNCHANGED gateway, NEW n \in Nat
  PROVE  /\ lines' = lines /\ \A k \in 1 .. n : lines'[k] = lines[k]
         /\ \A k \in 1 .. n : /\ IsNormalized(k)' <=> IsNormalized(k)
                              /\ EventFor(k)' = EventFor(k)
                              /\ Lost(k)' <=> Lost(k)
<1>1. lines' = lines
  BY DEF gateway
<1>2. \A k \in 1 .. n : lines'[k] = lines[k]
  BY <1>1
<1>3. \A k \in 1 .. n : /\ IsNormalized(k)' <=> IsNormalized(k)
                        /\ EventFor(k)' = EventFor(k)
                        /\ Lost(k)' <=> Lost(k)
  BY <1>2, EventFrame
<1> QED
  BY <1>1, <1>2, <1>3

\* The maps, the quotes, the events and the count after the next line.
LEMMA MapsNext ==
  ASSUME TypeInv, MapsInv, UNCHANGED gateway, NEW i, i = processed + 1, processed' = i,
         \A id \in Ids :
            /\ marketDataRequests'[id] =
                 IF Whole(i) /\ Of(i).type = "marketData" /\ Of(i).req = id
                 THEN Of(i).symbol ELSE marketDataRequests[id]
            /\ historicalRequests'[id] =
                 IF Whole(i) /\ Of(i).type = "historical" /\ Of(i).req = id
                 THEN Of(i).symbol ELSE historicalRequests[id]
  PROVE  MapsInv'
<1>1. processed \in Nat /\ i \in Nat
  BY DEF TypeInv
<1>2. \A k \in 1 .. i : lines'[k] = lines[k]
  BY <1>1, ReadingFrame
<1>3. \A kind, id : JoinedBy(kind, id, i)' = JoinedBy(kind, id, i)
  BY <1>1, <1>2, JoinedFrame
<1>4. \A kind, id : JoinedBy(kind, id, i) =
         IF Whole(i) /\ Of(i).type = kind /\ Of(i).req = id
         THEN Of(i).symbol
         ELSE JoinedBy(kind, id, processed)
  BY <1>1, JoinedStep
<1> QED
  BY <1>3, <1>4 DEF MapsInv

LEMMA QuotesNext ==
  ASSUME TypeInv, QuotesInv, UNCHANGED gateway, NEW i, i = processed + 1, processed' = i,
         \A s \in Symbols, f \in Known :
            quotes'[s][f] = IF /\ Counts(i) /\ Of(i).type = "tick" /\ Of(i).field = f
                               /\ JoinedTo(i) = s
                            THEN i ELSE quotes[s][f]
  PROVE  QuotesInv'
<1>1. processed \in Nat /\ i \in Nat
  BY DEF TypeInv
<1>2. \A k \in 1 .. i : lines'[k] = lines[k]
  BY <1>1, ReadingFrame
<1>3. \A s, f : Newest(s, f, i)' = Newest(s, f, i)
  BY <1>1, <1>2, NewestFrame
<1>4. \A s, f : Newest(s, f, i) =
         IF /\ Counts(i) /\ Of(i).type = "tick" /\ Of(i).field = f
            /\ JoinedTo(i) = s
         THEN i
         ELSE Newest(s, f, processed)
  BY <1>1, NewestStep
<1> QED
  BY <1>3, <1>4 DEF QuotesInv

LEMMA OutputStays ==
  ASSUME TypeInv, TypeInv', OutputIsNormalized, UNCHANGED gateway, NEW i, i = processed + 1,
         processed' = i, output' = output, ~IsNormalized(i)
  PROVE  OutputIsNormalized'
<1>1. processed \in Nat /\ i \in Nat
  BY DEF TypeInv
<1>2. \A k \in 1 .. i : (IsNormalized(k)' <=> IsNormalized(k)) /\ EventFor(k)' = EventFor(k)
  BY <1>1, ReadingFrame
<1>3. /\ {output[j].line : j \in DOMAIN output} = {k \in 1 .. processed : IsNormalized(k)}
      /\ \A j, k \in DOMAIN output : j < k => output[j].line < output[k].line
      /\ \A j \in DOMAIN output : output[j] = EventFor(output[j].line)
  BY OutputIs DEF EventsAreFor
<1>4. {k \in 1 .. i : IsNormalized(k)'} = {k \in 1 .. processed : IsNormalized(k)}
  <2>1. \A k : k \in 1 .. i <=> k \in 1 .. processed \/ k = i
    BY <1>1
  <2> QED
    BY <1>2, <2>1
<1>5. ASSUME NEW j \in DOMAIN output
      PROVE  output[j] = EventFor(output[j].line)'
  <2>1. PICK l : l = output[j].line
    OBVIOUS
  <2>2. l \in 1 .. i /\ output[j] = EventFor(l)
    BY <1>1, <1>3, <2>1
  <2>3. output[j] = EventFor(l)'
    BY <1>2, <2>2
  <2>4. output'[j].line = l
    BY <2>1
  <2> QED
    BY <2>1, <2>3, <2>4
<1>6. EventsAreFor'
  <2>1. /\ {output'[j].line : j \in DOMAIN output'} = {k \in 1 .. processed' : IsNormalized(k)'}
        /\ \A j, k \in DOMAIN output' : j < k => output'[j].line < output'[k].line
        /\ \A j \in DOMAIN output' : output'[j] = EventFor(output[j].line)'
    BY <1>3, <1>4, <1>5
  <2> QED
    BY <2>1 DEF EventsAreFor
<1>7. (TypeInv => (OutputIsNormalized <=> EventsAreFor))'
  BY OutputIs, PTL
<1> QED
  BY <1>6, <1>7

LEMMA OutputGrows ==
  ASSUME TypeInv, TypeInv', OutputIsNormalized, UNCHANGED gateway, NEW i, i = processed + 1,
         processed' = i, output' = Append(output, EventFor(i)), IsNormalized(i)
  PROVE  OutputIsNormalized'
<1>1. processed \in Nat /\ i \in Nat
  BY DEF TypeInv
<1>2. \A k \in 1 .. i : (IsNormalized(k)' <=> IsNormalized(k)) /\ EventFor(k)' = EventFor(k)
  BY <1>1, ReadingFrame
<1>3. /\ {output[j].line : j \in DOMAIN output} = {k \in 1 .. processed : IsNormalized(k)}
      /\ \A j, k \in DOMAIN output : j < k => output[j].line < output[k].line
      /\ \A j \in DOMAIN output : output[j] = EventFor(output[j].line)
  BY OutputIs DEF EventsAreFor
<1>4. PICK n, e : n = Len(output) /\ e = EventFor(i)
  OBVIOUS
<1>5. /\ n \in Nat /\ DOMAIN output = 1 .. n /\ DOMAIN output' = 1 .. n + 1
      /\ \A j \in 1 .. n : output'[j] = output[j]
      /\ output'[n + 1] = e
  <2> DEFINE S == [line : Nat, symbol : Symbols, quote : Quotes] \cup {e}
  <2>1. output \in Seq([line : Nat, symbol : Symbols, quote : Quotes])
    BY DEF TypeInv
  <2>2. output \in Seq(S) /\ e \in S
    BY <2>1, SeqMonotonic
  <2> HIDE DEF S
  <2>3. output' \in Seq(S) /\ Len(output') = n + 1
    BY <1>4, <2>2, AppendProperties
  <2> QED
    BY <1>4, <2>2, <2>3, AppendProperties, LenProperties
<1>6. e.line = i
  BY <1>4 DEF EventFor
<1>7. \A j \in 1 .. n : output[j].line \in 1 .. processed
  BY <1>3, <1>5
<1>8. \A j \in 1 .. n + 1 : j \in 1 .. n \/ j = n + 1
  BY <1>5
<1>9. {output'[j].line : j \in 1 .. n + 1} = {k \in 1 .. i : IsNormalized(k)'}
  <2>1. \A k : k \in 1 .. i <=> k \in 1 .. processed \/ k = i
    BY <1>1
  <2>2. {output'[j].line : j \in 1 .. n + 1} = {output[j].line : j \in 1 .. n} \cup {i}
    <3>1. \A j \in 1 .. n + 1 : output'[j].line \in {output[k].line : k \in 1 .. n} \cup {i}
      BY <1>5, <1>6, <1>8
    <3>2. \A j \in 1 .. n : j \in 1 .. n + 1 /\ output'[j].line = output[j].line
      BY <1>5
    <3>3. n + 1 \in 1 .. n + 1 /\ output'[n + 1].line = i
      BY <1>5, <1>6
    <3> DEFINE new == {output'[j].line : j \in 1 .. n + 1}
               old == {output[j].line : j \in 1 .. n}
    <3>4. new \subseteq old \cup {i}
      BY <3>1
    <3>5. i \in new
      BY <3>3
    <3>6. \A j \in 1 .. n : output[j].line \in new
      BY <3>2
    <3>7. old \subseteq new
      <4> HIDE DEF new
      <4> QED
        BY <3>6
    <3> HIDE DEF new, old
    <3>8. new = old \cup {i}
      BY <3>4, <3>5, <3>7
    <3> QED
      BY <3>8 DEF new, old
  <2>3. {k \in 1 .. i : IsNormalized(k)'} = {k \in 1 .. processed : IsNormalized(k)} \cup {i}
    BY <1>1, <1>2, <2>1
  <2> QED
    BY <1>3, <1>5, <2>2, <2>3
<1>10. ASSUME NEW j \in 1 .. n + 1, NEW k \in 1 .. n + 1, j < k
       PROVE  output'[j].line < output'[k].line
  <2>1. j \in 1 .. n
    BY <1>5, <1>10
  <2>2. CASE k \in 1 .. n
    BY <1>3, <1>5, <1>10, <2>1, <2>2
  <2>3. CASE k = n + 1
    BY <1>1, <1>5, <1>6, <1>7, <2>1, <2>3
  <2> QED
    BY <1>8, <2>2, <2>3
<1>11. ASSUME NEW j \in 1 .. n + 1
       PROVE  output'[j] = EventFor(output[j].line)'
  <2>1. PICK l : l = output'[j].line
    OBVIOUS
  <2>2. l \in 1 .. i /\ output'[j] = EventFor(l)
    <3>1. CASE j \in 1 .. n
      BY <1>1, <1>3, <1>5, <1>7, <2>1, <3>1
    <3>2. CASE j = n + 1
      BY <1>1, <1>4, <1>5, <1>6, <2>1, <3>2
    <3> QED
      BY <1>8, <3>1, <3>2
  <2>3. output'[j] = EventFor(l)'
    BY <1>2, <2>2
  <2> QED
    BY <2>1, <2>3
<1>12. EventsAreFor'
  BY <1>5, <1>9, <1>10, <1>11 DEF EventsAreFor
<1>13. (TypeInv => (OutputIsNormalized <=> EventsAreFor))'
  BY OutputIs, PTL
<1> QED
  BY <1>12, <1>13

LEMMA ErrorsNext ==
  ASSUME TypeInv, ErrorsCounted, UNCHANGED gateway, NEW i, i = processed + 1, processed' = i,
         parseErrors' = IF Lost(i) THEN parseErrors + 1 ELSE parseErrors
  PROVE  ErrorsCounted'
<1>1. processed \in Nat /\ i \in Nat
  BY DEF TypeInv
<1>2. \A k \in 1 .. i : Lost(k)' <=> Lost(k)
  BY <1>1, ReadingFrame
<1> DEFINE A == {k \in 1 .. processed : Lost(k)}
           B == {k \in 1 .. i : Lost(k)'}
<1>3. B = IF Lost(i) THEN A \cup {i} ELSE A
  <2>1. \A k : k \in 1 .. i <=> k \in 1 .. processed \/ k = i
    BY <1>1
  <2> QED
    BY <1>2, <2>1
<1>4. i \notin A
  BY <1>1
<1>5. IsFiniteSet(A) /\ Cardinality(A) \in Nat
  <2>1. IsFiniteSet(1 .. processed) /\ A \subseteq 1 .. processed
    BY <1>1, FS_Interval
  <2> HIDE DEF A
  <2> QED
    BY <2>1, FS_Subset, FS_CardinalityType
<1>6. parseErrors = Cardinality(A)
  BY DEF ErrorsCounted, Lost
<1>7. parseErrors' = Cardinality(B)
  <2> HIDE DEF A, B
  <2>1. Cardinality(A \cup {i}) = Cardinality(A) + 1
    BY <1>4, <1>5, FS_AddElement
  <2> QED
    BY <1>3, <1>6, <2>1
<1> QED
  BY <1>7 DEF ErrorsCounted, Lost

\* A line that is read and is neither counted nor a request or data.
LEMMA ReadStep ==
  ASSUME FlowInv, UNCHANGED gateway, NEW i, i = processed + 1, processed' = i,
         processed < Len(lines), TypeInv', MapsInv', QuotesInv', OutputIsNormalized',
         parseErrors' = IF Lost(i) THEN parseErrors + 1 ELSE parseErrors
  PROVE  FlowInv'
<1>1. ErrorsCounted'
  BY ErrorsNext DEF FlowInv
<1>2. SessionsInv'
  BY DEF FlowInv, SessionsInv, OfSession, AskedIds, Asked, Whole, Of, gateway
<1> QED
  BY <1>1, <1>2 DEF FlowInv

\* The gateway's variables keep their types, and a line is read.
LEMMA ReadTypes ==
  ASSUME TypeInv, UNCHANGED gateway, processed < Len(lines), processed' = processed + 1,
         parseErrors' \in Nat,
         marketDataRequests' \in [Ids -> Symbols \cup {NoSymbol}],
         historicalRequests' \in [Ids -> Symbols \cup {NoSymbol}],
         quotes' \in [Symbols -> Quotes],
         output' \in Seq([line : Nat, symbol : Symbols, quote : Quotes])
  PROVE  TypeInv'
<1>1. processed' \in 0 .. Len(lines)
  BY LenProperties DEF TypeInv
<1>2. AskedIds' = AskedIds
  BY DEF AskedIds, gateway
<1> QED
  BY <1>1, <1>2 DEF TypeInv, gateway

\* A line that changes neither maps nor quotes nor the output.
LEMMA IdleStep ==
  ASSUME FlowInv, NEW i, i = processed + 1, processed' = i, processed < Len(lines),
         UNCHANGED <<marketDataRequests, historicalRequests, quotes, output, gateway>>,
         ~Whole(i) \/ Of(i).type = "chain",
         parseErrors' = IF Lost(i) THEN parseErrors + 1 ELSE parseErrors
  PROVE  FlowInv'
<1>1. TypeInv'
  <2>1. parseErrors' \in Nat
    BY DEF FlowInv, TypeInv
  <2> QED
    BY <2>1, ReadTypes DEF FlowInv, TypeInv
<1>2. ~Counts(i) /\ ~IsNormalized(i)
  BY DEF Counts, IsNormalized
<1>3. MapsInv'
  BY MapsNext DEF FlowInv
<1>4. QuotesInv'
  BY <1>2, QuotesNext DEF FlowInv
<1>5. OutputIsNormalized'
  BY <1>1, <1>2, OutputStays DEF FlowInv
<1> QED
  BY <1>1, <1>3, <1>4, <1>5, ReadStep

LEMMA PassOverKeeps ==
  ASSUME FlowInv, PassOver
  PROVE  FlowInv'
<1>1. PICK i : i = processed + 1
  OBVIOUS
<1>2. /\ processed < Len(lines) /\ processed' = i
      /\ lines[i] = <<>> \/ (Line.ok /\ Line.fields["type"] = "chain")
      /\ UNCHANGED <<parseErrors, marketDataRequests, historicalRequests, quotes, output, gateway>>
  BY <1>1 DEF PassOver, Field
<1>3. /\ Line.ok => Whole(i) /\ IsEvent(Of(i)) /\ Understood(Of(i), Line)
      /\ lines[i] = <<>> => ~Whole(i)
      /\ Lost(i) <=> lines[i] # <<>> /\ ~Line.ok
  BY <1>1, <1>2, LineRead DEF FlowInv
<1>4. ~Lost(i) /\ (~Whole(i) \/ Of(i).type = "chain")
  BY <1>2, <1>3 DEF Understood
<1> QED
  BY <1>1, <1>2, <1>4, IdleStep

LEMMA ParseErrorKeeps ==
  ASSUME FlowInv, ParseError
  PROVE  FlowInv'
<1>1. PICK i : i = processed + 1
  OBVIOUS
<1>2. /\ processed < Len(lines) /\ processed' = i /\ parseErrors' = parseErrors + 1
      /\ lines[i] # <<>> /\ ~Line.ok
      /\ UNCHANGED <<marketDataRequests, historicalRequests, quotes, output, gateway>>
  BY <1>1 DEF ParseError
<1>3. Lost(i)
  BY <1>1, <1>2, LineRead DEF FlowInv
<1>4. ~Whole(i) \/ Of(i).type = "chain"
  <2> SUFFICES ASSUME Whole(i)
               PROVE  Of(i).type = "chain"
    OBVIOUS
  <2>1. ~(Len(lines[i]) > 1)
    BY DEF Whole
  <2> QED
    BY <1>3, <2>1 DEF Lost
<1> QED
  BY <1>1, <1>2, <1>3, <1>4, IdleStep

\* What Read says of the next line.
LEMMA ReadIs ==
  ASSUME FlowInv, NEW type, type # "chain", Read(type), NEW i, i = processed + 1
  PROVE  /\ processed < Len(lines) /\ processed' = i /\ parseErrors' = parseErrors
         /\ UNCHANGED gateway /\ ~Lost(i) /\ Whole(i) /\ Of(i).type = type
         /\ Id = Of(i).req /\ Of(i).req \in Ids /\ Of(i).symbol \in Symbols
         /\ type \in Kinds => Field("symbol") = Of(i).symbol
         /\ type = "tick" => /\ Field("field") = Of(i).field
                             /\ (Field("value") # "null") = Of(i).value
<1>1. /\ processed < Len(lines) /\ processed' = i /\ parseErrors' = parseErrors
      /\ UNCHANGED gateway /\ Line.ok /\ Line.fields["type"] = type
  BY DEF Read, Field
<1>2. /\ Whole(i) /\ IsEvent(Of(i)) /\ Understood(Of(i), Line)
      /\ ~Lost(i)
  BY <1>1, LineRead DEF FlowInv
<1>3. Of(i).type = type
  BY <1>1, <1>2 DEF Understood
<1>4. Of(i).req \in Ids /\ Of(i).symbol \in Symbols
  BY <1>2, <1>3 DEF IsEvent
<1> QED
  BY <1>1, <1>2, <1>3, <1>4 DEF Understood, Id, Field

LEMMA MarketDataRequestKeeps ==
  ASSUME FlowInv, MarketDataRequest
  PROVE  FlowInv'
<1>1. PICK i : i = processed + 1
  OBVIOUS
<1>2. /\ processed < Len(lines) /\ processed' = i /\ parseErrors' = parseErrors
      /\ UNCHANGED gateway /\ ~Lost(i) /\ Whole(i) /\ Of(i).type = "marketData"
      /\ Of(i).req \in Ids /\ Of(i).symbol \in Symbols
      /\ marketDataRequests' = [marketDataRequests EXCEPT ![Of(i).req] = Of(i).symbol]
      /\ UNCHANGED <<historicalRequests, quotes, output>>
  BY <1>1, ReadIs DEF MarketDataRequest, Kinds
<1>3. marketDataRequests \in [Ids -> Symbols \cup {NoSymbol}]
  BY DEF FlowInv, TypeInv
<1>4. TypeInv'
  <2>1. marketDataRequests' \in [Ids -> Symbols \cup {NoSymbol}]
    BY <1>2, <1>3
  <2> QED
    BY <1>1, <1>2, <2>1, ReadTypes DEF FlowInv, TypeInv
<1>5. MapsInv'
  <2>1. \A id \in Ids : marketDataRequests'[id] =
          IF Of(i).req = id THEN Of(i).symbol ELSE marketDataRequests[id]
    BY <1>2, <1>3
  <2> QED
    BY <1>1, <1>2, <2>1, MapsNext DEF FlowInv
<1>6. ~Counts(i) /\ ~IsNormalized(i)
  BY <1>2 DEF Counts, IsNormalized
<1>7. QuotesInv'
  BY <1>1, <1>2, <1>6, QuotesNext DEF FlowInv
<1>8. OutputIsNormalized'
  BY <1>1, <1>2, <1>4, <1>6, OutputStays DEF FlowInv
<1> QED
  BY <1>1, <1>2, <1>4, <1>5, <1>7, <1>8, ReadStep

LEMMA HistoricalRequestKeeps ==
  ASSUME FlowInv, HistoricalRequest
  PROVE  FlowInv'
<1>1. PICK i : i = processed + 1
  OBVIOUS
<1>2. /\ processed < Len(lines) /\ processed' = i /\ parseErrors' = parseErrors
      /\ UNCHANGED gateway /\ ~Lost(i) /\ Whole(i) /\ Of(i).type = "historical"
      /\ Of(i).req \in Ids /\ Of(i).symbol \in Symbols
      /\ historicalRequests' = [historicalRequests EXCEPT ![Of(i).req] = Of(i).symbol]
      /\ UNCHANGED <<marketDataRequests, quotes, output>>
  BY <1>1, ReadIs DEF HistoricalRequest, Kinds
<1>3. historicalRequests \in [Ids -> Symbols \cup {NoSymbol}]
  BY DEF FlowInv, TypeInv
<1>4. TypeInv'
  <2>1. historicalRequests' \in [Ids -> Symbols \cup {NoSymbol}]
    BY <1>2, <1>3
  <2> QED
    BY <1>1, <1>2, <2>1, ReadTypes DEF FlowInv, TypeInv
<1>5. MapsInv'
  <2>1. \A id \in Ids : historicalRequests'[id] =
          IF Of(i).req = id THEN Of(i).symbol ELSE historicalRequests[id]
    BY <1>2, <1>3
  <2> QED
    BY <1>1, <1>2, <2>1, MapsNext DEF FlowInv
<1>6. ~Counts(i) /\ ~IsNormalized(i)
  BY <1>2 DEF Counts, IsNormalized
<1>7. QuotesInv'
  BY <1>1, <1>2, <1>6, QuotesNext DEF FlowInv
<1>8. OutputIsNormalized'
  BY <1>1, <1>2, <1>4, <1>6, OutputStays DEF FlowInv
<1> QED
  BY <1>1, <1>2, <1>4, <1>5, <1>7, <1>8, ReadStep

\* The symbol a data line is joined to is what the maps have.
LEMMA JoinedToMap ==
  ASSUME FlowInv, NEW i, i = processed + 1, Of(i).req \in Ids
  PROVE  /\ Of(i).type = "tick" => JoinedTo(i) = marketDataRequests[Of(i).req]
         /\ Of(i).type = "bar" => JoinedTo(i) = historicalRequests[Of(i).req]
<1>1. processed \in Nat
  BY DEF FlowInv, TypeInv
<1>2. Of(i).type \notin Kinds => JoinedTo(i) = JoinedBy(KindOf(Of(i)), Of(i).req, processed)
  BY <1>1, JoinedBefore
<1> QED
  BY <1>2 DEF FlowInv, MapsInv, KindOf, Kinds

LEMMA HandleBarKeeps ==
  ASSUME FlowInv, HandleBar
  PROVE  FlowInv'
<1>1. PICK i : i = processed + 1
  OBVIOUS
<1>2. PICK s : s = historicalRequests[Id]
  OBVIOUS
<1>3. /\ processed < Len(lines) /\ processed' = i /\ parseErrors' = parseErrors
      /\ UNCHANGED gateway /\ ~Lost(i) /\ Whole(i) /\ Of(i).type = "bar"
      /\ Of(i).req \in Ids /\ Id = Of(i).req
      /\ UNCHANGED <<marketDataRequests, historicalRequests, quotes>>
  BY <1>1, ReadIs DEF HandleBar, Kinds
<1>4. JoinedTo(i) = s
  BY <1>1, <1>2, <1>3, JoinedToMap
<1>5. output' = IF s # NoSymbol /\ EmitBars /\ Shown(s)
                THEN Append(output, EventFor(i)) ELSE output
  BY <1>1, <1>2, <1>3, <1>4 DEF HandleBar, NormalizedBar, EventFor
<1>6. IsNormalized(i) <=> s # NoSymbol /\ EmitBars /\ Shown(s)
  BY <1>3, <1>4 DEF IsNormalized, Counts
<1>7. s \in Symbols \cup {NoSymbol} /\ i \in Nat
  BY <1>1, <1>2, <1>3 DEF FlowInv, TypeInv
<1>8. TypeInv'
  <2>1. NoQuote \in Quotes
    BY DEF NoQuote, Quotes
  <2>2. s # NoSymbol => EventFor(i) \in [line : Nat, symbol : Symbols, quote : Quotes]
    BY <1>3, <1>4, <1>7, <2>1 DEF EventFor
  <2>3. output \in Seq([line : Nat, symbol : Symbols, quote : Quotes])
    BY DEF FlowInv, TypeInv
  <2>4. output' \in Seq([line : Nat, symbol : Symbols, quote : Quotes])
    BY <1>5, <2>2, <2>3, AppendProperties
  <2> QED
    BY <1>1, <1>3, <2>4, ReadTypes DEF FlowInv, TypeInv
<1>9. MapsInv'
  BY <1>1, <1>3, MapsNext DEF FlowInv
<1>10. QuotesInv'
  BY <1>1, <1>3, QuotesNext DEF FlowInv
<1>11. OutputIsNormalized'
  <2>1. CASE IsNormalized(i)
    BY <1>1, <1>3, <1>5, <1>6, <1>8, <2>1, OutputGrows DEF FlowInv
  <2>2. CASE ~IsNormalized(i)
    BY <1>1, <1>3, <1>5, <1>6, <1>8, <2>2, OutputStays DEF FlowInv
  <2> QED
    BY <2>1, <2>2
<1> QED
  BY <1>1, <1>3, <1>8, <1>9, <1>10, <1>11, ReadStep

LEMMA HandleTickKeeps ==
  ASSUME FlowInv, HandleTick
  PROVE  FlowInv'
<1>1. PICK i : i = processed + 1
  OBVIOUS
<1>2. PICK s, f : s = marketDataRequests[Id] /\ f = Field("field")
  OBVIOUS
<1>3. /\ processed < Len(lines) /\ processed' = i /\ parseErrors' = parseErrors
      /\ UNCHANGED gateway /\ ~Lost(i) /\ Whole(i) /\ Of(i).type = "tick"
      /\ Of(i).req \in Ids /\ Id = Of(i).req /\ f = Of(i).field
      /\ (Field("value") # "null") = Of(i).value
      /\ UNCHANGED <<marketDataRequests, historicalRequests>>
  BY <1>1, <1>2, ReadIs DEF HandleTick, Kinds
<1>4. JoinedTo(i) = s
  BY <1>1, <1>2, <1>3, JoinedToMap
<1>5. Counts(i) <=> Field("value") # "null" /\ s # NoSymbol /\ f \in Known
  BY <1>3, <1>4 DEF Counts
<1>6. /\ quotes \in [Symbols -> Quotes] /\ s \in Symbols \cup {NoSymbol} /\ i \in Nat
      /\ output \in Seq([line : Nat, symbol : Symbols, quote : Quotes])
  BY <1>1, <1>2, <1>3 DEF FlowInv, TypeInv
<1>7. MapsInv'
  BY <1>1, <1>3, MapsNext DEF FlowInv
<1>8. CASE ~Counts(i)
  <2>1. quotes' = quotes /\ output' = output
    BY <1>2, <1>5, <1>8 DEF HandleTick
  <2>2. TypeInv'
    BY <1>1, <1>3, <2>1, ReadTypes DEF FlowInv, TypeInv
  <2>3. QuotesInv'
    BY <1>1, <1>3, <1>8, <2>1, QuotesNext DEF FlowInv
  <2>4. OutputIsNormalized'
    BY <1>1, <1>3, <1>8, <2>1, <2>2, OutputStays DEF FlowInv, IsNormalized
  <2> QED
    BY <1>1, <1>3, <1>7, <2>2, <2>3, <2>4, ReadStep
<1>9. CASE Counts(i)
  <2>1. s \in Symbols /\ f \in Known
    BY <1>5, <1>6, <1>9
  <2>2. /\ quotes' = [quotes EXCEPT ![s][f] = i]
        /\ output' = IF EmitQuotes /\ Shown(s)
                     THEN Append(output, NormalizedQuote(s, quotes'[s]))
                     ELSE output
    BY <1>2, <1>3, <1>5, <1>9 DEF HandleTick
  <2>3. /\ quotes' \in [Symbols -> Quotes]
        /\ \A t \in Symbols, g \in Known :
              quotes'[t][g] = IF t = s /\ g = f THEN i ELSE quotes[t][g]
    <3>1. \A t \in Symbols : quotes[t] \in [Known -> Nat]
      BY <1>6 DEF Quotes
    <3> QED
      BY <1>6, <2>1, <2>2, <3>1 DEF Quotes
  <2>4. QuotesInv'
    BY <1>1, <1>3, <1>4, <1>9, <2>3, QuotesNext DEF FlowInv
  <2>5. quotes'[s] = QuoteAt(i)
    <3>1. \A g \in Known : quotes'[s][g] = Newest(s, g, i)
      <4>1. \A k \in 1 .. i : lines'[k] = lines[k]
        BY <1>3, <1>6, ReadingFrame
      <4>2. i \in 0 .. i
        BY <1>6
      <4>3. \A g : Newest(s, g, i)' = Newest(s, g, i)
        BY <1>6, <4>1, <4>2, NewestFrame
      <4> QED
        BY <1>3, <2>1, <2>4, <4>3 DEF QuotesInv
    <3>2. quotes'[s] \in [Known -> Nat]
      BY <2>1, <2>3 DEF Quotes
    <3> QED
      BY <1>4, <3>1, <3>2, QuoteAtIs
  <2>6. NormalizedQuote(s, quotes'[s]) = EventFor(i)
    BY <1>1, <1>3, <1>4, <2>5 DEF NormalizedQuote, EventFor
  <2>7. output' = IF EmitQuotes /\ Shown(s) THEN Append(output, EventFor(i)) ELSE output
    BY <2>2, <2>6
  <2>8. IsNormalized(i) <=> EmitQuotes /\ Shown(s)
    BY <1>3, <1>4, <1>9 DEF IsNormalized
  <2>9. TypeInv'
    <3>1. quotes'[s] \in Quotes
      BY <2>1, <2>3
    <3>2. EventFor(i) \in [line : Nat, symbol : Symbols, quote : Quotes]
      BY <1>3, <1>4, <1>6, <2>1, <2>5, <3>1 DEF EventFor
    <3>3. output' \in Seq([line : Nat, symbol : Symbols, quote : Quotes])
      BY <1>6, <2>7, <3>2, AppendProperties
    <3> QED
      BY <1>1, <1>3, <2>3, <3>3, ReadTypes DEF FlowInv, TypeInv
  <2>10. OutputIsNormalized'
    <3>1. CASE IsNormalized(i)
      BY <1>1, <1>3, <2>7, <2>8, <2>9, <3>1, OutputGrows DEF FlowInv
    <3>2. CASE ~IsNormalized(i)
      BY <1>1, <1>3, <2>7, <2>8, <2>9, <3>2, OutputStays DEF FlowInv
    <3> QED
      BY <3>1, <3>2
  <2> QED
    BY <1>1, <1>3, <1>7, <2>4, <2>9, <2>10, ReadStep
<1> QED
  BY <1>8, <1>9

----------------------------------------------------------------------------
(* The theorems.                                                           *)

LEMMA InitHolds == Init => FlowInv
<1> SUFFICES ASSUME Init
             PROVE  FlowInv
  OBVIOUS
<1>1. /\ session = 1 /\ asked = <<>> /\ unannounced = 0 /\ lines = <<>> /\ torn = "no"
      /\ piped \in BOOLEAN /\ processed = 0 /\ parseErrors = 0 /\ output = <<>>
      /\ marketDataRequests = [id \in Ids |-> NoSymbol]
      /\ historicalRequests = [id \in Ids |-> NoSymbol]
      /\ quotes = [s \in Symbols |-> [f \in Known |-> 0]]
  BY DEF Init, NoRequests, NoQuote
<1>2. 1 .. 0 = {} /\ Len(lines) = 0 /\ Len(asked) = 0
  BY <1>1
<1>3. TypeInv
  <2>1. \A S : <<>> \in Seq(S)
    BY EmptySeq
  <2> QED
    BY <1>1, <1>2, <2>1, ConstantsAre DEF TypeInv, Quotes
<1>4. MapsInv
  <2>1. \A kind, id : AnnouncedBy(kind, id, 0) = {}
    BY <1>2 DEF AnnouncedBy
  <2> QED
    BY <1>1, <2>1 DEF MapsInv, JoinedBy
<1>5. QuotesInv
  <2>1. \A s, f : TicksOf(s, f, 0) = {}
    BY <1>2 DEF TicksOf
  <2> QED
    BY <1>1, <2>1 DEF QuotesInv, Newest
<1>6. SessionsInv
  BY <1>2 DEF SessionsInv
<1>7. OutputIsNormalized
  <2>1. DOMAIN output = {}
    BY <1>1
  <2>2. Normalized = {}
    BY <1>1, <1>2 DEF Normalized
  <2>3. Range(output) = {}
    BY <2>1 DEF Range
  <2> QED
    BY <2>1, <2>2, <2>3 DEF OutputIsNormalized
<1>8. ErrorsCounted
  <2>1. {i \in 1 .. processed :
           Len(lines[i]) > 1 \/ (Whole(i) /\ Of(i).type = "chain" /\ Of(i).field = "many")} = {}
    BY <1>1, <1>2
  <2> QED
    BY <1>1, <2>1, FS_EmptySet DEF ErrorsCounted
<1> QED
  BY <1>3, <1>4, <1>5, <1>6, <1>7, <1>8 DEF FlowInv

LEMMA StutterKeeps ==
  ASSUME FlowInv, UNCHANGED vars
  PROVE  FlowInv'
<1>1. UNCHANGED gateway /\ UNCHANGED processor
  BY DEF vars
<1>2. AskedIds' = AskedIds
  BY <1>1 DEF gateway, AskedIds
<1>3. TypeInv'
  BY <1>1, <1>2 DEF FlowInv, TypeInv, gateway, processor
<1>4. SessionsInv'
  BY <1>1, <1>2 DEF FlowInv, SessionsInv, OfSession, Asked, Whole, Of, gateway
<1> QED
  BY <1>1, <1>3, <1>4, NoLineStep DEF gateway

LEMMA NextKeeps ==
  ASSUME FlowInv, [Next]_vars
  PROVE  FlowInv'
<1>1. ASSUME NEW kind \in Kinds, NEW symbol \in Symbols, Send(kind, symbol)
      PROVE  FlowInv'
  BY <1>1, SendKeeps
<1>2. CASE Announce
  BY <1>2, AnnounceKeeps
<1>3. ASSUME NEW id \in AskedIds, NEW field \in TickFields, NEW value \in BOOLEAN,
             Tick(id, field, value)
      PROVE  FlowInv'
  BY <1>3, TickKeeps
<1>4. ASSUME NEW id \in AskedIds, Bar(id)
      PROVE  FlowInv'
  BY <1>4, BarKeeps
<1>5. CASE ShortChain
  BY <1>5, ShortChainKeeps
<1>6. CASE LongChain
  BY <1>6, LongChainKeeps
<1>7. CASE ChainNewline
  BY <1>7, ChainNewlineKeeps
<1>8. CASE Restart
  BY <1>8, RestartKeeps
<1>9. CASE PassOver
  BY <1>9, PassOverKeeps
<1>10. CASE ParseError
  BY <1>10, ParseErrorKeeps
<1>11. CASE MarketDataRequest
  BY <1>11, MarketDataRequestKeeps
<1>12. CASE HistoricalRequest
  BY <1>12, HistoricalRequestKeeps
<1>13. CASE HandleTick
  BY <1>13, HandleTickKeeps
<1>14. CASE HandleBar
  BY <1>14, HandleBarKeeps
<1>15. CASE UNCHANGED vars
  BY <1>15, StutterKeeps
<1> QED
  BY <1>1, <1>2, <1>3, <1>4, <1>5, <1>6, <1>7, <1>8, <1>9, <1>10, <1>11, <1>12, <1>13, <1>14,
     <1>15 DEF Next

\* The invariant holds in every behaviour.
THEOREM Invariance == Spec => []FlowInv
BY InitHolds, NextKeeps, PTL DEF Spec

\* processLine: one normalized event for each line that can be joined, in
\* their order, each with the newest value of every field of its symbol.
THEOREM OutputIsNormalizedHolds == Spec => []OutputIsNormalized
<1>1. FlowInv => OutputIsNormalized
  BY DEF FlowInv
<1> QED
  BY <1>1, Invariance, PTL

\* The parse errors are the lines with two events and the chains with a list.
THEOREM ErrorsCountedHolds == Spec => []ErrorsCounted
<1>1. FlowInv => ErrorsCounted
  BY DEF FlowInv
<1> QED
  BY <1>1, Invariance, PTL

\* Between a data line and a request line of its session there is no request
\* of another session: the last one names the symbol of the data.
LEMMA JoinedToOwn ==
  ASSUME FlowInv, NEW i \in 1 .. processed, Whole(i), Of(i).type \in {"tick", "bar"},
         NEW k \in Announced(i), Of(k).session = Of(i).session
  PROVE  JoinedTo(i) = Of(i).symbol
<1>1. Len(lines) \in Nat /\ processed \in 0 .. Len(lines) /\ TypeInv
  BY LenProperties DEF FlowInv, TypeInv
<1>2. i \in 1 .. Len(lines) /\ i \in Nat
  BY <1>1
<1> DEFINE A == Announced(i)
<1>3. A \in SUBSET (1 .. i) /\ A \in SUBSET (0 .. i) /\ A # {} /\ k \in A
  BY DEF Announced
<1>4. PICK m : m = Max(A)
  OBVIOUS
<1>5. m \in A /\ k <= m
  <2> HIDE DEF A
  <2> QED
    BY <1>2, <1>3, <1>4, MaxIs
<1>6. /\ m \in 1 .. i /\ Whole(m) /\ Of(m).type = KindOf(Of(i)) /\ Of(m).req = Of(i).req
      /\ k \in 1 .. i /\ Whole(k)
  BY <1>5 DEF Announced
<1>7. m \in 1 .. Len(lines) /\ k \in 1 .. Len(lines) /\ m <= i
  BY <1>1, <1>2, <1>6
<1>8. \A j \in 1 .. Len(lines) : Whole(j) => Of(j).session \in Nat
  BY LineIs DEF FlowInv, TypeInv, Whole, Of, IsEvent
<1>9. Of(k).session <= Of(m).session /\ Of(m).session <= Of(i).session
  BY <1>2, <1>5, <1>6, <1>7 DEF FlowInv, SessionsInv
<1>10. Of(m).session = Of(i).session
  BY <1>2, <1>6, <1>7, <1>8, <1>9
<1>11. Of(m).type # "chain" /\ Of(i).type # "chain"
  BY <1>6 DEF KindOf
<1>12. Of(m).symbol = Of(i).symbol
  BY <1>2, <1>6, <1>7, <1>10, <1>11 DEF FlowInv, SessionsInv
<1>13. JoinedTo(i) = Of(m).symbol
  BY <1>3, <1>4 DEF JoinedTo
<1> QED
  BY <1>12, <1>13

\* README.md:607: a normalized event has the symbol its request was made for.
THEOREM JoinedRightHolds == Spec => []JoinedRight
<1>1. FlowInv => JoinedRight
  <2> SUFFICES ASSUME FlowInv, NEW e \in Range(output), NEW k \in Announced(e.line),
                      Of(k).session = Of(e.line).session
               PROVE  e.symbol = Of(e.line).symbol
    BY DEF JoinedRight
  <2>1. PICK j \in DOMAIN output : e = output[j]
    BY DEF Range
  <2>2. e.line \in Normalized /\ e.symbol = JoinedTo(e.line)
    BY <2>1 DEF FlowInv, OutputIsNormalized
  <2>3. e.line \in 1 .. processed /\ Counts(e.line)
    BY <2>2 DEF Normalized
  <2>4. Whole(e.line) /\ Of(e.line).type \in {"tick", "bar"}
    BY <2>3 DEF Counts
  <2> QED
    BY <2>2, <2>3, <2>4, JoinedToOwn
<1> QED
  BY <1>1, Invariance, PTL

\* Type correctness.
THEOREM TypeCorrect == Spec => []TypeInv
<1>1. FlowInv => TypeInv
  BY DEF FlowInv
<1> QED
  BY <1>1, Invariance, PTL
=============================================================================
