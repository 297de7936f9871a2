-------------------------- MODULE OptionStripProofs --------------------------
(***************************************************************************)
(* Proofs about the option strip (OptionStrip) and the option panel beside *)
(* it (OptionPanel), for every value of their constants: any chains, any   *)
(* number of sessions on one database, any strip width, window and cut.    *)
(*                                                                         *)
(* The first part is about the pure parts, sorting, slicing and nesting;   *)
(* then come the tables, the frames of the actions, the conjuncts of the   *)
(* inductive invariant IInv, one lemma for each, and the theorems.         *)
(***************************************************************************)
EXTENDS OptionPanel, FiniteSetTheorems, SequenceTheorems, WellFoundedInduction, TLAPS

\* The columns of the tables, and what is in them.
Fields == {"LAST", "BID", "ASK"}
Instruments ==
    [symbol : Symbols \cup {""}, expiry : Nat, strike : Nat, right : {"C", "P", ""}]
Listable == [symbol : Symbols, expiry : Nat, strike : Nat \ {0}, right : {"C", "P"}]
Prices == Spots \cup {NoPrice}

TickRows == [session : Nat, req : Nat, field : Fields, positive : BOOLEAN,
             instrument : Instruments, inTime : BOOLEAN]
GreekRows == [session : Nat, req : Nat, synthetic : BOOLEAN, has : SUBSET Columns,
              instrument : Instruments, sources : SUBSET Instruments]

\* A finite set of expiries and one of strikes.
Lists(row) ==
    /\ IsFiniteSet(row.expiries) /\ row.expiries \subseteq Nat
    /\ IsFiniteSet(row.strikes) /\ row.strikes \subseteq Nat \ {0}

\* Each variable is of its kind.
TypeInv ==
    /\ session \in Nat /\ pc \in Labels /\ failed \in BOOLEAN
    /\ nextId \in Nat
    /\ pc # "off" => symbol \in Symbols
    /\ pending \subseteq [id : Nat, kind : {"details", "chain", "history"}]
    /\ answered \subseteq Nat
    /\ DOMAIN sent \subseteq Nat /\ sent \in [DOMAIN sent -> Instruments]
    /\ contexts \subseteq DOMAIN sent
    /\ spot \in Prices
    /\ todo \in Seq(Listable) /\ requestIds \in Seq(Nat) /\ left \in Seq(Nat)
    /\ ticks \in Seq(TickRows) /\ greeks \in Seq(GreekRows)
    /\ closes \in [Symbols -> Prices] /\ quotes \in [Symbols -> Prices]

\* What IBKR lists, and what the command has read of it, is finite.
ListsInv ==
    /\ IsFiniteSet(chains)
    /\ \A c \in chains : Lists(c)
    /\ Lists(snapshot)

\* Each request has an id of its own.
IdsInv ==
    /\ \A id \in DOMAIN sent : id < nextId
    /\ \A id \in answered : id < nextId
    /\ \A r \in pending : r.id < nextId /\ r.id \notin answered
    /\ \A r, q \in pending : r.id = q.id => r = q
    /\ live \subseteq DOMAIN sent
    /\ Range(requestIds) \subseteq DOMAIN sent
    /\ Range(left) \subseteq Range(requestIds)
    /\ pc \in {"emitSpot", "emit"} => Current \in DOMAIN sent
    /\ pc = "emit" => sent[Current].strike # 0
    /\ pc \in {"waitOption", "subscribe", "emit"} => todo # <<>>
    /\ \A id \in Range(requestIds) : sent[id].strike # 0
    /\ pc = "select" => spot \in Spots

\* The labels before the strip is subscribed to.
BeforeStrip ==
    {"off", "askDetails", "waitDetails", "askChain", "waitChain", "resolve", "askHistory",
     "waitHistory", "askSpot", "resolveAgain", "select"}

\* What IBKR keeps subscribed, by where the command is.
RunningInv ==
    /\ pc \in BeforeStrip \cup {"emitSpot", "sleepSpot"} => requestIds = <<>>
    /\ ~failed =>
        /\ pc \in BeforeStrip \cup {"check", "fill", "done", "returned", "raised"} => live = {}
        /\ pc \in {"emitSpot", "sleepSpot"} => live = {Current}
        /\ pc \in {"next", "waitOption", "subscribe", "sleep"} => live = Range(requestIds)
        /\ pc = "emit" => live = Range(requestIds) \cup {Current}
        /\ pc \in {"cancel", "abandon"} => live \subseteq Range(left)

\* The rows of this session are those of its requests.
RowsInv ==
    /\ \A r \in Range(ticks) \cup Range(greeks) :
          /\ r.session <= session
          /\ pc # "off" /\ r.session = session => r.req \in DOMAIN sent
    /\ \A t \in Range(ticks) :
          pc # "off" /\ t.session = session => t.instrument \in {sent[t.req], Unknown}

\* The backfill is done with the requests that are not left.
FilledInv ==
    /\ pc = "fill" => left # <<>>
    /\ pc = "done" => left = <<>>
    /\ pc \in {"check", "fill", "done"} =>
        \A id \in Range(requestIds) \ Range(left) : FreshId(id) => Filled(id)

\* After the session's chain has come.
Chained ==
    {"resolve", "askHistory", "waitHistory", "askSpot", "emitSpot", "sleepSpot", "resolveAgain",
     "select", "next", "waitOption", "subscribe", "emit", "sleep", "cancel", "check", "fill",
     "done"}
\* From the selection of the strip to the end, and once all of it is subscribed to.
InStrip == {"next", "waitOption", "subscribe", "emit", "sleep", "cancel", "check", "fill", "done"}
AfterStrip == {"sleep", "cancel", "check", "fill", "done"}

\* The chain of a session is asked for once, and read when it has all come.
ChainInv ==
    /\ pc = "off" => \A r \in pending : r.kind # "chain"
    /\ \A c \in chains : c.session \in Nat /\ c.session <= session
    /\ pc \in {"askDetails", "waitDetails", "askChain"} =>
          /\ \A r \in pending : r.kind # "chain"
          /\ \A c \in chains : c.session # session
    /\ pc = "waitChain" =>
          /\ \A r \in pending : r.kind = "chain" => r.id = Current
          /\ \A c \in chains : c.session = session => c.req = Current
    /\ pc \in Chained =>
          /\ \A r \in pending : r.kind # "chain"
          /\ \A c \in chains : c.session = session => c.req = snapshot.req
          /\ snapshot = Snapshot(snapshot.req)
          /\ snapshot.expiries # {} /\ snapshot.strikes # {}

\* The options the loops of the command run over.
Whole == Strip(SelectedExpiries(snapshot.expiries), StrikeStrip(snapshot.strikes, spot))

\* What is subscribed to, then what is left to do, is the whole strip.
StripInv ==
    /\ pc \in InStrip =>
        /\ spot \in Spots /\ Future(snapshot.expiries) # {}
        /\ Len(requestIds) + Len(todo) = Len(Whole)
        /\ \A i \in 1 .. Len(requestIds) : sent[requestIds[i]] = Whole[i]
        /\ \A i \in 1 .. Len(todo) : todo[i] = Whole[Len(requestIds) + i]
    /\ pc = "emit" => sent[Current] = todo[1]
    /\ pc \in AfterStrip => todo = <<>>
\* The assumptions on the constants, taken apart.
LEMMA ConstantsAre ==
  /\ Around \in Nat /\ Window \in Nat /\ FirstRequestId \in Nat /\ Today \in Nat
  /\ Spots \subseteq Nat /\ NoPrice \notin Spots
  /\ Rights \in Seq({"C", "P"}) /\ Len(Rights) \in Nat /\ Len(Rights) > 0
<1>1. Rights \in Seq({"C", "P"}) /\ Rights # <<>>
  BY ConstantAssumption
<1> QED
  BY <1>1, ConstantAssumption, EmptySeq

\* The order of the natural numbers, for their least elements.
Less == {ss \in Nat \X Nat : ss[1] < ss[2]}
\* It is well-founded.
LEMMA LessWellFounded == IsWellFoundedOn(Less, Nat)
  BY NatLessThanWellFounded DEF OpToRel, Less

\* A set of naturals has a least element.
LEMMA MinExists ==
  ASSUME NEW S \in SUBSET Nat, S # {}
  PROVE  \E i \in S : \A k \in S : i <= k
<1>0. S \subseteq Nat
  OBVIOUS
<1>1. PICK x \in S : \A y \in S : ~(<<y, x>> \in Less)
  BY <1>0, LessWellFounded, WFMin
<1>2. ASSUME NEW k \in S PROVE x <= k
  <2>1. ~(<<k, x>> \in Less) /\ k \in Nat /\ x \in Nat
    BY <1>0, <1>1
  <2> QED
    BY <2>1 DEF Less
<1> QED
  BY <1>2

\* A finite one has a greatest.
LEMMA MaxExists ==
  ASSUME NEW S \in SUBSET Nat, IsFiniteSet(S), S # {}
  PROVE  \E i \in S : \A k \in S : k <= i
<1> DEFINE Bad == {T \in FiniteSubsetsOf(S) : T # {} /\ ~ \E i \in T : \A k \in T : k <= i}
<1>1. S \in FiniteSubsetsOf(S)
  BY DEF FiniteSubsetsOf
<1>2. SUFFICES ASSUME Bad # {} PROVE FALSE
  BY <1>1
<1>3. PICK T \in Bad : \A U \in Bad : ~(<<U, T>> \in StrictSubsetOrdering(S))
  <2> HIDE DEF Bad
  <2>1. Bad \subseteq FiniteSubsetsOf(S)
    BY DEF Bad
  <2> QED
    BY <1>2, <2>1, FS_StrictSubsetOrderingWellFounded, WFMin, Zenon
<1>4. PICK x \in T : TRUE
  BY <1>3
<1>5. IsFiniteSet(T) /\ T \subseteq Nat /\ T \subseteq S
  BY <1>3 DEF FiniteSubsetsOf
<1>6. IsFiniteSet(T \ {x}) /\ T \ {x} \in FiniteSubsetsOf(S)
  BY <1>5, FS_RemoveElement DEF FiniteSubsetsOf
<1>7. <<T \ {x}, T>> \in StrictSubsetOrdering(S)
  BY <1>4, <1>5 DEF StrictSubsetOrdering
<1>8. T \ {x} \notin Bad
  BY <1>3, <1>7
<1>9. CASE T \ {x} = {}
  <2>1. \A k \in T : k <= x
    BY <1>9, <1>4, <1>5
  <2> QED
    BY <2>1, <1>3, <1>4
<1>10. CASE T \ {x} # {}
  <2>1. PICK m \in T \ {x} : \A k \in T \ {x} : k <= m
    BY <1>8, <1>6, <1>10
  <2>2. \A k \in T : k <= m \/ k = x
    BY <2>1
  <2>3. \A k \in T : (x <= m => k <= m) /\ (m <= x => k <= x)
    BY <2>2, <2>1, <1>5
  <2>4. x <= m \/ m <= x
    BY <2>1, <1>5
  <2> QED
    BY <2>3, <2>4, <2>1, <1>3, <1>4
<1> QED
  BY <1>9, <1>10

\* Min chooses the least.
LEMMA MinIs ==
  ASSUME NEW S \in SUBSET Nat, S # {}
  PROVE  Min(S) \in S /\ \A k \in S : Min(S) <= k
  BY MinExists DEF Min

\* Max chooses the greatest.
LEMMA MaxIs ==
  ASSUME NEW S \in SUBSET Nat, IsFiniteSet(S), S # {}
  PROVE  Max(S) \in S /\ \A k \in S : k <= Max(S)
<1>1. \E i \in S : \A k \in S : i >= k
  BY MaxExists
<1> QED
  BY <1>1 DEF Max

----------------------------------------------------------------------------
(* The strip.                                                              *)

\* sorted(set(strikes)) has each element once, in increasing order.
LEMMA SortedIs ==
  ASSUME NEW S \in SUBSET Nat, IsFiniteSet(S)
  PROVE  /\ Cardinality(S) \in Nat
         /\ Sorted(S) \in [1 .. Cardinality(S) -> S]
         /\ \A i \in 1 .. Cardinality(S) : Cardinality({y \in S : y <= Sorted(S)[i]}) = i
         /\ \A x \in S : \E i \in 1 .. Cardinality(S) : Sorted(S)[i] = x
         /\ \A i, j \in 1 .. Cardinality(S) : i < j => Sorted(S)[i] < Sorted(S)[j]
<1> DEFINE n == Cardinality(S)
           Upto(x) == {y \in S : y <= x}
           f == [x \in S |-> Cardinality(Upto(x))]
<1>0. \A x \in S : x \in Nat
  OBVIOUS
<1>1. n \in Nat
  BY FS_CardinalityType
<1>2. ASSUME NEW x \in S
      PROVE  IsFiniteSet(Upto(x)) /\ Cardinality(Upto(x)) \in 1 .. n
  <2>1. IsFiniteSet(Upto(x)) /\ Cardinality(Upto(x)) <= n
    BY FS_Subset
  <2>2. Upto(x) # {}
    BY <1>2
  <2>3. Cardinality(Upto(x)) \in Nat /\ Cardinality(Upto(x)) # 0
    BY <2>1, <2>2, FS_CardinalityType, FS_EmptySet
  <2> QED
    BY <2>1, <2>3, <1>1
<1>3. ASSUME NEW x \in S, NEW z \in S, x < z
      PROVE  Cardinality(Upto(x)) < Cardinality(Upto(z))
  <2>1. \A y \in S : y <= x => y <= z
    BY <1>0, <1>3
  <2>4. z <= z /\ ~(z <= x)
    BY <1>0, <1>3
  <2>5. Upto(x) \subseteq Upto(z) /\ z \in Upto(z) /\ z \notin Upto(x)
    BY <2>1, <2>4
  <2>2. Cardinality(Upto(x)) <= Cardinality(Upto(z))
    BY <2>5, <1>2, FS_Subset
  <2>3. Cardinality(Upto(x)) # Cardinality(Upto(z))
    BY <2>5, <1>2, FS_Subset
  <2> QED
    BY <2>2, <2>3, <1>2
<1>4. f \in [S -> 1 .. n]
  BY <1>2
<1>5. ASSUME NEW x \in S, NEW z \in S, x # z PROVE f[x] # f[z]
  <2>1. x < z \/ z < x
    BY <1>5
  <2> QED
    BY <2>1, <1>2, <1>3
<1>6. f \in Injection(S, 1 .. n)
  BY <1>4, <1>5 DEF Injection, IsInjective
<1>7. IsFiniteSet(1 .. n) /\ Cardinality(1 .. n) = n
  BY <1>1, FS_Interval
<1>8. f \in Surjection(S, 1 .. n)
  BY <1>6, <1>7, FS_Injection
<1>9. \A i \in 1 .. n : \E x \in S : Cardinality(Upto(x)) = i
  BY <1>8 DEF Surjection
<1>10. \A i \in 1 .. n : Sorted(S)[i] \in S /\ Cardinality(Upto(Sorted(S)[i])) = i
  BY <1>9 DEF Sorted
<1>11. Sorted(S) \in [1 .. n -> S]
  BY <1>10 DEF Sorted
<1>12. ASSUME NEW x \in S PROVE \E i \in 1 .. n : Sorted(S)[i] = x
  <2>1. Cardinality(Upto(x)) \in 1 .. n
    BY <1>2
  <2>2. f[x] = f[Sorted(S)[Cardinality(Upto(x))]]
    BY <2>1, <1>10
  <2>3. Sorted(S)[Cardinality(Upto(x))] = x
    BY <2>1, <2>2, <1>5, <1>10
  <2> QED
    BY <2>1, <2>3
<1>13. ASSUME NEW i \in 1 .. n, NEW j \in 1 .. n, i < j PROVE Sorted(S)[i] < Sorted(S)[j]
  <2> DEFINE x == Sorted(S)[i]
             z == Sorted(S)[j]
  <2>1. x \in S /\ z \in S /\ Cardinality(Upto(x)) = i /\ Cardinality(Upto(z)) = j
    BY <1>10
  <2>2. x \in Nat /\ z \in Nat
    BY <2>1, <1>0
  <2>3. CASE z < x
    <3>1. Cardinality(Upto(z)) < Cardinality(Upto(x))
      BY <2>1, <2>3, <1>3
    <3> QED
      BY <3>1, <2>1, <1>13
  <2>4. CASE x = z
    BY <2>1, <2>4, <1>13
  <2> QED
    BY <2>2, <2>3, <2>4
<1> QED
  BY <1>1, <1>10, <1>11, <1>12, <1>13

\* A distance is a natural number.
LEMMA DistanceIs ==
  ASSUME NEW a \in Nat, NEW b \in Nat PROVE Distance(a, b) \in Nat
  BY DEF Distance

\* Nearest is the place of an element no other is closer than.
LEMMA NearestIs ==
  ASSUME NEW n \in Nat, n > 0, NEW s \in [1 .. n -> Nat], NEW price \in Nat
  PROVE  /\ Nearest(s, price) \in 1 .. n
         /\ \A k \in 1 .. n : Distance(s[Nearest(s, price)], price) <= Distance(s[k], price)
<1> DEFINE Dist(i) == Distance(s[i], price)
           D == {Dist(i) : i \in 1 .. n}
           I == {i \in 1 .. n : Dist(i) = Min(D)}
<1>1. \A i \in 1 .. n : Dist(i) \in Nat
  BY DistanceIs
<1>2. D \subseteq Nat /\ D # {}
  BY <1>1
<1>3. Min(D) \in D /\ \A k \in D : Min(D) <= k
  BY <1>2, MinIs
<1>4. I \subseteq Nat /\ I # {}
  <2>1. PICK i \in 1 .. n : Dist(i) = Min(D)
    BY <1>3
  <2>2. i \in I
    BY <2>1
  <2>3. I \subseteq 1 .. n /\ 1 .. n \subseteq Nat
    OBVIOUS
  <2> QED
    BY <2>2, <2>3
<1>5. Min(I) \in I /\ \A k \in I : Min(I) <= k
  BY <1>4, MinIs
<1>6. ASSUME NEW k \in 1 .. n
      PROVE  \/ Dist(Min(I)) < Dist(k)
             \/ Dist(Min(I)) = Dist(k) /\ Min(I) <= k
  <2>1. Dist(Min(I)) = Min(D) /\ Min(D) <= Dist(k)
    BY <1>3, <1>5
  <2>2. Dist(Min(I)) = Dist(k) => Min(I) <= k
    BY <2>1, <1>5
  <2>3. Dist(Min(I)) \in Nat /\ Dist(k) \in Nat
    BY <1>5, <1>1
  <2> HIDE DEF Dist, D, I
  <2> QED
    BY <2>1, <2>2, <2>3
<1>7. \E i \in DOMAIN s : \A k \in DOMAIN s :
        \/ Distance(s[i], price) < Distance(s[k], price)
        \/ Distance(s[i], price) = Distance(s[k], price) /\ i <= k
  BY <1>5, <1>6
<1>8. /\ Nearest(s, price) \in 1 .. n
      /\ \A k \in 1 .. n :
            \/ Dist(Nearest(s, price)) < Dist(k)
            \/ Dist(Nearest(s, price)) = Dist(k)
  BY <1>7 DEF Nearest
<1> QED
  <2>1. ASSUME NEW k \in 1 .. n PROVE Dist(Nearest(s, price)) <= Dist(k)
    <3>1. Dist(Nearest(s, price)) \in Nat /\ Dist(k) \in Nat
      BY <1>8, <1>1
    <3> HIDE DEF Dist
    <3> QED
      BY <3>1, <1>8
  <2> QED
    BY <2>1, <1>8

\* The max and min that clip the slice.
LEMMA MaxOfTwo ==
  ASSUME NEW a \in Int, NEW b \in Int
  PROVE  /\ Max({a, b}) = IF a <= b THEN b ELSE a
         /\ Min({a, b}) = IF a <= b THEN a ELSE b
<1>1. Max({a, b}) \in {a, b} /\ Max({a, b}) >= a /\ Max({a, b}) >= b
  <2>1. \E x \in {a, b} : \A y \in {a, b} : x >= y
    OBVIOUS
  <2> QED
    BY <2>1 DEF Max
<1>2. Min({a, b}) \in {a, b} /\ Min({a, b}) <= a /\ Min({a, b}) <= b
  <2>1. \E x \in {a, b} : \A y \in {a, b} : x =< y
    OBVIOUS
  <2> QED
    BY <2>1 DEF Min
<1> QED
  BY <1>1, <1>2

\* The slice of _select_strike_strip: its place among the sorted strikes.
LEMMA StrikeStripIs ==
  ASSUME NEW S \in SUBSET Nat, IsFiniteSet(S), S # {}, NEW price \in Nat
  PROVE  \E lo, p, hi \in 1 .. Cardinality(S) :
            /\ lo <= p /\ p <= hi
            /\ p - lo = IF Around <= p - 1 THEN Around ELSE p - 1
            /\ hi - p = IF Around <= Cardinality(S) - p THEN Around ELSE Cardinality(S) - p
            /\ StrikeStrip(S, price) \in Seq(S)
            /\ Len(StrikeStrip(S, price)) = hi - lo + 1
            /\ \A i \in 1 .. hi - lo + 1 : StrikeStrip(S, price)[i] = Sorted(S)[lo + i - 1]
            /\ \A k \in S : Distance(Sorted(S)[p], price) <= Distance(k, price)
<1> DEFINE n == Cardinality(S)
           s == Sorted(S)
           p == Nearest(s, price)
           lo == Max({1, p - Around})
           hi == Min({n, p + Around})
<1>1. n \in Nat /\ n > 0
  BY FS_CardinalityType, FS_EmptySet
<1>2. s \in [1 .. n -> S] /\ s \in [1 .. n -> Nat] /\ \A x \in S : \E i \in 1 .. n : s[i] = x
  <2>1. s \in [1 .. n -> S] /\ \A x \in S : \E i \in 1 .. n : s[i] = x
    BY SortedIs
  <2> QED
    BY <2>1
<1>3. s \in Seq(S) /\ Len(s) = n
  <2>1. s \in Seq(S)
    BY <1>1, <1>2
  <2> QED
    BY <2>1, <1>1, <1>2, LenProperties
<1>4. p \in 1 .. n /\ \A k \in 1 .. n : Distance(s[p], price) <= Distance(s[k], price)
  <2> HIDE DEF n, s
  <2> QED
    BY <1>1, <1>2, NearestIs
<1>5. Around \in Nat
  BY ConstantsAre
<1>6. lo = IF 1 <= p - Around THEN p - Around ELSE 1
  <2> HIDE DEF p
  <2> QED
    BY <1>1, <1>4, <1>5, MaxOfTwo
<1>7. hi = IF n <= p + Around THEN n ELSE p + Around
  <2>1. n \in Int /\ p + Around \in Int
    <3> HIDE DEF p, n
    <3> QED
      BY <1>1, <1>4, <1>5
  <2> HIDE DEF p, n
  <2> QED
    BY <2>1, MaxOfTwo
<1>8. /\ lo \in 1 .. n /\ hi \in 1 .. n /\ lo <= p /\ p <= hi
      /\ p - lo = IF Around <= p - 1 THEN Around ELSE p - 1
      /\ hi - p = IF Around <= n - p THEN Around ELSE n - p
  <2> HIDE DEF p, n, lo, hi
  <2> QED
    BY <1>1, <1>4, <1>5, <1>6, <1>7
<1>9. StrikeStrip(S, price) = SubSeq(s, lo, hi)
  BY <1>3 DEF StrikeStrip
<1>10. /\ SubSeq(s, lo, hi) \in Seq(S)
       /\ Len(SubSeq(s, lo, hi)) = hi - lo + 1
       /\ \A i \in 1 .. hi - lo + 1 : SubSeq(s, lo, hi)[i] = s[lo + i - 1]
  <2> HIDE DEF p, n, lo, hi, s
  <2>1. \A i \in lo .. hi : s[i] \in S
    BY <1>8, <1>2, <1>1
  <2>2. lo \in Int /\ hi \in Int /\ lo <= hi
    BY <1>8, <1>4
  <2> QED
    BY <2>1, <2>2, SubSeqProperties
<1>11. \A k \in S : Distance(s[p], price) <= Distance(k, price)
  BY <1>2, <1>4
<1> HIDE DEF p, n, lo, hi, s
<1>12. /\ lo <= p /\ p <= hi
       /\ p - lo = IF Around <= p - 1 THEN Around ELSE p - 1
       /\ hi - p = IF Around <= n - p THEN Around ELSE n - p
       /\ StrikeStrip(S, price) \in Seq(S)
       /\ Len(StrikeStrip(S, price)) = hi - lo + 1
       /\ \A i \in 1 .. hi - lo + 1 : StrikeStrip(S, price)[i] = s[lo + i - 1]
       /\ \A k \in S : Distance(s[p], price) <= Distance(k, price)
  BY <1>8, <1>9, <1>10, <1>11
<1> QED
  BY <1>4, <1>8, <1>12, Zenon DEF n, s

\* The selected expiries are in the future; the first is the next, unless
\* only monthlies are asked for.
LEMMA SelectedExpiriesIs ==
  ASSUME NEW E \in SUBSET Nat, Future(E) # {}
  PROVE  /\ SelectedExpiries(E) \in Seq(Future(E))
         /\ Len(SelectedExpiries(E)) \in Nat \ {0}
         /\ ExpiryMode # "monthly" => \A f \in Future(E) : SelectedExpiries(E)[1] <= f
<1> DEFINE weekly == Min(Future(E))
           monthlies == Future(E) \cap Monthlies
           monthly == IF monthlies = {} THEN weekly ELSE Min(monthlies)
<1>1. Future(E) \subseteq Nat
  BY DEF Future
<1>2. weekly \in Future(E) /\ \A f \in Future(E) : weekly <= f
  BY <1>1, MinIs
<1>3. monthly \in Future(E)
  <2>1. monthlies \subseteq Nat
    BY <1>1
  <2>2. monthlies # {} => Min(monthlies) \in monthlies
    BY <2>1, MinIs
  <2> QED
    BY <2>2, <1>2
<1>4. SelectedExpiries(E) =
        CASE ExpiryMode = "weekly" -> <<weekly>>
          [] ExpiryMode = "monthly" -> <<monthly>>
          [] OTHER -> IF monthly = weekly THEN <<weekly>> ELSE <<weekly, monthly>>
  BY DEF SelectedExpiries
<1> HIDE DEF weekly, monthly
<1>5. \/ SelectedExpiries(E) = <<weekly>>
      \/ SelectedExpiries(E) = <<monthly>> /\ ExpiryMode = "monthly"
      \/ SelectedExpiries(E) = <<weekly, monthly>>
  BY <1>4
<1>6. /\ <<weekly>> \in Seq(Future(E)) /\ Len(<<weekly>>) \in Nat \ {0}
      /\ <<weekly>>[1] = weekly
  BY <1>2
<1>7. <<monthly>> \in Seq(Future(E)) /\ Len(<<monthly>>) \in Nat \ {0}
  BY <1>3
<1>8. /\ <<weekly, monthly>> \in Seq(Future(E)) /\ Len(<<weekly, monthly>>) \in Nat \ {0}
      /\ <<weekly, monthly>>[1] = weekly
  BY <1>2, <1>3
<1>9. CASE SelectedExpiries(E) = <<weekly>>
  BY <1>2, <1>6, <1>9, Zenon
<1>10. CASE SelectedExpiries(E) = <<monthly>> /\ ExpiryMode = "monthly"
  BY <1>7, <1>10, Zenon
<1>11. CASE SelectedExpiries(E) = <<weekly, monthly>>
  BY <1>2, <1>8, <1>11, Zenon
<1> QED
  BY <1>5, <1>9, <1>10, <1>11

\* Quotient and remainder of a number given by them.
LEMMA DivMod ==
  ASSUME NEW q \in Nat, NEW d \in Nat, NEW r \in 0 .. d - 1
  PROVE  (q * d + r) \div d = q /\ (q * d + r) % d = r
  OBVIOUS

\* Quotient and remainder below a product.
LEMMA DivBound ==
  ASSUME NEW i \in Nat, NEW n \in Nat, NEW d \in Nat, i < n * d
  PROVE  d > 0 /\ i \div d \in 0 .. n - 1 /\ i % d \in 0 .. d - 1
  OBVIOUS

\* Where loops over 1 .. E, 1 .. K and 1 .. R come to a, b and c.
Place(E, K, R, a, b, c) == (a - 1) * (K * R) + ((b - 1) * R + (c - 1))

\* The place of the innermost body of three nested loops tells their indices.
LEMMA PlaceIs ==
  ASSUME NEW E \in Nat, NEW K \in Nat, NEW R \in Nat,
         NEW a \in 1 .. E, NEW b \in 1 .. K, NEW c \in 1 .. R
  PROVE  /\ Place(E, K, R, a, b, c) \in Nat
         /\ Place(E, K, R, a, b, c) < E * (K * R)
         /\ Place(E, K, R, a, b, c) \div (K * R) = a - 1
         /\ (Place(E, K, R, a, b, c) % (K * R)) \div R = b - 1
         /\ Place(E, K, R, a, b, c) % R = c - 1
<1> DEFINE P == K * R
           m == (b - 1) * R + (c - 1)
           j == (a - 1) * P + m
<1>1. P \in Nat /\ m \in Nat /\ j \in Nat
  OBVIOUS
<1>2. m <= P - 1
  <2>1. (b - 1) * R <= (K - 1) * R
    OBVIOUS
  <2>2. (K - 1) * R = K * R - R
    OBVIOUS
  <2> QED
    BY <2>1, <2>2
<1>3. j <= E * P - 1
  <2> HIDE DEF P, m
  <2>1. (a - 1) * P <= (E - 1) * P
    BY <1>1
  <2>2. (E - 1) * P = E * P - P
    BY <1>1
  <2>3. (a - 1) * P \in Nat /\ E * P \in Nat
    BY <1>1
  <2> QED
    BY <2>1, <2>2, <2>3, <1>1, <1>2
<1>4. j \div P = a - 1 /\ j % P = m
  <2> HIDE DEF P, m
  <2> QED
    BY <1>1, <1>2, DivMod
<1>5. m \div R = b - 1
  BY DivMod
<1>6. j % R = c - 1
  <2>1. j = ((a - 1) * K + (b - 1)) * R + (c - 1)
    OBVIOUS
  <2>2. (a - 1) * K + (b - 1) \in Nat
    OBVIOUS
  <2> QED
    BY <2>1, <2>2, DivMod
<1>7. j < E * P
  <2>1. E * P \in Nat
    BY <1>1
  <2> HIDE DEF j, P
  <2> QED
    BY <2>1, <1>1, <1>3
<1>8. j = Place(E, K, R, a, b, c)
  BY DEF Place
<1> QED
  BY <1>1, <1>4, <1>5, <1>6, <1>7, <1>8, Zenon

\* The nested loops make each combination, and nothing else.
LEMMA StripIs ==
  ASSUME NEW e \in Seq(Nat), NEW k \in Seq(Nat \ {0}), symbol \in Symbols
  PROVE  /\ Strip(e, k) \in Seq(Listable)
         /\ \A i \in 1 .. Len(Strip(e, k)) :
               \E a \in 1 .. Len(e), b \in 1 .. Len(k), c \in 1 .. Len(Rights) :
                  Strip(e, k)[i] =
                    [symbol |-> symbol, expiry |-> e[a], strike |-> k[b], right |-> Rights[c]]
         /\ \A a \in 1 .. Len(e), b \in 1 .. Len(k), c \in 1 .. Len(Rights) :
               \E i \in 1 .. Len(Strip(e, k)) :
                  Strip(e, k)[i] =
                    [symbol |-> symbol, expiry |-> e[a], strike |-> k[b], right |-> Rights[c]]
<1> DEFINE E == Len(e)
           K == Len(k)
           R == Len(Rights)
           P == K * R
           n == E * P
           s == Strip(e, k)
           Option(a, b, c) ==
               [symbol |-> symbol, expiry |-> e[a], strike |-> k[b], right |-> Rights[c]]
<1>1. E \in Nat /\ K \in Nat /\ R \in Nat /\ R > 0
  BY ConstantsAre
<1>2. P \in Nat /\ n \in Nat
  BY <1>1
<1>3. s = [i \in 1 .. n |->
             Option(((i - 1) \div P) + 1, (((i - 1) % P) \div R) + 1, ((i - 1) % R) + 1)]
  BY DEF Strip
<1>4. \A a \in 1 .. E, b \in 1 .. K, c \in 1 .. R : Option(a, b, c) \in Listable
  <2>1. \A a \in 1 .. E : e[a] \in Nat
    BY ElementOfSeq
  <2>2. \A b \in 1 .. K : k[b] \in Nat \ {0}
    BY ElementOfSeq
  <2>3. \A c \in 1 .. R : Rights[c] \in {"C", "P"}
    BY ConstantsAre, ElementOfSeq
  <2> QED
    BY <2>1, <2>2, <2>3 DEF Listable
<1>5. ASSUME NEW i \in 1 .. n
      PROVE  /\ ((i - 1) \div P) + 1 \in 1 .. E
             /\ (((i - 1) % P) \div R) + 1 \in 1 .. K
             /\ ((i - 1) % R) + 1 \in 1 .. R
  <2> DEFINE j == i - 1
  <2>1. j \in Nat /\ j < E * P
    BY <1>2
  <2> HIDE DEF j
  <2>2. j \div P \in 0 .. E - 1 /\ j % P \in 0 .. P - 1
    <3> HIDE DEF P, E
    <3> QED
      BY <2>1, <1>1, <1>2, DivBound
  <2>3. j % P \in Nat /\ j % P < K * R
    BY <2>2, <1>2
  <2>4. (j % P) \div R \in 0 .. K - 1
    <3> DEFINE m == j % P
    <3> HIDE DEF m, K, R
    <3> QED
      BY <2>3, <1>1, DivBound DEF m
  <2>5. j % R \in 0 .. R - 1
    <3> HIDE DEF R
    <3> QED
      BY <2>1, <1>1
  <2>6. ASSUME NEW q, NEW d \in Nat, q \in 0 .. d - 1 PROVE q + 1 \in 1 .. d
    BY <2>6
  <2> HIDE DEF P, E, K, R
  <2> QED
    BY <2>2, <2>4, <2>5, <2>6, <1>1, Zenon DEF j
<1>6. ASSUME NEW i \in 1 .. n
      PROVE  \E a \in 1 .. E, b \in 1 .. K, c \in 1 .. R : s[i] = Option(a, b, c)
  <2> HIDE DEF P, E, K, R, n, s, Option
  <2>1. s[i] = Option(((i - 1) \div P) + 1, (((i - 1) % P) \div R) + 1, ((i - 1) % R) + 1)
    BY <1>3
  <2> QED
    BY <2>1, <1>5, Zenon
<1>7. s \in Seq(Listable) /\ Len(s) = n
  <2> HIDE DEF P, E, K, R, n, s, Option
  <2>1. \A i \in 1 .. n : s[i] \in Listable
    BY <1>4, <1>6, Zenon
  <2>2. s \in [1 .. n -> Listable]
    BY <1>3, <2>1
  <2>3. s \in Seq(Listable)
    BY <2>2, <1>2
  <2> QED
    BY <2>2, <2>3, <1>2, LenProperties
<1>8. ASSUME NEW a \in 1 .. E, NEW b \in 1 .. K, NEW c \in 1 .. R
      PROVE  \E i \in 1 .. n : s[i] = Option(a, b, c)
  <2> DEFINE j == Place(E, K, R, a, b, c)
  <2>1. j \in Nat /\ j < n
    <3> HIDE DEF E, K, R
    <3>1. j < n
      BY <1>1, PlaceIs, SMTT(20)
    <3>2. j \in Nat
      BY <1>1, PlaceIs, Zenon
    <3> QED
      BY <3>1, <3>2
  <2>2. j \div P = a - 1
    <3> HIDE DEF E, K, R
    <3> QED
      BY <1>1, PlaceIs, SMTT(20)
  <2>6. (j % P) \div R = b - 1
    <3> HIDE DEF E, K, R
    <3> QED
      BY <1>1, PlaceIs, SMTT(20)
  <2>7. j % R = c - 1
    <3> HIDE DEF E, K, R
    <3> QED
      BY <1>1, PlaceIs, SMTT(20)
  <2>8. j + 1 \in 1 .. n
    <3> HIDE DEF j, n
    <3> QED
      BY <2>1, <1>2
  <2> HIDE DEF P, E, K, R, n, s, Option, j
  <2>3. (j + 1) - 1 = j
    BY <2>1
  <2>4. s[j + 1] = Option((j \div P) + 1, ((j % P) \div R) + 1, (j % R) + 1)
    BY <1>3, <2>8, <2>3
  <2>5. (j \div P) + 1 = a /\ ((j % P) \div R) + 1 = b /\ (j % R) + 1 = c
    BY <2>2, <2>6, <2>7
  <2> QED
    BY <2>8, <2>4, <2>5
<1> QED
  <2> HIDE DEF s, Option
  <2>1. \A i \in 1 .. Len(s) :
           \E a \in 1 .. E, b \in 1 .. K, c \in 1 .. R : s[i] = Option(a, b, c)
    BY <1>6, <1>7
  <2>2. \A a \in 1 .. E, b \in 1 .. K, c \in 1 .. R :
           \E i \in 1 .. Len(s) : s[i] = Option(a, b, c)
    BY <1>7, <1>8
  <2> QED
    BY <1>7, <2>1, <2>2, Zenon DEF s, Option

----------------------------------------------------------------------------
(* What is read of the tables.                                             *)

\* Some of the indices of a sequence.
LEMMA IndicesAre ==
  ASSUME NEW n \in Nat, NEW T, T \subseteq 1 .. n
  PROVE  IsFiniteSet(T) /\ T \in SUBSET Nat
<1>1. 1 \in Int /\ n \in Int /\ T \in SUBSET (1 .. n)
  OBVIOUS
<1>2. IsFiniteSet(1 .. n)
  BY <1>1, FS_Interval
<1>3. IsFiniteSet(T)
  BY <1>1, <1>2, FS_Subset, Zenon
<1> QED
  BY <1>3

\* The newest ticks of a request are ticks, and one of them is the newest.
LEMMA RecentIs ==
  ASSUME TypeInv, NEW id
  PROVE  /\ Recent(id) \subseteq Filed(id) /\ Filed(id) \subseteq 1 .. Len(ticks)
         /\ Len(ticks) \in Nat /\ DOMAIN ticks = 1 .. Len(ticks)
         /\ \A i \in 1 .. Len(ticks) : ticks[i] \in TickRows
         /\ Recent(id) # {} =>
               Max(Recent(id)) \in Recent(id) /\ QuotedInstrument(id) \in Instruments
<1>1. /\ Len(ticks) \in Nat /\ DOMAIN ticks = 1 .. Len(ticks)
      /\ \A i \in 1 .. Len(ticks) : ticks[i] \in TickRows
  BY LenProperties, ElementOfSeq DEF TypeInv
<1>2. Recent(id) \subseteq Filed(id) /\ Filed(id) \subseteq 1 .. Len(ticks)
  BY <1>1 DEF Recent, Filed
<1>3. IsFiniteSet(Recent(id)) /\ Recent(id) \in SUBSET Nat
  BY <1>1, <1>2, IndicesAre
<1>4. Recent(id) # {} => Max(Recent(id)) \in Recent(id)
  BY <1>3, MaxIs
<1>5. Recent(id) # {} => ticks[Max(Recent(id))] \in TickRows
  BY <1>1, <1>2, <1>4
<1> QED
  BY <1>1, <1>2, <1>4, <1>5 DEF QuotedInstrument, TickRows

\* A field some recent tick has, has a latest.
LEMMA LatestIs ==
  ASSUME TypeInv, NEW id, NEW field
  PROVE  /\ \A t \in LatestOf(id, field) : \E i \in Recent(id) : t = ticks[i]
         /\ (\E i \in Recent(id) : ticks[i].field = field) => LatestOf(id, field) # {}
<1> DEFINE those == {i \in Recent(id) : ticks[i].field = field}
<1>1. those \in SUBSET Nat /\ IsFiniteSet(those)
  <2>1. those \subseteq 1 .. Len(ticks) /\ Len(ticks) \in Nat
    BY RecentIs
  <2> QED
    BY <2>1, IndicesAre
<1>2. those # {} => Max(those) \in those
  BY <1>1, MaxIs
<1>3. LatestOf(id, field) = IF those = {} THEN {} ELSE {ticks[Max(those)]}
  BY DEF LatestOf
<1> QED
  BY <1>2, <1>3

\* The price is made of recent ticks.
LEMMA PriceIs ==
  ASSUME TypeInv, NEW id
  PROVE  /\ \A t \in PriceOf(id) : \E i \in Recent(id) : t = ticks[i]
         /\ PriceOf(id) # {} => Recent(id) # {}
<1>1. \A t \in PriceOf(id) : \E i \in Recent(id) : t = ticks[i]
  BY LatestIs DEF PriceOf
<1> QED
  BY <1>1

\* What a fill appends, if it does.
LEMMA FillIs ==
  ASSUME TypeInv, IdsInv, FilledInv, Fill
  PROVE  /\ Head(left) \in Range(left) /\ Head(left) \in Nat
         /\ \/ greeks' = greeks
            \/ /\ greeks' = Append(greeks, Synthetic(Head(left), PriceOf(Head(left))))
               /\ Synthetic(Head(left), PriceOf(Head(left))) \in GreekRows
               /\ PriceOf(Head(left)) # {}
         /\ greeks' \in Seq(GreekRows)
         /\ greeks' = greeks =>
               PriceOf(Head(left)) = {} \/ QuotedInstrument(Head(left)).strike = 0
<1> DEFINE id == Head(left)
           row == Synthetic(id, PriceOf(id))
<1>1. left # <<>> /\ left \in Seq(Nat)
  BY DEF TypeInv, FilledInv, Fill
<1>2. id \in Nat /\ id \in Range(left)
  BY <1>1 DEF Range
<1>3. ASSUME PriceOf(id) # {} PROVE row \in GreekRows
  <2>1. QuotedInstrument(id) \in Instruments
    BY <1>3, PriceIs, RecentIs
  <2>2. {t.instrument : t \in PriceOf(id)} \subseteq Instruments
    <3>1. \A t \in PriceOf(id) : t \in TickRows
      BY PriceIs, RecentIs
    <3> QED
      BY <3>1 DEF TickRows
  <2>3. session \in Nat
    BY DEF TypeInv
  <2> HIDE DEF id
  <2> QED
    BY <2>1, <2>2, <2>3, <1>2 DEF Synthetic, GreekRows
<1>4. greeks' = IF PriceOf(id) = {} \/ QuotedInstrument(id).strike = 0 THEN greeks
                ELSE Append(greeks, row)
  BY DEF Fill
<1>5. greeks \in Seq(GreekRows)
  BY DEF TypeInv
<1>6. CASE PriceOf(id) = {} \/ QuotedInstrument(id).strike = 0
  BY <1>2, <1>4, <1>5, <1>6
<1>7. CASE ~(PriceOf(id) = {} \/ QuotedInstrument(id).strike = 0)
  <2>1. greeks' = Append(greeks, row) /\ row \in GreekRows
    BY <1>3, <1>4, <1>7
  <2>2. greeks' # greeks
    <3> HIDE DEF row
    <3>1. Len(greeks') = Len(greeks) + 1 /\ Len(greeks) \in Nat
      BY <2>1, <1>5, AppendProperties
    <3> QED
      BY <3>1
  <2>3. greeks' \in Seq(GreekRows)
    <3> HIDE DEF row
    <3> QED
      BY <2>1, <1>5, AppendProperties
  <2> QED
    BY <2>1, <2>2, <2>3, <1>2, <1>7
<1> QED
  BY <1>6, <1>7

\* A subscription adds its own contract to those sent.
LEMMA SubscribeIs ==
  ASSUME TypeInv, IdsInv, NEW at, NEW c \in Instruments, NEW next, Subscribe(at, c, next)
  PROVE  /\ DOMAIN sent' = DOMAIN sent \cup {nextId} /\ nextId \notin DOMAIN sent
         /\ sent' \in [DOMAIN sent' -> Instruments]
         /\ sent'[nextId] = c
         /\ \A id \in DOMAIN sent : sent'[id] = sent[id]
<1>1. sent' = [id \in DOMAIN sent \cup {nextId} |-> IF id = nextId THEN c ELSE sent[id]]
  BY DEF Subscribe
<1>2. nextId \notin DOMAIN sent
  BY DEF TypeInv, IdsInv
<1>3. sent \in [DOMAIN sent -> Instruments]
  BY DEF TypeInv
<1> QED
  BY <1>1, <1>2, <1>3

\* The contracts the command subscribes to.
LEMMA ContractIs ==
  ASSUME TypeInv
  PROVE  /\ pc # "off" =>
               [symbol |-> symbol, expiry |-> 0, strike |-> 0, right |-> ""] \in Instruments
         /\ todo # <<>> => /\ Head(todo) \in Listable /\ Head(todo) \in Instruments
                           /\ Tail(todo) \in Seq(Listable)
<1>1. todo # <<>> => Head(todo) \in Listable /\ Tail(todo) \in Seq(Listable)
  BY HeadTailProperties DEF TypeInv
<1> QED
  BY <1>1 DEF TypeInv, Instruments, Listable

\* A row is filed under its request's contract, or nowhere.
LEMMA InstrumentIs ==
  ASSUME TypeInv, NEW id \in DOMAIN sent
  PROVE  InstrumentOf(id) \in Instruments /\ InstrumentOf(id) \in {sent[id], Unknown}
<1>1. Unknown \in Instruments
  BY DEF Unknown, Instruments
<1> QED
  BY <1>1 DEF InstrumentOf, TypeInv

\* The strip of a chain with a future expiry.
LEMMA WholeIs ==
  ASSUME TypeInv, ListsInv, pc # "off", snapshot.strikes # {}, spot \in Spots,
         Future(snapshot.expiries) # {}
  PROVE  Whole \in Seq(Listable)
<1> DEFINE e == SelectedExpiries(snapshot.expiries)
           k == StrikeStrip(snapshot.strikes, spot)
<1>1. /\ snapshot.expiries \in SUBSET Nat /\ snapshot.strikes \subseteq Nat \ {0}
      /\ snapshot.strikes \in SUBSET Nat /\ IsFiniteSet(snapshot.strikes)
  BY DEF ListsInv, Lists
<1>2. e \in Seq(Nat)
  <2>1. e \in Seq(Future(snapshot.expiries))
    BY <1>1, SelectedExpiriesIs
  <2>2. Future(snapshot.expiries) \subseteq Nat
    BY <1>1 DEF Future
  <2> HIDE DEF e
  <2> QED
    BY <2>1, <2>2, SeqMonotonic
<1>3. k \in Seq(Nat \ {0})
  <2>1. k \in Seq(snapshot.strikes)
    BY <1>1, ConstantsAre, StrikeStripIs
  <2> HIDE DEF k
  <2> QED
    BY <2>1, <1>1, SeqMonotonic
<1>4. symbol \in Symbols
  BY DEF TypeInv
<1> HIDE DEF e, k
<1>5. Strip(e, k) \in Seq(Listable)
  BY <1>2, <1>3, <1>4, StripIs
<1> QED
  BY <1>5 DEF Whole, e, k

\* A tick adds a row.
LEMMA TickIs ==
  ASSUME TypeInv, NEW id \in DOMAIN sent, NEW field \in Fields, NEW positive \in BOOLEAN,
         Tick(id, field, positive)
  PROVE  /\ ticks' \in Seq(TickRows)
         /\ \E t \in TickRows :
               /\ ticks' = Append(ticks, t)
               /\ t.session = session /\ t.req = id /\ t.instrument = InstrumentOf(id)
               /\ t.inTime = (id \in live)
<1> DEFINE t == [session |-> session, req |-> id, field |-> field, positive |-> positive,
                 instrument |-> InstrumentOf(id), inTime |-> id \in live]
<1>1. id \in Nat /\ session \in Nat /\ InstrumentOf(id) \in Instruments
  BY InstrumentIs DEF TypeInv
<1>2. t \in TickRows
  BY <1>1 DEF TickRows
<1>3. ticks' = Append(ticks, t)
  BY DEF Tick
<1>4. /\ t.session = session /\ t.req = id /\ t.instrument = InstrumentOf(id)
      /\ t.inTime = (id \in live)
  OBVIOUS
<1> HIDE DEF t
<1>5. ticks' \in Seq(TickRows)
  BY <1>2, <1>3, AppendProperties DEF TypeInv
<1> QED
  BY <1>2, <1>3, <1>4, <1>5

\* A snapshot of finite rows is finite.
LEMMA SnapshotIs ==
  ASSUME ListsInv, NEW id PROVE Lists(Snapshot(id))
<1> DEFINE rows == {c \in chains : c.req = id}
           es == {c.expiries : c \in rows}
           ks == {c.strikes : c \in rows}
           f == [c \in rows |-> c.expiries]
           g == [c \in rows |-> c.strikes]
<1>1. IsFiniteSet(rows) /\ \A c \in rows : Lists(c)
  <2>1. rows \in SUBSET chains /\ IsFiniteSet(chains)
    BY DEF ListsInv
  <2>2. IsFiniteSet(rows)
    BY <2>1, FS_Subset, Zenon
  <2> QED
    BY <2>2 DEF ListsInv
<1>2. f \in Surjection(rows, es) /\ g \in Surjection(rows, ks)
  BY DEF Surjection
<1>3. IsFiniteSet(es) /\ IsFiniteSet(ks)
  <2> HIDE DEF f, g, es, ks, rows
  <2> QED
    BY <1>1, <1>2, FS_Surjection
<1>4. \A e \in es : IsFiniteSet(e) /\ e \subseteq Nat
  BY <1>1 DEF Lists
<1>5. \A k \in ks : IsFiniteSet(k) /\ k \subseteq Nat \ {0}
  BY <1>1 DEF Lists
<1>6. IsFiniteSet(UNION es) /\ IsFiniteSet(UNION ks)
  <2> HIDE DEF es, ks
  <2> QED
    BY <1>3, <1>4, <1>5, FS_UNION
<1>7. UNION es \subseteq Nat /\ UNION ks \subseteq Nat \ {0}
  <2> HIDE DEF es, ks
  <2> QED
    BY <1>4, <1>5
<1>8. Snapshot(id).expiries = UNION es /\ Snapshot(id).strikes = UNION ks
  BY DEF Snapshot
<1> QED
  BY <1>6, <1>7, <1>8 DEF Lists

\* The elements of a sequence as it is begun, as it grows
LEMMA RangeEmpty == Range(<<>>) = {}
  BY DEF Range

\* at its end,
LEMMA RangeAppend ==
  ASSUME NEW S, NEW s \in Seq(S), NEW x \in S
  PROVE  Range(Append(s, x)) = Range(s) \cup {x}
<1>1. /\ Append(s, x) \in Seq(S) /\ Len(s) \in Nat /\ Len(Append(s, x)) = Len(s) + 1
      /\ \A i \in 1 .. Len(s) : Append(s, x)[i] = s[i]
      /\ Append(s, x)[Len(s) + 1] = x
  BY AppendProperties, LenProperties
<1>2. DOMAIN Append(s, x) = 1 .. Len(s) + 1 /\ DOMAIN s = 1 .. Len(s)
  BY <1>1, LenProperties
<1>3. \A y \in Range(Append(s, x)) : y \in Range(s) \cup {x}
  BY <1>1, <1>2 DEF Range
<1>4. \A y \in Range(s) : y \in Range(Append(s, x))
  BY <1>1, <1>2 DEF Range
<1>5. x \in Range(Append(s, x))
  BY <1>1, <1>2 DEF Range
<1> QED
  BY <1>3, <1>4, <1>5

\* and as it is read.
LEMMA RangeTail ==
  ASSUME NEW S, NEW s \in Seq(S), s # <<>>
  PROVE  Range(s) = {Head(s)} \cup Range(Tail(s)) /\ Head(s) \in Range(s)
<1>1. /\ Tail(s) \in Seq(S) /\ Len(s) \in Nat /\ Len(s) >= 1 /\ Len(Tail(s)) = Len(s) - 1
      /\ \A i \in 1 .. Len(Tail(s)) : Tail(s)[i] = s[i + 1]
      /\ Head(s) = s[1]
  BY HeadTailProperties, LenProperties
<1>2. DOMAIN Tail(s) = 1 .. Len(s) - 1 /\ DOMAIN s = 1 .. Len(s)
  BY <1>1, LenProperties
<1>3. \A y \in Range(Tail(s)) : y \in Range(s)
  BY <1>1, <1>2 DEF Range
<1>4. Head(s) \in Range(s)
  BY <1>1, <1>2 DEF Range
<1>5. ASSUME NEW i \in 1 .. Len(s) PROVE s[i] \in {Head(s)} \cup Range(Tail(s))
  <2>1. CASE i = 1
    BY <2>1, <1>1
  <2>2. CASE i # 1
    <3>1. i - 1 \in 1 .. Len(Tail(s)) /\ Tail(s)[i - 1] = s[i]
      BY <2>2, <1>1
    <3> QED
      BY <3>1, <1>1, <1>2 DEF Range
  <2> QED
    BY <2>1, <2>2
<1>6. \A y \in Range(s) : y \in {Head(s)} \cup Range(Tail(s))
  BY <1>5, <1>2 DEF Range
<1> QED
  BY <1>3, <1>4, <1>6

----------------------------------------------------------------------------
(* The steps.                                                              *)

\* The next-state relation, an action a disjunct.
Starts == \E s \in Symbols, given \in BOOLEAN : Start(s, given)

AnswerComes ==
  \E r \in pending :
    \/ DetailsEnd(r) \/ ChainEnds(r)
    \/ \E price \in Prices : HistoryAnswered(r, price)

ChainRowComes == \E r \in pending : \E row \in Listed[symbol] : ChainRow(r, row)

TickComes ==
  \E id \in DOMAIN sent :
    \/ \E price \in Spots : SpotTick(id, price)
    \/ \E field \in Fields, positive \in BOOLEAN : OptionTick(id, field, positive)

GreeksCome == \E id \in DOMAIN sent : \E has \in Computations : Greeks(id, has)

\* Each step is one of these.
LEMMA NextIs ==
  ASSUME [Next]_vars
  PROVE  \/ Starts \/ Close
         \/ AskDetails \/ DetailsCome \/ AskChain \/ ChainComes \/ AnswerTimesOut
         \/ Resolve \/ AskHistory \/ HistoryWaitEnds
         \/ SubscribeSpot \/ EmitSpot \/ SpotSleepEnds \/ ResolveAgain
         \/ Select \/ AskOption \/ OptionWaitEnds \/ SubscribeOption \/ EmitOption
         \/ StripIsSubscribed \/ SleepEnds \/ Raise \/ RaiseInStrip \/ DatabaseFails
         \/ CancelOne \/ CancelsEnd
         \/ Check \/ Fill \/ Finish
         \/ AnswerComes \/ ChainRowComes \/ TickComes \/ GreeksCome \/ Fail \/ UNCHANGED vars
  BY DEF Next, Main, IBKR, Starts, AnswerComes, ChainRowComes, TickComes, GreeksCome, Fields,
     Prices

\* The tables of prices and of greeks, and the contracts asked for.
LEMMA RowsKept ==
  ASSUME [Next]_vars
  PROVE  \/ Starts \/ Close \/ SubscribeSpot \/ SubscribeOption \/ Fill \/ TickComes \/ GreeksCome
         \/ UNCHANGED <<session, sent, ticks, greeks>> /\ (pc' = "off" <=> pc = "off")
  BY NextIs
  DEF AskDetails, AskChain, AskHistory, Ask, DetailsCome, ChainComes, AnswerTimesOut, Resolve,
      HistoryWaitEnds, EmitSpot, SpotSleepEnds, ResolveAgain, Select, AskOption, OptionWaitEnds,
      EmitOption, StripIsSubscribed, SleepEnds, Raise, RaiseInStrip, DatabaseFails,
      CancelOne, CancelsEnd, Check,
      Finish, Move, AnswerComes, DetailsEnd, ChainEnds, HistoryAnswered, Answer, ChainRowComes,
      ChainRow, Fail, vars, main, network, database

\* The chains, and what has been read of them.
LEMMA ChainsKept ==
  ASSUME [Next]_vars
  PROVE  Close \/ ChainComes \/ ChainRowComes \/ UNCHANGED <<chains, snapshot>>
  BY NextIs
  DEF Starts, Start, AskDetails, AskChain, AskHistory, Ask, DetailsCome, AnswerTimesOut, Resolve,
      HistoryWaitEnds, EmitSpot, SpotSleepEnds, ResolveAgain, Select, AskOption, OptionWaitEnds,
      SubscribeSpot, SubscribeOption, Subscribe,
      EmitOption, StripIsSubscribed, SleepEnds, Raise, RaiseInStrip, DatabaseFails,
      CancelOne, CancelsEnd, Check,
      Fill, Finish, Move, AnswerComes, DetailsEnd, ChainEnds, HistoryAnswered, Answer, TickComes,
      SpotTick, OptionTick, Tick, GreeksCome, Greeks, Fail, vars, main, network, database

\* The strip, while it is collected.
StripUntouched ==
  /\ pc \in InStrip
  /\ UNCHANGED <<symbol, snapshot, spot, todo, requestIds, sent>>
  /\ pc' = "emit" => pc = "emit" /\ nextId' = nextId
  /\ pc' \in AfterStrip => pc \in AfterStrip \/ todo = <<>>

\* Only three actions disturb it.
LEMMA StripKept ==
  ASSUME [Next]_vars, pc' \in InStrip
  PROVE  Select \/ SubscribeOption \/ EmitOption \/ StripUntouched
<1>1. CASE Starts \/ Close \/ AskDetails \/ AskChain \/ AskHistory \/ DetailsCome \/ ChainComes
           \/ AnswerTimesOut \/ Resolve \/ HistoryWaitEnds \/ SubscribeSpot \/ EmitSpot
           \/ SpotSleepEnds \/ ResolveAgain \/ Raise \/ RaiseInStrip
           \/ DatabaseFails
  BY <1>1
  DEF InStrip, Starts, Start, Close, AskDetails, AskChain, AskHistory, Ask, DetailsCome, ChainComes,
      AnswerTimesOut, Resolve, HistoryWaitEnds, SubscribeSpot, Subscribe, EmitSpot, SpotSleepEnds,
      ResolveAgain, Raise, RaiseInStrip, DatabaseFails, Move
<1>2. CASE AskOption \/ OptionWaitEnds \/ StripIsSubscribed \/ SleepEnds \/ CancelOne \/ CancelsEnd
           \/ Check \/ Fill \/ Finish
  BY <1>2
  DEF StripUntouched, InStrip, AfterStrip, AskOption, OptionWaitEnds, StripIsSubscribed, SleepEnds,
      CancelOne, CancelsEnd, Check, Fill, Finish, Move, network, database
<1>3. CASE AnswerComes \/ Fail \/ UNCHANGED vars
  BY <1>3
  DEF StripUntouched, InStrip, AfterStrip, AnswerComes, DetailsEnd, ChainEnds, HistoryAnswered,
      Answer, Fail, vars, main, network
<1>4. CASE ChainRowComes \/ TickComes \/ GreeksCome
  <2>1. UNCHANGED <<symbol, sent, main>>
    BY <1>4
    DEF ChainRowComes, ChainRow, TickComes, SpotTick, OptionTick, Tick, GreeksCome, Greeks, network
  <2> QED
    BY <2>1 DEF StripUntouched, InStrip, AfterStrip, main
<1> QED
  BY <1>1, <1>2, <1>3, <1>4, NextIs

\* What has been filled in, and what is left.
LEMMA BackfillKept ==
  ASSUME [Next]_vars, pc' \in {"check", "fill", "done"}
  PROVE  \/ CancelsEnd \/ Check \/ Fill \/ Finish \/ TickComes \/ GreeksCome
         \/ UNCHANGED <<session, pc, left, requestIds, ticks, greeks>>
  BY NextIs
  DEF Starts, Start, Close, ChainComes, AskDetails, AskChain, AskHistory, Ask, DetailsCome,
      AnswerTimesOut, Resolve, HistoryWaitEnds, EmitSpot, EmitOption, SpotSleepEnds, ResolveAgain,
      Select, AskOption, SubscribeOption, CancelOne,
      OptionWaitEnds, SubscribeSpot, Subscribe, StripIsSubscribed, SleepEnds, Raise, RaiseInStrip,
      DatabaseFails,
      Move, AnswerComes, DetailsEnd, ChainEnds, HistoryAnswered, Answer, ChainRowComes, ChainRow,
      Fail, vars, main, network, database

\* The rows of the tables are of their kinds.
LEMMA RowsAre ==
  ASSUME TypeInv
  PROVE  /\ \A t \in Range(ticks) : t \in TickRows
         /\ \A g \in Range(greeks) : g \in GreekRows
  BY RangeOfSeq DEF TypeInv

\* What reception appends to the tables.
LEMMA TicksGrow ==
  ASSUME TypeInv, TickComes
  PROVE  /\ \E id \in DOMAIN sent, t \in TickRows :
               /\ ticks' = Append(ticks, t) /\ Range(ticks') = Range(ticks) \cup {t}
               /\ t.session = session /\ t.req = id /\ t.instrument \in {sent[id], Unknown}
               /\ t.inTime = (id \in live)
         /\ UNCHANGED <<session, pc, sent, greeks, requestIds, left>> /\ ~failed
<1>1. PICK id \in DOMAIN sent, field \in Fields, positive \in BOOLEAN : Tick(id, field, positive)
  BY DEF TickComes, SpotTick, OptionTick, Fields
<1>2. PICK t \in TickRows :
         /\ ticks' = Append(ticks, t)
         /\ t.session = session /\ t.req = id /\ t.instrument = InstrumentOf(id)
         /\ t.inTime = (id \in live)
  BY <1>1, TickIs
<1>3. ticks \in Seq(TickRows)
  BY DEF TypeInv
<1>4. Range(ticks') = Range(ticks) \cup {t}
  BY <1>2, <1>3, RangeAppend
<1>5. InstrumentOf(id) \in {sent[id], Unknown}
  BY InstrumentIs
<1>6. UNCHANGED <<session, pc, sent, greeks, requestIds, left>> /\ ~failed
  BY <1>1 DEF Tick, Receiving, main, network
<1> QED
  BY <1>2, <1>4, <1>5, <1>6

\* Greeks of IBKR add a row of this session.
LEMMA GreeksGrow ==
  ASSUME TypeInv, GreeksCome
  PROVE  /\ \E id \in DOMAIN sent, g \in GreekRows :
               /\ greeks' = Append(greeks, g) /\ Range(greeks') = Range(greeks) \cup {g}
               /\ g.session = session /\ g.req = id /\ g.synthetic = FALSE
         /\ UNCHANGED <<session, pc, sent, ticks, requestIds, left>>
<1>1. PICK id \in DOMAIN sent, has \in Computations : Greeks(id, has)
  BY DEF GreeksCome
<1> DEFINE g == [session |-> session, req |-> id, synthetic |-> FALSE, has |-> has,
                 instrument |-> InstrumentOf(id), sources |-> {}]
<1>2. id \in Nat /\ session \in Nat /\ has \in SUBSET Columns
  BY ComputationsAssumption DEF TypeInv
<1>3. InstrumentOf(id) \in Instruments
  BY InstrumentIs
<1>4. g \in GreekRows
  BY <1>2, <1>3 DEF GreekRows
<1>5. greeks' = Append(greeks, g) /\ UNCHANGED <<session, pc, sent, ticks, requestIds, left>>
  BY <1>1 DEF Greeks, main, network
<1>6. g.session = session /\ g.req = id /\ g.synthetic = FALSE
  OBVIOUS
<1>7. greeks \in Seq(GreekRows)
  BY DEF TypeInv
<1> HIDE DEF g
<1>8. Range(greeks') = Range(greeks) \cup {g}
  BY <1>4, <1>5, <1>7, RangeAppend
<1> QED
  BY <1>4, <1>5, <1>6, <1>8

\* The backfill adds the row it has computed, if it adds one.
LEMMA FillGrows ==
  ASSUME TypeInv, IdsInv, FilledInv, Fill, greeks' # greeks
  PROVE  /\ Synthetic(Head(left), PriceOf(Head(left))) \in GreekRows
         /\ greeks' = Append(greeks, Synthetic(Head(left), PriceOf(Head(left))))
         /\ Range(greeks') = Range(greeks) \cup {Synthetic(Head(left), PriceOf(Head(left)))}
         /\ PriceOf(Head(left)) # {}
<1> DEFINE g == Synthetic(Head(left), PriceOf(Head(left)))
<1>1. g \in GreekRows /\ greeks' = Append(greeks, g) /\ PriceOf(Head(left)) # {}
  BY FillIs
<1>2. greeks \in Seq(GreekRows)
  BY DEF TypeInv
<1> HIDE DEF g
<1>3. Range(greeks') = Range(greeks) \cup {g}
  BY <1>1, <1>2, RangeAppend
<1> QED
  BY <1>1, <1>3 DEF g

\* A subscription leaves the contracts of the others as they are.
LEMMA SentGrows ==
  ASSUME TypeInv, IdsInv, SubscribeSpot \/ SubscribeOption
  PROVE  /\ DOMAIN sent' = DOMAIN sent \cup {nextId} /\ nextId \notin DOMAIN sent
         /\ \A id \in DOMAIN sent : sent'[id] = sent[id]
         /\ nextId' = nextId + 1 /\ pc # "off" /\ pc' \in {"emitSpot", "emit"}
         /\ live' = live \cup {nextId}
         /\ UNCHANGED <<session, symbol, failed, snapshot, spot, todo, requestIds, left, pending,
                        answered, contexts, database>>
<1>1. CASE SubscribeSpot
  <2>1. /\ DOMAIN sent' = DOMAIN sent \cup {nextId} /\ nextId \notin DOMAIN sent
        /\ \A id \in DOMAIN sent : sent'[id] = sent[id]
    BY <1>1, SubscribeIs, ContractIs DEF SubscribeSpot, Subscribe
  <2> QED
    BY <1>1, <2>1 DEF SubscribeSpot, Subscribe
<1>2. CASE SubscribeOption
  <2>1. /\ DOMAIN sent' = DOMAIN sent \cup {nextId} /\ nextId \notin DOMAIN sent
        /\ \A id \in DOMAIN sent : sent'[id] = sent[id]
    BY <1>2, SubscribeIs, ContractIs DEF SubscribeOption
  <2> QED
    BY <1>2, <2>1 DEF SubscribeOption, Subscribe
<1> QED
  BY <1>1, <1>2

\* The strip depends on the chain read, the spot price and the symbol alone.
LEMMA WholeSame ==
  ASSUME UNCHANGED <<symbol, snapshot, spot>> PROVE Whole' = Whole
<1>1. symbol' = symbol /\ snapshot' = snapshot /\ spot' = spot
  OBVIOUS
<1>2. Whole' = Strip(SelectedExpiries(snapshot.expiries), StrikeStrip(snapshot.strikes, spot))'
  BY DEF Whole
<1> QED
  BY <1>1 DEF Whole, Strip

----------------------------------------------------------------------------
(* What a fill finds.                                                      *)

\* An id whose rows are of this session now had none of an earlier one before.
LEMMA FreshBefore ==
  ASSUME NEW id, Range(ticks) \subseteq Range(ticks'), Range(greeks) \subseteq Range(greeks'),
         session' = session, FreshId(id)'
  PROVE  FreshId(id)
  BY DEF FreshId, Own

\* With no other session's rows under its id, an option's quote is its own.
LEMMA OwnQuote ==
  ASSUME TypeInv, RowsInv, pc # "off", NEW id, FreshId(id)
  PROVE  /\ \A i \in Recent(id) : ticks[i].instrument = sent[id]
         /\ PriceOf(id) # {} =>
               /\ QuotedInstrument(id) = sent[id]
               /\ {t.instrument : t \in PriceOf(id)} = {sent[id]}
<1>1. ASSUME NEW i \in Recent(id) PROVE ticks[i].instrument = sent[id]
  <2>1. i \in DOMAIN ticks /\ ticks[i].req = id /\ ticks[i].instrument # Unknown
    BY DEF Recent, Filed
  <2>2. ticks[i] \in Range(ticks)
    BY <2>1 DEF Range
  <2>3. ticks[i].session = session
    BY <2>1, <2>2 DEF FreshId, Own
  <2> QED
    BY <2>1, <2>2, <2>3 DEF RowsInv
<1>2. ASSUME PriceOf(id) # {}
      PROVE  /\ QuotedInstrument(id) = sent[id]
             /\ {t.instrument : t \in PriceOf(id)} = {sent[id]}
  <2>1. QuotedInstrument(id) = sent[id]
    BY <1>1, <1>2, PriceIs, RecentIs DEF QuotedInstrument
  <2>2. \A t \in PriceOf(id) : t.instrument = sent[id]
    BY <1>1, PriceIs
  <2> QED
    BY <1>2, <2>1, <2>2
<1> QED
  BY <1>1, <1>2

\* An option that had a price has one to fill in from.
LEMMA PriceFound ==
  ASSUME TypeInv, RowsInv, pc # "off", NEW id, FreshId(id), HadPrice(id)
  PROVE  PriceOf(id) # {}
<1> DEFINE mine == {t \in OfSession(Range(ticks)) : t.req = id}
           N == {i \in DOMAIN ticks : ticks[i] \in mine}
<1>1. /\ \A t \in mine : t.positive /\ t.inTime /\ t.instrument # Unknown
      /\ Cardinality(N) <= Window
      /\ "LAST" \in {t.field : t \in mine} \/ {"BID", "ASK"} \subseteq {t.field : t \in mine}
  BY DEF HadPrice
<1>2. Filed(id) = N
  <2>1. ASSUME NEW i \in Filed(id) PROVE i \in N
    <3>1. i \in DOMAIN ticks /\ ticks[i].req = id
      BY DEF Filed
    <3>2. ticks[i] \in Range(ticks)
      BY <3>1 DEF Range
    <3> QED
      BY <3>1, <3>2 DEF FreshId, Own, OfSession
  <2>2. ASSUME NEW i \in N PROVE i \in Filed(id)
    BY <1>1 DEF Filed
  <2> QED
    BY <2>1, <2>2
<1> HIDE DEF N
<1>3. IsFiniteSet(Filed(id)) /\ Filed(id) \subseteq Nat
  <2>1. Filed(id) \subseteq 1 .. Len(ticks) /\ Len(ticks) \in Nat
    BY RecentIs
  <2> QED
    BY <2>1, IndicesAre
<1>4. ASSUME NEW i \in Filed(id) PROVE i \in Recent(id)
  <2> DEFINE after == {k \in Filed(id) : k > i}
  <2>1. after \in SUBSET Filed(id) /\ i \notin after
    BY <1>3
  <2>2. Cardinality(after) <= Cardinality(Filed(id)) /\ Cardinality(after) # Cardinality(Filed(id))
    BY <1>3, <2>1, FS_Subset
  <2>3. Cardinality(Filed(id)) \in Nat /\ Cardinality(after) \in Nat
    BY <1>3, <2>1, FS_Subset, FS_CardinalityType
  <2>4. Cardinality(after) < Window
    BY <1>1, <1>2, <2>2, <2>3, ConstantsAre
  <2> QED
    BY <2>4 DEF Recent
<1>5. \A i \in Recent(id) : ticks[i].positive
  BY <1>1, <1>2, RecentIs DEF N
<1>6. ASSUME NEW field, field \in {t.field : t \in mine} PROVE Usable(LatestOf(id, field))
  <2>1. PICK t \in mine : t.field = field
    BY <1>6
  <2>2. PICK i \in DOMAIN ticks : ticks[i] = t
    BY <2>1 DEF OfSession, Range
  <2>3. i \in Recent(id)
    BY <1>2, <1>4, <2>1, <2>2 DEF N
  <2>4. LatestOf(id, field) # {}
    BY <2>1, <2>2, <2>3, LatestIs
  <2>5. \A p \in LatestOf(id, field) : p.positive
    BY <1>5, LatestIs
  <2> QED
    BY <2>4, <2>5 DEF Usable
<1>7. "LAST" \in {t.field : t \in mine} => Usable(LatestOf(id, "LAST"))
  BY <1>6
<1>8. {"BID", "ASK"} \subseteq {t.field : t \in mine} =>
         Usable(LatestOf(id, "BID")) /\ Usable(LatestOf(id, "ASK"))
  BY <1>6
<1> HIDE DEF mine
<1> QED
  BY <1>1, <1>7, <1>8 DEF PriceOf, Usable

----------------------------------------------------------------------------
(* What may come once an option is done with.                              *)

\* Whether an option had a price depends on the ticks of the session.
LEMMA HadPriceSame ==
  ASSUME NEW id, UNCHANGED <<session, ticks>> PROVE HadPrice(id)' = HadPrice(id)
  BY DEF HadPrice, OfSession

\* A tick of a subscription that has been cancelled.
LEMMA LateTick ==
  ASSUME TypeInv, NEW t \in TickRows, ticks' = Append(ticks, t), session' = session,
         t.session = session, t.inTime = FALSE, NEW id
  PROVE  HadPrice(id)' => HadPrice(id)
<1> DEFINE mine == {r \in OfSession(Range(ticks)) : r.req = id}
           after == {r \in {q \in Range(ticks') : q.session = session} : r.req = id}
           N == {i \in DOMAIN ticks : ticks[i] \in mine}
           M == {i \in DOMAIN ticks' : ticks'[i] \in after}
<1>1. ticks \in Seq(TickRows)
  BY DEF TypeInv
<1>2. Range(ticks') = Range(ticks) \cup {t}
  BY <1>1, RangeAppend
<1>3. CASE t.req = id
  <2>1. t \in after
    BY <1>2, <1>3
  <2>2. HadPrice(id)' => \A r \in after : r.inTime
    BY DEF HadPrice, OfSession
  <2> QED
    BY <2>1, <2>2
<1>4. CASE t.req # id
  <2>1. after = mine /\ t \notin mine
    BY <1>2, <1>4 DEF OfSession
  <2>2. /\ Len(ticks) \in Nat /\ DOMAIN ticks = 1 .. Len(ticks)
        /\ DOMAIN ticks' = 1 .. Len(ticks) + 1
        /\ \A i \in 1 .. Len(ticks) : ticks'[i] = ticks[i]
        /\ ticks'[Len(ticks) + 1] = t
    <3>1. ticks' \in Seq(TickRows) /\ Len(ticks') = Len(ticks) + 1
      BY <1>1, AppendProperties
    <3> QED
      BY <1>1, <3>1, AppendProperties, LenProperties
  <2>3. M = N
    <3>1. \A i \in M : i \in N
      <4> HIDE DEF mine, after
      <4> QED
        BY <2>1, <2>2
    <3>2. \A i \in N : i \in M
      <4> HIDE DEF mine, after
      <4> QED
        BY <2>1, <2>2
    <3> QED
      BY <3>1, <3>2
  <2>4. HadPrice(id)' <=>
          /\ \A r \in after : r.positive /\ r.inTime /\ r.instrument # Unknown
          /\ Cardinality(M) <= Window
          /\ "LAST" \in {r.field : r \in after} \/ {"BID", "ASK"} \subseteq {r.field : r \in after}
    BY DEF HadPrice, OfSession
  <2>5. HadPrice(id) <=>
          /\ \A r \in mine : r.positive /\ r.inTime /\ r.instrument # Unknown
          /\ Cardinality(N) <= Window
          /\ "LAST" \in {r.field : r \in mine} \/ {"BID", "ASK"} \subseteq {r.field : r \in mine}
    BY DEF HadPrice
  <2> HIDE DEF mine, after, M, N
  <2> QED
    BY <2>1, <2>3, <2>4, <2>5
<1> QED
  BY <1>3, <1>4

\* What has been filled in stays so when greeks come.
LEMMA FilledStays ==
  ASSUME NEW g, Range(greeks') = Range(greeks) \cup {g}, UNCHANGED <<session, ticks>>,
         g.session = session, g.synthetic \in BOOLEAN, NEW id,
         Filled(id) \/ g.req = id
  PROVE  Filled(id)'
<1>1. HadPrice(id)' = HadPrice(id)
  BY HadPriceSame
<1>2. OfSession(Range(greeks))' = OfSession(Range(greeks)) \cup {g}
  BY DEF OfSession
<1>3. CASE g.req = id
  <2>1. \E h \in OfSession(Range(greeks))' : h.req = id
    BY <1>2, <1>3
  <2> QED
    BY <2>1 DEF Filled
<1>4. CASE g.req # id
  BY <1>1, <1>2, <1>4 DEF Filled
<1> QED
  BY <1>3, <1>4

\* Each variable keeps its type; what is selected are listed options, for the
\* chain has been read by then.
LEMMA TypeStep ==
  ASSUME TypeInv, ListsInv, IdsInv, ChainInv, FilledInv, [Next]_vars
  PROVE  TypeInv'
<1>1. CASE Starts
  BY <1>1 DEF Starts, Start, TypeInv, Labels, Waiting, Sleeping, Over, network, database
<1>2. CASE Close
  <2>1. sent' = <<>> /\ DOMAIN sent' = {} /\ sent' \in [DOMAIN sent' -> Instruments]
    BY <1>2 DEF Close
  <2>2. nextId' \in Nat /\ spot' \in Prices /\ contexts' \subseteq DOMAIN sent'
    BY <1>2, ConstantsAre DEF Close, Prices
  <2>3. todo' \in Seq(Listable) /\ requestIds' \in Seq(Nat) /\ left' \in Seq(Nat)
    BY <1>2 DEF Close
  <2>4. DOMAIN sent' \subseteq Nat
    BY <2>1
  <2> QED
    BY <1>2, <2>1, <2>2, <2>3, <2>4 DEF Close, TypeInv, Labels, Over, database
<1>3. CASE AskDetails \/ AskChain \/ AskHistory
  BY <1>3
  DEF AskDetails, Ask, AskChain, AskHistory, TypeInv, Labels, Waiting, Sleeping, Over,
      network, database
<1>4. CASE DetailsCome \/ AnswerTimesOut \/ OptionWaitEnds
  BY <1>4
  DEF DetailsCome, Move, AnswerTimesOut, OptionWaitEnds, TypeInv, Labels, Waiting, Sleeping,
      Over, network, database
<1>5. CASE ChainComes
  BY <1>5 DEF ChainComes, TypeInv, Labels, Waiting, Sleeping, Over, network, database
<1>6. CASE Resolve \/ ResolveAgain
  BY <1>6 DEF Resolve, ResolveAgain, TypeInv, Labels, Waiting, Sleeping, Over, network, database
<1>7. CASE HistoryWaitEnds
  <2>1. symbol \in Symbols /\ closes[symbol] \in Prices
    BY <1>7 DEF TypeInv, HistoryWaitEnds
  <2>2. spot' \in Prices
    BY <1>7, <2>1 DEF HistoryWaitEnds, Prices
  <2> QED
    BY <1>7, <2>2 DEF HistoryWaitEnds, TypeInv, Labels, database
<1>8. CASE SubscribeSpot
  <2>1. DOMAIN sent' = DOMAIN sent \cup {nextId} /\ sent' \in [DOMAIN sent' -> Instruments]
    BY <1>8, SubscribeIs, ContractIs DEF SubscribeSpot, Subscribe
  <2>2. /\ nextId' = nextId + 1 /\ pc = "askSpot" /\ pc' = "emitSpot"
        /\ UNCHANGED <<session, symbol, failed, spot, todo, requestIds, left, pending,
                       answered, contexts, database>>
    BY <1>8 DEF SubscribeSpot, Subscribe
  <2> QED
    BY <2>1, <2>2 DEF TypeInv, Labels, database
<1>9. CASE EmitSpot
  BY <1>9
  DEF EmitSpot, Announce, Move, TypeInv, Labels, Waiting, Sleeping, Over, network, database, IdsInv
<1>10. CASE SpotSleepEnds
  BY <1>10 DEF SpotSleepEnds, Move, TypeInv, Labels, Waiting, Sleeping, Over, network, database
<1>11. CASE Select
  <2>1. todo' \in Seq(Listable)
    <3>1. CASE Future(snapshot.expiries) = {}
      BY <1>11, <3>1 DEF Select, TypeInv
    <3>2. CASE Future(snapshot.expiries) # {}
      <4>1. snapshot.strikes # {} /\ spot \in Spots /\ pc # "off"
        BY <1>11 DEF Select, ChainInv, Chained, IdsInv
      <4>2. Whole \in Seq(Listable)
        BY <3>2, <4>1, WholeIs
      <4> QED
        BY <1>11, <3>2, <4>2 DEF Select, Whole
    <3> QED
      BY <3>1, <3>2
  <2> QED
    BY <1>11, <2>1 DEF Select, TypeInv, Labels, Over, network, database
<1>12. CASE AskOption
  BY <1>12 DEF AskOption, Move, TypeInv, Labels, Waiting, Sleeping, Over, network, database
<1>13. CASE SubscribeOption
  <2>1. DOMAIN sent' = DOMAIN sent \cup {nextId} /\ sent' \in [DOMAIN sent' -> Instruments]
    BY <1>13, SubscribeIs, ContractIs DEF SubscribeOption
  <2>2. /\ nextId' = nextId + 1 /\ pc = "subscribe" /\ pc' = "emit"
        /\ UNCHANGED <<session, symbol, failed, spot, todo, requestIds, left, pending,
                       answered, contexts, database>>
    BY <1>13 DEF SubscribeOption, Subscribe
  <2> QED
    BY <2>1, <2>2 DEF TypeInv, Labels, database
<1>14. CASE EmitOption
  <2>1. Current \in DOMAIN sent /\ Current \in Nat /\ todo # <<>>
    BY <1>14 DEF EmitOption, Announce, Move, TypeInv, IdsInv
  <2>2. requestIds' \in Seq(Nat) /\ todo' \in Seq(Listable)
    BY <1>14, <2>1, ContractIs, AppendProperties DEF EmitOption, Announce, TypeInv
  <2> QED
    BY <1>14, <2>1, <2>2 DEF EmitOption, Announce, Move, TypeInv, Labels, database
<1>15. CASE StripIsSubscribed \/ SleepEnds
  BY <1>15
  DEF StripIsSubscribed, Move, SleepEnds, TypeInv, Labels, Waiting, Sleeping, Over, network,
      database
<1>16. CASE Raise \/ RaiseInStrip \/ DatabaseFails
  BY <1>16 DEF Raise, RaiseInStrip, DatabaseFails, Move, TypeInv, Labels, Waiting, Sleeping,
     Over, network, database
<1>17. CASE CancelOne
  <2>1. left' \in Seq(Nat)
    BY <1>17, HeadTailProperties DEF CancelOne, TypeInv
  <2> QED
    BY <1>17, <2>1 DEF CancelOne, TypeInv, database
<1>18. CASE CancelsEnd \/ Finish
  BY <1>18
  DEF CancelsEnd, Finish, Move, TypeInv, Labels, Waiting, Sleeping, Over, network, database
<1>19. CASE Check
  <2>1. left' = left \/ (left # <<>> /\ left' = Tail(left))
    BY <1>19 DEF Check, GreeksExist
  <2>2. left' \in Seq(Nat)
    <3>1. left \in Seq(Nat)
      BY DEF TypeInv
    <3> QED
      BY <2>1, <3>1, HeadTailProperties
  <2> QED
    BY <1>19, <2>2 DEF Check, TypeInv, Labels, network, database
<1>20. CASE Fill
  <2>1. left' \in Seq(Nat)
    BY <1>20, HeadTailProperties DEF Fill, TypeInv, FilledInv
  <2>2. greeks' \in Seq(GreekRows)
    BY <1>20, FillIs
  <2> QED
    BY <1>20, <2>1, <2>2 DEF Fill, TypeInv, Labels, network
<1>21. CASE AnswerComes
  <2>1. PICK r \in pending, price \in Prices :
           /\ Receiving /\ Answer(r)
           /\ closes' \in {closes, [closes EXCEPT ![symbol] = price]}
           /\ UNCHANGED <<ticks, greeks, quotes>>
    BY <1>21 DEF AnswerComes, DetailsEnd, ChainEnds, HistoryAnswered, Prices, database
  <2>2. /\ r.id \in Nat /\ symbol \in Symbols
        /\ closes' \in [Symbols -> Prices]
    BY <2>1 DEF TypeInv, Receiving
  <2>3. answered' \subseteq Nat
    BY <2>1, <2>2 DEF Answer, TypeInv
  <2>4. pending' \subseteq pending
    BY <2>1 DEF Answer
  <2> QED
    BY <2>1, <2>2, <2>3, <2>4 DEF Answer, TypeInv, Labels, main
<1>22. CASE ChainRowComes
  BY <1>22
  DEF ChainRowComes, ChainRow, Receiving, TypeInv, Labels, Waiting, Sleeping, Over, network,
      database, main
<1>23. CASE TickComes
  <2>1. PICK id \in DOMAIN sent :
           \/ \E price \in Spots : SpotTick(id, price)
           \/ \E field \in Fields, positive \in BOOLEAN : OptionTick(id, field, positive)
    BY <1>23 DEF TickComes
  <2>2. ticks' \in Seq(TickRows)
    BY <2>1, TickIs DEF SpotTick, OptionTick, Fields
  <2>3. symbol \in Symbols
    BY <2>1 DEF SpotTick, OptionTick, Tick, Receiving, TypeInv
  <2>4. quotes' \in [Symbols -> Prices]
    BY <2>1, <2>3 DEF SpotTick, OptionTick, TypeInv, Prices
  <2> QED
    BY <2>1, <2>2, <2>4 DEF SpotTick, OptionTick, Tick, TypeInv, main, network
<1>24. CASE GreeksCome
  <2>1. greeks' \in Seq(GreekRows)
    <3>1. PICK g \in GreekRows : greeks' = Append(greeks, g)
      BY <1>24, GreeksGrow
    <3> QED
      BY <3>1, AppendProperties DEF TypeInv
  <2> QED
    BY <1>24, <2>1 DEF GreeksCome, Greeks, TypeInv, main, network
<1>25. CASE Fail \/ UNCHANGED vars
  BY <1>25 DEF Fail, vars, TypeInv, Labels, Waiting, Sleeping, Over, network, database, main
<1> QED
  BY <1>1, <1>2, <1>3, <1>4, <1>5, <1>6, <1>7, <1>8, <1>9, <1>10, <1>11, <1>12, <1>13, <1>14,
     <1>15, <1>16, <1>17, <1>18, <1>19, <1>20, <1>21, <1>22, <1>23, <1>24, <1>25, NextIs

\* Ids are given out upwards, and a request is answered once.
LEMMA IdsStep ==
  ASSUME TypeInv, IdsInv, FilledInv, [Next]_vars
  PROVE  IdsInv'
<1>1. CASE Starts
  BY <1>1 DEF Starts, Start, TypeInv, IdsInv, Current, network, database
<1>2. CASE Close
  BY <1>2, RangeEmpty DEF Close, TypeInv, IdsInv, Current, network, database
<1>3. CASE AskDetails
  BY <1>3 DEF AskDetails, Ask, TypeInv, IdsInv, Current, network, database
<1>4. CASE AskChain
  BY <1>4 DEF AskChain, Ask, TypeInv, IdsInv, Current, network, database
<1>5. CASE AskHistory
  BY <1>5 DEF AskHistory, Ask, TypeInv, IdsInv, Current, network, database
<1>6. CASE DetailsCome \/ AnswerTimesOut \/ OptionWaitEnds
  BY <1>6
  DEF DetailsCome, Move, AnswerTimesOut, OptionWaitEnds, TypeInv, IdsInv, Current, network,
      database
<1>7. CASE ChainComes
  BY <1>7 DEF ChainComes, TypeInv, IdsInv, Current, network, database
<1>8. CASE Resolve \/ HistoryWaitEnds \/ ResolveAgain
  <2>1. symbol \in Symbols /\ quotes[symbol] \in Prices /\ closes[symbol] \in Prices
    BY <1>8 DEF Resolve, HistoryWaitEnds, ResolveAgain, TypeInv
  <2>2. spot' # NoPrice => spot' \in Spots
    BY <1>8, <2>1 DEF Resolve, HistoryWaitEnds, ResolveAgain, Prices
  <2> QED
    BY <1>8, <2>2 DEF Resolve, HistoryWaitEnds, ResolveAgain, IdsInv, Current, network
<1>9. CASE SubscribeSpot
  <2>1. /\ DOMAIN sent' = DOMAIN sent \cup {nextId}
        /\ \A id \in DOMAIN sent : sent'[id] = sent[id]
    BY <1>9, SubscribeIs, ContractIs DEF SubscribeSpot, Subscribe
  <2>2. /\ nextId' = nextId + 1 /\ pc' = "emitSpot" /\ live' = live \cup {nextId}
        /\ UNCHANGED <<todo, requestIds, left, pending, answered>>
    BY <1>9 DEF SubscribeSpot, Subscribe
  <2> QED
    BY <2>1, <2>2 DEF TypeInv, IdsInv, Current
<1>10. CASE EmitSpot \/ SpotSleepEnds
  BY <1>10 DEF EmitSpot, Announce, Move, SpotSleepEnds, TypeInv, IdsInv, Current, network,
     database
<1>11. CASE Select
  BY <1>11 DEF Select, TypeInv, IdsInv, Current, network, database
<1>12. CASE AskOption
  BY <1>12 DEF AskOption, Move, TypeInv, IdsInv, Current, network, database
<1>13. CASE SubscribeOption
  <2>1. /\ DOMAIN sent' = DOMAIN sent \cup {nextId} /\ sent'[nextId] = Head(todo)
        /\ \A id \in DOMAIN sent : sent'[id] = sent[id]
    BY <1>13, SubscribeIs, ContractIs DEF SubscribeOption
  <2>2. /\ nextId' = nextId + 1 /\ pc' = "emit" /\ live' = live \cup {nextId}
        /\ UNCHANGED <<todo, requestIds, left, pending, answered>>
    BY <1>13 DEF SubscribeOption, Subscribe
  <2>3. todo # <<>> /\ Head(todo).strike # 0
    BY <1>13, ContractIs DEF SubscribeOption, Listable
  <2> QED
    BY <2>1, <2>2, <2>3 DEF TypeInv, IdsInv, Current
<1>14. CASE EmitOption
  <2>1. Current \in DOMAIN sent /\ Current \in Nat /\ sent[Current].strike # 0
    BY <1>14 DEF EmitOption, Announce, Move, TypeInv, IdsInv
  <2>2. Range(requestIds') = Range(requestIds) \cup {Current}
    <3>1. requestIds \in Seq(Nat) /\ requestIds' = Append(requestIds, Current)
      BY <1>14 DEF EmitOption, Announce, TypeInv
    <3> QED
      BY <2>1, <3>1, RangeAppend
  <2> QED
    BY <1>14, <2>1, <2>2 DEF EmitOption, Announce, Move, IdsInv, database
<1>15. CASE StripIsSubscribed \/ SleepEnds
  BY <1>15 DEF StripIsSubscribed, Move, SleepEnds, TypeInv, IdsInv, Current, network, database
<1>16. CASE Raise \/ RaiseInStrip \/ DatabaseFails
  BY <1>16 DEF Raise, RaiseInStrip, DatabaseFails, Move, TypeInv, IdsInv, Current, network,
     database
<1>17. CASE CancelOne \/ Check \/ Fill
  <2>1. Range(left') \subseteq Range(left)
    BY <1>17, RangeTail DEF CancelOne, Check, Fill, FilledInv, TypeInv
  <2> QED
    BY <1>17, <2>1 DEF CancelOne, Check, Fill, IdsInv, Current, network, database
<1>18. CASE CancelsEnd
  BY <1>18 DEF CancelsEnd, TypeInv, IdsInv, Current, network, database
<1>19. CASE Finish
  BY <1>19 DEF Finish, Move, TypeInv, IdsInv, Current, network, database
<1>20. CASE AnswerComes
  BY <1>20
  DEF AnswerComes, DetailsEnd, ChainEnds, HistoryAnswered, Answer, Receiving, TypeInv, IdsInv,
      Current, network, database, main
<1>21. CASE ChainRowComes
  BY <1>21
  DEF ChainRowComes, ChainRow, Receiving, TypeInv, IdsInv, Current, network, database, main
<1>22. CASE TickComes
  BY <1>22
  DEF TickComes, SpotTick, OptionTick, Tick, Receiving, TypeInv, IdsInv, Current, network,
      database, main
<1>23. CASE GreeksCome
  BY <1>23 DEF GreeksCome, Greeks, Receiving, TypeInv, IdsInv, Current, network, database, main
<1>24. CASE Fail \/ UNCHANGED vars
  BY <1>24 DEF Fail, vars, TypeInv, IdsInv, Current, network, database, main
<1> QED
  BY <1>1, <1>2, <1>3, <1>4, <1>5, <1>6, <1>7, <1>8, <1>9, <1>10, <1>11, <1>12, <1>13, <1>14,
     <1>15, <1>16, <1>17, <1>18, <1>19, <1>20, <1>21, <1>22, <1>23, <1>24, NextIs

\* A subscription is among the requests of the strip, or is the one being
\* made, until it is cancelled.
LEMMA RunningStep ==
  ASSUME TypeInv, IdsInv, FilledInv, RunningInv, [Next]_vars
  PROVE  RunningInv'
<1>1. CASE Starts
  BY <1>1 DEF Starts, Start, RunningInv, BeforeStrip, network
<1>2. CASE Close
  BY <1>2, RangeEmpty DEF Close, RunningInv, BeforeStrip
<1>3. CASE AskDetails \/ AskChain \/ AskHistory
  BY <1>3 DEF AskDetails, Ask, AskChain, AskHistory, RunningInv, BeforeStrip, Over
<1>4. CASE DetailsCome \/ AnswerTimesOut \/ OptionWaitEnds
  BY <1>4
  DEF DetailsCome, Move, AnswerTimesOut, OptionWaitEnds, RunningInv, BeforeStrip, network
<1>5. CASE ChainComes
  BY <1>5 DEF ChainComes, RunningInv, BeforeStrip, network
<1>6. CASE Resolve \/ HistoryWaitEnds \/ ResolveAgain
  BY <1>6 DEF Resolve, HistoryWaitEnds, ResolveAgain, RunningInv, BeforeStrip, network
<1>7. CASE SubscribeSpot
  <2>1. /\ nextId' = nextId + 1 /\ pc' = "emitSpot" /\ live' = live \cup {nextId}
        /\ UNCHANGED <<requestIds, left, failed>> /\ pc = "askSpot"
    BY <1>7 DEF SubscribeSpot, Subscribe
  <2> QED
    BY <2>1 DEF TypeInv, RunningInv, BeforeStrip, Current
<1>8. CASE EmitSpot
  BY <1>8 DEF EmitSpot, Announce, Move, RunningInv, BeforeStrip, Current
<1>9. CASE SpotSleepEnds
  BY <1>9 DEF SpotSleepEnds, Move, RunningInv, BeforeStrip, Current
<1>10. CASE Select
  BY <1>10, RangeEmpty DEF Select, RunningInv, BeforeStrip, network
<1>11. CASE AskOption
  BY <1>11 DEF AskOption, Move, RunningInv, BeforeStrip, network
<1>12. CASE SubscribeOption
  <2>1. /\ nextId' = nextId + 1 /\ pc' = "emit" /\ live' = live \cup {nextId}
        /\ UNCHANGED <<requestIds, left, failed>> /\ pc = "subscribe"
    BY <1>12 DEF SubscribeOption, Subscribe
  <2>2. Current' = nextId
    BY <2>1 DEF TypeInv, Current
  <2>3. ~failed => live = Range(requestIds)
    BY <2>1 DEF RunningInv
  <2>4. ~failed' => live' = Range(requestIds)' \cup {Current'}
    BY <2>1, <2>2, <2>3
  <2> QED
    BY <2>1, <2>4 DEF RunningInv, BeforeStrip
<1>13. CASE EmitOption
  <2>1. Current \in Nat
    BY <1>13 DEF EmitOption, Announce, Move, TypeInv, IdsInv
  <2>2. Range(requestIds') = Range(requestIds) \cup {Current}
    <3>1. requestIds \in Seq(Nat) /\ requestIds' = Append(requestIds, Current)
      BY <1>13 DEF EmitOption, Announce, TypeInv
    <3> QED
      BY <2>1, <3>1, RangeAppend
  <2> QED
    BY <1>13, <2>1, <2>2 DEF EmitOption, Announce, Move, RunningInv, BeforeStrip
<1>14. CASE StripIsSubscribed \/ SleepEnds
  BY <1>14 DEF StripIsSubscribed, Move, SleepEnds, RunningInv, BeforeStrip, network
<1>15. CASE Raise \/ RaiseInStrip \/ DatabaseFails
  BY <1>15 DEF Raise, RaiseInStrip, DatabaseFails, Move, RunningInv, BeforeStrip, network
<1>16. CASE CancelOne
  <2>1. Range(left) = {Head(left)} \cup Range(left')
    BY <1>16, RangeTail DEF CancelOne, TypeInv
  <2> QED
    BY <1>16, <2>1 DEF CancelOne, RunningInv, BeforeStrip
<1>17. CASE CancelsEnd
  BY <1>17, RangeEmpty DEF CancelsEnd, RunningInv, BeforeStrip, network
<1>18. CASE Check \/ Fill \/ Finish
  BY <1>18 DEF Check, Fill, Finish, Move, RunningInv, BeforeStrip, network
<1>19. CASE AnswerComes
  BY <1>19
  DEF AnswerComes, DetailsEnd, ChainEnds, HistoryAnswered, Answer, Receiving, RunningInv,
      BeforeStrip, main, Current
<1>20. CASE ChainRowComes
  BY <1>20
  DEF ChainRowComes, ChainRow, Receiving, RunningInv, BeforeStrip, main, network, Current
<1>21. CASE TickComes
  BY <1>21
  DEF TickComes, SpotTick, OptionTick, Tick, Receiving, RunningInv, BeforeStrip, main,
      network, Current
<1>22. CASE GreeksCome
  BY <1>22 DEF GreeksCome, Greeks, Receiving, RunningInv, BeforeStrip, main, network, Current
<1>23. CASE Fail \/ UNCHANGED vars
  BY <1>23 DEF Fail, vars, RunningInv, BeforeStrip, main, network, Over, Current
<1> QED
  BY <1>1, <1>2, <1>3, <1>4, <1>5, <1>6, <1>7, <1>8, <1>9, <1>10, <1>11, <1>12, <1>13, <1>14,
     <1>15, <1>16, <1>17, <1>18, <1>19, <1>20, <1>21, <1>22, <1>23, NextIs

\* The rows of the session's chain carry the id of its one chain request, and
\* none comes once that is answered.
LEMMA ChainStep ==
  ASSUME TypeInv, IdsInv, ChainInv, [Next]_vars
  PROVE  ChainInv'
<1>1. CASE Starts
  <2>1. session' = session + 1 /\ session \in Nat /\ UNCHANGED <<chains, pending>>
    BY <1>1 DEF Starts, Start, TypeInv, database, network
  <2>2. pc' \in {"askChain", "askDetails"}
    BY <1>1 DEF Starts, Start
  <2>3. \A r \in pending : r.kind # "chain"
    BY <1>1 DEF Starts, Start, ChainInv
  <2> QED
    BY <2>1, <2>2, <2>3 DEF ChainInv, Chained
<1>2. CASE Close
  BY <1>2 DEF Close, ChainInv, Chained, Snapshot, database
<1>3. CASE AskDetails
  BY <1>3 DEF AskDetails, Ask, ChainInv, Chained, Snapshot, database
<1>4. CASE AskHistory
  BY <1>4 DEF AskHistory, Ask, ChainInv, Chained, Snapshot, database
<1>5. CASE AskChain
  BY <1>5 DEF AskChain, Ask, ChainInv, Chained, Snapshot, TypeInv, Current, database
<1>6. CASE DetailsCome \/ AnswerTimesOut \/ OptionWaitEnds
  BY <1>6
  DEF DetailsCome, Move, AnswerTimesOut, OptionWaitEnds, ChainInv, Chained, Snapshot, network,
      database
<1>7. CASE ChainComes
  <2>1. CASE pc' = "raised"
    BY <1>7, <2>1 DEF ChainComes, ChainInv, Chained, database
  <2>2. CASE pc' # "raised"
    <3>1. /\ pc = "waitChain" /\ pc' = "resolve" /\ snapshot' = Snapshot(Current)
          /\ Current \in answered /\ snapshot'.expiries # {} /\ snapshot'.strikes # {}
          /\ UNCHANGED <<session, pending, chains>>
      BY <1>7, <2>2 DEF ChainComes, database, network
    <3>2. snapshot'.req = Current
      BY <3>1 DEF Snapshot
    <3>3. \A r \in pending : r.kind # "chain"
      BY <3>1 DEF ChainInv, IdsInv
    <3>4. \A c \in chains : c.session = session => c.req = Current
      BY <3>1 DEF ChainInv
    <3>5. snapshot' = Snapshot(snapshot.req)'
      BY <3>1, <3>2 DEF Snapshot
    <3> QED
      BY <3>1, <3>2, <3>3, <3>4, <3>5 DEF ChainInv, Chained
  <2> QED
    BY <2>1, <2>2
<1>8. CASE Resolve \/ ResolveAgain
  BY <1>8 DEF Resolve, ResolveAgain, ChainInv, Chained, Snapshot, network, database
<1>9. CASE HistoryWaitEnds
  BY <1>9 DEF HistoryWaitEnds, ChainInv, Chained, Snapshot, database
<1>10. CASE SubscribeSpot \/ SubscribeOption
  <2>1. pc \in {"askSpot", "subscribe"}
    BY <1>10 DEF SubscribeSpot, SubscribeOption, Subscribe
  <2>2. UNCHANGED <<session, snapshot, pending, chains>> /\ pc' \in {"emitSpot", "emit"}
    BY <1>10, SentGrows DEF database
  <2> QED
    BY <2>1, <2>2 DEF ChainInv, Chained, Snapshot
<1>11. CASE EmitSpot \/ SpotSleepEnds
  BY <1>11 DEF EmitSpot, Announce, Move, SpotSleepEnds, ChainInv, Chained, Snapshot, database
<1>12. CASE EmitOption
  BY <1>12 DEF EmitOption, Announce, Move, ChainInv, Chained, Snapshot, database
<1>13. CASE Select
  BY <1>13 DEF Select, ChainInv, Chained, Snapshot, network, database
<1>14. CASE AskOption
  BY <1>14 DEF AskOption, Move, ChainInv, Chained, Snapshot, network, database
<1>15. CASE StripIsSubscribed \/ SleepEnds
  BY <1>15
  DEF StripIsSubscribed, Move, SleepEnds, ChainInv, Chained, Snapshot, network, database
<1>16. CASE Raise \/ RaiseInStrip \/ DatabaseFails
  BY <1>16 DEF Raise, RaiseInStrip, DatabaseFails, Move, ChainInv, Chained, Snapshot, network,
     database
<1>17. CASE CancelOne \/ CancelsEnd
  BY <1>17 DEF CancelOne, CancelsEnd, ChainInv, Chained, Snapshot, network, database
<1>18. CASE Check \/ Fill \/ Finish
  BY <1>18 DEF Check, Fill, Finish, Move, ChainInv, Chained, Snapshot, network, database
<1>19. CASE AnswerComes
  <2>1. PICK r \in pending : pending' = pending \ {r} /\ r.kind \in {"details", "chain", "history"}
    BY <1>19 DEF AnswerComes, DetailsEnd, ChainEnds, HistoryAnswered, Answer
  <2>2. UNCHANGED <<session, pc, nextId, snapshot, chains>>
    BY <1>19 DEF AnswerComes, DetailsEnd, ChainEnds, HistoryAnswered, Answer, main, database
  <2> QED
    BY <2>1, <2>2 DEF ChainInv, Chained, Snapshot, Current
<1>20. CASE ChainRowComes
  <2>1. PICK r \in pending, row \in Listed[symbol] : ChainRow(r, row)
    BY <1>20 DEF ChainRowComes
  <2> DEFINE c == [session |-> session, req |-> r.id, expiries |-> row.expiries,
                   strikes |-> row.strikes]
  <2>2. chains' = chains \cup {c} /\ UNCHANGED <<session, pc, nextId, snapshot, pending>>
    BY <2>1 DEF ChainRow, main, network
  <2>3. r.kind = "chain" /\ pc # "off"
    BY <2>1 DEF ChainRow, Receiving
  <2>4. pc \notin Chained /\ pc \notin {"askDetails", "waitDetails", "askChain"}
    BY <2>3 DEF ChainInv
  <2>5. pc = "waitChain" => r.id = Current
    BY <2>3 DEF ChainInv
  <2>6. c.session = session /\ session \in Nat /\ c.req = r.id
    BY DEF TypeInv
  <2> HIDE DEF c
  <2> QED
    BY <2>2, <2>4, <2>5, <2>6 DEF ChainInv, Current
<1>21. CASE TickComes
  BY <1>21
  DEF TickComes, SpotTick, OptionTick, Tick, Receiving, ChainInv, Chained, Snapshot, main,
      network, Current
<1>22. CASE GreeksCome
  BY <1>22
  DEF GreeksCome, Greeks, Receiving, ChainInv, Chained, Snapshot, main, network, Current
<1>23. CASE Fail \/ UNCHANGED vars
  BY <1>23 DEF Fail, vars, ChainInv, Chained, Snapshot, main, network, database, Current
<1> QED
  BY <1>1, <1>2, <1>3, <1>4, <1>5, <1>6, <1>7, <1>8, <1>9, <1>10, <1>11, <1>12, <1>13, <1>14,
     <1>15, <1>16, <1>17, <1>18, <1>19, <1>20, <1>21, <1>22, <1>23, NextIs

\* What is listed is finite.
LEMMA ListsStep ==
  ASSUME TypeInv, ListsInv, [Next]_vars
  PROVE  ListsInv'
<1>1. CASE Close
  <2>1. Lists(NoChain)
    BY FS_EmptySet DEF NoChain, Lists
  <2> QED
    BY <1>1, <2>1 DEF Close, ListsInv, database
<1>2. CASE ChainComes
  BY <1>2, SnapshotIs DEF ChainComes, ListsInv, database
<1>3. CASE ChainRowComes
  <2>1. PICK r \in pending, row \in Listed[symbol] : ChainRow(r, row)
    BY <1>3 DEF ChainRowComes
  <2> DEFINE c == [session |-> session, req |-> r.id, expiries |-> row.expiries,
                   strikes |-> row.strikes]
  <2>2. symbol \in DOMAIN Listed
    BY <2>1 DEF ChainRow, Receiving, TypeInv, Symbols
  <2>3. Lists(c)
    BY <2>2, ListedAssumption DEF Lists
  <2>4. chains' = chains \cup {c} /\ snapshot' = snapshot
    BY <2>1 DEF ChainRow, main
  <2>5. IsFiniteSet(chains \cup {c})
    BY FS_AddElement DEF ListsInv
  <2> QED
    BY <2>3, <2>4, <2>5 DEF ListsInv
<1>4. CASE UNCHANGED <<chains, snapshot>>
  BY <1>4 DEF ListsInv
<1> QED
  BY <1>1, <1>2, <1>3, <1>4, ChainsKept

\* A row is filed under the session's number and a request of its.
LEMMA RowsStep ==
  ASSUME TypeInv, IdsInv, FilledInv, RowsInv, [Next]_vars
  PROVE  RowsInv'
<1>1. CASE Starts
  <2>1. \A r \in Range(ticks) \cup Range(greeks) : r.session \in Nat
    BY RowsAre DEF TickRows, GreekRows
  <2>2. session' = session + 1 /\ session \in Nat /\ UNCHANGED <<ticks, greeks>>
    BY <1>1 DEF Starts, Start, TypeInv, database
  <2>3. \A r \in Range(ticks) \cup Range(greeks) : r.session <= session' /\ r.session # session'
    BY <2>1, <2>2 DEF RowsInv
  <2> QED
    BY <2>2, <2>3 DEF RowsInv
<1>2. CASE Close
  BY <1>2 DEF RowsInv, Close, database
<1>3. CASE SubscribeSpot \/ SubscribeOption
  <2>1. /\ UNCHANGED <<session, database>> /\ pc # "off"
        /\ \A id \in DOMAIN sent : id \in DOMAIN sent' /\ sent'[id] = sent[id]
    BY <1>3, SentGrows
  <2> QED
    BY <2>1 DEF RowsInv, database
<1>4. CASE Fill
  <2>1. CASE greeks' = greeks
    BY <1>4, <2>1 DEF Fill, RowsInv, network
  <2>2. CASE greeks' # greeks
    <3> DEFINE g == Synthetic(Head(left), PriceOf(Head(left)))
    <3>1. Range(greeks') = Range(greeks) \cup {g}
      BY <1>4, <2>2, FillGrows
    <3>2. g.session = session /\ g.req = Head(left)
      BY DEF Synthetic
    <3>3. Head(left) \in DOMAIN sent /\ session \in Nat
      BY <1>4, FillIs DEF IdsInv, TypeInv
    <3>4. pc = "fill" /\ pc' = "check" /\ UNCHANGED <<session, sent, ticks>>
      BY <1>4 DEF Fill, network
    <3> HIDE DEF g
    <3> QED
      BY <3>1, <3>2, <3>3, <3>4 DEF RowsInv
  <2> QED
    BY <2>1, <2>2
<1>5. CASE TickComes
  <2>1. PICK id \in DOMAIN sent, t \in TickRows :
           /\ Range(ticks') = Range(ticks) \cup {t}
           /\ t.session = session /\ t.req = id /\ t.instrument \in {sent[id], Unknown}
    BY <1>5, TicksGrow
  <2>2. session \in Nat /\ UNCHANGED <<session, pc, sent, greeks>>
    BY <1>5, TicksGrow DEF TypeInv
  <2> QED
    BY <2>1, <2>2 DEF RowsInv
<1>6. CASE GreeksCome
  <2>1. PICK id \in DOMAIN sent, g \in GreekRows :
           Range(greeks') = Range(greeks) \cup {g} /\ g.session = session /\ g.req = id
    BY <1>6, GreeksGrow
  <2>2. session \in Nat /\ UNCHANGED <<session, pc, sent, ticks>>
    BY <1>6, GreeksGrow DEF TypeInv
  <2> QED
    BY <2>1, <2>2 DEF RowsInv
<1>7. CASE UNCHANGED <<session, sent, ticks, greeks>> /\ (pc' = "off" <=> pc = "off")
  BY <1>7 DEF RowsInv
<1> QED
  BY <1>1, <1>2, <1>3, <1>4, <1>5, <1>6, <1>7, RowsKept

\* What is subscribed to and what is left of the strip make up the whole.

LEMMA StripStep ==
  ASSUME TypeInv, ListsInv, IdsInv, RunningInv, ChainInv, StripInv, [Next]_vars
  PROVE  StripInv'
<1>1. CASE Select
  <2>1. CASE pc' = "raised"
    BY <2>1 DEF StripInv, InStrip, AfterStrip
  <2>2. CASE pc' # "raised"
    <3>1. /\ pc = "select" /\ pc' = "next" /\ todo' = Whole /\ Future(snapshot.expiries) # {}
          /\ UNCHANGED <<symbol, snapshot, spot, requestIds>>
      BY <1>1, <2>2 DEF Select, Whole
    <3>2. requestIds = <<>> /\ spot \in Spots
      BY <3>1 DEF RunningInv, BeforeStrip, IdsInv
    <3>3. Whole \in Seq(Listable)
      BY <3>1, <3>2, WholeIs DEF ChainInv, Chained
    <3>4. Whole' = Whole
      BY <3>1, WholeSame
    <3>5. Len(requestIds') = 0 /\ Len(todo') \in Nat
      BY <3>1, <3>2, <3>3
    <3> QED
      BY <3>1, <3>2, <3>3, <3>4, <3>5 DEF StripInv, AfterStrip
  <2> QED
    BY <2>1, <2>2
<1>2. CASE SubscribeOption
  <2>1. pc = "subscribe" /\ pc' = "emit" /\ sent'[nextId] = Head(todo) /\ todo # <<>>
    BY <1>2, SubscribeIs, ContractIs DEF SubscribeOption, Subscribe
  <2>2. /\ \A id \in DOMAIN sent : sent'[id] = sent[id]
        /\ nextId' = nextId + 1
        /\ UNCHANGED <<symbol, snapshot, spot, requestIds, todo>>
    BY <1>2, SentGrows
  <2>3. \A i \in 1 .. Len(requestIds) : requestIds[i] \in DOMAIN sent
    BY LenProperties DEF TypeInv, IdsInv, Range
  <2>4. Current' = nextId /\ todo[1] = Head(todo)
    BY <2>1, <2>2 DEF TypeInv, Current
  <2>5. Whole' = Whole
    BY <2>2, WholeSame
  <2> QED
    BY <2>1, <2>2, <2>3, <2>4, <2>5 DEF StripInv, InStrip, AfterStrip
<1>3. CASE EmitOption
  <2>1. /\ pc = "emit" /\ pc' = "next"
        /\ requestIds' = Append(requestIds, Current) /\ todo' = Tail(todo)
        /\ UNCHANGED <<symbol, snapshot, spot, sent>>
    BY <1>3 DEF EmitOption, Announce, Move
  <2>2. /\ Current \in Nat /\ requestIds \in Seq(Nat) /\ todo \in Seq(Listable) /\ todo # <<>>
        /\ sent[Current] = todo[1]
    BY <2>1 DEF TypeInv, IdsInv, StripInv
  <2>3. /\ Len(requestIds') = Len(requestIds) + 1 /\ Len(requestIds) \in Nat
        /\ \A i \in 1 .. Len(requestIds) : requestIds'[i] = requestIds[i]
        /\ requestIds'[Len(requestIds) + 1] = Current
    BY <2>1, <2>2, AppendProperties
  <2>4. /\ Len(todo') = Len(todo) - 1 /\ Len(todo) \in Nat /\ Len(todo) >= 1
        /\ \A i \in 1 .. Len(todo') : todo'[i] = todo[i + 1]
    BY <2>1, <2>2, HeadTailProperties
  <2>5. Whole' = Whole
    BY <2>1, WholeSame
  <2>6. /\ spot \in Spots /\ Future(snapshot.expiries) # {}
        /\ Len(requestIds) + Len(todo) = Len(Whole)
        /\ \A i \in 1 .. Len(requestIds) : sent[requestIds[i]] = Whole[i]
        /\ \A i \in 1 .. Len(todo) : todo[i] = Whole[Len(requestIds) + i]
    BY <2>1 DEF StripInv, InStrip, AfterStrip
  <2>7. Len(requestIds') + Len(todo') = Len(Whole')
    <3>1. Len(requestIds') + Len(todo') = Len(requestIds) + Len(todo)
      BY <2>3, <2>4
    <3> QED
      BY <3>1, <2>5, <2>6, Zenon
  <2>8. ASSUME NEW i \in 1 .. Len(requestIds') PROVE sent'[requestIds'[i]] = Whole'[i]
    <3>1. CASE i \in 1 .. Len(requestIds)
      BY <3>1, <2>1, <2>3, <2>5, <2>6
    <3>2. CASE i = Len(requestIds) + 1
      <4>1. todo[1] = Whole[Len(requestIds) + 1]
        BY <2>4, <2>6
      <4> QED
        BY <3>2, <4>1, <2>1, <2>2, <2>3, <2>5
    <3> QED
      BY <3>1, <3>2, <2>3
  <2>9. ASSUME NEW i \in 1 .. Len(todo') PROVE todo'[i] = Whole'[Len(requestIds') + i]
    <3>1. i + 1 \in 1 .. Len(todo) /\ Len(requestIds') + i = Len(requestIds) + (i + 1)
      BY <2>3, <2>4
    <3> QED
      BY <3>1, <2>4, <2>5, <2>6
  <2> QED
    BY <2>1, <2>6, <2>7, <2>8, <2>9 DEF StripInv, AfterStrip
<1>4. CASE pc' \notin InStrip
  BY <1>4 DEF StripInv, InStrip, AfterStrip
<1>5. CASE StripUntouched
  BY <1>5, WholeSame DEF StripUntouched, StripInv, InStrip, AfterStrip, Current
<1> QED
  BY <1>1, <1>2, <1>3, <1>4, <1>5, StripKept

\* What is filled in for an id with no other session's rows is its option's.
LEMMA OwnStep ==
  ASSUME TypeInv, IdsInv, RowsInv, FilledInv, OwnPrices, [Next]_vars
  PROVE  OwnPrices'
<1>1. CASE Starts
  <2>1. session' = session + 1 /\ session \in Nat /\ UNCHANGED greeks
    BY <1>1 DEF Starts, Start, TypeInv, database
  <2>2. \A g \in Range(greeks) : g.session \in Nat /\ g.session <= session
    BY RowsAre DEF GreekRows, RowsInv
  <2>3. OfSession(Range(greeks))' = {}
    BY <2>1, <2>2 DEF OfSession
  <2> QED
    BY <2>3 DEF OwnPrices
<1>2. CASE Close
  BY <1>2 DEF OwnPrices, Close
<1>3. CASE SubscribeSpot \/ SubscribeOption
  <2>1. /\ UNCHANGED <<session, ticks, greeks>> /\ pc # "off"
        /\ \A id \in DOMAIN sent : sent'[id] = sent[id]
    BY <1>3, SentGrows DEF database
  <2>2. \A g \in OfSession(Range(greeks)) : sent'[g.req] = sent[g.req]
    BY <2>1 DEF RowsInv, OfSession
  <2> QED
    BY <2>1, <2>2 DEF OwnPrices, OfSession, FreshId, Own
<1>4. CASE Fill
  <2>1. CASE greeks' = greeks
    BY <1>4, <2>1 DEF Fill, OwnPrices, OfSession, FreshId, Own, network
  <2>2. CASE greeks' # greeks
    <3> DEFINE id == Head(left)
               g == Synthetic(id, PriceOf(id))
    <3>1. Range(greeks') = Range(greeks) \cup {g} /\ PriceOf(id) # {}
      BY <1>4, <2>2, FillGrows
    <3>2. pc = "fill" /\ pc' = "check" /\ UNCHANGED <<session, sent, ticks>>
      BY <1>4 DEF Fill, network
    <3>3. \A h : FreshId(h)' => FreshId(h)
      BY <3>1, <3>2, FreshBefore
    <3>4. /\ g.req = id /\ g.instrument = QuotedInstrument(id)
          /\ g.sources = {t.instrument : t \in PriceOf(id)}
      BY DEF Synthetic
    <3>5. FreshId(id) => g.instrument = sent[id] /\ g.sources = {sent[id]}
      <4> HIDE DEF id
      <4> QED
        BY <3>1, <3>2, <3>4, OwnQuote
    <3> HIDE DEF g, id
    <3> QED
      BY <3>1, <3>2, <3>3, <3>4, <3>5 DEF OwnPrices, OfSession
  <2> QED
    BY <2>1, <2>2
<1>5. CASE TickComes
  <2>1. PICK t \in TickRows : Range(ticks') = Range(ticks) \cup {t}
    BY <1>5, TicksGrow
  <2>2. UNCHANGED <<session, sent, greeks, pc>>
    BY <1>5, TicksGrow
  <2>3. \A g : FreshId(g)' => FreshId(g)
    BY <2>1, <2>2, FreshBefore
  <2> QED
    BY <2>2, <2>3 DEF OwnPrices, OfSession
<1>6. CASE GreeksCome
  <2>1. PICK g \in GreekRows : Range(greeks') = Range(greeks) \cup {g} /\ g.synthetic = FALSE
    BY <1>6, GreeksGrow
  <2>2. UNCHANGED <<session, sent, ticks, pc>>
    BY <1>6, GreeksGrow
  <2>3. \A h : FreshId(h)' => FreshId(h)
    BY <2>1, <2>2, FreshBefore
  <2> QED
    BY <2>1, <2>2, <2>3 DEF OwnPrices, OfSession
<1>7. CASE UNCHANGED <<session, sent, ticks, greeks>> /\ (pc' = "off" <=> pc = "off")
  BY <1>7 DEF OwnPrices, OfSession, FreshId, Own
<1> QED
  BY <1>1, <1>2, <1>3, <1>4, <1>5, <1>6, <1>7, RowsKept

\* The options the command is done with stay filled in.
LEMMA FilledStep ==
  ASSUME TypeInv, IdsInv, RunningInv, RowsInv, FilledInv, [Next]_vars
  PROVE  FilledInv'
<1>1. CASE CancelsEnd
  <2>1. pc' = "check" => left' = requestIds /\ requestIds' = requestIds
    BY <1>1 DEF CancelsEnd
  <2>2. pc' \in {"check", "raised"}
    BY <1>1 DEF CancelsEnd
  <2> QED
    BY <2>1, <2>2 DEF FilledInv
<1>2. CASE Check
  <2>1. CASE GreeksExist(Head(left))
    <3>1. Range(left) = {Head(left)} \cup Range(left')
      BY <1>2, <2>1, RangeTail DEF Check, TypeInv
    <3>2. /\ pc = "check" /\ pc' = "check"
          /\ UNCHANGED <<session, ticks, greeks, requestIds>>
      BY <1>2, <2>1 DEF Check, database
    <3>3. FreshId(Head(left)) => Filled(Head(left))
      BY <2>1 DEF GreeksExist, Filled, FreshId, Own, OfSession
    <3>4. \A id \in Range(requestIds) \ Range(left') : FreshId(id) => Filled(id)
      BY <3>1, <3>2, <3>3 DEF FilledInv
    <3> QED
      BY <3>2, <3>4 DEF FilledInv, FreshId, Own, Filled, HadPrice, OfSession
  <2>2. CASE ~GreeksExist(Head(left))
    BY <1>2, <2>2 DEF Check, FilledInv, FreshId, Own, Filled, HadPrice, OfSession, database
  <2> QED
    BY <2>1, <2>2
<1>3. CASE Fill
  <2> DEFINE id == Head(left)
             g == Synthetic(id, PriceOf(id))
  <2>1. /\ pc = "fill" /\ pc' = "check" /\ left' = Tail(left)
        /\ UNCHANGED <<session, sent, ticks, requestIds>>
    BY <1>3 DEF Fill, network
  <2>2. Range(left) = {id} \cup Range(left')
    BY <2>1, RangeTail DEF TypeInv, FilledInv
  <2>3. \A h \in Range(requestIds) \ Range(left) : FreshId(h) => Filled(h)
    BY <2>1 DEF FilledInv
  <2>4. CASE greeks' = greeks
    <3>1. PriceOf(id) = {} \/ QuotedInstrument(id).strike = 0
      BY <1>3, <2>4, FillIs
    <3>2. sent[id].strike # 0
      BY <2>2 DEF IdsInv
    <3>3. FreshId(id) => ~HadPrice(id)
      <4> HIDE DEF id
      <4> QED
        BY <2>1, <3>1, <3>2, PriceFound, OwnQuote
    <3>4. FreshId(id) => Filled(id)
      BY <3>3 DEF Filled
    <3>5. \A h \in Range(requestIds) \ Range(left') : FreshId(h) => Filled(h)
      BY <2>2, <2>3, <3>4
    <3> QED
      BY <2>1, <2>4, <3>5 DEF FilledInv, FreshId, Own, Filled, HadPrice, OfSession
  <2>5. CASE greeks' # greeks
    <3>1. Range(greeks') = Range(greeks) \cup {g}
      BY <1>3, <2>5, FillGrows
    <3>2. g.session = session /\ g.req = id /\ g.synthetic = TRUE
      BY DEF Synthetic
    <3> HIDE DEF g, id
    <3>3. \A h : Filled(h) \/ h = id => Filled(h)'
      BY <2>1, <3>1, <3>2, FilledStays
    <3>4. \A h : FreshId(h)' => FreshId(h)
      BY <2>1, <3>1, FreshBefore
    <3> QED
      BY <2>1, <2>2, <2>3, <3>3, <3>4 DEF FilledInv
  <2> QED
    BY <2>4, <2>5
<1>4. CASE Finish
  <2>1. /\ pc = "check" /\ left' = <<>>
        /\ UNCHANGED <<session, ticks, greeks, requestIds, left>>
    BY <1>4 DEF Finish, Move, database
  <2> QED
    BY <1>4, <2>1 DEF Finish, Move, FilledInv, FreshId, Own, Filled, HadPrice, OfSession
<1>5. CASE TickComes
  <2>1. PICK id \in DOMAIN sent, t \in TickRows :
           /\ ticks' = Append(ticks, t) /\ Range(ticks') = Range(ticks) \cup {t}
           /\ t.session = session /\ t.inTime = (id \in live)
    BY <1>5, TicksGrow
  <2>2. UNCHANGED <<session, sent, greeks, pc, requestIds, left>> /\ ~failed
    BY <1>5, TicksGrow
  <2>3. \A h : FreshId(h)' => FreshId(h)
    BY <2>1, <2>2, FreshBefore
  <2>4. CASE pc \in {"check", "fill", "done"}
    <3>1. live = {}
      BY <2>2, <2>4 DEF RunningInv
    <3>2. (id \in live) = FALSE
      BY <3>1
    <3>3. t.inTime = FALSE
      BY <2>1, <3>2, Zenon
    <3>4. \A h : HadPrice(h)' => HadPrice(h)
      BY <2>1, <2>2, <3>3, LateTick
    <3>5. \A h : Filled(h) => Filled(h)'
      BY <2>2, <3>4 DEF Filled, OfSession
    <3> QED
      BY <2>2, <2>3, <3>5 DEF FilledInv
  <2> QED
    BY <2>2, <2>4 DEF FilledInv
<1>6. CASE GreeksCome
  <2>1. PICK g \in GreekRows :
           Range(greeks') = Range(greeks) \cup {g} /\ g.session = session /\ g.synthetic = FALSE
    BY <1>6, GreeksGrow
  <2>2. UNCHANGED <<session, sent, ticks, pc, requestIds, left>>
    BY <1>6, GreeksGrow
  <2>3. \A h : FreshId(h)' => FreshId(h)
    BY <2>1, <2>2, FreshBefore
  <2>4. \A h : Filled(h) => Filled(h)'
    BY <2>1, <2>2, FilledStays
  <2> QED
    BY <2>2, <2>3, <2>4 DEF FilledInv
<1>7. CASE pc' \notin {"check", "fill", "done"}
  BY <1>7 DEF FilledInv
<1>8. CASE UNCHANGED <<session, pc, left, requestIds, ticks, greeks>>
  BY <1>8 DEF FilledInv, FreshId, Own, Filled, HadPrice, OfSession
<1> QED
  BY <1>1, <1>2, <1>3, <1>4, <1>5, <1>6, <1>7, <1>8, BackfillKept

----------------------------------------------------------------------------
(* The invariant, and what it says.                                        *)

\* All of it is inductive together.
IInv ==
    /\ TypeInv /\ ListsInv /\ IdsInv /\ RunningInv /\ RowsInv /\ FilledInv /\ ChainInv
    /\ StripInv /\ OwnPrices

\* It holds at first.
LEMMA InitIsRight == Init => IInv
<1> SUFFICES ASSUME Init PROVE IInv
  OBVIOUS
<1>1. FirstRequestId \in Nat /\ NoPrice \in Prices
  BY ConstantsAre DEF Prices
<1>2. /\ session = 0 /\ pc = "off" /\ nextId = FirstRequestId /\ pending = {} /\ answered = {}
      /\ sent = <<>> /\ contexts = {} /\ live = {} /\ failed = FALSE /\ snapshot = NoChain
      /\ spot = NoPrice /\ todo = <<>> /\ requestIds = <<>> /\ left = <<>> /\ chains = {}
      /\ ticks = <<>> /\ greeks = <<>>
  BY DEF Init
<1>3. Range(ticks) = {} /\ Range(greeks) = {} /\ Range(requestIds) = {} /\ Range(left) = {}
  BY <1>2, RangeEmpty
<1>4. DOMAIN sent = {} /\ sent \in [DOMAIN sent -> Instruments]
  BY <1>2
<1>5. TypeInv
  <2>1. closes \in [Symbols -> Prices] /\ quotes \in [Symbols -> Prices]
    BY <1>1 DEF Init
  <2>2. todo \in Seq(Listable) /\ requestIds \in Seq(Nat) /\ left \in Seq(Nat)
    BY <1>2
  <2>3. ticks \in Seq(TickRows) /\ greeks \in Seq(GreekRows)
    BY <1>2
  <2>4. pc \in Labels
    BY <1>2 DEF Labels, Over
  <2> QED
    BY <1>1, <1>2, <1>4, <2>1, <2>2, <2>3, <2>4 DEF TypeInv
<1>6. ListsInv
  BY <1>2, FS_EmptySet DEF ListsInv, Lists, NoChain
<1>7. IdsInv /\ RunningInv
  BY <1>2, <1>3, <1>4 DEF IdsInv, RunningInv, BeforeStrip
<1>8. RowsInv /\ FilledInv /\ OwnPrices
  BY <1>2, <1>3 DEF RowsInv, FilledInv, OwnPrices, OfSession
<1>9. ChainInv /\ StripInv
  BY <1>2 DEF ChainInv, StripInv, Chained, InStrip
<1> QED
  BY <1>5, <1>6, <1>7, <1>8, <1>9 DEF IInv

\* Every step keeps it.
LEMMA StepIsRight == IInv /\ [Next]_vars => IInv'
  BY TypeStep, ListsStep, IdsStep, RunningStep, RowsStep, FilledStep, ChainStep, StripStep,
     OwnStep
  DEF IInv

\* The command and the reader thread keep all of it, in every session.
THEOREM Invariance == Spec => []IInv
  BY InitIsRight, StepIsRight, PTL DEF Spec

\* Each variable keeps its type.
THEOREM TypeCorrect == Spec => []TypeInv
<1>1. IInv => TypeInv
  BY DEF IInv
<1> QED
  BY <1>1, Invariance, PTL

\* The finally clauses of _run_option_greeks_strip_collector: while the strip
\* is collected nothing else is subscribed to, and once the command is over, with
\* the connection up, nothing is.
THEOREM NothingIsLeftRunning == Spec => []NothingLeftRunning
<1>1. IInv => NothingLeftRunning
  <2> SUFFICES ASSUME IInv PROVE NothingLeftRunning
    OBVIOUS
  <2>1. ~failed /\ pc = "sleep" => live = Range(requestIds)
    BY DEF IInv, RunningInv
  <2>2. ~failed /\ pc \in {"check", "fill", "done", "returned", "raised"} => live = {}
    BY DEF IInv, RunningInv
  <2> QED
    BY <2>1, <2>2 DEF NothingLeftRunning
<1> QED
  BY <1>1, Invariance, PTL

\* _backfill_option_greeks_from_ticks: with a request id no earlier session used,
\* what is filled in for an option is filed under it and made of its own prices.
THEOREM PricesAreOwn == Spec => []OwnPrices
<1>1. IInv => OwnPrices
  BY DEF IInv
<1> QED
  BY <1>1, Invariance, PTL

\* _backfill_option_greeks_from_ticks: at the end of the command every option of
\* such an id that got prices and no greeks has its volatility filled in.
THEOREM FreshIdsAreFilledIn == Spec => []FreshIdsFilledIn
<1>1. IInv => FreshIdsFilledIn
  <2> SUFFICES ASSUME IInv, pc = "done", NEW id \in Range(requestIds), FreshId(id)
               PROVE  Filled(id)
    BY DEF FreshIdsFilledIn
  <2>1. left = <<>>
    BY DEF IInv, FilledInv
  <2>2. id \notin Range(left)
    BY <2>1, RangeEmpty
  <2> QED
    BY <2>2 DEF IInv, FilledInv
<1> QED
  BY <1>1, Invariance, PTL

----------------------------------------------------------------------------
(* The strip is around the spot price.                                     *)

\* A run of an increasing sequence has as many members as places.
LEMMA RunHas ==
  ASSUME NEW n \in Nat, NEW s \in [1 .. n -> Nat],
         \A i, j \in 1 .. n : i < j => s[i] < s[j],
         NEW a \in 1 .. n + 1, NEW b \in 0 .. n, a <= b + 1
  PROVE  Cardinality({s[i] : i \in a .. b}) = b - a + 1
<1> DEFINE T == {s[i] : i \in a .. b}
           f == [i \in a .. b |-> s[i]]
<1>1. \A i \in a .. b : i \in 1 .. n
  OBVIOUS
<1>2. f \in Surjection(a .. b, T)
  BY DEF Surjection
<1>3. ASSUME NEW i \in a .. b, NEW j \in a .. b, i # j PROVE f[i] # f[j]
  <2>1. i \in 1 .. n /\ j \in 1 .. n /\ s[i] \in Nat /\ s[j] \in Nat
    BY <1>1
  <2>2. i < j \/ j < i
    BY <1>3, <2>1
  <2>3. s[i] < s[j] \/ s[j] < s[i]
    BY <2>1, <2>2
  <2> QED
    BY <2>1, <2>3
<1>4. f \in Injection(a .. b, T)
  BY <1>2, <1>3 DEF Surjection, Injection, IsInjective
<1>5. IsFiniteSet(a .. b) /\ Cardinality(a .. b) = IF a > b THEN 0 ELSE b - a + 1
  BY FS_Interval
<1> HIDE DEF f, T
<1>6. Cardinality(T) = Cardinality(a .. b)
  BY <1>2, <1>4, <1>5, FS_Surjection
<1>7. Cardinality(a .. b) = b - a + 1
  BY <1>5
<1> QED
  BY <1>6, <1>7 DEF T

\* The places lo to hi of a sorted set S, around the place p.
Slice(S, n, lo, p, hi, C) ==
  /\ n = Cardinality(S) /\ {lo, p, hi} \subseteq 1 .. n /\ lo <= p /\ p <= hi
  /\ C = {Sorted(S)[i] : i \in lo .. hi}

\* What of a set is on either side of a number.
Under(set, x) == {k \in set : k < x}
Beyond(set, x) == {k \in set : k > x}

\* A run of the sorted elements is a run of the set: how many are on each side
\* of one of them, in it and in the set.
LEMMA SliceIs ==
  ASSUME NEW S \in SUBSET Nat, IsFiniteSet(S), NEW n, NEW lo, NEW p, NEW hi, NEW C,
         Slice(S, n, lo, p, hi, C)
  PROVE  /\ C \subseteq S /\ Sorted(S)[p] \in C /\ Sorted(S)[p] \in Nat
         /\ \A k \in S : Min(C) <= k /\ k <= Max(C) => k \in C
         /\ Cardinality(Under(S, Sorted(S)[p])) = p - 1
         /\ Cardinality(Beyond(S, Sorted(S)[p])) = n - p
         /\ Cardinality(Under(C, Sorted(S)[p])) = p - lo
         /\ Cardinality(Beyond(C, Sorted(S)[p])) = hi - p
<1> DEFINE s == Sorted(S)
<1>0. /\ n = Cardinality(S) /\ lo \in 1 .. n /\ p \in 1 .. n /\ hi \in 1 .. n /\ lo <= p /\ p <= hi
      /\ C = {s[i] : i \in lo .. hi}
  BY DEF Slice
<1>1. /\ n \in Nat /\ s \in [1 .. n -> S] /\ s \in [1 .. n -> Nat]
      /\ lo \in 1 .. n /\ p \in 1 .. n /\ hi \in 1 .. n
      /\ \A x \in S : \E i \in 1 .. n : s[i] = x
      /\ \A i, j \in 1 .. n : i < j => s[i] < s[j]
  <2>1. /\ n \in Nat /\ s \in [1 .. n -> S]
        /\ \A x \in S : \E i \in 1 .. n : s[i] = x
        /\ \A i, j \in 1 .. n : i < j => s[i] < s[j]
    BY <1>0, SortedIs
  <2> HIDE DEF s
  <2> QED
    BY <1>0, <2>1
<1> HIDE DEF s
<1>2. \A i, j \in 1 .. n : s[i] < s[j] <=> i < j
  <2> SUFFICES ASSUME NEW i \in 1 .. n, NEW j \in 1 .. n, s[i] < s[j] PROVE i < j
    BY <1>1
  <2>1. s[i] \in Nat /\ s[j] \in Nat /\ i \in Nat /\ j \in Nat
    BY <1>1
  <2>2. ~(j < i)
    BY <1>1, <2>1
  <2>3. i # j
    BY <2>1
  <2> QED
    BY <2>1, <2>2, <2>3
<1>3. C = {s[i] : i \in lo .. hi}
  BY <1>0
<1>4. /\ lo \in Nat /\ p \in Nat /\ hi \in Nat
      /\ \A i \in lo .. hi : i \in 1 .. n
      /\ lo <= p /\ p <= hi
  BY <1>0, <1>1
<1>5. C \subseteq S /\ s[p] \in C /\ s[p] \in Nat
  <2>1. p \in lo .. hi
    BY <1>4
  <2> QED
    BY <2>1, <1>1, <1>3, <1>4
<1>6. \A k \in S : Min(C) <= k /\ k <= Max(C) => k \in C
  <2>1. C \in SUBSET Nat /\ C # {}
    BY <1>5
  <2>2. IsFiniteSet(C)
    BY <1>5, FS_Subset
  <2>3. /\ Min(C) \in C /\ \A k \in C : Min(C) <= k
        /\ Max(C) \in C /\ \A k \in C : k <= Max(C)
    BY <2>1, <2>2, MinIs, MaxIs
  <2>4. PICK a \in lo .. hi : s[a] = Min(C)
    BY <2>3, <1>3
  <2>5. PICK b \in lo .. hi : s[b] = Max(C)
    BY <2>3, <1>3
  <2> SUFFICES ASSUME NEW k \in S, Min(C) <= k, k <= Max(C) PROVE k \in C
    OBVIOUS
  <2>6. PICK i \in 1 .. n : s[i] = k
    BY <1>1
  <2>7. /\ a \in 1 .. n /\ b \in 1 .. n
        /\ a \in Nat /\ b \in Nat /\ i \in Nat
        /\ s[a] \in Nat /\ s[b] \in Nat /\ s[i] \in Nat
    <3>1. a \in 1 .. n /\ b \in 1 .. n
      BY <1>4
    <3>2. s[a] \in Nat /\ s[b] \in Nat /\ s[i] \in Nat
      BY <3>1, <1>1
    <3> QED
      BY <3>1, <3>2, <1>1
  <2>8. ~(s[i] < s[a]) /\ ~(s[b] < s[i])
    BY <2>4, <2>5, <2>6, <2>7
  <2>9. ~(i < a) /\ ~(b < i)
    BY <2>8, <2>7, <1>2
  <2>10. i \in lo .. hi
    BY <2>9, <2>7, <1>4
  <2> QED
    BY <2>10, <2>6, <1>3
<1>7. Under(S, s[p]) = {s[i] : i \in 1 .. p - 1}
  <2>1. ASSUME NEW k \in S, k < s[p] PROVE k \in {s[i] : i \in 1 .. p - 1}
    <3>1. PICK i \in 1 .. n : s[i] = k
      BY <1>1
    <3>2. i < p
      BY <3>1, <2>1, <1>1, <1>2
    <3>3. i \in 1 .. p - 1
      BY <3>2, <1>4, <1>1
    <3> QED
      BY <3>1, <3>3
  <2>2. ASSUME NEW i \in 1 .. p - 1 PROVE s[i] \in S /\ s[i] < s[p]
    <3>1. i \in 1 .. n /\ i < p
      BY <1>4, <1>1
    <3> QED
      BY <3>1, <1>1
  <2> QED
    BY <2>1, <2>2 DEF Under, Beyond
<1>8. Beyond(S, s[p]) = {s[i] : i \in p + 1 .. n}
  <2>1. ASSUME NEW k \in S, k > s[p] PROVE k \in {s[i] : i \in p + 1 .. n}
    <3>1. PICK i \in 1 .. n : s[i] = k
      BY <1>1
    <3>2. p < i
      BY <3>1, <2>1, <1>1, <1>2
    <3>3. i \in p + 1 .. n
      BY <3>2, <1>4, <1>1
    <3> QED
      BY <3>1, <3>3
  <2>2. ASSUME NEW i \in p + 1 .. n PROVE s[i] \in S /\ s[i] > s[p]
    <3>1. i \in 1 .. n /\ p < i
      BY <1>4, <1>1
    <3>2. s[p] < s[i] /\ s[i] \in S /\ s[i] \in Nat /\ s[p] \in Nat
      BY <3>1, <1>1
    <3> QED
      BY <3>2
  <2> QED
    BY <2>1, <2>2 DEF Under, Beyond
<1>9. Under(C, s[p]) = {s[i] : i \in lo .. p - 1}
  <2>1. ASSUME NEW k \in C, k < s[p] PROVE k \in {s[i] : i \in lo .. p - 1}
    <3>1. PICK i \in lo .. hi : s[i] = k
      BY <1>3
    <3>2. i < p
      BY <3>1, <2>1, <1>2, <1>4
    <3>3. i \in lo .. p - 1
      BY <3>2, <1>4, <1>1
    <3> QED
      BY <3>1, <3>3
  <2>2. ASSUME NEW i \in lo .. p - 1 PROVE s[i] \in C /\ s[i] < s[p]
    <3>1. i \in 1 .. n /\ i < p /\ i \in lo .. hi
      BY <1>4, <1>1
    <3> QED
      BY <3>1, <1>1, <1>3
  <2> QED
    BY <2>1, <2>2 DEF Under, Beyond
<1>10. Beyond(C, s[p]) = {s[i] : i \in p + 1 .. hi}
  <2>1. ASSUME NEW k \in C, k > s[p] PROVE k \in {s[i] : i \in p + 1 .. hi}
    <3>1. PICK i \in lo .. hi : s[i] = k
      BY <1>3
    <3>2. s[p] < s[i] /\ i \in 1 .. n
      BY <3>1, <2>1, <1>1, <1>4
    <3>3. i \in p + 1 .. hi
      BY <3>2, <1>2, <1>4, <1>1
    <3> QED
      BY <3>1, <3>3
  <2>2. ASSUME NEW i \in p + 1 .. hi PROVE s[i] \in C /\ s[i] > s[p]
    <3>1. i \in 1 .. n /\ p < i /\ i \in lo .. hi
      BY <1>4, <1>1
    <3>2. s[p] < s[i] /\ s[i] \in C /\ s[i] \in Nat /\ s[p] \in Nat
      BY <3>1, <1>1, <1>3
    <3> QED
      BY <3>2
  <2> QED
    BY <2>1, <2>2 DEF Under, Beyond
<1>11. ASSUME NEW a \in 1 .. n + 1, NEW b \in 0 .. n, a <= b + 1
       PROVE  Cardinality({s[i] : i \in a .. b}) = b - a + 1
  BY <1>1, <1>11, RunHas
<1>12. Cardinality(Under(S, s[p])) = p - 1 /\ Cardinality(Under(C, s[p])) = p - lo
  <2> DEFINE q == p - 1
  <2>1. 1 \in 1 .. n + 1 /\ lo \in 1 .. n + 1 /\ q \in 0 .. n /\ 1 <= q + 1 /\ lo <= q + 1
    BY <1>1, <1>4
  <2> HIDE DEF q
  <2>2. /\ Cardinality({s[i] : i \in 1 .. q}) = q - 1 + 1
        /\ Cardinality({s[i] : i \in lo .. q}) = q - lo + 1
    BY <2>1, <1>11
  <2>3. q - 1 + 1 = p - 1 /\ q - lo + 1 = p - lo
    BY <1>4 DEF q
  <2> QED
    BY <2>2, <2>3, <1>7, <1>9 DEF q
<1>13. Cardinality(Beyond(S, s[p])) = n - p /\ Cardinality(Beyond(C, s[p])) = hi - p
  <2> DEFINE q == p + 1
  <2>1. q \in 1 .. n + 1 /\ n \in 0 .. n /\ hi \in 0 .. n /\ q <= n + 1 /\ q <= hi + 1
    BY <1>1, <1>4
  <2> HIDE DEF q
  <2>2. /\ Cardinality({s[i] : i \in q .. n}) = n - q + 1
        /\ Cardinality({s[i] : i \in q .. hi}) = hi - q + 1
    BY <2>1, <1>11
  <2>3. n - q + 1 = n - p /\ hi - q + 1 = hi - p
    BY <1>4, <1>1 DEF q
  <2> QED
    BY <2>2, <2>3, <1>8, <1>10 DEF q
<1> QED
  BY <1>5, <1>6, <1>12, <1>13 DEF s

\* The strip has every option of its expiries, strikes and rights.
LEMMA StripHas ==
  ASSUME NEW e \in Seq(Nat), NEW k \in Seq(Nat \ {0}), symbol \in Symbols,
         Len(e) > 0, Len(k) > 0, NEW O, O = Range(Strip(e, k))
  PROVE  /\ {o.expiry : o \in O} = Range(e) /\ {o.strike : o \in O} = Range(k)
         /\ O = Options(symbol, Range(e), Range(k))
<1> DEFINE s == Strip(e, k)
           Option(a, b, c) ==
               [symbol |-> symbol, expiry |-> e[a], strike |-> k[b], right |-> Rights[c]]
<1>1. /\ s \in Seq(Listable)
      /\ \A i \in 1 .. Len(s) : \E a \in 1 .. Len(e), b \in 1 .. Len(k), c \in 1 .. Len(Rights) :
            s[i] = Option(a, b, c)
      /\ \A a \in 1 .. Len(e), b \in 1 .. Len(k), c \in 1 .. Len(Rights) :
            \E i \in 1 .. Len(s) : s[i] = Option(a, b, c)
  BY StripIs
<1>2. /\ DOMAIN s = 1 .. Len(s) /\ DOMAIN e = 1 .. Len(e) /\ DOMAIN k = 1 .. Len(k)
      /\ DOMAIN Rights = 1 .. Len(Rights)
      /\ Len(e) \in Nat /\ Len(k) \in Nat /\ Len(Rights) \in Nat /\ Len(Rights) > 0
  <2> HIDE DEF s
  <2> QED
    BY <1>1, ConstantsAre, LenProperties
<1>3. O = Range(s)
  OBVIOUS
<1> HIDE DEF s
<1>4. ASSUME NEW o \in O
      PROVE  \E a \in 1 .. Len(e), b \in 1 .. Len(k), c \in 1 .. Len(Rights) : o = Option(a, b, c)
  <2>1. PICK i \in 1 .. Len(s) : s[i] = o
    BY <1>2, <1>3 DEF Range
  <2> HIDE DEF Option
  <2> QED
    BY <1>1, <2>1
<1>5. ASSUME NEW a \in 1 .. Len(e), NEW b \in 1 .. Len(k), NEW c \in 1 .. Len(Rights)
      PROVE  Option(a, b, c) \in O
  <2> HIDE DEF Option
  <2>1. PICK i \in 1 .. Len(s) : s[i] = Option(a, b, c)
    BY <1>1
  <2> QED
    BY <2>1, <1>2, <1>3 DEF Range
<1>6. 1 \in 1 .. Len(e) /\ 1 \in 1 .. Len(k) /\ 1 \in 1 .. Len(Rights)
  BY <1>2
<1>7. {o.expiry : o \in O} = Range(e)
  <2>1. ASSUME NEW o \in O PROVE o.expiry \in Range(e)
    <3>1. PICK a \in 1 .. Len(e), b \in 1 .. Len(k), c \in 1 .. Len(Rights) : o = Option(a, b, c)
      BY <1>4
    <3>2. o.expiry = e[a]
      BY <3>1
    <3> QED
      BY <3>2, <1>2 DEF Range
  <2>2. ASSUME NEW a \in 1 .. Len(e) PROVE \E o \in O : o.expiry = e[a]
    <3>1. Option(a, 1, 1) \in O
      BY <1>5, <1>6
    <3>2. Option(a, 1, 1).expiry = e[a]
      OBVIOUS
    <3> QED
      BY <3>1, <3>2
  <2> QED
    BY <2>1, <2>2, <1>2 DEF Range
<1>8. {o.strike : o \in O} = Range(k)
  <2>1. ASSUME NEW o \in O PROVE o.strike \in Range(k)
    <3>1. PICK a \in 1 .. Len(e), b \in 1 .. Len(k), c \in 1 .. Len(Rights) : o = Option(a, b, c)
      BY <1>4
    <3>2. o.strike = k[b]
      BY <3>1
    <3> QED
      BY <3>2, <1>2 DEF Range
  <2>2. ASSUME NEW b \in 1 .. Len(k) PROVE \E o \in O : o.strike = k[b]
    <3>1. Option(1, b, 1) \in O
      BY <1>5, <1>6
    <3>2. Option(1, b, 1).strike = k[b]
      OBVIOUS
    <3> QED
      BY <3>1, <3>2
  <2> QED
    BY <2>1, <2>2, <1>2 DEF Range
<1>9. O = Options(symbol, Range(e), Range(k))
  <2>1. ASSUME NEW o \in O PROVE o \in Options(symbol, Range(e), Range(k))
    <3>1. PICK a \in 1 .. Len(e), b \in 1 .. Len(k), c \in 1 .. Len(Rights) : o = Option(a, b, c)
      BY <1>4
    <3>2. e[a] \in Range(e) /\ k[b] \in Range(k) /\ Rights[c] \in Range(Rights)
      BY <1>2 DEF Range
    <3> QED
      BY <3>1, <3>2 DEF Options
  <2>2. ASSUME NEW o \in Options(symbol, Range(e), Range(k)) PROVE o \in O
    <3>1. /\ o.expiry \in Range(e) /\ o.strike \in Range(k) /\ o.right \in Range(Rights)
          /\ o = [symbol |-> symbol, expiry |-> o.expiry, strike |-> o.strike, right |-> o.right]
      BY DEF Options
    <3>2. PICK a \in 1 .. Len(e) : e[a] = o.expiry
      BY <3>1, <1>2 DEF Range
    <3>3. PICK b \in 1 .. Len(k) : k[b] = o.strike
      BY <3>1, <1>2 DEF Range
    <3>4. PICK c \in 1 .. Len(Rights) : Rights[c] = o.right
      BY <3>1, <1>2 DEF Range
    <3>5. o = Option(a, b, c)
      BY <3>1, <3>2, <3>3, <3>4
    <3> QED
      BY <3>5, <1>5
  <2> QED
    BY <2>1, <2>2
<1> QED
  BY <1>7, <1>8, <1>9

\* What the session has been told of its chain is what it read of it.
LEMMA ChainIsOwn ==
  ASSUME ChainInv, pc \in Chained, Own(chains, snapshot.req)
  PROVE  /\ UNION {c.strikes : c \in OfSession(chains)} = snapshot.strikes
         /\ UNION {c.expiries : c \in OfSession(chains)} = snapshot.expiries
<1>1. OfSession(chains) = {c \in chains : c.req = snapshot.req}
  BY DEF ChainInv, OfSession, Own
<1>2. snapshot = Snapshot(snapshot.req)
  BY DEF ChainInv
<1>3. /\ Snapshot(snapshot.req).strikes = UNION {c.strikes : c \in OfSession(chains)}
      /\ Snapshot(snapshot.req).expiries = UNION {c.expiries : c \in OfSession(chains)}
  BY <1>1 DEF Snapshot
<1> QED
  BY <1>2, <1>3

\* Once the strip is subscribed to it is the whole one.
LEMMA SubscribedIs ==
  ASSUME TypeInv, StripInv, pc \in AfterStrip,
         Whole \in Seq(Listable)
  PROVE  Subscribed = Range(Whole)
<1>1. /\ Len(requestIds) + Len(todo) = Len(Whole) /\ todo = <<>>
      /\ \A i \in 1 .. Len(requestIds) : sent[requestIds[i]] = Whole[i]
  BY DEF StripInv, InStrip, AfterStrip
<1>2. /\ Len(requestIds) \in Nat /\ DOMAIN requestIds = 1 .. Len(requestIds)
      /\ Len(Whole) \in Nat /\ DOMAIN Whole = 1 .. Len(Whole)
  BY LenProperties DEF TypeInv
<1>3. Len(requestIds) = Len(Whole)
  BY <1>1, <1>2
<1>4. ASSUME NEW o \in Subscribed PROVE o \in Range(Whole)
  <2>1. PICK i \in 1 .. Len(requestIds) : o = sent[requestIds[i]]
    BY <1>2 DEF Subscribed, Range
  <2> QED
    BY <2>1, <1>1, <1>2, <1>3 DEF Range
<1>5. ASSUME NEW o \in Range(Whole) PROVE o \in Subscribed
  <2>1. PICK i \in 1 .. Len(Whole) : o = Whole[i]
    BY <1>2 DEF Range
  <2>2. requestIds[i] \in Range(requestIds) /\ o = sent[requestIds[i]]
    BY <2>1, <1>1, <1>2, <1>3 DEF Range
  <2> QED
    BY <2>2 DEF Subscribed
<1> QED
  BY <1>4, <1>5

\* The number of members of a chosen set that are below, or above, its center.
LEMMA AroundIs ==
  ASSUME NEW all \in Nat
  PROVE  Min({Around, all}) = IF Around <= all THEN Around ELSE all
<1>1. Around \in Int /\ all \in Int
  BY ConstantsAre
<1> QED
  BY <1>1, MaxOfTwo

\* From the whole strip being subscribed to: the chain is the session's own, the
\* expiries are selected of it, the strikes are a run of it around the spot.
LEMMA StripIsRight == IInv => StripIsAroundSpot
<1> DEFINE S == snapshot.strikes
           E == snapshot.expiries
           e == SelectedExpiries(E)
           k == StrikeStrip(S, spot)
           chosen == {o.strike : o \in Subscribed}
           expiries == {o.expiry : o \in Subscribed}
           n == Cardinality(S)
<1> SUFFICES ASSUME IInv, pc \in AfterStrip, Own(chains, snapshot.req)
             PROVE  StripIsAroundSpot
  BY DEF StripIsAroundSpot, AfterStrip
<1>1. TypeInv /\ ListsInv /\ ChainInv /\ StripInv
  BY DEF IInv
<1>2. /\ UNION {c.strikes : c \in OfSession(chains)} = S
      /\ UNION {c.expiries : c \in OfSession(chains)} = E
  BY <1>1, ChainIsOwn DEF Chained, AfterStrip
<1>3. /\ spot \in Spots /\ spot \in Nat /\ Future(E) # {} /\ S # {} /\ symbol \in Symbols
  BY <1>1, ConstantsAre DEF StripInv, InStrip, AfterStrip, ChainInv, Chained, TypeInv
<1>4. E \in SUBSET Nat /\ S \subseteq Nat \ {0} /\ S \in SUBSET Nat /\ IsFiniteSet(S)
  BY <1>1 DEF ListsInv, Lists
<1>5. Whole \in Seq(Listable)
  BY <1>1, <1>3, WholeIs DEF AfterStrip
<1>6. Subscribed = Range(Whole)
  BY <1>1, <1>5, SubscribedIs
<1>7. /\ e \in Seq(Future(E)) /\ Len(e) \in Nat \ {0}
      /\ ExpiryMode # "monthly" => \A f \in Future(E) : e[1] <= f
  BY <1>3, <1>4, SelectedExpiriesIs
<1>8. e \in Seq(Nat)
  <2>1. Future(E) \subseteq Nat
    BY <1>4 DEF Future
  <2> HIDE DEF e
  <2> QED
    BY <2>1, <1>7, SeqMonotonic
<1>9. PICK lo, p, hi \in 1 .. n :
         /\ lo <= p /\ p <= hi
         /\ p - lo = IF Around <= p - 1 THEN Around ELSE p - 1
         /\ hi - p = IF Around <= n - p THEN Around ELSE n - p
         /\ k \in Seq(S) /\ Len(k) = hi - lo + 1
         /\ \A i \in 1 .. hi - lo + 1 : k[i] = Sorted(S)[lo + i - 1]
         /\ \A x \in S : Distance(Sorted(S)[p], spot) <= Distance(x, spot)
  BY <1>3, <1>4, StrikeStripIs
<1>10. k \in Seq(Nat \ {0})
  <2> HIDE DEF k
  <2> QED
    BY <1>9, <1>4, SeqMonotonic
<1>11. n \in Nat
  BY <1>4, FS_CardinalityType
<1> HIDE DEF e, k, n
<1>12. /\ expiries = Range(e) /\ chosen = Range(k)
       /\ Subscribed = Options(symbol, Range(e), Range(k))
  <2>1. Len(e) > 0 /\ Len(k) > 0
    BY <1>7, <1>9, <1>11
  <2>2. Subscribed = Range(Strip(e, k))
    BY <1>6 DEF Whole, e, k
  <2> QED
    BY <2>1, <2>2, <1>3, <1>8, <1>10, StripHas
<1>13. Range(k) = {Sorted(S)[i] : i \in lo .. hi}
  <2>1. DOMAIN k = 1 .. hi - lo + 1
    BY <1>9, LenProperties
  <2>2. ASSUME NEW i \in 1 .. hi - lo + 1
        PROVE  lo + i - 1 \in lo .. hi /\ k[i] = Sorted(S)[lo + i - 1]
    BY <1>9, <1>11
  <2>3. ASSUME NEW i \in lo .. hi
        PROVE  i - lo + 1 \in 1 .. hi - lo + 1 /\ k[i - lo + 1] = Sorted(S)[i]
    <3>1. i - lo + 1 \in 1 .. hi - lo + 1 /\ lo + (i - lo + 1) - 1 = i
      BY <1>11
    <3> QED
      BY <3>1, <1>9
  <2> QED
    BY <2>1, <2>2, <2>3 DEF Range
<1> DEFINE c == Sorted(S)[p]
<1>14. /\ chosen \subseteq S /\ c \in chosen /\ c \in Nat
       /\ \A x \in S : Min(chosen) <= x /\ x <= Max(chosen) => x \in chosen
       /\ Cardinality(Under(S, c)) = p - 1 /\ Cardinality(Beyond(S, c)) = n - p
       /\ Cardinality(Under(chosen, c)) = p - lo /\ Cardinality(Beyond(chosen, c)) = hi - p
  <2>1. n = Cardinality(S)
    BY DEF n
  <2>2. chosen = {Sorted(S)[i] : i \in lo .. hi}
    BY <1>12, <1>13
  <2>3. Slice(S, n, lo, p, hi, chosen)
    BY <2>1, <2>2, <1>9 DEF Slice
  <2> HIDE DEF chosen, S
  <2>4. /\ chosen \subseteq S /\ Sorted(S)[p] \in chosen /\ Sorted(S)[p] \in Nat
        /\ \A x \in S : Min(chosen) <= x /\ x <= Max(chosen) => x \in chosen
    BY <2>3, <1>4, SliceIs
  <2>5. /\ Cardinality(Under(S, Sorted(S)[p])) = p - 1
        /\ Cardinality(Beyond(S, Sorted(S)[p])) = n - p
        /\ Cardinality(Under(chosen, Sorted(S)[p])) = p - lo
        /\ Cardinality(Beyond(chosen, Sorted(S)[p])) = hi - p
    BY <2>3, <1>4, SliceIs
  <2> QED
    BY <2>4, <2>5
<1>15. /\ p - lo = Min({Around, p - 1})
       /\ hi - p = Min({Around, n - p})
  <2>1. p - 1 \in Nat /\ n - p \in Nat
    BY <1>11
  <2> QED
    BY <2>1, <1>9, AroundIs
<1>16. /\ \A x \in S : Distance(c, spot) <= Distance(x, spot)
       /\ Cardinality(Under(chosen, c)) = Min({Around, Cardinality(Under(S, c))})
       /\ Cardinality(Beyond(chosen, c)) = Min({Around, Cardinality(Beyond(S, c))})
  BY <1>9, <1>14, <1>15
<1>17. expiries \subseteq Future(E)
  <2>1. Range(e) \subseteq Future(E)
    BY <1>7, RangeOfSeq
  <2> QED
    BY <2>1, <1>12
<1>18. ExpiryMode # "monthly" => \E x \in expiries : \A f \in Future(E) : x <= f
  <2>1. e[1] \in Range(e)
    BY <1>7, LenProperties DEF Range
  <2> QED
    BY <2>1, <1>7, <1>12
<1>19. \A o \in Subscribed : o.symbol = symbol
  BY <1>12 DEF Options
<1>20. Subscribed = Options(symbol, expiries, chosen)
  BY <1>12
<1>21. \E x \in chosen :
          /\ \A y \in S : Distance(x, spot) <= Distance(y, spot)
          /\ Cardinality({y \in chosen : y < x}) = Min({Around, Cardinality({y \in S : y < x})})
          /\ Cardinality({y \in chosen : y > x}) = Min({Around, Cardinality({y \in S : y > x})})
  <2> HIDE DEF chosen, c
  <2> QED
    BY <1>14, <1>16 DEF Under, Beyond
<1> QED
  BY <1>2, <1>14, <1>17, <1>18, <1>19, <1>20, <1>21, Zenon DEF StripIsAroundSpot

\* _select_strike_strip and _select_option_expiries: what is collected is the
\* calls and puts of the selected expiries and of the run of listed strikes
\* around the spot price, in a session whose chain request has an id of its own.
THEOREM StripIsAround == Spec => []StripIsAroundSpot
  BY StripIsRight, Invariance, PTL

----------------------------------------------------------------------------
(* The option panel.                                                       *)

\* The two things the ORDER BY of _fetch_options_probability_payload looks at first.
WholeRow(i) == {"implied_vol", "option_price"} \subseteq greeks[i].has
PlacedRow(i) == "underlying_price" \in greeks[i].has

\* Its order, in three cases.
LEMMA BetterIs ==
  ASSUME NEW i, NEW k
  PROVE  Better(i, k) <=>
            \/ WholeRow(i) /\ ~WholeRow(k)
            \/ (WholeRow(i) <=> WholeRow(k)) /\ PlacedRow(i) /\ ~PlacedRow(k)
            \/ (WholeRow(i) <=> WholeRow(k)) /\ (PlacedRow(i) <=> PlacedRow(k)) /\ i > k
  BY DEF Better, WholeRow, PlacedRow

\* Some rows have one that is better than each of the others.
LEMMA BestExists ==
  ASSUME NEW G \in SUBSET Nat, IsFiniteSet(G), G # {}
  PROVE  \E i \in G : \A k \in G \ {i} : Better(i, k)
<1> DEFINE W == {i \in G : WholeRow(i)}
           V == IF W # {} THEN W ELSE G
           P == {i \in V : PlacedRow(i)}
           Q == IF P # {} THEN P ELSE V
<1>1. V \subseteq G /\ V # {} /\ Q \subseteq V /\ Q # {}
  OBVIOUS
<1>2. Q \in SUBSET G
  BY <1>1
<1>3. Q \in SUBSET Nat /\ IsFiniteSet(Q)
  <2> HIDE DEF Q
  <2> QED
    BY <1>2, FS_Subset
<1>4. PICK i \in Q : \A k \in Q : k <= i
  <2> HIDE DEF Q
  <2> QED
    BY <1>1, <1>3, MaxExists
<1>5. ASSUME NEW k \in G \ {i} PROVE Better(i, k)
  <2>1. CASE k \in Q
    <3>1. i > k
      <4> HIDE DEF Q
      <4> QED
        BY <1>3, <1>4, <1>5, <2>1
    <3>2. (WholeRow(i) <=> WholeRow(k)) /\ (PlacedRow(i) <=> PlacedRow(k))
      BY <2>1
    <3> QED
      BY <3>1, <3>2, BetterIs
  <2>2. CASE k \in V /\ k \notin Q
    <3>1. (WholeRow(i) <=> WholeRow(k)) /\ PlacedRow(i) /\ ~PlacedRow(k)
      BY <2>2
    <3> QED
      BY <3>1, BetterIs
  <2>3. CASE k \notin V
    <3>1. WholeRow(i) /\ ~WholeRow(k)
      BY <2>3, <1>5
    <3> QED
      BY <3>1, BetterIs
  <2> QED
    BY <2>1, <2>2, <2>3
<1> QED
  BY <1>2, <1>5

\* The rows of a symbol are finitely many rows of the table.
LEMMA JoinedIs ==
  ASSUME TypeInv, NEW s
  PROVE  /\ Joined(s) \in SUBSET Nat /\ IsFiniteSet(Joined(s))
         /\ \A i \in Joined(s) : greeks[i] \in GreekRows /\ greeks[i].instrument \in Instruments
<1>1. /\ Len(greeks) \in Nat /\ DOMAIN greeks = 1 .. Len(greeks)
      /\ \A i \in 1 .. Len(greeks) : greeks[i] \in GreekRows
  BY LenProperties, ElementOfSeq DEF TypeInv
<1>2. Joined(s) \subseteq 1 .. Len(greeks)
  BY <1>1 DEF Joined
<1>3. \A i \in Joined(s) : greeks[i] \in GreekRows
  BY <1>1, <1>2
<1> QED
  BY <1>1, <1>2, <1>3, IndicesAre DEF GreekRows

\* Each option that has greeks has its latest ones.
LEMMA LatestExists ==
  ASSUME TypeInv, NEW s, NEW j \in Joined(s)
  PROVE  \E i \in LatestGreeks(s) :
            greeks[i].instrument = greeks[j].instrument /\ (i = j \/ Better(i, j))
<1> DEFINE G == {i \in Joined(s) : greeks[i].instrument = greeks[j].instrument}
<1>1. G \in SUBSET Joined(s) /\ G # {} /\ j \in G
  OBVIOUS
<1>2. G \in SUBSET Nat /\ IsFiniteSet(G)
  <2> HIDE DEF G
  <2> QED
    BY <1>1, JoinedIs, FS_Subset
<1>3. PICK i \in G : \A k \in G \ {i} : Better(i, k)
  <2> HIDE DEF G
  <2> QED
    BY <1>1, <1>2, BestExists
<1>4. i \in LatestGreeks(s)
  BY <1>3 DEF LatestGreeks
<1> QED
  BY <1>1, <1>3, <1>4

\* As long as no more options are cached than are asked for, none is cut off.
LEMMA NothingIsCut ==
  ASSUME TypeInv, NEW s, NEW cached, cached = {greeks[i].instrument : i \in Joined(s)},
         Cardinality(cached) <= Limit
  PROVE  Cut(s) = LatestGreeks(s)
<1> DEFINE L == LatestGreeks(s)
           f == [i \in L |-> greeks[i].instrument]
           g == [i \in Joined(s) |-> greeks[i].instrument]
<1>1. L \in SUBSET Joined(s) /\ Joined(s) \in SUBSET Nat /\ IsFiniteSet(Joined(s))
  BY JoinedIs DEF LatestGreeks
<1>2. IsFiniteSet(L) /\ \A i \in L : i \in Nat
  <2> HIDE DEF L
  <2> QED
    BY <1>1, FS_Subset
<1>3. g \in Surjection(Joined(s), cached)
  BY DEF Surjection
<1>4. IsFiniteSet(cached)
  <2> HIDE DEF g
  <2> QED
    BY <1>1, <1>3, FS_Surjection
<1>5. ASSUME NEW i \in L, NEW k \in L, i # k PROVE f[i] # f[k]
  <2>1. i \in Nat /\ k \in Nat /\ i \in Joined(s) /\ k \in Joined(s)
    BY <1>1, <1>2
  <2>2. SUFFICES ASSUME greeks[i].instrument = greeks[k].instrument PROVE FALSE
    OBVIOUS
  <2>3. Better(i, k) /\ Better(k, i)
    BY <1>5, <2>1, <2>2 DEF LatestGreeks
  <2> QED
    BY <2>1, <2>3, BetterIs
<1>6. f \in Injection(L, cached)
  <2>1. f \in [L -> cached]
    BY <1>1
  <2> QED
    BY <2>1, <1>5 DEF Injection, IsInjective
<1>7. Cardinality(L) <= Cardinality(cached)
  <2> HIDE DEF f, L
  <2> QED
    BY <1>4, <1>6, FS_Injection
<1>8. ASSUME NEW i \in L PROVE Cardinality({k \in L : k > i}) < Limit
  <2> DEFINE later == {k \in L : k > i}
  <2>1. later \in SUBSET L /\ i \notin later
    BY <1>2
  <2> HIDE DEF later, L
  <2>2. Cardinality(later) <= Cardinality(L) /\ Cardinality(later) # Cardinality(L)
    BY <1>2, <1>8, <2>1, FS_Subset
  <2>3. Cardinality(later) \in Nat /\ Cardinality(L) \in Nat /\ Cardinality(cached) \in Nat
    BY <1>2, <1>4, <2>1, FS_Subset, FS_CardinalityType
  <2>4. Limit \in Nat
    BY LimitAssumption
  <2>5. Cardinality(later) < Limit
    BY <1>7, <2>2, <2>3, <2>4
  <2> QED
    BY <2>5 DEF later
<1> QED
  BY <1>8 DEF Cut

\* The expiry of a mode: another one leaves the curve for a reason.
LEMMA ExpiryIs ==
  ASSUME NEW X \in SUBSET Nat, IsFiniteSet(X), NEW x \in X, NEW mode \in Modes,
         x # ProbabilityExpiry(X, mode)
  PROVE  \/ x \notin Future(X) /\ \E e \in X : e > x
         \/ \E e \in Future(X) :
               IF mode = "monthly" /\ e \in Monthlies
               THEN e < x \/ x \notin Monthlies
               ELSE e < x /\ (mode = "monthly" => x \notin Monthlies)
<1> DEFINE months == Future(X) \cap Monthlies
<1>1. /\ x \in Nat /\ Today \in Nat /\ Future(X) \in SUBSET Nat /\ Future(X) \subseteq X
      /\ months \in SUBSET Nat /\ months \subseteq Future(X)
      /\ \A e \in X : e \in Future(X) <=> e >= Today
  BY ConstantsAre DEF Future
<1>2. ASSUME x \notin Future(X), NEW e \in Future(X) PROVE e > x
  BY <1>1, <1>2
<1>3. ProbabilityExpiry(X, mode) =
         CASE Future(X) = {} -> Max(X)
           [] mode = "monthly" /\ months # {} -> Min(months)
           [] OTHER -> Min(Future(X))
  BY DEF ProbabilityExpiry
<1> HIDE DEF months
<1>4. CASE Future(X) = {}
  <2> DEFINE e == Max(X)
  <2>1. e \in X /\ x <= e /\ x # e
    <3>1. e \in X /\ \A k \in X : k <= e
      BY MaxIs
    <3>2. ProbabilityExpiry(X, mode) = e
      BY <1>1, <1>3, <1>4
    <3> HIDE DEF e
    <3> QED
      BY <3>1, <3>2
  <2> HIDE DEF e
  <2>2. e \in Nat /\ x \in Nat
    BY <2>1, <1>1
  <2>3. e > x
    BY <2>1, <2>2
  <2> QED
    BY <2>1, <2>3, <1>4
<1>5. CASE Future(X) # {} /\ mode = "monthly" /\ months # {}
  <2> DEFINE e == Min(months)
  <2>1. e \in months /\ (\A k \in months : e <= k) /\ x # e
    BY <1>1, <1>3, <1>5, MinIs
  <2> HIDE DEF e
  <2>2. e \in Future(X) /\ e \in Monthlies /\ e \in Nat
    BY <2>1, <1>1 DEF months
  <2>3. CASE x \notin Future(X)
    BY <2>2, <2>3, <1>1, <1>2
  <2>4. CASE x \in Future(X) /\ x \in Monthlies
    <3>1. x \in months
      BY <2>4 DEF months
    <3>2. e < x
      BY <3>1, <2>1, <2>2, <1>1
    <3> QED
      BY <3>2, <2>2, <1>5
  <2>5. CASE x \notin Monthlies
    BY <2>5, <2>2, <1>5
  <2> QED
    BY <2>3, <2>4, <2>5
<1>6. CASE Future(X) # {} /\ ~(mode = "monthly" /\ months # {})
  <2> DEFINE e == Min(Future(X))
  <2>1. e \in Future(X) /\ (\A k \in Future(X) : e <= k) /\ x # e
    BY <1>1, <1>3, <1>6, MinIs
  <2> HIDE DEF e
  <2>2. e \in X /\ e \in Nat
    BY <2>1, <1>1
  <2>3. CASE x \notin Future(X)
    BY <2>1, <2>2, <2>3, <1>2
  <2>4. CASE x \in Future(X)
    <3>1. e < x
      BY <2>1, <2>2, <2>4, <1>1
    <3>2. mode = "monthly" => e \notin Monthlies /\ x \notin Monthlies
      BY <2>1, <2>4, <1>6 DEF months
    <3> QED
      BY <2>1, <3>1, <3>2
  <2> QED
    BY <2>3, <2>4
<1> QED
  BY <1>4, <1>5, <1>6

\* The newest complete row of an option is the best of it or yields to a better
\* complete one, nothing is cut off, and the expiry chosen is the option's or one
\* that suits the mode better.
LEMMA CompleteIsOnCurve == TypeInv => CompleteStaysOnCurve
<1> SUFFICES ASSUME TypeInv, NEW s \in Symbols,
                    Cardinality({greeks[i].instrument : i \in Joined(s)}) <= Limit,
                    NEW j \in Joined(s), greeks[j].has = Columns, NEW mode \in Modes
             PROVE  LET cached == {greeks[i].instrument : i \in Joined(s)}
                        future == Future({o.expiry : o \in cached})
                        o == greeks[j].instrument
                    IN  \/ o \in Curve(s, mode)
                        \/ /\ o.expiry \notin future
                           /\ \E e \in {p.expiry : p \in cached} : e > o.expiry
                        \/ \E e \in future :
                              IF mode = "monthly" /\ e \in Monthlies
                              THEN e < o.expiry \/ o.expiry \notin Monthlies
                              ELSE e < o.expiry /\ (mode = "monthly" => o.expiry \notin Monthlies)
  BY SMTT(20) DEF CompleteStaysOnCurve
<1> DEFINE cached == {greeks[i].instrument : i \in Joined(s)}
           X == {o.expiry : o \in cached}
           o == greeks[j].instrument
           expiries == {greeks[i].instrument.expiry : i \in Cut(s)}
<1>1. Cut(s) = LatestGreeks(s)
  BY NothingIsCut
<1>2. PICK i \in LatestGreeks(s) : greeks[i].instrument = o /\ (i = j \/ Better(i, j))
  BY LatestExists
<1>3. {"implied_vol", "underlying_price"} \subseteq greeks[i].has
  <2>1. WholeRow(j) /\ PlacedRow(j)
    BY DEF WholeRow, PlacedRow, Columns
  <2>2. WholeRow(i) /\ PlacedRow(i)
    BY <2>1, <1>2, BetterIs
  <2> QED
    BY <2>2 DEF WholeRow, PlacedRow
<1>4. expiries = X
  <2>1. ASSUME NEW e \in expiries PROVE e \in X
    <3>1. PICK k \in Cut(s) : e = greeks[k].instrument.expiry
      OBVIOUS
    <3>2. k \in Joined(s)
      BY <3>1, <1>1 DEF LatestGreeks
    <3> QED
      BY <3>1, <3>2
  <2>2. ASSUME NEW e \in X PROVE e \in expiries
    <3>1. PICK k \in Joined(s) : e = greeks[k].instrument.expiry
      OBVIOUS
    <3>2. PICK l \in LatestGreeks(s) : greeks[l].instrument = greeks[k].instrument
      BY LatestExists
    <3> QED
      BY <3>1, <3>2, <1>1
  <2> QED
    BY <2>1, <2>2
<1>5. CASE o.expiry = ProbabilityExpiry(X, mode)
  <2> DEFINE selected == {k \in Cut(s) :
                            greeks[k].instrument.expiry = ProbabilityExpiry(expiries, mode)}
             spots == {k \in selected : "underlying_price" \in greeks[k].has}
  <2>1. i \in selected /\ i \in spots
    BY <1>1, <1>2, <1>3, <1>4, <1>5
  <2>2. Points(s, mode) = {k \in selected : "implied_vol" \in greeks[k].has /\ spots # {}}
    BY DEF Points
  <2>3. i \in Points(s, mode)
    BY <2>1, <2>2, <1>3
  <2>4. o \in Curve(s, mode)
    BY <2>3, <1>2 DEF Curve
  <2> QED
    BY <2>4
<1>6. CASE o.expiry # ProbabilityExpiry(X, mode)
  <2>1. X \in SUBSET Nat /\ o.expiry \in X
    <3>1. \A k \in Joined(s) : greeks[k].instrument.expiry \in Nat
      BY JoinedIs DEF Instruments
    <3>2. X \subseteq Nat
      BY <3>1
    <3> QED
      BY <3>2
  <2>2. IsFiniteSet(X)
    <3> DEFINE h == [k \in Joined(s) |-> greeks[k].instrument.expiry]
    <3>1. h \in Surjection(Joined(s), X)
      BY DEF Surjection
    <3> HIDE DEF h, X
    <3> QED
      BY <3>1, JoinedIs, FS_Surjection
  <2> DEFINE x == o.expiry
  <2>3. x \in X /\ x # ProbabilityExpiry(X, mode)
    BY <2>1, <1>6
  <2> HIDE DEF x, X
  <2>4. \/ x \notin Future(X) /\ \E e \in X : e > x
        \/ \E e \in Future(X) :
              IF mode = "monthly" /\ e \in Monthlies
              THEN e < x \/ x \notin Monthlies
              ELSE e < x /\ (mode = "monthly" => x \notin Monthlies)
    BY <2>1, <2>2, <2>3, ExpiryIs
  <2> QED
    BY <2>4, Zenon DEF x, X
<1> QED
  BY <1>5, <1>6

\* _fetch_options_probability_payload: an option whose greeks were once complete
\* stays on its curve, or leaves it for an expiry that suits the mode better.
THEOREM CompleteStays == Spec => []CompleteStaysOnCurve
  BY CompleteIsOnCurve, TypeCorrect, PTL

==============================================================================
