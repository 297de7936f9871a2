------------------------- MODULE SharedDatabaseProofs -------------------------
(***************************************************************************)
(* First, what handle_event keeps, for one process on the database, any    *)
(* number of contracts, details, request ids, row ids and events, and any  *)
(* number of crashes between any two commits (InstrumentStore).            *)
(*                                                                         *)
(* Then, what holds of a database that others share.  The write lock       *)
(* outlives the step that took it only when an event has failed to apply,  *)
(* for any number of processes, tools, contracts and events.  The bars of  *)
(* a contract without a strike are all in one of its rows, for any number  *)
(* of tools beside one gateway process: that row, its home, is the first   *)
(* one, since SQLite gives a new row an id above all others and the tool   *)
(* reads the first row it finds, and the store changes or deletes no rows  *)
(* but those it has looked up itself.                                      *)
(***************************************************************************)
EXTENDS SharedDatabase, Integers, FiniteSetTheorems, WellFoundedInduction, TLAPS

\* The store of one process: another may merge or delete the instrument this
\* one has just looked up.
OneProcess == \A p, q \in Processes : p = q

Plain(c) == [c EXCEPT !.detail = Bare]

\* UNIQUE: no two rows of the instruments are the same.
UniqueInv ==
    \A i, k \in InstrumentIds :
        instruments[i] # NoContract /\ instruments[i] = instruments[k] => i = k

\* A row refers to an instrument of its contract.
RowsInv ==
    \A t \in Tables : \A r \in rows[t] :
        r.instrument # NoRow =>
            /\ t \in Merged
            /\ instruments[r.instrument] \in Contracts
            /\ instruments[r.instrument].base = r.base

\* An instrument is looked up for a contract and for one of the tables that
\* a merge takes care of.
FindInv ==
    \A p \in Processes : job[p].step \in {"find", "exact", "upsert"} =>
        job[p].contract \in Contracts /\ job[p].table \in Merged \cup {"none"}

\* What the look-ups found, or did not find, is still so.
UpsertInv ==
    \A p \in Processes :
        /\ job[p].step \in {"exact", "upsert"} =>
              IF job[p].provisional = NoRow
              THEN \A i \in InstrumentIds : instruments[i] # Plain(job[p].contract)
              ELSE instruments[job[p].provisional] = Plain(job[p].contract)
        /\ job[p].step = "upsert" =>
              IF job[p].exact = NoRow
              THEN \A i \in InstrumentIds : instruments[i] # job[p].contract
              ELSE instruments[job[p].exact] = job[p].contract

\* The instrument a row is about to be filed under is of its contract.
RowInv ==
    \A p \in Processes : job[p].step = "row" =>
        /\ job[p].table \in Tables
        /\ job[p].table = "historical_prices" => job[p].instrument # NoRow
        /\ job[p].instrument # NoRow =>
              /\ job[p].table \in Merged
              /\ job[p].contract \in Contracts
              /\ instruments[job[p].instrument] \in Contracts
              /\ instruments[job[p].instrument].base = job[p].contract.base

\* No merge is left in an open transaction.
CommittedInv == uncommitted = NoMerge

IInv ==
    /\ OneProcess /\ TypeOK /\ UniqueInv /\ RowsInv /\ FindInv /\ UpsertInv /\ RowInv
    /\ CommittedInv

----------------------------------------------------------------------------
(* The id of a new instrument.                                             *)

Less == {ss \in Nat \X Nat : ss[1] < ss[2]}

\* Every nonempty set of naturals has a least element.
LEMMA LessWellFounded == IsWellFoundedOn(Less, Nat)
  BY NatLessThanWellFounded DEF OpToRel, Less

\* So a nonempty set of row ids has a largest one.
LEMMA LargestExists ==
  ASSUME NEW n \in Nat, NEW T \in SUBSET (1 .. n), T # {}
  PROVE  \E i \in T : \A k \in T : k <= i
<1> DEFINE S == {n - k : k \in T}
<1>1. S \subseteq Nat /\ S # {}
  OBVIOUS
<1>2. PICK x \in S : \A y \in S : ~(<<y, x>> \in Less)
  <2> HIDE DEF S
  <2> QED
    BY <1>1, LessWellFounded, WFMin
<1>3. PICK i \in T : x = n - i
  OBVIOUS
<1>4. ASSUME NEW k \in T PROVE k <= i
  <2>1. n - k \in S
    OBVIOUS
  <2>2. ~(<<n - k, n - i>> \in Less)
    BY <2>1, <1>2, <1>3
  <2>3. n - k \in Nat /\ n - i \in Nat
    BY <1>1
  <2> QED
    BY <2>2, <2>3 DEF Less
<1> QED
  BY <1>4

\* SQLite's next row id is the id of no row, and above all that are.
LEMMA NewIdIsNew ==
  ASSUME NewId \in InstrumentIds
  PROVE  /\ instruments[NewId] = NoContract
         /\ \A k \in InstrumentIds : instruments[k] # NoContract => k < NewId
<1>1. CASE Used = {}
  BY <1>1 DEF Used
<1>2. CASE Used # {}
  <2> DEFINE top == CHOOSE i \in Used : \A k \in Used : k <= i
  <2>1. MaxInstruments \in Nat /\ Used \in SUBSET (1 .. MaxInstruments)
    BY ConstantAssumption DEF Used, InstrumentIds
  <2>2. \E i \in Used : \A k \in Used : k <= i
    BY <2>1, <1>2, LargestExists
  <2>3. top \in Used /\ \A k \in Used : k <= top
    BY <2>2
  <2>4. NewId = 1 + top
    BY <1>2 DEF NewId
  <2>5. NewId \notin Used /\ \A k \in Used : k < NewId
    <3> HIDE DEF top
    <3> QED
      BY <2>1, <2>3, <2>4
  <2> QED
    BY <2>5 DEF Used
<1> QED
  BY <1>1, <1>2

----------------------------------------------------------------------------
(* Contracts and the rows they have.                                       *)

LEMMA PlainContract ==
  ASSUME NEW c \in Contracts
  PROVE  /\ Plain(c) \in Contracts /\ Plain(c).base = c.base /\ Plain(c).detail = Bare
         /\ c.detail = Bare => Plain(c) = c
  BY DEF Plain, Contracts

\* A look-up finds a row of the contract, or there is none.
LEMMA RowOfFinds ==
  ASSUME NEW c
  PROVE  IF RowOf(c) = NoRow
         THEN \A i \in InstrumentIds : instruments[i] # c
         ELSE RowOf(c) \in InstrumentIds /\ instruments[RowOf(c)] = c
<1>1. CASE \E i \in InstrumentIds : instruments[i] = c
  <2>1. RowOf(c) \in InstrumentIds /\ instruments[RowOf(c)] = c
    BY <1>1 DEF RowOf
  <2>2. RowOf(c) # NoRow
    BY <2>1, ConstantAssumption DEF InstrumentIds, NoRow
  <2> QED
    BY <2>1, <2>2
<1>2. CASE ~ \E i \in InstrumentIds : instruments[i] = c
  BY <1>2 DEF RowOf
<1> QED
  BY <1>1, <1>2

----------------------------------------------------------------------------
(* The actions keep the invariant.                                         *)

LEMMA JobBecomes ==
  ASSUME IInv, NEW p \in Processes, NEW j \in Jobs, job' = [job EXCEPT ![p] = j]
  PROVE  /\ job' \in [Processes -> Jobs]
         /\ \A q \in Processes : job'[q] = j
  BY DEF IInv, TypeOK, OneProcess

\* The job of a process between two events.
LEMMA IdleJob == Idle \in Jobs /\ Idle.step = "idle"
  BY DEF Idle, Jobs, Steps, NoRow

\* The job of an event that has just been recorded.
LEMMA NewJob ==
  ASSUME NEW step \in Steps, NEW table \in Tables \cup {"none"},
         NEW c \in Contracts \cup {NoContract}, NEW time \in Times \cup {0}
  PROVE  LET j == Job(step, table, c, time)
         IN  /\ j \in Jobs /\ j.step = step /\ j.table = table /\ j.contract = c
             /\ j.instrument = NoRow
  BY DEF Job, Idle, Jobs, NoRow

\* An event that begins has looked nothing up and refers to no instrument.
LEMMA ReceiveKeeps ==
  ASSUME IInv, NEW p \in Processes, NEW next \in Jobs, Receive(p, next),
         next.step \notin {"exact", "upsert"},
         next.step = "find" => next.contract \in Contracts /\ next.table \in Merged \cup {"none"},
         next.step = "row" => /\ next.instrument = NoRow
                              /\ next.table \in Tables \ {"historical_prices"},
         requests' \in [Processes -> [Contexts -> [ReqIds -> Contracts \cup {NoContract}]]]
  PROVE  IInv'
<1>1. /\ job' = [job EXCEPT ![p] = next]
      /\ UNCHANGED <<instruments, rows, uncommitted, failed, crashes>>
  BY DEF Receive, CommitMerge, IInv, CommittedInv
<1>2. job' \in [Processes -> Jobs] /\ \A q \in Processes : job'[q] = next
  BY <1>1, JobBecomes
<1>3. TypeOK'
  <2>1. raw' \in 0 .. MaxEvents /\ writer' \in Processes \cup {NoProcess}
    BY ConstantAssumption DEF IInv, TypeOK, Receive, Commit
  <2> QED
    BY <1>1, <1>2, <2>1 DEF IInv, TypeOK
<1>4. UniqueInv' /\ RowsInv' /\ CommittedInv'
  BY <1>1 DEF IInv, UniqueInv, RowsInv, CommittedInv
<1>5. FindInv' /\ UpsertInv' /\ RowInv'
  BY <1>2 DEF FindInv, UpsertInv, RowInv
<1> QED
  BY <1>3, <1>4, <1>5 DEF IInv, OneProcess

\* What begins with an event is a job for a look-up, or for a row of no
\* instrument, or none.
Known == [Processes -> [Contexts -> [ReqIds -> Contracts \cup {NoContract}]]]
Begins(p) ==
    \E next \in Jobs :
        /\ Receive(p, next) /\ requests' \in Known
        /\ next.step \notin {"exact", "upsert"}
        /\ next.step = "find" =>
              next.contract \in Contracts /\ next.table \in Merged \cup {"none"}
        /\ next.step = "row" =>
              next.instrument = NoRow /\ next.table \in Tables \ {"historical_prices"}

\* Each event begins one of these.
LEMMA EventIs ==
  ASSUME requests \in Known, NEW p \in Processes,
         \/ \E c \in Contracts :
               \/ ReceiveDetails(p, c)
               \/ \E k \in Contexts \cup {"none"}, r \in ReqIds : ReceiveRequest(p, k, r, c)
         \/ \E r \in ReqIds :
               \/ \E time \in Times : ReceiveBar(p, r, time)
               \/ \E table \in {"market_data_ticks", "option_greeks"} : ReceiveTick(p, r, table)
         \/ \E table \in Unattached : ReceiveRow(p, table)
         \/ ReceiveOther(p)
  PROVE  Begins(p)
<1>1. requests \in Known
  OBVIOUS
<1>2. ASSUME NEW c \in Contracts, ReceiveDetails(p, c) PROVE Begins(p)
  <2> DEFINE j == Job("find", "none", c, 0)
  <2>1. /\ j \in Jobs /\ j.step = "find" /\ j.table = "none" /\ j.contract = c
        /\ Receive(p, j) /\ requests' = requests
    <3>1. "find" \in Steps
      BY DEF Steps
    <3>2. j \in Jobs /\ j.step = "find" /\ j.table = "none" /\ j.contract = c
      BY <3>1, NewJob
    <3> QED
      BY <1>2, <3>2 DEF ReceiveDetails
  <2> QED
    <3> HIDE DEF j
    <3> QED
      BY <2>1, <1>1 DEF Begins
<1>3. ASSUME NEW c \in Contracts, NEW k \in Contexts \cup {"none"}, NEW r \in ReqIds,
             ReceiveRequest(p, k, r, c)
      PROVE  Begins(p)
  <2>1. requests' \in Known
    BY <1>1, <1>3 DEF ReceiveRequest, Known
  <2> DEFINE j == Job("find", "none", c, 0)
  <2>2. /\ j \in Jobs /\ j.step = "find" /\ j.table = "none" /\ j.contract = c
        /\ Receive(p, j)
    <3>1. "find" \in Steps
      BY DEF Steps
    <3>2. j \in Jobs /\ j.step = "find" /\ j.table = "none" /\ j.contract = c
      BY <3>1, NewJob
    <3> QED
      BY <1>3, <3>2 DEF ReceiveRequest
  <2> QED
    <3> HIDE DEF j
    <3> QED
      BY <2>1, <2>2 DEF Begins
<1>4. ASSUME NEW r \in ReqIds, NEW time \in Times, ReceiveBar(p, r, time) PROVE Begins(p)
  <2>1. requests[p]["historical_prices"][r] \in Contracts \cup {NoContract}
    BY <1>1 DEF Contexts, Known
  <2> DEFINE c == requests[p]["historical_prices"][r]
  <2>2. CASE c = NoContract
    BY <2>2, <1>1, <1>4, IdleJob DEF Begins, ReceiveBar
  <2>3. CASE c # NoContract
    <3> DEFINE j == Job("find", "historical_prices", c, time)
    <3>1. "find" \in Steps /\ "historical_prices" \in Merged /\ Merged \subseteq Tables
      BY DEF Steps, Tables, Merged
    <3>2. j \in Jobs /\ j.step = "find" /\ j.table = "historical_prices" /\ j.contract = c
      BY <2>1, <3>1, NewJob
    <3>3. Receive(p, j) /\ requests' = requests
      BY <1>4, <2>3 DEF ReceiveBar
    <3> HIDE DEF j
    <3> QED
      BY <1>1, <2>1, <2>3, <3>1, <3>2, <3>3 DEF Begins
  <2> QED
    BY <2>2, <2>3
<1>5. ASSUME NEW r \in ReqIds, NEW table \in {"market_data_ticks", "option_greeks"},
             ReceiveTick(p, r, table)
      PROVE  Begins(p)
  <2>1. requests[p]["market_data_ticks"][r] \in Contracts \cup {NoContract}
    BY <1>1 DEF Contexts, Known
  <2> DEFINE c == requests[p]["market_data_ticks"][r]
             j == Job(IF c = NoContract THEN "row" ELSE "find", table, c, 0)
  <2>2. /\ j \in Jobs /\ j.table = table /\ j.contract = c /\ j.instrument = NoRow
        /\ j.step = IF c = NoContract THEN "row" ELSE "find"
    <3>1. (IF c = NoContract THEN "row" ELSE "find") \in Steps /\ table \in Tables \cup {"none"}
      BY DEF Steps, Tables, Merged
    <3>2. ASSUME NEW s \in Steps, NEW d \in Contracts \cup {NoContract}
          PROVE  LET new == Job(s, table, d, 0)
                 IN  /\ new \in Jobs /\ new.step = s /\ new.table = table /\ new.contract = d
                     /\ new.instrument = NoRow
      BY <3>1, NewJob
    <3> QED
      BY <2>1, <3>1, <3>2
  <2>3. Receive(p, j) /\ requests' \in Known
    BY <1>1, <1>5 DEF ReceiveTick, Known
  <2> QED
    <3> HIDE DEF j
    <3> QED
      BY <2>1, <2>2, <2>3, Zenon DEF Begins, Tables, Merged
<1>6. ASSUME NEW table \in Unattached, ReceiveRow(p, table) PROVE Begins(p)
  <2> DEFINE j == Job("row", table, NoContract, 0)
  <2>1. /\ j \in Jobs /\ j.step = "row" /\ j.table = table /\ j.instrument = NoRow
        /\ Receive(p, j) /\ requests' = requests
    BY <1>6, NewJob DEF ReceiveRow, Steps, Tables
  <2>2. table \in Tables \ {"historical_prices"}
    BY DEF Tables, Unattached
  <2> QED
    <3> HIDE DEF j
    <3> QED
      BY <2>1, <2>2, <1>1 DEF Begins
<1>7. CASE ReceiveOther(p)
  BY <1>1, <1>7, IdleJob DEF Begins, ReceiveOther
<1> QED
  BY <1>2, <1>3, <1>4, <1>5, <1>6, <1>7

\* Such a job keeps the invariant.
LEMMA EventBegins == ASSUME IInv, NEW p \in Processes, Begins(p) PROVE IInv'
  BY ReceiveKeeps DEF Begins, Known

\* Nothing happens between the look-ups, or between them and the upsert.
LEMMA FindProvisionalKeeps == ASSUME IInv, NEW p \in Processes, FindProvisional(p) PROVE IInv'
<1> DEFINE c == job[p].contract
           j == [job[p] EXCEPT !.step = "exact", !.provisional = RowOf(Plain(c))]
<1>1. c \in Contracts /\ job[p].table \in Merged \cup {"none"} /\ job[p] \in Jobs
  BY DEF IInv, TypeOK, FindInv, FindProvisional
<1>2. RowOf(Plain(c)) \in InstrumentIds \cup {NoRow}
  BY RowOfFinds
<1>3. /\ j \in Jobs /\ j.step = "exact" /\ j.contract = c /\ j.table = job[p].table
      /\ j.provisional = RowOf(Plain(c))
  BY <1>1, <1>2 DEF Jobs, Steps
<1>4. /\ job' = [job EXCEPT ![p] = j]
      /\ UNCHANGED <<instruments, rows, raw, writer, uncommitted, requests, failed, crashes>>
  BY <1>1 DEF FindProvisional, Plain, IInv, TypeOK
<1> HIDE DEF j
<1>5. job' \in [Processes -> Jobs] /\ \A q \in Processes : job'[q] = j
  BY <1>3, <1>4, JobBecomes
<1>6. TypeOK' /\ UniqueInv' /\ RowsInv' /\ CommittedInv'
  BY <1>4, <1>5 DEF IInv, TypeOK, UniqueInv, RowsInv, CommittedInv
<1>7. FindInv' /\ RowInv'
  BY <1>1, <1>3, <1>5 DEF FindInv, RowInv
<1>8. UpsertInv'
  BY <1>3, <1>4, <1>5, RowOfFinds DEF UpsertInv
<1> QED
  BY <1>6, <1>7, <1>8 DEF IInv, OneProcess

LEMMA FindExactKeeps == ASSUME IInv, NEW p \in Processes, FindExact(p) PROVE IInv'
<1> DEFINE c == job[p].contract
           j == [job[p] EXCEPT !.step = "upsert", !.exact = RowOf(c)]
<1>1. c \in Contracts /\ job[p].table \in Merged \cup {"none"} /\ job[p] \in Jobs
  BY DEF IInv, TypeOK, FindInv, FindExact
<1>2. RowOf(c) \in InstrumentIds \cup {NoRow}
  BY RowOfFinds
<1>3. /\ j \in Jobs /\ j.step = "upsert" /\ j.contract = c /\ j.table = job[p].table
      /\ j.provisional = job[p].provisional /\ j.exact = RowOf(c)
  BY <1>1, <1>2 DEF Jobs, Steps
<1>4. /\ job' = [job EXCEPT ![p] = j] /\ job[p].step = "exact"
      /\ UNCHANGED <<instruments, rows, raw, writer, uncommitted, requests, failed, crashes>>
  BY <1>1 DEF FindExact, IInv, TypeOK
<1> HIDE DEF j
<1>5. job' \in [Processes -> Jobs] /\ \A q \in Processes : job'[q] = j
  BY <1>3, <1>4, JobBecomes
<1>6. TypeOK' /\ UniqueInv' /\ RowsInv' /\ CommittedInv'
  BY <1>4, <1>5 DEF IInv, TypeOK, UniqueInv, RowsInv, CommittedInv
<1>7. FindInv' /\ RowInv'
  BY <1>1, <1>3, <1>5 DEF FindInv, RowInv
<1>8. IF j.provisional = NoRow THEN \A i \in InstrumentIds : instruments[i] # Plain(j.contract)
      ELSE instruments[j.provisional] = Plain(j.contract)
  BY <1>3, <1>4 DEF IInv, UpsertInv
<1>9. UpsertInv'
  BY <1>3, <1>4, <1>5, <1>8, RowOfFinds DEF UpsertInv
<1> QED
  BY <1>6, <1>7, <1>9 DEF IInv, OneProcess

\* A step of the upsert or of a row ends with a job that is over or a row.
LEMMA JobEnds ==
  ASSUME IInv, NEW p \in Processes, job' = [job EXCEPT ![p] = Idle]
  PROVE  /\ job' \in [Processes -> Jobs]
         /\ FindInv' /\ UpsertInv' /\ RowInv'
<1>1. job' \in [Processes -> Jobs] /\ \A q \in Processes : job'[q] = Idle
  BY IdleJob, JobBecomes
<1> QED
  BY <1>1, IdleJob DEF FindInv, UpsertInv, RowInv

\* An upsert that settles on a row hands it to the row of the bar or tick.
LEMMA JobResolved ==
  ASSUME IInv, NEW p \in Processes, job[p].step = "upsert",
         NEW i \in InstrumentIds, job' = [job EXCEPT ![p] = Resolved(p, i)],
         instruments'[i] = job[p].contract
  PROVE  /\ job' \in [Processes -> Jobs]
         /\ FindInv' /\ UpsertInv' /\ RowInv'
<1>1. job[p] \in Jobs /\ job[p].contract \in Contracts /\ job[p].table \in Merged \cup {"none"}
  BY DEF IInv, TypeOK, FindInv
<1>2. CASE job[p].table = "none"
  BY <1>2, JobEnds DEF Resolved
<1>3. CASE job[p].table # "none"
  <2> DEFINE j == [job[p] EXCEPT !.step = "row", !.instrument = i]
  <2>1. /\ j \in Jobs /\ j.step = "row" /\ j.instrument = i
        /\ j.table = job[p].table /\ j.contract = job[p].contract
    BY <1>1 DEF Jobs, Steps
  <2>2. job' = [job EXCEPT ![p] = j]
    BY <1>3 DEF Resolved
  <2> HIDE DEF j
  <2>3. job' \in [Processes -> Jobs] /\ \A q \in Processes : job'[q] = j
    BY <2>1, <2>2, JobBecomes
  <2>4. i # NoRow /\ j.table \in Merged
    BY <1>1, <1>3, <2>1, ConstantAssumption DEF InstrumentIds, NoRow
  <2> QED
    BY <1>1, <2>1, <2>3, <2>4 DEF FindInv, UpsertInv, RowInv, Tables
<1> QED
  BY <1>2, <1>3

\* The row of the contract that is looked up, and the one its name is kept in.
LEMMA AbsorbFacts ==
  ASSUME IInv, NEW p \in Processes, job[p].step = "upsert", job[p].provisional # NoRow
  PROVE  LET c == job[p].contract
             to == job[p].provisional
             from == job[p].exact
         IN  /\ c \in Contracts /\ to \in InstrumentIds
             /\ instruments[to] = Plain(c)
             /\ from # NoRow => from \in InstrumentIds /\ instruments[from] = c
             /\ from = NoRow => \A i \in InstrumentIds : instruments[i] # c
             /\ Duplicate(p) <=> from # NoRow /\ c.detail # Bare
             /\ Named(p) = [i \in InstrumentIds |->
                                IF Duplicate(p) /\ i = from THEN NoContract
                                ELSE IF i = to THEN c ELSE instruments[i]]
<1> DEFINE c == job[p].contract
          to == job[p].provisional
          from == job[p].exact
<1>1. c \in Contracts /\ to \in InstrumentIds /\ from \in InstrumentIds \cup {NoRow}
  BY DEF IInv, TypeOK, FindInv, Jobs
<1>2. /\ instruments[to] = Plain(c)
      /\ from # NoRow => instruments[from] = c
      /\ from = NoRow => \A i \in InstrumentIds : instruments[i] # c
  BY DEF IInv, UpsertInv
<1>3. Plain(c) \in Contracts /\ c # NoContract /\ Plain(c) # NoContract
  BY <1>1, PlainContract, NoContractAssumption
<1>4. Duplicate(p) <=> from # NoRow /\ c.detail # Bare
  <2>1. ASSUME from # NoRow, c.detail = Bare PROVE from = to
    BY <1>1, <1>2, <1>3, <2>1, PlainContract DEF IInv, UniqueInv
  <2>2. ASSUME from # NoRow, c.detail # Bare PROVE from # to
    BY <1>1, <1>2, <2>2, PlainContract
  <2> QED
    BY <2>1, <2>2 DEF Duplicate
<1>5. [instruments[to] EXCEPT !.detail = IF c.detail = Bare THEN @ ELSE c.detail] = c
  BY <1>1, <1>2 DEF Plain, Contracts
<1>6. Named(p) = [i \in InstrumentIds |->
                     IF Duplicate(p) /\ i = from THEN NoContract
                     ELSE IF i = to THEN c ELSE instruments[i]]
  BY <1>2, <1>3, <1>5 DEF Named
<1> QED
  BY <1>1, <1>2, <1>4, <1>6

\* A merge refiles the rows of one instrument and loses none.
LEMMA MoveRowsMoves ==
  ASSUME TypeOK, NEW from \in InstrumentIds, NEW to \in InstrumentIds
  PROVE  /\ MoveRows(from, to) \in [Tables -> SUBSET [instrument : InstrumentIds \cup {NoRow},
                                                     time : Times \cup {0},
                                                     base : Bases \cup {NoContract}]]
         /\ \A t \in Tables : \A s \in MoveRows(from, to)[t] :
               \E r \in rows[t] :
                   /\ s.base = r.base /\ s.time = r.time
                   /\ s.instrument = IF t \in Merged /\ r.instrument = from
                                     THEN to ELSE r.instrument
         /\ \A r \in rows["historical_prices"] :
               \E s \in MoveRows(from, to)["historical_prices"] :
                   s.base = r.base /\ s.time = r.time
<1> DEFINE Row == [instrument : InstrumentIds \cup {NoRow}, time : Times \cup {0},
                   base : Bases \cup {NoContract}]
           moved(r) == IF r.instrument = from THEN [r EXCEPT !.instrument = to] ELSE r
<1>1. \A t \in Tables : rows[t] \subseteq Row
  BY DEF TypeOK
<1>2. ASSUME NEW r \in Row
      PROVE  /\ moved(r) \in Row
             /\ moved(r).base = r.base /\ moved(r).time = r.time
             /\ moved(r).instrument = IF r.instrument = from THEN to ELSE r.instrument
  OBVIOUS
<1>3. MoveRows(from, to) =
        [t \in Tables |-> IF t \in Merged THEN {moved(r) : r \in rows[t]} ELSE rows[t]]
  BY DEF MoveRows
<1>4. "historical_prices" \in Tables /\ "historical_prices" \in Merged
  BY DEF Tables, Merged
<1> HIDE DEF moved, Row
<1>5. ASSUME NEW t \in Tables PROVE MoveRows(from, to)[t] \subseteq Row
  BY <1>1, <1>2, <1>3
<1>6. ASSUME NEW t \in Tables, NEW s \in MoveRows(from, to)[t]
      PROVE  \E r \in rows[t] :
                 /\ s.base = r.base /\ s.time = r.time
                 /\ s.instrument = IF t \in Merged /\ r.instrument = from
                                   THEN to ELSE r.instrument
  BY <1>1, <1>2, <1>3
<1>7. ASSUME NEW r \in rows["historical_prices"]
      PROVE  \E s \in MoveRows(from, to)["historical_prices"] :
                 s.base = r.base /\ s.time = r.time
  BY <1>1, <1>2, <1>3, <1>4
<1> QED
  BY <1>3, <1>5, <1>6, <1>7 DEF Row

\* The provisional row takes the name and the rows of its duplicate.
LEMMA AbsorbKeeps == ASSUME IInv, NEW p \in Processes, Absorb(p) PROVE IInv'
<1> DEFINE c == job[p].contract
          to == job[p].provisional
          from == job[p].exact
<1>1. /\ c \in Contracts /\ to \in InstrumentIds
      /\ instruments[to] = Plain(c)
      /\ from # NoRow => from \in InstrumentIds /\ instruments[from] = c
      /\ from = NoRow => \A i \in InstrumentIds : instruments[i] # c
      /\ Duplicate(p) <=> from # NoRow /\ c.detail # Bare
      /\ instruments' = [i \in InstrumentIds |->
                            IF Duplicate(p) /\ i = from THEN NoContract
                            ELSE IF i = to THEN c ELSE instruments[i]]
  BY AbsorbFacts DEF Absorb
<1>2. Plain(c) \in Contracts /\ Plain(c).base = c.base /\ (Plain(c) = c <=> c.detail = Bare)
  BY <1>1, PlainContract
<1>3. c # NoContract /\ Plain(c) # NoContract
  BY <1>1, <1>2, NoContractAssumption
<1>4. Duplicate(p) => from # to
  BY DEF Duplicate
<1> DEFINE TypedRows == [Tables -> SUBSET [instrument : InstrumentIds \cup {NoRow},
                                           time : Times \cup {0},
                                           base : Bases \cup {NoContract}]]
<1>5. /\ rows' \in TypedRows
      /\ \A t \in Tables : \A s \in rows'[t] :
            \E r \in rows[t] :
                /\ s.base = r.base
                /\ s.instrument = IF Duplicate(p) /\ t \in Merged /\ r.instrument = from
                                  THEN to ELSE r.instrument
  <2>1. CASE Duplicate(p)
    <3>1. from \in InstrumentIds /\ TypeOK
      BY <2>1, <1>1 DEF IInv
    <3>2. rows' = MoveRows(from, to)
      BY <2>1 DEF Absorb
    <3>3. MoveRows(from, to) \in TypedRows
      BY <3>1, <1>1, MoveRowsMoves
    <3>4. ASSUME NEW t \in Tables, NEW s \in MoveRows(from, to)[t]
          PROVE  \E r \in rows[t] :
                    /\ s.base = r.base /\ s.time = r.time
                    /\ s.instrument = IF t \in Merged /\ r.instrument = from
                                      THEN to ELSE r.instrument
      BY <3>1, <1>1, MoveRowsMoves, SMTT(30)
    <3> QED
      BY <2>1, <3>2, <3>3, <3>4
  <2>2. CASE ~Duplicate(p)
    BY <2>2 DEF Absorb, IInv, TypeOK
  <2> QED
    BY <2>1, <2>2
<1>6. /\ job' \in [Processes -> Jobs]
      /\ FindInv' /\ UpsertInv' /\ RowInv'
  BY <1>1, <1>4, JobResolved DEF Absorb
<1>7. TypeOK' /\ CommittedInv'
  <2>1. instruments' \in [InstrumentIds -> Contracts \cup {NoContract}]
    BY <1>1 DEF IInv, TypeOK
  <2>2. writer' \in Processes \cup {NoProcess}
    BY DEF Absorb, Commit
  <2> QED
    BY <1>5, <1>6, <2>1, <2>2 DEF Absorb, IInv, TypeOK, CommittedInv
<1>8. UniqueInv'
  <2> SUFFICES ASSUME NEW i \in InstrumentIds, NEW k \in InstrumentIds,
                      instruments'[i] # NoContract, instruments'[i] = instruments'[k]
               PROVE  i = k
    BY DEF UniqueInv
  <2>1. \A j, l \in InstrumentIds :
            instruments[j] # NoContract /\ instruments[j] = instruments[l] => j = l
    BY DEF IInv, UniqueInv
  <2>2. \A j \in InstrumentIds :
            j # to /\ instruments'[j] # NoContract => instruments'[j] = instruments[j]
    BY <1>1
  <2>3. ASSUME NEW j \in InstrumentIds, j # to, instruments'[j] # NoContract
        PROVE  instruments'[j] # c
    <3>1. SUFFICES ASSUME instruments[j] = c PROVE FALSE
      BY <2>2, <2>3
    <3>2. from # NoRow /\ j = from
      BY <1>1, <1>3, <2>1, <3>1
    <3>3. c.detail = Bare
      BY <1>1, <3>2, <2>3
    <3> QED
      BY <1>1, <1>2, <1>3, <2>1, <2>3, <3>1, <3>3
  <2>4. instruments'[to] = c
    BY <1>1, <1>4
  <2> QED
    BY <2>1, <2>2, <2>3, <2>4
<1>9. RowsInv'
  <2> SUFFICES ASSUME NEW t \in Tables, NEW s \in rows'[t], s.instrument # NoRow
               PROVE  /\ t \in Merged
                      /\ instruments'[s.instrument] \in Contracts
                      /\ instruments'[s.instrument].base = s.base
    BY DEF RowsInv
  <2>1. PICK r \in rows[t] :
            /\ s.base = r.base
            /\ s.instrument = IF Duplicate(p) /\ t \in Merged /\ r.instrument = from
                              THEN to ELSE r.instrument
    BY <1>5
  <2>2. r.instrument # NoRow => /\ t \in Merged
                               /\ instruments[r.instrument] \in Contracts
                               /\ instruments[r.instrument].base = r.base
    BY DEF IInv, RowsInv
  <2>3. r.instrument \in InstrumentIds \cup {NoRow}
    BY DEF IInv, TypeOK
  <2>4. instruments'[to] = c
    BY <1>1, <1>4
  <2>5. CASE Duplicate(p) /\ t \in Merged /\ r.instrument = from
    BY <2>1, <2>2, <2>4, <2>5, <1>1
  <2>6. CASE ~(Duplicate(p) /\ t \in Merged /\ r.instrument = from)
    <3>1. /\ r.instrument # NoRow /\ s.instrument = r.instrument
          /\ ~(Duplicate(p) /\ r.instrument = from)
      BY <2>1, <2>2, <2>6
    <3>2. CASE r.instrument = to
      BY <3>1, <3>2, <2>1, <2>2, <2>4, <1>1, <1>2
    <3>3. CASE r.instrument # to
      BY <3>1, <3>3, <2>1, <2>2, <2>3, <1>1
    <3> QED
      BY <3>2, <3>3
  <2> QED
    BY <2>5, <2>6
<1> QED
  BY <1>6, <1>7, <1>8, <1>9 DEF IInv, OneProcess

\* Where no two rows have the same contract, the duplicate that is merged was
\* the only row of the name: nothing is merged by an event that then fails.
LEMMA MergeSucceeds ==
  ASSUME NEW p, NEW c \in Contracts, c = job[p].contract,
         job[p].provisional \in InstrumentIds, instruments[job[p].provisional] = Plain(c),
         job[p].exact \in InstrumentIds, instruments[job[p].exact] = c,
         \A i, k \in InstrumentIds :
             instruments[i] \in Contracts /\ instruments[i] = instruments[k] => i = k,
         Duplicate(p)
  PROVE  ~NameTaken(p)
<1> DEFINE to == job[p].provisional
           from == job[p].exact
<1>1. from # to /\ c # NoContract /\ Plain(c) # NoContract
  BY PlainContract, NoContractAssumption DEF Duplicate
<1>2. [instruments[to] EXCEPT !.detail = IF c.detail = Bare THEN @ ELSE c.detail] = c
  BY DEF Plain, Contracts
<1>3. Named(p)[to] = c
  BY <1>1, <1>2 DEF Named
<1>4. ASSUME NEW i \in InstrumentIds \ {to}, Named(p)[i] # NoContract PROVE Named(p)[i] # c
  BY <1>1, <1>4 DEF Named
<1> QED
  BY <1>3, <1>4 DEF NameTaken

\* A failed merge changes neither table.
LEMMA AbsorbFailsKeeps == ASSUME IInv, NEW p \in Processes, AbsorbFails(p) PROVE IInv'
<1>1. job' = [job EXCEPT ![p] = Idle] /\ UNCHANGED <<instruments, rows>>
  BY DEF AbsorbFails
<1>2. job' \in [Processes -> Jobs] /\ FindInv' /\ UpsertInv' /\ RowInv'
  BY <1>1, JobEnds
<1>3. CommittedInv'
  <2>1. CASE Duplicate(p)
    <3>1. /\ job[p].contract \in Contracts
          /\ job[p].provisional \in InstrumentIds /\ job[p].exact \in InstrumentIds
          /\ instruments[job[p].provisional] = Plain(job[p].contract)
          /\ instruments[job[p].exact] = job[p].contract
      BY <2>1, AbsorbFacts DEF AbsorbFails
    <3>2. \A i, k \in InstrumentIds :
             instruments[i] \in Contracts /\ instruments[i] = instruments[k] => i = k
      BY NoContractAssumption DEF IInv, UniqueInv
    <3>3. ~NameTaken(p)
      BY <2>1, <3>1, <3>2, MergeSucceeds
    <3> QED
      BY <2>1, <3>3 DEF AbsorbFails, CommittedInv
  <2>2. CASE ~Duplicate(p)
    BY <2>2 DEF AbsorbFails, CommittedInv
  <2> QED
    BY <2>1, <2>2
<1>4. TypeOK' /\ UniqueInv' /\ RowsInv'
  BY <1>1, <1>2, <1>3 DEF AbsorbFails, IInv, TypeOK, UniqueInv, RowsInv, CommittedInv, NoMerge
<1> QED
  BY <1>2, <1>3, <1>4 DEF IInv, OneProcess

\* The row a contract is inserted in is its own, or new.
LEMMA InsertFacts ==
  ASSUME IInv, NEW p \in Processes, Insert(p)
  PROVE  LET c == job[p].contract
             i == IF RowOf(c) # NoRow THEN RowOf(c) ELSE NewId
         IN  /\ c \in Contracts /\ i \in InstrumentIds
             /\ instruments' = [instruments EXCEPT ![i] = c]
             /\ instruments[i] \in {c, NoContract}
             /\ \A k \in InstrumentIds : instruments[k] = c => k = i
             /\ job' = [job EXCEPT ![p] = Resolved(p, i)]
<1> DEFINE c == job[p].contract
          i == IF RowOf(c) # NoRow THEN RowOf(c) ELSE NewId
<1>1. /\ c \in Contracts
      /\ i \in InstrumentIds
      /\ instruments' = [instruments EXCEPT ![i] = c]
      /\ job' = [job EXCEPT ![p] = Resolved(p, i)]
  BY DEF Insert, IInv, FindInv
<1>2. c # NoContract
  BY <1>1, NoContractAssumption
<1>3. CASE RowOf(c) # NoRow
  BY <1>1, <1>2, <1>3, RowOfFinds DEF IInv, UniqueInv
<1>4. CASE RowOf(c) = NoRow
  BY <1>1, <1>4, RowOfFinds, NewIdIsNew DEF IInv
<1> QED
  BY <1>1, <1>3, <1>4

\* A contract without a row gets one; its rows do not change.
LEMMA InsertKeeps == ASSUME IInv, NEW p \in Processes, Insert(p) PROVE IInv'
<1> DEFINE c == job[p].contract
          i == IF RowOf(c) # NoRow THEN RowOf(c) ELSE NewId
<1>1. /\ c \in Contracts /\ i \in InstrumentIds
      /\ instruments' = [instruments EXCEPT ![i] = c]
      /\ instruments[i] \in {c, NoContract}
      /\ \A k \in InstrumentIds : instruments[k] = c => k = i
      /\ job' = [job EXCEPT ![p] = Resolved(p, i)]
  BY InsertFacts
<1> HIDE DEF i
<1>2. instruments \in [InstrumentIds -> Contracts \cup {NoContract}]
  BY DEF IInv, TypeOK
<1>3. job' \in [Processes -> Jobs] /\ FindInv' /\ UpsertInv' /\ RowInv'
  BY <1>1, <1>2, JobResolved DEF Insert
<1>4. TypeOK' /\ CommittedInv'
  BY <1>1, <1>2, <1>3 DEF Insert, Commit, IInv, TypeOK, CommittedInv
<1>5. UniqueInv'
  BY <1>1, <1>2 DEF IInv, UniqueInv
<1>6. RowsInv'
  <2>1. rows' = rows
    BY DEF Insert
  <2>2. c # NoContract /\ NoContract \notin Contracts
    BY <1>1, NoContractAssumption
  <2>3. \A t \in Tables : \A r \in rows[t] : r.instrument \in InstrumentIds \cup {NoRow}
    BY DEF IInv, TypeOK
  <2> QED
    BY <1>1, <1>2, <2>1, <2>2, <2>3 DEF IInv, RowsInv
<1> QED
  BY <1>3, <1>4, <1>5, <1>6 DEF IInv, OneProcess

\* The row is of the job's instrument, time and contract.
LEMMA RowForRow ==
  ASSUME IInv, NEW p \in Processes, job[p].step = "row"
  PROVE  /\ RowFor(p) \in [instrument : InstrumentIds \cup {NoRow}, time : Times \cup {0},
                           base : Bases \cup {NoContract}]
         /\ RowFor(p).instrument = job[p].instrument /\ RowFor(p).time = job[p].time
         /\ job[p].contract \in Contracts => RowFor(p).base = job[p].contract.base
  BY NoContractAssumption DEF RowFor, IInv, TypeOK, Jobs, Contracts

\* The row of a bar or tick is filed under the instrument of its contract.
LEMMA InsertRowKeeps == ASSUME IInv, NEW p \in Processes, InsertRow(p) PROVE IInv'
<1>1. job' = [job EXCEPT ![p] = Idle] /\ instruments' = instruments /\ job[p].step = "row"
  BY DEF InsertRow
<1>2. job' \in [Processes -> Jobs] /\ FindInv' /\ UpsertInv' /\ RowInv'
  BY <1>1, JobEnds
<1>3. job[p].table \in Tables
  BY <1>1 DEF IInv, RowInv
<1>4. \A t \in Tables : rows'[t] \subseteq
          IF t = job[p].table THEN rows[t] \cup {RowFor(p)} ELSE rows[t]
  BY <1>3 DEF InsertRow, IInv, TypeOK
<1>5. rows' \in [Tables -> SUBSET [instrument : InstrumentIds \cup {NoRow}, time : Times \cup {0},
                                  base : Bases \cup {NoContract}]]
  <2>1. rows' = [t \in Tables |-> rows'[t]]
    BY DEF InsertRow, IInv, TypeOK
  <2>2. \A t \in Tables : rows[t] \subseteq [instrument : InstrumentIds \cup {NoRow},
                                            time : Times \cup {0}, base : Bases \cup {NoContract}]
    BY DEF IInv, TypeOK
  <2> QED
    BY <1>1, <1>4, <2>1, <2>2, RowForRow
<1>6. TypeOK' /\ CommittedInv'
  BY <1>1, <1>2, <1>5 DEF InsertRow, Commit, IInv, TypeOK, CommittedInv
<1>7. UniqueInv'
  BY <1>1 DEF IInv, UniqueInv
<1>8. RowsInv'
  BY <1>1, <1>4, RowForRow DEF IInv, RowsInv, RowInv
<1> QED
  BY <1>2, <1>6, <1>7, <1>8 DEF IInv, OneProcess

\* A crash loses the job and the contexts and no row.
LEMMA RestartKeeps == ASSUME IInv, NEW p \in Processes, Restart(p) PROVE IInv'
<1>1. job' = [job EXCEPT ![p] = Idle] /\ UNCHANGED <<instruments, rows>>
  BY DEF Restart
<1>2. job' \in [Processes -> Jobs] /\ FindInv' /\ UpsertInv' /\ RowInv'
  BY <1>1, JobEnds
<1>3. /\ requests' \in [Processes -> [Contexts -> [ReqIds -> Contracts \cup {NoContract}]]]
      /\ crashes' \in 0 .. MaxCrashes /\ writer' \in Processes \cup {NoProcess}
  BY ConstantAssumption DEF Restart, NoRequests, IInv, TypeOK
<1>4. TypeOK' /\ UniqueInv' /\ RowsInv' /\ CommittedInv'
  BY <1>1, <1>2, <1>3 DEF Restart, IInv, TypeOK, UniqueInv, RowsInv, CommittedInv
<1> QED
  BY <1>2, <1>4 DEF IInv, OneProcess

----------------------------------------------------------------------------
(* The theorems.                                                           *)

LEMMA InitHolds == OneProcess /\ Init => IInv
<1> SUFFICES ASSUME OneProcess, Init PROVE IInv
  OBVIOUS
<1>1. instruments \in [InstrumentIds -> Contracts \cup {NoContract}]
  BY DEF Init
<1>2. rows \in [Tables -> SUBSET [instrument : InstrumentIds \cup {NoRow},
                                  time : Times \cup {0}, base : Bases \cup {NoContract}]]
  BY DEF Init
<1>3. requests \in [Processes -> [Contexts -> [ReqIds -> Contracts \cup {NoContract}]]]
  BY DEF Init, NoRequests
<1>4. job \in [Processes -> Jobs]
  <2>1. job = [p \in Processes |-> Idle]
    BY DEF Init
  <2> QED
    BY <2>1, IdleJob
<1>5. TypeOK
  <2>1. MaxEvents \in Nat /\ MaxCrashes \in Nat
    BY ConstantAssumption
  <2>2. raw \in 0 .. MaxEvents /\ crashes \in 0 .. MaxCrashes
    BY <2>1 DEF Init
  <2>3. writer \in Processes \cup {NoProcess} /\ failed \in BOOLEAN
    BY DEF Init
  <2>4. uncommitted \in [from : InstrumentIds \cup {NoRow}, to : InstrumentIds \cup {NoRow}]
    BY DEF Init, NoMerge
  <2> QED
    BY <1>1, <1>2, <1>3, <1>4, <2>2, <2>3, <2>4 DEF TypeOK
<1>6. UniqueInv /\ RowsInv /\ CommittedInv
  BY DEF Init, UniqueInv, RowsInv, CommittedInv
<1>7. FindInv /\ UpsertInv /\ RowInv
  BY IdleJob DEF Init, FindInv, UpsertInv, RowInv
<1> QED
  BY <1>5, <1>6, <1>7 DEF IInv

\* Every step of the process keeps the invariant.
LEMMA NextKeeps == ASSUME IInv, [Next]_vars PROVE IInv'
<1>1. CASE UNCHANGED vars
  BY <1>1 DEF vars, IInv, OneProcess, TypeOK, UniqueInv, RowsInv, FindInv, UpsertInv, RowInv,
     CommittedInv
<1>2. CASE Next
  <2>1. requests \in Known
    BY DEF IInv, TypeOK, Known
  <2> QED
    BY <1>2, <2>1, EventIs, EventBegins, FindProvisionalKeeps, FindExactKeeps, AbsorbKeeps,
       AbsorbFailsKeeps, InsertKeeps, InsertRowKeeps, RestartKeeps
    DEF Next
<1> QED
  BY <1>1, <1>2

\* The inductive invariant of the store of one process: its rows, its look-ups
\* and its job agree in every reachable state.
THEOREM Invariance == OneProcess /\ Spec => []IInv
<1>1. OneProcess /\ Init => IInv
  BY InitHolds
<1>2. IInv /\ [Next]_vars => IInv'
  BY NextKeeps
<1> QED
  BY <1>1, <1>2, PTL DEF Spec

\* persistence.py:145, 483: a row of a bar, tick or greeks is filed under an
\* instrument that exists, of the contract that was asked for.
THEOREM RowsKeepTheirContractHolds == OneProcess /\ Spec => []RowsKeepTheirContract
<1>1. IInv => RowsKeepTheirContract
  <2> SUFFICES ASSUME IInv, NEW t \in Tables, NEW r \in rows[t], r.instrument # NoRow
               PROVE  /\ instruments[r.instrument] # NoContract
                      /\ instruments[r.instrument].base = r.base
    BY DEF RowsKeepTheirContract, ReferencesHold
  <2> QED
    BY NoContractAssumption DEF IInv, RowsInv
<1> QED
  BY <1>1, Invariance, PTL

\* Only the upsert changes instruments, and only it and the insert of a row
\* change the tables.
LEMMA WhoWrites ==
  ASSUME IInv, [Next]_vars
  PROVE  \/ \E p \in Processes : Absorb(p) \/ Insert(p) \/ InsertRow(p)
         \/ UNCHANGED <<instruments, rows>>
<1>1. CASE UNCHANGED vars
  BY <1>1 DEF vars
<1>2. CASE Next
  <2>1. requests \in Known
    BY DEF IInv, TypeOK, Known
  <2>2. PICK p \in Processes :
           \/ Begins(p) \/ FindProvisional(p) \/ FindExact(p) \/ AbsorbFails(p) \/ Restart(p)
           \/ Absorb(p) \/ Insert(p) \/ InsertRow(p)
    BY <1>2, <2>1, EventIs DEF Next
  <2>3. CASE Begins(p)
    BY <2>3 DEF Begins, Receive, CommitMerge, IInv, CommittedInv
  <2>4. CASE FindProvisional(p) \/ FindExact(p) \/ AbsorbFails(p) \/ Restart(p)
    BY <2>4 DEF FindProvisional, FindExact, AbsorbFails, Restart
  <2> QED
    BY <2>2, <2>3, <2>4
<1> QED
  BY <1>1, <1>2

\* persistence.py:483, 505: no merge and no later bar takes the last bar of a
\* contract and time away.
THEOREM BarsSurviveHolds == OneProcess /\ Spec => BarsSurvive
<1> DEFINE Survives == \A r \in rows["historical_prices"] :
                          \E s \in rows'["historical_prices"] : s.base = r.base /\ s.time = r.time
<1>1. IInv /\ [Next]_vars => Survives
  <2> SUFFICES ASSUME IInv, [Next]_vars PROVE Survives
    OBVIOUS
  <2>1. ASSUME NEW p \in Processes, Absorb(p) PROVE Survives
    <3>1. CASE Duplicate(p)
      <4>1. job[p].exact \in InstrumentIds /\ job[p].provisional \in InstrumentIds /\ TypeOK
        BY <2>1, <3>1, AbsorbFacts DEF Absorb, IInv
      <4>2. rows' = MoveRows(job[p].exact, job[p].provisional)
        BY <2>1, <3>1 DEF Absorb
      <4> QED
        BY <4>1, <4>2, MoveRowsMoves
    <3>2. CASE ~Duplicate(p)
      BY <2>1, <3>2 DEF Absorb
    <3> QED
      BY <3>1, <3>2
  <2>2. ASSUME NEW p \in Processes, Insert(p) PROVE Survives
    BY <2>2 DEF Insert
  <2>3. ASSUME NEW p \in Processes, InsertRow(p) PROVE Survives
    <3> SUFFICES ASSUME NEW r \in rows["historical_prices"]
                 PROVE  \E s \in rows'["historical_prices"] : s.base = r.base /\ s.time = r.time
      OBVIOUS
    <3>1. "historical_prices" \in Tables /\ rows \in [Tables -> SUBSET [
              instrument : InstrumentIds \cup {NoRow}, time : Times \cup {0},
              base : Bases \cup {NoContract}]]
      BY DEF Tables, Merged, IInv, TypeOK
    <3>2. CASE job[p].table = "historical_prices" /\ r.instrument = job[p].instrument
               /\ r.time = job[p].time
      <4>1. RowFor(p) \in rows'["historical_prices"]
        BY <2>3, <3>1, <3>2 DEF InsertRow
      <4>2. RowFor(p).time = r.time /\ RowFor(p).base = r.base
        BY <2>3, <3>1, <3>2, RowForRow DEF InsertRow, IInv, RowInv, RowsInv
      <4> QED
        BY <4>1, <4>2
    <3>3. CASE ~(/\ job[p].table = "historical_prices" /\ r.instrument = job[p].instrument
                 /\ r.time = job[p].time)
      BY <2>3, <3>1, <3>3 DEF InsertRow
    <3> QED
      BY <3>2, <3>3
  <2>4. CASE UNCHANGED <<instruments, rows>>
    BY <2>4
  <2> QED
    BY <2>1, <2>2, <2>3, <2>4, WhoWrites
<1>2. IInv /\ [Next]_vars => [Survives]_vars
  BY <1>1
<1> QED
  BY <1>2, Invariance, PTL DEF Spec, BarsSurvive

\* persistence.py:425: a named contract keeps a row of that name.
THEOREM NamesSurviveHolds == OneProcess /\ Spec => NamesSurvive
<1> DEFINE Survives ==
      \A i \in InstrumentIds : instruments[i] # NoContract /\ instruments[i].detail # Bare =>
          \E k \in InstrumentIds : instruments'[k] = instruments[i]
<1>1. IInv /\ [Next]_vars => Survives
  <2> SUFFICES ASSUME IInv, [Next]_vars PROVE Survives
    OBVIOUS
  <2>1. ASSUME NEW p \in Processes, Absorb(p) PROVE Survives
    <3> SUFFICES ASSUME NEW i \in InstrumentIds,
                        instruments[i] # NoContract, instruments[i].detail # Bare
                 PROVE  \E k \in InstrumentIds : instruments'[k] = instruments[i]
      OBVIOUS
    <3> DEFINE c == job[p].contract
              to == job[p].provisional
              from == job[p].exact
    <3>1. /\ c \in Contracts /\ to \in InstrumentIds /\ instruments[to] = Plain(c)
          /\ from # NoRow => from \in InstrumentIds /\ instruments[from] = c
          /\ instruments' = [k \in InstrumentIds |->
                                IF Duplicate(p) /\ k = from THEN NoContract
                                ELSE IF k = to THEN c ELSE instruments[k]]
          /\ Duplicate(p) => from # NoRow /\ from # to
      BY <2>1, AbsorbFacts DEF Absorb, Duplicate
    <3>2. i # to
      BY <3>1, PlainContract
    <3>3. CASE Duplicate(p) /\ i = from
      BY <3>1, <3>3
    <3>4. CASE ~(Duplicate(p) /\ i = from)
      BY <3>1, <3>2, <3>4
    <3> QED
      BY <3>3, <3>4
  <2>2. ASSUME NEW p \in Processes, Insert(p) PROVE Survives
    <3>1. instruments \in [InstrumentIds -> Contracts \cup {NoContract}]
      BY DEF IInv, TypeOK
    <3>2. PICK i \in InstrumentIds :
              /\ instruments' = [instruments EXCEPT ![i] = job[p].contract]
              /\ instruments[i] \in {job[p].contract, NoContract}
      BY <2>2, InsertFacts
    <3> QED
      BY <3>1, <3>2
  <2>3. ASSUME NEW p \in Processes, InsertRow(p) PROVE Survives
    BY <2>3 DEF InsertRow
  <2>4. CASE UNCHANGED <<instruments, rows>>
    BY <2>4
  <2> QED
    BY <2>1, <2>2, <2>3, <2>4, WhoWrites
<1>2. IInv /\ [Next]_vars => [Survives]_vars
  BY <1>1
<1> QED
  BY <1>2, Invariance, PTL DEF Spec, NamesSurvive

\* A set with one member has size one.
LEMMA OneRow ==
  ASSUME NEW c, NEW i \in InstrumentIds, instruments'[i] = c,
         \A k \in InstrumentIds : instruments'[k] = c => k = i
  PROVE  Cardinality({k \in InstrumentIds : instruments'[k] = c}) = 1
<1>1. {k \in InstrumentIds : instruments'[k] = c} = {i}
  OBVIOUS
<1> QED
  BY <1>1, FS_Singleton

\* persistence.py:293: once details are applied, exactly one row has the name
\* and no provisional row of the contract is left.
THEOREM DetailsUnifyHolds == OneProcess /\ Spec => DetailsUnify
<1> DEFINE Unified(c) ==
             /\ Cardinality({i \in InstrumentIds : instruments'[i] = c}) = 1
             /\ \A i \in InstrumentIds : instruments'[i] # [c EXCEPT !.detail = Bare]
           Unify == \A p \in Processes :
             LET c == job[p].contract
             IN  job[p].step = "upsert" /\ c.detail # Bare /\ instruments' # instruments
                     /\ job'[p] # job[p] => Unified(c)
<1>1. IInv /\ [Next]_vars => Unify
  <2> SUFFICES ASSUME IInv, [Next]_vars, NEW p \in Processes,
                      job[p].step = "upsert", job[p].contract.detail # Bare,
                      instruments' # instruments
               PROVE  Unified(job[p].contract)
    OBVIOUS
  <2> DEFINE c == job[p].contract
  <2>1. \A q \in Processes : q = p
    BY DEF IInv, OneProcess
  <2>2. c \in Contracts /\ c # NoContract /\ Plain(c) # c /\ Plain(c) # NoContract
    BY PlainContract, NoContractAssumption DEF IInv, FindInv
  <2>3. SUFFICES \E i \in InstrumentIds :
                     /\ instruments'[i] = c
                     /\ \A k \in InstrumentIds :
                           (instruments'[k] = c => k = i) /\ instruments'[k] # Plain(c)
    BY OneRow DEF Plain
  <2>4. instruments \in [InstrumentIds -> Contracts \cup {NoContract}]
    BY DEF IInv, TypeOK
  <2>5. CASE Absorb(p)
    <3> DEFINE to == job[p].provisional
              from == job[p].exact
    <3>1. /\ to \in InstrumentIds /\ instruments[to] = Plain(c)
          /\ from # NoRow => from \in InstrumentIds /\ instruments[from] = c
          /\ from = NoRow => \A i \in InstrumentIds : instruments[i] # c
          /\ Duplicate(p) <=> from # NoRow
          /\ instruments' = [i \in InstrumentIds |->
                                IF Duplicate(p) /\ i = from THEN NoContract
                                ELSE IF i = to THEN c ELSE instruments[i]]
      BY <2>5, AbsorbFacts DEF Absorb
    <3>2. \A i, k \in InstrumentIds :
              instruments[i] # NoContract /\ instruments[i] = instruments[k] => i = k
      BY DEF IInv, UniqueInv
    <3>3. from # to
      BY <3>1, <2>2, ConstantAssumption DEF InstrumentIds, NoRow
    <3>4. instruments'[to] = c
      BY <3>1, <3>3
    <3>5. ASSUME NEW k \in InstrumentIds, k # to
          PROVE  instruments'[k] # c /\ instruments'[k] # Plain(c)
      BY <3>1, <3>2, <3>5, <2>2
    <3> QED
      BY <3>1, <3>4, <3>5, <2>2
  <2>6. CASE Insert(p)
    <3>1. PICK i \in InstrumentIds :
              /\ instruments' = [instruments EXCEPT ![i] = c]
              /\ \A k \in InstrumentIds : instruments[k] = c => k = i
      BY <2>6, InsertFacts
    <3>2. \A k \in InstrumentIds : instruments[k] # Plain(c)
      BY <2>6 DEF Insert, IInv, UpsertInv
    <3> QED
      BY <3>1, <3>2, <2>2, <2>4
  <2>7. CASE InsertRow(p)
    BY <2>7 DEF InsertRow
  <2>8. CASE UNCHANGED <<instruments, rows>>
    BY <2>8
  <2> QED
    BY <2>1, <2>5, <2>6, <2>7, <2>8, WhoWrites
<1>2. IInv /\ [Next]_vars => [Unify]_vars
  BY <1>1
<1> QED
  BY <1>2, Invariance, PTL DEF Spec, DetailsUnify

----------------------------------------------------------------------------
(* The write lock of a shared database.                                    *)

\* A process keeps the lock only after a failure, so a write times out only
\* after one.
LockInv == (writer # NoProcess => failed) /\ (locked => failed)

\* A commit gives the write lock up.
LEMMA CommitReleases == ASSUME NEW p, Commit(p) PROVE writer' = NoProcess
  BY DEF Commit

\* Of a process's steps only the one that fails keeps the lock.
LEMMA StoreStep == ASSUME LockInv, Next, UNCHANGED locked PROVE LockInv'
<1> USE DEF LockInv
<1>1. PICK p \in Processes :
        \/ \E c \in Contracts :
              \/ ReceiveDetails(p, c)
              \/ \E k \in Contexts \cup {"none"}, r \in ReqIds : ReceiveRequest(p, k, r, c)
        \/ \E r \in ReqIds :
              \/ \E time \in Times : ReceiveBar(p, r, time)
              \/ \E table \in {"market_data_ticks", "option_greeks"} : ReceiveTick(p, r, table)
        \/ \E table \in Unattached : ReceiveRow(p, table)
        \/ ReceiveOther(p)
        \/ FindProvisional(p) \/ FindExact(p)
        \/ Absorb(p) \/ AbsorbFails(p) \/ Insert(p) \/ InsertRow(p) \/ Restart(p)
  BY DEF Next
<1>2. CASE \E next : Receive(p, next)
  BY <1>2, CommitReleases DEF Receive
<1>3. CASE FindProvisional(p) \/ FindExact(p)
  BY <1>3 DEF FindProvisional, FindExact
<1>4. CASE Absorb(p)
  BY <1>4, CommitReleases DEF Absorb
<1>5. CASE AbsorbFails(p)
  BY <1>5 DEF AbsorbFails
<1>6. CASE Insert(p)
  BY <1>6, CommitReleases DEF Insert
<1>7. CASE InsertRow(p)
  BY <1>7, CommitReleases DEF InsertRow
<1>8. CASE Restart(p)
  BY <1>8 DEF Restart
<1> QED
  BY <1>1, <1>2, <1>3, <1>4, <1>5, <1>6, <1>7, <1>8
  DEF ReceiveDetails, ReceiveRequest, ReceiveBar, ReceiveTick, ReceiveRow, ReceiveOther

\* The C++ tool's transactions end in the step that begins them.
LEMMA ToolKeepsNothing == ASSUME LockInv, NEW t, ToolStep(t) PROVE LockInv'
<1> USE DEF LockInv
<1>1. CASE \E c \in Contracts, bars \in SUBSET Times \ {{}} : Fetched(t, c, bars)
  BY <1>1 DEF Fetched, vars
<1>2. CASE UpsertInstrument(t)
  BY <1>2, CommitReleases DEF UpsertInstrument
<1>3. CASE SelectInstrument(t)
  BY <1>3 DEF SelectInstrument, vars
<1>4. CASE InsertHistoricalBars(t)
  BY <1>4, CommitReleases DEF InsertHistoricalBars
<1>5. CASE ToolEnds(t)
  BY <1>5 DEF ToolEnds, vars
<1> QED
  BY <1>1, <1>2, <1>3, <1>4, <1>5 DEF ToolStep

\* LockInv holds in every reachable state.
THEOREM LocksInvariance == SpecShared => []LockInv
<1>1. InitShared => LockInv
  BY DEF InitShared, Init, LockInv
<1>2. LockInv /\ [NextShared]_shared_vars => LockInv'
  <2> SUFFICES ASSUME LockInv, [NextShared]_shared_vars PROVE LockInv'
    OBVIOUS
  <2>1. CASE Next /\ UNCHANGED <<locked, tool_vars>>
    BY <2>1, StoreStep
  <2>2. ASSUME NEW p \in Processes, WriteTimesOut(p) PROVE LockInv'
    BY <2>2 DEF WriteTimesOut, MayWrite, LockInv
  <2>3. CASE \E t \in Tools : ToolStep(t)
    BY <2>3, ToolKeepsNothing
  <2>4. CASE UNCHANGED shared_vars
    BY <2>4 DEF shared_vars, vars, LockInv
  <2> QED
    BY <2>1, <2>2, <2>3, <2>4 DEF NextShared
<1> QED
  BY <1>1, <1>2, PTL DEF SpecShared

\* persistence.py:295 and README.md:107: "database is locked" is reported only
\* after an event failed to apply.
THEOREM LocksNeedFailureHolds == SpecShared => []LocksNeedFailure
<1>1. LockInv => LocksNeedFailure
  BY DEF LockInv, LocksNeedFailure
<1> QED
  BY <1>1, LocksInvariance, PTL

----------------------------------------------------------------------------
(* The rows of a contract without a strike.                                *)

Nulls == [base : Bases \ Options, detail : Details \cup {Bare}, strike : {"NULL"}]
Fetches == [step : {"idle", "fetched", "upserted", "selected"},
            contract : Contracts \cup Nulls \cup {NoContract},
            bars : SUBSET Times, instrument : InstrumentIds \cup {NoRow}]

\* Which tables a contract may be in: the tools write options like the store.
KindsInv ==
    /\ instruments \in [InstrumentIds -> Contracts \cup Nulls \cup {NoContract}]
    /\ requests \in Known
    /\ job \in [Processes -> Jobs]
    /\ fetch \in [Tools -> Fetches]
    /\ \A t \in Tools : fetch[t].step # "idle" =>
          fetch[t].contract \in Nulls \cup {c \in Contracts : c.base \in Options}
    /\ \A f \in kept : f.contract \in Contracts \cup Nulls

\* What the store has looked up are rows of its own, and still what they were.
LookedUpInv ==
    \A p \in Processes :
        /\ job[p].step \in {"find", "exact", "upsert"} => job[p].contract \in Contracts
        /\ job[p].step \in {"exact", "upsert"} /\ job[p].provisional # NoRow =>
              instruments[job[p].provisional] = Plain(job[p].contract)
        /\ job[p].step = "upsert" /\ job[p].exact # NoRow =>
              instruments[job[p].exact] = job[p].contract

OneRowInv ==
    \A i, k \in InstrumentIds :
        instruments[i] \in Contracts /\ instruments[i] = instruments[k] => i = k

\* The home of a contract without a strike is its first row.
Home(c, i) == c \in Nulls /\ i # NoRow => i \in RowsOf(c) /\ \A k \in RowsOf(c) : i <= k

HomesInv ==
    /\ \A f \in kept : Home(f.contract, f.instrument)
    /\ \A t \in Tools : fetch[t].step = "selected" => Home(fetch[t].contract, fetch[t].instrument)

HomeInv == KindsInv /\ LookedUpInv /\ OneRowInv /\ HomesInv /\ CommittedInv

\* Three kinds of things are in the table.
LEMMA KindsDiffer ==
  /\ \A c \in Nulls : c \notin Contracts
  /\ NoContract \notin Contracts /\ NoContract \notin Nulls
  /\ NoRow \notin InstrumentIds /\ InstrumentIds \subseteq Nat
  /\ \A c \in Contracts : Instrument(c) \in Nulls \cup {d \in Contracts : d.base \in Options}
<1>1. \A c \in Nulls : c \notin Contracts
  <2>1. \A c \in Nulls : "strike" \in DOMAIN c
    BY DEF Nulls
  <2>2. \A c \in Contracts : "strike" \notin DOMAIN c
    BY DEF Contracts
  <2> QED
    BY <2>1, <2>2
<1>2. NoContract \notin Nulls
  <2> SUFFICES ASSUME NoContract \in Nulls PROVE FALSE
    OBVIOUS
  <2> DEFINE c == [base |-> NoContract.base, detail |-> NoContract.detail]
  <2>1. NoContract.base \in Bases \ Options /\ NoContract.detail \in Details \cup {Bare}
    BY DEF Nulls
  <2>3. NoContract = [base |-> NoContract.base, detail |-> NoContract.detail, strike |-> "NULL"]
    BY DEF Nulls
  <2>2. c \in Contracts /\ c.base \notin Options
    BY <2>1 DEF Contracts
  <2> QED
    BY <2>2, <2>3, InstrumentAssumption DEF Instrument
<1>3. NoRow \notin InstrumentIds /\ InstrumentIds \subseteq Nat
  BY ConstantAssumption DEF NoRow, InstrumentIds
<1>4. \A c \in Contracts : Instrument(c) \in Nulls \cup {d \in Contracts : d.base \in Options}
  BY DEF Instrument, Contracts, Nulls
<1> QED
  BY <1>1, <1>2, <1>3, <1>4, NoContractAssumption

\* A row without a strike stays as it is, and another comes above all rows.
Settled ==
    \A i \in InstrumentIds :
        /\ instruments[i] \in Nulls => instruments'[i] = instruments[i]
        /\ instruments'[i] \in Nulls /\ instruments'[i] # instruments[i] =>
              \A k \in InstrumentIds : instruments[k] # NoContract => k < i

\* So a contract's home stays.
LEMMA HomeStays ==
  ASSUME KindsInv, Settled, NEW c, NEW i, Home(c, i)
  PROVE  Home(c, i)'
<1> SUFFICES ASSUME c \in Nulls, i # NoRow
             PROVE  i \in RowsOf(c)' /\ \A k \in RowsOf(c)' : i <= k
  BY DEF Home
<1>1. i \in RowsOf(c) /\ \A k \in RowsOf(c) : i <= k
  BY DEF Home
<1>2. i \in InstrumentIds /\ instruments[i] = c /\ c # NoContract
  BY <1>1, KindsDiffer DEF RowsOf
<1>3. instruments'[i] = c
  BY <1>2 DEF Settled
<1>4. ASSUME NEW k \in InstrumentIds, instruments'[k] = c PROVE i <= k
  <2>1. CASE instruments[k] = c
    BY <2>1, <1>1 DEF RowsOf
  <2>2. CASE instruments[k] # c
    <3>1. i < k
      BY <2>2, <1>2, <1>4 DEF Settled
    <3> QED
      BY <3>1, <1>2, KindsDiffer
  <2> QED
    BY <2>1, <2>2
<1> QED
  BY <1>2, <1>3, <1>4 DEF RowsOf

\* A contract that is inserted gets the row it has, or a new one.
LEMMA InsertSettles ==
  ASSUME KindsInv, OneRowInv, NEW c \in Contracts \cup Nulls, NEW i \in InstrumentIds,
         i = RowOf(c) \/ (i = NewId /\ (c \in Contracts => RowOf(c) = NoRow)),
         instruments' = [instruments EXCEPT ![i] = c]
  PROVE  /\ Settled /\ OneRowInv'
         /\ \A k \in InstrumentIds :
               instruments[k] # NoContract => instruments'[k] = instruments[k]
<1>1. /\ c # NoContract
      /\ \A k \in InstrumentIds : instruments'[k] = IF k = i THEN c ELSE instruments[k]
  BY KindsDiffer DEF KindsInv
<1>2. CASE i = RowOf(c)
  <2>1. instruments[i] = c
    BY <1>2, RowOfFinds, KindsDiffer
  <2>2. \A k \in InstrumentIds : instruments'[k] = instruments[k]
    BY <1>1, <2>1
  <2> QED
    BY <2>2 DEF Settled, OneRowInv
<1>3. CASE i = NewId /\ (c \in Contracts => RowOf(c) = NoRow)
  <2>1. instruments[i] = NoContract /\ \A k \in InstrumentIds : instruments[k] # NoContract => k < i
    BY <1>3, NewIdIsNew
  <2>2. c \in Contracts => \A k \in InstrumentIds : instruments[k] # c
    BY <1>3, RowOfFinds
  <2>3. Settled
    BY <1>1, <2>1, KindsDiffer DEF Settled
  <2>4. OneRowInv'
    BY <1>1, <2>2 DEF OneRowInv
  <2> QED
    BY <1>1, <2>1, <2>3, <2>4
<1> QED
  BY <1>2, <1>3

\* A set of row ids has a first.
LEMMA LeastExists ==
  ASSUME NEW S \in SUBSET Nat, S # {}
  PROVE  \E k \in S : \A l \in S : k <= l
<1>1. PICK x \in S : \A y \in S : ~(<<y, x>> \in Less)
  BY LessWellFounded, WFMin
<1>2. ASSUME NEW l \in S PROVE x <= l
  <2>1. ~(<<l, x>> \in Less)
    BY <1>1
  <2>2. l \in Nat /\ x \in Nat
    OBVIOUS
  <2> QED
    BY <2>1, <2>2 DEF Less
<1> QED
  BY <1>2

\* The homes of what is not disturbed stay.
LEMMA HomesKept ==
  ASSUME HomeInv, Settled \/ instruments' = instruments, kept' = kept,
         \A t \in Tools : fetch'[t].step = "selected" =>
            \/ fetch'[t] = fetch[t]
            \/ Home(fetch'[t].contract, fetch'[t].instrument)
  PROVE  HomesInv'
<1>1. Settled
  BY DEF Settled
<1>2. \A f \in kept : Home(f.contract, f.instrument)'
  BY <1>1, HomeStays DEF HomeInv, HomesInv
<1>3. ASSUME NEW t \in Tools, fetch'[t].step = "selected"
      PROVE  Home(fetch[t].contract, fetch[t].instrument)'
  <2>1. PICK c, i : c = fetch'[t].contract /\ i = fetch'[t].instrument
    OBVIOUS
  <2>2. Home(c, i)
    BY <1>3, <2>1 DEF HomeInv, HomesInv
  <2>3. Home(c, i)'
    BY <1>1, <2>2, HomeStays DEF HomeInv
  <2> QED
    BY <2>1, <2>3 DEF Home
<1> QED
  BY <1>2, <1>3 DEF HomesInv

\* What the store has looked up is still its own.
LEMMA LookedUpKept ==
  ASSUME KindsInv, LookedUpInv,
         \A k \in InstrumentIds : instruments[k] # NoContract => instruments'[k] = instruments[k],
         \A p \in Processes : job'[p] = job[p] \/ job'[p].step \in {"idle", "row"}
  PROVE  LookedUpInv'
<1>1. ASSUME NEW p \in Processes, NEW c \in Contracts, NEW i, i # NoRow,
             i \in {job[p].provisional, job[p].exact}, instruments[i] = c
      PROVE  instruments'[i] = c
  BY <1>1, KindsDiffer DEF KindsInv, Jobs
<1>2. \A p \in Processes : job[p].contract \in Contracts => Plain(job[p].contract) \in Contracts
  BY PlainContract
<1> QED
  BY <1>1, <1>2 DEF LookedUpInv

\* An event that begins has looked nothing up.
LEMMA BeginsKeepsHome == ASSUME HomeInv, NEW p \in Processes, Begins(p), UNCHANGED tool_vars
                         PROVE  HomeInv'
<1>1. PICK next \in Jobs :
        /\ Receive(p, next) /\ requests' \in Known
        /\ next.step \notin {"exact", "upsert"}
        /\ next.step = "find" => next.contract \in Contracts
  BY DEF Begins
<1>2. job' = [job EXCEPT ![p] = next] /\ UNCHANGED <<instruments, fetch, kept, uncommitted>>
  BY <1>1 DEF Receive, CommitMerge, tool_vars, HomeInv, CommittedInv
<1> QED
  BY <1>1, <1>2, HomesKept DEF HomeInv, KindsInv, LookedUpInv, OneRowInv, CommittedInv

\* The look-ups find rows of their contracts, if any.
LEMMA FindKeepsHome ==
  ASSUME HomeInv, NEW p \in Processes, FindProvisional(p) \/ FindExact(p), UNCHANGED tool_vars
  PROVE  HomeInv'
<1> DEFINE c == job[p].contract
<1>1. c \in Contracts /\ job[p] \in Jobs /\ Plain(c) \in Contracts
  BY PlainContract DEF HomeInv, KindsInv, LookedUpInv, FindProvisional, FindExact
<1>2. RowOf(Plain(c)) \in InstrumentIds \cup {NoRow} /\ RowOf(c) \in InstrumentIds \cup {NoRow}
  BY RowOfFinds
<1>3. PICK j \in Jobs :
          /\ j.contract = c /\ job' = [job EXCEPT ![p] = j]
          /\ j.step \in {"exact", "upsert"}
          /\ j.provisional # NoRow => instruments[j.provisional] = Plain(c)
          /\ j.step = "upsert" /\ j.exact # NoRow => instruments[j.exact] = c
  <2>1. CASE FindProvisional(p)
    <3> DEFINE j == [job[p] EXCEPT !.step = "exact", !.provisional = RowOf(Plain(c))]
    <3>1. /\ j \in Jobs /\ j.step = "exact" /\ j.contract = c
          /\ j.provisional = RowOf(Plain(c))
      BY <1>1, <1>2 DEF Jobs, Steps
    <3>2. job' = [job EXCEPT ![p] = j]
      BY <2>1, <1>1 DEF FindProvisional, Plain, HomeInv, KindsInv
    <3> HIDE DEF j
    <3> QED
      BY <3>1, <3>2, RowOfFinds
  <2>2. CASE FindExact(p)
    <3> DEFINE j == [job[p] EXCEPT !.step = "upsert", !.exact = RowOf(c)]
    <3>1. /\ j \in Jobs /\ j.step = "upsert" /\ j.contract = c
          /\ j.provisional = job[p].provisional /\ j.exact = RowOf(c)
      BY <1>1, <1>2 DEF Jobs, Steps
    <3>2. job' = [job EXCEPT ![p] = j] /\ job[p].step = "exact"
      BY <2>2, <1>1 DEF FindExact, HomeInv, KindsInv
    <3>3. j.provisional # NoRow => instruments[j.provisional] = Plain(c)
      BY <3>1, <3>2 DEF HomeInv, LookedUpInv
    <3> HIDE DEF j
    <3> QED
      BY <3>1, <3>2, <3>3, RowOfFinds
  <2> QED
    BY <2>1, <2>2
<1>4. UNCHANGED <<instruments, requests, fetch, kept, uncommitted>>
  BY DEF FindProvisional, FindExact, tool_vars
<1>5. KindsInv' /\ LookedUpInv'
  BY <1>1, <1>3, <1>4 DEF HomeInv, KindsInv, LookedUpInv
<1> QED
  BY <1>4, <1>5, HomesKept DEF HomeInv, OneRowInv, CommittedInv

\* A job that has its row is not one that looks for it.
LEMMA ResolvedIs ==
  ASSUME KindsInv, NEW p \in Processes, NEW i \in InstrumentIds
  PROVE  Resolved(p, i) \in Jobs /\ Resolved(p, i).step \in {"idle", "row"}
<1>1. job[p] \in Jobs
  BY DEF KindsInv
<1>2. Idle \in Jobs /\ Idle.step = "idle"
  BY IdleJob
<1>3. [job[p] EXCEPT !.step = "row", !.instrument = i] \in Jobs
  BY <1>1 DEF Jobs, Steps
<1> QED
  BY <1>1, <1>2, <1>3 DEF Resolved, Jobs

\* The rows that are merged and named are the store's own.
LEMMA AbsorbKeepsHome ==
  ASSUME OneProcess, HomeInv, NEW p \in Processes, Absorb(p), UNCHANGED tool_vars
  PROVE  HomeInv'
<1> DEFINE c == job[p].contract
           to == job[p].provisional
           from == job[p].exact
<1>1. /\ c \in Contracts /\ to # NoRow /\ instruments[to] \in Contracts
      /\ from # NoRow => instruments[from] \in Contracts
      /\ to \in InstrumentIds /\ from \in InstrumentIds \cup {NoRow}
      /\ Duplicate(p) => from # NoRow
      /\ ~NameTaken(p) /\ instruments' = Named(p)
      /\ job' = [job EXCEPT ![p] = Resolved(p, to)]
      /\ UNCHANGED <<requests, fetch, kept, uncommitted>>
  BY PlainContract
  DEF HomeInv, KindsInv, LookedUpInv, Jobs, Absorb, Duplicate, tool_vars
<1>2. \A i \in InstrumentIds :
         \/ instruments'[i] = NoContract /\ instruments[i] \in Contracts
         \/ i = to /\ instruments'[i] \in Contracts \cup {NoContract}
         \/ i # to /\ instruments'[i] = instruments[i]
  <2>1. [instruments[to] EXCEPT !.detail = IF c.detail = Bare THEN @ ELSE c.detail] \in Contracts
    BY <1>1 DEF Contracts
  <2> QED
    BY <1>1, <2>1 DEF Named
<1>3. Settled /\ \A i \in InstrumentIds : instruments'[i] \in Contracts \cup Nulls \cup {NoContract}
  BY <1>1, <1>2, KindsDiffer DEF Settled, HomeInv, KindsInv
<1>4. OneRowInv'
  <2>1. \A i \in InstrumentIds \ {to} :
           instruments'[i] # NoContract => instruments'[i] # instruments'[to]
    BY <1>1 DEF NameTaken
  <2>2. NoContract \notin Contracts
    BY KindsDiffer
  <2> QED
    BY <1>1, <1>2, <2>1, <2>2 DEF OneRowInv, HomeInv
<1>5. Resolved(p, to) \in Jobs /\ Resolved(p, to).step \in {"idle", "row"}
  BY <1>1, ResolvedIs DEF HomeInv
<1>6. KindsInv'
  <2>1. instruments' \in [InstrumentIds -> Contracts \cup Nulls \cup {NoContract}]
    BY <1>1, <1>3 DEF Named
  <2> QED
    BY <1>1, <1>5, <2>1 DEF HomeInv, KindsInv
<1>7. LookedUpInv'
  BY <1>1, <1>5 DEF LookedUpInv, OneProcess, HomeInv, KindsInv
<1> QED
  BY <1>1, <1>3, <1>4, <1>6, <1>7, HomesKept DEF HomeInv, CommittedInv

\* A contract of the store is inserted in its row, or in a new one.
LEMMA InsertKeepsHome ==
  ASSUME HomeInv, NEW p \in Processes, Insert(p), UNCHANGED tool_vars
  PROVE  HomeInv'
<1> DEFINE c == job[p].contract
           i == IF RowOf(c) # NoRow THEN RowOf(c) ELSE NewId
<1>1. /\ c \in Contracts /\ i \in InstrumentIds
      /\ instruments' = [instruments EXCEPT ![i] = c]
      /\ job' = [job EXCEPT ![p] = Resolved(p, i)]
      /\ UNCHANGED <<requests, fetch, kept, uncommitted>>
  BY DEF HomeInv, LookedUpInv, Insert, tool_vars
<1>2. i = RowOf(c) \/ (i = NewId /\ (c \in Contracts => RowOf(c) = NoRow))
  OBVIOUS
<1> HIDE DEF i
<1>3. /\ Settled /\ OneRowInv'
      /\ \A k \in InstrumentIds :
            instruments[k] # NoContract => instruments'[k] = instruments[k]
  BY <1>1, <1>2, InsertSettles DEF HomeInv
<1>4. Resolved(p, i) \in Jobs /\ Resolved(p, i).step \in {"idle", "row"}
  BY <1>1, ResolvedIs DEF HomeInv
<1>5. KindsInv'
  BY <1>1, <1>4 DEF HomeInv, KindsInv
<1>6. LookedUpInv'
  BY <1>1, <1>3, <1>4, LookedUpKept DEF HomeInv, KindsInv
<1> QED
  BY <1>1, <1>3, <1>5, <1>6, HomesKept DEF HomeInv, CommittedInv

\* The others end a job, or begin one anew.
LEMMA EndsKeepsHome ==
  ASSUME HomeInv, NEW p \in Processes, job' = [job EXCEPT ![p] = Idle],
         requests' \in Known, UNCHANGED <<instruments, fetch, kept>>, uncommitted' = NoMerge
  PROVE  HomeInv'
<1>1. Idle \in Jobs /\ Idle.step = "idle"
  BY IdleJob
<1> QED
  BY <1>1, HomesKept DEF HomeInv, KindsInv, LookedUpInv, OneRowInv, CommittedInv

\* A merge that fails leaves nothing to commit.
LEMMA FailsKeepsHome ==
  ASSUME HomeInv, NEW p \in Processes, AbsorbFails(p)
  PROVE  uncommitted' = NoMerge
<1>1. CASE Duplicate(p)
  <2>1. /\ job[p].contract \in Contracts
        /\ job[p].provisional \in InstrumentIds /\ job[p].exact \in InstrumentIds
        /\ instruments[job[p].provisional] = Plain(job[p].contract)
        /\ instruments[job[p].exact] = job[p].contract
    BY <1>1 DEF AbsorbFails, Duplicate, HomeInv, KindsInv, LookedUpInv, Jobs
  <2>2. ~NameTaken(p)
    BY <1>1, <2>1, MergeSucceeds DEF HomeInv, OneRowInv
  <2> QED
    BY <1>1, <2>2 DEF AbsorbFails
<1>2. CASE ~Duplicate(p)
  BY <1>2 DEF AbsorbFails
<1> QED
  BY <1>1, <1>2

\* Each step of the store keeps the homes.
LEMMA StoreKeepsHome ==
  ASSUME OneProcess, HomeInv, Next, UNCHANGED tool_vars
  PROVE  HomeInv'
<1>1. requests \in Known
  BY DEF HomeInv, KindsInv
<1>2. PICK p \in Processes :
        \/ Begins(p) \/ FindProvisional(p) \/ FindExact(p) \/ Absorb(p) \/ AbsorbFails(p)
        \/ Insert(p) \/ InsertRow(p) \/ Restart(p)
  BY <1>1, EventIs DEF Next
<1>3. CASE AbsorbFails(p) \/ InsertRow(p)
  <2>1. job' = [job EXCEPT ![p] = Idle] /\ UNCHANGED <<requests, instruments, fetch, kept>>
    BY <1>3 DEF AbsorbFails, InsertRow, tool_vars
  <2>2. uncommitted' = NoMerge
    BY <1>3, FailsKeepsHome DEF InsertRow, HomeInv, CommittedInv
  <2> QED
    BY <1>1, <2>1, <2>2, EndsKeepsHome
<1>4. CASE Restart(p)
  <2>1. job' = [job EXCEPT ![p] = Idle] /\ UNCHANGED <<instruments, fetch, kept>>
    BY <1>4 DEF Restart, tool_vars
  <2>2. requests' \in Known
    BY <1>1, <1>4 DEF Restart, NoRequests, Known
  <2>3. uncommitted' = NoMerge
    BY <1>4 DEF Restart, HomeInv, CommittedInv
  <2> QED
    BY <2>1, <2>2, <2>3, EndsKeepsHome
<1> QED
  BY <1>2, <1>3, <1>4, BeginsKeepsHome, FindKeepsHome, AbsorbKeepsHome, InsertKeepsHome

\* So does each step of a tool.
LEMMA ToolKeepsHome ==
  ASSUME HomeInv, NEW t \in Tools, ToolStep(t)
  PROVE  HomeInv'
<1> DEFINE F == fetch[t]
<1>0. F \in Fetches /\ fetch \in [Tools -> Fetches]
  BY DEF HomeInv, KindsInv
<1>committed. uncommitted' = NoMerge
  <2>1. uncommitted' = uncommitted
    BY DEF ToolStep, Fetched, UpsertInstrument, SelectInstrument, InsertHistoricalBars,
       ToolEnds, vars
  <2> QED
    BY <2>1 DEF HomeInv, CommittedInv
<1>1. ASSUME NEW c \in Contracts, NEW bars \in SUBSET Times \ {{}}, Fetched(t, c, bars)
      PROVE  HomeInv'
  <2> DEFINE f == [NoFetch EXCEPT !.step = "fetched", !.bars = bars, !.contract = Instrument(c)]
  <2>1. Instrument(c) \in Nulls \cup {d \in Contracts : d.base \in Options}
    BY KindsDiffer
  <2>2. f \in Fetches /\ f.step = "fetched" /\ f.contract = Instrument(c)
    BY <2>1 DEF NoFetch, Fetches, NoRow
  <2>3. fetch' = [fetch EXCEPT ![t] = f] /\ UNCHANGED <<instruments, requests, job, kept>>
    BY <1>1 DEF Fetched, vars
  <2> HIDE DEF f
  <2> QED
    BY <2>1, <2>2, <2>3, <1>committed, HomesKept DEF HomeInv, KindsInv, LookedUpInv, OneRowInv,
       CommittedInv
<1>2. CASE UpsertInstrument(t)
  <2> DEFINE c == fetch[t].contract
             i == IF c.base \in Options /\ RowOf(c) # NoRow THEN RowOf(c) ELSE NewId
             f == [F EXCEPT !.step = "upserted"]
  <2>1. /\ i \in InstrumentIds /\ instruments' = [instruments EXCEPT ![i] = c]
        /\ F.step = "fetched"
        /\ UNCHANGED <<requests, job, kept>>
    BY <1>2 DEF UpsertInstrument
  <2>2. c \in Nulls \cup {d \in Contracts : d.base \in Options} /\ c \in Contracts \cup Nulls
    BY <2>1 DEF HomeInv, KindsInv
  <2>3. i = RowOf(c) \/ (i = NewId /\ (c \in Contracts => RowOf(c) = NoRow))
    BY <2>2, KindsDiffer
  <2>4. fetch' = [fetch EXCEPT ![t] = f]
    BY <1>2 DEF UpsertInstrument
  <2>5. f \in Fetches /\ f.step = "upserted" /\ f.contract = c
    BY <1>0 DEF Fetches
  <2> HIDE DEF i, f
  <2>6. /\ Settled /\ OneRowInv'
        /\ \A k \in InstrumentIds :
              instruments[k] # NoContract => instruments'[k] = instruments[k]
    BY <2>1, <2>2, <2>3, InsertSettles DEF HomeInv
  <2>7. KindsInv'
    BY <1>0, <2>1, <2>2, <2>4, <2>5 DEF HomeInv, KindsInv
  <2>8. LookedUpInv'
    BY <2>1, <2>6, LookedUpKept DEF HomeInv, KindsInv, LookedUpInv
  <2> QED
    BY <1>0, <2>1, <2>4, <2>5, <2>6, <2>7, <2>8, <1>committed, HomesKept DEF HomeInv,
       CommittedInv
<1>3. CASE SelectInstrument(t)
  <2> DEFINE c == F.contract
             found == RowsOf(c)
             home == IF found = {} THEN NoRow ELSE CHOOSE i \in found : \A k \in found : i <= k
             f == [F EXCEPT !.step = "selected", !.instrument = home]
  <2>1. home # NoRow => home \in found /\ \A k \in found : home <= k
    <3>1. found \in SUBSET Nat
      BY KindsDiffer DEF RowsOf
    <3>2. found # {} => \E i \in found : \A k \in found : i <= k
      <4> HIDE DEF found
      <4> QED
        BY <3>1, LeastExists
    <3> QED
      BY <3>2
  <2>2. home \in InstrumentIds \cup {NoRow}
    BY <2>1 DEF RowsOf
  <2>3. fetch' = [fetch EXCEPT ![t] = f] /\ UNCHANGED <<instruments, requests, job, kept>>
    <3>1. UNCHANGED <<instruments, requests, job, kept>>
      BY <1>3 DEF SelectInstrument, vars
    <3>2. fetch' = [fetch EXCEPT ![t].step = "selected", ![t].instrument = home]
      BY <1>3, Zenon DEF SelectInstrument
    <3> HIDE DEF home
    <3> QED
      BY <3>1, <3>2, <1>0
  <2> HIDE DEF home
  <2>4. /\ f \in Fetches /\ f.step = "selected" /\ f.contract = c /\ f.instrument = home
        /\ F.step # "idle"
    BY <1>0, <1>3, <2>2 DEF Fetches, SelectInstrument
  <2>5. Home(c, home)
    BY <2>1 DEF Home
  <2> HIDE DEF f
  <2> QED
    BY <1>0, <2>3, <2>4, <2>5, <1>committed, HomesKept DEF HomeInv, KindsInv, LookedUpInv,
       OneRowInv, CommittedInv
<1>4. CASE InsertHistoricalBars(t)
  <2>1. /\ fetch' = [fetch EXCEPT ![t] = NoFetch] /\ UNCHANGED <<instruments, requests, job>>
        /\ F.step = "selected"
        /\ kept' = kept \cup
               {[contract |-> F.contract, instrument |-> F.instrument] : time \in F.bars}
    BY <1>4 DEF InsertHistoricalBars
  <2>2. NoFetch \in Fetches /\ NoFetch.step = "idle"
    BY DEF NoFetch, Fetches, NoRow
  <2>3. \A f \in kept' : f \in kept \/ f = [contract |-> F.contract, instrument |-> F.instrument]
    BY <2>1
  <2>4. F.contract \in Contracts \cup Nulls /\ Home(F.contract, F.instrument)
    BY <2>1 DEF HomeInv, KindsInv, HomesInv
  <2>5. \A f \in kept' : f.contract \in Contracts \cup Nulls /\ Home(f.contract, f.instrument)
    BY <2>3, <2>4 DEF HomeInv, KindsInv, HomesInv
  <2>6. HomesInv'
    <3>1. Settled
      BY <2>1 DEF Settled
    <3>2. \A f \in kept' : Home(f.contract, f.instrument)'
      BY <2>5, <3>1, HomeStays DEF HomeInv
    <3>3. \A s \in Tools : fetch'[s].step = "selected" =>
             fetch'[s] = fetch[s] /\ Home(fetch[s].contract, fetch[s].instrument)'
      BY <1>0, <2>1, <2>2, <3>1, HomeStays DEF HomeInv, HomesInv
    <3> QED
      BY <3>2, <3>3 DEF HomesInv
  <2> QED
    BY <1>0, <2>1, <2>2, <2>5, <2>6, <1>committed DEF HomeInv, KindsInv, LookedUpInv, OneRowInv,
       CommittedInv
<1>5. CASE ToolEnds(t)
  <2>1. fetch' = [fetch EXCEPT ![t] = NoFetch] /\ UNCHANGED <<instruments, requests, job, kept>>
    BY <1>5 DEF ToolEnds, vars
  <2>2. NoFetch \in Fetches /\ NoFetch.step = "idle"
    BY DEF NoFetch, Fetches, NoRow
  <2> QED
    BY <1>0, <2>1, <2>2, <1>committed, HomesKept DEF HomeInv, KindsInv, LookedUpInv, OneRowInv,
       CommittedInv
<1> QED
  BY <1>1, <1>2, <1>3, <1>4, <1>5 DEF ToolStep

\* With one process of the gateway beside the tools.
THEOREM HomesInvariance == OneProcess /\ SpecShared => []HomeInv
<1> SUFFICES ASSUME OneProcess PROVE SpecShared => []HomeInv
  OBVIOUS
<1>1. InitShared => HomeInv
  <2> SUFFICES ASSUME InitShared PROVE HomeInv
    OBVIOUS
  <2>1. /\ instruments = [i \in InstrumentIds |-> NoContract] /\ kept = {}
        /\ job = [p \in Processes |-> Idle] /\ fetch = [t \in Tools |-> NoFetch]
        /\ requests = [p \in Processes |-> NoRequests] /\ uncommitted = NoMerge
    BY DEF InitShared, Init
  <2>2. Idle \in Jobs /\ Idle.step = "idle" /\ NoFetch \in Fetches /\ NoFetch.step = "idle"
    BY IdleJob DEF NoFetch, Fetches, NoRow
  <2>3. requests \in Known
    BY <2>1 DEF NoRequests, Known
  <2> QED
    BY <2>1, <2>2, <2>3, KindsDiffer
    DEF HomeInv, KindsInv, LookedUpInv, OneRowInv, HomesInv, CommittedInv
<1>2. HomeInv /\ [NextShared]_shared_vars => HomeInv'
  <2> SUFFICES ASSUME HomeInv, [NextShared]_shared_vars PROVE HomeInv'
    OBVIOUS
  <2>1. CASE Next /\ UNCHANGED <<locked, tool_vars>>
    BY <2>1, StoreKeepsHome
  <2>2. ASSUME NEW p \in Processes, WriteTimesOut(p) PROVE HomeInv'
    <3>1. /\ job' = [job EXCEPT ![p] = Idle] /\ UNCHANGED <<requests, instruments, fetch, kept>>
          /\ requests' \in Known /\ uncommitted' = NoMerge
      BY <2>2 DEF WriteTimesOut, tool_vars, HomeInv, KindsInv, CommittedInv
    <3> QED
      BY <3>1, EndsKeepsHome
  <2>3. CASE \E t \in Tools : ToolStep(t)
    BY <2>3, ToolKeepsHome
  <2>4. CASE UNCHANGED shared_vars
    <3>1. UNCHANGED <<requests, job, instruments, fetch, kept, uncommitted>>
      BY <2>4 DEF shared_vars, vars, tool_vars
    <3> QED
      BY <3>1, HomesKept DEF HomeInv, KindsInv, LookedUpInv, OneRowInv, CommittedInv
  <2> QED
    BY <2>1, <2>2, <2>3, <2>4 DEF NextShared
<1> QED
  BY <1>1, <1>2, PTL DEF SpecShared

\* IBHistoricalStore.cpp:377, a UNIQUE constraint that a NULL strike evades:
\* although a contract without a strike gets another row with every fetch, its
\* bars are all in one of them, whichever tools run and whatever the store of
\* one gateway does at the same time.
THEOREM OneHomeHolds == OneProcess /\ SpecShared => []OneHome
<1>1. HomeInv => OneHome
  <2> SUFFICES ASSUME HomeInv, NEW f \in kept, NEW g \in kept, f.contract = g.contract,
                      {f.instrument, g.instrument} \subseteq RowsOf(f.contract)
               PROVE  f.instrument = g.instrument
    BY DEF OneHome
  <2>1. /\ f.instrument \in InstrumentIds /\ g.instrument \in InstrumentIds
        /\ instruments[f.instrument] = f.contract /\ instruments[g.instrument] = f.contract
    BY DEF RowsOf
  <2>2. CASE f.contract \in Contracts
    BY <2>1, <2>2 DEF HomeInv, OneRowInv
  <2>3. CASE f.contract \in Nulls
    <3>1. f.instrument <= g.instrument /\ g.instrument <= f.instrument
      BY <2>1, <2>3, KindsDiffer DEF HomeInv, HomesInv, Home
    <3>2. f.instrument \in Nat /\ g.instrument \in Nat
      BY <2>1, KindsDiffer
    <3> QED
      BY <3>1, <3>2
  <2>4. f.contract \in Contracts \cup Nulls
    BY DEF HomeInv, KindsInv
  <2> QED
    BY <2>2, <2>3, <2>4
<1> QED
  BY <1>1, HomesInvariance, PTL
=============================================================================
