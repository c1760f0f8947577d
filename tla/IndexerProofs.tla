---------------------------- MODULE IndexerProofs ----------------------------
(***************************************************************************)
(* Proofs about Indexer, for any number of contracts, holders, events and  *)
(* starts: no balance without rows, no event counted twice but across a    *)
(* restart, and no event lost without one of two causes.                   *)
(***************************************************************************)
EXTENDS Indexer, FiniteSetTheorems, WellFoundedInduction, TLAPS

Events == [block : Nat \ {0}, index : 1..PerBlock, contract : Range(Contracts),
           from : Holders \cup {Minter}, to : Holders]
EventRows == [event : DOMAIN log, block : Nat, start : 1..MaxStarts]

\* Blocks follow one another, and the query asks for none that is not mined.
Chain ==
  /\ \A d, e \in DOMAIN log : d <= e => log[d].block <= log[e].block
  /\ run.latest <= Head0(log)

\* The number of a row is that of its event, and its start has taken place.
RowsOfChain == \A i \in DOMAIN rows :
  /\ rows[i].block \in {Null, log[rows[i].event].block}
  /\ rows[i].start <= starts

\* The query resumes after a block that has a row, the last when it asks.
Resume ==
  /\ run.pc \in {"latest", "query", "insert", "upsert"} =>
       run.last = 0 \/ \E i \in DOMAIN rows : rows[i].block = run.last
  /\ run.pc \in {"latest", "query"} => \A i \in DOMAIN rows : rows[i].block <= run.last

HasRow(e) == \E i \in DOMAIN rows : rows[i].event = e
HasNumber(e) == \E i \in DOMAIN rows : rows[i].event = e /\ rows[i].block # Null

Querying == run.pc \in {"insert", "upsert"}

\* What is left of a query has no numbered row yet, but for the event at
\* work, and of the events the query took all but those have rows.
Rest == Querying =>
  /\ \A e \in run.todo :
       /\ log[e].contract = Contracts[run.k] /\ log[e].block <= run.latest
       /\ HasNumber(e) <=> run.pc = "upsert" /\ First(e)
  /\ \A e \in DOMAIN log :
       log[e].contract = Contracts[run.k] /\ log[e].block <= run.latest /\ ~HasRow(e) =>
         e \in run.todo \/ log[e].block <= run.last

\* Two rows of an event are of two starts, and one of them has no number.
Once == \A i, j \in DOMAIN rows :
  /\ rows[i].event = rows[j].event
  /\ rows[i].start = rows[j].start \/ (rows[i].block # Null /\ rows[j].block # Null)
  => i = j

\* A contract is subscribed to after its query; a process that is down listens to none.
Quiet ==
  /\ run.pc # "live" => \A j \in DOMAIN Contracts : j >= run.k => sub[j].on = "no"
  /\ IF run.pc = "down" THEN live = {} /\ run.k = 1 ELSE starts > 0

Of(k, e) == Contracts[k] = log[e].contract
Heard(k, e) == sub[k].on = "on" /\ e <= sub[k].seen
RowOf(i, e) == rows[i].event = e /\ rows[i].start = starts

\* An event a listener was given is one its subscription has passed, and so is
\* every event this start has recorded once its contract is subscribed to.
Delivered == run.pc # "down" =>
  /\ \A t \in live : \A k \in DOMAIN Contracts : Of(k, t.event) => Heard(k, t.event)
  /\ \A t \in live, i \in DOMAIN rows : t.pc = "insert" => ~RowOf(i, t.event)
  /\ \A i \in DOMAIN rows, k \in DOMAIN Contracts :
       RowOf(i, rows[i].event) /\ Of(k, rows[i].event)
         /\ (rows[i].block = Null \/ sub[k].on = "on") => Heard(k, rows[i].event)

\* An event below a row's block that has no row is one the run lost for a reason.
Passed(e) == ~HasRow(e) /\ \E i \in DOMAIN rows : log[e].block < rows[i].block
Explains(f, e) ==
  /\ log[f].block >= log[e].block
  /\ log[f].contract = log[e].contract => log[f].block = log[e].block
Explained == \A e \in DOMAIN log :
  Passed(e) => \E f \in DOMAIN log : HasNumber(f) /\ Explains(f, e)

IInv ==
  IndexerTypeOK /\ Chain /\ RowsOfChain /\ Resume /\ Rest /\ Once /\ Quiet /\ Delivered
    /\ CreditHasRow /\ Explained
-----------------------------------------------------------------------------
\* At first nothing is mined, recorded or subscribed to.
LEMMA InitIInv == IndexerInit => IInv
<1> SUFFICES ASSUME IndexerInit PROVE IInv
  OBVIOUS
<1> USE IndexerAssumption
<1>1. 1 \in DOMAIN Contracts
  OBVIOUS
<1>2. IndexerTypeOK
  BY <1>1 DEF IndexerInit, IndexerTypeOK, Down, NoSub, NoStats
<1>3. Chain /\ RowsOfChain /\ Resume /\ Rest /\ Once
  BY DEF IndexerInit, Chain, RowsOfChain, Resume, Rest, Querying, Once, Down, Head0
<1>4. Quiet /\ Delivered /\ Explained
  BY DEF IndexerInit, Quiet, Delivered, Down, NoSub, Explained, Passed
<1>5. CreditHasRow
  <2>1. \A a \in Holders : {t \in live : t.pc = "upsert" /\ log[t.event].to = a} = {}
    BY DEF IndexerInit
  <2>2. \A a \in Holders : {i \in DOMAIN rows : log[rows[i].event].to = a} = {}
    BY DEF IndexerInit
  <2> QED
    BY <2>1, <2>2, FS_EmptySet DEF IndexerInit, CreditHasRow, Crediting, Rows, Down
<1> QED
  BY <1>2, <1>3, <1>4, <1>5 DEF IInv

-----------------------------------------------------------------------------
(* Steps that leave the chain and both tables alone *)

\* What the types say of one row,
LEMMA RowTypes ==
  ASSUME IndexerTypeOK
  PROVE  /\ Len(rows) \in Nat /\ DOMAIN rows = 1..Len(rows) /\ rows \in Seq(EventRows)
         /\ \A i \in DOMAIN rows : /\ rows[i].event \in DOMAIN log /\ rows[i].block \in Nat
                                   /\ rows[i].start \in 1..MaxStarts
<1>1. rows \in Seq(EventRows)
  BY DEF IndexerTypeOK, EventRows
<1>2. \A i \in DOMAIN rows : rows[i] \in EventRows
  BY <1>1
<1> QED
  BY <1>1, <1>2 DEF EventRows

\* of one event,
LEMMA ChainTypes ==
  ASSUME IndexerTypeOK
  PROVE  /\ Len(log) \in Nat /\ DOMAIN log = 1..Len(log) /\ log \in Seq(Events)
         /\ \A e \in DOMAIN log : /\ log[e] \in Events /\ log[e].block \in Nat \ {0}
                                  /\ log[e].contract \in Range(Contracts)
                                  /\ log[e].to \in Holders
<1>1. log \in Seq(Events)
  BY DEF IndexerTypeOK, Events
<1>2. \A e \in DOMAIN log : log[e] \in Events
  BY <1>1
<1> QED
  BY <1>1, <1>2 DEF Events

\* of the list of contracts,
LEMMA ContractTypes ==
  /\ Len(Contracts) \in Nat \ {0} /\ DOMAIN Contracts = 1..Len(Contracts)
  /\ \A j, k \in DOMAIN Contracts : Contracts[j] = Contracts[k] => j = k
BY IndexerAssumption DEF IsInjective

\* and of the main program.
LEMMA RunTypes ==
  ASSUME IndexerTypeOK
  PROVE  /\ run.last \in Nat /\ run.latest \in Nat /\ run.k \in DOMAIN Contracts
         /\ run.todo \subseteq DOMAIN log
         /\ run.pc \in {"down", "last", "latest", "query", "insert", "upsert", "on", "live"}
         /\ starts \in Nat /\ MaxStarts \in Nat /\ starts <= MaxStarts
         /\ \A k \in DOMAIN Contracts : sub[k].on \in {"no", "asked", "on"} /\ sub[k].seen \in Nat
BY IndexerAssumption DEF IndexerTypeOK

\* Credits still to come are finitely many.
LEMMA CreditingType ==
  ASSUME IndexerTypeOK, NEW a \in Holders
  PROVE  /\ IsFiniteSet(live)
         /\ Cardinality({t \in live : t.pc = "upsert" /\ log[t.event].to = a}) \in Nat
         /\ Crediting(a) \in Nat
<1>1. IsFiniteSet(live)
  <2>1. IsFiniteSet((DOMAIN log) \X {"insert", "upsert"})
    <3>1. IsFiniteSet(DOMAIN log)
      BY ChainTypes, FS_Interval
    <3>2. IsFiniteSet({"insert", "upsert"})
      <4>1. IsFiniteSet({"insert"}) /\ IsFiniteSet({"insert"} \cup {"upsert"})
        BY FS_Singleton, FS_AddElement
      <4>2. {"insert", "upsert"} = {"insert"} \cup {"upsert"}
        OBVIOUS
      <4> QED
        BY <4>1, <4>2
    <3> QED
      BY <3>1, <3>2, FS_Product
  <2> DEFINE f == [t \in live |-> <<t.event, t.pc>>]
  <2>2. f \in Injection(live, (DOMAIN log) \X {"insert", "upsert"})
    <3>1. \A t \in live : t \in [event : DOMAIN log, pc : {"insert", "upsert"}]
      BY DEF IndexerTypeOK
    <3>2. f \in [live -> (DOMAIN log) \X {"insert", "upsert"}]
      BY <3>1
    <3>3. \A t, u \in live : f[t] = f[u] => t = u
      BY <3>1
    <3> HIDE DEF f
    <3> QED
      BY <3>2, <3>3 DEF Injection, IsInjective
  <2> QED
    BY <2>1, <2>2, FS_Injection
<1>2. Cardinality({t \in live : t.pc = "upsert" /\ log[t.event].to = a}) \in Nat
  BY <1>1, FS_Subset, FS_CardinalityType
<1> QED
  BY <1>1, <1>2 DEF Crediting

\* So are the rows of an address.
LEMMA RowsType ==
  ASSUME IndexerTypeOK, NEW a \in Holders
  PROVE  /\ IsFiniteSet({i \in DOMAIN rows : log[rows[i].event].to = a})
         /\ Rows(a) \in Nat
<1>1. IsFiniteSet(DOMAIN rows)
  BY RowTypes, FS_Interval
<1> QED
  BY <1>1, FS_Subset, FS_CardinalityType DEF Rows

\* Nothing is credited or recorded, and no credit of the main program begins or ends.
LEMMA NothingCredited ==
  ASSUME CreditHasRow, UNCHANGED <<log, rows, holders, live>>,
         run.pc # "upsert", run'.pc # "upsert"
  PROVE  CreditHasRow'
<1> SUFFICES ASSUME NEW a \in Holders
             PROVE  (holders[a] + Crediting(a) <= Rows(a))'
  BY DEF CreditHasRow
<1>1. Rows(a)' = Rows(a)
  BY DEF Rows
<1>2. Crediting(a)' = Crediting(a)
  BY DEF Crediting
<1> QED
  BY <1>1, <1>2 DEF CreditHasRow

\* The block to resume from is the last of those with a row.
LEMMA ReadLastStep ==
  ASSUME IInv, ReadLast
  PROVE  IInv'
<1> USE IndexerAssumption DEF ReadLast, dbVars, IInv
<1> PICK b \in IndexedBlocks : IsLastIndexed(b) /\ run' = [run EXCEPT !.pc = "latest", !.last = b]
  OBVIOUS
<1>1. b \in Nat
  BY RowTypes DEF IndexedBlocks
<1>2. run'.pc = "latest" /\ run'.last = b /\ run'.k = run.k /\ run'.latest = run.latest /\ run'.todo = run.todo
  BY DEF IndexerTypeOK
<1>3. IndexerTypeOK'
  BY <1>1 DEF IndexerTypeOK
<1>4. Chain' /\ RowsOfChain' /\ Rest' /\ Once'
  BY <1>2 DEF Chain, Head0, RowsOfChain, Rest, Querying, Once
<1>5. Resume'
  BY <1>1, <1>2 DEF Resume, IsLastIndexed, IndexedBlocks
<1>6. Quiet' /\ Delivered'
  BY <1>2 DEF Quiet, Delivered, Of, Heard, RowOf
<1>7. CreditHasRow'
  BY <1>2, NothingCredited
<1>8. Explained'
  BY DEF Explained, Passed, HasRow, HasNumber, Explains
<1> QED
  BY <1>3, <1>4, <1>5, <1>6, <1>7, <1>8

\* The query ends at the last block mined.
LEMMA ReadLatestStep ==
  ASSUME IInv, ReadLatest
  PROVE  IInv'
<1> USE IndexerAssumption DEF ReadLatest, dbVars, IInv
<1>1. Head0(log) \in Nat
  BY ChainTypes DEF Head0
<1>2. /\ run'.pc = "query" /\ run'.last = run.last /\ run'.k = run.k
      /\ run'.latest = Head0(log) /\ run'.todo = run.todo
  BY DEF IndexerTypeOK
<1>3. IndexerTypeOK'
  BY <1>1 DEF IndexerTypeOK
<1>4. Chain'
  BY <1>1, <1>2 DEF Chain, Head0
<1>5. RowsOfChain' /\ Rest' /\ Once' /\ Resume'
  BY <1>2 DEF RowsOfChain, Rest, Querying, Once, Resume
<1>6. Quiet' /\ Delivered'
  BY <1>2 DEF Quiet, Delivered, Of, Heard, RowOf
<1>7. CreditHasRow'
  BY <1>2, NothingCredited
<1>8. Explained'
  BY DEF Explained, Passed, HasRow, HasNumber, Explains
<1> QED
  BY <1>3, <1>4, <1>5, <1>6, <1>7, <1>8

\* No event of the query has a numbered row: its block is past the last of those.
LEMMA QueryEventsStep ==
  ASSUME IInv, QueryEvents
  PROVE  IInv'
<1> USE IndexerAssumption DEF QueryEvents, dbVars, IInv
<1> DEFINE todo == {e \in DOMAIN log : InRange(e)}
<1>1. run' = [run EXCEPT !.todo = todo, !.pc = IF todo = {} THEN "on" ELSE "insert"]
  OBVIOUS
<1>2. /\ run.pc = "query" /\ run'.pc = (IF todo = {} THEN "on" ELSE "insert")
      /\ run'.last = run.last /\ run'.k = run.k /\ run'.latest = run.latest /\ run'.todo = todo
  BY <1>1 DEF IndexerTypeOK
<1>3. IndexerTypeOK'
  <2>1. todo \in SUBSET DOMAIN log
    OBVIOUS
  <2> HIDE DEF todo
  <2> QED
    BY <1>1, <2>1 DEF IndexerTypeOK
<1> HIDE DEF todo
<1>4. Chain' /\ RowsOfChain' /\ Once'
  BY <1>2 DEF Chain, Head0, RowsOfChain, Once
<1>5. Resume'
  BY <1>2 DEF Resume
<1>6. Rest'
  <2>1. \A e \in todo : ~HasNumber(e)
    <3> SUFFICES ASSUME NEW e \in todo, NEW i \in DOMAIN rows,
                        rows[i].event = e, rows[i].block # Null
                 PROVE  FALSE
      BY DEF HasNumber
    <3>1. rows[i].block = log[e].block /\ rows[i].block <= run.last
      BY DEF RowsOfChain, Resume
    <3>2. run.last < log[e].block
      BY DEF todo, InRange
    <3> QED
      BY <3>1, <3>2, RowTypes, ChainTypes, RunTypes
  <2>2. \A e \in todo : log[e].contract = Contracts[run.k] /\ log[e].block <= run.latest
    BY DEF todo, InRange
  <2>3. \A e \in DOMAIN log : log[e].contract = Contracts[run.k] /\ log[e].block <= run.latest =>
          e \in todo \/ log[e].block <= run.last
    BY ChainTypes, RunTypes DEF todo, InRange
  <2>4. run'.pc # "upsert"
    BY <1>2
  <2>5. \A e : HasNumber(e)' = HasNumber(e) /\ HasRow(e)' = HasRow(e)
    BY DEF HasNumber, HasRow
  <2> QED
    BY <1>2, <2>1, <2>2, <2>3, <2>4, <2>5 DEF Rest
<1>7. Quiet' /\ Delivered'
  BY <1>2 DEF Quiet, Delivered, Of, Heard, RowOf
<1>8. CreditHasRow'
  BY <1>2, NothingCredited
<1>9. Explained'
  BY DEF Explained, Passed, HasRow, HasNumber, Explains
<1> QED
  BY <1>3, <1>4, <1>5, <1>6, <1>7, <1>8, <1>9

\* A new start has no rows yet.
LEMMA StartStep ==
  ASSUME IInv, Start
  PROVE  IInv'
<1> USE IndexerAssumption DEF IInv
<1>1. /\ run.pc = "down" /\ starts < MaxStarts /\ starts' = starts + 1
      /\ run' = [pc |-> "last", k |-> 1, last |-> 0, latest |-> 0, todo |-> {}]
      /\ UNCHANGED <<log, rows, holders, sub, live, stats>>
  BY DEF Start, dbVars, Down
<1>2. IndexerTypeOK'
  <2>1. starts' \in 0..MaxStarts
    BY <1>1, RunTypes
  <2>2. 1 \in DOMAIN Contracts
    BY ContractTypes
  <2> QED
    BY <1>1, <2>1, <2>2 DEF IndexerTypeOK
<1>3. Chain'
  <2>1. Head0(log) \in Nat
    BY ChainTypes DEF Head0
  <2> QED
    BY <1>1, <2>1 DEF Chain, Head0
<1>4. RowsOfChain'
  BY <1>1, RowTypes, RunTypes DEF RowsOfChain
<1>5. Resume' /\ Rest' /\ Once'
  BY <1>1 DEF Resume, Rest, Querying, Once
<1>6. Quiet'
  BY <1>1 DEF Quiet, IndexerTypeOK
<1>7. Delivered'
  <2>1. \A i \in DOMAIN rows : rows[i].start # starts + 1
    BY RowTypes, RunTypes DEF RowsOfChain
  <2> QED
    BY <1>1, <2>1 DEF Delivered, Quiet, RowOf
<1>8. CreditHasRow'
  BY <1>1, NothingCredited
<1>9. Explained'
  BY <1>1 DEF Explained, Passed, HasRow, HasNumber, Explains
<1> QED
  BY <1>2, <1>3, <1>4, <1>5, <1>6, <1>7, <1>8, <1>9

\* A crash forgets credits and subscriptions, and takes nothing back.
LEMMA CrashStep ==
  ASSUME IInv, Crash
  PROVE  IInv'
<1> USE IndexerAssumption DEF Crash, dbVars, IInv
<1>1. /\ run' = [pc |-> "down", k |-> 1, last |-> 0, latest |-> 0, todo |-> {}]
      /\ live' = {} /\ sub' = [k \in DOMAIN Contracts |-> [on |-> "no", seen |-> 0]]
  BY DEF Down, NoSub
<1>2. IndexerTypeOK'
  <2>1. 1 \in DOMAIN Contracts
    BY ContractTypes
  <2> QED
    BY <1>1, <2>1 DEF IndexerTypeOK
<1>3. Chain'
  <2>1. Head0(log) \in Nat
    BY ChainTypes DEF Head0
  <2> QED
    BY <1>1, <2>1 DEF Chain, Head0
<1>4. RowsOfChain' /\ Resume' /\ Rest' /\ Once'
  BY <1>1 DEF RowsOfChain, Resume, Rest, Querying, Once
<1>5. Quiet' /\ Delivered'
  BY <1>1 DEF Quiet, Delivered
<1>6. CreditHasRow'
  <2> SUFFICES ASSUME NEW a \in Holders
               PROVE  (holders[a] + Crediting(a) <= Rows(a))'
    BY DEF CreditHasRow
  <2>1. Rows(a)' = Rows(a)
    BY DEF Rows
  <2>2. Crediting(a)' = 0
    <3>1. {t \in live' : t.pc = "upsert" /\ log'[t.event].to = a} = {}
      BY <1>1
    <3>2. run'.pc # "upsert"
      BY <1>1
    <3> QED
      BY <3>1, <3>2, FS_EmptySet DEF Crediting
  <2>3. Crediting(a) \in Nat
    BY CreditingType
  <2>4. Rows(a) \in Nat
    BY RowsType
  <2>5. holders[a] \in Nat
    BY DEF IndexerTypeOK
  <2> QED
    BY <2>1, <2>2, <2>3, <2>4, <2>5 DEF CreditHasRow
<1>7. Explained'
  BY DEF Explained, Passed, HasRow, HasNumber, Explains
<1> QED
  BY <1>2, <1>3, <1>4, <1>5, <1>6, <1>7

\* A subscription that is asked for delivers nothing yet.
LEMMA SubscribeStep ==
  ASSUME IInv, Subscribe
  PROVE  IInv'
<1> USE IndexerAssumption DEF IInv
<1>1. /\ run.pc = "on" /\ run'.pc \in {"last", "live"} /\ run'.latest \in {0, run.latest}
      /\ run' \in [pc : {"last", "live"}, k : DOMAIN Contracts, last : Nat,
                   latest : Nat, todo : SUBSET DOMAIN log]
      /\ run'.pc = "last" => run'.k = run.k + 1
  <2>1. CASE run.k < Len(Contracts)
    <3> DEFINE next == [pc |-> "last", k |-> run.k + 1, last |-> 0, latest |-> 0, todo |-> {}]
    <3>1. run' = next /\ run.pc = "on"
      BY <2>1 DEF Subscribe, Down
    <3>2. run.k + 1 \in DOMAIN Contracts
      BY <2>1, RunTypes, ContractTypes
    <3>3. next \in [pc : {"last", "live"}, k : DOMAIN Contracts, last : Nat,
                    latest : Nat, todo : SUBSET DOMAIN log]
      BY <3>2
    <3> QED
      BY <3>1, <3>3
  <2>2. CASE ~(run.k < Len(Contracts))
    <3>1. run' = [run EXCEPT !.pc = "live"] /\ run.pc = "on"
      BY <2>2 DEF Subscribe
    <3> QED
      BY <3>1 DEF IndexerTypeOK
  <2> QED
    BY <2>1, <2>2
<1>2. /\ sub' = [sub EXCEPT ![run.k] = [on |-> "asked", seen |-> 0]]
      /\ UNCHANGED <<log, rows, holders, live, starts, stats>>
      /\ \A j \in DOMAIN Contracts : j # run.k => sub'[j] = sub[j]
      /\ sub'[run.k] = [on |-> "asked", seen |-> 0]
  <2>1. /\ sub' = [sub EXCEPT ![run.k] = [on |-> "asked", seen |-> 0]]
        /\ UNCHANGED <<log, rows, holders, live, starts, stats>>
    BY DEF Subscribe, dbVars
  <2> QED
    BY <2>1 DEF IndexerTypeOK
<1>3. IndexerTypeOK'
  BY <1>1, <1>2 DEF IndexerTypeOK
<1>4. Chain'
  <2>1. Head0(log) \in Nat
    BY ChainTypes DEF Head0
  <2> QED
    BY <1>1, <1>2, <2>1 DEF Chain, Head0
<1>5. RowsOfChain' /\ Resume' /\ Rest' /\ Once'
  BY <1>1, <1>2 DEF RowsOfChain, Resume, Rest, Querying, Once
<1>6. Quiet'
  BY <1>1, <1>2, RunTypes, ContractTypes DEF Quiet
<1>7. Delivered'
  <2>1. \A k \in DOMAIN Contracts : \A e : sub[k].on = "no" => ~Heard(k, e)
    BY DEF Heard
  <2>2. sub[run.k].on = "no" /\ run.pc # "down"
    BY <1>1, RunTypes, ContractTypes DEF Quiet
  <2>3. \A k \in DOMAIN Contracts : \A e : k # run.k => Heard(k, e)' = Heard(k, e)
    BY <1>2 DEF Heard
  <2>4. \A t \in live : t.event \in DOMAIN log
    BY DEF IndexerTypeOK
  <2>5. \A t \in live, k \in DOMAIN Contracts : Of(k, t.event) => Heard(k, t.event)'
    BY <2>1, <2>2, <2>3 DEF Delivered
  <2>6. \A i \in DOMAIN rows, k \in DOMAIN Contracts :
          RowOf(i, rows[i].event) /\ Of(k, rows[i].event)
            /\ (rows[i].block = Null \/ sub'[k].on = "on") => Heard(k, rows[i].event)'
    <3> SUFFICES ASSUME NEW i \in DOMAIN rows, NEW k \in DOMAIN Contracts,
                        RowOf(i, rows[i].event), Of(k, rows[i].event),
                        rows[i].block = Null \/ sub'[k].on = "on"
                 PROVE  Heard(k, rows[i].event)'
      OBVIOUS
    <3>1. k # run.k
      BY <1>2, <2>1, <2>2 DEF Delivered
    <3>2. sub'[k] = sub[k]
      BY <1>2, <3>1
    <3>3. Heard(k, rows[i].event)
      BY <2>2, <3>2 DEF Delivered
    <3> QED
      BY <1>1, <1>2, <3>2, <3>3 DEF Heard
  <2> QED
    BY <1>1, <1>2, <2>2, <2>5, <2>6 DEF Delivered, Of, RowOf
<1>8. CreditHasRow'
  BY <1>1, <1>2, NothingCredited
<1>9. Explained'
  BY <1>2 DEF Explained, Passed, HasRow, HasNumber, Explains
<1> QED
  BY <1>3, <1>4, <1>5, <1>6, <1>7, <1>8, <1>9

\* One that is made has passed every event the query took.
LEMMA SubscribedStep ==
  ASSUME IInv, NEW k \in DOMAIN Contracts, Subscribed(k)
  PROVE  IInv'
<1> USE IndexerAssumption DEF Subscribed, dbVars, IInv
<1>1. sub[k].on = "asked" /\ sub' = [sub EXCEPT ![k] = [on |-> "on", seen |-> Len(log)]]
  OBVIOUS
<1>2. /\ \A j \in DOMAIN Contracts : j # k => sub'[j] = sub[j]
      /\ sub'[k].on = "on" /\ sub'[k].seen = Len(log)
  BY <1>1 DEF IndexerTypeOK
<1>3. IndexerTypeOK'
  <2>1. [on |-> "on", seen |-> Len(log)] \in [on : {"no", "asked", "on"}, seen : Nat]
    BY ChainTypes
  <2>2. sub' \in [DOMAIN Contracts -> [on : {"no", "asked", "on"}, seen : Nat]]
    BY <1>1, <2>1 DEF IndexerTypeOK
  <2>3. UNCHANGED <<log, rows, holders, run, live, starts, stats>>
    OBVIOUS
  <2> QED
    BY <2>2, <2>3 DEF IndexerTypeOK
<1>4. Chain' /\ RowsOfChain' /\ Resume' /\ Rest' /\ Once'
  BY DEF Chain, Head0, RowsOfChain, Resume, Rest, Querying, Once, HasRow, HasNumber, First
<1>5. Quiet'
  BY <1>1, <1>2 DEF Quiet
<1>6. Delivered'
  <2>1. \A e \in DOMAIN log : Heard(k, e)'
    BY <1>2, ChainTypes DEF Heard
  <2>2. \A j \in DOMAIN Contracts : \A e : j # k => Heard(j, e)' = Heard(j, e)
    BY <1>2 DEF Heard
  <2>3. \A t \in live : t.event \in DOMAIN log
    BY DEF IndexerTypeOK
  <2> QED
    BY <1>1, <1>2, <2>1, <2>2, <2>3, RowTypes DEF Delivered, Of, RowOf
<1>7. CreditHasRow'
  BY DEF CreditHasRow, Crediting, Rows, First
<1>8. Explained'
  BY DEF Explained, Passed, HasRow, HasNumber, Explains
<1> QED
  BY <1>3, <1>4, <1>5, <1>6, <1>7, <1>8

-----------------------------------------------------------------------------
(* Steps that write the tables *)

\* What INSERT INTO events adds to the rows.
LEMMA NewRow ==
  ASSUME IndexerTypeOK, NEW e \in DOMAIN log, NEW b \in Nat, InsertRow(e, b), log' = log, starts > 0
  PROVE  /\ DOMAIN rows' = (DOMAIN rows) \cup {Len(rows) + 1} /\ Len(rows) + 1 \notin DOMAIN rows
         /\ \A i \in DOMAIN rows : rows'[i] = rows[i]
         /\ rows'[Len(rows) + 1].event = e /\ rows'[Len(rows) + 1].block = b
         /\ rows'[Len(rows) + 1].start = starts
         /\ rows' \in Seq([event : DOMAIN log, block : Nat, start : 1..MaxStarts])
<1> DEFINE row == [event |-> e, block |-> b, start |-> starts]
<1>1. row \in EventRows
  BY RunTypes DEF EventRows
<1>2. rows' = Append(rows, row)
  BY DEF InsertRow
<1>3. row.event = e /\ row.block = b /\ row.start = starts
  OBVIOUS
<1> HIDE DEF row
<1>4. rows' \in Seq(EventRows)
  BY <1>1, <1>2, RowTypes
<1>5. /\ Len(rows') = Len(rows) + 1 /\ DOMAIN rows' = 1..(Len(rows) + 1)
      /\ \A i \in 1..Len(rows) : rows'[i] = rows[i]
      /\ rows'[Len(rows) + 1] = row
  BY <1>1, <1>2, RowTypes
<1> QED
  BY <1>3, <1>4, <1>5, RowTypes DEF EventRows

\* The rows of an address after it.
LEMMA NewRowCounted ==
  ASSUME IndexerTypeOK, NEW e \in DOMAIN log, NEW b \in Nat, InsertRow(e, b), log' = log, starts > 0,
         NEW a \in Holders
  PROVE  Rows(a)' = Rows(a) + (IF log[e].to = a THEN 1 ELSE 0)
<1> DEFINE Mine == {i \in DOMAIN rows : log[rows[i].event].to = a}
           After == {i \in DOMAIN rows' : log'[rows'[i].event].to = a}
           n == Len(rows) + 1
<1>1. IsFiniteSet(Mine) /\ n \notin Mine /\ Cardinality(Mine) \in Nat
  BY NewRow, RowsType DEF Rows
<1>2. CASE log[e].to = a
  <2>1. After = Mine \cup {n}
    BY <1>2, NewRow
  <2> QED
    BY <1>1, <1>2, <2>1, FS_AddElement DEF Rows
<1>3. CASE log[e].to # a
  <2>1. After = Mine
    BY <1>3, NewRow
  <2>2. Rows(a)' = Rows(a)
    BY <2>1 DEF Rows
  <2>3. Rows(a) \in Nat /\ (IF log[e].to = a THEN 1 ELSE 0) = 0
    BY <1>3, RowsType
  <2> QED
    BY <2>2, <2>3
<1> QED
  BY <1>2, <1>3

\* A row takes nothing from what is known of rows and of events that have one.
LEMMA RowsGrow ==
  ASSUME IndexerTypeOK, NEW e \in DOMAIN log, NEW b \in Nat, InsertRow(e, b), log' = log, starts > 0
  PROVE  /\ \A f : HasRow(f)' <=> HasRow(f) \/ f = e
         /\ \A f : HasNumber(f)' <=> HasNumber(f) \/ (f = e /\ b # Null)
BY NewRow DEF HasRow, HasNumber

\* One more row that repeats none keeps the rows unique.
LEMMA OnceMore ==
  ASSUME Once, NEW n, n \notin DOMAIN rows, DOMAIN rows' = (DOMAIN rows) \cup {n},
         \A i \in DOMAIN rows : rows'[i] = rows[i],
         \A i \in DOMAIN rows :
           ~ (/\ rows[i].event = rows'[n].event
              /\ \/ rows[i].start = rows'[n].start
                 \/ rows[i].block # Null /\ rows'[n].block # Null)
  PROVE  Once'
<1> SUFFICES ASSUME NEW i \in DOMAIN rows', NEW j \in DOMAIN rows',
                    rows'[i].event = rows'[j].event,
                    \/ rows'[i].start = rows'[j].start
                    \/ rows'[i].block # Null /\ rows'[j].block # Null
             PROVE  i = j
  BY DEF Once
<1>1. CASE i \in DOMAIN rows /\ j \in DOMAIN rows
  BY <1>1 DEF Once
<1>2. CASE i = n \/ j = n
  BY <1>2
<1> QED
  BY <1>1, <1>2

\* The query's next event is recorded: no listener has it, and what it passes over has a reason.
LEMMA InsertHistoricStep ==
  ASSUME IInv, NEW e \in run.todo, InsertHistoric(e)
  PROVE  IInv'
<1> USE DEF IInv
<1> DEFINE n == Len(rows) + 1
<1>1. /\ run.pc = "insert" /\ First(e) /\ InsertRow(e, log[e].block)
      /\ run' = [run EXCEPT !.pc = "upsert"] /\ starts > 0
      /\ UNCHANGED <<log, holders, sub, live, starts, stats>>
  BY DEF InsertHistoric, Quiet
<1>2. /\ e \in DOMAIN log /\ log[e].block \in Nat \ {0} /\ log[e].contract = Contracts[run.k]
      /\ log[e].block <= run.latest
  BY <1>1, RunTypes, ChainTypes DEF Rest, Querying
<1>3. /\ run'.pc = "upsert" /\ run'.k = run.k /\ run'.last = run.last
      /\ run'.latest = run.latest /\ run'.todo = run.todo
  BY <1>1 DEF IndexerTypeOK
<1>4. /\ DOMAIN rows' = (DOMAIN rows) \cup {n} /\ n \notin DOMAIN rows
      /\ \A i \in DOMAIN rows : rows'[i] = rows[i]
      /\ rows'[n].event = e /\ rows'[n].block = log[e].block /\ rows'[n].start = starts
      /\ rows' \in Seq([event : DOMAIN log, block : Nat, start : 1..MaxStarts])
  BY <1>1, <1>2, NewRow
<1>5. /\ \A f : HasRow(f)' <=> HasRow(f) \/ f = e
      /\ \A f : HasNumber(f)' <=> HasNumber(f) \/ f = e
  BY <1>1, <1>2, RowsGrow DEF Null
<1>6. ~HasNumber(e) /\ \A f \in run.todo : First(f) => f = e
  <2>1. \A f \in run.todo : f \in Nat /\ f \in DOMAIN log
    BY RunTypes, ChainTypes
  <2> QED
    BY <1>1, <2>1 DEF Rest, Querying, First
<1>7. sub[run.k].on = "no" /\ \A k \in DOMAIN Contracts : Of(k, e) => k = run.k
  BY <1>1, <1>2, RunTypes, ContractTypes DEF Quiet, Of
<1> HIDE DEF n
<1>8. IndexerTypeOK'
  BY <1>1, <1>4 DEF IndexerTypeOK
<1>9. Chain' /\ RowsOfChain' /\ Resume'
  <2>1. Chain'
    BY <1>1, <1>3 DEF Chain, Head0
  <2>2. RowsOfChain'
    <3>1. rows'[n].block \in {Null, log[rows'[n].event].block} /\ rows'[n].start <= starts
      BY <1>4, RunTypes
    <3> QED
      BY <1>1, <1>4, <3>1 DEF RowsOfChain
  <2>3. Resume'
    BY <1>1, <1>3, <1>4 DEF Resume
  <2> QED
    BY <2>1, <2>2, <2>3
<1>10. Rest'
  BY <1>1, <1>3, <1>5, <1>6 DEF Rest, Querying, First
<1>11. Once'
  <2>1. ASSUME NEW i \in DOMAIN rows, rows[i].event = e,
               rows[i].start = starts \/ rows[i].block # Null
        PROVE  FALSE
    <3>1. rows[i].block = Null /\ RowOf(i, e)
      BY <1>6, <2>1 DEF HasNumber, RowOf
    <3>2. Heard(run.k, e)
      BY <1>1, <1>2, <2>1, <3>1, RunTypes DEF Delivered, Of
    <3> QED
      BY <1>7, <3>2 DEF Heard
  <2> QED
    BY <1>1, <1>4, <2>1, OnceMore
<1>12. Quiet' /\ Delivered'
  <2>1. \A t \in live : t.event # e
    BY <1>1, <1>2, <1>7, RunTypes DEF Delivered, Of, Heard
  <2>2. \A k \in DOMAIN Contracts : Of(k, e) => sub[k].on = "no"
    BY <1>7
  <2> QED
    BY <1>1, <1>2, <1>3, <1>4, <2>1, <2>2 DEF Quiet, Delivered, Of, Heard, RowOf, Null
<1>13. CreditHasRow'
  <2> SUFFICES ASSUME NEW a \in Holders
               PROVE  (holders[a] + Crediting(a) <= Rows(a))'
    BY DEF CreditHasRow
  <2>1. Rows(a)' = Rows(a) + (IF log[e].to = a THEN 1 ELSE 0)
    BY <1>1, <1>2, NewRowCounted
  <2>2. Crediting(a)' = Crediting(a) + (IF log[e].to = a THEN 1 ELSE 0)
    <3> DEFINE c == Cardinality({t \in live : t.pc = "upsert" /\ log[t.event].to = a})
    <3>1. Crediting(a) = 0 + c
      BY <1>1 DEF Crediting
    <3>2. (\E f \in run.todo : First(f) /\ log[f].to = a) <=> log[e].to = a
      BY <1>1, <1>6
    <3>3. Crediting(a)' = (IF log[e].to = a THEN 1 ELSE 0) + c
      BY <1>1, <1>3, <3>2 DEF Crediting, First
    <3>4. c \in Nat
      BY CreditingType
    <3> HIDE DEF c
    <3> QED
      BY <3>1, <3>3, <3>4
  <2>3. holders[a] \in Nat /\ holders' = holders
    BY <1>1 DEF IndexerTypeOK
  <2>4. holders[a] + Crediting(a) <= Rows(a) /\ Crediting(a) \in Nat /\ Rows(a) \in Nat
    BY CreditingType, RowsType DEF CreditHasRow
  <2> QED
    BY <2>1, <2>2, <2>3, <2>4
<1>14. Explained'
  <2> SUFFICES ASSUME NEW f \in DOMAIN log, Passed(f)'
               PROVE  \E g \in DOMAIN log : HasNumber(g)' /\ Explains(g, f)
    BY <1>1 DEF Explained, Explains
  <2>1. ~HasRow(f) /\ f # e
    BY <1>5 DEF Passed
  <2>2. CASE \E i \in DOMAIN rows : log[f].block < rows[i].block
    BY <1>5, <2>1, <2>2 DEF Explained, Passed
  <2>3. CASE log[f].block < log[e].block /\ log[f].contract # log[e].contract
    BY <1>2, <1>5, <2>3, ChainTypes DEF Explains
  <2>4. CASE log[f].block < log[e].block /\ log[f].contract = log[e].contract
    <3>1. f \notin run.todo
      BY <1>1, <1>2, <2>4, ChainTypes DEF Chain, First
    <3>2. log[f].block <= run.last
      BY <1>1, <1>2, <2>1, <2>4, <3>1, ChainTypes, RunTypes DEF Rest, Querying
    <3>3. PICK i \in DOMAIN rows : rows[i].block = run.last
      BY <1>1, <3>2, ChainTypes DEF Resume
    <3>4. /\ rows[i].event \in DOMAIN log /\ HasNumber(rows[i].event)
          /\ log[rows[i].event].block = run.last
      BY <3>2, <3>3, ChainTypes, RowTypes DEF RowsOfChain, HasNumber, Null
    <3>5. CASE log[f].block = run.last
      BY <1>5, <3>4, <3>5, ChainTypes DEF Explains
    <3>6. CASE log[f].block # run.last
      <4>1. log[f].block < rows[i].block
        BY <3>2, <3>3, <3>6, ChainTypes, RunTypes
      <4> QED
        BY <2>2, <4>1
    <3> QED
      BY <3>5, <3>6
  <2>5. (\E i \in DOMAIN rows : log[f].block < rows[i].block) \/ log[f].block < log[e].block
    BY <1>1, <1>4 DEF Passed
  <2> QED
    BY <2>2, <2>3, <2>4, <2>5
<1> QED
  BY <1>8, <1>9, <1>10, <1>11, <1>12, <1>13, <1>14


\* What the upsert of holders adds to the balances.
LEMMA NewBalance ==
  ASSUME IndexerTypeOK, NEW e \in DOMAIN log, UpsertHolder(e), NEW a \in Holders
  PROVE  /\ holders' \in [Holders -> Nat]
         /\ holders'[a] = holders[a] + (IF log[e].to = a THEN 1 ELSE 0)
<1> DEFINE to == log[e].to
<1>1. to \in Holders
  BY ChainTypes
<1>2. holders \in [Holders -> Nat] /\ holders' = [holders EXCEPT ![to] = @ + 1]
  BY DEF UpsertHolder, IndexerTypeOK
<1> HIDE DEF to
<1>3. holders' \in [Holders -> Nat] /\ holders'[a] = holders[a] + (IF to = a THEN 1 ELSE 0)
  BY <1>1, <1>2
<1> QED
  BY <1>3 DEF to

\* Its receiver is credited, for which the row is there.
LEMMA UpsertHistoricStep ==
  ASSUME IInv, NEW e \in run.todo, UpsertHistoric(e)
  PROVE  IInv'
<1> USE DEF IInv
<1>1. /\ run.pc = "upsert" /\ First(e) /\ UpsertHolder(e)
      /\ run' = [run EXCEPT !.todo = @ \ {e}, !.pc = IF run.todo = {e} THEN "on" ELSE "insert"]
      /\ UNCHANGED <<log, rows, sub, live, starts, stats>>
  BY DEF UpsertHistoric
<1>2. /\ e \in DOMAIN log /\ HasNumber(e)
  BY <1>1, RunTypes DEF Rest, Querying
<1>3. /\ run'.pc \in {"insert", "on"} /\ run'.k = run.k /\ run'.last = run.last
      /\ run'.latest = run.latest /\ run'.todo = run.todo \ {e}
  BY <1>1 DEF IndexerTypeOK
<1>4. \A f \in run.todo : First(f) => f = e
  <2>1. \A f \in run.todo : f \in Nat
    BY RunTypes, ChainTypes
  <2> QED
    BY <1>1, <2>1 DEF First
<1>5. IndexerTypeOK'
  <2>1. holders' \in [Holders -> Nat]
    <3>1. log[e].to \in Holders
      BY <1>2, ChainTypes
    <3> QED
      BY <1>1, <1>2, <3>1, NewBalance
  <2>2. run' \in [pc : {"down", "last", "latest", "query", "insert", "upsert", "on", "live"},
                  k : DOMAIN Contracts, last : Nat, latest : Nat, todo : SUBSET DOMAIN log]
    BY <1>1 DEF IndexerTypeOK
  <2> QED
    BY <1>1, <2>1, <2>2 DEF IndexerTypeOK
<1>6. Chain' /\ RowsOfChain' /\ Resume' /\ Once' /\ Explained'
  BY <1>1, <1>3 DEF Chain, Head0, RowsOfChain, Resume, Once, Explained, Passed, HasRow, HasNumber, Explains
<1>7. Rest'
  <2>1. \A f : (HasNumber(f)' <=> HasNumber(f)) /\ (HasRow(f)' <=> HasRow(f))
    BY <1>1 DEF HasNumber, HasRow
  <2>2. HasRow(e)
    BY <1>2 DEF HasRow, HasNumber
  <2> QED
    BY <1>1, <1>3, <1>4, <2>1, <2>2 DEF Rest, Querying
<1>8. Quiet' /\ Delivered'
  BY <1>1, <1>3 DEF Quiet, Delivered, Of, Heard, RowOf
<1>9. CreditHasRow'
  <2> SUFFICES ASSUME NEW a \in Holders
               PROVE  (holders[a] + Crediting(a) <= Rows(a))'
    BY DEF CreditHasRow
  <2>1. holders'[a] = holders[a] + (IF log[e].to = a THEN 1 ELSE 0)
    BY <1>1, <1>2, NewBalance
  <2>2. /\ Crediting(a) = (IF log[e].to = a THEN 1 ELSE 0) + Crediting(a)'
        /\ Crediting(a)' \in Nat
    <3> DEFINE c == Cardinality({t \in live : t.pc = "upsert" /\ log[t.event].to = a})
    <3>1. (\E f \in run.todo : First(f) /\ log[f].to = a) <=> log[e].to = a
      BY <1>1, <1>4
    <3>2. Crediting(a) = (IF log[e].to = a THEN 1 ELSE 0) + c
      BY <1>1, <3>1 DEF Crediting
    <3>3. Crediting(a)' = 0 + c
      BY <1>1, <1>3 DEF Crediting
    <3>4. c \in Nat
      BY CreditingType
    <3> HIDE DEF c
    <3> QED
      BY <3>2, <3>3, <3>4
  <2>3. Rows(a)' = Rows(a)
    BY <1>1 DEF Rows
  <2>4. holders[a] + Crediting(a) <= Rows(a) /\ holders[a] \in Nat /\ Rows(a) \in Nat
    BY RowsType DEF CreditHasRow, IndexerTypeOK
  <2> QED
    BY <2>1, <2>2, <2>3, <2>4
<1> QED
  BY <1>5, <1>6, <1>7, <1>8, <1>9

\* A listener gets an event later than all this start has recorded of its contract.
LEMMA DeliverStep ==
  ASSUME IInv, NEW k \in DOMAIN Contracts, Deliver(k)
  PROVE  IInv'
<1> USE DEF IInv
<1>1. PICK e \in Undelivered(k) :
        /\ sub' = [sub EXCEPT ![k].seen = e]
        /\ live' = live \cup {[event |-> e, pc |-> "insert"]}
  BY DEF Deliver
<1>2. sub[k].on = "on" /\ UNCHANGED <<log, rows, holders, run, starts, stats>>
  BY DEF Deliver, dbVars
<1>3. e \in DOMAIN log /\ e \in Nat /\ e > sub[k].seen /\ log[e].contract = Contracts[k]
  BY ChainTypes DEF Undelivered
<1>4. /\ \A j \in DOMAIN Contracts : sub'[j].on = sub[j].on /\ (j # k => sub'[j] = sub[j])
      /\ sub'[k].seen = e
  <2>1. sub \in [DOMAIN Contracts -> [on : {"no", "asked", "on"}, seen : Nat]]
    BY DEF IndexerTypeOK
  <2> QED
    BY <1>1, <1>3, <2>1
<1>5. IndexerTypeOK'
  <2>1. sub' \in [DOMAIN Contracts -> [on : {"no", "asked", "on"}, seen : Nat]]
    <3>1. sub \in [DOMAIN Contracts -> [on : {"no", "asked", "on"}, seen : Nat]]
      BY DEF IndexerTypeOK
    <3> QED
      BY <1>1, <1>3, <3>1
  <2>2. live' \subseteq [event : DOMAIN log, pc : {"insert", "upsert"}]
    BY <1>1, <1>3 DEF IndexerTypeOK
  <2> QED
    BY <1>2, <2>1, <2>2 DEF IndexerTypeOK
<1>6. Chain' /\ RowsOfChain' /\ Resume' /\ Rest' /\ Once' /\ Explained'
  BY <1>2 DEF Chain, Head0, RowsOfChain, Resume, Rest, Querying, First, Once, Explained, Passed,
              HasRow, HasNumber, Explains
<1>7. run.pc # "down"
  BY <1>2, ContractTypes DEF Quiet
<1>8. Quiet'
  BY <1>2, <1>4, <1>7 DEF Quiet
<1>9. Delivered'
  <2>1. \A j \in DOMAIN Contracts, f \in DOMAIN log : Heard(j, f) => Heard(j, f)'
    BY <1>3, <1>4, RunTypes, ChainTypes DEF Heard
  <2>2. \A j \in DOMAIN Contracts : Of(j, e) => j = k
    BY <1>3, ContractTypes DEF Of
  <2>3. Heard(k, e)' /\ ~Heard(k, e)
    BY <1>2, <1>3, <1>4, RunTypes DEF Heard
  <2>4. \A i \in DOMAIN rows : ~RowOf(i, e)
    BY <1>2, <1>3, <1>7, <2>3 DEF Delivered, Of, RowOf
  <2>5. \A t \in live : t.event \in DOMAIN log
    BY DEF IndexerTypeOK
  <2>6. \A t \in live' : t \in live \/ (t.event = e /\ t.pc = "insert")
    BY <1>1
  <2> QED
    BY <1>2, <1>4, <1>7, <2>1, <2>2, <2>3, <2>4, <2>5, <2>6, RowTypes DEF Delivered, Of, RowOf
<1>10. CreditHasRow'
  <2>1. \A a : {t \in live' : t.pc = "upsert" /\ log'[t.event].to = a}
                 = {t \in live : t.pc = "upsert" /\ log[t.event].to = a}
    BY <1>1, <1>2
  <2> QED
    BY <1>2, <2>1 DEF CreditHasRow, Crediting, Rows, First
<1> QED
  BY <1>5, <1>6, <1>8, <1>9, <1>10


\* A listener records an event that this start has not recorded.
LEMMA InsertLiveStep ==
  ASSUME IInv, NEW e \in DOMAIN log, InsertLive(e)
  PROVE  IInv'
<1> USE DEF IInv
<1> DEFINE n == Len(rows) + 1
           asked == [event |-> e, pc |-> "insert"]
           written == [event |-> e, pc |-> "upsert"]
<1>1. /\ asked \in live /\ InsertRow(e, Null) /\ live' = (live \ {asked}) \cup {written}
      /\ UNCHANGED <<log, holders, run, sub, starts, stats>>
  BY DEF InsertLive
<1>2. run.pc # "down" /\ starts > 0
  BY <1>1 DEF Quiet
<1>3. Null \in Nat
  BY DEF Null
<1>4. /\ DOMAIN rows' = (DOMAIN rows) \cup {n} /\ n \notin DOMAIN rows
      /\ \A i \in DOMAIN rows : rows'[i] = rows[i]
      /\ rows'[n].event = e /\ rows'[n].block = Null /\ rows'[n].start = starts
      /\ rows' \in Seq([event : DOMAIN log, block : Nat, start : 1..MaxStarts])
  BY <1>1, <1>2, <1>3, NewRow
<1>5. \A f : (HasRow(f)' <=> HasRow(f) \/ f = e) /\ (HasNumber(f)' <=> HasNumber(f))
  BY <1>1, <1>2, <1>3, RowsGrow
<1>6. /\ \A k \in DOMAIN Contracts : Of(k, e) => Heard(k, e)
      /\ \A i \in DOMAIN rows : ~RowOf(i, e)
  BY <1>1, <1>2 DEF Delivered
<1>7. \A t \in live' : (t \in live /\ t # asked) \/ (t.event = e /\ t.pc = "upsert")
  BY <1>1
<1>8. \A t \in live' : t.pc = "insert" => t \in live /\ t.event # e
  <2>1. \A t \in live : t.pc = "insert" /\ t.event = e => t = asked
    BY DEF IndexerTypeOK
  <2> QED
    BY <1>7, <2>1
<1> HIDE DEF n
<1>9. IndexerTypeOK'
  <2>1. live' \subseteq [event : DOMAIN log, pc : {"insert", "upsert"}]
    BY <1>1 DEF IndexerTypeOK
  <2> HIDE DEF asked, written
  <2> QED
    BY <1>1, <1>4, <2>1 DEF IndexerTypeOK
<1> HIDE DEF asked, written
<1>10. Chain' /\ RowsOfChain' /\ Resume'
  <2>1. Chain'
    BY <1>1 DEF Chain, Head0
  <2>2. RowsOfChain'
    <3>1. rows'[n].block \in {Null, log[rows'[n].event].block} /\ rows'[n].start <= starts
      BY <1>4, RunTypes
    <3> QED
      BY <1>1, <1>4, <3>1 DEF RowsOfChain
  <2>3. Resume'
    <3>1. rows'[n].block <= run.last
      BY <1>4, RunTypes DEF Null
    <3> QED
      BY <1>1, <1>4, <3>1 DEF Resume
  <2> QED
    BY <2>1, <2>2, <2>3
<1>11. Rest'
  BY <1>1, <1>5 DEF Rest, Querying, First
<1>12. Once'
  BY <1>1, <1>4, <1>6, OnceMore DEF RowOf
<1>13. Quiet'
  BY <1>1, <1>2 DEF Quiet
<1>14. Delivered'
  <2>1. \A t \in live', k \in DOMAIN Contracts : Of(k, t.event) => Heard(k, t.event)
    BY <1>2, <1>6, <1>7 DEF Delivered
  <2>2. \A t \in live', i \in DOMAIN rows' : t.pc = "insert" => ~RowOf(i, t.event)'
    BY <1>1, <1>2, <1>4, <1>8 DEF Delivered, RowOf
  <2>3. \A i \in DOMAIN rows', k \in DOMAIN Contracts :
          RowOf(i, rows[i].event)' /\ Of(k, rows'[i].event)
            /\ (rows'[i].block = Null \/ sub[k].on = "on") => Heard(k, rows'[i].event)
    BY <1>1, <1>2, <1>4, <1>6 DEF Delivered, RowOf
  <2> QED
    BY <1>1, <2>1, <2>2, <2>3 DEF Delivered, Of, Heard, RowOf
<1>15. CreditHasRow'
  <2> SUFFICES ASSUME NEW a \in Holders
               PROVE  (holders[a] + Crediting(a) <= Rows(a))'
    BY DEF CreditHasRow
  <2> DEFINE S == {t \in live : t.pc = "upsert" /\ log[t.event].to = a}
             T == {t \in live' : t.pc = "upsert" /\ log'[t.event].to = a}
             x == IF run.pc = "upsert" /\ (\E f \in run.todo : First(f) /\ log[f].to = a) THEN 1 ELSE 0
             y == IF log[e].to = a THEN 1 ELSE 0
  <2>1. Rows(a)' = Rows(a) + y
    BY <1>1, <1>2, <1>3, NewRowCounted
  <2>2. IsFiniteSet(S) /\ Cardinality(S) \in Nat
    BY CreditingType, FS_Subset
  <2>3. Cardinality(T) \in Nat /\ Cardinality(T) <= Cardinality(S) + y
    <3>1. CASE log[e].to = a
      <4>1. T \subseteq S \cup {written}
        BY <1>1
      <4> HIDE DEF S, T
      <4>2. IsFiniteSet(S \cup {written}) /\ Cardinality(S \cup {written}) <= Cardinality(S) + 1
        <5>1. /\ IsFiniteSet(S \cup {written})
              /\ Cardinality(S \cup {written}) =
                   IF written \in S THEN Cardinality(S) ELSE Cardinality(S) + 1
          BY <2>2, FS_AddElement
        <5> QED
          BY <2>2, <5>1
      <4>3. Cardinality(S \cup {written}) \in Nat
        BY <4>2, FS_CardinalityType
      <4>4. IsFiniteSet(T) /\ Cardinality(T) <= Cardinality(S \cup {written})
        BY <4>1, <4>2, FS_Subset
      <4>5. Cardinality(T) \in Nat
        BY <4>4, FS_CardinalityType
      <4> QED
        BY <2>2, <3>1, <4>2, <4>3, <4>4, <4>5
    <3>2. CASE log[e].to # a
      <4>1. T \subseteq S
        BY <1>1, <1>7, <3>2
      <4>2. IsFiniteSet(T) /\ Cardinality(T) <= Cardinality(S)
        BY <2>2, <4>1, FS_Subset
      <4>3. Cardinality(T) \in Nat
        BY <4>2, FS_CardinalityType
      <4> QED
        BY <2>2, <3>2, <4>2, <4>3
    <3> QED
      BY <3>1, <3>2
  <2>4. Crediting(a) = x + Cardinality(S) /\ Crediting(a)' = x + Cardinality(T)
    BY <1>1 DEF Crediting, First
  <2>5. holders'[a] = holders[a] /\ holders[a] \in Nat /\ Rows(a) \in Nat
    BY <1>1, RowsType DEF IndexerTypeOK
  <2>6. holders[a] + Crediting(a) <= Rows(a) /\ x \in Nat /\ y \in Nat
    BY DEF CreditHasRow
  <2> HIDE DEF S, T, x, y
  <2> QED
    BY <2>1, <2>2, <2>3, <2>4, <2>5, <2>6
<1>16. Explained'
  <2>1. \A f \in DOMAIN log : ~(log[f].block < rows'[n].block)
    BY <1>4, ChainTypes DEF Null
  <2> QED
    BY <1>1, <1>4, <1>5, <2>1 DEF Explained, Passed, Explains
<1> QED
  BY <1>9, <1>10, <1>11, <1>12, <1>13, <1>14, <1>15, <1>16


\* It credits the receiver.
LEMMA UpsertLiveStep ==
  ASSUME IInv, NEW e \in DOMAIN log, UpsertLive(e)
  PROVE  IInv'
<1> USE DEF IInv
<1> DEFINE written == [event |-> e, pc |-> "upsert"]
<1>1. /\ written \in live /\ UpsertHolder(e) /\ live' = live \ {written}
      /\ UNCHANGED <<log, rows, run, sub, starts, stats>>
  BY DEF UpsertLive
<1>2. written.event = e /\ written.pc = "upsert"
  OBVIOUS
<1> HIDE DEF written
<1>3. IndexerTypeOK'
  <2>1. holders' \in [Holders -> Nat]
    BY <1>1, ChainTypes, NewBalance
  <2> QED
    BY <1>1, <2>1 DEF IndexerTypeOK
<1>4. Chain' /\ RowsOfChain' /\ Resume' /\ Rest' /\ Once' /\ Explained'
  BY <1>1 DEF Chain, Head0, RowsOfChain, Resume, Rest, Querying, First, Once, Explained, Passed,
              HasRow, HasNumber, Explains
<1>5. Quiet' /\ Delivered'
  BY <1>1 DEF Quiet, Delivered, Of, Heard, RowOf
<1>6. CreditHasRow'
  <2> SUFFICES ASSUME NEW a \in Holders
               PROVE  (holders[a] + Crediting(a) <= Rows(a))'
    BY DEF CreditHasRow
  <2> DEFINE S == {t \in live : t.pc = "upsert" /\ log[t.event].to = a}
             T == {t \in live' : t.pc = "upsert" /\ log'[t.event].to = a}
             x == IF run.pc = "upsert" /\ (\E f \in run.todo : First(f) /\ log[f].to = a) THEN 1 ELSE 0
             y == IF log[e].to = a THEN 1 ELSE 0
  <2>1. holders'[a] = holders[a] + y
    BY <1>1, NewBalance
  <2>2. IsFiniteSet(S) /\ Cardinality(S) \in Nat
    BY CreditingType, FS_Subset
  <2>3. Cardinality(T) = Cardinality(S) - y
    <3>1. CASE log[e].to = a
      <4>1. T = S \ {written} /\ written \in S
        BY <1>1, <1>2, <3>1
      <4> HIDE DEF S, T
      <4>2. Cardinality(S \ {written}) = Cardinality(S) - 1
        BY <2>2, <4>1, FS_RemoveElement
      <4> QED
        BY <2>2, <3>1, <4>1, <4>2
    <3>2. CASE log[e].to # a
      <4>1. T = S
        BY <1>1, <1>2, <3>2
      <4> HIDE DEF S, T
      <4> QED
        BY <2>2, <3>2, <4>1
    <3> QED
      BY <3>1, <3>2
  <2>4. Crediting(a) = x + Cardinality(S) /\ Crediting(a)' = x + Cardinality(T)
    BY <1>1 DEF Crediting, First
  <2>5. Rows(a)' = Rows(a) /\ holders[a] \in Nat /\ Rows(a) \in Nat
    BY <1>1, RowsType DEF IndexerTypeOK, Rows
  <2>6. holders[a] + Crediting(a) <= Rows(a) /\ x \in Nat /\ y \in Nat
    BY DEF CreditHasRow
  <2> HIDE DEF S, T, x, y
  <2> QED
    BY <2>1, <2>2, <2>3, <2>4, <2>5, <2>6
<1> QED
  BY <1>3, <1>4, <1>5, <1>6

-----------------------------------------------------------------------------
(* A block *)

\* The length of a concatenation, and a sequence of elements of a larger set.
LEMMA Joined ==
  ASSUME NEW S, NEW s \in Seq(S), NEW t \in Seq(S)
  PROVE  Len(s \o t) = Len(s) + Len(t)
OBVIOUS

LEMMA WiderSeq ==
  ASSUME NEW S, NEW T, S \subseteq T, NEW s \in Seq(S)
  PROVE  s \in Seq(T)
<1>1. Len(s) \in Nat /\ s = [i \in 1..Len(s) |-> s[i]] /\ \A i \in 1..Len(s) : s[i] \in T
  OBVIOUS
<1> QED
  BY <1>1

\* What a block adds to the chain.
LEMMA NewBlock ==
  ASSUME IndexerTypeOK, MineBlock
  PROVE  /\ log' \in Seq(Events) /\ DOMAIN log \subseteq DOMAIN log'
         /\ \A e \in DOMAIN log : log'[e] = log[e]
         /\ \A e \in DOMAIN log' : e \notin DOMAIN log =>
              /\ log'[e].block = Head0(log) + 1 /\ log'[e].index = e - Len(log)
              /\ \A d \in DOMAIN log : d < e
         /\ Head0(log) \in Nat /\ Head0(log') = Head0(log) + 1
         /\ UNCHANGED <<rows, holders, run, sub, live, starts, graph, stats>>
<1>1. PICK k \in DOMAIN Contracts, n \in 1..PerBlock :
        \E tos \in [1..n -> Holders], from \in Holders \cup {Minter} :
          log' = log \o Mined(Contracts[k], from, tos)
  BY DEF MineBlock
<1>2. PICK tos \in [1..n -> Holders], from \in Holders \cup {Minter} :
        log' = log \o Mined(Contracts[k], from, tos)
  BY <1>1
<1> DEFINE new == Mined(Contracts[k], from, tos)
<1>3. Head0(log) \in Nat
  BY ChainTypes DEF Head0
<1>4. n \in Nat \ {0} /\ PerBlock \in Nat /\ Len(tos) = n /\ Contracts[k] \in Range(Contracts)
  BY IndexerAssumption DEF Range
<1>5. /\ new \in Seq(Events) /\ Len(new) = n
      /\ \A i \in 1..n : new[i].block = Head0(log) + 1 /\ new[i].index = i
  <2>1. new = [i \in 1..n |-> [block |-> Head0(log) + 1, index |-> i, contract |-> Contracts[k],
                               from |-> from, to |-> tos[i]]]
    BY <1>4 DEF Mined
  <2>2. \A i \in 1..n : [block |-> Head0(log) + 1, index |-> i, contract |-> Contracts[k],
                         from |-> from, to |-> tos[i]] \in Events
    BY <1>3, <1>4 DEF Events
  <2> HIDE DEF new
  <2> QED
    BY <1>4, <2>1, <2>2
<1> HIDE DEF new
<1>6. /\ log' = log \o new /\ log \in Seq(Events) /\ Len(log) \in Nat
  BY <1>2, ChainTypes DEF new
<1>7. /\ log' \in Seq(Events) /\ Len(log') = Len(log) + n
      /\ DOMAIN log' = 1..(Len(log) + n) /\ DOMAIN log = 1..Len(log)
      /\ \A e \in 1..Len(log) : log'[e] = log[e]
      /\ \A e \in (Len(log) + 1)..(Len(log) + n) : log'[e] = new[e - Len(log)]
  <2>1. log' \in Seq(Events)
    BY <1>5, <1>6
  <2>2. Len(log') = Len(log) + Len(new)
    BY <1>5, <1>6, Joined
  <2>3. \A e \in 1..Len(log) : log'[e] = log[e]
    BY <1>5, <1>6
  <2>4. \A e \in (Len(log) + 1)..(Len(log) + n) : log'[e] = new[e - Len(log)]
    BY <1>4, <1>5, <1>6
  <2>5. DOMAIN log' = 1..(Len(log) + n) /\ DOMAIN log = 1..Len(log)
    BY <1>5, <1>6, <2>1, <2>2
  <2> QED
    BY <1>5, <2>1, <2>2, <2>3, <2>4, <2>5
<1>8. \A e \in DOMAIN log' : e \notin DOMAIN log => e - Len(log) \in 1..n /\ e > Len(log)
  BY <1>4, <1>6, <1>7
<1>9. Head0(log') = Head0(log) + 1
  <2>1. log' # <<>> /\ Len(log') = Len(log) + n /\ log'[Len(log) + n] = new[n] /\ n \in 1..n
    BY <1>4, <1>6, <1>7
  <2> QED
    BY <1>5, <2>1 DEF Head0
<1> QED
  BY <1>3, <1>5, <1>6, <1>7, <1>8, <1>9 DEF MineBlock, dbVars

\* A block comes after all that was asked for, recorded or delivered.
LEMMA MineBlockStep ==
  ASSUME IInv, MineBlock
  PROVE  IInv'
<1> USE DEF IInv
<1>1. /\ log' \in Seq(Events) /\ DOMAIN log \subseteq DOMAIN log'
      /\ \A e \in DOMAIN log : log'[e] = log[e]
      /\ \A e \in DOMAIN log' : e \notin DOMAIN log =>
           log'[e].block = Head0(log) + 1 /\ \A d \in DOMAIN log : d < e
      /\ Head0(log) \in Nat /\ Head0(log') = Head0(log) + 1
      /\ UNCHANGED <<rows, holders, run, sub, live, starts, stats>>
  BY NewBlock
<1>2. \A d \in DOMAIN log : log[d].block <= Head0(log)
  <2>1. \A d \in DOMAIN log : Len(log) \in DOMAIN log /\ d <= Len(log) /\ log # <<>>
    BY ChainTypes
  <2> QED
    BY <2>1 DEF Chain, Head0
<1>3. \A i \in DOMAIN rows : rows[i].event \in DOMAIN log /\ rows[i].block <= Head0(log)
  BY <1>1, <1>2, RowTypes DEF RowsOfChain, Null
<1>4. \A t \in live : t.event \in DOMAIN log
  BY DEF IndexerTypeOK
<1>5. run.todo \subseteq DOMAIN log
  BY RunTypes
<1>6. IndexerTypeOK'
  <2>1. rows' \in Seq([event : DOMAIN log', block : Nat, start : 1..MaxStarts])
    <3>1. rows \in Seq(EventRows)
      BY RowTypes
    <3>2. EventRows \subseteq [event : DOMAIN log', block : Nat, start : 1..MaxStarts]
      BY <1>1 DEF EventRows
    <3> QED
      BY <1>1, <3>1, <3>2, WiderSeq
  <2>2. run' \in [pc : {"down", "last", "latest", "query", "insert", "upsert", "on", "live"},
                  k : DOMAIN Contracts, last : Nat, latest : Nat, todo : SUBSET DOMAIN log']
    <3>1. run \in [pc : {"down", "last", "latest", "query", "insert", "upsert", "on", "live"},
                   k : DOMAIN Contracts, last : Nat, latest : Nat, todo : SUBSET DOMAIN log]
      BY DEF IndexerTypeOK
    <3> QED
      BY <1>1, <3>1
  <2>3. live' \subseteq [event : DOMAIN log', pc : {"insert", "upsert"}]
    <3>1. live \subseteq [event : DOMAIN log, pc : {"insert", "upsert"}]
      BY DEF IndexerTypeOK
    <3> QED
      BY <1>1, <3>1
  <2> QED
    BY <1>1, <2>1, <2>2, <2>3 DEF IndexerTypeOK, Events
<1>7. Chain'
  <2>1. run'.latest <= Head0(log')
    BY <1>1, RunTypes DEF Chain
  <2>2. ASSUME NEW d \in DOMAIN log', NEW e \in DOMAIN log', d <= e
        PROVE  log'[d].block <= log'[e].block
    <3>1. CASE e \in DOMAIN log
      <4>1. d \in DOMAIN log
        <5>1. d \in Nat /\ e \in Nat
          BY <1>1
        <5> QED
          BY <1>1, <2>2, <3>1, <5>1
      <4> QED
        BY <1>1, <2>2, <3>1, <4>1 DEF Chain
    <3>2. CASE e \notin DOMAIN log
      <4>1. log'[e].block = Head0(log) + 1
        BY <1>1, <3>2
      <4>2. CASE d \in DOMAIN log
        BY <1>1, <1>2, <4>1, <4>2, ChainTypes
      <4>3. CASE d \notin DOMAIN log
        BY <1>1, <4>1, <4>3
      <4> QED
        BY <4>2, <4>3
    <3> QED
      BY <3>1, <3>2
  <2> QED
    BY <2>1, <2>2 DEF Chain
<1>8. RowsOfChain' /\ Resume' /\ Once' /\ Quiet'
  BY <1>1, <1>3 DEF RowsOfChain, Resume, Once, Quiet
<1>9. \A e : (HasRow(e)' <=> HasRow(e)) /\ (HasNumber(e)' <=> HasNumber(e))
  BY <1>1 DEF HasRow, HasNumber
<1>10. Rest'
  <2>1. \A e \in DOMAIN log' : e \in DOMAIN log \/ ~(log'[e].block <= run.latest)
    BY <1>1, RunTypes DEF Chain
  <2>2. \A e \in run.todo : e \in DOMAIN log /\ log'[e] = log[e]
    BY <1>1, <1>5
  <2>3. \A e : First(e)' <=> First(e)
    BY <1>1 DEF First
  <2> QED
    BY <1>1, <1>9, <2>1, <2>2, <2>3 DEF Rest, Querying
<1>11. Delivered'
  <2>1. \A e \in DOMAIN log, k \in DOMAIN Contracts : Of(k, e)' <=> Of(k, e)
    BY <1>1 DEF Of
  <2>2. \A e, k : Heard(k, e)' <=> Heard(k, e)
    BY <1>1 DEF Heard
  <2>3. \A e, i : RowOf(i, e)' <=> RowOf(i, e)
    BY <1>1 DEF RowOf
  <2> QED
    BY <1>1, <1>3, <1>4, <2>1, <2>2, <2>3 DEF Delivered
<1>12. CreditHasRow'
  <2> SUFFICES ASSUME NEW a \in Holders
               PROVE  (holders[a] + Crediting(a) <= Rows(a))'
    BY DEF CreditHasRow
  <2>1. {i \in DOMAIN rows' : log'[rows'[i].event].to = a} = {i \in DOMAIN rows : log[rows[i].event].to = a}
    BY <1>1, <1>3
  <2>2. {t \in live' : t.pc = "upsert" /\ log'[t.event].to = a}
          = {t \in live : t.pc = "upsert" /\ log[t.event].to = a}
    BY <1>1, <1>4
  <2>3. (\E e \in run'.todo : First(e)' /\ log'[e].to = a) <=> (\E e \in run.todo : First(e) /\ log[e].to = a)
    BY <1>1, <1>5 DEF First
  <2>4. Rows(a)' = Rows(a)
    BY <2>1 DEF Rows
  <2>5. Crediting(a)' = Crediting(a)
    BY <1>1, <2>2, <2>3 DEF Crediting
  <2> QED
    BY <1>1, <2>4, <2>5 DEF CreditHasRow
<1>13. Explained'
  <2>1. ASSUME NEW e \in DOMAIN log', Passed(e)'
        PROVE  e \in DOMAIN log /\ Passed(e)
    <3>1. PICK i \in DOMAIN rows : log'[e].block < rows[i].block
      BY <1>1, <2>1 DEF Passed
    <3>2. e \in DOMAIN log
      BY <1>1, <1>3, <3>1, RowTypes
    <3> QED
      BY <1>1, <1>9, <2>1, <3>1, <3>2 DEF Passed
  <2>2. \A e, f \in DOMAIN log : Explains(f, e)' <=> Explains(f, e)
    BY <1>1 DEF Explains
  <2> QED
    BY <1>1, <1>9, <2>1, <2>2 DEF Explained
<1> QED
  BY <1>6, <1>7, <1>8, <1>10, <1>11, <1>12, <1>13

-----------------------------------------------------------------------------
\* graph-node and GET /stats write nothing the others read.
LEMMA ReaderStep ==
  ASSUME IInv, UNCHANGED <<log, rows, holders, run, sub, live, starts>>,
         stats'.pc \in {"idle", "holders", "events", "answered"}, stats'.last \in Nat
  PROVE  IInv'
<1> USE DEF IInv
<1>1. IndexerTypeOK'
  BY DEF IndexerTypeOK
<1>2. Chain' /\ RowsOfChain' /\ Resume' /\ Rest' /\ Once' /\ Explained'
  BY DEF Chain, Head0, RowsOfChain, Resume, Rest, Querying, First, Once, Explained, Passed,
         HasRow, HasNumber, Explains
<1>3. Quiet' /\ Delivered'
  BY DEF Quiet, Delivered, Of, Heard, RowOf
<1>4. CreditHasRow'
  BY DEF CreditHasRow, Crediting, Rows, First
<1> QED
  BY <1>1, <1>2, <1>3, <1>4

\* Every step keeps the invariant.
LEMMA StepIInv == IInv /\ [IndexerNext]_indexerVars => IInv'
<1> SUFFICES ASSUME IInv, [IndexerNext]_indexerVars PROVE IInv'
  OBVIOUS
<1>1. CASE MineBlock
  BY <1>1, MineBlockStep
<1>2. CASE Start
  BY <1>2, StartStep
<1>3. CASE Process
  <2>1. CASE ReadLast \/ ReadLatest \/ QueryEvents \/ Subscribe
    BY <2>1, ReadLastStep, ReadLatestStep, QueryEventsStep, SubscribeStep
  <2>2. CASE History
    BY <2>2, InsertHistoricStep, UpsertHistoricStep DEF History
  <2>3. CASE \E k \in DOMAIN Contracts : Subscribed(k) \/ Deliver(k)
    BY <2>3, SubscribedStep, DeliverStep
  <2>4. CASE Listener
    BY <2>4, InsertLiveStep, UpsertLiveStep DEF Listener
  <2> QED
    BY <1>3, <2>1, <2>2, <2>3, <2>4 DEF Process
<1>4. CASE Crash
  BY <1>4, CrashStep
<1>5. CASE HandleTransferSingle
  <2>1. UNCHANGED <<log, rows, holders, run, sub, live, starts, stats>>
    BY <1>5 DEF HandleTransferSingle, dbVars
  <2> QED
    BY <2>1, ReaderStep DEF IInv, IndexerTypeOK
<1>6. CASE Asked
  <2>1. UNCHANGED <<log, rows, holders, run, sub, live, starts>> /\ stats'.pc = "holders" /\ stats'.last = 0
    BY <1>6 DEF Asked, NoStats, dbVars
  <2> QED
    BY <2>1, ReaderStep
<1>7. CASE StatsQuery
  <2>1. UNCHANGED <<log, rows, holders, run, sub, live, starts>>
    BY <1>7 DEF StatsQuery, dbVars
  <2>2. IndexedBlocks \subseteq Nat
    BY RowTypes DEF IInv, IndexedBlocks
  <2>3. stats'.pc \in {"idle", "holders", "events", "answered"} /\ stats'.last \in Nat
    <3>1. CASE stats.pc = "holders" /\ stats' = [stats EXCEPT !.pc = "events", !.total = Total]
      BY <3>1 DEF IInv, IndexerTypeOK
    <3>2. CASE stats.pc = "events"
      <4>1. PICK b \in IndexedBlocks : stats' = [stats EXCEPT !.pc = "answered", !.last = b]
        BY <1>7, <3>2 DEF StatsQuery
      <4> QED
        BY <2>2, <4>1 DEF IInv, IndexerTypeOK
    <3> QED
      BY <1>7, <3>1, <3>2 DEF StatsQuery
  <2> QED
    BY <2>1, <2>3, ReaderStep
<1>8. CASE UNCHANGED indexerVars
  BY <1>8, ReaderStep DEF indexerVars, dbVars, IInv, IndexerTypeOK
<1> QED
  BY <1>1, <1>2, <1>3, <1>4, <1>5, <1>6, <1>7, <1>8 DEF IndexerNext

-----------------------------------------------------------------------------
\* A set of which any two elements are equal has one at most.
LEMMA AtMostOne ==
  ASSUME NEW S, \A x, y \in S : x = y
  PROVE  Cardinality(S) <= 1
<1>1. CASE S = {}
  BY <1>1, FS_EmptySet
<1>2. CASE S # {}
  <2>1. PICK x : S = {x}
    BY <1>2
  <2> QED
    BY <2>1, FS_Singleton
<1> QED
  BY <1>1, <1>2

\* From pairs of rows to numbers of rows.
LEMMA OnceCounts ==
  ASSUME IndexerTypeOK, Once
  PROVE  CountedOnce
<1> SUFFICES ASSUME NEW e \in DOMAIN log
             PROVE  /\ Cardinality(Numbered(e)) <= 1
                    /\ \A n \in 1..starts : Cardinality({i \in RowsOf(e) : rows[i].start = n}) <= 1
  BY DEF CountedOnce
<1>1. \A x, y \in Numbered(e) : x = y
  BY DEF Once, Numbered, RowsOf
<1>2. \A n : \A x, y \in {i \in RowsOf(e) : rows[i].start = n} : x = y
  BY DEF Once, RowsOf
<1> QED
  BY <1>1, <1>2, AtMostOne

\* From the rows of an event to the sets the property names.
LEMMA Reasons ==
  ASSUME IndexerTypeOK, Explained
  PROVE  LossExplained
<1>1. \A e : (RowsOf(e) = {} <=> ~HasRow(e)) /\ (Numbered(e) # {} <=> HasNumber(e))
  BY DEF RowsOf, Numbered, HasRow, HasNumber
<1>2. \A e \in DOMAIN log : (\E b \in IndexedBlocks : log[e].block < b) =>
                              \E i \in DOMAIN rows : log[e].block < rows[i].block
  BY ChainTypes DEF IndexedBlocks
<1> QED
  BY <1>1, <1>2 DEF LossExplained, Explained, Passed, Explains

\* The invariant holds throughout.
LEMMA Invariance == IndexerSpec => []IInv
<1>1. IndexerInit => IInv
  BY InitIInv
<1>2. IInv /\ [IndexerNext]_indexerVars => IInv'
  BY StepIInv
<1> QED
  BY <1>1, <1>2, PTL DEF IndexerSpec

(***************************************************************************)
(* Every reachable state is well typed: rows and listeners are about       *)
(* events of the chain, the query about events that have been mined.       *)
(***************************************************************************)
THEOREM TypeCorrect == IndexerSpec => []IndexerTypeOK
<1>1. IInv => IndexerTypeOK
  BY DEF IInv
<1> QED
  BY <1>1, Invariance, PTL

(***************************************************************************)
(* A balance is covered by rows whenever the process ends (ingestEvent).   *)
(***************************************************************************)
THEOREM CreditHasRowHolds == IndexerSpec => []CreditHasRow
<1>1. IInv => CreditHasRow
  BY DEF IInv
<1> QED
  BY <1>1, Invariance, PTL

(***************************************************************************)
(* Query and listener of one start never take the same event, and queries  *)
(* never take one twice (processEvents).                                   *)
(***************************************************************************)
THEOREM CountedOnceHolds == IndexerSpec => []CountedOnce
<1>1. IInv => CountedOnce
  BY OnceCounts DEF IInv
<1> QED
  BY <1>1, Invariance, PTL

(***************************************************************************)
(* An event passed over is of the block at work in a crash, or below one   *)
(* of another contract (processEvents, lastIndexedBlock).                  *)
(***************************************************************************)
THEOREM LossExplainedHolds == IndexerSpec => []LossExplained
<1>1. IInv => LossExplained
  BY Reasons DEF IInv
<1> QED
  BY <1>1, Invariance, PTL
-----------------------------------------------------------------------------
(* The sum of the balances *)

\* A set of numbers has a least one: induction on the size of a set rests on it.
LEMMA LeastNumber ==
  ASSUME NEW T, T \subseteq Nat, T # {}
  PROVE  \E x \in T : \A y \in T : x <= y
<1> DEFINE R == OpToRel(<, Nat)
<1>1. IsWellFoundedOn(R, Nat)
  BY NatLessThanWellFounded
<1>2. \A x, y \in Nat : (<<y, x>> \in R) <=> y < x
  BY DEF OpToRel
<1> HIDE DEF R
<1>3. PICK x \in T : \A y \in T : ~ (<<y, x>> \in R)
  BY <1>1, WFMin
<1>4. \A y \in T : ~ (y < x)
  BY <1>2, <1>3
<1> QED
  BY <1>4

\* The sum as the community module folds it: pick takes an element out of a set.
pick(s) == CHOOSE x \in s : TRUE
IsFold(g, h) ==
  g = [s \in SUBSET DOMAIN h |-> IF s = {} THEN 0 ELSE h[pick(s)] + g[s \ {pick(s)}]]

LEMMA SumIsFold ==
  ASSUME NEW h
  PROVE  SumFunction(h) = (CHOOSE g : IsFold(g, h))[DOMAIN h]
BY DEF SumFunction, SumFunctionOnSet, FoldFunctionOnSet, MapThenFoldSet, IsFold, pick

LEMMA Picked ==
  ASSUME NEW s, s # {}
  PROVE  pick(s) \in s
BY DEF pick

\* Two parts of a finite set that share nothing
LEMMA Apart ==
  ASSUME NEW U, IsFiniteSet(U), NEW S, NEW T, S \cup T \subseteq U, S \cap T = {}
  PROVE  /\ IsFiniteSet(S) /\ IsFiniteSet(T)
         /\ Cardinality(S) \in Nat /\ Cardinality(T) \in Nat
         /\ Cardinality(S \cup T) = Cardinality(S) + Cardinality(T)
<1>1. IsFiniteSet(S) /\ IsFiniteSet(T)
  BY FS_Subset
<1>2. Cardinality(S \cup T) = Cardinality(S) + Cardinality(T) - Cardinality({})
  BY <1>1, FS_Union
<1>3. Cardinality({}) = 0 /\ Cardinality(S) \in Nat /\ Cardinality(T) \in Nat
  BY <1>1, FS_EmptySet, FS_CardinalityType
<1> QED
  BY <1>1, <1>2, <1>3

\* There is such a function: it counts the pairs of an element and a number up to its value.
LEMMA FoldExists ==
  ASSUME NEW S, IsFiniteSet(S), NEW h \in [S -> Nat], NEW N \in Nat, \A a \in S : h[a] <= N
  PROVE  \E g : IsFold(g, h)
<1> DEFINE All == S \X (1..N)
           Pairs(s) == {p \in All : p[1] \in s /\ p[2] <= h[p[1]]}
           g == [s \in SUBSET S |-> Cardinality(Pairs(s))]
<1>1. IsFiniteSet(All)
  <2>1. IsFiniteSet(1..N)
    BY FS_Interval
  <2> QED
    BY <2>1, FS_Product
<1>2. ASSUME NEW x \in S
      PROVE  Cardinality(Pairs({x})) = h[x]
  <2>1. h[x] \in Nat /\ h[x] <= N /\ IsFiniteSet(1..h[x]) /\ Cardinality(1..h[x]) = h[x]
    BY FS_Interval
  <2> DEFINE f == [j \in 1..h[x] |-> <<x, j>>]
  <2>2. f \in [1..h[x] -> Pairs({x})]
    BY <2>1
  <2>3. \A j, k \in 1..h[x] : f[j] = f[k] => j = k
    OBVIOUS
  <2>4. \A p \in Pairs({x}) : \E j \in 1..h[x] : f[j] = p
    <3> SUFFICES ASSUME NEW p \in Pairs({x}) PROVE \E j \in 1..h[x] : f[j] = p
      OBVIOUS
    <3>1. p = <<x, p[2]>> /\ p[2] \in 1..h[x]
      BY <2>1
    <3> QED
      BY <3>1
  <2>5. f \in Bijection(1..h[x], Pairs({x}))
    <3> HIDE DEF f, Pairs
    <3> QED
      BY <2>2, <2>3, <2>4 DEF Bijection, Injection, Surjection, IsInjective
  <2> HIDE DEF f, Pairs
  <2> QED
    BY <2>1, <2>5, FS_Bijection DEF ExistsBijection
<1>3. ASSUME NEW s \in SUBSET S, NEW x \in s
      PROVE  Cardinality(Pairs(s)) = h[x] + Cardinality(Pairs(s \ {x}))
  <2>1. /\ Pairs(s) = Pairs({x}) \cup Pairs(s \ {x})
        /\ Pairs({x}) \cap Pairs(s \ {x}) = {}
        /\ Pairs({x}) \cup Pairs(s \ {x}) \subseteq All
    OBVIOUS
  <2> DEFINE P == Pairs({x})
             Q == Pairs(s \ {x})
  <2>2. P \cup Q \subseteq All /\ P \cap Q = {} /\ Pairs(s) = P \cup Q
    BY <2>1
  <2> HIDE DEF Pairs, All, P, Q
  <2>3. Cardinality(P \cup Q) = Cardinality(P) + Cardinality(Q)
    BY <1>1, <2>2, Apart
  <2> QED
    BY <1>2, <2>2, <2>3 DEF P, Q
<1>4. Cardinality(Pairs({})) = 0
  <2>1. Pairs({}) = {}
    OBVIOUS
  <2> QED
    BY <2>1, FS_EmptySet
<1>5. \A s \in SUBSET S : g[s] = IF s = {} THEN 0 ELSE h[pick(s)] + g[s \ {pick(s)}]
  <2> SUFFICES ASSUME NEW s \in SUBSET S, s # {}
               PROVE  g[s] = h[pick(s)] + g[s \ {pick(s)}]
    BY <1>4
  <2>1. pick(s) \in s /\ s \ {pick(s)} \in SUBSET S
    BY Picked
  <2> HIDE DEF Pairs
  <2> QED
    BY <1>3, <2>1
<1>6. g = [s \in SUBSET S |-> IF s = {} THEN 0 ELSE h[pick(s)] + g[s \ {pick(s)}]]
  <2>1. g = [s \in SUBSET S |-> g[s]]
    OBVIOUS
  <2> HIDE DEF g
  <2> QED
    BY <1>5, <2>1
<1> HIDE DEF g
<1> QED
  BY <1>6 DEF IsFold

\* Amounts that things of a finite set account for add up to no more than the things.
LEMMA SumCovered ==
  ASSUME NEW S, IsFiniteSet(S), NEW h \in [S -> Nat], NEW D, IsFiniteSet(D), NEW owner,
         \A a \in S : h[a] <= Cardinality({i \in D : owner[i] = a})
  PROVE  SumFunction(h) \in Nat /\ SumFunction(h) <= Cardinality(D)
<1> DEFINE Owned(s) == {i \in D : owner[i] \in s}
           g == CHOOSE f : IsFold(f, h)
<1>1. \A s : IsFiniteSet(Owned(s)) /\ Cardinality(Owned(s)) \in Nat /\ Cardinality(Owned(s)) <= Cardinality(D)
  BY FS_Subset, FS_CardinalityType
<1>2. \A a \in S : h[a] \in Nat /\ h[a] <= Cardinality(Owned({a}))
  <2>1. \A a : Owned({a}) = {i \in D : owner[i] = a}
    OBVIOUS
  <2> HIDE DEF Owned
  <2> QED
    BY <2>1
<1>3. Cardinality(D) \in Nat
  BY FS_CardinalityType
<1>4. ASSUME NEW s \in SUBSET S, NEW x \in s
      PROVE  Cardinality(Owned(s)) = Cardinality(Owned({x})) + Cardinality(Owned(s \ {x}))
  <2>1. /\ Owned(s) = Owned({x}) \cup Owned(s \ {x})
        /\ Owned({x}) \cap Owned(s \ {x}) = {}
        /\ Owned({x}) \cup Owned(s \ {x}) \subseteq D
    OBVIOUS
  <2> DEFINE P == Owned({x})
             Q == Owned(s \ {x})
  <2>2. P \cup Q \subseteq D /\ P \cap Q = {} /\ Owned(s) = P \cup Q
    BY <2>1
  <2> HIDE DEF Owned, P, Q
  <2>3. Cardinality(P \cup Q) = Cardinality(P) + Cardinality(Q)
    BY <2>2, Apart
  <2> QED
    BY <2>2, <2>3 DEF P, Q
<1> HIDE DEF Owned
<1>5. IsFold(g, h)
  <2>1. \A a \in S : h[a] <= Cardinality(D)
    <3> SUFFICES ASSUME NEW a \in S PROVE h[a] <= Cardinality(D)
      OBVIOUS
    <3>1. Cardinality(Owned({a})) \in Nat /\ Cardinality(Owned({a})) <= Cardinality(D)
      BY <1>1
    <3>2. h[a] \in Nat /\ h[a] <= Cardinality(Owned({a}))
      BY <1>2
    <3> QED
      BY <1>3, <3>1, <3>2
  <2>2. \E f : IsFold(f, h)
    BY <1>3, <2>1, FoldExists
  <2> QED
    BY <2>2
<1> HIDE DEF g
<1>6. \A s \in SUBSET S : g[s] = IF s = {} THEN 0 ELSE h[pick(s)] + g[s \ {pick(s)}]
  BY <1>5 DEF IsFold
<1> DEFINE Fine(s) == g[s] \in Nat /\ g[s] <= Cardinality(Owned(s))
           Wrong == {n \in Nat : \E s \in SUBSET S : Cardinality(s) = n /\ ~Fine(s)}
<1>7. Wrong = {}
  <2> SUFFICES ASSUME Wrong # {} PROVE FALSE
    OBVIOUS
  <2>1. PICK n \in Wrong : \A m \in Wrong : n <= m
    <3>1. Wrong \subseteq Nat
      OBVIOUS
    <3> HIDE DEF Wrong
    <3> QED
      BY <3>1, LeastNumber
  <2>2. PICK s \in SUBSET S : Cardinality(s) = n /\ ~Fine(s)
    BY <2>1
  <2>3. s # {}
    <3>1. Cardinality(Owned({})) \in Nat /\ g[{}] = 0
      BY <1>1, <1>6
    <3> QED
      BY <2>2, <3>1
  <2> DEFINE x == pick(s)
  <2>4. x \in s /\ s \ {x} \in SUBSET S
    BY <2>3, Picked
  <2>5. n \in Nat /\ Cardinality(s \ {x}) = n - 1 /\ Cardinality(s \ {x}) \in Nat
    <3>1. IsFiniteSet(s)
      BY FS_Subset
    <3> HIDE DEF x
    <3> QED
      BY <2>2, <2>4, <3>1, FS_RemoveElement, FS_CardinalityType
  <2>6. Fine(s \ {x})
    <3> HIDE DEF x, Fine
    <3>1. ASSUME ~Fine(s \ {x}) PROVE n - 1 \in Wrong
      BY <2>4, <2>5, <3>1
    <3> HIDE DEF Wrong
    <3> QED
      BY <2>1, <2>5, <3>1
  <2>7. g[s] = h[x] + g[s \ {x}]
    BY <1>6, <2>3
  <2>8. Cardinality(Owned(s)) = Cardinality(Owned({x})) + Cardinality(Owned(s \ {x}))
    BY <1>4, <2>4
  <2>9. h[x] \in Nat /\ h[x] <= Cardinality(Owned({x})) /\ Cardinality(Owned({x})) \in Nat /\ Cardinality(Owned(s \ {x})) \in Nat
    BY <1>1, <1>2, <2>4
  <2> HIDE DEF x, Wrong
  <2>10. Fine(s)
    BY <2>6, <2>7, <2>8, <2>9
  <2> QED
    BY <2>2, <2>10
<1>8. Fine(S)
  <2>1. IsFiniteSet(S) /\ Cardinality(S) \in Nat
    BY FS_CardinalityType
  <2> HIDE DEF Fine
  <2> QED
    BY <1>7, <2>1
<1>9. SumFunction(h) = g[S]
  BY SumIsFold DEF g
<1> QED
  BY <1>1, <1>3, <1>8, <1>9

-----------------------------------------------------------------------------
(* What /stats adds up *)

StatsTypes == [pc : {"idle", "holders", "events", "answered"}, total : Nat, last : Nat]

\* The total read from the balances is no more than the rows there are by now.
StatsInv ==
  /\ stats \in StatsTypes
  /\ stats.pc = "events" => stats.total <= Len(rows)
  /\ StatsBacked

LEMMA TotalBacked ==
  ASSUME IInv
  PROVE  Total \in Nat /\ Total <= Len(rows)
<1> DEFINE owner == [i \in DOMAIN rows |-> log[rows[i].event].to]
<1>1. holders \in [Holders -> Nat] /\ IsFiniteSet(Holders)
  BY IndexerAssumption DEF IInv, IndexerTypeOK
<1>2. IsFiniteSet(DOMAIN rows) /\ Cardinality(DOMAIN rows) = Len(rows)
  BY RowTypes, FS_Interval DEF IInv
<1>3. \A a \in Holders : holders[a] <= Cardinality({i \in DOMAIN rows : owner[i] = a})
  <2> SUFFICES ASSUME NEW a \in Holders
               PROVE  holders[a] <= Cardinality({i \in DOMAIN rows : owner[i] = a})
    OBVIOUS
  <2>1. {i \in DOMAIN rows : owner[i] = a} = {i \in DOMAIN rows : log[rows[i].event].to = a}
    OBVIOUS
  <2>2. holders[a] + Crediting(a) <= Rows(a) /\ holders[a] \in Nat /\ Crediting(a) \in Nat /\ Rows(a) \in Nat
    BY <1>1, CreditingType, RowsType DEF IInv, CreditHasRow
  <2>3. holders[a] <= Rows(a)
    BY <2>2
  <2> HIDE DEF owner
  <2> QED
    BY <2>1, <2>3 DEF Rows
<1> HIDE DEF owner
<1> QED
  BY <1>1, <1>2, <1>3, SumCovered DEF Total

\* Rows are only ever added.
LEMMA RowsRemain ==
  ASSUME IInv, [IndexerNext]_indexerVars
  PROVE  Len(rows) <= Len(rows') /\ \A i \in DOMAIN rows : i \in DOMAIN rows' /\ rows'[i] = rows[i]
<1>1. rows \in Seq(EventRows) /\ Len(rows) \in Nat /\ DOMAIN rows = 1..Len(rows)
  BY RowTypes DEF IInv
<1>2. \/ rows' = rows
      \/ \E r : rows' = Append(rows, r)
  BY DEF IndexerNext, MineBlock, Start, Process, Crash, HandleTransferSingle, Asked, StatsQuery, ReadLast, ReadLatest,
         QueryEvents, History, InsertHistoric, UpsertHistoric, Subscribe, Subscribed, Deliver, Listener,
         InsertLive, UpsertLive, InsertRow, indexerVars, dbVars
<1>3. CASE \E r : rows' = Append(rows, r)
  <2>1. PICK r : rows' = Append(rows, r)
    BY <1>3
  <2>2. Len(rows') = Len(rows) + 1 /\ DOMAIN rows' = 1..(Len(rows) + 1) /\ \A i \in 1..Len(rows) : rows'[i] = rows[i]
    BY <1>1, <2>1
  <2> QED
    BY <1>1, <2>2
<1> QED
  BY <1>1, <1>2, <1>3

UpTo(b) == {i \in DOMAIN rows : rows[i].block <= b}

LEMMA UpToType ==
  ASSUME IInv, NEW b
  PROVE  IsFiniteSet(UpTo(b)) /\ Cardinality(UpTo(b)) \in Nat
<1>1. IsFiniteSet(DOMAIN rows) /\ UpTo(b) \subseteq DOMAIN rows
  BY RowTypes, FS_Interval DEF IInv, UpTo
<1> QED
  BY <1>1, FS_Subset, FS_CardinalityType

LEMMA UpToGrows ==
  ASSUME IInv, [IndexerNext]_indexerVars, NEW b
  PROVE  /\ IsFiniteSet(UpTo(b)')
         /\ Cardinality(UpTo(b)) <= Cardinality(UpTo(b)') /\ Cardinality(UpTo(b)') \in Nat
<1>1. UpTo(b) \subseteq UpTo(b)'
  BY RowsRemain DEF UpTo
<1>2. IsFiniteSet(UpTo(b)')
  <2>1. IndexerTypeOK'
    BY StepIInv DEF IInv
  <2>2. rows' \in Seq([event : DOMAIN log', block : Nat, start : 1..MaxStarts])
    BY <2>1 DEF IndexerTypeOK
  <2>3. DOMAIN rows' = 1..Len(rows') /\ Len(rows') \in Nat
    BY <2>2
  <2>4. IsFiniteSet(DOMAIN rows') /\ UpTo(b)' \subseteq DOMAIN rows'
    BY <2>3, FS_Interval DEF UpTo
  <2> QED
    BY <2>4, FS_Subset
<1> QED
  BY <1>1, <1>2, FS_Subset, FS_CardinalityType

LEMMA StatsStep ==
  ASSUME IInv, StatsInv, [IndexerNext]_indexerVars
  PROVE  StatsInv'
<1>1. stats \in StatsTypes /\ Len(rows) \in Nat /\ Len(rows') \in Nat /\ Len(rows) <= Len(rows')
  <2>1. IndexerTypeOK' /\ rows' \in Seq([event : DOMAIN log', block : Nat, start : 1..MaxStarts])
    BY StepIInv DEF IInv, IndexerTypeOK
  <2> QED
    BY <2>1, RowTypes, RowsRemain DEF IInv, StatsInv
<1>2. CASE stats' = stats
  <2>1. ASSUME stats.pc = "answered"
        PROVE  stats'.total <= Cardinality({i \in DOMAIN rows' : rows'[i].block <= stats'.last})
    <3>1. PICK b : b = stats.last
      OBVIOUS
    <3>2. stats.total <= Cardinality(UpTo(b)) /\ stats.total \in Nat
      BY <1>1, <2>1, <3>1 DEF StatsInv, StatsBacked, UpTo, StatsTypes
    <3>3. /\ Cardinality(UpTo(b)) <= Cardinality(UpTo(b)')
          /\ Cardinality(UpTo(b)) \in Nat /\ Cardinality(UpTo(b)') \in Nat
      BY UpToGrows, UpToType
    <3>4. stats'.total <= Cardinality(UpTo(b)')
      BY <1>2, <3>2, <3>3
    <3> QED
      BY <1>2, <3>1, <3>4 DEF UpTo
  <2>2. stats.pc = "events" => stats.total <= Len(rows')
    BY <1>1 DEF StatsInv, StatsTypes
  <2> QED
    BY <1>1, <1>2, <2>1, <2>2 DEF StatsInv, StatsBacked
<1>3. CASE Asked
  <2>1. stats' \in StatsTypes /\ stats'.pc = "holders"
    BY <1>3 DEF Asked, NoStats, StatsTypes
  <2> QED
    BY <2>1 DEF StatsInv, StatsBacked
<1>4. CASE stats.pc = "holders" /\ stats' = [stats EXCEPT !.pc = "events", !.total = Total]
  <2>1. stats' \in StatsTypes /\ stats'.pc = "events" /\ stats'.total = Total
    BY <1>1, <1>4, TotalBacked DEF StatsTypes
  <2>2. stats'.total <= Len(rows')
    BY <1>1, <2>1, TotalBacked
  <2> QED
    BY <2>1, <2>2 DEF StatsInv, StatsBacked
<1>5. CASE StatsQuery /\ stats.pc = "events"
  <2>1. PICK b \in IndexedBlocks : IsLastIndexed(b) /\ stats' = [stats EXCEPT !.pc = "answered", !.last = b]
    BY <1>5 DEF StatsQuery
  <2>2. b \in Nat /\ \A i \in DOMAIN rows : rows[i].block <= b
    BY <2>1, RowTypes DEF IInv, IndexedBlocks, IsLastIndexed
  <2>3. stats' \in StatsTypes /\ stats'.pc = "answered" /\ stats'.total = stats.total /\ stats'.last = b
    BY <1>1, <2>1, <2>2 DEF StatsTypes
  <2>4. stats.total <= Len(rows) /\ rows' = rows
    BY <1>5 DEF StatsInv, StatsQuery, dbVars
  <2>5. {i \in DOMAIN rows : rows[i].block <= b} = DOMAIN rows
    BY <2>2
  <2>6. Cardinality(DOMAIN rows) = Len(rows)
    BY RowTypes, FS_Interval DEF IInv
  <2> QED
    BY <2>3, <2>4, <2>5, <2>6 DEF StatsInv, StatsBacked
<1>6. stats' = stats \/ Asked \/ StatsQuery
  BY DEF IndexerNext, MineBlock, Start, Process, Crash, HandleTransferSingle, ReadLast, ReadLatest,
         QueryEvents, History, InsertHistoric, UpsertHistoric, Subscribe, Subscribed, Deliver, Listener,
         InsertLive, UpsertLive, indexerVars, dbVars
<1> QED
  BY <1>2, <1>3, <1>4, <1>5, <1>6 DEF StatsQuery

(***************************************************************************)
(* For any chain, restarts and interleaving with the two statements of     *)
(* getStats: the total of /stats is covered by rows of blocks up to the    *)
(* last it reports, or by rows without a number.                           *)
(***************************************************************************)
THEOREM StatsBackedHolds == IndexerSpec => []StatsBacked
<1>1. IndexerInit => StatsInv
  BY DEF IndexerInit, NoStats, StatsInv, StatsTypes, StatsBacked
<1>2. IInv /\ StatsInv /\ [IndexerNext]_indexerVars => StatsInv'
  BY StatsStep
<1>3. StatsInv => StatsBacked
  BY DEF StatsInv
<1> QED
  BY <1>1, <1>2, <1>3, Invariance, PTL DEF IndexerSpec
-----------------------------------------------------------------------------
(* The entities of the subgraph *)

IsStore(store) ==
  /\ store = [holder |-> store.holder, transfer |-> store.transfer, failed |-> store.failed]
  /\ store.holder \subseteq HolderEntities

\* What graph-node hands over of an event.
EventArgs == [block : Nat, txHash : Nat, index : Nat, operator : {Minter}, from : Holders \cup {Minter},
              to : Holders, tokenId : {0}, value : {1}]

\* The TransferSingle entities a holder received.
ReceivedBy(store, a) == {t \in store.transfer : t.to = a}

\* No two holders have an id in common, a receiver is a holder, and a holder's
\* numbers are those of what it received.
Kept(store) ==
  /\ IsFiniteSet(store.transfer)
  /\ \A g, h \in store.holder : g.id = h.id => g = h
  /\ \A t \in store.transfer : \E h \in store.holder : h.id = t.to
  /\ \A h \in store.holder : /\ h.transferCount = Cardinality(ReceivedBy(store, h.id))
                             /\ h.balance = Cardinality(ReceivedBy(store, h.id))

LEMMA LoadHolderGives ==
  ASSUME NEW store, IsStore(store), NEW a
  PROVE  IF \E h \in store.holder : h.id = a
           THEN LoadHolder(store, a) \in store.holder /\ LoadHolder(store, a).id = a
                  /\ LoadHolder(store, a) # Unset
           ELSE LoadHolder(store, a) = Unset
<1> DEFINE F == {h \in store.holder : h.id = a}
<1>1. LoadHolder(store, a) = IF F = {} THEN Unset ELSE CHOOSE h \in F : TRUE
  BY DEF LoadHolder
<1>2. F # {} => (CHOOSE h \in F : TRUE) \in F
  OBVIOUS
<1>3. store.holder \subseteq HolderEntities
  BY DEF IsStore
<1> QED
  BY <1>1, <1>2, <1>3, UnsetAssumption

\* The holder a handler credits: of the store, or new.
LEMMA FindHolderGives ==
  ASSUME NEW store, IsStore(store), NEW ev \in EventArgs
  PROVE  /\ FindHolder(store, ev) \in HolderEntities /\ FindHolder(store, ev).id = ev.to
         /\ IF \E h \in store.holder : h.id = ev.to
              THEN FindHolder(store, ev) \in store.holder
              ELSE FindHolder(store, ev).balance = 0 /\ FindHolder(store, ev).transferCount = 0
<1>1. ev.to \in Holders /\ store.holder \subseteq HolderEntities
  BY DEF EventArgs, IsStore
<1>2. CASE \E h \in store.holder : h.id = ev.to
  <2>1. FindHolder(store, ev) = LoadHolder(store, ev.to)
    BY <1>2, LoadHolderGives DEF FindHolder
  <2> QED
    BY <1>1, <1>2, <2>1, LoadHolderGives
<1>3. CASE ~\E h \in store.holder : h.id = ev.to
  <2>1. FindHolder(store, ev) = [NewHolder(ev.to) EXCEPT !.address = ev.to, !.balance = 0, !.transferCount = 0]
    BY <1>3, LoadHolderGives DEF FindHolder
  <2>2. FindHolder(store, ev) = [id |-> ev.to, address |-> ev.to, balance |-> 0, transferCount |-> 0]
    BY <2>1 DEF NewHolder
  <2> QED
    BY <1>1, <1>3, <2>2 DEF HolderEntities
<1> QED
  BY <1>2, <1>3

LEMMA TransferOfGives ==
  ASSUME NEW ev \in EventArgs
  PROVE  /\ TransferOf(ev).id = <<ev.txHash, ev.index>> /\ TransferOf(ev).to = ev.to
         /\ Complete(TransferOf(ev))
<1> DEFINE t == TransferOf(ev)
<1>1. t = [[id |-> <<ev.txHash, ev.index>>, operator |-> Unset, from |-> Unset, to |-> Unset,
            tokenId |-> Unset, value |-> Unset, blockNumber |-> Unset, txHash |-> Unset] EXCEPT
            !.operator = ev.operator, !.from = ev.from, !.to = ev.to, !.tokenId = ev.tokenId,
            !.value = ev.value, !.blockNumber = ev.block, !.txHash = ev.txHash]
  BY DEF TransferOf, NewTransferSingle, EntityId
<1> HIDE DEF t
<1>2. /\ DOMAIN t = {"id", "operator", "from", "to", "tokenId", "value", "blockNumber", "txHash"}
      /\ t.id = <<ev.txHash, ev.index>> /\ t.operator = ev.operator /\ t.from = ev.from /\ t.to = ev.to
      /\ t.tokenId = ev.tokenId /\ t.value = ev.value /\ t.blockNumber = ev.block /\ t.txHash = ev.txHash
  BY <1>1
<1>3. /\ <<ev.txHash, ev.index>> # Unset /\ ev.operator # Unset /\ ev.from # Unset /\ ev.to # Unset
      /\ ev.tokenId # Unset /\ ev.value # Unset /\ ev.block # Unset /\ ev.txHash # Unset
  <2>1. /\ <<ev.txHash, ev.index>> \in Nat \X Nat /\ ev.block \in Nat /\ ev.txHash \in Nat
        /\ ev.operator = Minter /\ ev.from \in Holders \cup {Minter} /\ ev.to \in Holders
        /\ ev.tokenId \in Nat /\ ev.value \in Nat
    BY DEF EventArgs
  <2> QED
    BY <2>1, UnsetAssumption
<1>4. Complete(t)
  BY <1>2, <1>3 DEF Complete
<1> QED
  BY <1>2, <1>4 DEF t

\* A holder with one token more.
Credit(h) == [id |-> h.id, address |-> h.address, balance |-> h.balance + 1, transferCount |-> h.transferCount + 1]

LEMMA Credited ==
  ASSUME NEW h \in HolderEntities
  PROVE  /\ [h EXCEPT !.balance = @ + 1, !.transferCount = TransferCount(h) + 1] = Credit(h)
         /\ Credit(h) \in HolderEntities /\ Complete(Credit(h)) /\ h.balance # Unset
<1>1. /\ h.id \in Holders /\ h.address \in Holders /\ h.balance \in Nat /\ h.transferCount \in Nat
      /\ h = [id |-> h.id, address |-> h.address, balance |-> h.balance, transferCount |-> h.transferCount]
  BY DEF HolderEntities
<1>2. TransferCount(h) = h.transferCount /\ h.balance # Unset
  BY <1>1, UnsetAssumption DEF TransferCount
<1>3. [h EXCEPT !.balance = @ + 1] =
        [id |-> h.id, address |-> h.address, balance |-> h.balance + 1, transferCount |-> h.transferCount]
  BY <1>1
<1>4. [[h EXCEPT !.balance = @ + 1] EXCEPT !.transferCount = h.transferCount + 1] = Credit(h)
  <2>1. PICK g : g = [h EXCEPT !.balance = @ + 1]
    OBVIOUS
  <2>2. g = [id |-> h.id, address |-> h.address, balance |-> h.balance + 1, transferCount |-> h.transferCount]
    BY <1>3, <2>1
  <2>3. [g EXCEPT !.transferCount = h.transferCount + 1] = Credit(h)
    BY <2>2 DEF Credit
  <2> QED
    BY <2>1, <2>3
<1>5. Credit(h) \in HolderEntities
  BY <1>1 DEF Credit, HolderEntities
<1>6. Complete(Credit(h))
  <2>1. h.balance + 1 \in Nat /\ h.transferCount + 1 \in Nat
    BY <1>1
  <2>2. h.id # Unset /\ h.address # Unset /\ h.balance + 1 # Unset /\ h.transferCount + 1 # Unset
    BY <1>1, <2>1, UnsetAssumption
  <2> QED
    BY <2>2 DEF Complete, Credit
<1> QED
  BY <1>2, <1>4, <1>5, <1>6

\* What one call makes of a store that lacks the event.
LEMMA HandleTransferGives ==
  ASSUME NEW store, IsStore(store), NEW ev \in EventArgs,
         \A t \in store.transfer : t.id # <<ev.txHash, ev.index>>
  PROVE  HandleTransfer(store, ev) =
           [holder |-> {g \in store.holder : g.id # ev.to} \cup {Credit(FindHolder(store, ev))},
            transfer |-> store.transfer \cup {TransferOf(ev)},
            failed |-> store.failed]
<1> PICK h \in HolderEntities : h = FindHolder(store, ev) /\ h.id = ev.to
  BY FindHolderGives
<1> PICK new : new = Credit(h)
  OBVIOUS
<1>1. /\ [h EXCEPT !.balance = @ + ev.value, !.transferCount = TransferCount(h) + 1] = new
      /\ Complete(new) /\ h.balance # Unset /\ new.id = ev.to
  <2>1. ev.value = 1
    BY DEF EventArgs
  <2> QED
    BY <2>1, Credited DEF Credit
<1>2. Saves(store, new, TransferOf(ev))
  BY <1>1, TransferOfGives DEF Saves
<1>3. HandleTransfer(store, ev) = SaveTransfer(SaveHolder(store, new), TransferOf(ev))
  <2>1. HandleTransfer(store, ev) =
          IF h.balance # Unset
               /\ Saves(store, [h EXCEPT !.balance = @ + ev.value, !.transferCount = TransferCount(h) + 1], TransferOf(ev))
            THEN SaveTransfer(SaveHolder(store, [h EXCEPT !.balance = @ + ev.value,
                                                          !.transferCount = TransferCount(h) + 1]),
                              TransferOf(ev))
            ELSE Failed(store)
    BY DEF HandleTransfer
  <2> QED
    BY <1>1, <1>2, <2>1
<1>4. SaveHolder(store, new) = [holder |-> {g \in store.holder : g.id # ev.to} \cup {new},
                               transfer |-> store.transfer, failed |-> store.failed]
  <2>1. SaveHolder(store, new) = [store EXCEPT !.holder = {g \in store.holder : g.id # ev.to} \cup {new}]
    BY <1>1 DEF SaveHolder
  <2> QED
    BY <2>1 DEF IsStore
<1>5. PICK saved : saved = SaveHolder(store, new)
  OBVIOUS
<1>6. [saved EXCEPT !.transfer = @ \cup {TransferOf(ev)}] =
        [holder |-> {g \in store.holder : g.id # ev.to} \cup {new},
         transfer |-> store.transfer \cup {TransferOf(ev)}, failed |-> store.failed]
  <2>1. PICK H : H = {g \in store.holder : g.id # ev.to} \cup {new}
    OBVIOUS
  <2>2. PICK T : T = store.transfer \cup {TransferOf(ev)}
    OBVIOUS
  <2>3. saved = [holder |-> H, transfer |-> store.transfer, failed |-> store.failed]
    BY <1>4, <1>5, <2>1
  <2>4. [saved EXCEPT !.transfer = T] = [holder |-> H, transfer |-> T, failed |-> store.failed]
    BY <2>3
  <2>5. saved.transfer = store.transfer
    BY <2>3
  <2> QED
    BY <2>1, <2>2, <2>4, <2>5
<1>7. HandleTransfer(store, ev) = SaveTransfer(saved, TransferOf(ev))
  BY <1>3, <1>5
<1>8. SaveTransfer(saved, TransferOf(ev)) = [saved EXCEPT !.transfer = @ \cup {TransferOf(ev)}]
  BY DEF SaveTransfer
<1> QED
  BY <1>6, <1>7, <1>8

\* One call keeps the books of the store.
LEMMA HandleTransferKeeps ==
  ASSUME NEW store, IsStore(store), Kept(store), NEW ev \in EventArgs,
         \A t \in store.transfer : t.id # <<ev.txHash, ev.index>>,
         NEW next, next = HandleTransfer(store, ev)
  PROVE  /\ IsStore(next) /\ Kept(next) /\ next.failed = store.failed
         /\ next.transfer = store.transfer \cup {TransferOf(ev)}
         /\ Cardinality(next.transfer) = Cardinality(store.transfer) + 1
<1> PICK h \in HolderEntities :
      /\ h = FindHolder(store, ev) /\ h.id = ev.to
      /\ IF \E g \in store.holder : g.id = ev.to THEN h \in store.holder ELSE h.balance = 0 /\ h.transferCount = 0
  BY FindHolderGives
<1> PICK new : new = Credit(h)
  OBVIOUS
<1> PICK t0 : t0 = TransferOf(ev)
  OBVIOUS
<1>1. /\ new \in HolderEntities /\ new.id = ev.to
      /\ new.balance = h.balance + 1 /\ new.transferCount = h.transferCount + 1
  BY Credited DEF Credit
<1>2. t0.to = ev.to /\ t0 \notin store.transfer
  BY TransferOfGives
<1>3. /\ next.holder = {g \in store.holder : g.id # ev.to} \cup {new}
      /\ next.transfer = store.transfer \cup {t0} /\ next.failed = store.failed
      /\ next = [holder |-> next.holder, transfer |-> next.transfer, failed |-> next.failed]
  BY HandleTransferGives
<1>4. IsStore(next)
  BY <1>1, <1>3 DEF IsStore
<1>5. IsFiniteSet(store.transfer) /\ IsFiniteSet(next.transfer)
      /\ Cardinality(next.transfer) = Cardinality(store.transfer) + 1
  <2>1. IsFiniteSet(store.transfer)
    BY DEF Kept
  <2>2. /\ IsFiniteSet(store.transfer \cup {t0})
        /\ Cardinality(store.transfer \cup {t0}) = Cardinality(store.transfer) + 1
    BY <1>2, <2>1, FS_AddElement
  <2> QED
    BY <1>3, <2>1, <2>2
<1>6. \A a : IsFiniteSet(ReceivedBy(store, a)) /\ Cardinality(ReceivedBy(store, a)) \in Nat
  BY <1>5, FS_Subset, FS_CardinalityType DEF ReceivedBy
<1>7. ASSUME NEW a, a # ev.to PROVE ReceivedBy(next, a) = ReceivedBy(store, a)
  BY <1>2, <1>3, <1>7 DEF ReceivedBy
<1>8. Cardinality(ReceivedBy(next, ev.to)) = Cardinality(ReceivedBy(store, ev.to)) + 1
  <2>1. ReceivedBy(next, ev.to) = ReceivedBy(store, ev.to) \cup {t0} /\ t0 \notin ReceivedBy(store, ev.to)
    BY <1>2, <1>3 DEF ReceivedBy
  <2> QED
    BY <1>6, <2>1, FS_AddElement
<1>9. h.balance = Cardinality(ReceivedBy(store, ev.to)) /\ h.transferCount = Cardinality(ReceivedBy(store, ev.to))
  <2>1. CASE \E g \in store.holder : g.id = ev.to
    BY <2>1 DEF Kept
  <2>2. CASE ~\E g \in store.holder : g.id = ev.to
    <3>1. ReceivedBy(store, ev.to) = {}
      BY <2>2 DEF Kept, ReceivedBy
    <3> QED
      BY <2>2, <3>1, FS_EmptySet
  <2> QED
    BY <2>1, <2>2
<1>10. \A f, g \in next.holder : f.id = g.id => f = g
  BY <1>1, <1>3 DEF Kept
<1>11. \A t \in next.transfer : \E g \in next.holder : g.id = t.to
  <2> SUFFICES ASSUME NEW t \in next.transfer PROVE \E g \in next.holder : g.id = t.to
    OBVIOUS
  <2>1. CASE t.to = ev.to
    BY <1>1, <1>3, <2>1
  <2>2. CASE t.to # ev.to
    <3>1. PICK g \in store.holder : g.id = t.to
      BY <1>2, <1>3, <2>2 DEF Kept
    <3> QED
      BY <1>3, <2>2, <3>1
  <2> QED
    BY <2>1, <2>2
<1>12. \A g \in next.holder : /\ g.transferCount = Cardinality(ReceivedBy(next, g.id))
                              /\ g.balance = Cardinality(ReceivedBy(next, g.id))
  <2> SUFFICES ASSUME NEW g \in next.holder
               PROVE  /\ g.transferCount = Cardinality(ReceivedBy(next, g.id))
                      /\ g.balance = Cardinality(ReceivedBy(next, g.id))
    OBVIOUS
  <2>1. CASE g = new
    BY <1>1, <1>8, <1>9, <2>1
  <2>2. CASE g # new
    <3>1. g \in store.holder /\ g.id # ev.to
      BY <1>3, <2>2
    <3> QED
      BY <1>7, <3>1 DEF Kept
  <2> QED
    BY <2>1, <2>2
<1> QED
  BY <1>3, <1>4, <1>5, <1>10, <1>11, <1>12 DEF Kept

\* No two events of the chain have block and log index in common.
Distinct == \A d, e \in DOMAIN log : log[d].block = log[e].block /\ log[d].index = log[e].index => d = e

\* The store has one entity for each event handled.
GraphInv ==
  /\ graph.seen \in Nat /\ graph.seen <= Len(log)
  /\ IsStore(graph.store) /\ ~graph.store.failed /\ Kept(graph.store)
  /\ Cardinality(graph.store.transfer) = graph.seen
  /\ \A t \in graph.store.transfer : \E e \in 1..graph.seen : t.id = <<log[e].block, log[e].index>>

LEMMA DistinctStep ==
  ASSUME IInv, Distinct, MineBlock
  PROVE  Distinct'
<1>1. IndexerTypeOK /\ Len(log) \in Nat /\ DOMAIN log = 1..Len(log)
  BY ChainTypes DEF IInv
<1>2. log' \in Seq(Events)
  BY <1>1, NewBlock
<1>3. DOMAIN log' = 1..Len(log') /\ Len(log') \in Nat
  BY <1>2
<1>4. \A e \in DOMAIN log : log'[e] = log[e] /\ log[e].block \in Nat /\ log[e].block < Head0(log) + 1
  <2>1. \A d \in DOMAIN log : Len(log) \in DOMAIN log /\ d <= Len(log) /\ log # <<>>
    BY <1>1
  <2>2. \A d \in DOMAIN log : log[d].block \in Nat
    BY <1>1, ChainTypes
  <2>3. Head0(log) \in Nat
    BY <1>1, NewBlock
  <2>4. \A d \in DOMAIN log : log[d].block <= Head0(log)
    BY <2>1 DEF IInv, Chain, Head0
  <2> QED
    BY <1>1, <2>2, <2>3, <2>4, NewBlock
<1>5. \A e \in DOMAIN log' : e \notin DOMAIN log => log'[e].block = Head0(log) + 1 /\ log'[e].index = e - Len(log)
  BY <1>1, NewBlock
<1> SUFFICES ASSUME NEW d \in DOMAIN log', NEW e \in DOMAIN log',
                    log'[d].block = log'[e].block, log'[d].index = log'[e].index
             PROVE  d = e
  BY DEF Distinct
<1>6. CASE d \in DOMAIN log /\ e \in DOMAIN log
  BY <1>4, <1>6 DEF Distinct
<1>7. CASE d \notin DOMAIN log /\ e \notin DOMAIN log
  <2>1. d - Len(log) = e - Len(log) /\ d \in Nat /\ e \in Nat
    BY <1>3, <1>5, <1>7
  <2> QED
    BY <1>1, <2>1
<1>8. CASE ~(d \in DOMAIN log <=> e \in DOMAIN log)
  BY <1>4, <1>5, <1>8
<1> QED
  BY <1>6, <1>7, <1>8

LEMMA EventType ==
  ASSUME IndexerTypeOK, NEW e \in DOMAIN log
  PROVE  /\ Event(e) \in EventArgs
         /\ Event(e).txHash = log[e].block /\ Event(e).index = log[e].index /\ Event(e).to = log[e].to
<1>1. log[e] \in Events /\ PerBlock \in Nat
  BY ChainTypes, IndexerAssumption
<1>2. log[e].block \in Nat /\ log[e].index \in Nat /\ log[e].from \in Holders \cup {Minter} /\ log[e].to \in Holders
  BY <1>1 DEF Events
<1> QED
  BY <1>2 DEF Event, EventArgs

LEMMA HandleStep ==
  ASSUME IInv, Distinct, GraphInv, HandleTransferSingle
  PROVE  GraphInv'
<1> PICK e : e = graph.seen + 1
  OBVIOUS
<1>1. /\ log' = log /\ graph.seen \in Nat /\ graph.seen < Len(log) /\ Len(log) \in Nat
      /\ DOMAIN log = 1..Len(log)
      /\ graph' = [seen |-> e, store |-> HandleTransfer(graph.store, Event(e))]
  BY ChainTypes DEF HandleTransferSingle, GraphInv, IInv
<1>2. e \in DOMAIN log /\ e \in Nat /\ \A d \in 1..graph.seen : d \in DOMAIN log /\ d # e
  BY <1>1
<1>3. /\ Event(e) \in EventArgs
      /\ Event(e).txHash = log[e].block /\ Event(e).index = log[e].index
  BY <1>2, EventType DEF IInv
<1>4. \A t \in graph.store.transfer : t.id # <<Event(e).txHash, Event(e).index>>
  <2> SUFFICES ASSUME NEW t \in graph.store.transfer, t.id = <<log[e].block, log[e].index>>
               PROVE  FALSE
    BY <1>3
  <2>1. PICK d \in 1..graph.seen : t.id = <<log[d].block, log[d].index>>
    BY DEF GraphInv
  <2>2. log[d].block = log[e].block /\ log[d].index = log[e].index
    BY <2>1
  <2> QED
    BY <1>2, <2>2 DEF Distinct
<1> PICK store : store = graph.store
  OBVIOUS
<1> PICK next : next = HandleTransfer(store, Event(e))
  OBVIOUS
<1>5. graph'.seen = e /\ graph'.store = next
  BY <1>1
<1>6. /\ IsStore(next) /\ Kept(next) /\ next.failed = store.failed
      /\ next.transfer = store.transfer \cup {TransferOf(Event(e))}
      /\ Cardinality(next.transfer) = Cardinality(store.transfer) + 1
  BY <1>3, <1>4, HandleTransferKeeps DEF GraphInv
<1>7. \A t \in next.transfer : \E d \in 1..e : t.id = <<log[d].block, log[d].index>>
  <2> SUFFICES ASSUME NEW t \in next.transfer
               PROVE  \E d \in 1..e : t.id = <<log[d].block, log[d].index>>
    OBVIOUS
  <2>1. CASE t \in store.transfer
    <3>1. PICK d \in 1..graph.seen : t.id = <<log[d].block, log[d].index>>
      BY <2>1 DEF GraphInv
    <3>2. d \in 1..e
      BY <1>1
    <3> QED
      BY <3>1, <3>2
  <2>2. CASE t = TransferOf(Event(e))
    <3>1. t.id = <<log[e].block, log[e].index>>
      BY <1>3, <2>2, TransferOfGives
    <3>2. e \in 1..e
      BY <1>1, <1>2
    <3> QED
      BY <3>1, <3>2
  <2> QED
    BY <1>6, <2>1, <2>2
<1>8. e <= Len(log) /\ Cardinality(next.transfer) = e
  BY <1>1, <1>6 DEF GraphInv
<1> QED
  BY <1>1, <1>2, <1>5, <1>6, <1>7, <1>8 DEF GraphInv

LEMMA GraphStep ==
  ASSUME IInv, Distinct, GraphInv, [IndexerNext]_indexerVars
  PROVE  Distinct' /\ GraphInv'
<1>1. CASE MineBlock
  <2>1. Distinct'
    BY <1>1, DistinctStep
  <2>2. /\ graph' = graph /\ Len(log) \in Nat /\ Len(log') \in Nat /\ Len(log) <= Len(log')
        /\ \A e \in 1..Len(log) : log'[e] = log[e]
    <3>1. /\ log' \in Seq(Events) /\ DOMAIN log \subseteq DOMAIN log' /\ graph' = graph
          /\ \A e \in DOMAIN log : log'[e] = log[e]
      BY <1>1, NewBlock DEF IInv
    <3>2. DOMAIN log' = 1..Len(log') /\ Len(log') \in Nat /\ DOMAIN log = 1..Len(log) /\ Len(log) \in Nat
      BY <3>1, ChainTypes DEF IInv
    <3>3. Len(log) <= Len(log')
      <4>1. Len(log) = 0 \/ Len(log) \in DOMAIN log
        BY <3>2
      <4> QED
        BY <3>1, <3>2, <4>1
    <3> QED
      BY <3>1, <3>2, <3>3
  <2>3. GraphInv'
    BY <2>2 DEF GraphInv
  <2> QED
    BY <2>1, <2>3
<1>2. CASE HandleTransferSingle
  <2>1. Distinct'
    BY <1>2 DEF HandleTransferSingle, Distinct
  <2> QED
    BY <1>2, <2>1, HandleStep
<1>3. ASSUME UNCHANGED <<log, graph>> PROVE Distinct' /\ GraphInv'
  BY <1>3 DEF Distinct, GraphInv
<1>4. MineBlock \/ HandleTransferSingle \/ UNCHANGED <<log, graph>>
  BY DEF IndexerNext, Start, Process, Crash, Asked, StatsQuery, ReadLast, ReadLatest,
         QueryEvents, History, InsertHistoric, UpsertHistoric, Subscribe, Subscribed, Deliver, Listener,
         InsertLive, UpsertLive, indexerVars, dbVars
<1> QED
  BY <1>1, <1>2, <1>3, <1>4

LEMMA InitGraphInv == IndexerInit => Distinct /\ GraphInv
<1> SUFFICES ASSUME IndexerInit PROVE Distinct /\ GraphInv
  OBVIOUS
<1>1. log = <<>> /\ Len(log) = 0 /\ graph = [seen |-> 0, store |-> EmptyStore]
  BY DEF IndexerInit
<1>2. Kept(EmptyStore) /\ IsStore(EmptyStore)
  BY FS_EmptySet DEF EmptyStore, Kept, IsStore
<1>3. Distinct
  BY <1>1 DEF Distinct
<1>4. graph.seen = 0 /\ graph.store = EmptyStore /\ ~EmptyStore.failed /\ EmptyStore.transfer = {}
  BY <1>1 DEF EmptyStore
<1>5. graph.store.transfer = {} /\ ~graph.store.failed /\ IsStore(graph.store) /\ Kept(graph.store)
  BY <1>2, <1>4
<1>6. Cardinality(graph.store.transfer) = graph.seen
  BY <1>4, <1>5, FS_EmptySet
<1>7. graph.seen \in Nat /\ graph.seen <= Len(log)
  BY <1>1, <1>4
<1> QED
  BY <1>3, <1>5, <1>6, <1>7 DEF GraphInv

LEMMA KeptMatches ==
  ASSUME GraphInv
  PROVE  BalanceMatchesEntities
<1>1. \A t \in graph.store.transfer : LoadHolder(graph.store, t.to) # Unset
  BY LoadHolderGives DEF GraphInv, Kept
<1> QED
  BY <1>1 DEF GraphInv, Kept, BalanceMatchesEntities, ReceivedBy

(***************************************************************************)
(* For any chain, handleTransferSingle throws on no event, keeps one       *)
(* entity for each, and a Holder's balance and count are those of the      *)
(* entities it received.                                                   *)
(***************************************************************************)
THEOREM BalanceMatchesHolds == IndexerSpec => []BalanceMatchesEntities
<1>1. IInv /\ Distinct /\ GraphInv /\ [IndexerNext]_indexerVars => Distinct' /\ GraphInv'
  BY GraphStep
<1>2. GraphInv => BalanceMatchesEntities
  BY KeptMatches
<1> QED
  BY <1>1, <1>2, InitGraphInv, Invariance, PTL DEF IndexerSpec
=============================================================================
