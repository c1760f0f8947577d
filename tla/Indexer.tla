------------------------------- MODULE Indexer -------------------------------
(***************************************************************************)
(* The two books kept of the tokens: indexer.js writes TransferSingle      *)
(* events of two contracts into the Postgres tables events and holders     *)
(* (db.js), and mapping.ts writes them into the entities of the subgraph   *)
(* (module Subgraph).  GET /stats reads the first book while it is         *)
(* written.                                                                *)
(*                                                                         *)
(* Every event moves one token.  The chain does not reorganise; graph-node *)
(* calls the mapping once for each event, in order.                        *)
(***************************************************************************)
EXTENDS Integers, Sequences, FiniteSets, Functions, Subgraph

CONSTANTS
  Contracts,  \* the contracts in the order of main(): merkle, then signed
  Holders,    \* addresses that receive tokens
  Minter,     \* the zero address, sender of minted tokens
  Transfers,  \* whether holders pass tokens on
  MaxEvents,  \* bound on the events
  PerBlock,   \* bound on the events of a block, which one transaction emits
  MaxStarts   \* bound on the starts of the indexer

ASSUME IndexerAssumption ==
  /\ Contracts \in Seq(Range(Contracts)) /\ Contracts # <<>> /\ IsInjective(Contracts)
  /\ Minter \notin Holders /\ IsFiniteSet(Holders)
  /\ Transfers \in BOOLEAN
  /\ MaxEvents \in Nat /\ PerBlock \in Nat \ {0} /\ MaxStarts \in Nat

\* Unset is no value of a field, and no entity.
HolderEntities == [id : Holders, address : Holders, balance : Nat, transferCount : Nat]

ASSUME UnsetAssumption ==
  /\ Unset \notin Nat \cup Holders \cup {Minter}
  /\ Unset \notin Nat \X Nat /\ Unset \notin HolderEntities

VARIABLES
  log,     \* the events in the order of the chain
  rows,    \* table events: the event of each row, its block_number, and (history)
           \* the start of the indexer that wrote it
  holders, \* table holders: balance by address
  run,     \* main(): pc, the contract at work, last, latest, rest of the query
  sub,     \* sub[c]: contract.on("TransferSingle"), and what it has delivered
  live,    \* calls of the listeners that have not ended
  starts,  \* how often the indexer has been started
  graph,   \* subgraph: events handled, and the store of its entities
  stats    \* getStats: pc, the total and the last block it has read

dbVars == <<rows, holders>>
indexerVars == <<log, dbVars, run, sub, live, starts, graph, stats>>

Null == 0  \* block_number NULL: blocks are counted from 1

Head0(s) == IF s = <<>> THEN 0 ELSE s[Len(s)].block
Down == [pc |-> "down", k |-> 1, last |-> 0, latest |-> 0, todo |-> {}]
NoSub == [on |-> "no", seen |-> 0]
NoStats == [pc |-> "idle", total |-> 0, last |-> 0]

IndexerTypeOK ==
  /\ log \in Seq([block : Nat \ {0}, index : 1..PerBlock, contract : Range(Contracts),
                  from : Holders \cup {Minter}, to : Holders])
  /\ rows \in Seq([event : DOMAIN log, block : Nat, start : 1..MaxStarts])
  /\ holders \in [Holders -> Nat]
  /\ run \in [pc : {"down", "last", "latest", "query", "insert", "upsert", "on", "live"},
              k : DOMAIN Contracts, last : Nat, latest : Nat, todo : SUBSET DOMAIN log]
  /\ sub \in [DOMAIN Contracts -> [on : {"no", "asked", "on"}, seen : Nat]]
  /\ live \subseteq [event : DOMAIN log, pc : {"insert", "upsert"}]
  /\ starts \in 0..MaxStarts
  /\ stats.pc \in {"idle", "holders", "events", "answered"} /\ stats.last \in Nat

IndexerInit ==
  /\ log = <<>> /\ rows = <<>>
  /\ holders = [a \in Holders |-> 0]
  /\ run = Down /\ sub = [k \in DOMAIN Contracts |-> NoSub] /\ live = {} /\ starts = 0
  /\ graph = [seen |-> 0, store |-> EmptyStore]
  /\ stats = NoStats

-----------------------------------------------------------------------------
(* The chain *)

BalanceOf(C, a) ==
  Cardinality({i \in DOMAIN log : log[i].contract \in C /\ log[i].to = a})
    - Cardinality({i \in DOMAIN log : log[i].contract \in C /\ log[i].from = a})

\* A transaction mints to one holder or several, or passes a token on.
Mined(c, from, tos) == [i \in 1..Len(tos) |->
  [block |-> Head0(log) + 1, index |-> i, contract |-> c, from |-> from, to |-> tos[i]]]

MineBlock ==
  /\ \E k \in DOMAIN Contracts, n \in 1..PerBlock : \E tos \in [1..n -> Holders] :
       \/ /\ Len(log) + n <= MaxEvents
          /\ log' = log \o Mined(Contracts[k], Minter, tos)
       \/ /\ Transfers /\ n = 1 /\ Len(log) < MaxEvents
          /\ \E a \in Holders \ {tos[1]} :
               /\ BalanceOf({Contracts[k]}, a) > 0
               /\ log' = log \o Mined(Contracts[k], a, tos)
  /\ UNCHANGED <<dbVars, run, sub, live, starts, graph, stats>>

-----------------------------------------------------------------------------
(* db.js *)

IndexedBlocks == {rows[i].block : i \in DOMAIN rows} \cup {0}

\* lastIndexedBlock: MAX passes over NULL.
IsLastIndexed(b) == b \in IndexedBlocks /\ \A x \in IndexedBlocks : x <= b

\* The two statements of ingestEvent, each in a transaction of its own.
InsertRow(e, block) == rows' = Append(rows, [event |-> e, block |-> block, start |-> starts])
UpsertHolder(e) == holders' = [holders EXCEPT ![log[e].to] = @ + 1]

-----------------------------------------------------------------------------
(* indexer.js *)

Start ==
  /\ run.pc = "down" /\ starts < MaxStarts
  /\ run' = [Down EXCEPT !.pc = "last"]
  /\ starts' = starts + 1
  /\ UNCHANGED <<log, dbVars, sub, live, graph, stats>>

ReadLast ==
  /\ run.pc = "last"
  /\ \E b \in IndexedBlocks :
       IsLastIndexed(b) /\ run' = [run EXCEPT !.pc = "latest", !.last = b]
  /\ UNCHANGED <<log, dbVars, sub, live, starts, graph, stats>>

ReadLatest ==
  /\ run.pc = "latest"
  /\ run' = [run EXCEPT !.pc = "query", !.latest = Head0(log)]
  /\ UNCHANGED <<log, dbVars, sub, live, starts, graph, stats>>

\* Mutant: the query starts a block too late.
InRangeLate(e) ==
  log[e].contract = Contracts[run.k] /\ run.last + 1 < log[e].block /\ log[e].block <= run.latest

InRange(e) ==
  log[e].contract = Contracts[run.k] /\ run.last < log[e].block /\ log[e].block <= run.latest

\* queryFilter("TransferSingle", last + 1, latest)
QueryEvents ==
  /\ run.pc = "query"
  /\ LET todo == {e \in DOMAIN log : InRange(e)} IN
       run' = [run EXCEPT !.todo = todo, !.pc = IF todo = {} THEN "on" ELSE "insert"]
  /\ UNCHANGED <<log, dbVars, sub, live, starts, graph, stats>>

\* The rest of the query is handled in the order of the chain.
First(e) == e \in run.todo /\ \A f \in run.todo : e <= f

\* Mutant: the holder is credited before the event is recorded.
InsertHistoricSwapped(e) ==
  /\ run.pc = "insert" /\ First(e)
  /\ UpsertHolder(e)
  /\ run' = [run EXCEPT !.pc = "upsert"]
  /\ UNCHANGED <<log, rows, sub, live, starts, graph, stats>>

InsertHistoric(e) ==
  /\ run.pc = "insert" /\ First(e)
  /\ InsertRow(e, log[e].block)
  /\ run' = [run EXCEPT !.pc = "upsert"]
  /\ UNCHANGED <<log, holders, sub, live, starts, graph, stats>>

UpsertHistoric(e) ==
  /\ run.pc = "upsert" /\ First(e)
  /\ UpsertHolder(e)
  /\ run' = [run EXCEPT !.todo = @ \ {e},
                        !.pc = IF run.todo = {e} THEN "on" ELSE "insert"]
  /\ UNCHANGED <<log, rows, sub, live, starts, graph, stats>>

\* contract.on, which nobody awaits; then the next contract, or main() ends.
Subscribe ==
  /\ run.pc = "on"
  /\ sub' = [sub EXCEPT ![run.k] = [on |-> "asked", seen |-> 0]]
  /\ run' = IF run.k < Len(Contracts) THEN [Down EXCEPT !.pc = "last", !.k = run.k + 1]
            ELSE [run EXCEPT !.pc = "live"]
  /\ UNCHANGED <<log, dbVars, live, starts, graph, stats>>

\* Mutant: the subscription delivers from the start of the chain.
SubscribedFromStart(k) ==
  /\ sub[k].on = "asked"
  /\ sub' = [sub EXCEPT ![k] = [on |-> "on", seen |-> 0]]
  /\ UNCHANGED <<log, dbVars, run, live, starts, graph, stats>>

\* The node has made the filter: later events are delivered.
Subscribed(k) ==
  /\ sub[k].on = "asked"
  /\ sub' = [sub EXCEPT ![k] = [on |-> "on", seen |-> Len(log)]]
  /\ UNCHANGED <<log, dbVars, run, live, starts, graph, stats>>

Undelivered(k) == {e \in DOMAIN log : e > sub[k].seen /\ log[e].contract = Contracts[k]}

Deliver(k) ==
  /\ sub[k].on = "on"
  /\ \E e \in Undelivered(k) :
       /\ \A f \in Undelivered(k) : e <= f
       /\ sub' = [sub EXCEPT ![k].seen = e]
       /\ live' = live \cup {[event |-> e, pc |-> "insert"]}
  /\ UNCHANGED <<log, dbVars, run, starts, graph, stats>>

\* The listener's last argument is an event payload, which has no
\* transactionHash and no blockNumber: the row has NULL for both.
InsertLive(e) ==
  /\ [event |-> e, pc |-> "insert"] \in live
  /\ InsertRow(e, Null)
  /\ live' = (live \ {[event |-> e, pc |-> "insert"]}) \cup {[event |-> e, pc |-> "upsert"]}
  /\ UNCHANGED <<log, holders, run, sub, starts, graph, stats>>

UpsertLive(e) ==
  /\ [event |-> e, pc |-> "upsert"] \in live
  /\ UpsertHolder(e)
  /\ live' = live \ {[event |-> e, pc |-> "upsert"]}
  /\ UNCHANGED <<log, rows, run, sub, starts, graph, stats>>

\* The process ends: killed, or by an error of the database or the node.
Crash ==
  /\ run.pc # "down" /\ starts < MaxStarts
  /\ run' = Down /\ live' = {} /\ sub' = [k \in DOMAIN Contracts |-> NoSub]
  /\ UNCHANGED <<log, dbVars, starts, graph, stats>>

-----------------------------------------------------------------------------
(* getStats, for GET /stats and the last lines of main() *)

Asked ==
  /\ stats.pc = "idle"
  /\ stats' = [NoStats EXCEPT !.pc = "holders"]
  /\ UNCHANGED <<log, dbVars, run, sub, live, starts, graph>>

Total == SumFunction(holders)

\* Mutant: the last block is read before the balances are added up.
StatsQuerySwapped ==
  /\ \/ /\ stats.pc = "holders"
        /\ \E b \in IndexedBlocks :
             IsLastIndexed(b) /\ stats' = [stats EXCEPT !.pc = "events", !.last = b]
     \/ /\ stats.pc = "events"
        /\ stats' = [stats EXCEPT !.pc = "answered", !.total = Total]
  /\ UNCHANGED <<log, dbVars, run, sub, live, starts, graph>>

\* Two statements, each in a transaction of its own.
StatsQuery ==
  /\ \/ /\ stats.pc = "holders"
        /\ stats' = [stats EXCEPT !.pc = "events", !.total = Total]
     \/ /\ stats.pc = "events"
        /\ \E b \in IndexedBlocks :
             IsLastIndexed(b) /\ stats' = [stats EXCEPT !.pc = "answered", !.last = b]
  /\ UNCHANGED <<log, dbVars, run, sub, live, starts, graph>>

-----------------------------------------------------------------------------
(* The events as graph-node gives them to mapping.ts *)

Event(e) ==
  [block |-> log[e].block, txHash |-> log[e].block, index |-> log[e].index,
   operator |-> Minter, from |-> log[e].from, to |-> log[e].to, tokenId |-> 0, value |-> 1]

HandleTransferSingle ==
  /\ graph.seen < Len(log) /\ ~graph.store.failed
  /\ graph' = [seen |-> graph.seen + 1, store |-> HandleTransfer(graph.store, Event(graph.seen + 1))]
  /\ UNCHANGED <<log, dbVars, run, sub, live, starts, stats>>

-----------------------------------------------------------------------------
Listener == \E e \in DOMAIN log : InsertLive(e) \/ UpsertLive(e)

History == \E e \in run.todo : InsertHistoric(e) \/ UpsertHistoric(e)

Process ==
  \/ ReadLast \/ ReadLatest \/ QueryEvents \/ History \/ Subscribe
  \/ \E k \in DOMAIN Contracts : Subscribed(k) \/ Deliver(k)
  \/ Listener

IndexerNext == MineBlock \/ Start \/ Process \/ Crash \/ HandleTransferSingle \/ Asked \/ StatsQuery

IndexerSpec == IndexerInit /\ [][IndexerNext]_indexerVars

-----------------------------------------------------------------------------
(* Properties *)

Rows(a) == Cardinality({i \in DOMAIN rows : log[rows[i].event].to = a})

Crediting(a) ==
  (IF run.pc = "upsert" /\ (\E e \in run.todo : First(e) /\ log[e].to = a) THEN 1 ELSE 0)
    + Cardinality({t \in live : t.pc = "upsert" /\ log[t.event].to = a})

(***************************************************************************)
(* Safety: a balance in the table holders is never more than the rows of   *)
(* the table events account for, whenever the process ends between the two *)
(* statements of ingestEvent.                                              *)
(***************************************************************************)
CreditHasRow == \A a \in Holders : holders[a] + Crediting(a) <= Rows(a)

\* The rows of an event; those of the listeners have no number.
RowsOf(e) == {i \in DOMAIN rows : rows[i].event = e}
Numbered(e) == {i \in RowsOf(e) : rows[i].block # Null}

(***************************************************************************)
(* Safety: an event is taken by the historic query or by the live listener *)
(* but not by both in one start of the indexer, and by the historic query  *)
(* only once ever: all that a restart can count again are rows the         *)
(* listener wrote without a block number (processEvents).                  *)
(***************************************************************************)
CountedOnce == \A e \in DOMAIN log :
  /\ Cardinality(Numbered(e)) <= 1
  /\ \A n \in 1..starts : Cardinality({i \in RowsOf(e) : rows[i].start = n}) <= 1

(***************************************************************************)
(* Safety: an event below the block to resume from that has no row will    *)
(* never get one.  It is either of the very block that was at work in a    *)
(* crash, or the other contract moved the block past it: a crash by itself *)
(* loses no more than the rest of one block (processEvents).               *)
(***************************************************************************)
LossExplained == \A e \in DOMAIN log :
  RowsOf(e) = {} /\ (\E b \in IndexedBlocks : log[e].block < b) =>
    \E f \in DOMAIN log :
      /\ Numbered(f) # {} /\ log[f].block >= log[e].block
      /\ log[f].contract = log[e].contract => log[f].block = log[e].block

(***************************************************************************)
(* Safety: the total of /stats counts no token mined after the last block  *)
(* it reports, but those of rows without a number, though balances and     *)
(* blocks are read one after the other (getStats).                         *)
(***************************************************************************)
StatsBacked == stats.pc = "answered" =>
  stats.total <= Cardinality({i \in DOMAIN rows : rows[i].block <= stats.last})

(***************************************************************************)
(* Safety: no event stops the subgraph, and a Holder's balance and count   *)
(* are those of the TransferSingle entities it received, also when one     *)
(* transaction emits several (handleTransferSingle).                       *)
(***************************************************************************)
BalanceMatchesEntities ==
  /\ ~graph.store.failed
  /\ Cardinality(graph.store.transfer) = graph.seen
  /\ \A t \in graph.store.transfer : LoadHolder(graph.store, t.to) # Unset
  /\ \A h \in graph.store.holder :
       LET Received == {t \in graph.store.transfer : t.to = h.id}
       IN  h.transferCount = Cardinality(Received) /\ h.balance = Cardinality(Received)

\* Both books have taken in everything they will of the present chain.
Settled ==
  /\ run.pc = "live" /\ live = {}
  /\ \A k \in DOMAIN Contracts : sub[k].on = "on" /\ Undelivered(k) = {}
  /\ graph.seen = Len(log)

(***************************************************************************)
(* Documented, 02-arco2-infraestrutura.md Dia 11: "Mesmo numero de holders *)
(* e total mintado nas duas saidas": once settled, the two books agree.    *)
(***************************************************************************)
BooksAgree == Settled => \A a \in Holders :
  LET h == LoadHolder(graph.store, a) IN holders[a] = IF h = Unset THEN 0 ELSE h.balance
=============================================================================
