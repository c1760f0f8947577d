------------------------------- MODULE Subgraph -------------------------------
(***************************************************************************)
(* mapping.ts over the entities of schema.ts: the store graph-node keeps   *)
(* of the tokens, and what one call of handleTransferSingle makes of it.   *)
(*                                                                         *)
(* An entity is the record of its fields.  A field nobody has set is       *)
(* Unset: reading it, or saving an entity that lacks it, throws, and so    *)
(* does saving a second version of an immutable entity.  graph-node then   *)
(* drops what the handler wrote and indexes no further.                    *)
(***************************************************************************)
EXTENDS Naturals

CONSTANT Unset

EmptyStore == [holder |-> {}, transfer |-> {}, failed |-> FALSE]

-----------------------------------------------------------------------------
(* schema.ts *)

NewHolder(id) == [id |-> id, address |-> Unset, balance |-> Unset, transferCount |-> Unset]

NewTransferSingle(id) ==
  [id |-> id, operator |-> Unset, from |-> Unset, to |-> Unset, tokenId |-> Unset,
   value |-> Unset, blockNumber |-> Unset, txHash |-> Unset]

\* Holder.load; Unset if there is none.
LoadHolder(store, id) ==
  LET Found == {h \in store.holder : h.id = id}
  IN  IF Found = {} THEN Unset ELSE CHOOSE h \in Found : TRUE

\* Of the fields, only transferCount has a value when nothing was set.
TransferCount(holder) == IF holder.transferCount = Unset THEN 0 ELSE holder.transferCount

Complete(entity) == \A f \in DOMAIN entity : entity[f] # Unset

Failed(store) == [store EXCEPT !.failed = TRUE]

\* holder.save: the entity of this id is replaced.
SaveHolder(store, holder) ==
  [store EXCEPT !.holder = {h \in @ : h.id # holder.id} \cup {holder}]

\* t.save: TransferSingle is @entity(immutable: true).
SaveTransfer(store, t) == [store EXCEPT !.transfer = @ \cup {t}]

Saves(store, holder, t) ==
  /\ Complete(holder) /\ Complete(t)
  /\ \A u \in store.transfer : u.id # t.id

-----------------------------------------------------------------------------
(* mapping.ts.  event has the block, log index, transaction hash and the    *)
(* parameters of TransferSingle.                                            *)

\* Mutant: the id has no log index.
EntityIdOfTx(event) == <<event.txHash, 0>>

EntityId(event) == <<event.txHash, event.index>>

FindHolder(store, event) ==
  IF LoadHolder(store, event.to) # Unset THEN LoadHolder(store, event.to)
  ELSE [NewHolder(event.to) EXCEPT !.address = event.to, !.balance = 0, !.transferCount = 0]

TransferOf(event) ==
  [NewTransferSingle(EntityId(event)) EXCEPT
     !.operator = event.operator, !.from = event.from, !.to = event.to, !.tokenId = event.tokenId,
     !.value = event.value, !.blockNumber = event.block, !.txHash = event.txHash]

\* handleTransferSingle credits the receiver, debits nobody, saves the event.
HandleTransfer(store, event) ==
  LET holder == FindHolder(store, event)
      credited == [holder EXCEPT !.balance = @ + event.value,
                                 !.transferCount = TransferCount(holder) + 1]
  IN  IF holder.balance # Unset /\ Saves(store, credited, TransferOf(event))
        THEN SaveTransfer(SaveHolder(store, credited), TransferOf(event))
        ELSE Failed(store)
=============================================================================
