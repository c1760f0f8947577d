------------------------------ MODULE MCRestarts ------------------------------
(***************************************************************************)
(* Small instances, for TLC, of the two parts that crash and start again   *)
(* on what Redis and Postgres have kept: the claim queue and the indexer.  *)
(* They share no state, and a behaviour runs one of them while the other   *)
(* stays as it began, so that their state spaces add up.                   *)
(***************************************************************************)
EXTENDS MCClaimQueue, MCIndexer

VARIABLE part

RestartsInit == part \in {"queue", "books"} /\ Init /\ IndexerInit

RestartsNext ==
  /\ UNCHANGED part
  /\ \/ part = "queue" /\ Next /\ UNCHANGED indexerVars
     \/ part = "books" /\ IndexerNext /\ UNCHANGED vars

RestartsSpec == RestartsInit /\ [][RestartsNext]_<<part, vars, indexerVars>>

Symmetry == RequestSymmetry \cup HolderSymmetry
=============================================================================
