------------------------------ MODULE MCIndexer ------------------------------
(***************************************************************************)
(* Small instances of Indexer for TLC.                                     *)
(***************************************************************************)
EXTENDS Indexer, TLC

MCBoth == <<"merkle", "signed">>

\* Bound: /stats is asked for while at most two events have been mined.
StatsBound == stats.pc = "idle" \/ Len(log) <= 2

\* Bound: the subgraph handles events in the behaviours in which the indexer
\* has not been started.  The two share only the chain, and the properties of
\* the run that has this bound are about one of them each.
GraphBound == graph.seen = 0 \/ starts = 0

HolderSymmetry == Permutations(Holders)
=============================================================================
