----------------------------- MODULE MCBadgeFlow -----------------------------
(***************************************************************************)
(* Small instances of BadgeFlow for TLC.  The milestones 7, 14 and 21 are  *)
(* scaled down so that a student passes one within a few approvals.        *)
(***************************************************************************)
EXTENDS BadgeFlow, TLC

\* Bound: with two wallets about, two approvals; with one, all of them.
WalletBound ==
  \/ Cardinality(UNION {linked[s] : s \in Students}) <= 1
  \/ \E a \in Approvals : approval[a] = Idle

Symmetry == Permutations(Students) \cup Permutations(Approvals) \cup Permutations(Wallets)
=============================================================================
