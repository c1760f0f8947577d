---------------------------- MODULE MCClaimQueue -----------------------------
(***************************************************************************)
(* Small instances of ClaimQueue for TLC.  Two spellings of one wallet, a  *)
(* third whose checksum is wrong, a second wallet that is a contract       *)
(* without an ERC-1155 receiver, one that is not on the allowlist, and the *)
(* concatenation of two leaves.                                            *)
(***************************************************************************)
EXTENDS ClaimQueue, TLC

CONSTANTS lower, mixed, garbled, vault, stranger, pair

\* Three wallets: the last one's leaf is a node of two layers.
MCAllowlist == <<WalletBytes("alice"), WalletBytes("bob"), WalletBytes("vault")>>

MCBytesOf == [a \in Address |->
  CASE a = vault -> MCAllowlist[3]
    [] a = stranger -> WalletBytes("stranger")
    [] a = pair -> PairBytes(LeafOf(MCAllowlist[1]), LeafOf(MCAllowlist[2]))
    [] OTHER -> MCAllowlist[1]]

MCValid == Address \ {garbled, pair}

\* Every proof of up to two nodes that can be put together from the tree.
MCProofs ==
  LET Nodes == {LeafOf(WalletBytes("stranger"))} \cup TreeNodes(MCAllowlist)
  IN  UNION {[1..n -> Nodes] : n \in 0..2}

\* A request without a proof.
MCNoProof == {<<>>}

RequestSymmetry == Permutations(Requests)
=============================================================================
