----------------------------- MODULE Eligibility ------------------------------
(***************************************************************************)
(* Who may claim: the Merkle tree that setupBackend.js builds over the     *)
(* allowlist (merkletreejs, sortPairs), the proofs it writes to            *)
(* config.json for GET /proof/:address, and verifyProof of server.js.      *)
(*                                                                         *)
(* keccak256 is taken to be free of collisions: a hash holds the bytes it  *)
(* was made from.  Leaves and inner nodes are hashes of one kind, and what *)
(* a client posts as its address is hashed whatever its length: bytes are  *)
(* the twenty of a wallet or two hashes in sorted order, of which only the *)
(* set matters.                                                            *)
(***************************************************************************)
EXTENDS Naturals, Sequences

WalletBytes(wallet) == [wallet |-> wallet, of |-> {}]

\* ethers.concat of two hashes, the smaller one first
PairBytes(a, b) == [wallet |-> "none", of |-> {a, b}]

IsWallet(bytes) == bytes.of = {}

Keccak256(bytes) == [hash |-> bytes]

LeafOf(bytes) == Keccak256(bytes)

NodeOf(a, b) == Keccak256(PairBytes(a, b))

\* Mutant: the last of an odd number of nodes is hashed with itself.
LayerAboveDoubled(layer) ==
  [i \in 1..((Len(layer) + 1) \div 2) |->
     IF 2 * i <= Len(layer) THEN NodeOf(layer[2 * i - 1], layer[2 * i])
                            ELSE NodeOf(layer[2 * i - 1], layer[2 * i - 1])]

\* Nodes are hashed in pairs; the last of an odd number goes up as it is.
LayerAbove(layer) ==
  [i \in 1..((Len(layer) + 1) \div 2) |->
     IF 2 * i <= Len(layer) THEN NodeOf(layer[2 * i - 1], layer[2 * i])
                            ELSE layer[2 * i - 1]]

\* Layer k of the tree over the wallets' bytes; from the root's layer on they
\* are all the root.
Layers(wallets) ==
  LET layer[k \in Nat] ==
        IF k = 0 THEN [i \in DOMAIN wallets |-> LeafOf(wallets[i])]
                 ELSE LayerAbove(layer[k - 1])
  IN  layer

\* getHexRoot
RootOf(wallets) == Layers(wallets)[Len(wallets)][1]

Sibling(at) == IF at % 2 = 1 THEN at + 1 ELSE at - 1

\* Where wallet n's way to the root is in layer k, and the siblings below.
Climb(wallets, n) ==
  LET layer == Layers(wallets)
      climb[k \in Nat] ==
        IF k = 0 THEN [at |-> n, proof |-> <<>>]
        ELSE LET below == climb[k - 1] IN
             [at |-> (below.at + 1) \div 2,
              proof |-> IF Sibling(below.at) \in DOMAIN layer[k - 1]
                          THEN Append(below.proof, layer[k - 1][Sibling(below.at)])
                          ELSE below.proof]
  IN  climb

\* getHexProof
ProofOf(wallets, n) == Climb(wallets, n)[Len(wallets)].proof

\* The hash after each node of the proof.
Computed(proof, leaf) ==
  LET computed[i \in 0..Len(proof)] ==
        IF i = 0 THEN leaf ELSE NodeOf(computed[i - 1], proof[i])
  IN  computed

VerifyProof(proof, leaf, root) == Computed(proof, leaf)[Len(proof)] = root

\* The nodes of the tree, the leaves among them.
TreeNodes(wallets) ==
  UNION {{Layers(wallets)[k][i] : i \in DOMAIN Layers(wallets)[k]} : k \in 0..Len(wallets)}

Listed(wallets, wallet) == \E n \in DOMAIN wallets : wallets[n] = wallet

\* GET /proof/:address; an address that is not listed is answered 404.
ServedProof(wallets, wallet) ==
  ProofOf(wallets, CHOOSE n \in DOMAIN wallets :
    wallets[n] = wallet /\ \A k \in 1..(n - 1) : wallets[k] # wallet)
=============================================================================
