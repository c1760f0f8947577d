--------------------------- MODULE MCGaslessClaim ----------------------------
(***************************************************************************)
(* Small instances of GaslessClaim for TLC.                                *)
(***************************************************************************)
EXTENDS GaslessClaim, TLC

CONSTANTS alice, vault, ownerKey, otherKey

\* Bodies the signer serves whole.
MCSignInputs == {<<alice>>, <<alice, vault>>}
\* With the bodies it refuses in part, or that end its process.
MCMixedInputs == MCSignInputs \cup {<<BadAddress, alice>>, <<alice, BadAmount>>}
MCKey == {ownerKey, otherKey}
\* A voucher signed by a key that is not the authority's.
MCForged == {[claim |-> alice, nonce |-> 1, by |-> otherKey]}

Symmetry == Permutations(Relays) \cup Permutations(Signs)
=============================================================================
