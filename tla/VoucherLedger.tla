---------------------------- MODULE VoucherLedger ----------------------------
(***************************************************************************)
(* What SignedAirdrop.sol promises, with no relayer, transaction pool or   *)
(* mapping of used nonces: a ledger of how many times each signed voucher  *)
(* has been paid.  A voucher is paid only while its signer is the          *)
(* contract's authority, and two payments never carry the same nonce.      *)
(* GaslessClaim is shown to implement it.                                  *)
(***************************************************************************)
EXTENDS Naturals

CONSTANTS
  Voucher,   \* records with at least the fields nonce and by (the signer)
  Key,       \* the addresses that may become authority
  Authority  \* the authority passed to the constructor

VARIABLES
  mints,     \* mints[v]: how many times voucher v has been paid
  authority  \* the key whose signatures the contract accepts

ledgerVars == <<mints, authority>>

LedgerTypeOK == mints \in [Voucher -> Nat]

Spent == {v \in Voucher : mints[v] > 0}

NoncesDisjoint(S, T) == \A v \in S, w \in T : v.nonce # w.nonce

NoncesDistinct(S) == \A v, w \in S : v.nonce = w.nonce => v = w

LedgerInit ==
  /\ mints = [v \in Voucher |-> 0]
  /\ authority = Authority

\* One transaction pays a set of vouchers, all of them or none.
Redeem(S) ==
  /\ S # {}
  /\ \A v \in S : v.by = authority
  /\ NoncesDisjoint(S, Spent)
  /\ NoncesDistinct(S)
  /\ mints' = [v \in Voucher |-> mints[v] + (IF v \in S THEN 1 ELSE 0)]
  /\ UNCHANGED authority

ChangeAuthority(k) ==
  /\ authority' = k
  /\ UNCHANGED mints

LedgerNext ==
  \/ \E S \in SUBSET Voucher : Redeem(S)
  \/ \E k \in Key : ChangeAuthority(k)

Spec == LedgerInit /\ [][LedgerNext]_ledgerVars

(***************************************************************************)
(* Safety: no nonce pays twice, neither the same voucher again nor another *)
(* voucher of the same nonce (SignedAirdrop.claim, batchClaim).            *)
(***************************************************************************)
PaidOnce ==
  /\ \A v \in Voucher : mints[v] <= 1
  /\ \A v, w \in Spent : v.nonce = w.nonce => v = w
=============================================================================
