------------------------- MODULE VoucherLedgerProofs -------------------------
(***************************************************************************)
(* The promise of the ledger, for every set of vouchers and keys.          *)
(***************************************************************************)
EXTENDS VoucherLedger, TLAPS

LEMMA LedgerType == Spec => []LedgerTypeOK
<1>1. LedgerInit => LedgerTypeOK
  BY DEF LedgerInit, LedgerTypeOK
<1>2. LedgerTypeOK /\ [LedgerNext]_ledgerVars => LedgerTypeOK'
  BY DEF LedgerTypeOK, LedgerNext, Redeem, ChangeAuthority, ledgerVars
<1>3. QED
  BY <1>1, <1>2, PTL DEF Spec

(***************************************************************************)
(* No nonce pays twice (SignedAirdrop.claim, batchClaim), also when the    *)
(* authority changes between two payments.                                 *)
(***************************************************************************)
THEOREM PaidOnceHolds == Spec => []PaidOnce
<1>1. LedgerInit => PaidOnce
  BY DEF LedgerInit, PaidOnce, Spent
<1>2. LedgerTypeOK /\ PaidOnce /\ [LedgerNext]_ledgerVars => PaidOnce'
  <2> SUFFICES ASSUME LedgerTypeOK, PaidOnce, [LedgerNext]_ledgerVars PROVE PaidOnce'
    OBVIOUS
  <2>1. CASE \E S \in SUBSET Voucher : Redeem(S)
    <3>1. PICK S \in SUBSET Voucher : Redeem(S)
      BY <2>1
    <3>2. \A v \in S : mints[v] = 0
      BY <3>1 DEF Redeem, NoncesDisjoint, Spent, LedgerTypeOK
    <3>3. \A v \in Voucher : v \in Spent' <=> v \in Spent \/ v \in S
      BY <3>1 DEF Redeem, Spent, LedgerTypeOK
    <3>4. \A v \in Voucher : mints'[v] <= 1
      BY <3>1, <3>2 DEF Redeem, PaidOnce, LedgerTypeOK
    <3>5. \A v, w \in Spent' : v.nonce = w.nonce => v = w
      <4>1. Spent' \subseteq Voucher
        BY DEF Spent
      <4>2. QED
        BY <3>1, <3>3, <4>1 DEF Redeem, PaidOnce, NoncesDisjoint, NoncesDistinct
    <3>6. QED
      BY <3>4, <3>5 DEF PaidOnce
  <2>2. CASE UNCHANGED mints
    BY <2>2 DEF PaidOnce, Spent
  <2>3. QED
    BY <2>1, <2>2 DEF LedgerNext, ChangeAuthority, ledgerVars
<1>3. QED
  BY <1>1, <1>2, LedgerType, PTL DEF Spec
=============================================================================
