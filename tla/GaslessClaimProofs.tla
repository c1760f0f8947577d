-------------------------- MODULE GaslessClaimProofs -------------------------
(***************************************************************************)
(* Theorems about GaslessClaim, for every value of its constants.          *)
(***************************************************************************)
EXTENDS GaslessClaim, FiniteSetTheorems, TLAPS

-----------------------------------------------------------------------------
(* Lemmas about the transaction execution. *)

\* A transaction that executes pays each of its vouchers exactly once.
LEMMA PaymentCount ==
  ASSUME NEW vs \in Seq(Voucher), Executes(vs), NEW v \in Voucher
  PROVE  Cardinality({i \in DOMAIN vs : vs[i] = v})
           = IF \E i \in DOMAIN vs : vs[i] = v THEN 1 ELSE 0
<1>1. CASE \E i \in DOMAIN vs : vs[i] = v
  <2>1. PICK i \in DOMAIN vs : vs[i] = v
    BY <1>1
  <2>2. {j \in DOMAIN vs : vs[j] = v} = {i}
    BY <2>1 DEF Executes
  <2>3. QED
    BY <2>1, <2>2, FS_Singleton
<1>2. CASE ~ \E i \in DOMAIN vs : vs[i] = v
  <2>1. {j \in DOMAIN vs : vs[j] = v} = {}
    BY <1>2
  <2>2. QED
    BY <1>2, <2>1, FS_EmptySet
<1>3. QED
  BY <1>1, <1>2

\* What Effects does to the ledger: the vouchers of the transaction, none of
\* which was paid before, are paid once, and the others are left alone.
LEMMA PaymentEffect ==
  ASSUME NEW vs \in Seq(Voucher), Executes(vs), Effects(vs),
         mints \in [Voucher -> Nat], used \subseteq 1..MaxNonce
  PROVE  /\ mints' = [v \in Voucher |->
               mints[v] + (IF \E i \in DOMAIN vs : vs[i] = v THEN 1 ELSE 0)]
         /\ mints' \in [Voucher -> Nat]
         /\ used' \subseteq 1..MaxNonce
<1>1. mints' = [v \in Voucher |->
               mints[v] + (IF \E i \in DOMAIN vs : vs[i] = v THEN 1 ELSE 0)]
  BY PaymentCount DEF Effects
<1>2. NoncesOf(vs) \subseteq 1..MaxNonce
  <2>1. \A i \in DOMAIN vs : vs[i] \in Voucher
    OBVIOUS
  <2>2. QED
    BY <2>1 DEF NoncesOf, Voucher
<1>3. mints' \in [Voucher -> Nat]
  BY <1>1
<1>4. QED
  BY <1>1, <1>2, <1>3 DEF Effects

-----------------------------------------------------------------------------
(* Type correctness *)

LEMMA InitType == Init => TypeOK
BY ClaimAssumption DEF Init, TypeOK, SignState, RelayState, RelayPC, Outcome

\* The steps of signer.js and of Redis keep the types.
LEMMA SignerType ==
  ASSUME TypeOK, \/ \E s \in Signs : SignRequest(s) \/ SignStep(s)
                 \/ SignerCrash \/ RedisRestart
  PROVE  TypeOK'
<1> USE ClaimAssumption DEF SignState
<1>1. ASSUME NEW s \in Signs, SignRequest(s) PROVE TypeOK'
  BY <1>1 DEF SignRequest, TypeOK, chainVars, accountVars
<1>2. ASSUME NEW s \in Signs, SkipItem(s) PROVE TypeOK'
  <2>1. Tail(sign[s].todo) \in Seq(Claims \cup {BadAddress, BadAmount})
    BY <1>2 DEF SkipItem, TypeOK
  <2>2. sign' = [sign EXCEPT ![s] = [sign[s] EXCEPT !.todo = Tail(sign[s].todo)]]
    BY <1>2 DEF SkipItem, TypeOK
  <2>3. UNCHANGED <<signedNonce, issued, relay, chainVars, accountVars>>
    BY <1>2 DEF SkipItem
  <2>4. QED
    BY <2>1, <2>2, <2>3 DEF TypeOK, chainVars, accountVars
<1>3. ASSUME NEW s \in Signs, SignItem(s) PROVE TypeOK'
  <2>1. signedNonce' \in 0..MaxNonce /\ signedNonce + 1 \in 1..MaxNonce
    BY <1>3 DEF SignItem, TypeOK
  <2>2. CASE Head(sign[s].todo) = BadAmount
    <3>1. sign' = [q \in Signs |->
            IF sign[q].pc = "signing" THEN [sign[q] EXCEPT !.pc = "dead"] ELSE sign[q]]
      BY <1>3, <2>2 DEF SignItem
    <3>2. UNCHANGED <<issued, relay, chainVars, accountVars>>
      BY <1>3 DEF SignItem
    <3>3. QED
      BY <2>1, <3>1, <3>2 DEF TypeOK, chainVars, accountVars
  <2>3. CASE Head(sign[s].todo) # BadAmount
    <3>1. Head(sign[s].todo) \in Claims
      BY <1>3, <2>3 DEF SignItem, TypeOK
    <3>2. [claim |-> Head(sign[s].todo), nonce |-> signedNonce + 1, by |-> Authority]
            \in Voucher
      BY <2>1, <3>1 DEF Voucher
    <3>3. Tail(sign[s].todo) \in Seq(Claims \cup {BadAddress, BadAmount})
      BY <1>3 DEF SignItem, TypeOK
    <3> DEFINE v == [claim |-> Head(sign[s].todo), nonce |-> signedNonce + 1,
                     by |-> Authority]
    <3>4. sign' = [sign EXCEPT ![s] =
                     [sign[s] EXCEPT !.done = sign[s].done \cup {v},
                                     !.todo = Tail(sign[s].todo)]]
      BY <1>3, <2>3 DEF SignItem, TypeOK
    <3>5. v \in Voucher
      BY <3>2
    <3>6. UNCHANGED <<issued, relay, chainVars, accountVars>>
      BY <1>3 DEF SignItem
    <3> HIDE DEF v
    <3>7. QED
      BY <2>1, <3>3, <3>4, <3>5, <3>6 DEF TypeOK, chainVars, accountVars
  <2>4. QED
    BY <2>2, <2>3
<1>4. ASSUME NEW s \in Signs, SignReply(s) PROVE TypeOK'
  BY <1>4 DEF SignReply, TypeOK, chainVars, accountVars
<1>5. CASE SignerCrash
  BY <1>5 DEF SignerCrash, TypeOK, chainVars, accountVars
<1>6. CASE RedisRestart
  BY <1>6 DEF RedisRestart, TypeOK, chainVars, accountVars
<1>7. QED
  BY <1>1, <1>2, <1>3, <1>4, <1>5, <1>6 DEF SignStep
\* The steps of relayer.js keep the types.
LEMMA RelayerType ==
  ASSUME TypeOK, \/ \E r \in Relays : RelayRequest(r) \/ RelayStep(r) \/ RelayRpcError(r)
                 \/ RelayerCrash
  PROVE  TypeOK'
<1> USE DEF RelayState, RelayPC, Outcome, chainVars, accountVars, signerVars
<1>1. ASSUME NEW r \in Relays, RelayRequest(r) PROVE TypeOK'
  <2>1. PICK n \in 1..MaxBatch, route \in {"relay", "relay-batch"} :
          \E vs \in [1..n -> issued \cup Forged] :
            relay' = [relay EXCEPT ![r] =
                        [@ EXCEPT !.pc = "check", !.route = route, !.vs = vs]]
    BY <1>1 DEF RelayRequest
  <2>2. PICK vs \in [1..n -> issued \cup Forged] :
          relay' = [relay EXCEPT ![r] =
                        [@ EXCEPT !.pc = "check", !.route = route, !.vs = vs]]
    BY <2>1
  <2>3. vs \in Seq(Voucher)
    BY ClaimAssumption DEF TypeOK
  <2>4. QED
    <3>1. [relay[r] EXCEPT !.pc = "check", !.route = route, !.vs = vs] \in RelayState
      BY <2>3 DEF TypeOK
    <3>2. UNCHANGED <<signerVars, chainVars, accountVars>>
      BY <1>1 DEF RelayRequest
    <3> HIDE DEF RelayState
    <3>3. QED
      BY <2>2, <3>1, <3>2 DEF TypeOK
<1>2. ASSUME NEW r \in Relays, NEW outcome \in Outcome, Finish(r, outcome)
      PROVE  relay' \in [Relays -> RelayState]
  BY <1>2 DEF Finish, TypeOK
<1>3. ASSUME NEW r \in Relays, RelayCheck(r) PROVE TypeOK'
  <2>1. relay' \in [Relays -> RelayState]
    <3>1. CASE Finish(r, "forged") \/ Finish(r, "used")
      BY <1>2, <3>1
    <3>2. CASE \E pc \in {"nonce", "check"}, i \in {relay[r].i, relay[r].i + 1} :
                 relay' = [relay EXCEPT ![r] = [@ EXCEPT !.pc = pc, !.i = i]]
      <4>1. PICK pc \in {"nonce", "check"}, i \in {relay[r].i, relay[r].i + 1} :
               relay' = [relay EXCEPT ![r] = [@ EXCEPT !.pc = pc, !.i = i]]
        BY <3>2
      <4>2. i \in Nat /\ pc \in RelayPC
        BY DEF TypeOK
      <4>3. [relay[r] EXCEPT !.pc = pc, !.i = i] \in RelayState
        BY <4>2 DEF TypeOK
      <4> HIDE DEF RelayState
      <4>4. QED
        BY <4>1, <4>3 DEF TypeOK
    <3>3. QED
      BY <1>3, <3>1, <3>2 DEF RelayCheck
  <2>2. QED
    BY <1>3, <2>1 DEF RelayCheck, TypeOK
<1>4. ASSUME NEW r \in Relays, RelayReadNonce(r) PROVE TypeOK'
  BY <1>4 DEF RelayReadNonce, TypeOK
<1>5. ASSUME NEW r \in Relays, RelayEstimate(r) PROVE TypeOK'
  BY <1>2, <1>5 DEF RelayEstimate, TypeOK
<1>6. ASSUME NEW r \in Relays, RelaySend(r) PROVE TypeOK'
  <2>1. CASE relay[r].nonce = pending
    <3>1. pool' \in Seq(Txs) /\ pending' \in Nat
      <4>1. pool' = Append(pool, r) /\ pending' = pending + 1
        BY <1>6, <2>1 DEF RelaySend
      <4>2. QED
        BY <4>1 DEF TypeOK, Txs
    <3>2. relay' \in [Relays -> RelayState]
      <4>1. CASE relay' = [relay EXCEPT ![r] = [@ EXCEPT !.pc = "wait"]]
        BY <4>1 DEF TypeOK
      <4>2. CASE Finish(r, "rpc")
        BY <1>2, <4>2
      <4>3. QED
        BY <1>6, <2>1, <4>1, <4>2 DEF RelaySend
    <3>3. QED
      BY <1>6, <3>1, <3>2 DEF RelaySend, TypeOK
  <2>2. CASE relay[r].nonce # pending
    BY <1>2, <1>6, <2>2 DEF RelaySend, TypeOK
  <2>3. QED
    BY <2>1, <2>2
<1>7. ASSUME NEW r \in Relays, RelayWait(r) PROVE TypeOK'
  BY <1>2, <1>7 DEF RelayWait, TypeOK
<1>8. ASSUME NEW r \in Relays, RelayBalance(r) PROVE TypeOK'
  BY <1>2, <1>8 DEF RelayBalance, TypeOK
<1>9. ASSUME NEW r \in Relays, RelayRpcError(r) PROVE TypeOK'
  BY <1>2, <1>9 DEF RelayRpcError, TypeOK
<1>10. CASE RelayerCrash
  BY <1>10 DEF RelayerCrash, TypeOK
<1>11. QED
  BY <1>1, <1>3, <1>4, <1>5, <1>6, <1>7, <1>8, <1>9, <1>10 DEF RelayStep

\* The steps of the account and of the contract keep the types.
LEMMA ChainType ==
  ASSUME TypeOK, \/ \E t \in ForeignTxs : ForeignSend(t)
                 \/ Mine
                 \/ \E k \in Key : SetAuthority(k)
                 \/ \E v \in Voucher : DirectClaim(v)
  PROVE  TypeOK'
<1> USE DEF signerVars
<1>1. ASSUME NEW t \in ForeignTxs, ForeignSend(t) PROVE TypeOK'
  BY <1>1 DEF ForeignSend, TypeOK, Txs, chainVars
<1>2. CASE Mine
  <2> DEFINE t == Head(pool)
  <2>1. t \in Txs /\ Tail(pool) \in Seq(Txs)
    BY <1>2 DEF Mine, TypeOK
  <2>2. /\ pool' = Tail(pool)
        /\ receipt' \in [Txs -> {"none", "ok", "reverted"}]
    BY <1>2, <2>1 DEF Mine, TypeOK
  <2>3. mints' \in [Voucher -> Nat] /\ used' \subseteq 1..MaxNonce
    <3>1. CASE UNCHANGED <<used, mints>>
      BY <3>1 DEF TypeOK
    <3>2. CASE t \in Relays /\ Executes(relay[t].vs) /\ Effects(relay[t].vs)
      <4>1. relay[t].vs \in Seq(Voucher)
        BY <3>2 DEF TypeOK, RelayState
      <4>2. QED
        BY <3>2, <4>1, PaymentEffect DEF TypeOK
    <3>3. QED
      BY <1>2, <3>1, <3>2 DEF Mine
  <2>4. UNCHANGED <<signerVars, relay, authority, pending>>
    BY <1>2 DEF Mine
  <2>5. QED
    BY <2>1, <2>2, <2>3, <2>4 DEF TypeOK
<1>3. ASSUME NEW k \in Key, SetAuthority(k) PROVE TypeOK'
  BY <1>3 DEF SetAuthority, TypeOK, accountVars
<1>4. ASSUME NEW v \in Voucher, DirectClaim(v) PROVE TypeOK'
  <2>1. <<v>> \in Seq(Voucher)
    OBVIOUS
  <2>2. mints' \in [Voucher -> Nat] /\ used' \subseteq 1..MaxNonce
    BY <1>4, <2>1, PaymentEffect DEF DirectClaim, TypeOK
  <2>3. QED
    BY <1>4, <2>2 DEF DirectClaim, TypeOK, accountVars
<1>5. QED
  BY <1>1, <1>2, <1>3, <1>4

LEMMA StepType == TypeOK /\ [Next]_vars => TypeOK'
<1>1. TypeOK /\ Next => TypeOK'
  BY SignerType, RelayerType, ChainType DEF Next
<1>2. TypeOK /\ UNCHANGED vars => TypeOK'
  BY DEF TypeOK, vars, signerVars, chainVars, accountVars
<1>3. QED
  BY <1>1, <1>2

(***************************************************************************)
(* Every state of the claim path is well typed: in particular a nonce is   *)
(* never 0, because signer.js answers with the incremented counter.        *)
(***************************************************************************)
THEOREM TypeCorrect == Spec => []TypeOK
BY InitType, StepType, PTL DEF Spec

-----------------------------------------------------------------------------
(***************************************************************************)
(* The inductive invariant.  SpentOnce alone is not inductive: a voucher   *)
(* paid while its nonce is not in used could be paid again (Paid).  What   *)
(* an answer says is tied to the transaction through its receipt: a        *)
(* handler that has not sent has no transaction (Unsent), a transaction is *)
(* in the pool once and has no receipt there (InPool), an answer agrees    *)
(* with the receipt (Answers), and a receipt "ok" with the ledger (Mined). *)
(***************************************************************************)
Early == {"idle", "check", "nonce", "estimate", "send"}
Final == {"forged", "used", "revert", "collision"}

Paid == SpentOnce /\ \A v \in Spent : v.nonce \in used

InPool ==
  /\ \A i, j \in DOMAIN pool : pool[i] = pool[j] => i = j
  /\ \A t \in Txs : Pooled(t) => receipt[t] = "none"

Unsent ==
  \A r \in Relays :
    /\ relay[r].pc \in Early => receipt[r] = "none" /\ ~Pooled(r)
    /\ relay[r].pc # "idle" => relay[r].vs # <<>>

Answers ==
  \A r \in Relays :
    /\ relay[r].pc # "done" => relay[r].out = "none"
    /\ relay[r].out \in Final => receipt[r] # "ok" /\ ~Pooled(r)
    /\ relay[r].pc = "balance" \/ relay[r].out = "ok" => receipt[r] = "ok"

Mined ==
  /\ \A r \in Relays : receipt[r] = "ok" =>
       \A i \in DOMAIN relay[r].vs : relay[r].vs[i] \in Spent
  /\ \A r, q \in Relays : receipt[r] = "ok" /\ receipt[q] = "ok" /\ r # q =>
       NoncesOf(relay[r].vs) \cap NoncesOf(relay[q].vs) = {}

IInv == Paid /\ InPool /\ Unsent /\ Answers /\ Mined

LEMMA InitInv == Init => IInv
BY DEF Init, IInv, Paid, SpentOnce, Spent, InPool, Pooled, Unsent, Answers,
       Mined, Early, Final, Txs

\* Paying the vouchers of one transaction keeps Paid.
LEMMA PaymentPaid ==
  ASSUME TypeOK, Paid, NEW vs \in Seq(Voucher), Executes(vs), Effects(vs)
  PROVE  /\ Paid'
         /\ Spent \subseteq Spent'
         /\ \A i \in DOMAIN vs : vs[i] \in Spent'
<1> DEFINE In(v) == \E i \in DOMAIN vs : vs[i] = v
<1>1. mints' = [v \in Voucher |-> mints[v] + (IF In(v) THEN 1 ELSE 0)]
  BY PaymentEffect DEF TypeOK
<1>2. mints \in [Voucher -> Nat]
  BY DEF TypeOK
<1>3. \A v \in Voucher : In(v) => v.nonce \notin used /\ v.nonce \in NoncesOf(vs)
  BY DEF Executes, NoncesOf
<1>4. \A v \in Voucher : In(v) => mints[v] = 0
  BY <1>2, <1>3 DEF Paid, Spent
<1>5. \A v, w \in Voucher : In(v) /\ In(w) /\ v.nonce = w.nonce => v = w
  BY DEF Executes
<1>6. \A v \in Voucher : v \in Spent' <=> v \in Spent \/ In(v)
  BY <1>1, <1>2 DEF Spent
<1>7. \A v \in Voucher : mints'[v] <= 1
  BY <1>1, <1>2, <1>4 DEF Paid, SpentOnce
<1>8. used' = used \cup NoncesOf(vs)
  BY DEF Effects
<1>9. \A i \in DOMAIN vs : vs[i] \in Voucher
  OBVIOUS
<1>10. Spent \subseteq Voucher /\ Spent' \subseteq Voucher
  BY DEF Spent
<1> HIDE DEF In
<1>11. \A v, w \in Spent' : v.nonce = w.nonce => v = w
  BY <1>3, <1>5, <1>6, <1>10 DEF Paid, SpentOnce
<1>12. \A v \in Spent' : v.nonce \in used'
  BY <1>3, <1>6, <1>8, <1>10 DEF Paid
<1>13. \A i \in DOMAIN vs : vs[i] \in Spent'
  BY <1>6, <1>9 DEF In
<1>14. QED
  BY <1>6, <1>7, <1>10, <1>11, <1>12, <1>13 DEF Paid, SpentOnce

\* Steps that leave relayer, contract and account alone, and setAuthority.
LEMMA ElsewhereInv ==
  ASSUME IInv, UNCHANGED <<relay, used, mints, accountVars>>
  PROVE  IInv'
<1> USE DEF accountVars
<1>1. Paid' /\ InPool'
  BY DEF IInv, Paid, SpentOnce, Spent, InPool, Pooled
<1>2. Unsent' /\ Answers'
  BY DEF IInv, Unsent, Answers, Pooled
<1>3. Mined'
  BY DEF IInv, Mined, Spent
<1>4. QED
  BY <1>1, <1>2, <1>3 DEF IInv

\* Finish sets the program counter and the answer of one handler.
LEMMA FinishFields ==
  ASSUME TypeOK
  PROVE  \A r \in Relays : \A outcome : Finish(r, outcome) =>
           /\ relay'[r].pc = "done" /\ relay'[r].out = outcome
           /\ relay'[r].vs = relay[r].vs
           /\ \A q \in Relays \ {r} : relay'[q] = relay[q]
BY DEF Finish, TypeOK, RelayState

\* Steps of a handler that do not touch the account.
LEMMA HandlerInv ==
  ASSUME TypeOK, IInv, NEW r \in Relays, UNCHANGED <<chainVars, accountVars>>,
         \/ RelayRequest(r) \/ RelayCheck(r) \/ RelayReadNonce(r)
         \/ RelayEstimate(r) \/ RelayWait(r) \/ RelayBalance(r) \/ RelayRpcError(r)
  PROVE  IInv'
<1> USE DEF chainVars, accountVars, Early, Final
<1>1. Paid' /\ InPool'
  BY DEF IInv, Paid, SpentOnce, Spent, InPool, Pooled
<1>2. \A q \in Relays \ {r} : relay'[q] = relay[q]
  BY DEF RelayRequest, RelayCheck, RelayReadNonce, RelayEstimate, RelayWait,
         RelayBalance, RelayRpcError, Finish, TypeOK
<1>3. CASE RelayRequest(r)
  <2> PICK n \in 1..MaxBatch, route \in {"relay", "relay-batch"} :
        \E vs \in [1..n -> issued \cup Forged] :
          relay' = [relay EXCEPT ![r] =
                      [@ EXCEPT !.pc = "check", !.route = route, !.vs = vs]]
    BY <1>3 DEF RelayRequest
  <2>1. PICK vs \in [1..n -> issued \cup Forged] :
          relay' = [relay EXCEPT ![r] =
                      [@ EXCEPT !.pc = "check", !.route = route, !.vs = vs]]
    OBVIOUS
  <2>2. /\ relay[r].pc = "idle"
        /\ relay'[r].pc = "check" /\ relay'[r].vs = vs /\ vs # <<>>
        /\ relay'[r].out = relay[r].out
    <3>1. relay[r].pc = "idle"
      BY <1>3 DEF RelayRequest
    <3>2. vs # <<>>
      BY ClaimAssumption
    <3>3. relay'[r] = [relay[r] EXCEPT !.pc = "check", !.route = route, !.vs = vs]
      BY <2>1 DEF TypeOK
    <3>4. QED
      <4>1. relay[r] \in RelayState
        BY DEF TypeOK
      <4>2. QED
        BY <3>1, <3>2, <3>3, <4>1 DEF RelayState
  <2>3. receipt[r] = "none" /\ ~Pooled(r)
    BY <2>2 DEF IInv, Unsent
  <2>4. Unsent'
    BY <1>2, <2>2, <2>3 DEF IInv, Unsent, Pooled
  <2>5. Answers'
    BY <1>2, <2>2, <2>3 DEF IInv, Answers, Pooled
  <2>6. \A q \in Relays : receipt[q] = "ok" => relay'[q].vs = relay[q].vs
    BY <1>2, <2>3
  <2>7. Mined'
    BY <2>6 DEF IInv, Mined, Spent
  <2>8. QED
    BY <1>1, <2>4, <2>5, <2>7 DEF IInv
<1>4. CASE ~RelayRequest(r)
  <2>0. /\ relay[r].pc # "idle"
        /\ relay'[r].vs = relay[r].vs
        /\ relay'[r].pc # "idle"
        /\ relay'[r].pc \in Early => relay[r].pc \in Early
    <3>0. relay[r] \in RelayState
      BY DEF TypeOK
    <3>1. CASE RelayCheck(r)
      <4>1. relay[r].pc = "check"
        BY <3>1 DEF RelayCheck
      <4>2. CASE Finish(r, "forged") \/ Finish(r, "used")
        BY <4>1, <4>2, FinishFields
      <4>3. CASE ~(Finish(r, "forged") \/ Finish(r, "used"))
        <5>1. relay'[r].pc \in {"nonce", "check"}
          BY <3>1, <4>3 DEF RelayCheck, TypeOK, RelayState
        <5>2. relay'[r].vs = relay[r].vs
          BY <3>1, <4>3 DEF RelayCheck, TypeOK, RelayState
        <5>3. QED
          BY <4>1, <5>1, <5>2
      <4>4. QED
        BY <4>2, <4>3
    <3>2. CASE RelayReadNonce(r)
      BY <3>0, <3>2 DEF RelayReadNonce, TypeOK, RelayState
    <3>3. CASE RelayEstimate(r)
      <4>1. relay[r].pc = "estimate"
        BY <3>3 DEF RelayEstimate
      <4>2. CASE Finish(r, "revert")
        BY <4>1, <4>2, FinishFields
      <4>3. CASE relay' = [relay EXCEPT ![r] = [@ EXCEPT !.pc = "send"]]
        <5>1. relay'[r].pc = "send" /\ relay'[r].vs = relay[r].vs
          BY <3>0, <4>3 DEF TypeOK, RelayState
        <5>2. QED
          BY <4>1, <5>1
      <4>4. QED
        BY <3>3, <4>2, <4>3 DEF RelayEstimate
    <3>4. CASE RelayWait(r)
      <4>1. relay[r].pc = "wait"
        BY <3>4 DEF RelayWait
      <4>2. CASE Finish(r, "ok") \/ Finish(r, "revert")
        BY <4>1, <4>2, FinishFields
      <4>3. CASE relay' = [relay EXCEPT ![r] = [@ EXCEPT !.pc = "balance"]]
        <5>1. relay'[r].pc = "balance" /\ relay'[r].vs = relay[r].vs
          BY <3>0, <4>3 DEF TypeOK, RelayState
        <5>2. QED
          BY <4>1, <5>1
      <4>4. QED
        BY <3>4, <4>2, <4>3 DEF RelayWait
    <3>5. CASE RelayBalance(r)
      BY <3>0, <3>5 DEF RelayBalance, Finish, TypeOK, RelayState
    <3>6. CASE RelayRpcError(r)
      BY <3>0, <3>6 DEF RelayRpcError, Finish, TypeOK, RelayState
    <3>7. QED
      BY <1>4, <3>1, <3>2, <3>3, <3>4, <3>5, <3>6
  <2>1. /\ relay[r].pc # "idle"
        /\ relay'[r].vs = relay[r].vs
        /\ relay'[r].pc # "idle"
    BY <2>0
  <2>2. relay'[r].pc \in Early => relay[r].pc \in Early
    BY <2>0
  <2>3. /\ relay'[r].pc # "done" => relay'[r].out = "none"
        /\ relay'[r].out \in Final => receipt[r] # "ok" /\ ~Pooled(r)
        /\ relay'[r].pc = "balance" \/ relay'[r].out = "ok" => receipt[r] = "ok"
    <3>1. /\ relay[r].out = "none" \/ relay[r].pc = "done"
          /\ relay[r].pc \in Early => receipt[r] = "none" /\ ~Pooled(r)
          /\ receipt[r] # "none" => ~Pooled(r)
          /\ relay[r].pc = "balance" => receipt[r] = "ok"
      BY DEF IInv, Unsent, Answers, InPool, Txs
    <3>2. CASE RelayCheck(r)
      <4>1. CASE Finish(r, "forged") \/ Finish(r, "used")
        BY <3>1, <3>2, <4>1, FinishFields DEF RelayCheck
      <4>2. CASE ~(Finish(r, "forged") \/ Finish(r, "used"))
        <5>1. relay'[r].pc \in {"nonce", "check"} /\ relay'[r].out = relay[r].out
          BY <3>2, <4>2 DEF RelayCheck, TypeOK, RelayState
        <5>2. QED
          BY <3>1, <3>2, <5>1 DEF RelayCheck
      <4>3. QED
        BY <4>1, <4>2
    <3>3. CASE RelayReadNonce(r)
      BY <3>1, <3>3 DEF RelayReadNonce, TypeOK, RelayState
    <3>4. CASE RelayEstimate(r)
      <4>1. CASE Finish(r, "revert")
        BY <3>1, <3>4, <4>1, FinishFields DEF RelayEstimate
      <4>2. CASE relay' = [relay EXCEPT ![r] = [@ EXCEPT !.pc = "send"]]
        <5>1. relay'[r].pc = "send" /\ relay'[r].out = relay[r].out
          BY <4>2 DEF TypeOK, RelayState
        <5>2. QED
          BY <3>1, <3>4, <5>1 DEF RelayEstimate
      <4>3. QED
        BY <3>4, <4>1, <4>2 DEF RelayEstimate
    <3>5. CASE RelayWait(r)
      <4>1. CASE receipt[r] = "ok" /\ Finish(r, "ok")
        BY <4>1, FinishFields
      <4>2. CASE receipt[r] = "reverted" /\ Finish(r, "revert")
        BY <3>1, <4>2, FinishFields
      <4>3. CASE receipt[r] = "ok" /\ relay' = [relay EXCEPT ![r] = [@ EXCEPT !.pc = "balance"]]
        <5>1. relay'[r].pc = "balance" /\ relay'[r].out = relay[r].out
          BY <4>3 DEF TypeOK, RelayState
        <5>2. QED
          BY <3>1, <3>5, <4>3, <5>1 DEF RelayWait
      <4>4. QED
        BY <3>5, <4>1, <4>2, <4>3 DEF RelayWait
    <3>6. CASE RelayBalance(r)
      BY <3>1, <3>6 DEF RelayBalance, Finish, TypeOK, RelayState
    <3>7. CASE RelayRpcError(r)
      BY <3>1, <3>7 DEF RelayRpcError, Finish, TypeOK, RelayState
    <3>8. QED
      BY <1>4, <3>2, <3>3, <3>4, <3>5, <3>6, <3>7
  <2>4. Unsent'
    BY <1>2, <2>1, <2>2 DEF IInv, Unsent, Pooled
  <2>5. Answers'
    BY <1>2, <2>3 DEF IInv, Answers, Pooled
  <2>6. \A q \in Relays : relay'[q].vs = relay[q].vs
    BY <1>2, <2>1
  <2>7. Mined'
    BY <2>6 DEF IInv, Mined, Spent
  <2>8. QED
    BY <1>1, <2>4, <2>5, <2>7 DEF IInv
<1>5. QED
  BY <1>3, <1>4

\* The relayer's process ends: nothing it had not finished answers any more.
LEMMA CrashInv ==
  ASSUME TypeOK, IInv, RelayerCrash
  PROVE  IInv'
<1> USE DEF chainVars, accountVars, RelayerCrash
<1>1. Paid' /\ InPool'
  BY DEF IInv, Paid, SpentOnce, Spent, InPool, Pooled
<1>2. \A r \in Relays :
        \/ relay'[r] = relay[r]
        \/ /\ relay[r].pc # "idle" /\ relay'[r].pc = "done"
           /\ relay'[r].out = "dead" /\ relay'[r].vs = relay[r].vs
  BY DEF TypeOK, RelayState
<1>3. Unsent'
  <2> HIDE DEF RelayerCrash
  <2>1. UNCHANGED <<pool, receipt>>
    BY DEF RelayerCrash
  <2>2. QED
    BY <1>2, <2>1 DEF IInv, Unsent, Pooled, Early
<1>4. Answers'
  <2> HIDE DEF RelayerCrash
  <2>1. UNCHANGED <<pool, receipt>>
    BY DEF RelayerCrash
  <2>2. QED
    BY <1>2, <2>1 DEF IInv, Answers, Pooled, Final
<1>5. \A r \in Relays : relay'[r].vs = relay[r].vs
  BY <1>2
<1>6. Mined'
  BY <1>5 DEF IInv, Mined, Spent
<1>7. QED
  BY <1>1, <1>3, <1>4, <1>6 DEF IInv

\* A transaction that is in the pool neither before nor already mined joins it.
LEMMA AppendInPool ==
  ASSUME TypeOK, InPool, NEW t \in Txs, ~Pooled(t), receipt[t] = "none",
         pool' = Append(pool, t), receipt' = receipt
  PROVE  InPool' /\ \A x \in Txs : Pooled(x)' <=> Pooled(x) \/ x = t
<1>1. pool \in Seq(Txs)
  BY DEF TypeOK
<1>2. /\ DOMAIN pool' = 1..(Len(pool) + 1)
      /\ DOMAIN pool = 1..Len(pool) /\ Len(pool) \in Nat
      /\ \A i \in 1..Len(pool) : pool'[i] = pool[i]
      /\ pool'[Len(pool) + 1] = t
  BY <1>1
<1>3. \A x \in Txs : Pooled(x)' <=> Pooled(x) \/ x = t
  BY <1>2 DEF Pooled
<1>4. \A i, j \in DOMAIN pool' : pool'[i] = pool'[j] => i = j
  <2> SUFFICES ASSUME NEW i \in DOMAIN pool', NEW j \in DOMAIN pool', pool'[i] = pool'[j]
               PROVE  i = j
    OBVIOUS
  <2>1. i \in DOMAIN pool \/ i = Len(pool) + 1
    BY <1>2
  <2>2. j \in DOMAIN pool \/ j = Len(pool) + 1
    BY <1>2
  <2>3. QED
    BY <1>2, <2>1, <2>2 DEF InPool, Pooled
<1>5. QED
  BY <1>3, <1>4 DEF InPool

\* The transaction at the head leaves the pool for good.
LEMMA TailInPool ==
  ASSUME TypeOK, InPool, pool # <<>>, pool' = Tail(pool)
  PROVE  /\ Head(pool) \in Txs /\ Pooled(Head(pool))
         /\ \A i, j \in DOMAIN pool' : pool'[i] = pool'[j] => i = j
         /\ \A x \in Txs : Pooled(x)' <=> Pooled(x) /\ x # Head(pool)
<1>1. pool \in Seq(Txs)
  BY DEF TypeOK
<1>2. /\ DOMAIN pool = 1..Len(pool) /\ Len(pool) \in Nat /\ Len(pool) > 0
      /\ DOMAIN pool' = 1..(Len(pool) - 1)
      /\ \A i \in 1..(Len(pool) - 1) : pool'[i] = pool[i + 1]
      /\ Head(pool) = pool[1]
  BY <1>1
<1>3. Head(pool) \in Txs /\ Pooled(Head(pool))
  BY <1>1, <1>2 DEF Pooled
<1>4. \A i, j \in DOMAIN pool' : pool'[i] = pool'[j] => i = j
  BY <1>2 DEF InPool
<1>5. ASSUME NEW x \in Txs PROVE Pooled(x)' <=> Pooled(x) /\ x # Head(pool)
  <2>1. ASSUME Pooled(x)' PROVE Pooled(x) /\ x # Head(pool)
    <3>1. PICK i \in 1..(Len(pool) - 1) : pool[i + 1] = x
      BY <1>2, <2>1 DEF Pooled
    <3>2. i + 1 \in DOMAIN pool /\ 1 \in DOMAIN pool /\ i + 1 # 1
      BY <1>2
    <3>3. QED
      BY <1>2, <3>1, <3>2 DEF Pooled, InPool
  <2>2. ASSUME Pooled(x), x # Head(pool) PROVE Pooled(x)'
    <3>1. PICK i \in 1..Len(pool) : pool[i] = x
      BY <1>2, <2>2 DEF Pooled
    <3>2. i # 1
      BY <1>2, <2>2, <3>1
    <3>3. i - 1 \in DOMAIN pool' /\ pool'[i - 1] = x
      BY <1>2, <3>1, <3>2
    <3>4. QED
      BY <3>3 DEF Pooled
  <2>3. QED
    BY <2>1, <2>2
<1>6. QED
  BY <1>3, <1>4, <1>5

\* Broadcasting: accepted at the account's next nonce, or refused.
LEMMA SendInv ==
  ASSUME TypeOK, IInv, NEW r \in Relays, RelaySend(r)
  PROVE  IInv'
<1> USE DEF chainVars, Early, Final
<1>1. receipt' = receipt /\ UNCHANGED chainVars
  BY DEF RelaySend
<1>2. receipt[r] = "none" /\ ~Pooled(r) /\ relay[r].out = "none" /\ relay[r].vs # <<>>
  BY DEF RelaySend, IInv, Unsent, Answers
<1>3. Paid'
  BY <1>1 DEF IInv, Paid, SpentOnce, Spent
<1>4. /\ relay'[r].vs = relay[r].vs
      /\ \A q \in Relays \ {r} : relay'[q] = relay[q]
  <2>1. CASE relay' = [relay EXCEPT ![r] = [@ EXCEPT !.pc = "wait"]]
    BY <2>1 DEF TypeOK, RelayState
  <2>2. QED
    BY <2>1, FinishFields DEF RelaySend
<1>5. \/ relay'[r].pc = "wait" /\ relay'[r].out = "none"
      \/ relay'[r].pc = "done" /\ relay'[r].out = "rpc"
      \/ relay'[r].pc = "done" /\ relay'[r].out = "collision" /\ pool' = pool
  <2>1. CASE relay' = [relay EXCEPT ![r] = [@ EXCEPT !.pc = "wait"]]
    BY <1>2, <2>1 DEF TypeOK, RelayState
  <2>2. QED
    BY <2>1, FinishFields DEF RelaySend
<1>6. /\ InPool'
      /\ \/ \A x \in Txs : Pooled(x)' <=> Pooled(x) \/ x = r
         \/ pool' = pool /\ \A x \in Txs : Pooled(x)' <=> Pooled(x)
  <2>1. CASE pool' = Append(pool, r)
    BY <1>1, <1>2, <2>1, AppendInPool DEF IInv, Txs
  <2>2. CASE pool' = pool
    BY <1>1, <2>2 DEF IInv, InPool, Pooled
  <2>3. QED
    BY <2>1, <2>2 DEF RelaySend
<1>7. \A q \in Relays \ {r} : Pooled(q)' <=> Pooled(q)
  BY <1>6 DEF Txs
<1>8. Unsent'
  BY <1>1, <1>2, <1>4, <1>5, <1>7 DEF IInv, Unsent
<1>9. Answers'
  <2>1. pool' = pool => (Pooled(r)' <=> Pooled(r))
    BY DEF Pooled
  <2>2. QED
    BY <1>1, <1>2, <1>4, <1>5, <1>7, <2>1 DEF IInv, Answers
<1>10. \A q \in Relays : relay'[q].vs = relay[q].vs
  BY <1>4
<1>11. Mined'
  BY <1>1, <1>10 DEF IInv, Mined, Spent
<1>12. QED
  BY <1>3, <1>6, <1>8, <1>9, <1>11 DEF IInv

\* badge.js or mintBadge.js sends from the same account.
LEMMA ForeignInv ==
  ASSUME TypeOK, IInv, NEW t \in ForeignTxs, ForeignSend(t)
  PROVE  IInv'
<1> USE DEF chainVars, ForeignSend
<1>1. InPool' /\ \A x \in Txs : Pooled(x)' <=> Pooled(x) \/ x = t
  BY AppendInPool DEF IInv, Txs
<1>2. \A r \in Relays : Pooled(r)' <=> Pooled(r)
  BY <1>1, ClaimAssumption DEF Txs
<1>3. Paid'
  BY DEF IInv, Paid, SpentOnce, Spent
<1>4. Unsent' /\ Answers'
  BY <1>2 DEF IInv, Unsent, Answers
<1>5. Mined'
  BY DEF IInv, Mined, Spent
<1>6. QED
  BY <1>1, <1>3, <1>4, <1>5 DEF IInv

\* The head of the pool is mined: it pays all its vouchers or none.
LEMMA MineInv ==
  ASSUME TypeOK, IInv, Mine
  PROVE  IInv'
<1> DEFINE t == Head(pool)
<1>1. /\ t \in Txs /\ Pooled(t)
      /\ \A i, j \in DOMAIN pool' : pool'[i] = pool'[j] => i = j
      /\ \A x \in Txs : Pooled(x)' <=> Pooled(x) /\ x # t
  BY TailInPool DEF IInv, Mine
<1>2. receipt[t] = "none"
  BY <1>1 DEF IInv, InPool
<1>3. relay' = relay /\ \A x \in Txs \ {t} : receipt'[x] = receipt[x]
  BY <1>1 DEF Mine, TypeOK
<1>4. CASE t \in Relays /\ Executes(relay[t].vs) /\ Effects(relay[t].vs) /\ receipt'[t] = "ok"
  <2>1. relay[t].vs \in Seq(Voucher)
    BY <1>4 DEF TypeOK, RelayState
  <2>2. Paid' /\ Spent \subseteq Spent' /\ \A i \in DOMAIN relay[t].vs : relay[t].vs[i] \in Spent'
    BY <1>4, <2>1, PaymentPaid DEF IInv
  <2>3. ASSUME NEW r \in Relays, r # t, receipt[r] = "ok"
        PROVE  NoncesOf(relay[r].vs) \cap NoncesOf(relay[t].vs) = {}
    <3>1. NoncesOf(relay[r].vs) \subseteq used
      BY <2>3 DEF IInv, Mined, Paid, NoncesOf
    <3>2. NoncesOf(relay[t].vs) \cap used = {}
      BY <1>4 DEF Executes, NoncesOf
    <3>3. QED
      BY <3>1, <3>2
  <2>4. \A r \in Relays : receipt'[r] = "ok" <=> receipt[r] = "ok" \/ r = t
    BY <1>3, <1>4 DEF Txs
  <2>5. Mined'
    <3>1. \A r \in Relays : receipt'[r] = "ok" =>
            \A i \in DOMAIN relay[r].vs : relay[r].vs[i] \in Spent'
      BY <2>2, <2>4 DEF IInv, Mined
    <3>2. \A r, q \in Relays : receipt'[r] = "ok" /\ receipt'[q] = "ok" /\ r # q =>
            NoncesOf(relay[r].vs) \cap NoncesOf(relay[q].vs) = {}
      <4> SUFFICES ASSUME NEW r \in Relays, NEW q \in Relays, r # q,
                          receipt'[r] = "ok", receipt'[q] = "ok"
                   PROVE  NoncesOf(relay[r].vs) \cap NoncesOf(relay[q].vs) = {}
        OBVIOUS
      <4>1. CASE r = t
        BY <2>3, <2>4, <4>1
      <4>2. CASE q = t
        BY <2>3, <2>4, <4>2
      <4>3. CASE r # t /\ q # t
        BY <2>4, <4>3 DEF IInv, Mined
      <4>4. QED
        BY <4>1, <4>2, <4>3
    <3>3. QED
      BY <1>3, <3>1, <3>2 DEF Mined
  <2>6. Unsent' /\ Answers' /\ InPool'
    <3>1. \A r \in Relays : Pooled(r)' => Pooled(r)
      BY <1>1 DEF Txs
    <3>2. Unsent'
      BY <1>1, <1>3, <3>1 DEF IInv, Unsent, Txs
    <3>3. Answers'
      BY <1>1, <1>3, <1>4, <3>1, <2>4 DEF IInv, Answers
    <3>4. InPool'
      BY <1>1, <1>3 DEF IInv, InPool
    <3>5. QED
      BY <3>2, <3>3, <3>4
  <2>7. QED
    BY <2>2, <2>5, <2>6 DEF IInv
<1>5. CASE UNCHANGED <<used, mints>> /\ (t \in Relays => receipt'[t] = "reverted")
  <2>1. \A r \in Relays : receipt'[r] = "ok" <=> receipt[r] = "ok"
    BY <1>2, <1>3, <1>5 DEF Txs
  <2>2. \A r \in Relays : Pooled(r)' => Pooled(r)
    BY <1>1 DEF Txs
  <2>3. Paid'
    BY <1>5 DEF IInv, Paid, SpentOnce, Spent
  <2>4. Mined'
    BY <1>3, <1>5, <2>1 DEF IInv, Mined, Spent
  <2>5. Unsent'
    BY <1>1, <1>3, <2>2 DEF IInv, Unsent, Txs
  <2>6. Answers'
    BY <1>3, <2>1, <2>2 DEF IInv, Answers
  <2>7. InPool'
    BY <1>1, <1>3 DEF IInv, InPool
  <2>8. QED
    BY <2>3, <2>4, <2>5, <2>6, <2>7 DEF IInv
<1>6. t \in Relays => t \notin ForeignTxs
  BY ClaimAssumption
<1>7. QED
  BY <1>1, <1>4, <1>5, <1>6 DEF Mine, TypeOK

\* A holder of a voucher calls claim() without the relayer.
LEMMA DirectInv ==
  ASSUME TypeOK, IInv, NEW v \in Voucher, DirectClaim(v)
  PROVE  IInv'
<1> USE DEF DirectClaim, accountVars
<1>1. <<v>> \in Seq(Voucher)
  OBVIOUS
<1>2. Paid' /\ Spent \subseteq Spent'
  BY <1>1, PaymentPaid DEF IInv
<1>3. InPool' /\ Unsent' /\ Answers'
  BY DEF IInv, InPool, Unsent, Answers, Pooled
<1>4. Mined'
  BY <1>2 DEF IInv, Mined
<1>5. QED
  BY <1>2, <1>3, <1>4 DEF IInv

LEMMA StepInv == TypeOK /\ IInv /\ [Next]_vars => IInv'
<1> SUFFICES ASSUME TypeOK, IInv, [Next]_vars PROVE IInv'
  OBVIOUS
<1> USE DEF accountVars, chainVars, signerVars
<1>1. CASE \E s \in Signs : SignRequest(s) \/ SignStep(s)
  BY <1>1, ElsewhereInv DEF SignRequest, SignStep, SkipItem, SignItem, SignReply
<1>2. CASE SignerCrash \/ RedisRestart
  BY <1>2, ElsewhereInv DEF SignerCrash, RedisRestart
<1>3. CASE \E r \in Relays : RelayRequest(r) \/ RelayStep(r) \/ RelayRpcError(r)
  <2>1. PICK r \in Relays : RelayRequest(r) \/ RelayStep(r) \/ RelayRpcError(r)
    BY <1>3
  <2>2. CASE RelaySend(r)
    BY <2>2, SendInv
  <2>3. CASE ~RelaySend(r)
    <3>1. UNCHANGED <<chainVars, accountVars>>
      BY <2>1, <2>3 DEF RelayRequest, RelayStep, RelayCheck, RelayReadNonce,
           RelayEstimate, RelayWait, RelayBalance, RelayRpcError
    <3>2. QED
      BY <2>1, <2>3, <3>1, HandlerInv DEF RelayStep
  <2>4. QED
    BY <2>2, <2>3
<1>4. CASE RelayerCrash
  BY <1>4, CrashInv
<1>5. CASE \E t \in ForeignTxs : ForeignSend(t)
  BY <1>5, ForeignInv
<1>6. CASE Mine
  BY <1>6, MineInv
<1>7. CASE \E k \in Key : SetAuthority(k)
  BY <1>7, ElsewhereInv DEF SetAuthority
<1>8. CASE \E v \in Voucher : DirectClaim(v)
  BY <1>8, DirectInv
<1>9. CASE UNCHANGED vars
  BY <1>9, ElsewhereInv DEF vars
<1>10. QED
  BY <1>1, <1>2, <1>3, <1>4, <1>5, <1>6, <1>7, <1>8, <1>9 DEF Next

LEMMA Invariant == Spec => [](TypeOK /\ IInv)
BY InitType, StepType, InitInv, StepInv, PTL DEF Spec

(***************************************************************************)
(* No nonce is paid twice (SignedAirdrop.claim, batchClaim), whatever the  *)
(* signer's counter, the relayer and direct callers do.                    *)
(***************************************************************************)
THEOREM SpentOnceHolds == Spec => []SpentOnce
BY Invariant, PTL DEF IInv, Paid

(***************************************************************************)
(* A 200 of the relayer means that every voucher of the body is paid       *)
(* (relayer.js answers after wait()).                                      *)
(***************************************************************************)
THEOREM SuccessHolds == Spec => []SuccessMeansMinted
<1>1. TypeOK /\ IInv => SuccessMeansMinted
  BY DEF IInv, Answers, Mined, SuccessMeansMinted, Spent
<1>2. QED
  BY <1>1, Invariant, PTL

(***************************************************************************)
(* Two requests that carry a common nonce are never both told of success.  *)
(***************************************************************************)
THEOREM OneSuccessHolds == Spec => []OneSuccessPerNonce
<1>1. IInv => OneSuccessPerNonce
  BY DEF IInv, Answers, Mined, OneSuccessPerNonce
<1>2. QED
  BY <1>1, Invariant, PTL

(***************************************************************************)
(* A refusal or a revert is final: the request's own transaction is not    *)
(* mined and never will be.                                                *)
(***************************************************************************)
THEOREM FailureHolds == Spec => []FailureMeansNotMinted
<1>1. IInv => FailureMeansNotMinted
  BY DEF IInv, Answers, Final, FailureMeansNotMinted
<1>2. QED
  BY <1>1, Invariant, PTL

-----------------------------------------------------------------------------
(* Nonces of the signer, while Redis keeps its counter *)

Fresh == FreshNonce /\ \A v \in Signed : v.nonce <= signedNonce

LEMMA SignedIsVoucher == TypeOK => Signed \subseteq Voucher
BY DEF TypeOK, SignState, Signed

\* Steps after which no more is signed than before, with the same counter.
LEMMA NothingSigned ==
  ASSUME Fresh, Signed' \subseteq Signed, signedNonce' = signedNonce
  PROVE  Fresh'
BY DEF Fresh, FreshNonce

LEMMA SignItemFresh ==
  ASSUME TypeOK, Fresh, NEW s \in Signs, SignItem(s)
  PROVE  Fresh'
<1>1. signedNonce' = signedNonce + 1 /\ signedNonce \in Nat /\ issued' = issued
  BY ClaimAssumption DEF SignItem, TypeOK
<1> DEFINE v == [claim |-> Head(sign[s].todo), nonce |-> signedNonce + 1,
                 by |-> Authority]
<1>2. \A q \in Signs : sign'[q].done \subseteq sign[q].done \cup {v}
  <2>1. CASE Head(sign[s].todo) = BadAmount
    <3>1. sign' = [q \in Signs |->
            IF sign[q].pc = "signing" THEN [sign[q] EXCEPT !.pc = "dead"] ELSE sign[q]]
      BY <2>1 DEF SignItem
    <3>2. QED
      BY <3>1 DEF TypeOK, SignState
  <2>2. CASE Head(sign[s].todo) # BadAmount
    <3>1. sign' = [sign EXCEPT ![s] = [@ EXCEPT !.done = sign[s].done \cup {v},
                                                !.todo = Tail(sign[s].todo)]]
      BY <2>2 DEF SignItem
    <3> HIDE DEF v
    <3>2. QED
      BY <3>1 DEF TypeOK, SignState
  <2>3. QED
    BY <2>1, <2>2
<1>3. v.nonce = signedNonce + 1
  OBVIOUS
<1> HIDE DEF v
<1>4. Signed' \subseteq Signed \cup {v}
  BY <1>1, <1>2 DEF Signed
<1>5. \A w \in Signed : w.nonce \in Nat
  BY SignedIsVoucher DEF Voucher
<1>6. \A w \in Signed : w.nonce <= signedNonce /\ w.nonce # v.nonce
  BY <1>1, <1>3, <1>5 DEF Fresh
<1>7. FreshNonce'
  BY <1>4, <1>6 DEF Fresh, FreshNonce
<1>8. \A w \in Signed' : w.nonce <= signedNonce'
  BY <1>1, <1>3, <1>4, <1>5, <1>6
<1>9. QED
  BY <1>7, <1>8 DEF Fresh

LEMMA StepFresh ==
  ASSUME RedisForgets = FALSE, TypeOK, Fresh, [Next]_vars
  PROVE  Fresh'
<1> USE DEF chainVars, accountVars, signerVars
<1>1. ASSUME NEW s \in Signs, SignRequest(s) PROVE Fresh'
  <2>1. Signed' \subseteq Signed /\ signedNonce' = signedNonce
    BY <1>1 DEF SignRequest, Signed, TypeOK, SignState
  <2>2. QED
    BY <2>1, NothingSigned
<1>2. ASSUME NEW s \in Signs, SkipItem(s) PROVE Fresh'
  <2>1. Signed' \subseteq Signed /\ signedNonce' = signedNonce
    BY <1>2 DEF SkipItem, Signed, TypeOK, SignState
  <2>2. QED
    BY <2>1, NothingSigned
<1>3. ASSUME NEW s \in Signs, SignReply(s) PROVE Fresh'
  <2>1. Signed' \subseteq Signed /\ signedNonce' = signedNonce
    BY <1>3 DEF SignReply, Signed, TypeOK, SignState
  <2>2. QED
    BY <2>1, NothingSigned
<1>4. CASE SignerCrash
  <2>1. Signed' \subseteq Signed /\ signedNonce' = signedNonce
    BY <1>4 DEF SignerCrash, Signed, TypeOK, SignState
  <2>2. QED
    BY <2>1, NothingSigned
<1>5. CASE UNCHANGED signerVars
  BY <1>5, NothingSigned DEF Signed
<1>6. CASE ~UNCHANGED signerVars
  <2>1. \/ \E s \in Signs : SignRequest(s) \/ SignStep(s)
        \/ SignerCrash
    BY <1>6 DEF Next, vars, RedisRestart, RelayRequest, RelayStep, RelayCheck,
         RelayReadNonce, RelayEstimate, RelaySend, RelayWait, RelayBalance,
         RelayRpcError, RelayerCrash, ForeignSend, Mine, SetAuthority, DirectClaim
  <2>2. QED
    BY <2>1, <1>1, <1>2, <1>3, <1>4, SignItemFresh DEF SignStep
<1>7. QED
  BY <1>5, <1>6

(***************************************************************************)
(* While Redis keeps the counter, no two vouchers that signer.js signs     *)
(* have the same nonce, over all concurrent requests and crashes.          *)
(***************************************************************************)
THEOREM FreshNonceHolds == RedisForgets = FALSE => (Spec => []FreshNonce)
<1> SUFFICES ASSUME RedisForgets = FALSE PROVE Spec => []FreshNonce
  OBVIOUS
<1>1. Init => Fresh
  BY DEF Init, Fresh, FreshNonce, Signed
<1>2. TypeOK /\ Fresh /\ [Next]_vars => Fresh'
  BY StepFresh
<1>3. Fresh => FreshNonce
  BY DEF Fresh
<1>4. QED
  BY <1>1, <1>2, <1>3, TypeCorrect, PTL DEF Spec

-----------------------------------------------------------------------------
(* Refinement of VoucherLedger *)

LEMMA PaymentRedeems ==
  ASSUME TypeOK, IInv, NEW vs \in Seq(Voucher), vs # <<>>, Executes(vs),
         Effects(vs), authority' = authority
  PROVE  Ledger!LedgerNext
<1> DEFINE S == {v \in Voucher : \E i \in DOMAIN vs : vs[i] = v}
<1>1. mints' = [v \in Voucher |-> mints[v] + (IF v \in S THEN 1 ELSE 0)]
  BY PaymentEffect DEF TypeOK
<1>2. vs[1] \in S
  OBVIOUS
<1>3. \A v \in S : v.by = authority /\ v.nonce \notin used
  BY DEF Executes
<1>4. Ledger!NoncesDisjoint(S, Ledger!Spent)
  BY <1>3 DEF IInv, Paid, Spent, Ledger!NoncesDisjoint, Ledger!Spent
<1>5. Ledger!NoncesDistinct(S)
  BY DEF Executes, Ledger!NoncesDistinct
<1>6. Ledger!Redeem(S)
  BY <1>1, <1>2, <1>3, <1>4, <1>5 DEF Ledger!Redeem
<1>7. S \in SUBSET Voucher
  OBVIOUS
<1>8. QED
  BY <1>6, <1>7 DEF Ledger!LedgerNext

LEMMA StepRefines ==
  ASSUME TypeOK, IInv, [Next]_vars
  PROVE  [Ledger!LedgerNext]_(Ledger!ledgerVars)
<1> USE DEF Ledger!ledgerVars, chainVars, accountVars, signerVars
<1>1. CASE \E v \in Voucher : DirectClaim(v)
  <2>1. PICK v \in Voucher : DirectClaim(v)
    BY <1>1
  <2>2. <<v>> \in Seq(Voucher) /\ <<v>> # <<>>
    OBVIOUS
  <2>3. QED
    BY <2>1, <2>2, PaymentRedeems DEF DirectClaim
<1>2. CASE Mine
  <2> DEFINE t == Head(pool)
  <2>1. CASE UNCHANGED <<used, mints>>
    BY <1>2, <2>1 DEF Mine
  <2>2. CASE t \in Relays /\ Executes(relay[t].vs) /\ Effects(relay[t].vs)
    <3>1. relay[t].vs \in Seq(Voucher)
      BY <2>2 DEF TypeOK, RelayState
    <3>2. Pooled(t) /\ relay[t].vs # <<>>
      BY <1>2, <2>2, TailInPool DEF IInv, Unsent, Mine, Early
    <3>3. QED
      BY <1>2, <2>2, <3>1, <3>2, PaymentRedeems DEF Mine
  <2>3. QED
    BY <1>2, <2>1, <2>2 DEF Mine
<1>3. CASE \E k \in Key : SetAuthority(k)
  BY <1>3 DEF SetAuthority, Ledger!LedgerNext, Ledger!ChangeAuthority
<1>4. CASE UNCHANGED <<mints, authority>>
  BY <1>4
<1>5. QED
  BY <1>1, <1>2, <1>3, <1>4 DEF Next, vars, SignRequest, SignStep, SkipItem, SignItem,
     SignReply, SignerCrash, RedisRestart, RelayRequest, RelayStep, RelayCheck,
     RelayReadNonce, RelayEstimate, RelaySend, RelayWait, RelayBalance,
     RelayRpcError, RelayerCrash, ForeignSend

(***************************************************************************)
(* The claim path implements the ledger: SignedAirdrop pays, atomically,   *)
(* sets of vouchers of the current authority with unspent nonces, and      *)
(* nothing the signer, the relayer or Redis does shows otherwise.          *)
(***************************************************************************)
THEOREM Refinement == Spec => ImplementsLedger
<1>1. Init => Ledger!LedgerInit
  BY DEF Init, Ledger!LedgerInit
<1>2. TypeOK /\ IInv /\ [Next]_vars => [Ledger!LedgerNext]_(Ledger!ledgerVars)
  BY StepRefines
<1>3. QED
  BY <1>1, <1>2, Invariant, PTL DEF Spec, ImplementsLedger, Ledger!Spec
=============================================================================
