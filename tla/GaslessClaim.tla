---------------------------- MODULE GaslessClaim -----------------------------
(***************************************************************************)
(* The gasless claim path: signer.js hands out EIP-712 vouchers whose      *)
(* nonces come from a Redis counter, relayer.js checks vouchers and pays   *)
(* the gas of SignedAirdrop.claim / batchClaim from one account, and the   *)
(* contract pays each nonce once.                                          *)
(*                                                                         *)
(* A voucher stands for (claimant, amount, nonce, sig): `claim' is the     *)
(* claimant with the amount and `by' the key ECDSA recovers from sig.      *)
(* Every await of a handler is a step of its own, so the steps of          *)
(* concurrent requests interleave.                                         *)
(***************************************************************************)
EXTENDS Naturals, Sequences, FiniteSets

CONSTANTS
  Claims,       \* (claimant, amount) pairs a client may ask for
  Rejecting,    \* the ones whose claimant cannot receive an ERC-1155 token
  BadAddress,   \* a body that ethers.isAddress refuses
  BadAmount,    \* a body whose amount signTypedData cannot encode
  Key,          \* signing keys
  Authority,    \* the key of signer.js, and the authority of signed.json
  Signs,        \* requests to the signer (bound: each id is used once)
  SignInputs,   \* the bodies they may carry, as sequences
  Relays,       \* requests to the relayer (bound: each id is used once)
  ForeignTxs,   \* transactions other services send from the same account
  Forged,       \* vouchers a client may present that the signer never issued
  MaxNonce,     \* bound on the signed-nonce counter
  MaxBatch,     \* bound on the length of a /relay-batch body
  RedisForgets  \* whether Redis may restart with an older counter

Voucher == [claim : Claims, nonce : 1..MaxNonce, by : Key]

Txs == Relays \cup ForeignTxs

ASSUME ClaimAssumption ==
  /\ Rejecting \subseteq Claims
  /\ BadAddress \notin Claims /\ BadAmount \notin Claims
  /\ BadAddress # BadAmount
  /\ SignInputs \subseteq Seq(Claims \cup {BadAddress, BadAmount})
  /\ Authority \in Key
  /\ Forged \subseteq Voucher
  /\ Relays \cap ForeignTxs = {}
  /\ MaxNonce \in Nat /\ MaxBatch \in Nat
  /\ RedisForgets \in BOOLEAN

VARIABLES
  signedNonce,  \* Redis key signed-nonce
  sign,         \* sign[s]: the signer's handler of request s
  issued,       \* vouchers the signer's replies have handed out
  relay,        \* relay[r]: the relayer's handler of request r
  used,         \* SignedAirdrop.used, as the set of true nonces
  mints,        \* mints[v]: times v's amount was minted to its claimant
  authority,    \* SignedAirdrop.authority
  pending,      \* getTransactionCount(relayer, "pending")
  pool,         \* the account's transactions not yet mined, in nonce order
  receipt       \* receipt[t]: "none", "ok" or "reverted"

\* t has been broadcast and is not mined.
Pooled(t) == \E i \in DOMAIN pool : pool[i] = t

signerVars  == <<signedNonce, sign, issued>>
chainVars   == <<used, mints, authority>>
accountVars == <<pending, pool, receipt>>
vars == <<signerVars, relay, chainVars, accountVars>>

SignState ==
  [pc   : {"idle", "signing", "replied", "dead"},
   todo : Seq(Claims \cup {BadAddress, BadAmount}),
   done : SUBSET Voucher]

RelayPC == {"idle", "check", "nonce", "estimate", "send", "wait", "balance", "done"}
Outcome == {"none", "forged", "used", "revert", "collision", "rpc", "dead", "ok"}

RelayState ==
  [pc : RelayPC, route : {"relay", "relay-batch"}, vs : Seq(Voucher),
   i : Nat, nonce : Nat, out : Outcome]

TypeOK ==
  /\ signedNonce \in 0..MaxNonce
  /\ sign \in [Signs -> SignState]
  /\ issued \subseteq Voucher
  /\ relay \in [Relays -> RelayState]
  /\ used \subseteq 1..MaxNonce
  /\ mints \in [Voucher -> Nat]
  /\ authority \in Key
  /\ pending \in Nat
  /\ pool \in Seq(Txs)
  /\ receipt \in [Txs -> {"none", "ok", "reverted"}]

Init ==
  /\ signedNonce = 0
  /\ sign = [s \in Signs |-> [pc |-> "idle", todo |-> <<>>, done |-> {}]]
  /\ issued = {}
  /\ relay = [r \in Relays |-> [pc |-> "idle", route |-> "relay", vs |-> <<>>,
                                i |-> 1, nonce |-> 0, out |-> "none"]]
  /\ used = {}
  /\ mints = [v \in Voucher |-> 0]
  /\ authority = Authority
  /\ pending = 0
  /\ pool = <<>>
  /\ receipt = [t \in Txs |-> "none"]

-----------------------------------------------------------------------------
(* signer.js.  /sign is /sign-batch with one item: both refuse what is not  *)
(* an address before they touch the counter.                                *)

SignRequest(s) ==
  /\ sign[s].pc = "idle"
  /\ \E body \in SignInputs :
       sign' = [sign EXCEPT ![s] = [pc |-> "signing", todo |-> body, done |-> {}]]
  /\ UNCHANGED <<signedNonce, issued, relay, chainVars, accountVars>>

SkipItem(s) ==
  /\ sign[s].pc = "signing" /\ sign[s].todo # <<>>
  /\ Head(sign[s].todo) = BadAddress
  /\ sign' = [sign EXCEPT ![s] = [@ EXCEPT !.todo = Tail(sign[s].todo)]]
  /\ UNCHANGED <<signedNonce, issued, relay, chainVars, accountVars>>

\* Mutant: the counter is read before it is incremented.
SignItemStale(s) ==
  /\ sign[s].pc = "signing" /\ sign[s].todo # <<>>
  /\ Head(sign[s].todo) \in Claims /\ signedNonce < MaxNonce
  /\ signedNonce' = signedNonce + 1
  /\ sign' = [sign EXCEPT
       ![s].done = @ \cup {[claim |-> Head(sign[s].todo),
                            nonce |-> signedNonce, by |-> Authority]},
       ![s].todo = Tail(@)]
  /\ UNCHANGED <<issued, relay, chainVars, accountVars>>

\* Mutant: the increment is never written back.
SignItemNoIncr(s) ==
  /\ sign[s].pc = "signing" /\ sign[s].todo # <<>>
  /\ Head(sign[s].todo) \in Claims /\ signedNonce < MaxNonce
  /\ sign' = [sign EXCEPT
       ![s].done = @ \cup {[claim |-> Head(sign[s].todo),
                            nonce |-> signedNonce + 1, by |-> Authority]},
       ![s].todo = Tail(@)]
  /\ UNCHANGED <<signedNonce, issued, relay, chainVars, accountVars>>

\* INCR and the signature.  The counter is taken before the amount is encoded:
\* a bad amount costs a nonce, and the rejected promise, with no handler, ends
\* the process and every request it was serving.
SignItem(s) ==
  /\ sign[s].pc = "signing" /\ sign[s].todo # <<>>
  /\ Head(sign[s].todo) # BadAddress
  /\ signedNonce < MaxNonce
  /\ signedNonce' = signedNonce + 1
  /\ IF Head(sign[s].todo) = BadAmount
       THEN sign' = [q \in Signs |->
              IF sign[q].pc = "signing" THEN [sign[q] EXCEPT !.pc = "dead"] ELSE sign[q]]
       ELSE sign' = [sign EXCEPT ![s] = [@ EXCEPT
              !.done = sign[s].done \cup {[claim |-> Head(sign[s].todo),
                                           nonce |-> signedNonce + 1, by |-> Authority]},
              !.todo = Tail(sign[s].todo)]]
  /\ UNCHANGED <<issued, relay, chainVars, accountVars>>

SignReply(s) ==
  /\ sign[s].pc = "signing" /\ sign[s].todo = <<>>
  /\ sign' = [sign EXCEPT ![s] = [@ EXCEPT !.pc = "replied"]]
  /\ issued' = issued \cup sign[s].done
  /\ UNCHANGED <<signedNonce, relay, chainVars, accountVars>>

SignerCrash ==
  /\ \E s \in Signs : sign[s].pc = "signing"
  /\ sign' = [s \in Signs |->
       IF sign[s].pc = "signing" THEN [sign[s] EXCEPT !.pc = "dead"] ELSE sign[s]]
  /\ UNCHANGED <<signedNonce, issued, relay, chainVars, accountVars>>

\* docker-compose.yml runs Redis without appendonly: a restart reloads an older
\* snapshot, or nothing.
RedisRestart ==
  /\ RedisForgets
  /\ \E n \in 0..MaxNonce : n < signedNonce /\ signedNonce' = n
  /\ UNCHANGED <<sign, issued, relay, chainVars, accountVars>>

-----------------------------------------------------------------------------
(* SignedAirdrop.sol: one transaction executes on the mined state, all of   *)
(* it or nothing.                                                           *)

NoncesOf(vs) == {vs[i].nonce : i \in DOMAIN vs}

\* Mutant: the recovered signer is not compared with authority.
ExecutesAnySigner(vs) ==
  /\ \A i \in DOMAIN vs : vs[i].nonce \notin used /\ vs[i].claim \notin Rejecting
  /\ \A i, j \in DOMAIN vs : vs[i].nonce = vs[j].nonce => i = j

Executes(vs) ==
  /\ \A i \in DOMAIN vs :
       /\ vs[i].nonce \notin used
       /\ vs[i].by = authority
       /\ vs[i].claim \notin Rejecting
  /\ \A i, j \in DOMAIN vs : vs[i].nonce = vs[j].nonce => i = j

\* Mutant: used[nonce] = true is missing.
EffectsUnused(vs) ==
  /\ used' = used
  /\ mints' = [v \in Voucher |->
       mints[v] + Cardinality({i \in DOMAIN vs : vs[i] = v})]

Effects(vs) ==
  /\ used' = used \cup NoncesOf(vs)
  /\ mints' = [v \in Voucher |->
       mints[v] + Cardinality({i \in DOMAIN vs : vs[i] = v})]

\* The owner's setAuthority.
SetAuthority(k) ==
  /\ k # authority
  /\ authority' = k
  /\ UNCHANGED <<signerVars, relay, used, mints, accountVars>>

\* Whoever holds a voucher may call claim() from an account of their own.
DirectClaim(v) ==
  /\ v \in issued \cup Forged
  /\ Executes(<<v>>)
  /\ Effects(<<v>>)
  /\ UNCHANGED <<signerVars, relay, authority, accountVars>>

-----------------------------------------------------------------------------
(* relayer.js *)

Finish(r, outcome) == 
  relay' = [relay EXCEPT ![r] = [@ EXCEPT !.pc = "done", !.out = outcome]]

RelayRequest(r) ==
  /\ relay[r].pc = "idle"
  /\ \E n \in 1..MaxBatch, route \in {"relay", "relay-batch"} :
       /\ route = "relay" => n = 1
       /\ \E vs \in [1..n -> issued \cup Forged] :
            relay' = [relay EXCEPT ![r] = [@ EXCEPT !.pc = "check", !.route = route, !.vs = vs]]
  /\ UNCHANGED <<signerVars, chainVars, accountVars>>

\* One voucher: the signature against the authority of signed.json, then
\* used(nonce) on the chain.  The authority is not read from the chain.
RelayCheck(r) ==
  LET v == relay[r].vs[relay[r].i]
      last == relay[r].i = Len(relay[r].vs)
  IN  /\ relay[r].pc = "check"
      /\ \/ v.by # Authority /\ Finish(r, "forged")
         \/ v.by = Authority /\ v.nonce \in used /\ Finish(r, "used")
         \/ /\ v.by = Authority /\ v.nonce \notin used
            /\ relay' = [relay EXCEPT ![r] = [@ EXCEPT !.pc = IF last THEN "nonce" ELSE "check",
                                                       !.i = IF last THEN relay[r].i ELSE relay[r].i + 1]]
      /\ UNCHANGED <<signerVars, chainVars, accountVars>>

\* contract.claim() without overrides: ethers reads the account's pending
\* count, estimates the gas, signs and broadcasts, with an await between each.
RelayReadNonce(r) ==
  /\ relay[r].pc = "nonce"
  /\ relay' = [relay EXCEPT ![r] = [@ EXCEPT !.pc = "estimate", !.nonce = pending]]
  /\ UNCHANGED <<signerVars, chainVars, accountVars>>

RelayEstimate(r) ==
  /\ relay[r].pc = "estimate"
  /\ \/ Executes(relay[r].vs) /\ relay' = [relay EXCEPT ![r] = [@ EXCEPT !.pc = "send"]]
     \/ ~Executes(relay[r].vs) /\ Finish(r, "revert")
  /\ UNCHANGED <<signerVars, chainVars, accountVars>>

\* The node takes the transaction only at the account's next nonce.  Its answer
\* may be lost: the handler then reports an error for a transaction in the pool.
RelaySend(r) ==
  /\ relay[r].pc = "send"
  /\ \/ /\ relay[r].nonce = pending
        /\ pool' = Append(pool, r)
        /\ pending' = pending + 1
        /\ \/ relay' = [relay EXCEPT ![r] = [@ EXCEPT !.pc = "wait"]]
           \/ Finish(r, "rpc")
     \/ /\ relay[r].nonce # pending
        /\ Finish(r, "collision")
        /\ UNCHANGED <<pool, pending>>
  /\ UNCHANGED <<signerVars, chainVars, receipt>>

\* Mutant: a mined transaction is taken for a successful one.
RelayWaitAnyStatus(r) ==
  /\ relay[r].pc = "wait" /\ receipt[r] # "none"
  /\ Finish(r, "ok")
  /\ UNCHANGED <<signerVars, chainVars, accountVars>>

\* Mutant: the handler does not wait for the receipt.
RelayWaitLess(r) ==
  /\ relay[r].pc = "wait"
  /\ Finish(r, "ok")
  /\ UNCHANGED <<signerVars, chainVars, accountVars>>

\* Mutant: a transaction that is not mined yet is reported as reverted.
RelayWaitImpatient(r) ==
  /\ relay[r].pc = "wait"
  /\ Finish(r, IF receipt[r] = "ok" THEN "ok" ELSE "revert")
  /\ UNCHANGED <<signerVars, chainVars, accountVars>>

\* Mutant: wait() never settles for a reverted transaction.
RelayWaitForOk(r) ==
  /\ relay[r].pc = "wait" /\ receipt[r] = "ok"
  /\ Finish(r, "ok")
  /\ UNCHANGED <<signerVars, chainVars, accountVars>>

\* tx.wait(): /relay goes on to read the balance, /relay-batch answers.
RelayWait(r) ==
  /\ relay[r].pc = "wait"
  /\ \/ /\ receipt[r] = "ok" /\ relay[r].route = "relay"
        /\ relay' = [relay EXCEPT ![r] = [@ EXCEPT !.pc = "balance"]]
     \/ receipt[r] = "ok" /\ relay[r].route = "relay-batch" /\ Finish(r, "ok")
     \/ receipt[r] = "reverted" /\ Finish(r, "revert")
  /\ UNCHANGED <<signerVars, chainVars, accountVars>>

RelayBalance(r) ==
  /\ relay[r].pc = "balance"
  /\ Finish(r, "ok")
  /\ UNCHANGED <<signerVars, chainVars, accountVars>>

\* Any RPC of the try block may fail: the catch answers 500 "tx revert".
RelayRpcError(r) ==
  /\ relay[r].pc \in {"nonce", "estimate", "send", "wait", "balance"}
  /\ Finish(r, "rpc")
  /\ UNCHANGED <<signerVars, chainVars, accountVars>>

\* The process ends, or an RPC error in used(), which no try covers, ends it.
RelayerCrash ==
  /\ \E r \in Relays : relay[r].pc \notin {"idle", "done"}
  /\ relay' = [r \in Relays |->
       IF relay[r].pc \in {"idle", "done"} THEN relay[r]
       ELSE [relay[r] EXCEPT !.pc = "done", !.out = "dead"]]
  /\ UNCHANGED <<signerVars, chainVars, accountVars>>

-----------------------------------------------------------------------------
(* The account shared with badge.js and mintBadge.js, and the chain.        *)

ForeignSend(t) ==
  /\ receipt[t] = "none" /\ ~Pooled(t)
  /\ pool' = Append(pool, t)
  /\ pending' = pending + 1
  /\ UNCHANGED <<signerVars, relay, chainVars, receipt>>

\* Transactions of one account are mined in nonce order.
Mine ==
  /\ pool # <<>>
  /\ pool' = Tail(pool)
  /\ LET t == Head(pool)
     IN  \/ /\ t \in ForeignTxs
            /\ receipt' = [receipt EXCEPT ![t] = "ok"]
            /\ UNCHANGED <<used, mints>>
         \/ /\ t \in Relays /\ Executes(relay[t].vs)
            /\ Effects(relay[t].vs)
            /\ receipt' = [receipt EXCEPT ![t] = "ok"]
         \/ /\ t \in Relays /\ ~Executes(relay[t].vs)
            /\ receipt' = [receipt EXCEPT ![t] = "reverted"]
            /\ UNCHANGED <<used, mints>>
  /\ UNCHANGED <<signerVars, relay, authority, pending>>

-----------------------------------------------------------------------------
SignStep(s) == SkipItem(s) \/ SignItem(s) \/ SignReply(s)

RelayStep(r) ==
  \/ RelayCheck(r) \/ RelayReadNonce(r) \/ RelayEstimate(r)
  \/ RelaySend(r) \/ RelayWait(r) \/ RelayBalance(r)

Next ==
  \/ \E s \in Signs : SignRequest(s) \/ SignStep(s)
  \/ SignerCrash
  \/ RedisRestart
  \/ \E r \in Relays : RelayRequest(r) \/ RelayStep(r) \/ RelayRpcError(r)
  \/ RelayerCrash
  \/ \E t \in ForeignTxs : ForeignSend(t)
  \/ Mine
  \/ \E k \in Key : SetAuthority(k)
  \/ \E v \in Voucher : DirectClaim(v)

Spec == Init /\ [][Next]_vars

\* Node runs every handler whose await has resolved and the chain keeps mining.
FairSpec ==
  /\ Spec
  /\ \A s \in Signs : WF_vars(SignStep(s))
  /\ \A r \in Relays : WF_vars(RelayStep(r))
  /\ WF_vars(Mine)
-----------------------------------------------------------------------------
(* Properties *)

Spent == {v \in Voucher : mints[v] > 0}

(***************************************************************************)
(* Safety: however signatures, relayed requests and direct calls           *)
(* interleave, no nonce is ever paid twice: used[] is written with the     *)
(* mint, and the relayer's own check of used() is only advisory.           *)
(***************************************************************************)
SpentOnce ==
  /\ \A v \in Voucher : mints[v] <= 1
  /\ \A v, w \in Spent : v.nonce = w.nonce => v = w

(***************************************************************************)
(* Safety: a 200 from /relay or /relay-batch is never given for a claim    *)
(* that is not on the chain: each voucher of the body has been paid.       *)
(***************************************************************************)
SuccessMeansMinted ==
  \A r \in Relays : relay[r].out = "ok" =>
    \A i \in DOMAIN relay[r].vs : mints[relay[r].vs[i]] > 0

(***************************************************************************)
(* Safety: of the requests that carry the same nonce at most one is told   *)
(* that it succeeded, even when all passed the relayer's check together.   *)
(***************************************************************************)
OneSuccessPerNonce ==
  \A r, q \in Relays :
    relay[r].out = "ok" /\ relay[q].out = "ok" /\ r # q =>
      NoncesOf(relay[r].vs) \cap NoncesOf(relay[q].vs) = {}

(***************************************************************************)
(* Safety: 403, 409, a node's refusal and a revert are final.  The request *)
(* has no transaction that was mined or may still be, so a client that     *)
(* tries again cannot race with its own first try.                         *)
(***************************************************************************)
FailureMeansNotMinted ==
  \A r \in Relays : relay[r].out \in {"forged", "used", "revert", "collision"} =>
    receipt[r] # "ok" /\ ~Pooled(r)

(***************************************************************************)
(* Safety: two vouchers that the signer has signed never share a nonce,    *)
(* over all the requests it serves at once and its crashes: a voucher      *)
(* cannot be made worthless by another (signer.js takes nonces with INCR). *)
(***************************************************************************)
Signed == issued \cup UNION {sign[s].done : s \in Signs}

FreshNonce == \A v, w \in Signed : v.nonce = w.nonce => v = w

(***************************************************************************)
(* Refinement: every step of the claim path is a step, or a stutter, of    *)
(* the ledger of vouchers.                                                 *)
(***************************************************************************)
Ledger == INSTANCE VoucherLedger
  WITH Voucher <- Voucher, Key <- Key, Authority <- Authority, mints <- mints, authority <- authority

ImplementsLedger == Ledger!Spec

(***************************************************************************)
(* Liveness: a request the relayer has accepted is answered, whatever      *)
(* other requests and services do to the account (relayer.js handlers).    *)
(***************************************************************************)
RelayAnswered ==
  \A r \in Relays : relay[r].pc = "check" ~> relay[r].pc = "done"
=============================================================================
