------------------------------ MODULE BadgeFlow ------------------------------
(***************************************************************************)
(* The badge path: /approve-day of discord-bot/index.js records a day of a *)
(* student and, at a milestone, asks badge.js for a badge; badge.js signs  *)
(* and sends one transaction at a time to ChallengeBadge; mintBadge.js is  *)
(* the same claim run by hand.  badge.js, mintBadge.js and relayer.js send *)
(* from one account.                                                       *)
(*                                                                         *)
(* The milestones 7, 14 and 21 are a parameter; the badge of a milestone   *)
(* has its number, as in MILE.                                             *)
(***************************************************************************)
EXTENDS Naturals, Sequences, FiniteSets

CONSTANTS
  Students,
  Days,        \* the days of the challenge
  Milestones,  \* keys of MILE, ids of badges
  Wallets,     \* addresses that /link accepts
  Malformed,   \* those whose checksum ethers.isAddress refuses
  Rejecting,   \* those that refuse ERC-1155 tokens
  Approvals,   \* uses of /approve-day (bound: each id is used once)
  InFlight,    \* bound on the approvals handled at once
  Scripts,     \* runs of mintBadge.js (bound: each id is used once)
  ForeignTxs,  \* transactions of relayer.js on the account (bound: each is sent once)
  AutoMine,    \* whether the node mines a transaction before it answers
  Faults       \* whether the bot and the badge service crash

ASSUME BadgeAssumption ==
  /\ Milestones \subseteq Nat \ {0}
  /\ IsFiniteSet(Days)
  /\ Approvals \cap Scripts = {}
  /\ Malformed \subseteq Wallets /\ Rejecting \subseteq Wallets
  /\ InFlight \in Nat \ {0}
  /\ AutoMine \in BOOLEAN /\ Faults \in BOOLEAN

NoWallet == "none"
Idle == [pc |-> "idle"]

VARIABLES
  progress, \* Redis sets progress:<id>
  link,     \* Redis strings link:<id>
  linked,   \* every wallet a student has linked (history)
  approval, \* approval[a]: the handler of interaction a
  roles,    \* milestone roles of the Discord server
  chain,    \* promise chain of badge.js: the requests not yet begun
  job,      \* handleMint of the request at work
  counter,  \* Redis counter "badge-nonce"
  script,   \* script[x]: the run x of mintBadge.js
  pool,     \* transactions of the account, accepted and not mined
  pending,  \* the account's transaction count, pool included
  foreign,  \* the transactions of relayer.js sent so far
  used,     \* used of ChallengeBadge
  balance   \* balance[w][b]: badges b of w

botVars == <<progress, link, linked, approval, roles>>
serviceVars == <<chain, job>>
accountVars == <<pool, pending, foreign>>
contractVars == <<used, balance>>
vars == <<botVars, serviceVars, counter, script, accountVars, contractVars>>

Minting == [by : Approvals, wallet : Wallets, badge : Milestones]
Tx == [by : Approvals \cup Scripts, wallet : Wallets, badge : Milestones, nonce : Nat]

TypeOK ==
  /\ progress \in [Students -> SUBSET Days]
  /\ link \in [Students -> Wallets \cup {NoWallet}]
  /\ linked \in [Students -> SUBSET Wallets]
  /\ approval \in [Approvals -> {Idle} \cup
       [pc : {"sadd", "scard", "get", "post", "reply", "role", "done"}, student : Students,
        day : Days, count : Nat, wallet : Wallets \cup {NoWallet},
        answer : {"none", "progress", "unlinked", "failed", "minted"}]]
  /\ roles \in [Students -> SUBSET Milestones]
  /\ chain \in Seq(Minting)
  /\ job = Idle \/ job \in [pc : {"check", "incr", "count", "send", "wait", "balance"},
       of : Minting, nonce : Nat, at : Nat, receipt : {"none", "ok", "reverted"}]
  /\ counter \in Nat
  /\ script \in [Scripts -> {Idle} \cup
       [pc : {"incr", "count", "send", "done"}, wallet : Wallets,
        badge : Milestones \cup {0}, nonce : Nat, at : Nat]]
  /\ pool \in Seq(Tx \cup ForeignTxs)
  /\ pending \in Nat /\ foreign \subseteq ForeignTxs
  /\ used \subseteq Nat
  /\ balance \in [Wallets -> [Milestones -> Nat]]

Init ==
  /\ progress = [s \in Students |-> {}]
  /\ link = [s \in Students |-> NoWallet]
  /\ linked = [s \in Students |-> {}]
  /\ approval = [a \in Approvals |-> Idle]
  /\ roles = [s \in Students |-> {}]
  /\ chain = <<>> /\ job = Idle /\ counter = 0
  /\ script = [x \in Scripts |-> Idle]
  /\ pool = <<>> /\ pending = 0 /\ foreign = {}
  /\ used = {} /\ balance = [w \in Wallets |-> [b \in Milestones |-> 0]]

-----------------------------------------------------------------------------
(* discord-bot/index.js *)

Handling == {a \in Approvals : approval[a].pc \notin {"idle", "done"}}

Goto(a, pc) == approval' = [approval EXCEPT ![a].pc = pc]

Answer(a, text) == approval' = [approval EXCEPT ![a] = [@ EXCEPT !.pc = "done", !.answer = text]]

\* /link checks the form of the address, not its checksum.
Link(s, w) ==
  /\ w # link[s]
  /\ link' = [link EXCEPT ![s] = w]
  /\ linked' = [linked EXCEPT ![s] = @ \cup {w}]
  /\ UNCHANGED <<progress, approval, roles, serviceVars, counter, script, accountVars, contractVars>>

\* A moderator approves a day; deferReply comes first.
Approve(a) ==
  /\ approval[a] = Idle
  /\ Cardinality(Handling) < InFlight
  /\ \E s \in Students, d \in Days : approval' = [approval EXCEPT ![a] =
       [pc |-> "sadd", student |-> s, day |-> d, count |-> 0, wallet |-> NoWallet, answer |-> "none"]]
  /\ UNCHANGED <<progress, link, linked, roles, serviceVars, counter, script, accountVars, contractVars>>

ProgressAdd(a) ==
  /\ approval[a].pc = "sadd"
  /\ progress' = [progress EXCEPT ![approval[a].student] = @ \cup {approval[a].day}]
  /\ Goto(a, "scard")
  /\ UNCHANGED <<link, linked, roles, serviceVars, counter, script, accountVars, contractVars>>

\* Mutant: the days are counted before the day is added.
CountBeforeAdd(a) ==
  /\ approval[a].pc = "scard"
  /\ LET n == Cardinality(progress[approval[a].student] \ {approval[a].day}) IN
       approval' = [approval EXCEPT ![a] = [@ EXCEPT !.count = n,
         !.pc = IF n \in Milestones THEN "get" ELSE "done",
         !.answer = IF n \in Milestones THEN "none" ELSE "progress"]]
  /\ UNCHANGED <<progress, link, linked, roles, serviceVars, counter, script, accountVars, contractVars>>

\* Mutant: the milestone is that of the approved day.
CountIsDay(a) ==
  /\ approval[a].pc = "scard"
  /\ LET n == approval[a].day IN
       approval' = [approval EXCEPT ![a] = [@ EXCEPT !.count = n,
         !.pc = IF n \in Milestones THEN "get" ELSE "done",
         !.answer = IF n \in Milestones THEN "none" ELSE "progress"]]
  /\ UNCHANGED <<progress, link, linked, roles, serviceVars, counter, script, accountVars, contractVars>>

\* scard, and MILE[count]
ProgressCount(a) ==
  /\ approval[a].pc = "scard"
  /\ LET n == Cardinality(progress[approval[a].student]) IN
       approval' = [approval EXCEPT ![a] = [@ EXCEPT !.count = n,
         !.pc = IF n \in Milestones THEN "get" ELSE "done",
         !.answer = IF n \in Milestones THEN "none" ELSE "progress"]]
  /\ UNCHANGED <<progress, link, linked, roles, serviceVars, counter, script, accountVars, contractVars>>

\* get link:<id>; without a wallet the badge is reported as pending.
GetLink(a) ==
  /\ approval[a].pc = "get"
  /\ LET w == link[approval[a].student] IN
       IF w = NoWallet THEN Answer(a, "unlinked")
       ELSE approval' = [approval EXCEPT ![a] = [@ EXCEPT !.pc = "post", !.wallet = w]]
  /\ UNCHANGED <<progress, link, linked, roles, serviceVars, counter, script, accountVars, contractVars>>

\* POST /mint-badge arrives and joins the promise chain.
Post(a) ==
  /\ approval[a].pc = "post"
  /\ chain' = Append(chain, [by |-> a, wallet |-> approval[a].wallet, badge |-> approval[a].count])
  /\ Goto(a, "reply")
  /\ UNCHANGED <<progress, link, linked, roles, job, counter, script, accountVars, contractVars>>

\* fetchT aborts after 12 s; the service goes on with the request.
Timeout(a) ==
  /\ approval[a].pc = "reply"
  /\ Answer(a, "failed")
  /\ UNCHANGED <<progress, link, linked, roles, serviceVars, counter, script, accountVars, contractVars>>

\* The role of the milestone; Discord may refuse to grant it.
GrantRole(a) ==
  /\ approval[a].pc = "role"
  /\ \/ /\ roles' = [roles EXCEPT ![approval[a].student] = @ \cup {approval[a].count}]
        /\ Answer(a, "minted")
     \/ Answer(a, "failed") /\ UNCHANGED roles
  /\ UNCHANGED <<progress, link, linked, serviceVars, counter, script, accountVars, contractVars>>

BotCrash ==
  /\ Faults /\ Handling # {}
  /\ approval' = [a \in Approvals |->
       IF a \in Handling THEN [approval[a] EXCEPT !.pc = "done"] ELSE approval[a]]
  /\ UNCHANGED <<progress, link, linked, roles, serviceVars, counter, script, accountVars, contractVars>>

-----------------------------------------------------------------------------
(* badge.js *)

\* What the bot does with the answer to approval a, if it still waits.
Respond(a, ok) ==
  IF approval[a].pc # "reply" THEN UNCHANGED approval
  ELSE IF ok THEN Goto(a, "role") ELSE Answer(a, "failed")

\* The next request of the chain begins; a bad checksum is answered 400.
JobBegin ==
  /\ job = Idle /\ chain # <<>>
  /\ chain' = Tail(chain)
  /\ IF Head(chain).wallet \in Malformed
       THEN Respond(Head(chain).by, FALSE) /\ UNCHANGED job
       ELSE /\ job' = [pc |-> "check", of |-> Head(chain), nonce |-> 0, at |-> 0, receipt |-> "none"]
            /\ UNCHANGED approval
  /\ UNCHANGED <<progress, link, linked, roles, counter, script, accountVars, contractVars>>

\* Mutant: every answer of the service is taken for a success.
FinishOk(ok) == Respond(job.of.by, TRUE) /\ job' = Idle

Finish(ok) == Respond(job.of.by, ok) /\ job' = Idle

Owned(m) == balance[m.wallet][m.badge]

\* Mutant: the service does not ask whether the badge exists.
JobCheckNothing ==
  /\ job.pc = "check"
  /\ job' = [job EXCEPT !.pc = "incr"]
  /\ UNCHANGED <<botVars, chain, counter, script, accountVars, contractVars>>

\* balanceOf: a badge that exists is answered without a transaction.  What an
\* error of Redis or of the node does to this and the calls below: JobError.
JobCheck ==
  /\ job.pc = "check"
  /\ IF Owned(job.of) > 0 THEN Finish(TRUE)
     ELSE job' = [job EXCEPT !.pc = "incr"] /\ UNCHANGED approval
  /\ UNCHANGED <<progress, link, linked, roles, chain, counter, script, accountVars, contractVars>>

\* incr("badge-nonce") and the signature
JobIncr ==
  /\ job.pc = "incr"
  /\ counter' = counter + 1
  /\ job' = [job EXCEPT !.pc = "count", !.nonce = counter + 1]
  /\ UNCHANGED <<botVars, chain, script, accountVars, contractVars>>

\* getTransactionCount(relayer, "pending")
JobCount ==
  /\ job.pc = "count"
  /\ job' = [job EXCEPT !.pc = "send", !.at = pending]
  /\ UNCHANGED <<botVars, chain, counter, script, accountVars, contractVars>>

\* claimBadge on the contract.
Accepts(wallet, badge, nonce) ==
  nonce \notin used /\ badge \in Milestones /\ wallet \notin Rejecting

Submit(tx) == pool' = Append(pool, tx) /\ pending' = pending + 1

\* Mutant: a refused transaction leaves the promise chain unsettled.
JobSendStuck ==
  /\ job.pc = "send"
  /\ Accepts(job.of.wallet, job.of.badge, job.nonce) /\ job.at = pending
  /\ Submit([by |-> job.of.by, wallet |-> job.of.wallet, badge |-> job.of.badge, nonce |-> job.nonce])
  /\ job' = [job EXCEPT !.pc = "wait"]
  /\ UNCHANGED <<botVars, chain, counter, script, foreign, contractVars>>

\* contract.claimBadge: the gas estimate, then the node takes the transaction
\* at the account's next nonce only.
JobSend ==
  /\ job.pc = "send"
  /\ IF Accepts(job.of.wallet, job.of.badge, job.nonce) /\ job.at = pending
       THEN /\ Submit([by |-> job.of.by, wallet |-> job.of.wallet,
                       badge |-> job.of.badge, nonce |-> job.nonce])
            /\ job' = [job EXCEPT !.pc = "wait"]
            /\ UNCHANGED <<approval, foreign>>
       ELSE Finish(FALSE) /\ UNCHANGED accountVars
  /\ UNCHANGED <<progress, link, linked, roles, chain, counter, script, contractVars>>

\* Mutant: the handler does not wait for its transaction.
JobWaitLess ==
  /\ job.pc = "wait"
  /\ Finish(TRUE)
  /\ UNCHANGED <<progress, link, linked, roles, chain, counter, script, accountVars, contractVars>>

\* tx.wait()
JobWait ==
  /\ job.pc = "wait"
  /\ \/ job.receipt = "ok" /\ job' = [job EXCEPT !.pc = "balance"] /\ UNCHANGED approval
     \/ job.receipt = "reverted" /\ Finish(FALSE)
  /\ UNCHANGED <<progress, link, linked, roles, chain, counter, script, accountVars, contractVars>>

\* balanceOf for the answer
JobBalance ==
  /\ job.pc = "balance"
  /\ Finish(TRUE)
  /\ UNCHANGED <<progress, link, linked, roles, chain, counter, script, accountVars, contractVars>>

\* A call to Redis or the node fails, or its answer is lost: the client is
\* answered 500 and the next request begins, though the counter may have moved,
\* the transaction sent may still be in the pool or the badge be minted.
JobError ==
  /\ job # Idle
  /\ Finish(FALSE)
  /\ UNCHANGED <<progress, link, linked, roles, chain, counter, script, accountVars, contractVars>>

\* The process ends and is started again: the chain and its requests are gone.
ServiceCrash ==
  /\ Faults /\ (job # Idle \/ chain # <<>>)
  /\ chain' = <<>> /\ job' = Idle
  /\ approval' = [a \in Approvals |-> IF approval[a].pc = "reply"
       THEN [approval[a] EXCEPT !.pc = "done", !.answer = "failed"] ELSE approval[a]]
  /\ UNCHANGED <<progress, link, linked, roles, counter, script, accountVars, contractVars>>

-----------------------------------------------------------------------------
(* mintBadge.js *)

ScriptStart(x) ==
  /\ script[x] = Idle
  /\ \E w \in Wallets \ Malformed, b \in Milestones \cup {0} : script' = [script EXCEPT ![x] =
       [pc |-> "incr", wallet |-> w, badge |-> b, nonce |-> 0, at |-> 0]]
  /\ UNCHANGED <<botVars, serviceVars, counter, accountVars, contractVars>>

ScriptIncr(x) ==
  /\ script[x].pc = "incr"
  /\ counter' = counter + 1
  /\ script' = [script EXCEPT ![x] = [@ EXCEPT !.pc = "count", !.nonce = counter + 1]]
  /\ UNCHANGED <<botVars, serviceVars, accountVars, contractVars>>

\* ethers reads the account's pending count itself.
ScriptCount(x) ==
  /\ script[x].pc = "count"
  /\ script' = [script EXCEPT ![x] = [@ EXCEPT !.pc = "send", !.at = pending]]
  /\ UNCHANGED <<botVars, serviceVars, counter, accountVars, contractVars>>

ScriptSend(x) ==
  /\ script[x].pc = "send"
  /\ IF Accepts(script[x].wallet, script[x].badge, script[x].nonce) /\ script[x].at = pending
       THEN /\ Submit([by |-> x, wallet |-> script[x].wallet,
                       badge |-> script[x].badge, nonce |-> script[x].nonce])
            /\ UNCHANGED foreign
       ELSE UNCHANGED accountVars
  /\ script' = [script EXCEPT ![x].pc = "done"]
  /\ UNCHANGED <<botVars, serviceVars, counter, contractVars>>

-----------------------------------------------------------------------------
(* The account and the chain *)

\* relayer.js has a transaction accepted.
ForeignSend(f) ==
  /\ f \notin foreign
  /\ foreign' = foreign \cup {f}
  /\ Submit(f)
  /\ UNCHANGED <<botVars, serviceVars, counter, script, contractVars>>

Receipt(tx, status) ==
  job' = IF job.pc = "wait" /\ tx.by = job.of.by THEN [job EXCEPT !.receipt = status] ELSE job

Mine ==
  /\ pool # <<>>
  /\ pool' = Tail(pool)
  /\ LET tx == Head(pool) IN
       IF tx \in ForeignTxs THEN UNCHANGED <<job, contractVars>>
       ELSE IF Accepts(tx.wallet, tx.badge, tx.nonce)
         THEN /\ used' = used \cup {tx.nonce}
              /\ balance' = [balance EXCEPT ![tx.wallet][tx.badge] = @ + 1]
              /\ Receipt(tx, "ok")
         ELSE Receipt(tx, "reverted") /\ UNCHANGED contractVars
  /\ UNCHANGED <<botVars, chain, counter, script, pending, foreign>>

-----------------------------------------------------------------------------
BotStep(a) == ProgressAdd(a) \/ ProgressCount(a) \/ GetLink(a) \/ Post(a) \/ GrantRole(a)
ServiceStep == JobBegin \/ JobCheck \/ JobIncr \/ JobCount \/ JobSend \/ JobWait \/ JobBalance
ScriptStep(x) == ScriptIncr(x) \/ ScriptCount(x) \/ ScriptSend(x)

Next ==
  \/ Mine
  \/ /\ AutoMine => pool = <<>>
     /\ \/ \E s \in Students, w \in Wallets : Link(s, w)
        \/ \E a \in Approvals : Approve(a) \/ BotStep(a) \/ Timeout(a)
        \/ ServiceStep \/ JobError \/ ServiceCrash \/ BotCrash
        \/ \E x \in Scripts : ScriptStart(x) \/ ScriptStep(x)
        \/ \E f \in ForeignTxs : ForeignSend(f)

Spec == Init /\ [][Next]_vars

FairSpec ==
  /\ Spec
  /\ \A a \in Approvals : WF_vars(BotStep(a))
  /\ WF_vars(ServiceStep) /\ WF_vars(Mine)
-----------------------------------------------------------------------------
(* Properties *)

(***************************************************************************)
(* Safety, "IDEMPOTENTE: se o badge ja existe, nao manda tx de novo"       *)
(* (badge.js): whatever is approved again, retried after a timeout or      *)
(* linked anew, a wallet holds at most one badge of each milestone.        *)
(***************************************************************************)
OneBadgeEach == \A w \in Wallets, b \in Milestones : balance[w][b] <= 1

(***************************************************************************)
(* Safety: a badge goes only to a wallet that a student with that many     *)
(* approved days has linked (approve-day and badge.js together).           *)
(***************************************************************************)
BadgeWasEarned ==
  \A w \in Wallets, b \in Milestones : balance[w][b] > 0 =>
    \E s \in Students : w \in linked[s] /\ Cardinality(progress[s]) >= b

(***************************************************************************)
(* Safety: the bot grants the role of a milestone only when a wallet of    *)
(* the student holds the badge on the chain (approve-day).                 *)
(***************************************************************************)
RoleIsBacked ==
  \A s \in Students : \A b \in roles[s] : \E w \in linked[s] : balance[w][b] > 0

\* The service's transactions that wait to be mined.
Unmined == {i \in DOMAIN pool : pool[i] \notin ForeignTxs /\ pool[i].by \in Approvals}

(***************************************************************************)
(* Safety, the promise chain of badge.js: of the requests the bot still    *)
(* waits for at most one has a transaction to be mined, and one left       *)
(* behind by an error of the node, a timeout or a crash is never reported  *)
(* as a success.                                                           *)
(***************************************************************************)
OneTxAtOnce ==
  /\ Cardinality({i \in Unmined : approval[pool[i].by].pc = "reply"}) <= 1
  /\ \A i \in Unmined : /\ approval[pool[i].by].pc \in {"reply", "done"}
                        /\ approval[pool[i].by].answer # "minted"

(***************************************************************************)
(* Documented, badge.js: "FILA: uma tx por vez -> nunca mais corrida de    *)
(* nonce".  No two transactions of the service wait to be mined at once.   *)
(***************************************************************************)
QueueIsSerial == Cardinality(Unmined) <= 1

Owner(a) == approval[a].student

(***************************************************************************)
(* Safety, README.md: the bot, "ao bater 7/14/21", has the badge minted.   *)
(* No milestone is passed in silence: once no approval is at work, a       *)
(* student with b days has the badge, or a moderator was told, of that     *)
(* very milestone, that it failed or waits for a wallet.                   *)
(***************************************************************************)
NoSilentMiss ==
  Handling = {} => \A s \in Students, b \in Milestones :
    Cardinality(progress[s]) >= b =>
      \/ \E w \in linked[s] : balance[w][b] > 0
      \/ \E a \in Approvals : /\ approval[a] # Idle /\ Owner(a) = s /\ approval[a].count = b
                              /\ approval[a].answer \in {"failed", "unlinked"}

(***************************************************************************)
(* Liveness: a request in the promise chain is answered, whatever becomes  *)
(* of the requests before it (the catch of POST /mint-badge).              *)
(***************************************************************************)
MintAnswered == \A a \in Approvals : approval[a].pc = "reply" ~> approval[a].pc # "reply"
=============================================================================
