--------------------------- MODULE BadgeFlowProofs ----------------------------
(***************************************************************************)
(* Proofs about BadgeFlow, for any number of students, approvals, crashes  *)
(* and other senders: roles are backed by badges, badges were earned, of   *)
(* the requests waited for at most one has a transaction to be mined, one  *)
(* left behind is never reported minted, and no badge is minted twice.     *)
(***************************************************************************)
EXTENDS BadgeFlow, FiniteSetTheorems, TLAPS

ApprovalPcs == {"sadd", "scard", "get", "post", "reply", "role", "done"}
Answers == {"none", "progress", "unlinked", "failed", "minted"}
Approving == [pc : ApprovalPcs, student : Students, day : Days, count : Nat,
              wallet : Wallets \cup {NoWallet}, answer : Answers]
JobPcs == {"check", "incr", "count", "send", "wait", "balance"}
Jobs == [pc : JobPcs, of : Minting, nonce : Nat, at : Nat, receipt : {"none", "ok", "reverted"}]
Scripting == [pc : {"incr", "count", "send", "done"}, wallet : Wallets,
              badge : Milestones \cup {0}, nonce : Nat, at : Nat]

\* A handler at a milestone: the days were there, and the wallet was linked.
Approved(p) ==
  /\ p.pc \in {"get", "post", "reply", "role"} =>
       p.count \in Milestones /\ Cardinality(progress[p.student]) >= p.count
  /\ p.pc \in {"post", "reply", "role"} => p.wallet \in Wallets /\ p.wallet \in linked[p.student]

\* What is asked of the service is what an approval asked for.
Asked(m) ==
  /\ m.by \in Approvals
  /\ LET p == approval[m.by] IN
       /\ p.pc \in {"reply", "role", "done"}
       /\ m.wallet = p.wallet /\ m.badge = p.count
       /\ m.wallet \in linked[p.student]
       /\ Cardinality(progress[p.student]) >= m.badge

ByService(tx) == tx \notin ForeignTxs /\ tx.by \in Approvals

Requested ==
  /\ \A i \in DOMAIN chain : Asked(chain[i])
  /\ job # Idle => Asked(job.of)
  /\ \A i \in DOMAIN pool : ByService(pool[i]) => Asked(pool[i])

\* A receipt of success, or the role of an approval, means the badge is there.
Backed ==
  /\ job # Idle /\ (job.receipt = "ok" \/ job.pc = "balance") => Owned(job.of) > 0 /\ job.receipt = "ok"
  /\ \A a \in Approvals : approval[a].pc = "role" => balance[approval[a].wallet][approval[a].count] > 0
  /\ RoleIsBacked

LinkWasLinked == \A s \in Students : link[s] # NoWallet => link[s] \in linked[s]

IInv ==
  /\ TypeOK
  /\ LinkWasLinked
  /\ \A a \in Approvals : Approved(approval[a])
  /\ Requested
  /\ Backed

-----------------------------------------------------------------------------
LEMMA InitIInv == Init => IInv
<1> SUFFICES ASSUME Init PROVE IInv
  OBVIOUS
<1>1. TypeOK
  BY BadgeAssumption DEF Init, TypeOK, Idle
<1>2. LinkWasLinked /\ Requested /\ Backed
  BY DEF Init, LinkWasLinked, Requested, Backed, RoleIsBacked, Idle
<1>3. \A a \in Approvals : Approved(approval[a])
  BY DEF Init, Approved, Idle
<1> QED BY <1>1, <1>2, <1>3 DEF IInv

LEMMA Types == ASSUME TypeOK
               PROVE  /\ approval \in [Approvals -> {Idle} \cup Approving]
                      /\ job = Idle \/ job \in Jobs
                      /\ script \in [Scripts -> {Idle} \cup Scripting]
                      /\ progress \in [Students -> SUBSET Days] /\ linked \in [Students -> SUBSET Wallets]
                      /\ link \in [Students -> Wallets \cup {NoWallet}] /\ roles \in [Students -> SUBSET Milestones]
                      /\ chain \in Seq(Minting) /\ pool \in Seq(Tx \cup ForeignTxs)
                      /\ balance \in [Wallets -> [Milestones -> Nat]]
                      /\ counter \in Nat /\ pending \in Nat /\ foreign \subseteq ForeignTxs /\ used \subseteq Nat
  BY DEF TypeOK, Approving, ApprovalPcs, Answers, Jobs, JobPcs, Scripting

-----------------------------------------------------------------------------
(* The handlers of the bot *)

\* How one handler may go on.
Keeps(p, q) == q.student = p.student /\ q.count = p.count /\ q.wallet = p.wallet
Move(p, q) ==
  \/ p.pc \in {"idle", "sadd"} /\ q.pc \in {"sadd", "scard"}
  \/ /\ p.pc = "scard" /\ q.pc = "get" /\ q.student = p.student
     /\ q.count = Cardinality(progress[p.student]) /\ q.count \in Milestones
  \/ /\ p.pc = "get" /\ q.pc = "post" /\ q.student = p.student /\ q.count = p.count
     /\ q.wallet = link[p.student] /\ q.wallet # NoWallet
  \/ p.pc = "post" /\ q.pc = "reply" /\ Keeps(p, q)
  \/ p.pc = "reply" /\ q.pc = "role" /\ Keeps(p, q) /\ balance[p.wallet][p.count] > 0
  \/ p.pc \in ApprovalPcs /\ q.pc = "done" /\ (p.pc # "scard" => Keeps(p, q))

Moving ==
  /\ approval' \in [Approvals -> {Idle} \cup Approving]
  /\ \A a \in Approvals : \/ approval'[a] = approval[a]
                          \/ approval'[a] \in Approving /\ Move(approval[a], approval'[a])

\* One handler goes on and the others stay.
Goes(a, p) == /\ approval' \in [Approvals -> {Idle} \cup Approving]
              /\ approval'[a] = p
              /\ \A b \in Approvals \ {a} : approval'[b] = approval[b]

LEMMA OneGoes ==
  ASSUME TypeOK, NEW a \in Approvals, NEW p \in Approving, approval' = [approval EXCEPT ![a] = p]
  PROVE  Goes(a, p)
  BY Types DEF Goes

LEMMA GoesMoves ==
  ASSUME NEW a \in Approvals, NEW p \in Approving, Goes(a, p), Move(approval[a], p) PROVE Moving
  BY DEF Goes, Moving

LEMMA Working == ASSUME TypeOK, NEW a \in Approvals, approval[a].pc \in ApprovalPcs PROVE approval[a] \in Approving
  BY Types DEF Idle, ApprovalPcs

\* Records of handlers, changed as the actions do.
LEMMA PcChanged ==
  ASSUME NEW p \in Approving, NEW pc \in ApprovalPcs
  PROVE  LET q == [p EXCEPT !.pc = pc] IN q \in Approving /\ q.pc = pc /\ Keeps(p, q)
BY DEF Approving, Keeps

LEMMA AnswerChanged ==
  ASSUME NEW p \in Approving, NEW pc \in ApprovalPcs, NEW answer \in Answers
  PROVE  LET q == [p EXCEPT !.pc = pc, !.answer = answer] IN q \in Approving /\ q.pc = pc /\ Keeps(p, q)
BY DEF Approving, Keeps

LEMMA GotoGoes ==
  ASSUME TypeOK, NEW a \in Approvals, NEW pc \in ApprovalPcs, approval[a].pc \in ApprovalPcs, Goto(a, pc)
  PROVE  Goes(a, [approval[a] EXCEPT !.pc = pc])
<1>1. [approval[a] EXCEPT !.pc = pc] \in Approving
  BY Working, PcChanged
<1>2. approval' = [approval EXCEPT ![a] = [approval[a] EXCEPT !.pc = pc]]
  BY DEF Goto
<1> QED BY <1>1, <1>2, OneGoes

LEMMA AnswerGoes ==
  ASSUME TypeOK, NEW a \in Approvals, NEW text \in Answers, approval[a].pc \in ApprovalPcs, Answer(a, text)
  PROVE  Goes(a, [approval[a] EXCEPT !.pc = "done", !.answer = text])
<1>1. [approval[a] EXCEPT !.pc = "done", !.answer = text] \in Approving
  BY Working, AnswerChanged DEF ApprovalPcs
<1>2. approval' = [approval EXCEPT ![a] = [approval[a] EXCEPT !.pc = "done", !.answer = text]]
  BY DEF Answer
<1> QED BY <1>1, <1>2, OneGoes

LEMMA GotoMoves ==
  ASSUME TypeOK, NEW a \in Approvals, NEW pc \in {"reply", "role", "scard"},
         (pc = "scard" /\ approval[a].pc = "sadd") \/ (pc = "reply" /\ approval[a].pc = "post") 
         \/ (pc = "role" /\ approval[a].pc = "reply" /\ balance[approval[a].wallet][approval[a].count] > 0),
         approval[a].pc \in ApprovalPcs, Goto(a, pc)
  PROVE  Moving
<1> DEFINE q == [approval[a] EXCEPT !.pc = pc]
<1>1. pc \in ApprovalPcs
  BY DEF ApprovalPcs
<1>2. q \in Approving /\ q.pc = pc /\ Keeps(approval[a], q)
  BY <1>1, Working, PcChanged
<1>3. Goes(a, q)
  BY <1>1, GotoGoes
<1> HIDE DEF q
<1>4. Move(approval[a], q)
  BY <1>2 DEF Move
<1> QED BY <1>2, <1>3, <1>4, GoesMoves

LEMMA AnswerMoves ==
  ASSUME TypeOK, NEW a \in Approvals, NEW text \in Answers, approval[a].pc \in ApprovalPcs, Answer(a, text)
  PROVE  Moving
<1> DEFINE q == [approval[a] EXCEPT !.pc = "done", !.answer = text]
<1>1. q \in Approving /\ q.pc = "done" /\ Keeps(approval[a], q)
  BY Working, AnswerChanged DEF ApprovalPcs
<1>2. Goes(a, q)
  BY AnswerGoes
<1> HIDE DEF q
<1>3. Move(approval[a], q)
  BY <1>1 DEF Move
<1> QED BY <1>1, <1>2, <1>3, GoesMoves

LEMMA RespondMoves ==
  ASSUME TypeOK, NEW a \in Approvals, NEW ok, Respond(a, ok),
         ok => balance[approval[a].wallet][approval[a].count] > 0
  PROVE  Moving
<1>1. CASE UNCHANGED approval
  BY <1>1, Types DEF Moving
<1>2. CASE approval[a].pc = "reply" /\ ((Goto(a, "role") /\ ok) \/ Answer(a, "failed"))
  BY <1>2, GotoMoves, AnswerMoves DEF ApprovalPcs, Answers
<1> QED BY <1>1, <1>2 DEF Respond

LEMMA StaysMoves == ASSUME TypeOK, approval' = approval PROVE Moving
  BY Types DEF Moving

-----------------------------------------------------------------------------
(* The steps of the system, and what each changes of the handlers *)

ServiceMoves == ServiceStep \/ JobError
BotMoves == \/ \E a \in Approvals : Approve(a) \/ BotStep(a) \/ Timeout(a)
            \/ BotCrash
Elsewhere == \/ \E s \in Students, w \in Wallets : Link(s, w)
             \/ \E x \in Scripts : ScriptStart(x) \/ ScriptStep(x)
             \/ \E f \in ForeignTxs : ForeignSend(f)
             \/ UNCHANGED vars

LEMMA JobHere ==
  ASSUME JobCheck \/ JobIncr \/ JobCount \/ JobSend \/ JobWait \/ JobBalance \/ JobError
  PROVE  job # Idle
<1>1. CASE JobError
  BY <1>1 DEF JobError
<1>2. CASE JobCheck \/ JobIncr \/ JobCount \/ JobSend \/ JobWait \/ JobBalance
  <2>1. job.pc \in JobPcs
    BY <1>2 DEF JobCheck, JobIncr, JobCount, JobSend, JobWait, JobBalance, JobPcs
  <2> QED BY <2>1 DEF Idle, JobPcs
<1> QED BY <1>1, <1>2

LEMMA StepCases ==
  ASSUME [Next]_vars
  PROVE  Mine \/ BotMoves \/ ServiceMoves \/ ServiceCrash \/ Elsewhere
BY DEF Next, BotMoves, ServiceMoves, Elsewhere

LEMMA ElsewhereKeeps ==
  ASSUME Elsewhere PROVE UNCHANGED <<progress, approval, roles, chain, job, balance>>
<1>1. ASSUME NEW s \in Students, NEW w \in Wallets, Link(s, w)
      PROVE  UNCHANGED <<progress, approval, roles, chain, job, balance>>
  BY <1>1 DEF Link, serviceVars, contractVars
<1>2. ASSUME NEW x \in Scripts, ScriptStart(x) \/ ScriptStep(x)
      PROVE  UNCHANGED <<progress, approval, roles, chain, job, balance>>
  BY <1>2 DEF ScriptStart, ScriptStep, ScriptIncr, ScriptCount, ScriptSend, botVars, serviceVars, contractVars
<1>3. ASSUME NEW f \in ForeignTxs, ForeignSend(f)
      PROVE  UNCHANGED <<progress, approval, roles, chain, job, balance>>
  BY <1>3 DEF ForeignSend, botVars, serviceVars, contractVars
<1>4. CASE UNCHANGED vars
  BY <1>4 DEF vars, botVars, serviceVars, contractVars
<1> QED BY <1>1, <1>2, <1>3, <1>4 DEF Elsewhere

LEMMA DaysFinite ==
  ASSUME TypeOK, NEW s \in Students
  PROVE  IsFiniteSet(progress[s]) /\ Cardinality(progress[s]) \in Nat
<1>1. progress[s] \subseteq Days
  BY Types
<1> QED BY <1>1, BadgeAssumption, FS_Subset, FS_CardinalityType

LEMMA BotMoving == ASSUME TypeOK, BotMoves PROVE Moving
<1>1. ASSUME NEW a \in Approvals, Approve(a) PROVE Moving
  <2>1. PICK s \in Students, d \in Days : approval' = [approval EXCEPT ![a] =
          [pc |-> "sadd", student |-> s, day |-> d, count |-> 0, wallet |-> NoWallet, answer |-> "none"]]
    BY <1>1 DEF Approve
  <2> DEFINE q == [pc |-> "sadd", student |-> s, day |-> d, count |-> 0, wallet |-> NoWallet, answer |-> "none"]
  <2>2. q \in Approving /\ q.pc = "sadd"
    BY DEF Approving, ApprovalPcs, Answers
  <2>3. Goes(a, q)
    BY <2>1, <2>2, OneGoes
  <2> HIDE DEF q
  <2>4. approval[a].pc = "idle"
    BY <1>1 DEF Approve, Idle
  <2>5. Move(approval[a], q)
    BY <2>2, <2>4 DEF Move
  <2> QED BY <2>2, <2>3, <2>5, GoesMoves
<1>2. ASSUME NEW a \in Approvals, ProgressAdd(a) \/ Post(a) \/ Timeout(a) \/ GrantRole(a) PROVE Moving
  <2>1. \/ approval[a].pc = "sadd" /\ Goto(a, "scard")
        \/ approval[a].pc = "post" /\ Goto(a, "reply")
        \/ approval[a].pc \in {"reply", "role"} /\ \E text \in Answers : Answer(a, text)
    BY <1>2 DEF ProgressAdd, Post, Timeout, GrantRole, Answers
  <2> QED BY <2>1, GotoMoves, AnswerMoves DEF ApprovalPcs
<1>3. ASSUME NEW a \in Approvals, ProgressCount(a) PROVE Moving
  <2> DEFINE n == Cardinality(progress[approval[a].student])
             pc == IF n \in Milestones THEN "get" ELSE "done"
             text == IF n \in Milestones THEN "none" ELSE "progress"
             q == [approval[a] EXCEPT !.count = n, !.pc = pc, !.answer = text]
  <2>1. /\ approval[a].pc = "scard" /\ approval[a] \in Approving /\ approval[a].student \in Students
        /\ approval' = [approval EXCEPT ![a] = q]
    BY <1>3, Working DEF ProgressCount, ApprovalPcs, Approving
  <2>2. n \in Nat /\ pc \in ApprovalPcs /\ text \in Answers /\ pc \in {"get", "done"}
        /\ (pc = "get" => n \in Milestones)
    BY <2>1, DaysFinite DEF ApprovalPcs, Answers
  <2> HIDE DEF n, pc, text
  <2>3. q \in Approving /\ q.pc = pc /\ q.student = approval[a].student /\ q.count = n
    BY <2>1, <2>2 DEF Approving
  <2>4. Goes(a, q)
    BY <2>1, <2>3, OneGoes
  <2> HIDE DEF q
  <2>5. Move(approval[a], q)
    BY <2>1, <2>2, <2>3 DEF Move, n, ApprovalPcs
  <2> QED BY <2>3, <2>4, <2>5, GoesMoves
<1>4. ASSUME NEW a \in Approvals, GetLink(a) PROVE Moving
  <2> DEFINE w == link[approval[a].student]
             q == [approval[a] EXCEPT !.pc = "post", !.wallet = w]
  <2>1. approval[a].pc = "get" /\ approval[a] \in Approving /\ w \in Wallets \cup {NoWallet}
    BY <1>4, Working, Types DEF GetLink, ApprovalPcs, Approving
  <2>2. CASE w = NoWallet
    BY <1>4, <2>1, <2>2, AnswerMoves DEF GetLink, ApprovalPcs, Answers
  <2>3. CASE w # NoWallet
    <3>1. approval' = [approval EXCEPT ![a] = q]
      BY <1>4, <2>3 DEF GetLink
    <3>2. q \in Approving /\ q.pc = "post" /\ q.student = approval[a].student /\ q.count = approval[a].count
          /\ q.wallet = w
      BY <2>1, <2>3 DEF Approving, ApprovalPcs
    <3>3. Goes(a, q)
      BY <3>1, <3>2, OneGoes
    <3> HIDE DEF q
    <3> QED BY <2>1, <2>3, <3>2, <3>3, GoesMoves DEF Move
  <2> QED BY <2>2, <2>3
<1>5. CASE BotCrash
  <2>1. approval' = [a \in Approvals |->
          IF a \in Handling THEN [approval[a] EXCEPT !.pc = "done"] ELSE approval[a]]
    BY <1>5 DEF BotCrash
  <2>2. ASSUME NEW a \in Handling
        PROVE  /\ a \in Approvals /\ approval[a].pc \in ApprovalPcs
               /\ LET q == [approval[a] EXCEPT !.pc = "done"] IN
                    q \in Approving /\ q.pc = "done" /\ Keeps(approval[a], q)
    <3>1. a \in Approvals /\ approval[a] \in Approving
      BY Types DEF Handling, Idle, ApprovalPcs
    <3> QED BY <3>1, PcChanged DEF ApprovalPcs, Approving
  <2>3. ASSUME NEW a \in Approvals
        PROVE  /\ approval'[a] \in {Idle} \cup Approving
               /\ approval'[a] = approval[a] \/ (approval'[a] \in Approving /\ Move(approval[a], approval'[a]))
    <3>1. CASE a \in Handling
      <4> DEFINE q == [approval[a] EXCEPT !.pc = "done"]
      <4>1. approval'[a] = q /\ q \in Approving /\ q.pc = "done" /\ Keeps(approval[a], q)
            /\ approval[a].pc \in ApprovalPcs
        BY <2>1, <2>2, <3>1
      <4> HIDE DEF q
      <4> QED BY <4>1 DEF Move
    <3>2. CASE a \notin Handling
      BY <2>1, <3>2, Types
    <3> QED BY <3>1, <3>2
  <2>4. approval' \in [Approvals -> {Idle} \cup Approving]
    BY <2>1, <2>3
  <2> QED BY <2>3, <2>4 DEF Moving
<1> QED BY <1>1, <1>2, <1>3, <1>4, <1>5 DEF BotMoves, BotStep

LEMMA ServiceMoving ==
  ASSUME TypeOK, job # Idle => Asked(job.of), Backed, ServiceMoves \/ ServiceCrash PROVE Moving
<1>1. CASE JobBegin
  <2>1. approval' = approval \/ (chain # <<>> /\ Respond(Head(chain).by, FALSE))
    BY <1>1 DEF JobBegin
  <2>2. chain # <<>> => Head(chain) \in Minting
    BY Types
  <2> QED BY <2>1, <2>2, RespondMoves, StaysMoves DEF Minting
<1>2. CASE JobCheck \/ JobIncr \/ JobCount \/ JobSend \/ JobWait \/ JobBalance \/ JobError
  <2>2. job # Idle
    BY <1>2, JobHere
  <2>3. \/ approval' = approval
        \/ Respond(job.of.by, TRUE) /\ Owned(job.of) > 0
        \/ Respond(job.of.by, FALSE)
    BY <1>2, <2>2 DEF JobCheck, JobIncr, JobCount, JobSend, JobWait, JobBalance, JobError, Finish, botVars, Backed
  <2> QED BY <2>2, <2>3, RespondMoves, StaysMoves DEF Asked, Owned
<1>3. CASE ServiceCrash
  <2>1. approval' = [a \in Approvals |-> IF approval[a].pc = "reply"
          THEN [approval[a] EXCEPT !.pc = "done", !.answer = "failed"] ELSE approval[a]]
    BY <1>3 DEF ServiceCrash
  <2>2. ASSUME NEW a \in Approvals
        PROVE  /\ approval'[a] \in {Idle} \cup Approving
               /\ approval'[a] = approval[a] \/ (approval'[a] \in Approving /\ Move(approval[a], approval'[a]))
    <3>1. CASE approval[a].pc = "reply"
      <4> DEFINE q == [approval[a] EXCEPT !.pc = "done", !.answer = "failed"]
      <4>1. approval'[a] = q /\ q \in Approving /\ q.pc = "done" /\ Keeps(approval[a], q)
        BY <2>1, <3>1, Working, AnswerChanged DEF ApprovalPcs, Answers
      <4> HIDE DEF q
      <4> QED BY <3>1, <4>1 DEF Move, ApprovalPcs
    <3>2. CASE approval[a].pc # "reply"
      BY <2>1, <3>2, Types
    <3> QED BY <3>1, <3>2
  <2>3. approval' \in [Approvals -> {Idle} \cup Approving]
    BY <2>1, <2>2
  <2> QED BY <2>2, <2>3 DEF Moving
<1> QED BY <1>1, <1>2, <1>3 DEF ServiceMoves, ServiceStep

LEMMA AllMoving == ASSUME TypeOK, Requested, Backed, [Next]_vars PROVE Moving
<1>1. CASE Mine
  BY <1>1, StaysMoves DEF Mine, botVars
<1> QED BY <1>1, BotMoving, ServiceMoving, ElsewhereKeeps, StaysMoves, StepCases DEF Requested

-----------------------------------------------------------------------------
(* Types *)

LEMMA AppendType ==
  ASSUME NEW S, NEW q \in Seq(S), NEW e \in S PROVE Append(q, e) \in Seq(S)
  OBVIOUS

LEMMA TailType == ASSUME NEW S, NEW q \in Seq(S), q # <<>> PROVE Tail(q) \in Seq(S) /\ Head(q) \in S
  OBVIOUS

\* What the bot changes.
BotTyped ==
  /\ progress' \in [Students -> SUBSET Days] /\ linked' \in [Students -> SUBSET Wallets]
  /\ link' \in [Students -> Wallets \cup {NoWallet}] /\ roles' \in [Students -> SUBSET Milestones]

ServiceTyped ==
  /\ chain' \in Seq(Minting)
  /\ job' = Idle \/ job' \in Jobs

AccountTyped ==
  /\ counter' \in Nat /\ pending' \in Nat
  /\ script' \in [Scripts -> {Idle} \cup Scripting]
  /\ pool' \in Seq(Tx \cup ForeignTxs) /\ foreign' \subseteq ForeignTxs

ContractTyped == used' \subseteq Nat /\ balance' \in [Wallets -> [Milestones -> Nat]]

LEMMA TypeParts ==
  ASSUME Moving, BotTyped, ServiceTyped, AccountTyped, ContractTyped PROVE TypeOK'
  BY DEF Moving, BotTyped, ServiceTyped, AccountTyped, ContractTyped, TypeOK, Approving, ApprovalPcs, Answers,
         Jobs, JobPcs, Scripting

LEMMA StayTyped ==
  ASSUME TypeOK
  PROVE  /\ UNCHANGED <<progress, link, linked, roles>> => BotTyped
         /\ UNCHANGED serviceVars => ServiceTyped
         /\ UNCHANGED <<counter, script, accountVars>> => AccountTyped
         /\ UNCHANGED contractVars => ContractTyped
  BY Types DEF BotTyped, ServiceTyped, AccountTyped, ContractTyped, serviceVars, accountVars, contractVars

LEMMA BotType ==
  ASSUME TypeOK, \A a \in Approvals : Approved(approval[a]), BotMoves
  PROVE  BotTyped /\ ServiceTyped /\ AccountTyped /\ ContractTyped
<1>1. ASSUME NEW a \in Approvals, Approve(a) \/ ProgressCount(a) \/ GetLink(a) \/ Timeout(a)
      PROVE  UNCHANGED <<progress, link, linked, roles, serviceVars, counter, script, accountVars, contractVars>>
  BY <1>1 DEF Approve, ProgressCount, GetLink, Timeout
<1>2. CASE BotCrash
  BY <1>2, StayTyped DEF BotCrash
<1>3. ASSUME NEW a \in Approvals, ProgressAdd(a) PROVE BotTyped /\ ServiceTyped /\ AccountTyped /\ ContractTyped
  <2>1. approval[a] \in Approving
    BY <1>3, Working DEF ProgressAdd, ApprovalPcs
  <2>2. BotTyped
    BY <1>3, <2>1, Types DEF ProgressAdd, BotTyped, Approving
  <2> QED BY <1>3, <2>2, StayTyped DEF ProgressAdd
<1>4. ASSUME NEW a \in Approvals, Post(a) PROVE BotTyped /\ ServiceTyped /\ AccountTyped /\ ContractTyped
  <2>1. approval[a].pc = "post" /\ approval[a].wallet \in Wallets /\ approval[a].count \in Milestones
    BY <1>4 DEF Post, Approved
  <2>2. [by |-> a, wallet |-> approval[a].wallet, badge |-> approval[a].count] \in Minting
    BY <2>1 DEF Minting
  <2>3. chain' \in Seq(Minting)
    BY <1>4, <2>2, Types, AppendType DEF Post
  <2>4. ServiceTyped
    BY <1>4, <2>3, Types DEF Post, ServiceTyped
  <2> QED BY <1>4, <2>4, StayTyped DEF Post
<1>5. ASSUME NEW a \in Approvals, GrantRole(a) PROVE BotTyped /\ ServiceTyped /\ AccountTyped /\ ContractTyped
  <2>1. approval[a] \in Approving /\ approval[a].pc = "role"
    BY <1>5, Working DEF GrantRole, ApprovalPcs
  <2>2. approval[a].student \in Students /\ approval[a].count \in Milestones
    BY <2>1 DEF Approved, Approving
  <2>3. BotTyped
    BY <1>5, <2>2, Types DEF GrantRole, BotTyped
  <2> QED BY <1>5, <2>3, StayTyped DEF GrantRole
<1> QED BY <1>1, <1>2, <1>3, <1>4, <1>5, StayTyped DEF BotMoves, BotStep

LEMMA ServiceType ==
  ASSUME TypeOK, ServiceMoves \/ ServiceCrash
  PROVE  BotTyped /\ ServiceTyped /\ AccountTyped /\ ContractTyped
<1>1. CASE JobBegin
  <2>1. chain \in Seq(Minting) /\ chain # <<>> /\ chain' = Tail(chain)
    BY <1>1, Types DEF JobBegin
  <2>2. chain' \in Seq(Minting) /\ Head(chain) \in Minting
    BY <2>1, TailType
  <2> DEFINE j == [pc |-> "check", of |-> Head(chain), nonce |-> 0, at |-> 0, receipt |-> "none"]
  <2>3. j \in Jobs
    BY <2>2 DEF Jobs, JobPcs
  <2> HIDE DEF j
  <2>4. job' = Idle \/ job' = j
    BY <1>1 DEF JobBegin, j
  <2> QED BY <1>1, <2>2, <2>3, <2>4, StayTyped DEF JobBegin, ServiceTyped
<1>2. ASSUME JobCheck \/ JobIncr \/ JobCount \/ JobSend \/ JobWait \/ JobBalance \/ JobError
      PROVE  job \in Jobs
  <2>1. job # Idle
    BY <1>2, JobHere
  <2> QED BY <2>1, Types
<1>3. ASSUME JobCheck \/ JobIncr \/ JobCount \/ JobWait \/ JobBalance \/ JobError
      PROVE  BotTyped /\ ServiceTyped /\ AccountTyped /\ ContractTyped
  <2>1. job \in Jobs /\ counter \in Nat /\ counter + 1 \in Nat /\ pending \in Nat
    BY <1>2, <1>3, Types
  <2>2. \/ job' = Idle
        \/ \E pc \in JobPcs : job' = [job EXCEPT !.pc = pc]
        \/ job' = [job EXCEPT !.pc = "count", !.nonce = counter + 1]
        \/ job' = [job EXCEPT !.pc = "send", !.at = pending]
    BY <1>3 DEF JobCheck, JobIncr, JobCount, JobWait, JobBalance, JobError, Finish, JobPcs
  <2>3. job' = Idle \/ job' \in Jobs
    BY <2>1, <2>2 DEF Jobs, JobPcs
  <2>4. UNCHANGED <<progress, link, linked, roles, chain, script, accountVars, contractVars>>
    <3>1. ASSUME JobIncr \/ JobCount
          PROVE  UNCHANGED <<progress, link, linked, roles, chain, script, accountVars, contractVars>>
      BY <3>1 DEF JobIncr, JobCount, botVars
    <3>2. ASSUME JobCheck \/ JobWait \/ JobBalance \/ JobError
          PROVE  UNCHANGED <<progress, link, linked, roles, chain, script, accountVars, contractVars>>
      BY <3>2 DEF JobCheck, JobWait, JobBalance, JobError
    <3> QED BY <1>3, <3>1, <3>2
  <2>5. counter' \in Nat
    BY <1>3, <2>1 DEF JobCheck, JobIncr, JobCount, JobWait, JobBalance, JobError
  <2> QED BY <2>3, <2>4, <2>5, Types DEF BotTyped, ServiceTyped, AccountTyped, ContractTyped, accountVars, contractVars
<1>4. CASE JobSend
  <2> DEFINE tx == [by |-> job.of.by, wallet |-> job.of.wallet, badge |-> job.of.badge, nonce |-> job.nonce]
  <2>1. job \in Jobs
    BY <1>2, <1>4
  <2>2. tx \in Tx
    BY <2>1 DEF Jobs, Minting, Tx
  <2> HIDE DEF tx
  <2>3. CASE Submit(tx) /\ job' = [job EXCEPT !.pc = "wait"] /\ UNCHANGED <<approval, foreign>>
    <3>1. pool' \in Seq(Tx \cup ForeignTxs) /\ pending' \in Nat
      BY <2>2, <2>3, Types, AppendType DEF Submit
    <3>2. job' \in Jobs
      BY <2>1, <2>3 DEF Jobs, JobPcs
    <3>3. UNCHANGED <<progress, link, linked, roles, chain, counter, script, contractVars>>
      BY <1>4 DEF JobSend
    <3> QED BY <2>3, <3>1, <3>2, <3>3, Types DEF BotTyped, ServiceTyped, AccountTyped, ContractTyped, contractVars
  <2>4. CASE Finish(FALSE) /\ UNCHANGED accountVars
    <3>1. job' = Idle /\ UNCHANGED <<progress, link, linked, roles, chain, counter, script, accountVars, contractVars>>
      BY <1>4, <2>4 DEF JobSend, Finish
    <3> QED BY <3>1, Types DEF BotTyped, ServiceTyped, AccountTyped, ContractTyped, contractVars, accountVars
  <2> QED BY <1>4, <2>3, <2>4 DEF JobSend, tx
<1>5. CASE ServiceCrash
  <2>1. chain' = <<>> /\ job' = Idle
    BY <1>5 DEF ServiceCrash
  <2>2. <<>> \in Seq(Minting)
    OBVIOUS
  <2> QED BY <1>5, <2>1, <2>2, StayTyped DEF ServiceCrash, ServiceTyped
<1> QED BY <1>1, <1>3, <1>4, <1>5 DEF ServiceMoves, ServiceStep

LEMMA MineType ==
  ASSUME TypeOK, Mine
  PROVE  BotTyped /\ ServiceTyped /\ AccountTyped /\ ContractTyped
<1> DEFINE tx == Head(pool)
<1>1. pool' \in Seq(Tx \cup ForeignTxs) /\ tx \in Tx \cup ForeignTxs
  BY Types, TailType DEF Mine
<1>2. job' = job \/ \E status \in {"ok", "reverted"} : job.pc = "wait" /\ job' = [job EXCEPT !.receipt = status]
  BY DEF Mine, Receipt
<1>3. job' = Idle \/ job' \in Jobs
  BY <1>2, Types DEF Jobs, Idle
<1>4. ContractTyped
  <2>1. CASE UNCHANGED contractVars
    BY <2>1, StayTyped
  <2>2. CASE ~UNCHANGED contractVars
    <3>1. /\ tx \in Tx /\ tx.badge \in Milestones /\ used' = used \cup {tx.nonce}
          /\ balance' = [balance EXCEPT ![tx.wallet][tx.badge] = @ + 1]
      BY <1>1, <2>2 DEF Mine, Accepts
    <3> QED BY <3>1, Types DEF ContractTyped, Tx
  <2> QED BY <2>1, <2>2
<1> HIDE DEF tx
<1> QED BY <1>1, <1>3, <1>4, Types DEF Mine, botVars, BotTyped, ServiceTyped, AccountTyped

LEMMA ElsewhereType ==
  ASSUME TypeOK, Elsewhere
  PROVE  BotTyped /\ ServiceTyped /\ AccountTyped /\ ContractTyped
<1>1. ASSUME NEW s \in Students, NEW w \in Wallets, Link(s, w)
      PROVE  BotTyped /\ UNCHANGED <<serviceVars, counter, script, accountVars, contractVars>>
  BY <1>1, Types DEF Link, BotTyped
<1>2. ASSUME NEW x \in Scripts, ScriptStart(x)
      PROVE  AccountTyped /\ UNCHANGED <<botVars, serviceVars, contractVars>>
  <2>1. script' \in [Scripts -> {Idle} \cup Scripting]
    BY <1>2, Types DEF ScriptStart, Scripting
  <2> QED BY <1>2, <2>1, Types DEF ScriptStart, AccountTyped, accountVars
<1>3. ASSUME NEW x \in Scripts, script[x].pc \in {"incr", "count", "send", "done"} PROVE script[x] \in Scripting
  BY <1>3, Types DEF Idle
<1>4. ASSUME NEW x \in Scripts, ScriptIncr(x) \/ ScriptCount(x)
      PROVE  AccountTyped /\ UNCHANGED <<botVars, serviceVars, contractVars>>
  <2>1. script[x] \in Scripting /\ counter' \in Nat /\ pending \in Nat /\ counter + 1 \in Nat
    BY <1>3, <1>4, Types DEF ScriptIncr, ScriptCount
  <2> DEFINE p == script[x]
  <2>1a. [p EXCEPT !.pc = "count", !.nonce = counter + 1] \in Scripting /\ [p EXCEPT !.pc = "send", !.at = pending] \in Scripting
    BY <2>1 DEF Scripting
  <2>1b. \/ script' = [script EXCEPT ![x] = [p EXCEPT !.pc = "count", !.nonce = counter + 1]]
        \/ script' = [script EXCEPT ![x] = [p EXCEPT !.pc = "send", !.at = pending]]
    BY <1>4 DEF ScriptIncr, ScriptCount
  <2>2. script' \in [Scripts -> {Idle} \cup Scripting]
    BY <2>1a, <2>1b, Types
  <2> QED BY <1>4, <2>1, <2>2, Types DEF ScriptIncr, ScriptCount, AccountTyped, accountVars
<1>5. ASSUME NEW x \in Scripts, ScriptSend(x)
      PROVE  AccountTyped /\ UNCHANGED <<botVars, serviceVars, contractVars>>
  <2> DEFINE tx == [by |-> x, wallet |-> script[x].wallet, badge |-> script[x].badge, nonce |-> script[x].nonce]
  <2>1. script[x] \in Scripting
    BY <1>3, <1>5 DEF ScriptSend
  <2>2. script' \in [Scripts -> {Idle} \cup Scripting]
    BY <1>5, <2>1, Types DEF ScriptSend, Scripting
  <2>3. UNCHANGED accountVars \/ (script[x].badge \in Milestones /\ Submit(tx) /\ UNCHANGED foreign)
    BY <1>5 DEF ScriptSend, Accepts
  <2>4. script[x].badge \in Milestones => tx \in Tx
    BY <2>1 DEF Scripting, Tx
  <2> HIDE DEF tx
  <2>5. CASE UNCHANGED accountVars
    BY <1>5, <2>2, <2>5, Types DEF ScriptSend, AccountTyped, accountVars
  <2>6. CASE tx \in Tx /\ Submit(tx) /\ UNCHANGED foreign
    <3>1. pool' \in Seq(Tx \cup ForeignTxs)
      BY <2>6, Types, AppendType DEF Submit
    <3>2. pending' \in Nat
      BY <2>6, Types DEF Submit
    <3> QED BY <1>5, <2>2, <2>6, <3>1, <3>2, Types DEF ScriptSend, AccountTyped
  <2>7. UNCHANGED <<botVars, serviceVars, contractVars>>
    BY <1>5 DEF ScriptSend
  <2> QED BY <2>3, <2>4, <2>5, <2>6, <2>7
<1>6. ASSUME NEW f \in ForeignTxs, ForeignSend(f)
      PROVE  AccountTyped /\ UNCHANGED <<botVars, serviceVars, contractVars>>
  <2>1. pool' \in Seq(Tx \cup ForeignTxs) /\ pending' \in Nat
    BY <1>6, Types, AppendType DEF ForeignSend, Submit
  <2> QED BY <1>6, <2>1, Types DEF ForeignSend, AccountTyped
<1>7. CASE UNCHANGED vars
  BY <1>7, StayTyped DEF vars, botVars
<1>8. UNCHANGED botVars => UNCHANGED <<progress, link, linked, roles>>
  BY DEF botVars
<1>9. UNCHANGED accountVars /\ UNCHANGED <<counter, script>> => UNCHANGED <<counter, script, accountVars>>
  OBVIOUS
<1>10. ASSUME NEW x \in Scripts, ScriptStep(x) PROVE BotTyped /\ ServiceTyped /\ AccountTyped /\ ContractTyped
  BY <1>4, <1>5, <1>8, <1>10, StayTyped DEF ScriptStep
<1> QED BY <1>1, <1>2, <1>6, <1>7, <1>8, <1>9, <1>10, StayTyped DEF Elsewhere

LEMMA TypeStep == ASSUME IInv, [Next]_vars PROVE TypeOK'
<1>1. BotTyped /\ ServiceTyped /\ AccountTyped /\ ContractTyped
  BY BotType, ServiceType, MineType, ElsewhereType, StepCases DEF IInv
<1> QED BY <1>1, AllMoving, TypeParts DEF IInv

-----------------------------------------------------------------------------
(* Days, links and badges only grow *)

Grown == /\ \A s \in Students : linked[s] \subseteq linked'[s]
         /\ \A s \in Students : Cardinality(progress'[s]) >= Cardinality(progress[s])
         /\ \A s \in Students : Cardinality(progress'[s]) \in Nat
         /\ \A w \in Wallets, b \in Milestones : balance'[w][b] >= balance[w][b]

LEMMA SameGrown == ASSUME TypeOK, UNCHANGED <<progress, linked, balance>> PROVE Grown
  BY Types, DaysFinite DEF Grown

LEMMA ServiceKeeps ==
  ASSUME ServiceMoves \/ ServiceCrash
  PROVE  UNCHANGED <<progress, link, linked, roles, used, balance>>
<1>1. ASSUME JobIncr \/ JobCount PROVE UNCHANGED <<progress, link, linked, roles, used, balance>>
  BY <1>1 DEF JobIncr, JobCount, botVars, contractVars
<1>2. ASSUME JobBegin \/ JobCheck \/ JobSend \/ JobWait \/ JobBalance \/ JobError \/ ServiceCrash
      PROVE  UNCHANGED <<progress, link, linked, roles, used, balance>>
  BY <1>2 DEF JobBegin, JobCheck, JobSend, JobWait, JobBalance, JobError, ServiceCrash, contractVars
<1> QED BY <1>1, <1>2 DEF ServiceMoves, ServiceStep

LEMMA BotKeeps ==
  ASSUME BotMoves
  PROVE  /\ UNCHANGED <<link, linked, job, pool, used, balance>>
         /\ UNCHANGED progress \/ \E a \in Approvals : ProgressAdd(a)
         /\ UNCHANGED roles \/ \E a \in Approvals : GrantRole(a)
         /\ UNCHANGED chain \/ \E a \in Approvals : Post(a)
<1>1. CASE BotCrash
  BY <1>1 DEF BotCrash, serviceVars, accountVars, contractVars
<1>2. ASSUME NEW a \in Approvals, Approve(a) \/ ProgressCount(a) \/ GetLink(a) \/ Timeout(a)
      PROVE  UNCHANGED <<progress, link, linked, roles, chain, job, pool, used, balance>>
  BY <1>2 DEF Approve, ProgressCount, GetLink, Timeout, serviceVars, accountVars, contractVars
<1>3. ASSUME NEW a \in Approvals, ProgressAdd(a)
      PROVE  UNCHANGED <<link, linked, roles, chain, job, pool, used, balance>>
  BY <1>3 DEF ProgressAdd, serviceVars, accountVars, contractVars
<1>4. ASSUME NEW a \in Approvals, Post(a)
      PROVE  UNCHANGED <<progress, link, linked, roles, job, pool, used, balance>>
  BY <1>4 DEF Post, accountVars, contractVars
<1>5. ASSUME NEW a \in Approvals, GrantRole(a)
      PROVE  UNCHANGED <<progress, link, linked, chain, job, pool, used, balance>>
  BY <1>5 DEF GrantRole, serviceVars, accountVars, contractVars
<1> QED BY <1>1, <1>2, <1>3, <1>4, <1>5 DEF BotMoves, BotStep

LEMMA Growing == ASSUME TypeOK, [Next]_vars PROVE Grown
<1>1. CASE Mine
  <2> DEFINE tx == Head(pool)
  <2>1. UNCHANGED <<progress, linked>>
    BY <1>1 DEF Mine, botVars
  <2>2. tx \in Tx \cup ForeignTxs
    BY <1>1, Types, TailType DEF Mine
  <2>3. \/ UNCHANGED balance
        \/ tx \in Tx /\ balance' = [balance EXCEPT ![tx.wallet][tx.badge] = @ + 1]
    BY <1>1, <2>2 DEF Mine, contractVars
  <2> HIDE DEF tx
  <2>4. ASSUME NEW w \in Wallets, NEW b \in Milestones PROVE balance'[w][b] >= balance[w][b]
    <3>1. \A n \in Nat : n >= n /\ n + 1 >= n
      OBVIOUS
    <3>2. balance[w][b] \in Nat
      BY Types
    <3>3. balance'[w][b] = balance[w][b] \/ balance'[w][b] = balance[w][b] + 1
      <4>1. CASE tx \in Tx /\ balance' = [balance EXCEPT ![tx.wallet][tx.badge] = @ + 1]
        <5>1. tx.wallet \in Wallets /\ tx.badge \in Milestones
          BY <4>1 DEF Tx
        <5> QED BY <4>1, <5>1, Types
      <4> QED BY <2>3, <4>1
    <3> QED BY <3>1, <3>2, <3>3
  <2> QED BY <2>1, <2>4, Types, DaysFinite DEF Grown
<1>2. CASE BotMoves
  <2>1. ASSUME NEW a \in Approvals, ProgressAdd(a)
        PROVE  \A s \in Students : /\ Cardinality(progress'[s]) >= Cardinality(progress[s])
                                   /\ Cardinality(progress'[s]) \in Nat
    <3>1. approval[a] \in Approving
      BY <2>1, Working DEF ProgressAdd, ApprovalPcs
    <3> TAKE s \in Students
    <3>2. progress[s] \subseteq progress'[s] /\ progress'[s] \subseteq Days
      BY <2>1, <3>1, Types DEF ProgressAdd, Approving
    <3>3. IsFiniteSet(progress'[s])
      BY <3>2, BadgeAssumption, FS_Subset
    <3> QED BY <3>2, <3>3, FS_Subset, FS_CardinalityType
  <2>2. UNCHANGED <<linked, balance>>
    BY <1>2, BotKeeps
  <2>3. \A s \in Students : /\ Cardinality(progress'[s]) >= Cardinality(progress[s])
                            /\ Cardinality(progress'[s]) \in Nat
    BY <1>2, <2>1, BotKeeps, DaysFinite
  <2> QED BY <2>2, <2>3, Types DEF Grown
<1>3. CASE ServiceMoves \/ ServiceCrash
  BY <1>3, ServiceKeeps, SameGrown
<1>4. CASE Elsewhere
  <2>1. UNCHANGED <<progress, balance>>
    BY <1>4, ElsewhereKeeps
  <2>2. UNCHANGED linked \/ \E s \in Students, w \in Wallets : linked' = [linked EXCEPT ![s] = @ \cup {w}]
    BY <1>4 DEF Elsewhere, Link, ScriptStart, ScriptStep, ScriptIncr, ScriptCount, ScriptSend, ForeignSend, vars, botVars
  <2>3. \A s \in Students : linked[s] \subseteq linked'[s]
    BY <2>2, Types
  <2> QED BY <2>1, <2>3, Types, DaysFinite DEF Grown
<1> QED BY <1>1, <1>2, <1>3, <1>4, StepCases

LEMMA LinkStep == ASSUME TypeOK, LinkWasLinked, [Next]_vars PROVE LinkWasLinked'
<1>1. CASE UNCHANGED <<link, linked>>
  BY <1>1 DEF LinkWasLinked
<1>2. ASSUME NEW s \in Students, NEW w \in Wallets, Link(s, w) PROVE LinkWasLinked'
  BY <1>2, Types DEF Link, LinkWasLinked
<1>3. CASE Elsewhere
  <2>1. UNCHANGED <<link, linked>> \/ \E s \in Students, w \in Wallets : Link(s, w)
    BY <1>3 DEF Elsewhere, ScriptStart, ScriptStep, ScriptIncr, ScriptCount, ScriptSend, ForeignSend, vars, botVars
  <2> QED BY <1>1, <1>2, <2>1
<1>4. CASE Mine
  BY <1>1, <1>4 DEF Mine, botVars
<1> QED BY <1>1, <1>3, <1>4, BotKeeps, ServiceKeeps, StepCases

LEMMA ApprovedStep ==
  ASSUME IInv, [Next]_vars PROVE (\A a \in Approvals : Approved(approval[a]))'
<1> SUFFICES ASSUME NEW a \in Approvals PROVE Approved(approval[a])'
  OBVIOUS
<1> DEFINE p == approval[a]
           q == approval'[a]
<1>1. Moving /\ Grown /\ LinkWasLinked /\ Approved(p) /\ TypeOK
  BY AllMoving, Growing DEF IInv
<1>2. q = p \/ (q \in Approving /\ Move(p, q))
  BY <1>1 DEF Moving
<1>3. p \in {Idle} \cup Approving
  BY <1>1, Types
<1>4. q.pc \in {"get", "post", "reply", "role"} =>
        /\ q.student \in Students /\ q.count \in Milestones
        /\ Cardinality(progress[q.student]) >= q.count
  BY <1>1, <1>2, <1>3, BadgeAssumption DEF Move, Keeps, Approved, Approving, Idle
<1>5. q.pc \in {"post", "reply", "role"} => q.wallet \in Wallets /\ q.wallet \in linked[q.student]
  <2>1. p.pc = "get" /\ q.pc = "post" /\ Move(p, q) => q.wallet \in Wallets /\ q.wallet \in linked[q.student]
    <3> HAVE p.pc = "get" /\ q.pc = "post" /\ Move(p, q)
    <3>1. q.student = p.student /\ q.wallet = link[p.student] /\ q.wallet # NoWallet /\ p.student \in Students
      BY <1>3 DEF Move, Approving, Idle
    <3> QED BY <1>1, <3>1, Types DEF LinkWasLinked
  <2> QED BY <1>1, <1>2, <2>1 DEF Move, Keeps, Approved
<1>6. q.student \in Students /\ q.count \in Milestones /\ Cardinality(progress[q.student]) >= q.count
        => Cardinality(progress'[q.student]) >= q.count
  <2> HAVE q.student \in Students /\ q.count \in Milestones /\ Cardinality(progress[q.student]) >= q.count
  <2>1. /\ Cardinality(progress[q.student]) \in Nat /\ Cardinality(progress'[q.student]) \in Nat
        /\ Cardinality(progress'[q.student]) >= Cardinality(progress[q.student]) /\ q.count \in Nat
    BY <1>1, DaysFinite, BadgeAssumption DEF Grown
  <2> QED BY <2>1
<1> QED BY <1>1, <1>4, <1>5, <1>6 DEF Approved, Grown

-----------------------------------------------------------------------------
(* Requests *)

\* Asked, of the next state.
AskedNext(m) ==
  /\ m.by \in Approvals
  /\ approval'[m.by].pc \in {"reply", "role", "done"}
  /\ m.wallet = approval'[m.by].wallet /\ m.badge = approval'[m.by].count
  /\ m.wallet \in linked'[approval'[m.by].student]
  /\ Cardinality(progress'[approval'[m.by].student]) >= m.badge

LEMMA AskedStays == ASSUME IInv, [Next]_vars, NEW m, Asked(m), m.badge \in Milestones PROVE AskedNext(m)
<1> DEFINE p == approval[m.by]
           q == approval'[m.by]
<1>1. Moving /\ Grown /\ TypeOK
  BY AllMoving, Growing DEF IInv
<1>2. m.by \in Approvals /\ p \in Approving /\ p.pc \in {"reply", "role", "done"}
  BY <1>1, Working DEF Asked, ApprovalPcs
<1>3. q = p \/ Move(p, q)
  BY <1>1, <1>2 DEF Moving
<1>4. q.pc \in {"reply", "role", "done"} /\ Keeps(p, q)
  BY <1>2, <1>3 DEF Move, Keeps
<1>5. p.student \in Students /\ m.badge \in Nat
  BY <1>2, BadgeAssumption DEF Approving
<1>6. Cardinality(progress'[p.student]) >= m.badge
  <2>1. /\ Cardinality(progress[p.student]) \in Nat /\ Cardinality(progress'[p.student]) \in Nat
        /\ Cardinality(progress'[p.student]) >= Cardinality(progress[p.student])
        /\ Cardinality(progress[p.student]) >= m.badge
    BY <1>1, <1>5, DaysFinite DEF Grown, Asked
  <2> QED BY <1>5, <2>1
<1> QED BY <1>1, <1>2, <1>4, <1>5, <1>6 DEF AskedNext, Asked, Keeps, Grown

RequestedNext ==
  /\ \A i \in DOMAIN chain' : AskedNext(chain'[i])
  /\ job' # Idle => AskedNext(job'.of)
  /\ \A i \in DOMAIN pool' : ByService(pool'[i]) => AskedNext(pool'[i])

\* The requests and transactions of the present state.
LEMMA OldAsked ==
  ASSUME IInv, [Next]_vars
  PROVE  /\ \A i \in DOMAIN chain : AskedNext(chain[i])
         /\ job # Idle => AskedNext(job.of)
         /\ \A i \in DOMAIN pool : ByService(pool[i]) => AskedNext(pool[i])
<1>1. TypeOK /\ Requested
  BY DEF IInv
<1>2. ASSUME NEW i \in DOMAIN chain PROVE AskedNext(chain[i])
  <2>1. Asked(chain[i]) /\ chain[i] \in Minting
    BY <1>1, Types DEF Requested
  <2> QED BY <2>1, AskedStays DEF Minting
<1>3. ASSUME job # Idle PROVE AskedNext(job.of)
  <2>1. Asked(job.of) /\ job.of \in Minting
    BY <1>1, <1>3, Types DEF Requested, Jobs
  <2> QED BY <2>1, AskedStays DEF Minting
<1>4. ASSUME NEW i \in DOMAIN pool, ByService(pool[i]) PROVE AskedNext(pool[i])
  <2>1. Asked(pool[i]) /\ pool[i] \in Tx
    BY <1>1, <1>4, Types DEF Requested, ByService
  <2> QED BY <2>1, AskedStays DEF Tx
<1> QED BY <1>2, <1>3, <1>4

LEMMA TailElements ==
  ASSUME NEW S, NEW q \in Seq(S), q # <<>>
  PROVE  /\ 1 \in DOMAIN q /\ Head(q) = q[1]
         /\ \A i \in DOMAIN Tail(q) : i + 1 \in DOMAIN q /\ Tail(q)[i] = q[i + 1]
  OBVIOUS

LEMMA AppendElements ==
  ASSUME NEW S, NEW q \in Seq(S), NEW e
  PROVE  \A i \in DOMAIN Append(q, e) :
           (i \in DOMAIN q /\ Append(q, e)[i] = q[i]) \/ Append(q, e)[i] = e
  OBVIOUS

LEMMA BotRequested == ASSUME IInv, [Next]_vars, BotMoves PROVE RequestedNext
<1>1. TypeOK /\ UNCHANGED <<job, pool>>
  BY BotKeeps DEF IInv
<1>2. CASE UNCHANGED chain
  BY <1>1, <1>2, OldAsked DEF RequestedNext
<1>3. ASSUME NEW a \in Approvals, Post(a) PROVE \A i \in DOMAIN chain' : AskedNext(chain'[i])
  <2> DEFINE m == [by |-> a, wallet |-> approval[a].wallet, badge |-> approval[a].count]
  <2>1. approval[a].pc = "post" /\ Goto(a, "reply") /\ chain' = Append(chain, m)
    BY <1>3 DEF Post
  <2>2. approval[a] \in Approving
    BY <1>1, <2>1, Working DEF ApprovalPcs
  <2>3. /\ approval[a].wallet \in linked[approval[a].student]
        /\ Cardinality(progress[approval[a].student]) >= approval[a].count
    BY <2>1 DEF IInv, Approved
  <2>4. UNCHANGED <<progress, linked>>
    BY <1>3 DEF Post
  <2> DEFINE q == [approval[a] EXCEPT !.pc = "reply"]
  <2>5. approval'[a] = q
    BY <1>1, <2>1, Types DEF Goto
  <2>5a. q.pc = "reply" /\ Keeps(approval[a], q)
    BY <2>2, PcChanged DEF ApprovalPcs
  <2> HIDE DEF q
  <2>6. approval'[a].pc = "reply" /\ Keeps(approval[a], approval'[a])
    BY <2>5, <2>5a
  <2>7. AskedNext(m)
    BY <2>3, <2>4, <2>6 DEF AskedNext, Keeps
  <2> HIDE DEF m
  <2> QED BY <1>1, <2>1, <2>7, OldAsked, AppendElements, Types
<1> QED BY <1>1, <1>2, <1>3, BotKeeps, OldAsked DEF RequestedNext

LEMMA ServiceRequested == ASSUME IInv, [Next]_vars, ServiceMoves \/ ServiceCrash PROVE RequestedNext
<1>1. TypeOK
  BY DEF IInv
<1>2. CASE JobBegin
  <2>1. chain \in Seq(Minting) /\ chain # <<>> /\ chain' = Tail(chain) /\ pool' = pool
    BY <1>1, <1>2, Types DEF JobBegin, accountVars
  <2>2. \A i \in DOMAIN chain' : AskedNext(chain'[i])
    BY <2>1, OldAsked, TailElements
  <2>3. AskedNext(Head(chain))
    BY <2>1, OldAsked, TailElements
  <2>4. \/ job' = Idle
        \/ job' = [pc |-> "check", of |-> Head(chain), nonce |-> 0, at |-> 0, receipt |-> "none"]
    BY <1>2 DEF JobBegin
  <2>5. job' = Idle \/ job'.of = Head(chain)
    BY <2>4
  <2> QED BY <2>1, <2>2, <2>3, <2>5, OldAsked DEF RequestedNext
<1>3. ASSUME JobCheck \/ JobIncr \/ JobCount \/ JobSend \/ JobWait \/ JobBalance \/ JobError
      PROVE  job \in Jobs /\ job # Idle
  <2>1. job # Idle
    BY <1>3, JobHere
  <2> QED BY <1>1, <2>1, Types
<1>4. CASE JobCheck \/ JobIncr \/ JobCount \/ JobWait \/ JobBalance \/ JobError
  <2>1. \/ job' = Idle
        \/ \E pc \in JobPcs : job' = [job EXCEPT !.pc = pc]
        \/ job' = [job EXCEPT !.pc = "count", !.nonce = counter + 1]
        \/ job' = [job EXCEPT !.pc = "send", !.at = pending]
    BY <1>4 DEF JobCheck, JobIncr, JobCount, JobWait, JobBalance, JobError, Finish, JobPcs
  <2>2. job' = Idle \/ job'.of = job.of
    BY <1>3, <1>4, <2>1 DEF Jobs
  <2>3. UNCHANGED <<chain, pool>>
    BY <1>4 DEF JobCheck, JobIncr, JobCount, JobWait, JobBalance, JobError, accountVars
  <2> QED BY <1>3, <1>4, <2>2, <2>3, OldAsked DEF RequestedNext
<1>5. CASE JobSend
  <2> DEFINE tx == [by |-> job.of.by, wallet |-> job.of.wallet, badge |-> job.of.badge, nonce |-> job.nonce]
  <2>1. job \in Jobs /\ AskedNext(job.of)
    BY <1>3, <1>5, OldAsked
  <2>2. AskedNext(tx)
    BY <2>1 DEF AskedNext
  <2>3. chain' = chain /\ (job' = Idle \/ job' = [job EXCEPT !.pc = "wait"])
        /\ (pool' = pool \/ pool' = Append(pool, tx))
    BY <1>5 DEF JobSend, Finish, Submit, accountVars
  <2>4. job' = Idle \/ job'.of = job.of
    BY <2>1, <2>3 DEF Jobs
  <2> HIDE DEF tx
  <2>5. \A i \in DOMAIN pool' : (i \in DOMAIN pool /\ pool'[i] = pool[i]) \/ pool'[i] = tx
    <3>1. pool \in Seq(Tx \cup ForeignTxs)
      BY <1>1, Types
    <3>2. CASE pool' = pool
      BY <3>2
    <3>3. CASE pool' = Append(pool, tx)
      BY <3>1, <3>3, AppendElements
    <3> QED BY <2>3, <3>2, <3>3
  <2>6. \A i \in DOMAIN pool' : ByService(pool'[i]) => AskedNext(pool'[i])
    BY <2>2, <2>5, OldAsked
  <2> QED BY <2>1, <2>3, <2>4, <2>6, OldAsked DEF RequestedNext
<1>6. CASE ServiceCrash
  <2>1. chain' = <<>> /\ job' = Idle /\ pool' = pool
    BY <1>6 DEF ServiceCrash, accountVars
  <2> QED BY <2>1, OldAsked DEF RequestedNext
<1> QED BY <1>2, <1>4, <1>5, <1>6 DEF ServiceMoves, ServiceStep

LEMMA ElsewhereSends == ASSUME Elsewhere PROVE pool' = pool \/ \E e : ~ByService(e) /\ pool' = Append(pool, e)
<1>1. ASSUME NEW x \in Scripts, ScriptSend(x) PROVE pool' = pool \/ \E e : ~ByService(e) /\ pool' = Append(pool, e)
  <2> DEFINE tx == [by |-> x, wallet |-> script[x].wallet, badge |-> script[x].badge, nonce |-> script[x].nonce]
  <2>1. ~ByService(tx)
    BY BadgeAssumption DEF ByService
  <2>2. pool' = pool \/ pool' = Append(pool, tx)
    BY <1>1 DEF ScriptSend, Submit, accountVars
  <2> QED BY <2>1, <2>2
<1>2. ASSUME NEW f \in ForeignTxs, ForeignSend(f) PROVE ~ByService(f) /\ pool' = Append(pool, f)
  BY <1>2 DEF ForeignSend, Submit, ByService
<1>3. \/ pool' = pool
      \/ \E x \in Scripts : ScriptSend(x)
      \/ \E f \in ForeignTxs : ForeignSend(f)
  BY DEF Elsewhere, Link, ScriptStart, ScriptStep, ScriptIncr, ScriptCount, vars, accountVars
<1> QED BY <1>1, <1>2, <1>3

LEMMA OtherRequested == ASSUME IInv, [Next]_vars, Mine \/ Elsewhere PROVE RequestedNext
<1>1. TypeOK
  BY DEF IInv
<1>2. CASE Mine
  <2>1. pool \in Seq(Tx \cup ForeignTxs) /\ pool # <<>> /\ pool' = Tail(pool) /\ chain' = chain
    BY <1>1, <1>2, Types DEF Mine
  <2>2. \A i \in DOMAIN pool' : ByService(pool'[i]) => AskedNext(pool'[i])
    BY <2>1, OldAsked, TailElements
  <2>3. job' = job \/ \E status \in {"ok", "reverted"} : job.pc = "wait" /\ job' = [job EXCEPT !.receipt = status]
    BY <1>2 DEF Mine, Receipt
  <2>4. job' # Idle => job # Idle /\ job'.of = job.of
    BY <1>1, <2>3, Types DEF Jobs, Idle
  <2> QED BY <2>1, <2>2, <2>4, OldAsked DEF RequestedNext
<1>3. CASE Elsewhere
  <2>1. UNCHANGED <<chain, job>>
    BY <1>3, ElsewhereKeeps
  <2>2. pool' = pool \/ \E e : ~ByService(e) /\ pool' = Append(pool, e)
    BY <1>3, ElsewhereSends
  <2>3. \A i \in DOMAIN pool' : (i \in DOMAIN pool /\ pool'[i] = pool[i]) \/ ~ByService(pool'[i])
    <3>1. pool \in Seq(Tx \cup ForeignTxs)
      BY <1>1, Types
    <3>2. CASE pool' = pool
      BY <3>2
    <3>3. ASSUME NEW e, ~ByService(e), pool' = Append(pool, e)
          PROVE  \A i \in DOMAIN pool' : (i \in DOMAIN pool /\ pool'[i] = pool[i]) \/ ~ByService(pool'[i])
      BY <3>1, <3>3, AppendElements
    <3> QED BY <2>2, <3>2, <3>3
  <2>4. \A i \in DOMAIN pool' : ByService(pool'[i]) => AskedNext(pool'[i])
    BY <2>3, OldAsked
  <2> QED BY <2>1, <2>4, OldAsked DEF RequestedNext
<1> QED BY <1>2, <1>3

LEMMA RequestedStep == ASSUME IInv, [Next]_vars PROVE Requested'
<1>1. RequestedNext
  BY BotRequested, ServiceRequested, OtherRequested, StepCases
<1> QED BY <1>1 DEF RequestedNext, AskedNext, Requested, Asked, ByService

-----------------------------------------------------------------------------
(* Receipts, roles and badges *)

Present(m) == balance'[m.wallet][m.badge] > 0

LEMMA BalanceStays ==
  ASSUME IInv, [Next]_vars, NEW w \in Wallets, NEW b \in Milestones, balance[w][b] > 0
  PROVE  balance'[w][b] > 0
<1>1. TypeOK /\ TypeOK' /\ Grown
  BY TypeStep, Growing DEF IInv
<1>2. balance[w][b] \in Nat /\ balance'[w][b] \in Nat /\ balance'[w][b] >= balance[w][b]
  BY <1>1, Types DEF Grown, TypeOK
<1> QED BY <1>2

\* The receipt of the service's transaction is for the badge it asked for.
LEMMA MineReceipt ==
  ASSUME IInv, [Next]_vars, Mine, job' # Idle, job'.receipt = "ok" \/ job'.pc = "balance"
  PROVE  job'.receipt = "ok" /\ Present(job'.of)
<1> DEFINE tx == Head(pool)
<1>1. TypeOK /\ Requested /\ Backed
  BY DEF IInv
<1>2. pool \in Seq(Tx \cup ForeignTxs) /\ pool # <<>> /\ tx \in Tx \cup ForeignTxs
  BY <1>1, Types, TailType DEF Mine
<1>3. CASE job' = job
  <2>1. job \in Jobs /\ job.receipt = "ok" /\ Owned(job.of) > 0
    BY <1>1, <1>3, Types DEF Backed
  <2> QED BY <1>3, <2>1, BalanceStays DEF Jobs, Minting, Owned, Present
<1>4. CASE /\ tx \notin ForeignTxs /\ job.pc = "wait" /\ tx.by = job.of.by
           /\ job' = [job EXCEPT !.receipt = "ok"]
           /\ balance' = [balance EXCEPT ![tx.wallet][tx.badge] = @ + 1]
  <2>1. job \in Jobs /\ job # Idle /\ tx \in Tx
    BY <1>1, <1>2, <1>4, Types DEF Idle
  <2>2. Asked(job.of) /\ job.of \in Minting
    BY <1>1, <2>1 DEF Requested, Jobs
  <2>3. ByService(tx)
    BY <1>4, <2>2 DEF ByService, Asked
  <2>4. Asked(tx)
    BY <1>1, <1>2, <2>3, TailElements DEF Requested
  <2>5. tx.wallet = job.of.wallet /\ tx.badge = job.of.badge
    BY <1>4, <2>2, <2>4 DEF Asked
  <2>6. job'.receipt = "ok" /\ job'.of = job.of
    BY <1>4, <2>1 DEF Jobs
  <2>7. balance[job.of.wallet][job.of.badge] \in Nat /\ job.of.wallet \in Wallets /\ job.of.badge \in Milestones
    BY <1>1, <2>2, Types DEF Minting
  <2>8. balance'[job.of.wallet][job.of.badge] = balance[job.of.wallet][job.of.badge] + 1
    BY <1>1, <1>4, <2>5, <2>7, Types
  <2> QED BY <2>6, <2>7, <2>8 DEF Present
<1>5. CASE job.pc = "wait" /\ job' = [job EXCEPT !.receipt = "reverted"]
  <2>1. job \in Jobs
    BY <1>1, <1>5, Types DEF Idle
  <2> QED BY <1>5, <2>1 DEF Jobs
<1>6. \/ job' = job
      \/ /\ tx \notin ForeignTxs /\ job.pc = "wait" /\ tx.by = job.of.by
         /\ job' = [job EXCEPT !.receipt = "ok"]
         /\ balance' = [balance EXCEPT ![tx.wallet][tx.badge] = @ + 1]
      \/ job.pc = "wait" /\ job' = [job EXCEPT !.receipt = "reverted"]
  BY DEF Mine, Receipt
<1> QED BY <1>3, <1>4, <1>5, <1>6

\* The service, and what an approval gets from it.
LEMMA ServiceReceipt ==
  ASSUME IInv, [Next]_vars, ServiceMoves \/ ServiceCrash, job' # Idle, job'.receipt = "ok" \/ job'.pc = "balance"
  PROVE  job'.receipt = "ok" /\ Present(job'.of)
<1>1. TypeOK /\ Backed /\ balance' = balance
  BY ServiceKeeps DEF IInv
<1>2. ASSUME JobBegin PROVE FALSE
  <2>1. \/ job' = Idle
        \/ job' = [pc |-> "check", of |-> Head(chain), nonce |-> 0, at |-> 0, receipt |-> "none"]
    BY <1>2 DEF JobBegin
  <2> QED BY <2>1
<1>3. ASSUME JobCheck \/ JobIncr \/ JobCount \/ JobSend \/ JobWait \/ JobBalance
      PROVE  /\ job \in Jobs /\ job'.of = job.of /\ job'.receipt = job.receipt
             /\ job'.pc = "balance" => job.receipt = "ok"
  <2>1. job.pc \in JobPcs
    BY <1>3 DEF JobCheck, JobIncr, JobCount, JobSend, JobWait, JobBalance, JobPcs
  <2>2. job \in Jobs
    BY <1>1, <2>1, Types DEF Idle, JobPcs
  <2>3. \/ \E pc \in {"incr", "wait"} : job' = [job EXCEPT !.pc = pc]
        \/ job.receipt = "ok" /\ job' = [job EXCEPT !.pc = "balance"]
        \/ job' = [job EXCEPT !.pc = "count", !.nonce = counter + 1]
        \/ job' = [job EXCEPT !.pc = "send", !.at = pending]
    BY <1>3 DEF JobCheck, JobIncr, JobCount, JobSend, JobWait, JobBalance, Finish
  <2> QED BY <2>2, <2>3 DEF Jobs
<1>4. ASSUME ServiceCrash \/ JobError PROVE FALSE
  BY <1>4 DEF ServiceCrash, JobError, Finish
<1>5. job \in Jobs /\ job'.of = job.of /\ job'.receipt = "ok" /\ job.receipt = "ok"
  BY <1>2, <1>3, <1>4 DEF ServiceMoves, ServiceStep
<1>6. Owned(job.of) > 0
  BY <1>1, <1>5 DEF Backed, Jobs, Idle
<1> QED BY <1>1, <1>5, <1>6 DEF Owned, Present

LEMMA BackedStep == ASSUME IInv, [Next]_vars PROVE Backed'
<1>1. TypeOK /\ Moving /\ Requested /\ Backed /\ Grown /\ TypeOK'
  BY AllMoving, Growing, TypeStep DEF IInv
<1>2. job' # Idle /\ (job'.receipt = "ok" \/ job'.pc = "balance") => job'.receipt = "ok" /\ Present(job'.of)
  <2>1. CASE UNCHANGED job
    <3> HAVE job' # Idle /\ (job'.receipt = "ok" \/ job'.pc = "balance")
    <3>1. job \in Jobs /\ job.receipt = "ok" /\ Owned(job.of) > 0
      BY <1>1, <2>1, Types DEF Backed
    <3> QED BY <2>1, <3>1, BalanceStays DEF Jobs, Minting, Owned, Present
  <2> QED BY <2>1, MineReceipt, ServiceReceipt, BotKeeps, ElsewhereKeeps, StepCases
<1>3. ASSUME NEW a \in Approvals, approval'[a].pc = "role"
      PROVE  balance'[approval'[a].wallet][approval'[a].count] > 0
  <2> DEFINE p == approval[a]
             q == approval'[a]
  <2>1. p.pc \in {"reply", "role"} /\ Keeps(p, q) /\ balance[p.wallet][p.count] > 0
    BY <1>1, <1>3 DEF Moving, Move, Keeps, Backed
  <2>2. p.wallet \in Wallets /\ p.count \in Milestones
    BY <2>1 DEF IInv, Approved
  <2> QED BY <2>1, <2>2, BalanceStays DEF Keeps
<1>4. RoleIsBacked'
  <2> SUFFICES ASSUME NEW s \in Students, NEW b \in roles'[s]
               PROVE  \E w \in linked'[s] : balance'[w][b] > 0
    BY DEF RoleIsBacked
  <2>1. CASE b \in roles[s]
    <3>1. PICK w \in linked[s] : balance[w][b] > 0
      BY <1>1, <2>1 DEF Backed, RoleIsBacked
    <3>2. w \in Wallets /\ b \in Milestones /\ w \in linked'[s]
      BY <1>1, <2>1, Types DEF Grown
    <3> QED BY <3>1, <3>2, BalanceStays
  <2>2. CASE b \notin roles[s]
    <3>1. ~UNCHANGED roles
      BY <2>2
    <3>2. PICK a \in Approvals : GrantRole(a)
      BY <3>1, StepCases, BotKeeps, ServiceKeeps, ElsewhereKeeps DEF Mine, botVars
    <3> DEFINE p == approval[a]
    <3>3. p.pc = "role" /\ p \in Approving
      BY <1>1, <3>2, Working DEF GrantRole, ApprovalPcs
    <3>4. s = p.student /\ b = p.count
      BY <1>1, <2>2, <3>2, <3>3, Types DEF GrantRole, Approving
    <3>5. p.wallet \in linked[p.student] /\ p.wallet \in Wallets /\ p.count \in Milestones
      BY <3>3 DEF IInv, Approved
    <3>6. balance[p.wallet][p.count] > 0
      BY <1>1, <3>3 DEF Backed
    <3>7. balance'[p.wallet][p.count] > 0
      BY <3>5, <3>6, BalanceStays
    <3>8. p.wallet \in linked'[p.student]
      BY <1>1, <3>3, <3>5 DEF Grown, Approving
    <3> QED BY <3>4, <3>7, <3>8
  <2> QED BY <2>1, <2>2
<1> QED BY <1>2, <1>3, <1>4 DEF Backed, Owned, Present

-----------------------------------------------------------------------------
LEMMA Step == ASSUME IInv, [Next]_vars PROVE IInv'
<1>1. TypeOK /\ LinkWasLinked
  BY DEF IInv
<1> QED BY <1>1, TypeStep, LinkStep, ApprovedStep, RequestedStep, BackedStep DEF IInv

LEMMA Always == Spec => []IInv
<1>1. Init => IInv
  BY InitIInv
<1>2. IInv /\ [Next]_vars => IInv'
  BY Step
<1> QED BY <1>1, <1>2, PTL DEF Spec

\* The state of bot, service, scripts, account and contract is of its type.
THEOREM TypeCorrect == Spec => []TypeOK
<1>1. IInv => TypeOK
  BY DEF IInv
<1> QED BY <1>1, Always, PTL

(***************************************************************************)
(* A role of Discord is granted only for a badge that a linked wallet of   *)
(* the student holds, whatever crashes, times out or is sent by hand.      *)
(***************************************************************************)
THEOREM RoleIsBackedHolds == Spec => []RoleIsBacked
<1>1. IInv => RoleIsBacked
  BY DEF IInv, Backed
<1> QED BY <1>1, Always, PTL

-----------------------------------------------------------------------------
(* Badges are earned *)

LEMMA EarnedStep ==
  ASSUME Scripts = {}, IInv, BadgeWasEarned, [Next]_vars PROVE BadgeWasEarned'
<1>1. TypeOK /\ Requested /\ Grown
  BY Growing DEF IInv
<1> SUFFICES ASSUME NEW w \in Wallets, NEW b \in Milestones, balance'[w][b] > 0
             PROVE  \E s \in Students : w \in linked'[s] /\ Cardinality(progress'[s]) >= b
  BY DEF BadgeWasEarned
<1>2. ASSUME NEW s \in Students, w \in linked[s], Cardinality(progress[s]) >= b
      PROVE  w \in linked'[s] /\ Cardinality(progress'[s]) >= b
  <2>1. /\ Cardinality(progress[s]) \in Nat /\ Cardinality(progress'[s]) \in Nat /\ b \in Nat
        /\ Cardinality(progress'[s]) >= Cardinality(progress[s])
    BY <1>1, DaysFinite, BadgeAssumption DEF Grown
  <2>2. w \in linked'[s]
    BY <1>1, <1>2 DEF Grown
  <2> QED BY <1>2, <2>1, <2>2
<1>3. CASE balance[w][b] > 0
  BY <1>2, <1>3 DEF BadgeWasEarned
<1>4. CASE ~(balance[w][b] > 0)
  <2> DEFINE tx == Head(pool)
  <2>1. Mine
    <3>1. ~UNCHANGED balance
      BY <1>4
    <3> QED BY <3>1, StepCases, BotKeeps, ServiceKeeps, ElsewhereKeeps
  <2>2. pool \in Seq(Tx \cup ForeignTxs) /\ pool # <<>>
    BY <1>1, <2>1, Types DEF Mine
  <2>3. tx \in Tx \cup ForeignTxs /\ 1 \in DOMAIN pool /\ tx = pool[1]
    BY <2>2, TailType, TailElements
  <2>4. tx \notin ForeignTxs /\ balance' = [balance EXCEPT ![tx.wallet][tx.badge] = @ + 1]
    BY <1>4, <2>1 DEF Mine, contractVars
  <2>5. tx \in Tx /\ tx.by \in Approvals
    BY <2>3, <2>4 DEF Tx
  <2>6. Asked(tx)
    BY <1>1, <2>3, <2>4, <2>5 DEF Requested, ByService
  <2>7. w = tx.wallet /\ b = tx.badge
    BY <1>1, <1>4, <2>4, <2>5, Types DEF Tx
  <2>8. approval[tx.by] \in Approving
    BY <1>1, <2>5, <2>6, Working DEF Asked, ApprovalPcs
  <2> QED BY <1>2, <2>6, <2>7, <2>8 DEF Asked, Approving
<1> QED BY <1>3, <1>4

(***************************************************************************)
(* Without runs of mintBadge.js, which take any wallet, a badge goes only  *)
(* to a wallet linked by a student with that many approved days.           *)
(***************************************************************************)
THEOREM BadgeWasEarnedHolds == ASSUME Scripts = {} PROVE Spec => []BadgeWasEarned
<1>1. Init => BadgeWasEarned
  BY DEF Init, BadgeWasEarned
<1>2. IInv /\ BadgeWasEarned /\ [Next]_vars => BadgeWasEarned'
  BY EarnedStep
<1> QED BY <1>1, <1>2, Always, PTL DEF Spec

-----------------------------------------------------------------------------
(* One transaction at a time *)

\* What the service's steps and a mined transaction change of job and pool.
JobGoes(from, to) ==
  /\ job \in Jobs /\ job' \in Jobs /\ job.pc = from /\ job'.pc = to
  /\ job'.of = job.of /\ job'.receipt = job.receipt
JobEnds == job \in Jobs /\ job' = Idle
Sent == [by |-> job.of.by, wallet |-> job.of.wallet, badge |-> job.of.badge, nonce |-> job.nonce]

LEMMA JobAtWork ==
  ASSUME TypeOK, JobCheck \/ JobIncr \/ JobCount \/ JobSend \/ JobWait \/ JobBalance \/ JobError
  PROVE  job \in Jobs
BY JobHere, Types

LEMMA JobCases ==
  ASSUME TypeOK, ServiceMoves
  PROVE  \/ job = Idle /\ pool' = pool /\ (job' = Idle \/ (job'.pc = "check" /\ job'.receipt = "none"))
         \/ JobEnds /\ pool' = pool
         \/ JobGoes("check", "incr") /\ pool' = pool /\ ~(Owned(job.of) > 0)
         \/ (JobGoes("incr", "count") \/ JobGoes("count", "send")) /\ pool' = pool
         \/ JobGoes("send", "wait") /\ pool' = Append(pool, Sent)
         \/ JobGoes("wait", "balance") /\ pool' = pool /\ job.receipt = "ok"
<1>1. CASE JobBegin
  <2>1. \/ job' = Idle
        \/ job' = [pc |-> "check", of |-> Head(chain), nonce |-> 0, at |-> 0, receipt |-> "none"]
    BY <1>1 DEF JobBegin
  <2>2. job = Idle /\ pool' = pool
    BY <1>1 DEF JobBegin, accountVars
  <2> QED BY <2>1, <2>2
<1>2. ASSUME job \in Jobs, NEW pc \in JobPcs, job' = [job EXCEPT !.pc = pc] PROVE JobGoes(job.pc, pc)
  BY <1>2 DEF JobGoes, Jobs
<1>3. CASE JobCheck
  <2>1. job \in Jobs /\ pool' = pool /\ job.pc = "check"
    BY <1>3, JobAtWork DEF JobCheck, accountVars
  <2>2. job' = Idle \/ (job' = [job EXCEPT !.pc = "incr"] /\ ~(Owned(job.of) > 0))
    BY <1>3 DEF JobCheck, Finish
  <2> QED BY <1>2, <2>1, <2>2 DEF JobEnds, JobPcs
<1>4. CASE JobIncr
  <2>1. job \in Jobs /\ pool' = pool /\ job.pc = "incr" /\ counter + 1 \in Nat
    BY <1>4, JobAtWork, Types DEF JobIncr, accountVars
  <2>2. job' = [job EXCEPT !.pc = "count", !.nonce = counter + 1]
    BY <1>4 DEF JobIncr
  <2>3. JobGoes("incr", "count")
    BY <2>1, <2>2 DEF JobGoes, Jobs, JobPcs
  <2> QED BY <2>1, <2>3
<1>5. CASE JobCount
  <2>1. job \in Jobs /\ pool' = pool /\ job.pc = "count" /\ pending \in Nat
    BY <1>5, JobAtWork, Types DEF JobCount, accountVars
  <2>2. job' = [job EXCEPT !.pc = "send", !.at = pending]
    BY <1>5 DEF JobCount
  <2>3. JobGoes("count", "send")
    BY <2>1, <2>2 DEF JobGoes, Jobs, JobPcs
  <2> QED BY <2>1, <2>3
<1>6. CASE JobSend
  <2>1. job \in Jobs /\ job.pc = "send"
    BY <1>6, JobAtWork DEF JobSend
  <2>2. \/ job' = Idle /\ pool' = pool
        \/ job' = [job EXCEPT !.pc = "wait"] /\ pool' = Append(pool, Sent)
    BY <1>6 DEF JobSend, Finish, Submit, Sent, accountVars
  <2> QED BY <1>2, <2>1, <2>2 DEF JobEnds, JobPcs
<1>7. CASE JobWait
  <2>1. job \in Jobs /\ pool' = pool /\ job.pc = "wait"
    BY <1>7, JobAtWork DEF JobWait, accountVars
  <2>2. \/ job' = [job EXCEPT !.pc = "balance"] /\ job.receipt = "ok"
        \/ job' = Idle /\ job.receipt = "reverted"
    BY <1>7 DEF JobWait, Finish
  <2> QED BY <1>2, <2>1, <2>2 DEF JobEnds, JobPcs
<1>8. CASE JobBalance
  <2>1. job \in Jobs /\ pool' = pool /\ job.pc = "balance" /\ job' = Idle
    BY <1>8, JobAtWork DEF JobBalance, Finish, accountVars
  <2> QED BY <2>1 DEF JobEnds
<1>9. CASE JobError
  <2>1. job \in Jobs /\ pool' = pool /\ job' = Idle
    BY <1>9, JobAtWork DEF JobError, Finish, accountVars
  <2> QED BY <2>1 DEF JobEnds
<1> QED BY <1>1, <1>3, <1>4, <1>5, <1>6, <1>7, <1>8, <1>9 DEF ServiceMoves, ServiceStep

LEMMA MineCases ==
  ASSUME TypeOK, Mine
  PROVE  /\ pool \in Seq(Tx \cup ForeignTxs) /\ pool # <<>> /\ pool' = Tail(pool)
         /\ \/ job' = job /\ ~(Head(pool) \notin ForeignTxs /\ job.pc = "wait" /\ Head(pool).by = job.of.by)
            \/ /\ Head(pool) \notin ForeignTxs /\ job.pc = "wait" /\ Head(pool).by = job.of.by
               /\ job \in Jobs /\ job' \in Jobs /\ job'.pc = "wait" /\ job'.of = job.of
         /\ \/ balance' = balance
            \/ /\ Head(pool) \in Tx /\ Head(pool) \notin ForeignTxs
               /\ balance' = [balance EXCEPT ![Head(pool).wallet][Head(pool).badge] = @ + 1]
<1>1. pool \in Seq(Tx \cup ForeignTxs) /\ pool # <<>> /\ pool' = Tail(pool)
  BY Types DEF Mine
<1>2. Head(pool) \in Tx \cup ForeignTxs
  BY <1>1, TailType
<1>3. \/ balance' = balance
      \/ /\ Head(pool) \notin ForeignTxs
         /\ balance' = [balance EXCEPT ![Head(pool).wallet][Head(pool).badge] = @ + 1]
  BY DEF Mine, contractVars
<1>4. \/ job' = job /\ ~(Head(pool) \notin ForeignTxs /\ job.pc = "wait" /\ Head(pool).by = job.of.by)
      \/ /\ Head(pool) \notin ForeignTxs /\ job.pc = "wait" /\ Head(pool).by = job.of.by
         /\ \E status \in {"ok", "reverted"} : job' = [job EXCEPT !.receipt = status]
  BY DEF Mine, Receipt
<1>5. ASSUME job.pc = "wait", NEW status \in {"ok", "reverted"}, job' = [job EXCEPT !.receipt = status]
      PROVE  job \in Jobs /\ job' \in Jobs /\ job'.pc = "wait" /\ job'.of = job.of
  <2>1. job \in Jobs
    BY <1>5, Types DEF Idle
  <2> QED BY <1>5, <2>1 DEF Jobs
<1> QED BY <1>1, <1>2, <1>3, <1>4, <1>5

-----------------------------------------------------------------------------
(* One transaction at a time *)

\* A request that may still be answered, or was answered a failure or given up.
Open(m) == approval[m.by].pc \in {"reply", "done"} /\ approval[m.by].answer # "minted"

\* No approval is told of a success before it is done.
Untold == \A a \in Approvals : approval[a].pc \in ApprovalPcs \ {"done"} => approval[a].answer # "minted"

\* A request is in the chain, at work, or has a transaction in the pool, and
\* in one place only but while its handler waits for the receipt.
Apart ==
  /\ \A i, j \in DOMAIN chain : chain[i].by = chain[j].by => i = j
  /\ job # Idle => \A i \in DOMAIN chain : chain[i].by # job.of.by
  /\ \A i \in Unmined, j \in DOMAIN chain : chain[j].by # pool[i].by
  /\ \A i \in Unmined : job # Idle /\ pool[i].by = job.of.by => job.pc = "wait" /\ job.receipt = "none"
  /\ \A i, j \in Unmined : pool[i].by = pool[j].by => i = j
  /\ job.pc \in {"check", "incr", "count", "send"} => job.receipt = "none"

AllOpen ==
  /\ \A i \in DOMAIN chain : Open(chain[i])
  /\ job # Idle => Open(job.of)
  /\ \A i \in Unmined : Open(pool[i])
  /\ \A i \in Unmined : approval[pool[i].by].pc = "reply" => job # Idle /\ job.of.by = pool[i].by

OneInv == Untold /\ Apart /\ AllOpen

LEMMA UnminedIs == Unmined = {i \in DOMAIN pool : ByService(pool[i])}
  BY DEF Unmined, ByService

LEMMA OneIsOne == ASSUME OneInv PROVE OneTxAtOnce
<1> DEFINE S == {i \in Unmined : approval[pool[i].by].pc = "reply"}
<1>1. S = {} \/ \E i : S = {i}
  <2>1. \A i, j \in S : i = j
    BY DEF OneInv, AllOpen, Apart
  <2> HIDE DEF S
  <2> QED BY <2>1
<1>2. Cardinality(S) <= 1
  <2> HIDE DEF S
  <2>1. CASE S = {}
    BY <2>1, FS_EmptySet
  <2>2. ASSUME NEW i, S = {i} PROVE Cardinality(S) <= 1
    <3>1. Cardinality({i}) = 1
      BY FS_Singleton
    <3> QED BY <2>2, <3>1
  <2> QED BY <1>1, <2>1, <2>2
<1> QED BY <1>2 DEF OneTxAtOnce, OneInv, AllOpen, Open

\* How one handler goes on, and what it tells: only the service's answer of a
\* success leads to the role.
Tells(a) ==
  LET p == approval[a]
      q == approval'[a]
  IN  \/ q = p
      \/ /\ p.pc \in {"idle", "sadd", "scard", "get"} /\ q.pc \in {"sadd", "scard", "get", "post"}
         /\ q.answer = "none" \/ (p.pc # "idle" /\ q.answer = p.answer)
      \/ p.pc \in {"sadd", "scard", "get"} /\ q.pc = "done"
      \/ p.pc = "post" /\ q.pc \in {"reply", "done"} /\ q.answer = p.answer
      \/ p.pc = "reply" /\ q.pc = "done" /\ (q.answer = "failed" \/ q.answer = p.answer)
      \/ p.pc = "role" /\ q.pc = "done"

LEMMA AnswerChanges ==
  ASSUME TypeOK, NEW a \in Approvals, NEW text \in Answers, Answer(a, text), approval[a].pc \in ApprovalPcs
  PROVE  /\ approval'[a].pc = "done" /\ approval'[a].answer = text
         /\ \A b \in Approvals \ {a} : approval'[b] = approval[b]
<1> DEFINE q == [approval[a] EXCEPT !.pc = "done", !.answer = text]
<1>1. Goes(a, q)
  BY AnswerGoes
<1>2. q.pc = "done" /\ q.answer = text
  BY Working DEF Approving
<1> HIDE DEF q
<1> QED BY <1>1, <1>2 DEF Goes

LEMMA GotoChanges ==
  ASSUME TypeOK, NEW a \in Approvals, NEW pc \in ApprovalPcs, Goto(a, pc), approval[a].pc \in ApprovalPcs
  PROVE  /\ approval'[a].pc = pc /\ approval'[a].answer = approval[a].answer
         /\ \A b \in Approvals \ {a} : approval'[b] = approval[b]
<1> DEFINE q == [approval[a] EXCEPT !.pc = pc]
<1>1. Goes(a, q)
  BY GotoGoes
<1>2. q.pc = pc /\ q.answer = approval[a].answer
  BY Working DEF Approving
<1> HIDE DEF q
<1> QED BY <1>1, <1>2 DEF Goes

LEMMA BotTells ==
  ASSUME TypeOK, BotMoves
  PROVE  \A a \in Approvals : Tells(a) /\ (approval[a].pc = "post" /\ approval'[a].pc = "reply" => Post(a))
<1> SUFFICES ASSUME NEW b \in Approvals
             PROVE  Tells(b) /\ (approval[b].pc = "post" /\ approval'[b].pc = "reply" => Post(b))
  OBVIOUS
<1>0. ASSUME approval'[b] = approval[b] PROVE Tells(b) /\ ~ (approval[b].pc = "post" /\ approval'[b].pc = "reply")
  BY <1>0 DEF Tells
<1>1. ASSUME NEW a \in Approvals, Approve(a) PROVE Tells(b) /\ ~ (approval[b].pc = "post" /\ approval'[b].pc = "reply")
  <2>1. PICK s \in Students, d \in Days : approval' = [approval EXCEPT ![a] =
          [pc |-> "sadd", student |-> s, day |-> d, count |-> 0, wallet |-> NoWallet, answer |-> "none"]]
    BY <1>1 DEF Approve
  <2>2. approval[a].pc = "idle"
    BY <1>1 DEF Approve, Idle
  <2>3. b = a => approval'[b].pc = "sadd" /\ approval'[b].answer = "none"
    BY <2>1, Types
  <2>4. b # a => approval'[b] = approval[b]
    BY <2>1, Types
  <2> QED BY <1>0, <2>2, <2>3, <2>4 DEF Tells
<1>2. ASSUME NEW a \in Approvals, ProgressAdd(a) PROVE Tells(b) /\ ~ (approval[b].pc = "post" /\ approval'[b].pc = "reply")
  <2>1. approval[a].pc = "sadd" /\ Goto(a, "scard") /\ "scard" \in ApprovalPcs /\ "sadd" \in ApprovalPcs
    BY <1>2 DEF ProgressAdd, ApprovalPcs
  <2>2. /\ approval'[a].pc = "scard" /\ approval'[a].answer = approval[a].answer
        /\ \A c \in Approvals \ {a} : approval'[c] = approval[c]
    BY <2>1, GotoChanges
  <2> QED BY <1>0, <2>1, <2>2 DEF Tells
<1>3. ASSUME NEW a \in Approvals, Post(a)
      PROVE  Tells(b) /\ (approval[b].pc = "post" /\ approval'[b].pc = "reply" => Post(b))
  <2>1. approval[a].pc = "post" /\ Goto(a, "reply") /\ "reply" \in ApprovalPcs /\ "post" \in ApprovalPcs
    BY <1>3 DEF Post, ApprovalPcs
  <2>2. /\ approval'[a].pc = "reply" /\ approval'[a].answer = approval[a].answer
        /\ \A c \in Approvals \ {a} : approval'[c] = approval[c]
    BY <2>1, GotoChanges
  <2>3. CASE b = a
    BY <1>3, <2>1, <2>2, <2>3 DEF Tells
  <2>4. CASE b # a
    BY <1>0, <2>2, <2>4
  <2> QED BY <2>3, <2>4
<1>4. ASSUME NEW a \in Approvals, Timeout(a) \/ GrantRole(a)
      PROVE  Tells(b) /\ ~ (approval[b].pc = "post" /\ approval'[b].pc = "reply")
  <2>1. /\ approval[a].pc \in {"reply", "role"} /\ approval[a].pc \in ApprovalPcs
        /\ \E text \in Answers : Answer(a, text) /\ (approval[a].pc = "reply" => text = "failed")
    BY <1>4 DEF Timeout, GrantRole, Answers, ApprovalPcs
  <2>2. PICK text \in Answers : Answer(a, text) /\ (approval[a].pc = "reply" => text = "failed")
    BY <2>1
  <2>3. /\ approval'[a].pc = "done" /\ approval'[a].answer = text
        /\ \A c \in Approvals \ {a} : approval'[c] = approval[c]
    BY <2>1, <2>2, AnswerChanges
  <2> QED BY <1>0, <2>1, <2>2, <2>3 DEF Tells
<1>5. ASSUME NEW a \in Approvals, ProgressCount(a) PROVE Tells(b) /\ ~ (approval[b].pc = "post" /\ approval'[b].pc = "reply")
  <2> DEFINE n == Cardinality(progress[approval[a].student])
             pc == IF n \in Milestones THEN "get" ELSE "done"
             text == IF n \in Milestones THEN "none" ELSE "progress"
             q == [approval[a] EXCEPT !.count = n, !.pc = pc, !.answer = text]
  <2>1. approval[a].pc = "scard" /\ approval[a] \in Approving /\ approval' = [approval EXCEPT ![a] = q]
    BY <1>5, Working DEF ProgressCount, ApprovalPcs
  <2>2. (pc = "get" /\ text = "none") \/ pc = "done"
    OBVIOUS
  <2> HIDE DEF n, pc, text
  <2>3. q.pc = pc /\ q.answer = text
    BY <2>1 DEF Approving
  <2> HIDE DEF q
  <2>4. approval'[a] = q /\ \A c \in Approvals \ {a} : approval'[c] = approval[c]
    BY <2>1, Types
  <2> QED BY <1>0, <2>1, <2>2, <2>3, <2>4 DEF Tells
<1>6. ASSUME NEW a \in Approvals, GetLink(a) PROVE Tells(b) /\ ~ (approval[b].pc = "post" /\ approval'[b].pc = "reply")
  <2> DEFINE w == link[approval[a].student]
             q == [approval[a] EXCEPT !.pc = "post", !.wallet = w]
  <2>1. approval[a].pc = "get" /\ approval[a].pc \in ApprovalPcs /\ approval[a] \in Approving
    BY <1>6, Working DEF GetLink, ApprovalPcs
  <2>2. CASE Answer(a, "unlinked")
    <3>1. /\ approval'[a].pc = "done"
          /\ \A c \in Approvals \ {a} : approval'[c] = approval[c]
      BY <2>1, <2>2, AnswerChanges DEF Answers
    <3> QED BY <1>0, <2>1, <3>1 DEF Tells
  <2>3. CASE approval' = [approval EXCEPT ![a] = q]
    <3>1. q.pc = "post" /\ q.answer = approval[a].answer
      BY <2>1 DEF Approving
    <3> HIDE DEF q
    <3>2. approval'[a] = q /\ \A c \in Approvals \ {a} : approval'[c] = approval[c]
      BY <2>3, Types
    <3> QED BY <1>0, <2>1, <3>1, <3>2 DEF Tells
  <2> QED BY <1>6, <2>2, <2>3 DEF GetLink
<1>7. CASE BotCrash
  <2>1. approval' = [a \in Approvals |->
          IF a \in Handling THEN [approval[a] EXCEPT !.pc = "done"] ELSE approval[a]]
    BY <1>7 DEF BotCrash
  <2>2. CASE b \in Handling
    <3> DEFINE q == [approval[b] EXCEPT !.pc = "done"]
    <3>1. approval'[b] = q
      BY <2>1, <2>2
    <3>2. approval[b] \in Approving /\ approval[b].pc \in ApprovalPcs \ {"done"}
      BY <2>2, Types DEF Handling, Idle, Approving
    <3>3. q.pc = "done" /\ q.answer = approval[b].answer
      BY <3>2 DEF Approving
    <3> HIDE DEF q
    <3> QED BY <3>1, <3>2, <3>3 DEF Tells, ApprovalPcs
  <2>3. CASE b \notin Handling
    BY <1>0, <2>1, <2>3
  <2> QED BY <2>2, <2>3
<1> QED BY <1>1, <1>2, <1>3, <1>4, <1>5, <1>6, <1>7 DEF BotMoves, BotStep

LEMMA RespondTells ==
  ASSUME TypeOK, NEW a \in Approvals, NEW ok \in BOOLEAN, Respond(a, ok)
  PROVE  /\ \A b \in Approvals \ {a} : approval'[b] = approval[b]
         /\ \/ approval'[a] = approval[a]
            \/ approval[a].pc = "reply" /\ approval'[a].pc = "done" /\ approval'[a].answer = "failed"
            \/ ok /\ approval[a].pc = "reply" /\ approval'[a].pc = "role" /\ approval'[a].answer = approval[a].answer
         /\ approval'[a].pc # "reply"
<1>1. CASE approval[a].pc # "reply"
  BY <1>1 DEF Respond
<1>2. CASE approval[a].pc = "reply" /\ ok
  <2>1. Goto(a, "role") /\ "role" \in ApprovalPcs /\ "reply" \in ApprovalPcs
    BY <1>2 DEF Respond, ApprovalPcs
  <2> QED BY <1>2, <2>1, GotoChanges
<1>3. CASE approval[a].pc = "reply" /\ ~ok
  <2>1. Answer(a, "failed") /\ "failed" \in Answers /\ "reply" \in ApprovalPcs
    BY <1>3 DEF Respond, ApprovalPcs, Answers
  <2> QED BY <1>3, <2>1, AnswerChanges
<1> QED BY <1>1, <1>2, <1>3

\* What the bot and the service leave open stays open, and only a request that
\* was waiting still waits.
Still(a) == /\ approval'[a].pc \in {"reply", "done"} /\ approval'[a].answer # "minted"
            /\ approval'[a].pc = "reply" => approval[a].pc = "reply"

LEMMA UntoldStep ==
  ASSUME TypeOK, Untold, \A a \in Approvals : Tells(a) \/ (approval'[a].pc = "role" /\ approval[a].pc = "reply" /\ approval'[a].answer = approval[a].answer)
  PROVE  Untold'
<1> SUFFICES ASSUME NEW a \in Approvals, approval'[a].pc \in ApprovalPcs \ {"done"} PROVE approval'[a].answer # "minted"
  BY DEF Untold
<1>1. approval[a].pc \in ApprovalPcs \ {"done"} => approval[a].answer # "minted"
  BY DEF Untold
<1> QED BY <1>1 DEF Tells, ApprovalPcs

LEMMA StillOpen ==
  ASSUME NEW a \in Approvals, Tells(a) PROVE Open([by |-> a]) => Still(a)
  BY DEF Open, Tells, Still

LEMMA ChainBy ==
  ASSUME TypeOK, Requested
  PROVE  /\ \A i \in DOMAIN chain : chain[i].by \in Approvals
         /\ job # Idle => job.of.by \in Approvals
         /\ \A i \in Unmined : pool[i].by \in Approvals
  BY DEF Requested, Asked, Unmined

\* A step that only takes transactions out of the pool, and tells nobody of a success.
LEMMA FewerApart ==
  ASSUME TypeOK, Requested, Apart, AllOpen, \A a \in Approvals : Open([by |-> a]) => Still(a),
         chain' = chain, job' = job,
         NEW f, \A i \in Unmined' : f[i] \in Unmined /\ pool'[i] = pool[f[i]],
         \A i, j \in Unmined' : f[i] = f[j] => i = j
  PROVE  Apart' /\ AllOpen'
<1>1. /\ \A i \in DOMAIN chain : Still(chain[i].by)
      /\ job # Idle => Still(job.of.by)
      /\ \A i \in Unmined : Still(pool[i].by)
  BY ChainBy DEF AllOpen, Open
<1>2. Apart'
  BY DEF Apart
<1>3. AllOpen'
  BY <1>1 DEF AllOpen, Open, Still
<1> QED BY <1>2, <1>3

\* What the service does with chain, pool and approvals.
Ended == /\ job \in Jobs /\ job' = Idle /\ chain' = chain /\ pool' = pool
         /\ \E ok \in BOOLEAN : Respond(job.of.by, ok) /\ (ok => job.pc # "wait")
Begun == /\ job = Idle /\ chain # <<>> /\ chain' = Tail(chain) /\ pool' = pool
         /\ \/ job' = Idle /\ Respond(Head(chain).by, FALSE)
            \/ /\ job' # Idle /\ job'.of = Head(chain) /\ job'.pc = "check" /\ job'.receipt = "none"
               /\ approval' = approval
Gone == /\ chain' = chain /\ approval' = approval
        /\ \/ /\ JobGoes("check", "incr") \/ JobGoes("incr", "count") \/ JobGoes("count", "send")
              /\ pool' = pool
           \/ JobGoes("wait", "balance") /\ pool' = pool /\ job.receipt = "ok"
           \/ JobGoes("send", "wait") /\ pool' = Append(pool, Sent)

LEMMA ServiceCases == ASSUME TypeOK, ServiceMoves PROVE Ended \/ Begun \/ Gone
<1>1. CASE JobBegin
  <2>1. /\ job = Idle /\ chain # <<>> /\ chain' = Tail(chain) /\ pool' = pool
        /\ \/ job' = Idle /\ Respond(Head(chain).by, FALSE)
           \/ /\ job' = [pc |-> "check", of |-> Head(chain), nonce |-> 0, at |-> 0, receipt |-> "none"]
              /\ approval' = approval
    BY <1>1 DEF JobBegin, accountVars
  <2>2. ASSUME job' = [pc |-> "check", of |-> Head(chain), nonce |-> 0, at |-> 0, receipt |-> "none"]
        PROVE  job' # Idle /\ job'.of = Head(chain) /\ job'.pc = "check" /\ job'.receipt = "none"
    BY <2>2 DEF Idle
  <2> QED BY <2>1, <2>2 DEF Begun
<1>2. ASSUME job' = Idle, Finish(TRUE) \/ Finish(FALSE), chain' = chain, pool' = pool, job \in Jobs,
             Finish(TRUE) => job.pc # "wait"
      PROVE  Ended
  BY <1>2 DEF Finish, Ended
<1>3. ASSUME job \in Jobs, NEW pc \in JobPcs, job' = [job EXCEPT !.pc = pc] PROVE JobGoes(job.pc, pc)
  BY <1>3 DEF JobGoes, Jobs
<1>4. CASE JobCheck
  <2>1. job \in Jobs /\ chain' = chain /\ pool' = pool /\ job.pc = "check"
    BY <1>4, JobAtWork DEF JobCheck, accountVars
  <2>2. Finish(TRUE) \/ (job' = [job EXCEPT !.pc = "incr"] /\ approval' = approval)
    BY <1>4 DEF JobCheck
  <2> QED BY <1>2, <1>3, <2>1, <2>2 DEF Finish, JobPcs, Gone
<1>5. CASE JobIncr
  <2>1. job \in Jobs /\ job.pc = "incr" /\ chain' = chain /\ pool' = pool /\ approval' = approval /\ counter + 1 \in Nat
    BY <1>5, JobAtWork, Types DEF JobIncr, accountVars, botVars
  <2>2. job' = [job EXCEPT !.pc = "count", !.nonce = counter + 1]
    BY <1>5 DEF JobIncr
  <2>3. JobGoes("incr", "count")
    BY <2>1, <2>2 DEF JobGoes, Jobs, JobPcs
  <2> QED BY <2>1, <2>3 DEF Gone
<1>6. CASE JobCount
  <2>1. job \in Jobs /\ job.pc = "count" /\ chain' = chain /\ pool' = pool /\ approval' = approval /\ pending \in Nat
    BY <1>6, JobAtWork, Types DEF JobCount, accountVars, botVars
  <2>2. job' = [job EXCEPT !.pc = "send", !.at = pending]
    BY <1>6 DEF JobCount
  <2>3. JobGoes("count", "send")
    BY <2>1, <2>2 DEF JobGoes, Jobs, JobPcs
  <2> QED BY <2>1, <2>3 DEF Gone
<1>7. CASE JobSend
  <2>1. job \in Jobs /\ job.pc = "send" /\ chain' = chain
    BY <1>7, JobAtWork DEF JobSend
  <2>2. \/ Finish(FALSE) /\ pool' = pool
        \/ job' = [job EXCEPT !.pc = "wait"] /\ pool' = Append(pool, Sent) /\ approval' = approval
    BY <1>7 DEF JobSend, Submit, Sent, accountVars
  <2> QED BY <1>2, <1>3, <2>1, <2>2 DEF Finish, JobPcs, Gone
<1>8. CASE JobWait
  <2>1. job \in Jobs /\ job.pc = "wait" /\ chain' = chain /\ pool' = pool
    BY <1>8, JobAtWork DEF JobWait, accountVars
  <2>2. \/ job' = [job EXCEPT !.pc = "balance"] /\ job.receipt = "ok" /\ approval' = approval
        \/ Finish(FALSE)
    BY <1>8 DEF JobWait
  <2>3. Finish(FALSE) => Ended
    BY <2>1 DEF Finish, Ended
  <2> QED BY <1>3, <2>1, <2>2, <2>3 DEF JobPcs, Gone
<1>9. CASE JobBalance
  <2>1. job \in Jobs /\ job.pc = "balance" /\ chain' = chain /\ pool' = pool /\ Finish(TRUE)
    BY <1>9, JobAtWork DEF JobBalance, accountVars
  <2> QED BY <1>2, <2>1 DEF Finish
<1>10. CASE JobError
  <2>1. job \in Jobs /\ chain' = chain /\ pool' = pool /\ Finish(FALSE)
    BY <1>10, JobAtWork DEF JobError, accountVars
  <2> QED BY <2>1 DEF Finish, Ended
<1> QED BY <1>1, <1>4, <1>5, <1>6, <1>7, <1>8, <1>9, <1>10 DEF ServiceMoves, ServiceStep

\* Receipts of type "none" come with what only a waiting handler has.
LEMMA IdleJob == ASSUME job' = Idle
                 PROVE  /\ job'.pc \notin {"check", "incr", "count", "send"}
                        /\ ~ (job' # Idle)
  BY DEF Idle

LEMMA EndedOne == ASSUME TypeOK, Requested, OneInv, Ended PROVE OneInv'
<1> DEFINE a == job.of.by
<1>1. PICK ok \in BOOLEAN : Respond(a, ok) /\ (ok => job.pc # "wait")
  BY DEF Ended
<1>2. job # Idle /\ a \in Approvals /\ job' = Idle /\ chain' = chain /\ pool' = pool
  BY Types, ChainBy DEF Ended, Jobs, JobPcs, Idle
<1> HIDE DEF a
<1>3. /\ \A b \in Approvals \ {a} : approval'[b] = approval[b]
      /\ \/ approval'[a] = approval[a]
         \/ approval[a].pc = "reply" /\ approval'[a].pc = "done" /\ approval'[a].answer = "failed"
         \/ ok /\ approval[a].pc = "reply" /\ approval'[a].pc = "role" /\ approval'[a].answer = approval[a].answer
      /\ approval'[a].pc # "reply"
  BY <1>1, <1>2, RespondTells
<1>4. \A i \in DOMAIN chain : chain[i].by \in Approvals \ {a}
  BY <1>2, ChainBy DEF OneInv, Apart, a
<1>5. \A i \in Unmined : pool[i].by \in Approvals /\ (ok => pool[i].by # a)
  BY <1>1, <1>2, ChainBy DEF OneInv, Apart, a
<1>6. Unmined' = Unmined /\ \A i \in Unmined : pool'[i] = pool[i]
  BY <1>2 DEF Unmined
<1>7. Untold'
  <2>1. \A b \in Approvals : \/ Tells(b)
                             \/ approval'[b].pc = "role" /\ approval[b].pc = "reply" /\ approval'[b].answer = approval[b].answer
    BY <1>3 DEF Tells
  <2> QED BY <2>1, UntoldStep DEF OneInv
<1>8. Apart'
  BY <1>2, <1>6, IdleJob DEF OneInv, Apart
<1>9. AllOpen'
  <2>1. \A i \in DOMAIN chain' : Open(chain[i])'
    BY <1>2, <1>3, <1>4 DEF OneInv, AllOpen, Open
  <2>2. ASSUME NEW i \in Unmined PROVE Open(pool[i])' /\ approval'[pool[i].by].pc # "reply"
    <3>1. Open(pool[i]) /\ (approval[pool[i].by].pc = "reply" => pool[i].by = a)
      BY DEF OneInv, AllOpen, a
    <3>2. CASE pool[i].by = a
      <4>1. approval'[a].pc = "done" /\ approval'[a].answer # "minted"
        BY <1>3, <1>5, <3>1, <3>2 DEF Open
      <4> QED BY <1>6, <3>2, <4>1 DEF Open
    <3>3. CASE pool[i].by # a
      <4>1. approval'[pool[i].by] = approval[pool[i].by]
        BY <1>3, <1>5, <3>3
      <4> QED BY <1>6, <3>1, <3>3, <4>1 DEF Open
    <3> QED BY <3>2, <3>3
  <2> QED BY <1>2, <1>6, <2>1, <2>2 DEF AllOpen
<1> QED BY <1>7, <1>8, <1>9 DEF OneInv

LEMMA BegunOne == ASSUME TypeOK, Requested, OneInv, Begun PROVE OneInv'
<1>1. chain \in Seq(Minting) /\ chain # <<>> /\ chain' = Tail(chain) /\ job = Idle /\ pool' = pool
  BY Types DEF Begun
<1>2. /\ 1 \in DOMAIN chain /\ Head(chain) = chain[1]
      /\ \A i \in DOMAIN chain' : i + 1 \in DOMAIN chain /\ chain'[i] = chain[i + 1] /\ i + 1 # 1
      /\ \A i, j \in DOMAIN chain' : i + 1 = j + 1 => i = j
  BY <1>1
<1> DEFINE a == Head(chain).by
<1>3. a \in Approvals /\ a = chain[1].by /\ Open(chain[1])
  BY <1>2, ChainBy DEF OneInv, AllOpen
<1> HIDE DEF a
<1>4. \A i \in DOMAIN chain' : chain'[i].by \in Approvals \ {a} /\ Open(chain'[i])
  BY <1>2, <1>3, ChainBy DEF OneInv, Apart, AllOpen
<1>5. \A i \in Unmined : pool[i].by \in Approvals \ {a}
  BY <1>2, <1>3, ChainBy DEF OneInv, Apart
<1>6. Unmined' = Unmined /\ \A i \in Unmined : pool'[i] = pool[i]
  BY <1>1 DEF Unmined
<1>7. /\ \A i, j \in DOMAIN chain' : chain'[i].by = chain'[j].by => i = j
      /\ \A i \in Unmined', j \in DOMAIN chain' : chain'[j].by # pool'[i].by
      /\ \A i, j \in Unmined' : pool'[i].by = pool'[j].by => i = j
  BY <1>2, <1>6 DEF OneInv, Apart
<1>8. \A i \in Unmined : Open(pool[i]) /\ approval[pool[i].by].pc # "reply"
  BY <1>1 DEF OneInv, AllOpen
<1>9. CASE job' = Idle /\ Respond(a, FALSE)
  <2>1. /\ \A b \in Approvals \ {a} : approval'[b] = approval[b]
        /\ \/ approval'[a] = approval[a]
           \/ approval[a].pc = "reply" /\ approval'[a].pc = "done" /\ approval'[a].answer = "failed"
    BY <1>3, <1>9, RespondTells
  <2>2. Untold'
    <3>1. \A b \in Approvals : Tells(b)
      BY <2>1 DEF Tells
    <3> QED BY <3>1, UntoldStep DEF OneInv
  <2>3. Apart'
    BY <1>7, <1>9, IdleJob DEF Apart
  <2>4. AllOpen'
    BY <1>4, <1>5, <1>6, <1>8, <1>9, <2>1, IdleJob DEF AllOpen, Open
  <2> QED BY <2>2, <2>3, <2>4 DEF OneInv
<1>10. CASE /\ job' # Idle /\ job'.of = Head(chain) /\ job'.pc = "check" /\ job'.receipt = "none"
            /\ approval' = approval
  <2>1. Untold'
    BY <1>10 DEF OneInv, Untold
  <2>2. Apart'
    BY <1>4, <1>5, <1>6, <1>7, <1>10 DEF Apart, a
  <2>3. AllOpen'
    BY <1>2, <1>3, <1>4, <1>6, <1>8, <1>10 DEF AllOpen, Open
  <2> QED BY <2>1, <2>2, <2>3 DEF OneInv
<1> QED BY <1>9, <1>10 DEF Begun, a

LEMMA GoneOne == ASSUME TypeOK, Requested, OneInv, Gone PROVE OneInv'
<1>1. /\ job \in Jobs /\ job' \in Jobs /\ job'.of = job.of /\ job'.receipt = job.receipt
      /\ job # Idle /\ job' # Idle /\ chain' = chain /\ approval' = approval
  BY DEF Gone, JobGoes, Jobs, JobPcs, Idle
<1>2. Untold'
  BY <1>1 DEF OneInv, Untold
<1>3. ASSUME pool' = pool, \A i \in Unmined : pool[i].by # job.of.by,
             job'.pc \in {"check", "incr", "count", "send"} => job'.receipt = "none"
      PROVE  Apart' /\ AllOpen'
  <2>1. Unmined' = Unmined
    BY <1>3 DEF Unmined
  <2> QED BY <1>1, <1>3, <2>1 DEF OneInv, Apart, AllOpen, Open
<1>4. ASSUME pool' = pool, JobGoes("check", "incr") \/ JobGoes("incr", "count") \/ JobGoes("count", "send")
      PROVE  Apart' /\ AllOpen'
  <2>1. job.pc \in {"check", "incr", "count"} /\ job.receipt = "none"
    BY <1>4 DEF JobGoes, OneInv, Apart
  <2>2. \A i \in Unmined : pool[i].by # job.of.by
    BY <1>1, <2>1 DEF OneInv, Apart
  <2> QED BY <1>1, <1>3, <1>4, <2>1, <2>2
<1>5. ASSUME pool' = pool, JobGoes("wait", "balance"), job.receipt = "ok" PROVE Apart' /\ AllOpen'
  <2>1. \A i \in Unmined : pool[i].by # job.of.by
    BY <1>1, <1>5 DEF OneInv, Apart
  <2> QED BY <1>3, <1>5, <2>1 DEF JobGoes
<1>6. ASSUME pool' = Append(pool, Sent), JobGoes("send", "wait") PROVE Apart' /\ AllOpen'
  <2>1. job.pc = "send" /\ job.receipt = "none" /\ job'.pc = "wait"
    BY <1>6 DEF JobGoes, OneInv, Apart
  <2>2. \A i \in Unmined : pool[i].by # job.of.by
    BY <1>1, <2>1 DEF OneInv, Apart
  <2>3. pool \in Seq(Tx \cup ForeignTxs)
    BY Types
  <2>4. \A i \in Unmined' : \/ i \in Unmined /\ pool'[i] = pool[i]
                            \/ i = Len(pool) + 1 /\ pool'[i] = Sent
    <3>1. \A i \in DOMAIN pool' : \/ i \in DOMAIN pool /\ pool'[i] = pool[i]
                                  \/ i = Len(pool) + 1 /\ pool'[i] = Sent
      BY <1>6, <2>3
    <3> QED BY <3>1 DEF Unmined
  <2>5. Sent.by = job.of.by
    BY DEF Sent
  <2> HIDE DEF Sent
  <2>6. Apart'
    BY <1>1, <2>1, <2>2, <2>4, <2>5 DEF OneInv, Apart
  <2>7. AllOpen'
    BY <1>1, <2>4, <2>5 DEF OneInv, AllOpen, Open
  <2> QED BY <2>6, <2>7
<1> QED BY <1>2, <1>4, <1>5, <1>6 DEF Gone, OneInv

LEMMA BotOne == ASSUME IInv, OneInv, BotMoves PROVE OneInv'
<1>1. TypeOK /\ Requested /\ job' = job /\ pool' = pool
  BY BotKeeps DEF IInv
<1>2. \A a \in Approvals : Tells(a) /\ (approval[a].pc = "post" /\ approval'[a].pc = "reply" => Post(a))
  BY <1>1, BotTells
<1>3. Untold'
  BY <1>1, <1>2, UntoldStep DEF OneInv
<1>4. \A a \in Approvals : Open([by |-> a]) => Still(a)
  BY <1>2, StillOpen
<1>5. Unmined' = Unmined /\ \A i \in Unmined : pool'[i] = pool[i]
  BY <1>1 DEF Unmined
<1>6. CASE UNCHANGED chain
  <2> DEFINE f == [i \in Unmined |-> i]
  <2>1. \A i \in Unmined' : f[i] \in Unmined /\ pool'[i] = pool[f[i]]
    BY <1>5
  <2>2. \A i, j \in Unmined' : f[i] = f[j] => i = j
    BY <1>5
  <2> HIDE DEF f
  <2>3. Apart /\ AllOpen
    BY DEF OneInv
  <2>4. Apart' /\ AllOpen'
    BY <1>1, <1>4, <1>6, <2>1, <2>2, <2>3, FewerApart
  <2> QED BY <1>3, <2>4 DEF OneInv
<1>7. ASSUME NEW a \in Approvals, Post(a) PROVE OneInv'
  <2> DEFINE m == [by |-> a, wallet |-> approval[a].wallet, badge |-> approval[a].count]
  <2>1. approval[a].pc = "post" /\ Goto(a, "reply") /\ chain' = Append(chain, m) /\ m.by = a
    BY <1>7 DEF Post
  <2> HIDE DEF m
  <2>2. approval'[a].pc = "reply" /\ \A b \in Approvals \ {a} : approval'[b] = approval[b]
    BY <1>1, <2>1, GotoChanges DEF ApprovalPcs
  <2>3. approval'[a].answer # "minted"
    <3>1. approval'[a].pc \in ApprovalPcs \ {"done"}
      BY <2>2 DEF ApprovalPcs
    <3> QED BY <1>3, <3>1 DEF Untold
  <2>4. /\ \A i \in DOMAIN chain : chain[i].by \in Approvals \ {a}
        /\ job # Idle => job.of.by \in Approvals \ {a}
        /\ \A i \in Unmined : pool[i].by \in Approvals \ {a}
    BY <1>1, <2>1, ChainBy DEF OneInv, AllOpen, Open
  <2>5. \A i \in DOMAIN chain' : \/ i \in DOMAIN chain /\ chain'[i] = chain[i]
                                 \/ i = Len(chain) + 1 /\ chain'[i] = m
    <3>1. chain \in Seq(Minting)
      BY <1>1, Types
    <3> QED BY <2>1, <3>1
  <2>6. Apart'
    BY <1>1, <1>5, <2>1, <2>4, <2>5 DEF OneInv, Apart
  <2>7. AllOpen'
    <3>1. (\A i \in DOMAIN chain : Open(chain[i]))'
      <4> SUFFICES ASSUME NEW i \in DOMAIN chain' PROVE Open(chain[i])'
        OBVIOUS
      <4>1. CASE i \in DOMAIN chain /\ chain'[i] = chain[i]
        <5>1. Open(chain[i]) /\ approval'[chain[i].by] = approval[chain[i].by]
          BY <2>2, <2>4, <4>1 DEF OneInv, AllOpen
        <5> QED BY <4>1, <5>1 DEF Open
      <4>2. CASE chain'[i] = m
        BY <2>1, <2>2, <2>3, <4>2 DEF Open
      <4> QED BY <2>5, <4>1, <4>2
    <3>2. /\ job # Idle => Open(job.of)'
          /\ \A i \in Unmined : approval'[pool[i].by] = approval[pool[i].by]
      BY <1>1, <2>2, <2>4 DEF OneInv, AllOpen, Open
    <3>3. (job # Idle => Open(job.of))'
      BY <1>1, <3>2
    <3>4. (\A i \in Unmined : Open(pool[i]))'
      BY <1>1, <1>5, <3>2 DEF OneInv, AllOpen, Open
    <3>5. (\A i \in Unmined : approval[pool[i].by].pc = "reply" => job # Idle /\ job.of.by = pool[i].by)'
      BY <1>1, <1>5, <3>2 DEF OneInv, AllOpen
    <3> QED BY <3>1, <3>3, <3>4, <3>5 DEF AllOpen
  <2> QED BY <1>3, <2>6, <2>7 DEF OneInv
<1> QED BY <1>6, <1>7, BotKeeps

LEMMA OthersOne == ASSUME IInv, OneInv, Mine \/ Elsewhere PROVE OneInv'
<1>1. TypeOK /\ Requested /\ Apart /\ AllOpen /\ approval' = approval /\ chain' = chain
  BY ElsewhereKeeps DEF IInv, OneInv, Mine, botVars
<1>2. Untold'
  BY <1>1 DEF OneInv, Untold
<1>3. \A a \in Approvals : Open([by |-> a]) => Still(a)
  BY <1>1 DEF Open, Still
<1>4. pool \in Seq(Tx \cup ForeignTxs)
  BY <1>1, Types
<1>5. CASE Elsewhere
  <2> DEFINE f == [i \in Unmined |-> i]
  <2>1. pool' = pool \/ \E e : ~ByService(e) /\ pool' = Append(pool, e)
    BY <1>5, ElsewhereSends
  <2>2. \A i \in Unmined' : i \in Unmined /\ pool'[i] = pool[i]
    <3>1. CASE pool' = pool
      BY <3>1 DEF Unmined
    <3>2. ASSUME NEW e, ~ByService(e), pool' = Append(pool, e) PROVE \A i \in Unmined' : i \in Unmined /\ pool'[i] = pool[i]
      <4>1. \A i \in DOMAIN pool' : (i \in DOMAIN pool /\ pool'[i] = pool[i]) \/ ~ByService(pool'[i])
        BY <1>4, <3>2, AppendElements
      <4> QED BY <4>1 DEF Unmined, ByService
    <3> QED BY <2>1, <3>1, <3>2
  <2>3. \A i \in Unmined' : f[i] \in Unmined /\ pool'[i] = pool[f[i]]
    BY <2>2
  <2>4. \A i, j \in Unmined' : f[i] = f[j] => i = j
    BY <2>2
  <2>5. job' = job
    BY <1>5, ElsewhereKeeps
  <2> HIDE DEF f
  <2>6. Apart' /\ AllOpen'
    BY <1>1, <1>3, <2>3, <2>4, <2>5, FewerApart
  <2> QED BY <1>2, <2>6 DEF OneInv
<1>6. CASE Mine
  <2> DEFINE f == [i \in DOMAIN pool' |-> i + 1]
  <2>1. /\ pool # <<>> /\ pool' = Tail(pool) /\ 1 \in DOMAIN pool /\ Head(pool) = pool[1]
        /\ \A i \in DOMAIN pool' : i + 1 \in DOMAIN pool /\ pool'[i] = pool[i + 1] /\ i + 1 # 1
        /\ \A i, j \in DOMAIN pool' : i + 1 = j + 1 => i = j
    BY <1>4, <1>6 DEF Mine
  <2>2. \A i \in Unmined' : f[i] \in Unmined /\ f[i] # 1 /\ pool'[i] = pool[f[i]]
    BY <2>1 DEF Unmined
  <2>3. \A i, j \in Unmined' : f[i] = f[j] => i = j
    BY <2>1 DEF Unmined
  <2> HIDE DEF f
  <2>4. CASE job' = job
    <3>1. Apart' /\ AllOpen'
      BY <1>1, <1>3, <2>2, <2>3, <2>4, FewerApart
    <3> QED BY <1>2, <3>1 DEF OneInv
  <2>5. CASE /\ Head(pool) \notin ForeignTxs /\ job.pc = "wait" /\ Head(pool).by = job.of.by
             /\ job \in Jobs /\ job' \in Jobs /\ job'.pc = "wait" /\ job'.of = job.of
    <3>1. job # Idle /\ job' # Idle
      BY <2>5 DEF Idle
    <3>2. 1 \in Unmined /\ pool[1].by = job.of.by
      BY <1>1, <2>1, <2>5, <3>1, ChainBy DEF Unmined
    <3>3. \A i \in Unmined' : pool'[i].by # job.of.by
      BY <1>1, <2>2, <3>2 DEF Apart
    <3>4. Apart'
      BY <1>1, <2>2, <2>3, <2>5, <3>1, <3>3 DEF Apart
    <3>5. AllOpen'
      BY <1>1, <2>2, <2>5, <3>1 DEF AllOpen, Open
    <3> QED BY <1>2, <3>4, <3>5 DEF OneInv
  <2> QED BY <1>1, <1>6, <2>4, <2>5, MineCases
<1> QED BY <1>5, <1>6

LEMMA CrashOne == ASSUME IInv, OneInv, ServiceCrash PROVE OneInv'
<1>1. /\ TypeOK /\ Requested /\ chain' = <<>> /\ job' = Idle /\ pool' = pool
      /\ approval' = [a \in Approvals |-> IF approval[a].pc = "reply"
           THEN [approval[a] EXCEPT !.pc = "done", !.answer = "failed"] ELSE approval[a]]
  BY DEF IInv, ServiceCrash, accountVars
<1>2. ASSUME NEW a \in Approvals
      PROVE  \/ approval'[a] = approval[a] /\ approval[a].pc # "reply"
             \/ approval[a].pc = "reply" /\ approval'[a].pc = "done" /\ approval'[a].answer = "failed"
  <2>1. CASE approval[a].pc = "reply"
    <3> DEFINE q == [approval[a] EXCEPT !.pc = "done", !.answer = "failed"]
    <3>1. approval'[a] = q
      BY <1>1, <2>1
    <3>2. q.pc = "done" /\ q.answer = "failed"
      BY <1>1, <2>1, Working DEF ApprovalPcs, Approving
    <3> HIDE DEF q
    <3> QED BY <2>1, <3>1, <3>2
  <2>2. CASE approval[a].pc # "reply"
    BY <1>1, <2>2
  <2> QED BY <2>1, <2>2
<1>3. Untold'
  <2>1. \A a \in Approvals : Tells(a)
    BY <1>2 DEF Tells
  <2> QED BY <1>1, <2>1, UntoldStep DEF OneInv
<1>4. Unmined' = Unmined /\ \A i \in DOMAIN chain' : FALSE
  <2>1. Unmined' = Unmined
    BY <1>1 DEF Unmined
  <2>2. chain' = <<>>
    BY <1>1
  <2>3. \A i \in DOMAIN << >> : FALSE
    OBVIOUS
  <2> QED BY <2>1, <2>2, <2>3
<1>5. Apart'
  BY <1>1, <1>4, IdleJob DEF OneInv, Apart
<1>6. AllOpen'
  BY <1>1, <1>2, <1>4, ChainBy DEF OneInv, AllOpen, Open
<1> QED BY <1>3, <1>5, <1>6 DEF OneInv

LEMMA InitOne == Init => OneInv
<1> SUFFICES ASSUME Init PROVE OneInv
  OBVIOUS
<1>1. /\ DOMAIN chain = {} /\ Unmined = {} /\ job = Idle /\ \A a \in Approvals : approval[a].pc = "idle"
  BY DEF Init, Unmined, Idle
<1>2. job.pc \notin {"check", "incr", "count", "send"}
  BY <1>1 DEF Idle
<1> QED BY <1>1, <1>2 DEF OneInv, Untold, Apart, AllOpen, ApprovalPcs

LEMMA OneStep == ASSUME IInv, OneInv, [Next]_vars PROVE OneInv'
<1>1. TypeOK /\ Requested
  BY DEF IInv
<1>2. CASE ServiceMoves
  BY <1>1, <1>2, ServiceCases, EndedOne, BegunOne, GoneOne
<1> QED BY <1>2, BotOne, OthersOne, CrashOne, StepCases

(***************************************************************************)
(* Whatever fails, crashes or else uses the account: among the requests    *)
(* the bot waits for at most one has a transaction in the pool, and no     *)
(* transaction left behind there was reported as a success.                *)
(***************************************************************************)
THEOREM OneTxAtOnceHolds == Spec => []OneTxAtOnce
<1>1. IInv /\ OneInv /\ [Next]_vars => OneInv'
  BY OneStep
<1> QED BY <1>1, InitOne, OneIsOne, Always, PTL DEF Spec


-----------------------------------------------------------------------------
(* No badge twice *)

\* With instant mining a badge is only signed and sent while it is absent.
Once ==
  /\ Len(pool) <= 1
  /\ job.pc \in {"incr", "count", "send"} => Owned(job.of) = 0
  /\ \A i \in DOMAIN pool : pool[i] \notin ForeignTxs => job.pc = "wait" /\ Owned(pool[i]) = 0
  /\ OneBadgeEach

LEMMA EmptyAppend ==
  ASSUME NEW S, NEW q \in Seq(S), q = <<>>, NEW e
  PROVE  Len(Append(q, e)) <= 1 /\ \A i \in DOMAIN Append(q, e) : Append(q, e)[i] = e
  OBVIOUS

LEMMA EmptyPool == ASSUME TypeOK, AutoMine, Next PROVE Mine \/ pool = <<>>
  BY DEF Next

LEMMA OnceStep == ASSUME AutoMine, Scripts = {}, IInv, Once, [Next]_vars PROVE Once'
<1>1. TypeOK /\ TypeOK' /\ Requested
  BY TypeStep DEF IInv
<1>2. pool \in Seq(Tx \cup ForeignTxs)
  BY <1>1, Types
<1>3. CASE UNCHANGED <<job, pool, balance>>
  BY <1>3 DEF Once, Owned, OneBadgeEach
<1>4. CASE Mine
  <2> DEFINE tx == Head(pool)
  <2>1. pool # <<>> /\ pool' = Tail(pool) /\ 1 \in DOMAIN pool /\ tx = pool[1]
    BY <1>2, <1>4, TailElements DEF Mine
  <2>2. Len(pool') <= 1 /\ DOMAIN pool' = {}
    BY <1>2, <2>1 DEF Once
  <2>3. CASE balance' = balance
    <3>1. job'.pc \in {"incr", "count", "send"} => job' = job
      BY <1>1, <1>4, MineCases
    <3> QED BY <2>2, <2>3, <3>1 DEF Once, Owned, OneBadgeEach
  <2>4. CASE /\ tx \in Tx /\ tx \notin ForeignTxs
             /\ balance' = [balance EXCEPT ![tx.wallet][tx.badge] = @ + 1]
    <3>1. job.pc = "wait" /\ Owned(tx) = 0
      BY <2>1, <2>4 DEF Once
    <3>2. job'.pc = "wait"
      BY <1>1, <1>4, <3>1, MineCases
    <3>3. ASSUME NEW w \in Wallets, NEW b \in Milestones PROVE balance'[w][b] <= 1
      <4>1. tx.wallet \in Wallets /\ tx.badge \in Milestones
        BY <2>4 DEF Tx
      <4>2. CASE w = tx.wallet /\ b = tx.badge
        <5>1. balance'[w][b] = balance[w][b] + 1
          BY <1>1, <2>4, <4>1, <4>2, Types
        <5> QED BY <3>1, <4>2, <5>1 DEF Owned
      <4>3. CASE ~(w = tx.wallet /\ b = tx.badge)
        <5>1. balance'[w][b] = balance[w][b]
          BY <1>1, <2>4, <4>1, <4>3, Types
        <5> QED BY <5>1 DEF Once, OneBadgeEach
      <4> QED BY <4>2, <4>3
    <3> QED BY <2>2, <3>2, <3>3 DEF Once, OneBadgeEach
  <2> QED BY <1>1, <1>4, <2>3, <2>4, MineCases
<1>5. CASE pool = <<>> /\ ServiceMoves
  <2>1. balance' = balance
    BY <1>5, ServiceKeeps
  <2>2. ASSUME pool' = pool, job'.pc \in {"incr", "count", "send"} => Owned(job'.of) = 0 PROVE Once'
    BY <1>2, <1>5, <2>1, <2>2 DEF Once, Owned, OneBadgeEach
  <2>3. ASSUME JobGoes("check", "incr"), ~(Owned(job.of) > 0) PROVE Owned(job'.of) = 0
    <3>1. balance[job.of.wallet][job.of.badge] \in Nat
      BY <1>1, <2>3, Types DEF JobGoes, Jobs, Minting
    <3> QED BY <2>3, <3>1 DEF JobGoes, Owned
  <2>4. ASSUME JobGoes("incr", "count") \/ JobGoes("count", "send") PROVE Owned(job'.of) = 0
    BY <2>4 DEF JobGoes, Once, Owned
  <2>5. ASSUME JobGoes("send", "wait"), pool' = Append(pool, Sent) PROVE Once'
    <3>1. Len(pool') <= 1 /\ \A i \in DOMAIN pool' : pool'[i] = Sent
      BY <1>2, <1>5, <2>5, EmptyAppend
    <3>2. job'.pc = "wait" /\ balance[Sent.wallet][Sent.badge] = 0
      BY <2>5 DEF JobGoes, Once, Owned, Sent
    <3> QED BY <2>1, <3>1, <3>2 DEF Once, Owned, OneBadgeEach
  <2>6. ASSUME pool' = pool, job' = Idle \/ job'.pc \in {"check", "balance"} PROVE Once'
    BY <2>2, <2>6 DEF Idle
  <2> QED BY <1>1, <1>5, <2>2, <2>3, <2>4, <2>5, <2>6, JobCases DEF JobGoes, JobEnds
<1>6. CASE pool = <<>> /\ ServiceCrash
  <2>1. pool' = <<>> /\ job' = Idle /\ balance' = balance
    BY <1>6, ServiceKeeps DEF ServiceCrash, accountVars
  <2> QED BY <1>6, <2>1 DEF Once, OneBadgeEach, Idle
<1>7. CASE BotMoves
  BY <1>3, <1>7, BotKeeps
<1>8. CASE pool = <<>> /\ Elsewhere
  <2>1. job' = job /\ balance' = balance
    BY <1>8, ElsewhereKeeps
  <2>2. pool' = pool \/ \E f \in ForeignTxs : pool' = Append(pool, f)
    BY <1>8 DEF Elsewhere, Link, ForeignSend, Submit, vars, accountVars
  <2>3. ASSUME NEW f \in ForeignTxs, pool' = Append(pool, f) PROVE Once'
    <3>1. Len(pool') <= 1 /\ \A i \in DOMAIN pool' : pool'[i] = f
      BY <1>2, <1>8, <2>3, EmptyAppend
    <3> QED BY <2>1, <3>1 DEF Once, Owned, OneBadgeEach
  <2> QED BY <1>3, <2>1, <2>2, <2>3
<1>9. CASE UNCHANGED vars
  BY <1>3, <1>9 DEF vars, serviceVars, accountVars, contractVars
<1> QED BY <1>1, <1>4, <1>5, <1>6, <1>7, <1>8, <1>9, EmptyPool, StepCases

(***************************************************************************)
(* On a node that mines a transaction before it answers, and without runs  *)
(* of mintBadge.js, no wallet gets the badge of a milestone twice.         *)
(***************************************************************************)
THEOREM OneBadgeEachHolds == ASSUME AutoMine, Scripts = {} PROVE Spec => []OneBadgeEach
<1>1. Init => Once
  BY DEF Init, Once, OneBadgeEach, Idle
<1>2. IInv /\ Once /\ [Next]_vars => Once'
  BY OnceStep
<1>3. Once => OneBadgeEach
  BY DEF Once
<1> QED BY <1>1, <1>2, <1>3, Always, PTL DEF Spec

-----------------------------------------------------------------------------
(* No milestone passed in silence *)

Waiting == {"get", "post", "reply", "role"}
Told(p) == p.answer \in {"failed", "unlinked"}

\* How a handler goes on when the bot does not crash: a milestone it is at
\* stays with it until the answer or the role.
Onward(a) ==
  LET p == approval[a]
      q == approval'[a]
      n == Cardinality(progress[p.student])
  IN  \/ q = p
      \/ p = Idle /\ q.pc = "sadd" /\ Cardinality(Handling) < InFlight
      \/ p.pc = "sadd" /\ q.pc = "scard" /\ q.student = p.student
      \/ /\ p.pc = "scard" /\ q.student = p.student
         /\ (q.pc = "get" /\ q.count = n) \/ (q.pc = "done" /\ n \notin Milestones)
      \/ /\ p.pc \in Waiting /\ q.student = p.student /\ q.count = p.count
         /\ q.pc \in Waiting \/ (q.pc = "done" /\ (Told(q) \/ p.pc = "role"))

OneOnward ==
  \/ approval' = approval
  \/ \E a \in Approvals : Onward(a) /\ \A b \in Approvals \ {a} : approval'[b] = approval[b]

LEMMA GoesOnward ==
  ASSUME NEW a \in Approvals, NEW p, Goes(a, p), approval'[a] = p => Onward(a)
  PROVE  OneOnward
  BY DEF Goes, OneOnward

LEMMA StaysOnward == ASSUME approval' = approval PROVE OneOnward
  BY DEF OneOnward

\* A request is answered only once, and the answer keeps what it was about.
LEMMA AnswerOnward ==
  ASSUME TypeOK, NEW a \in Approvals, NEW text \in Answers, Answer(a, text),
         approval[a].pc \in Waiting, text \in {"failed", "unlinked"} \/ approval[a].pc = "role"
  PROVE  OneOnward
<1> DEFINE q == [approval[a] EXCEPT !.pc = "done", !.answer = text]
<1>1. approval[a].pc \in ApprovalPcs /\ approval[a] \in Approving
  BY Working DEF Waiting, ApprovalPcs
<1>2. q.pc = "done" /\ q.answer = text /\ q.student = approval[a].student /\ q.count = approval[a].count
  BY <1>1 DEF Approving
<1>3. Goes(a, q)
  BY <1>1, AnswerGoes
<1> HIDE DEF q
<1>4. approval'[a] = q => Onward(a)
  BY <1>2 DEF Onward, Told
<1> QED BY <1>3, <1>4, GoesOnward

LEMMA GotoOnward ==
  ASSUME TypeOK, NEW a \in Approvals, NEW pc \in {"scard", "reply", "role"}, Goto(a, pc),
         \/ pc = "scard" /\ approval[a].pc = "sadd"
         \/ pc # "scard" /\ approval[a].pc \in Waiting
  PROVE  OneOnward
<1> DEFINE q == [approval[a] EXCEPT !.pc = pc]
<1>1. approval[a].pc \in ApprovalPcs /\ pc \in ApprovalPcs /\ approval[a] \in Approving
  BY Working DEF Waiting, ApprovalPcs
<1>2. q.pc = pc /\ q.student = approval[a].student /\ q.count = approval[a].count
  BY <1>1 DEF Approving
<1>3. Goes(a, q)
  BY <1>1, GotoGoes
<1> HIDE DEF q
<1>4. approval'[a] = q => Onward(a)
  BY <1>2 DEF Onward, Waiting
<1> QED BY <1>3, <1>4, GoesOnward

LEMMA RespondOnward ==
  ASSUME TypeOK, NEW a \in Approvals, NEW ok, Respond(a, ok)
  PROVE  OneOnward
<1>1. CASE UNCHANGED approval
  BY <1>1, StaysOnward
<1>2. CASE approval[a].pc = "reply" /\ (Goto(a, "role") \/ Answer(a, "failed"))
  <2>1. approval[a].pc \in Waiting /\ "failed" \in Answers
    BY <1>2 DEF Waiting, Answers
  <2> QED BY <1>2, <2>1, GotoOnward, AnswerOnward
<1> QED BY <1>1, <1>2 DEF Respond

LEMMA BotOnward == ASSUME ~Faults, TypeOK, BotMoves PROVE OneOnward
<1>1. ASSUME NEW a \in Approvals, Approve(a) PROVE OneOnward
  <2>1. PICK s \in Students, d \in Days : approval' = [approval EXCEPT ![a] =
          [pc |-> "sadd", student |-> s, day |-> d, count |-> 0, wallet |-> NoWallet, answer |-> "none"]]
    BY <1>1 DEF Approve
  <2> DEFINE q == [pc |-> "sadd", student |-> s, day |-> d, count |-> 0, wallet |-> NoWallet, answer |-> "none"]
  <2>2. q \in Approving /\ q.pc = "sadd"
    BY DEF Approving, ApprovalPcs, Answers
  <2>3. Goes(a, q)
    BY <2>1, <2>2, OneGoes
  <2> HIDE DEF q
  <2>4. approval[a] = Idle /\ Cardinality(Handling) < InFlight
    BY <1>1 DEF Approve
  <2>5. approval'[a] = q => Onward(a)
    BY <2>2, <2>4 DEF Onward
  <2> QED BY <2>3, <2>5, GoesOnward
<1>2. ASSUME NEW a \in Approvals, ProgressAdd(a) \/ Post(a) PROVE OneOnward
  <2>1. \/ approval[a].pc = "sadd" /\ Goto(a, "scard")
        \/ approval[a].pc = "post" /\ Goto(a, "reply")
    BY <1>2 DEF ProgressAdd, Post
  <2> QED BY <2>1, GotoOnward DEF Waiting
<1>3. ASSUME NEW a \in Approvals, Timeout(a) \/ GrantRole(a) PROVE OneOnward
  <2>1. \/ approval[a].pc = "reply" /\ Answer(a, "failed")
        \/ approval[a].pc = "role" /\ (Answer(a, "minted") \/ Answer(a, "failed"))
    BY <1>3 DEF Timeout, GrantRole
  <2>2. "failed" \in Answers /\ "minted" \in Answers /\ "reply" \in Waiting /\ "role" \in Waiting
    BY DEF Answers, Waiting
  <2> QED BY <2>1, <2>2, AnswerOnward
<1>4. ASSUME NEW a \in Approvals, ProgressCount(a) PROVE OneOnward
  <2> DEFINE n == Cardinality(progress[approval[a].student])
             pc == IF n \in Milestones THEN "get" ELSE "done"
             text == IF n \in Milestones THEN "none" ELSE "progress"
             q == [approval[a] EXCEPT !.count = n, !.pc = pc, !.answer = text]
  <2>1. /\ approval[a].pc = "scard" /\ approval[a] \in Approving /\ approval[a].student \in Students
        /\ approval' = [approval EXCEPT ![a] = q]
    BY <1>4, Working DEF ProgressCount, ApprovalPcs, Approving
  <2>2. n \in Nat /\ pc \in ApprovalPcs /\ text \in Answers /\ (pc = "get" \/ (pc = "done" /\ n \notin Milestones))
    BY <2>1, DaysFinite DEF ApprovalPcs, Answers
  <2> HIDE DEF n, pc, text
  <2>3. q \in Approving /\ q.pc = pc /\ q.student = approval[a].student /\ q.count = n
    BY <2>1, <2>2 DEF Approving
  <2>4. Goes(a, q)
    BY <2>1, <2>3, OneGoes
  <2> HIDE DEF q
  <2>5. approval'[a] = q => Onward(a)
    BY <2>1, <2>2, <2>3 DEF Onward, n
  <2> QED BY <2>4, <2>5, GoesOnward
<1>5. ASSUME NEW a \in Approvals, GetLink(a) PROVE OneOnward
  <2> DEFINE w == link[approval[a].student]
             q == [approval[a] EXCEPT !.pc = "post", !.wallet = w]
  <2>1. approval[a].pc = "get" /\ approval[a] \in Approving /\ w \in Wallets \cup {NoWallet}
    BY <1>5, Working, Types DEF GetLink, ApprovalPcs, Approving
  <2>2. CASE Answer(a, "unlinked")
    <3>1. "unlinked" \in Answers /\ "get" \in Waiting
      BY DEF Answers, Waiting
    <3> QED BY <2>1, <2>2, <3>1, AnswerOnward
  <2>3. CASE approval' = [approval EXCEPT ![a] = q]
    <3>1. q \in Approving /\ q.pc = "post" /\ q.student = approval[a].student /\ q.count = approval[a].count
      BY <2>1 DEF Approving, ApprovalPcs
    <3>2. Goes(a, q)
      BY <2>3, <3>1, OneGoes
    <3> HIDE DEF q
    <3>3. approval'[a] = q => Onward(a)
      BY <2>1, <3>1 DEF Onward, Waiting
    <3> QED BY <3>2, <3>3, GoesOnward
  <2> QED BY <1>5, <2>2, <2>3 DEF GetLink
<1>6. ~BotCrash
  BY DEF BotCrash
<1> QED BY <1>1, <1>2, <1>3, <1>4, <1>5, <1>6 DEF BotMoves, BotStep

LEMMA ServiceOnward ==
  ASSUME TypeOK, Requested, ServiceMoves PROVE OneOnward
<1>1. CASE JobBegin
  <2>1. approval' = approval \/ (chain # <<>> /\ Respond(Head(chain).by, FALSE))
    BY <1>1 DEF JobBegin
  <2>2. chain # <<>> => Head(chain) \in Minting
    BY Types
  <2> QED BY <2>1, <2>2, RespondOnward, StaysOnward DEF Minting
<1>2. CASE JobCheck \/ JobIncr \/ JobCount \/ JobSend \/ JobWait \/ JobBalance \/ JobError
  <2>2. job # Idle
    BY <1>2, JobHere
  <2>3. \/ approval' = approval
        \/ Respond(job.of.by, TRUE)
        \/ Respond(job.of.by, FALSE)
    BY <1>2 DEF JobCheck, JobIncr, JobCount, JobSend, JobWait, JobBalance, JobError, Finish, botVars
  <2> QED BY <2>2, <2>3, RespondOnward, StaysOnward DEF Asked, Requested
<1> QED BY <1>1, <1>2 DEF ServiceMoves, ServiceStep

LEMMA EveryOnward == ASSUME ~Faults, TypeOK, Requested, [Next]_vars PROVE OneOnward
<1>1. CASE Mine
  BY <1>1, StaysOnward DEF Mine, botVars
<1>2. ~ServiceCrash
  BY DEF ServiceCrash
<1> QED BY <1>1, <1>2, BotOnward, ServiceOnward, ElsewhereKeeps, StaysOnward, StepCases

Alone == \A a, b \in Handling : a = b

\* The badge is there, or an answer has told of this milestone.
Served(s, b) ==
  \/ \E w \in linked[s] : balance[w][b] > 0
  \/ \E a \in Approvals : /\ approval[a].pc = "done" /\ approval[a].student = s
                          /\ approval[a].count = b /\ Told(approval[a])

\* A handler is at this milestone, or counts the day that reached it.
AtWork(s, b) ==
  \E a \in Approvals :
    /\ approval[a].student = s
    /\ \/ approval[a].pc = "scard" /\ Cardinality(progress[s]) = b
       \/ approval[a].pc \in Waiting /\ approval[a].count = b

MInv ==
  /\ Alone
  /\ \A s \in Students, b \in Milestones :
       Cardinality(progress[s]) >= b => Served(s, b) \/ AtWork(s, b)

LEMMA NoHandler ==
  ASSUME InFlight = 1, Alone, Cardinality(Handling) < InFlight PROVE Handling = {}
<1> SUFFICES ASSUME NEW a \in Handling PROVE FALSE
  OBVIOUS
<1>1. Handling = {a}
  BY DEF Alone
<1>2. Cardinality({a}) = 1
  BY FS_Singleton
<1> QED BY <1>1, <1>2

LEMMA ProgressChanges ==
  ASSUME TypeOK, [Next]_vars
  PROVE  \/ UNCHANGED progress
         \/ \E a \in Approvals :
              /\ approval[a].pc = "sadd" /\ approval'[a].pc = "scard"
              /\ approval'[a].student = approval[a].student /\ approval[a].student \in Students
              /\ progress' = [progress EXCEPT ![approval[a].student] = @ \cup {approval[a].day}]
<1>1. ASSUME NEW a \in Approvals, ProgressAdd(a)
      PROVE  /\ approval[a].pc = "sadd" /\ approval'[a].pc = "scard"
             /\ approval'[a].student = approval[a].student /\ approval[a].student \in Students
             /\ progress' = [progress EXCEPT ![approval[a].student] = @ \cup {approval[a].day}]
  <2> DEFINE q == [approval[a] EXCEPT !.pc = "scard"]
  <2>1. approval[a].pc = "sadd" /\ approval[a].pc \in ApprovalPcs /\ "scard" \in ApprovalPcs
        /\ approval[a] \in Approving /\ Goto(a, "scard")
    BY <1>1, Working DEF ProgressAdd, ApprovalPcs
  <2>2. Goes(a, q)
    BY <2>1, GotoGoes
  <2>3. q.pc = "scard" /\ q.student = approval[a].student /\ approval[a].student \in Students
    BY <2>1 DEF Approving
  <2> HIDE DEF q
  <2> QED BY <1>1, <2>1, <2>2, <2>3 DEF Goes, ProgressAdd
<1>2. UNCHANGED progress \/ \E a \in Approvals : ProgressAdd(a)
  BY BotKeeps, ServiceKeeps, ElsewhereKeeps, StepCases DEF Mine, botVars
<1> QED BY <1>1, <1>2

LEMMA AloneStep ==
  ASSUME InFlight = 1, Alone, OneOnward PROVE Alone'
<1>1. CASE approval' = approval
  BY <1>1 DEF Alone, Handling
<1>2. ASSUME NEW a \in Approvals, Onward(a), \A b \in Approvals \ {a} : approval'[b] = approval[b]
      PROVE  Alone'
  <2>1. Handling' \ {a} \subseteq Handling
    BY <1>2 DEF Handling
  <2>2. CASE a \in Handling
    BY <2>1, <2>2 DEF Alone
  <2>3. CASE Cardinality(Handling) < InFlight
    BY <2>1, <2>3, NoHandler DEF Alone
  <2>4. CASE a \notin Handling /\ ~ (Cardinality(Handling) < InFlight)
    <3>1. approval'[a] = approval[a]
      BY <1>2, <2>4 DEF Onward, Handling, Waiting
    <3> QED BY <2>1, <2>4, <3>1 DEF Alone, Handling
  <2> QED BY <2>2, <2>3, <2>4
<1> QED BY <1>1, <1>2 DEF OneOnward

LEMMA ServedStays ==
  ASSUME TypeOK, TypeOK', Grown, OneOnward, NEW s \in Students, NEW b \in Milestones, Served(s, b)
  PROVE  Served(s, b)'
<1>1. ASSUME NEW w \in linked[s], balance[w][b] > 0 PROVE Served(s, b)'
  <2>1. w \in Wallets /\ balance[w][b] \in Nat /\ w \in linked'[s] /\ balance'[w][b] >= balance[w][b]
    BY Types DEF Grown
  <2>2. balance'[w][b] > 0
    <3>1. balance'[w][b] \in Nat
      BY <2>1 DEF TypeOK
    <3> QED BY <1>1, <2>1, <3>1
  <2> QED BY <2>1, <2>2 DEF Served
<1>2. ASSUME NEW a \in Approvals, approval[a].pc = "done" PROVE approval'[a] = approval[a]
  BY <1>2 DEF OneOnward, Onward, Idle, Waiting
<1> QED BY <1>1, <1>2 DEF Served

LEMMA MInvStep ==
  ASSUME InFlight = 1, ~Faults, IInv, MInv, [Next]_vars PROVE MInv'
<1>1. TypeOK /\ TypeOK' /\ Grown /\ OneOnward /\ Alone
  BY EveryOnward, Growing, Step DEF IInv, MInv
<1>2. Alone'
  BY <1>1, AloneStep
<1>3. ASSUME NEW s \in Students, NEW b \in Milestones, Cardinality(progress'[s]) >= b
      PROVE  (Served(s, b) \/ AtWork(s, b))'
  <2>0. b \in Nat \ {0} /\ Cardinality(progress[s]) \in Nat /\ Cardinality(progress'[s]) \in Nat
    BY <1>1, DaysFinite, BadgeAssumption DEF Grown
  <2>1. CASE Served(s, b)
    BY <1>1, <2>1, ServedStays
  <2>2. CASE AtWork(s, b)
    <3>1. PICK a \in Approvals :
            /\ approval[a].student = s
            /\ \/ approval[a].pc = "scard" /\ Cardinality(progress[s]) = b
               \/ approval[a].pc \in Waiting /\ approval[a].count = b
      BY <2>2 DEF AtWork
    <3>2. approval'[a] = approval[a] \/ Onward(a)
      BY <1>1 DEF OneOnward
    <3>3. CASE approval'[a] = approval[a]
      <4>1. ASSUME approval[a].pc = "scard" PROVE progress'[s] = progress[s]
        <5>1. ASSUME NEW c \in Approvals, approval[c].pc = "sadd" PROVE FALSE
          BY <1>1, <4>1, <5>1 DEF Alone, Handling
        <5> QED BY <1>1, <5>1, ProgressChanges
      <4> QED BY <3>1, <3>3, <4>1 DEF AtWork
    <3>4. CASE approval[a].pc = "scard" /\ approval'[a].pc = "get" /\ approval'[a].student = s /\ approval'[a].count = b
      BY <3>4 DEF AtWork, Waiting
    <3>5. CASE /\ approval[a].pc \in Waiting /\ approval'[a].student = s /\ approval'[a].count = b
               /\ approval'[a].pc \in Waiting \/ (approval'[a].pc = "done" /\ Told(approval'[a]))
      BY <3>5 DEF AtWork, Served, Told
    <3>6. CASE approval[a].pc = "role" /\ approval[a].count = b
      <4>1. approval[a].wallet \in linked[s] /\ balance[approval[a].wallet][b] > 0
        BY <3>1, <3>6 DEF IInv, Approved, Backed
      <4>2. Served(s, b)
        BY <4>1 DEF Served
      <4> QED BY <1>1, <4>2, ServedStays
    <3> QED
      <4>1. CASE approval[a].pc = "scard"
        BY <3>1, <3>2, <3>3, <3>4, <4>1 DEF Onward, Waiting, Idle
      <4>2. CASE approval[a].pc \in Waiting
        BY <3>1, <3>2, <3>3, <3>5, <3>6, <4>2 DEF Onward, Waiting, Idle
      <4> QED BY <3>1, <4>1, <4>2
  <2>3. CASE ~ (Cardinality(progress[s]) >= b)
    <3>1. PICK a \in Approvals :
            /\ approval[a].pc = "sadd" /\ approval'[a].pc = "scard"
            /\ approval'[a].student = approval[a].student /\ approval[a].student \in Students
            /\ progress' = [progress EXCEPT ![approval[a].student] = @ \cup {approval[a].day}]
      BY <1>1, <1>3, <2>3, ProgressChanges
    <3> DEFINE S == progress[s]
               d == approval[a].day
    <3>2. progress'[s] # progress[s]
      BY <1>3, <2>3
    <3>3. approval[a].student = s /\ progress'[s] = S \cup {d}
      BY <1>1, <3>1, <3>2, Types
    <3>4. IsFiniteSet(S) /\ Cardinality(S) \in Nat
      BY <1>1, DaysFinite
    <3> HIDE DEF S, d
    <3>5. Cardinality(S \cup {d}) = Cardinality(S) \/ Cardinality(S \cup {d}) = Cardinality(S) + 1
      BY <3>4, FS_AddElement
    <3>6. Cardinality(progress'[s]) = b
      BY <1>3, <2>0, <2>3, <3>3, <3>4, <3>5 DEF S
    <3> QED BY <3>1, <3>3, <3>6 DEF AtWork
  <2> QED BY <2>1, <2>2, <2>3 DEF MInv
<1> QED BY <1>2, <1>3 DEF MInv

(***************************************************************************)
(* While approvals are handled one at a time and nothing crashes, no       *)
(* milestone is passed in silence: a student with b days has the badge, or *)
(* a moderator was told of that milestone (approve-day and badge.js).      *)
(***************************************************************************)
THEOREM NoSilentMissHolds == ASSUME InFlight = 1, ~Faults PROVE Spec => []NoSilentMiss
<1>1. Init => MInv
  <2> SUFFICES ASSUME Init PROVE MInv
    OBVIOUS
  <2>1. Handling = {}
    BY DEF Init, Handling, Idle
  <2>2. \A s \in Students, b \in Milestones : ~ (Cardinality(progress[s]) >= b)
    BY FS_EmptySet, BadgeAssumption DEF Init
  <2> QED BY <2>1, <2>2 DEF MInv, Alone
<1>2. IInv /\ MInv /\ [Next]_vars => MInv'
  BY MInvStep
<1>3. MInv => NoSilentMiss
  <2> SUFFICES ASSUME MInv, Handling = {}, NEW s \in Students, NEW b \in Milestones, Cardinality(progress[s]) >= b
               PROVE  \/ \E w \in linked[s] : balance[w][b] > 0
                      \/ \E a \in Approvals : /\ approval[a] # Idle /\ Owner(a) = s /\ approval[a].count = b
                                              /\ approval[a].answer \in {"failed", "unlinked"}
    BY DEF NoSilentMiss
  <2>1. ~ AtWork(s, b)
    BY DEF AtWork, Handling, Waiting
  <2>2. Served(s, b)
    BY <2>1 DEF MInv
  <2>3. \A a \in Approvals : approval[a].pc = "done" => approval[a] # Idle
    BY DEF Idle
  <2> QED BY <2>2, <2>3 DEF Served, Owner, Told
<1> QED BY <1>1, <1>2, <1>3, Always, PTL DEF Spec
=============================================================================
