-------------------------- MODULE ClaimQueueProofs ---------------------------
(***************************************************************************)
(* Theorems about ClaimQueue, for any number of requests and any posted    *)
(* texts, lists, proofs and batch sizes: what is refused as a duplicate    *)
(* was queued, what is paid or still about is bounded by what was pushed,  *)
(* what disappears is a text no worker can pay or was held beside one, and *)
(* verifyProof decides who is paid.                                        *)
(***************************************************************************)
EXTENDS ClaimQueue, FiniteSetTheorems, WellFoundedInduction, TLAPS

serverStep == ServerCrash \/ \E r \in Requests : Request(r) \/ HandlerStep(r)
redisStep == RedisSave \/ RedisRestart
workerStep == WorkerStep \/ WorkerCrash \/ WorkerStart \/ MineAirdrop
batchStep == BatchStep \/ BatchCrash \/ BatchStart

\* The handler knows whether it has queued its address.
Marking == \A r \in Requests :
  /\ req[r].pc = "mark" => req[r].pushed
  /\ req[r].pc \in {"idle", "check", "push"} => ~req[r].pushed

\* What Redis may go back to was queued, too.
DumpWasPushed == \A a \in dump.claimed : \E r \in Requests : req[r].pushed /\ req[r].addr = a

IInv == TypeOK /\ Marking /\ ClaimedWasPushed /\ DumpWasPushed

-----------------------------------------------------------------------------
(* How often texts of a set are in a batch is a number. *)
LEMMA OccurrencesNat ==
  ASSUME NEW A, NEW s \in Seq(Address)
  PROVE  Occurrences(A, s) \in Nat
<1>1. IsFiniteSet(1..Len(s))
  BY FS_Interval
<1>2. {i \in DOMAIN s : s[i] \in A} \subseteq 1..Len(s)
  OBVIOUS
<1> QED
  BY <1>1, <1>2, FS_Subset, FS_CardinalityType DEF Occurrences

(* A worker that has given up its batch is well typed. *)
LEMMA EmptyBatch ==
  ASSUME NEW P, NEW p \in P
  PROVE  [pc |-> p, batch |-> <<>>] \in [pc : P, batch : Seq(Address)]
<1>1. <<>> \in Seq(Address)
  OBVIOUS
<1> QED
  BY <1>1

(* Paying a batch keeps the balances numbers. *)
LEMMA PayType ==
  ASSUME paid \in [Address -> Nat], NEW s \in Seq(Address), Pay(s) \/ PaySigned(s)
  PROVE  paid' \in [Address -> Nat]
<1>1. \A a \in Address : paid[a] + Occurrences({a}, s) \in Nat
  BY OccurrencesNat
<1> QED
  BY <1>1 DEF Pay, PaySigned

(* The initial states satisfy the invariant. *)
LEMMA InitInv == Init => IInv
<1> SUFFICES ASSUME Init PROVE IInv
  OBVIOUS
<1>1. TypeOK
  <2>1. (CHOOSE a \in Address : TRUE) \in Address
    BY QueueAssumption
  <2>2. dump \in [claimed : SUBSET Address, queue : Seq(Address)] /\ restarts \in 0..MaxRestarts
    BY QueueAssumption DEF Init
  <2> QED
    BY <2>1, <2>2 DEF Init, TypeOK, HandlerPC
<1>2. Marking /\ ClaimedWasPushed /\ DumpWasPushed
  BY DEF Init, Marking, ClaimedWasPushed, DumpWasPushed
<1> QED
  BY <1>1, <1>2 DEF IInv

-----------------------------------------------------------------------------
(* The verdict on a proof is a truth value. *)
LEMMA VerifyProofType ==
  ASSUME NEW proof, NEW leaf, NEW root
  PROVE  VerifyProof(proof, leaf, root) \in BOOLEAN
BY Zenon DEF VerifyProof

(* So are what a client may post and whether it was served. *)
LEMMA PostedType ==
  \A a \in Address : \A p \in PostedFor[a] : p.valid \in BOOLEAN /\ p.served \in BOOLEAN
<1> SUFFICES ASSUME NEW a \in Address, NEW p \in Posted(a)
             PROVE  p.valid \in BOOLEAN /\ p.served \in BOOLEAN
  BY DEF PostedFor
<1>1. \A proof : VerifyProof(proof, LeafOf(BytesOf[a]), RootOf(Allowlist)) \in BOOLEAN
  BY VerifyProofType
<1>2. \E proof : \E served \in BOOLEAN :
        p = [valid |-> VerifyProof(proof, LeafOf(BytesOf[a]), RootOf(Allowlist)),
             served |-> served]
  BY Zenon DEF Posted
<1>3. PICK valid \in BOOLEAN, served \in BOOLEAN : p = [valid |-> valid, served |-> served]
  BY <1>1, <1>2
<1> QED
  BY <1>3

Handlers == [pc : HandlerPC, addr : Address, valid : BOOLEAN, served : BOOLEAN, pushed : BOOLEAN]

(* A handler keeps its type when it goes on, and the others do. *)
LEMMA HandlerType ==
  ASSUME NEW handlers \in [Requests -> Handlers], NEW r \in Requests, NEW pc \in HandlerPC
  PROVE  /\ [handlers EXCEPT ![r].pc = pc] \in [Requests -> Handlers]
         /\ [handlers EXCEPT ![r] = [@ EXCEPT !.pc = pc, !.pushed = TRUE]] \in [Requests -> Handlers]
<1>1. handlers[r] \in Handlers
  OBVIOUS
<1>2. [handlers[r] EXCEPT !.pc = pc] \in Handlers
  BY <1>1 DEF Handlers
<1>3. [handlers[r] EXCEPT !.pc = pc, !.pushed = TRUE] \in Handlers
  BY <1>1 DEF Handlers
<1>4. \A handler \in Handlers : [handlers EXCEPT ![r] = handler] \in [Requests -> Handlers]
  OBVIOUS
<1>5. [handlers EXCEPT ![r] = [handlers[r] EXCEPT !.pc = pc]] \in [Requests -> Handlers]
  BY <1>2, <1>4
<1>6. [handlers EXCEPT ![r] = [handlers[r] EXCEPT !.pc = pc, !.pushed = TRUE]] \in [Requests -> Handlers]
  BY <1>3, <1>4
<1> QED
  BY <1>5, <1>6

(* The API keeps the types. *)
LEMMA ServerType == TypeOK /\ serverStep => TypeOK'
<1> SUFFICES ASSUME TypeOK, serverStep PROVE TypeOK'
  OBVIOUS
<1>1. req \in [Requests -> Handlers]
  BY DEF TypeOK, Handlers
<1>2. CASE ServerCrash
  <2>1. \A r \in Requests : [req[r] EXCEPT !.pc = "dead"] \in Handlers
    BY <1>1 DEF Handlers, HandlerPC
  <2>2. req' \in [Requests -> Handlers]
    BY <1>1, <1>2, <2>1 DEF ServerCrash
  <2> QED
    BY <1>2, <2>2 DEF ServerCrash, redisVars, dumpVars, TypeOK, Handlers
<1>3. ASSUME NEW r \in Requests, Request(r) PROVE TypeOK'
  <2>1. CASE req' = [req EXCEPT ![r].pc = "limited"]
    <3>1. req' \in [Requests -> Handlers]
      BY <1>1, <2>1, HandlerType DEF HandlerPC
    <3> QED
      BY <1>3, <3>1 DEF Request, redisVars, dumpVars, TypeOK, Handlers
  <2>2. CASE req' # [req EXCEPT ![r].pc = "limited"]
    <3>1. PICK a \in Address : \E p \in PostedFor[a] :
            req' = [req EXCEPT ![r] = [pc |-> "check", addr |-> a, valid |-> p.valid,
                                       served |-> p.served, pushed |-> FALSE]]
      BY <1>3, <2>2 DEF Request
    <3>2. PICK p \in PostedFor[a] :
            req' = [req EXCEPT ![r] = [pc |-> "check", addr |-> a, valid |-> p.valid,
                                       served |-> p.served, pushed |-> FALSE]]
      BY <3>1
    <3>3. [pc |-> "check", addr |-> a, valid |-> p.valid, served |-> p.served, pushed |-> FALSE] \in Handlers
      BY PostedType DEF Handlers, HandlerPC
    <3>4. req' \in [Requests -> Handlers]
      BY <1>1, <3>2, <3>3
    <3> QED
      BY <1>3, <3>4 DEF Request, redisVars, dumpVars, TypeOK, Handlers
  <2> QED
    BY <2>1, <2>2
<1>4. ASSUME NEW r \in Requests, Check(r) PROVE TypeOK'
  <2>1. PICK pc \in HandlerPC : req' = [req EXCEPT ![r].pc = pc]
    BY <1>4 DEF Check, HandlerPC
  <2>2. req' \in [Requests -> Handlers]
    BY <1>1, <2>1, HandlerType
  <2> QED
    BY <1>4, <2>2 DEF Check, redisVars, dumpVars, TypeOK, Handlers
<1>5. ASSUME NEW r \in Requests, Push(r) PROVE TypeOK'
  <2>1. req[r].addr \in Address
    BY <1>1 DEF Handlers
  <2>2. queue' \in Seq(Address)
    BY <1>5, <2>1 DEF Push, TypeOK
  <2>3. req' \in [Requests -> Handlers]
    BY <1>1, <1>5, HandlerType DEF Push, HandlerPC
  <2> QED
    BY <1>5, <2>2, <2>3 DEF Push, dumpVars, TypeOK, Handlers
<1>6. ASSUME NEW r \in Requests, Mark(r) PROVE TypeOK'
  <2>1. req[r].addr \in Address
    BY <1>1 DEF Handlers
  <2>2. claimed' \subseteq Address
    BY <1>6, <2>1 DEF Mark, TypeOK
  <2>3. req' \in [Requests -> Handlers]
    BY <1>1, <1>6, HandlerType DEF Mark, HandlerPC
  <2> QED
    BY <1>6, <2>2, <2>3 DEF Mark, dumpVars, TypeOK, Handlers
<1> QED
  BY <1>2, <1>3, <1>4, <1>5, <1>6 DEF serverStep, HandlerStep

(* So does Redis. *)
LEMMA RedisType == TypeOK /\ redisStep => TypeOK'
<1> SUFFICES ASSUME TypeOK, redisStep PROVE TypeOK'
  OBVIOUS
<1>1. CASE RedisSave
  BY <1>1 DEF RedisSave, TypeOK, redisVars, dumpVars
<1>2. CASE RedisRestart
  BY <1>2, QueueAssumption DEF RedisRestart, TypeOK
<1> QED
  BY <1>1, <1>2 DEF redisStep

(* The worker and the chain keep the types. *)
LEMMA WorkerType == TypeOK /\ workerStep => TypeOK'
<1> SUFFICES ASSUME TypeOK, workerStep PROVE TypeOK'
  OBVIOUS
<1> USE DEF TypeOK
<1>1. CASE WorkerPop
  BY <1>1 DEF WorkerPop, dumpVars
<1>2. CASE WorkerFill
  <2>1. CASE queue # <<>> /\ queue' = Tail(queue)
             /\ worker' = [worker EXCEPT !.batch = Append(worker.batch, Head(queue))]
    <3>1. queue' \in Seq(Address) /\ Head(queue) \in Address
      BY <2>1
    <3>2. Append(worker.batch, Head(queue)) \in Seq(Address)
      BY <3>1
    <3> QED
      BY <1>2, <2>1, <3>1, <3>2 DEF WorkerFill, dumpVars
  <2>2. CASE worker' = [worker EXCEPT !.pc = "send"] /\ UNCHANGED queue
    BY <1>2, <2>2 DEF WorkerFill, dumpVars
  <2> QED
    BY <1>2, <2>1, <2>2 DEF WorkerFill, dumpVars
<1>3. CASE WorkerSend
  <2>1. Append(airdrops, worker.batch) \in Seq(Seq(Address))
    OBVIOUS
  <2>2. airdrops' \in Seq(Seq(Address))
    BY <1>3, <2>1 DEF WorkerSend
  <2>3. worker' \in [pc : {"pop", "fill", "send", "wait", "down"}, batch : Seq(Address)]
    <3>1. worker' = [pc |-> "wait", batch |-> <<>>] \/ worker' = [pc |-> "down", batch |-> <<>>]
      BY <1>3 DEF WorkerSend
    <3> QED
      BY <3>1, EmptyBatch
  <2> QED
    BY <1>3, <2>2, <2>3 DEF WorkerSend, redisVars, dumpVars
<1>4. CASE WorkerWait
  BY <1>4 DEF WorkerWait, redisVars, dumpVars
<1>5. CASE WorkerCrash \/ WorkerStart
  <2>2. worker' \in [pc : {"pop", "fill", "send", "wait", "down"}, batch : Seq(Address)]
    BY <1>5, EmptyBatch DEF WorkerCrash, WorkerStart
  <2> QED
    BY <1>5, <2>2 DEF WorkerCrash, WorkerStart, redisVars, dumpVars
<1>6. CASE MineAirdrop
  <2>1. Head(airdrops) \in Seq(Address) /\ Tail(airdrops) \in Seq(Seq(Address))
    BY <1>6 DEF MineAirdrop
  <2>2. paid' \in [Address -> Nat]
    BY <1>6, <2>1, PayType DEF MineAirdrop
  <2> QED
    BY <1>6, <2>1, <2>2 DEF MineAirdrop, redisVars, dumpVars
<1> QED
  BY <1>1, <1>2, <1>3, <1>4, <1>5, <1>6 DEF workerStep, WorkerStep

(* The batch worker keeps the types. *)
LEMMA BatchType == TypeOK /\ batchStep => TypeOK'
<1> SUFFICES ASSUME TypeOK, batchStep PROVE TypeOK'
  OBVIOUS
<1> USE DEF TypeOK
<1>1. CASE BatchLen
  BY <1>1 DEF BatchLen, redisVars, dumpVars
<1>2. CASE BatchFill
  <2>1. CASE queue # <<>> /\ queue' = Tail(queue)
             /\ bworker' = [bworker EXCEPT !.batch = Append(bworker.batch, Head(queue))]
    <3>1. queue' \in Seq(Address) /\ Head(queue) \in Address
      BY <2>1
    <3>2. Append(bworker.batch, Head(queue)) \in Seq(Address)
      BY <3>1
    <3>3. bworker' \in [pc : {"len", "fill", "relay", "down"}, batch : Seq(Address)]
      BY <2>1, <3>2
    <3>4. UNCHANGED <<claimed, dump, restarts, req, worker, airdrops, paid>>
      BY <1>2 DEF BatchFill, dumpVars
    <3> QED
      BY <3>1, <3>3, <3>4
  <2>2. CASE bworker'.batch = bworker.batch /\ UNCHANGED queue
    <3>1. bworker' \in [pc : {"len", "fill", "relay", "down"}, batch : Seq(Address)]
      BY <1>2, <2>2 DEF BatchFill, dumpVars
    <3> QED
      BY <1>2, <2>2, <3>1 DEF BatchFill, dumpVars
  <2> QED
    BY <1>2, <2>1, <2>2 DEF BatchFill, dumpVars
<1>3. CASE BatchRelay
  <2>1. paid' \in [Address -> Nat]
    BY <1>3, PayType DEF BatchRelay
  <2>3. bworker' \in [pc : {"len", "fill", "relay", "down"}, batch : Seq(Address)]
    BY <1>3, EmptyBatch DEF BatchRelay
  <2> QED
    BY <1>3, <2>1, <2>3 DEF BatchRelay, redisVars, dumpVars
<1>4. CASE BatchCrash \/ BatchStart
  <2>2. bworker' \in [pc : {"len", "fill", "relay", "down"}, batch : Seq(Address)]
    BY <1>4, EmptyBatch DEF BatchCrash, BatchStart
  <2> QED
    BY <1>4, <2>2 DEF BatchCrash, BatchStart, redisVars, dumpVars
<1> QED
  BY <1>1, <1>2, <1>3, <1>4 DEF batchStep, BatchStep

-----------------------------------------------------------------------------
(* What a handler has pushed stays pushed. *)
LEMMA PushedStays ==
  ASSUME TypeOK, Marking, serverStep,
         NEW a, \E q \in Requests : req[q].pushed /\ req[q].addr = a
  PROVE  \E q \in Requests : req'[q].pushed /\ req'[q].addr = a
<1> USE DEF TypeOK
<1>1. PICK q \in Requests : req[q].pushed /\ req[q].addr = a
  OBVIOUS
<1>2. CASE ServerCrash
  BY <1>1, <1>2 DEF ServerCrash, Serving
<1>3. ASSUME NEW r \in Requests, Request(r) PROVE req'[q] = req[q]
  BY <1>1, <1>3 DEF Request, Marking
<1>4. ASSUME NEW r \in Requests, HandlerStep(r)
      PROVE  req'[q].pushed /\ req'[q].addr = req[q].addr
  <2>1. CASE Check(r)
    BY <1>1, <2>1 DEF Check
  <2>2. CASE Push(r)
    BY <1>1, <2>2 DEF Push
  <2>3. CASE Mark(r)
    BY <1>1, <2>3 DEF Mark
  <2> QED
    BY <1>4, <2>1, <2>2, <2>3 DEF HandlerStep
<1> QED
  BY <1>1, <1>2, <1>3, <1>4 DEF serverStep

(* The API marks an address only after it has pushed it. *)
LEMMA ServerMarking == TypeOK /\ Marking /\ serverStep => Marking'
<1> SUFFICES ASSUME TypeOK, Marking, serverStep PROVE Marking'
  OBVIOUS
<1> USE DEF TypeOK, Marking
<1>1. CASE ServerCrash
  BY <1>1 DEF ServerCrash, Serving
<1>2. ASSUME NEW r \in Requests, Request(r) PROVE Marking'
  <2>1. /\ \A q \in Requests \ {r} : req'[q] = req[q]
        /\ req'[r].pc \in {"check", "limited"}
        /\ req'[r].pushed = FALSE \/ req'[r].pc = "limited"
    <3>1. CASE req' = [req EXCEPT ![r].pc = "limited"]
      BY <3>1
    <3>2. ASSUME NEW a \in Address, NEW p \in PostedFor[a],
                 req' = [req EXCEPT ![r] = [pc |-> "check", addr |-> a, valid |-> p.valid,
                                            served |-> p.served, pushed |-> FALSE]]
          PROVE  /\ \A q \in Requests \ {r} : req'[q] = req[q]
                 /\ req'[r].pc = "check" /\ req'[r].pushed = FALSE
      BY <3>2
    <3> QED
      BY <1>2, <3>1, <3>2 DEF Request
  <2> QED
    BY <2>1
<1>3. ASSUME NEW r \in Requests, Check(r) PROVE Marking'
  BY <1>3 DEF Check
<1>4. ASSUME NEW r \in Requests, Push(r) PROVE Marking'
  BY <1>4 DEF Push
<1>5. ASSUME NEW r \in Requests, Mark(r) PROVE Marking'
  BY <1>5 DEF Mark
<1> QED
  BY <1>1, <1>2, <1>3, <1>4, <1>5 DEF serverStep, HandlerStep

(* The API keeps the order of rpush and sadd. *)
LEMMA ServerInv == IInv /\ serverStep => (Marking /\ ClaimedWasPushed /\ DumpWasPushed)'
<1> SUFFICES ASSUME IInv, serverStep
             PROVE  (Marking /\ ClaimedWasPushed /\ DumpWasPushed)'
  OBVIOUS
<1>1. TypeOK /\ Marking /\ ClaimedWasPushed /\ DumpWasPushed
  BY DEF IInv
<1>2. dump' = dump
  BY DEF serverStep, ServerCrash, Request, HandlerStep, Check, Push, Mark, dumpVars
<1>3. ASSUME NEW a \in claimed', a \notin claimed
      PROVE  \E r \in Requests : req[r].pushed /\ req[r].addr = a
  <2>1. PICK r \in Requests : Mark(r)
    BY <1>3 DEF serverStep, ServerCrash, Request, HandlerStep, Check, Push, redisVars
  <2> QED
    BY <1>1, <1>3, <2>1 DEF Mark, Marking
<1>4. ClaimedWasPushed'
  BY <1>1, <1>3, PushedStays DEF ClaimedWasPushed
<1>5. DumpWasPushed'
  BY <1>1, <1>2, PushedStays DEF DumpWasPushed
<1> QED
  BY <1>1, <1>4, <1>5, ServerMarking

(* Every step keeps the invariant. *)
LEMMA StepInv == IInv /\ [Next]_vars => IInv'
<1> SUFFICES ASSUME IInv, [Next]_vars PROVE IInv'
  OBVIOUS
<1> USE DEF IInv
<1>1. CASE serverStep
  BY <1>1, ServerType, ServerInv
<1>2. CASE workerStep
  <2>1. UNCHANGED <<claimed, req, dump>>
    BY <1>2 DEF workerStep, WorkerStep, WorkerPop, WorkerFill, WorkerSend, WorkerWait,
       WorkerCrash, WorkerStart, MineAirdrop, redisVars, dumpVars
  <2> QED
    BY <1>2, <2>1, WorkerType DEF Marking, ClaimedWasPushed, DumpWasPushed
<1>3. CASE batchStep
  <2>1. UNCHANGED <<claimed, req, dump>>
    BY <1>3 DEF batchStep, BatchStep, BatchLen, BatchFill, BatchRelay, BatchCrash,
       BatchStart, redisVars, dumpVars
  <2> QED
    BY <1>3, <2>1, BatchType DEF Marking, ClaimedWasPushed, DumpWasPushed
<1>4. CASE redisStep
  <2>1. TypeOK'
    BY <1>4, RedisType
  <2>2. req' = req
    BY <1>4 DEF redisStep, RedisSave, RedisRestart
  <2>3. claimed' \subseteq claimed \cup dump.claimed
    BY <1>4 DEF redisStep, RedisSave, RedisRestart, redisVars
  <2>4. dump'.claimed \subseteq claimed \cup dump.claimed
    BY <1>4 DEF redisStep, RedisSave, RedisRestart
  <2> QED
    BY <2>1, <2>2, <2>3, <2>4 DEF Marking, ClaimedWasPushed, DumpWasPushed
<1>5. CASE UNCHANGED vars
  BY <1>5 DEF vars, redisVars, dumpVars, TypeOK, Marking, ClaimedWasPushed, DumpWasPushed
<1> QED
  BY <1>1, <1>2, <1>3, <1>4, <1>5 DEF Next, serverStep, redisStep, workerStep, batchStep

(* The invariant holds in every reachable state. *)
LEMMA Invariant == Spec => []IInv
  BY InitInv, StepInv, PTL DEF Spec

-----------------------------------------------------------------------------
(* Counting *)

\* The places of texts of A in a list of airdrops, and in a batch.
Places(A, s) == {p \in (1..Len(s)) \X (1..Batch) : p[2] \in DOMAIN s[p[1]] /\ s[p[1]][p[2]] \in A}
IndexOf(A, s) == {i \in DOMAIN s : s[i] \in A}
One(x, A) == IF x \in A THEN 1 ELSE 0

\* Sets that a function maps onto each other, one to one, are of one size.
LEMMA SameSize ==
  ASSUME NEW S, NEW T, IsFiniteSet(S), NEW f \in [S -> T],
         \A x, y \in S : f[x] = f[y] => x = y,
         \A t \in T : \E x \in S : f[x] = t
  PROVE  IsFiniteSet(T) /\ Cardinality(T) = Cardinality(S)
<1>1. f \in Bijection(S, T)
  BY DEF Bijection, Injection, Surjection, IsInjective
<1> QED
  BY <1>1, FS_Bijection DEF ExistsBijection

(* The places of texts in a batch are finitely many, and counted. *)
LEMMA IndexFinite ==
  ASSUME NEW A, NEW s \in Seq(Address)
  PROVE  IsFiniteSet(IndexOf(A, s)) /\ Occurrences(A, s) = Cardinality(IndexOf(A, s))
         /\ Occurrences(A, s) \in Nat
<1>1. IsFiniteSet(1..Len(s))
  BY FS_Interval
<1>2. IndexOf(A, s) \in SUBSET (1..Len(s))
  BY DEF IndexOf
<1> QED
  BY <1>1, <1>2, FS_Subset, FS_CardinalityType DEF Occurrences, IndexOf

\* An empty batch, one address more at the end, and one less at the head.
LEMMA CountEmpty ==
  ASSUME NEW A
  PROVE  Occurrences(A, <<>>) = 0
<1>1. {i \in DOMAIN <<>> : <<>>[i] \in A} = {}
  OBVIOUS
<1> QED
  BY <1>1, FS_EmptySet DEF Occurrences

LEMMA CountAppend ==
  ASSUME NEW A, NEW s \in Seq(Address), NEW x \in Address
  PROVE  Occurrences(A, Append(s, x)) = Occurrences(A, s) + One(x, A)
<1> DEFINE n == Len(s) + 1
           t == Append(s, x)
<1>1. t \in Seq(Address) /\ DOMAIN t = 1..n /\ t[n] = x /\ \A i \in 1..Len(s) : t[i] = s[i]
  OBVIOUS
<1>2. DOMAIN s = 1..Len(s) /\ Len(s) \in Nat
  OBVIOUS
<1> HIDE DEF t
<1>3. Occurrences(A, t) = Cardinality(IndexOf(A, t))
  BY <1>1, IndexFinite
<1>4. n \notin IndexOf(A, s)
  BY <1>2 DEF IndexOf
<1>5. CASE x \in A
  <2>1. IndexOf(A, t) = IndexOf(A, s) \cup {n}
    BY <1>1, <1>2, <1>5 DEF IndexOf
  <2>2. Cardinality(IndexOf(A, s) \cup {n}) = Cardinality(IndexOf(A, s)) + 1
    BY <1>4, IndexFinite, FS_AddElement
  <2>3. One(x, A) = 1
    BY <1>5 DEF One
  <2> QED
    BY <1>3, <2>1, <2>2, <2>3, IndexFinite DEF t
<1>6. CASE x \notin A
  <2>1. IndexOf(A, t) = IndexOf(A, s)
    BY <1>1, <1>2, <1>6 DEF IndexOf
  <2>2. One(x, A) = 0
    BY <1>6 DEF One
  <2>3. Occurrences(A, t) = Occurrences(A, s) /\ Occurrences(A, s) \in Nat
    BY <1>3, <2>1, IndexFinite
  <2> QED
    BY <2>2, <2>3 DEF t
<1> QED
  BY <1>5, <1>6

LEMMA CountTail ==
  ASSUME NEW A, NEW s \in Seq(Address), s # <<>>
  PROVE  /\ Occurrences(A, s) = One(Head(s), A) + Occurrences(A, Tail(s))
         /\ Head(s) \in Address /\ Tail(s) \in Seq(Address)
<1> DEFINE t == Tail(s)
           Later == {i \in IndexOf(A, s) : i # 1}
           f == [i \in IndexOf(A, t) |-> i + 1]
<1>1. /\ t \in Seq(Address) /\ Head(s) = s[1] /\ Len(s) \in Nat \ {0} /\ Head(s) \in Address
      /\ DOMAIN s = 1..Len(s) /\ DOMAIN t = 1..(Len(s) - 1)
      /\ \A i \in 1..(Len(s) - 1) : t[i] = s[i + 1]
  OBVIOUS
<1> HIDE DEF t
<1>2. IsFiniteSet(IndexOf(A, t)) /\ Occurrences(A, t) = Cardinality(IndexOf(A, t)) /\ Occurrences(A, t) \in Nat
  BY <1>1, IndexFinite
<1>3. IsFiniteSet(Later) /\ Cardinality(Later) = Cardinality(IndexOf(A, t))
  <2>1. f \in [IndexOf(A, t) -> Later]
    BY <1>1 DEF IndexOf
  <2>2. \A x, y \in IndexOf(A, t) : f[x] = f[y] => x = y
    BY <1>1 DEF IndexOf
  <2>3. ASSUME NEW j \in Later PROVE \E x \in IndexOf(A, t) : f[x] = j
    <3>1. j - 1 \in IndexOf(A, t) /\ (j - 1) + 1 = j
      BY <1>1 DEF IndexOf
    <3> QED
      BY <3>1
  <2> HIDE DEF f, Later
  <2> QED
    BY <1>2, <2>1, <2>2, <2>3, SameSize
<1>4. CASE Head(s) \in A
  <2>1. IndexOf(A, s) = Later \cup {1} /\ 1 \notin Later
    BY <1>1, <1>4 DEF IndexOf
  <2> HIDE DEF Later
  <2>2. Cardinality(Later \cup {1}) = Cardinality(Later) + 1
    BY <1>3, <2>1, FS_AddElement
  <2>3. One(Head(s), A) = 1
    BY <1>4 DEF One
  <2>4. Occurrences(A, s) = Cardinality(IndexOf(A, s))
    BY IndexFinite
  <2>5. Occurrences(A, s) = 1 + Occurrences(A, t)
    BY <1>2, <1>3, <2>1, <2>2, <2>4
  <2> QED
    BY <1>1, <2>3, <2>5 DEF t
<1>5. CASE Head(s) \notin A
  <2>1. IndexOf(A, s) = Later
    BY <1>1, <1>5 DEF IndexOf
  <2> HIDE DEF Later
  <2>2. One(Head(s), A) = 0
    BY <1>5 DEF One
  <2> QED
    BY <1>1, <1>2, <1>3, <2>1, <2>2, IndexFinite DEF t
<1> QED
  BY <1>4, <1>5

LEMMA CountOne ==
  ASSUME NEW A, NEW x \in Address
  PROVE  Occurrences(A, <<x>>) = One(x, A)
<1>1. <<x>> = Append(<<>>, x) /\ <<>> \in Seq(Address)
  OBVIOUS
<1>2. One(x, A) \in Nat
  BY DEF One
<1>3. Occurrences(A, Append(<<>>, x)) = 0 + One(x, A)
  BY <1>1, CountAppend, CountEmpty
<1> QED
  BY <1>1, <1>2, <1>3

(* So are its places in all airdrops. *)
LEMMA PlacesFinite ==
  ASSUME NEW A, NEW s \in Seq(Seq(Address))
  PROVE  IsFiniteSet(Places(A, s)) /\ Cardinality(Places(A, s)) \in Nat
<1>1. IsFiniteSet(1..Len(s)) /\ IsFiniteSet(1..Batch)
  BY QueueAssumption, FS_Interval
<1>2. IsFiniteSet((1..Len(s)) \X (1..Batch))
  BY <1>1, FS_Product
<1>3. Places(A, s) \in SUBSET ((1..Len(s)) \X (1..Batch))
  BY DEF Places
<1> QED
  BY <1>2, <1>3, FS_Subset, FS_CardinalityType

\* One airdrop more at the end, and one less at the head.
LEMMA PlacesAppend ==
  ASSUME NEW A, NEW s \in Seq(Seq(Address)), NEW b \in Seq(Address), Len(b) <= Batch
  PROVE  Cardinality(Places(A, Append(s, b))) = Cardinality(Places(A, s)) + Occurrences(A, b)
<1> DEFINE n == Len(s) + 1
           t == Append(s, b)
           New == {p \in Places(A, t) : p[1] = n}
           f == [j \in IndexOf(A, b) |-> <<n, j>>]
<1>1. /\ t \in Seq(Seq(Address)) /\ Len(t) = n /\ t[n] = b /\ \A i \in 1..Len(s) : t[i] = s[i]
      /\ Len(s) \in Nat /\ n \in Nat /\ Batch \in Nat
  BY QueueAssumption
<1>2. DOMAIN b = 1..Len(b) /\ Len(b) \in Nat
  OBVIOUS
<1> HIDE DEF t
<1>3. New = {n} \X IndexOf(A, b)
  BY <1>1, <1>2 DEF Places, IndexOf
<1>4. IsFiniteSet(New) /\ Cardinality(New) = Occurrences(A, b)
  <2>1. f \in [IndexOf(A, b) -> New] /\ \A x, y \in IndexOf(A, b) : f[x] = f[y] => x = y
    BY <1>3
  <2>2. \A p \in New : \E j \in IndexOf(A, b) : f[j] = p
    BY <1>3
  <2>3. IsFiniteSet(IndexOf(A, b)) /\ Occurrences(A, b) = Cardinality(IndexOf(A, b))
    BY IndexFinite
  <2> HIDE DEF f, New
  <2>4. IsFiniteSet(New) /\ Cardinality(New) = Cardinality(IndexOf(A, b))
    BY <2>1, <2>2, <2>3, SameSize
  <2> QED
    BY <2>3, <2>4
<1>5. Places(A, t) = Places(A, s) \cup New /\ Places(A, s) \cap New = {}
  <2>1. \A i : i \in 1..n <=> i = n \/ i \in 1..Len(s)
    BY <1>1
  <2>2. n \notin 1..Len(s)
    BY <1>1
  <2>3. ASSUME NEW p \in Places(A, t), p[1] # n PROVE p \in Places(A, s)
    <3>1. p[1] \in 1..Len(s)
      BY <1>1, <2>1, <2>3 DEF Places
    <3>2. t[p[1]] = s[p[1]]
      BY <1>1, <3>1
    <3> QED
      BY <3>1, <3>2 DEF Places
  <2>4. ASSUME NEW p \in Places(A, s) PROVE p \in Places(A, t) /\ p[1] # n
    <3>1. p[1] \in 1..Len(s)
      BY DEF Places
    <3>2. t[p[1]] = s[p[1]] /\ p[1] \in 1..n /\ p[1] # n
      BY <1>1, <2>1, <2>2, <3>1
    <3> QED
      BY <1>1, <3>2 DEF Places
  <2> QED
    BY <2>3, <2>4
<1> HIDE DEF New
<1>6. Cardinality(Places(A, s) \cup New)
        = Cardinality(Places(A, s)) + Cardinality(New) - Cardinality({})
  BY <1>4, <1>5, PlacesFinite, FS_Union
<1>7. Cardinality(Places(A, s)) \in Nat /\ Occurrences(A, b) \in Nat /\ Cardinality({}) = 0
  BY PlacesFinite, IndexFinite, FS_EmptySet
<1> QED
  BY <1>4, <1>5, <1>6, <1>7 DEF t

\* What an element of Places is.
LEMMA PlaceType ==
  ASSUME NEW A, NEW s \in Seq(Seq(Address)), NEW i, NEW j
  PROVE  /\ <<i, j>> \in Places(A, s) <=> /\ i \in 1..Len(s) /\ j \in 1..Batch
                                          /\ j \in DOMAIN s[i] /\ s[i][j] \in A
         /\ \A p \in Places(A, s) : p = <<p[1], p[2]>>
BY DEF Places

LEMMA PlacesTail ==
  ASSUME NEW A, NEW s \in Seq(Seq(Address)), s # <<>>, Len(Head(s)) <= Batch
  PROVE  Cardinality(Places(A, s)) = Occurrences(A, Head(s)) + Cardinality(Places(A, Tail(s)))
<1> DEFINE b == Head(s)
           t == Tail(s)
           Now == {p \in Places(A, s) : p[1] = 1}
           Later == {p \in Places(A, s) : p[1] # 1}
           f == [j \in IndexOf(A, b) |-> <<1, j>>]
           g == [p \in Places(A, t) |-> <<p[1] + 1, p[2]>>]
<1>1. /\ t \in Seq(Seq(Address)) /\ b \in Seq(Address) /\ b = s[1] /\ Len(t) = Len(s) - 1
      /\ Len(s) \in Nat \ {0} /\ \A i \in 1..(Len(s) - 1) : t[i] = s[i + 1]
      /\ Batch \in Nat /\ Len(b) <= Batch
  BY QueueAssumption
<1>2. DOMAIN b = 1..Len(b) /\ Len(b) \in Nat
  BY <1>1
<1> HIDE DEF b, t
<1>3. Now = {1} \X IndexOf(A, b)
  BY <1>1, <1>2 DEF Places, IndexOf
<1>4. IsFiniteSet(Now) /\ Cardinality(Now) = Occurrences(A, b)
  <2>1. f \in [IndexOf(A, b) -> Now] /\ \A x, y \in IndexOf(A, b) : f[x] = f[y] => x = y
    BY <1>3
  <2>2. \A p \in Now : \E j \in IndexOf(A, b) : f[j] = p
    BY <1>3
  <2>3. IsFiniteSet(IndexOf(A, b)) /\ Occurrences(A, b) = Cardinality(IndexOf(A, b))
    BY <1>1, IndexFinite
  <2> HIDE DEF f, Now
  <2>4. IsFiniteSet(Now) /\ Cardinality(Now) = Cardinality(IndexOf(A, b))
    BY <2>1, <2>2, <2>3, SameSize
  <2> QED
    BY <2>3, <2>4
<1>5. IsFiniteSet(Later) /\ Cardinality(Later) = Cardinality(Places(A, t))
  <2>1. \A p \in Places(A, t) : p = <<p[1], p[2]>>
    BY <1>1, PlaceType
  <2>2. \A p \in Places(A, t) : /\ p[1] \in 1..(Len(s) - 1) /\ p[2] \in 1..Batch
                                /\ p[2] \in DOMAIN s[p[1] + 1] /\ s[p[1] + 1][p[2]] \in A
    BY <1>1 DEF Places
  <2>3. g \in [Places(A, t) -> Later]
    <3>1. ASSUME NEW p \in Places(A, t) PROVE <<p[1] + 1, p[2]>> \in Later
      <4>1. p[1] + 1 \in 1..Len(s) /\ p[1] + 1 # 1
        <5>1. \A n \in Nat \ {0} : \A i \in 1..(n - 1) : i + 1 \in 1..n /\ i + 1 # 1
          OBVIOUS
        <5>2. p[1] \in 1..(Len(s) - 1) /\ Len(s) \in Nat \ {0}
          BY <1>1, <2>2
        <5> QED
          BY <5>1, <5>2
      <4>2. <<p[1] + 1, p[2]>> \in Places(A, s)
        BY <2>2, <4>1, PlaceType
      <4> QED
        BY <4>1, <4>2
    <3> QED
      BY <3>1
  <2>4. ASSUME NEW p \in Places(A, t), NEW q \in Places(A, t), g[p] = g[q] PROVE p = q
    <3>0. p[1] \in Int /\ q[1] \in Int
      <4>1. \A n \in Nat \ {0} : 1..(n - 1) \subseteq Int
        OBVIOUS
      <4>2. p[1] \in 1..(Len(s) - 1) /\ q[1] \in 1..(Len(s) - 1) /\ Len(s) \in Nat \ {0}
        BY <1>1, <2>2
      <4> QED
        BY <4>1, <4>2
    <3>1. p[1] + 1 = q[1] + 1 /\ p[2] = q[2]
      <4>1. <<p[1] + 1, p[2]>> = <<q[1] + 1, q[2]>>
        BY <2>4
      <4> QED
        BY <4>1
    <3>2. p[1] = q[1]
      BY <3>0, <3>1
    <3> QED
      BY <2>1, <3>1, <3>2, Zenon
  <2>5. ASSUME NEW p \in Later PROVE \E q \in Places(A, t) : g[q] = p
    <3>1. p = <<p[1], p[2]>> /\ p[1] # 1
      BY PlaceType
    <3>2. p[1] \in 1..Len(s) /\ p[2] \in 1..Batch /\ p[2] \in DOMAIN s[p[1]] /\ s[p[1]][p[2]] \in A
      BY DEF Places
    <3> DEFINE i == p[1] - 1
    <3>3. i \in 1..(Len(s) - 1) /\ i + 1 = p[1]
      <4>1. \A n \in Nat : \A j \in 1..n : j # 1 => j - 1 \in 1..(n - 1) /\ (j - 1) + 1 = j
        OBVIOUS
      <4>2. Len(s) \in Nat
        BY <1>1
      <4> QED
        BY <3>1, <3>2, <4>1, <4>2
    <3>4. t[i] = s[p[1]]
      BY <1>1, <3>3
    <3>5. <<i, p[2]>> \in Places(A, t)
      <4>1. i \in 1..Len(t) /\ p[2] \in 1..Batch /\ p[2] \in DOMAIN t[i] /\ t[i][p[2]] \in A
        BY <1>1, <3>2, <3>3, <3>4
      <4>2. t \in Seq(Seq(Address))
        BY <1>1
      <4> HIDE DEF i, t
      <4> QED
        BY <4>1, <4>2 DEF Places
    <3>6. g[<<i, p[2]>>] = <<i + 1, p[2]>>
      BY <3>5
    <3>7. g[<<i, p[2]>>] = p
      BY <3>1, <3>3, <3>6
    <3> QED
      BY <3>5, <3>7
  <2>6. IsFiniteSet(Places(A, t))
    BY <1>1, PlacesFinite
  <2> HIDE DEF g, Later
  <2> QED
    BY <2>3, <2>4, <2>5, <2>6, SameSize
<1>6. Places(A, s) = Now \cup Later /\ Now \cap Later = {}
  OBVIOUS
<1> HIDE DEF Now, Later
<1>7. Cardinality(Now \cup Later) = Cardinality(Now) + Cardinality(Later) - Cardinality({})
  BY <1>4, <1>5, <1>6, FS_Union
<1>8. Occurrences(A, b) \in Nat /\ Cardinality(Places(A, t)) \in Nat /\ Cardinality({}) = 0
  BY <1>1, PlacesFinite, IndexFinite, FS_EmptySet
<1> QED
  BY <1>4, <1>5, <1>6, <1>7, <1>8 DEF b, t

-----------------------------------------------------------------------------
(* Between the list, the batches, the chain and the wallets *)

\* What was paid for a, or may still be.
Total(a) == paid[a] + Held({a})

\* No batch is larger than its worker makes it, and no airdrop has a text
\* that it could not be sent with.
Small ==
  /\ Len(worker.batch) <= Batch /\ Len(bworker.batch) <= BatchSize
  /\ \A i \in 1..Len(airdrops) : Len(airdrops[i]) <= Batch /\ Mintable(airdrops[i])

\* A worker that asks the list for a first address holds none.
EmptyHanded ==
  /\ worker.pc \in {"pop", "wait", "down"} => worker.batch = <<>>
  /\ bworker.pc \in {"len", "down"} => bworker.batch = <<>>

\* What a step of a worker or of the chain takes out of what is held: one
\* batch, or nothing.  The batch is paid, or what the signer takes of it is,
\* or it is gone: by a fault, or by a text that cannot be paid.
Takes(batch) ==
  /\ batch \in Seq(Address) /\ Len(batch) <= Largest
  /\ \A A \in SUBSET Address : /\ Held(A) = Held(A)' + Occurrences(A, batch)
                               /\ Occurrences(A, queue') <= Occurrences(A, queue)
  /\ \/ paid' = paid /\ (batch = <<>> \/ Faults \/ ~Mintable(batch))
     \/ Pay(batch) /\ Mintable(batch)
     \/ PaySigned(batch)

(* Everything counted is a number. *)
LEMMA CountsNat ==
  ASSUME TypeOK, NEW A
  PROVE  /\ Occurrences(A, queue) \in Nat /\ Occurrences(A, dump.queue) \in Nat
         /\ Occurrences(A, worker.batch) \in Nat /\ Occurrences(A, bworker.batch) \in Nat
         /\ InAirdrops(A) = Cardinality(Places(A, airdrops))
         /\ Cardinality(Places(A, airdrops)) \in Nat /\ Held(A) \in Nat
<1>1. /\ queue \in Seq(Address) /\ dump.queue \in Seq(Address)
      /\ worker.batch \in Seq(Address) /\ bworker.batch \in Seq(Address)
      /\ airdrops \in Seq(Seq(Address))
  BY DEF TypeOK
<1>2. InAirdrops(A) = Cardinality(Places(A, airdrops))
  BY DEF InAirdrops, Places
<1>3. /\ Occurrences(A, queue) \in Nat /\ Occurrences(A, dump.queue) \in Nat
      /\ Occurrences(A, worker.batch) \in Nat /\ Occurrences(A, bworker.batch) \in Nat
      /\ Cardinality(Places(A, airdrops)) \in Nat
  BY <1>1, IndexFinite, PlacesFinite
<1> QED
  BY <1>2, <1>3 DEF Held

\* What is held, with its parts named.
LEMMA HeldIs ==
  ASSUME NEW A
  PROVE  Held(A) = Occurrences(A, queue) + Occurrences(A, worker.batch)
                     + Occurrences(A, bworker.batch) + Cardinality(Places(A, airdrops))
BY DEF Held, InAirdrops, Places

\* A batch has room for as many texts as its worker takes, or the other does.
LEMMA LargestIs == Largest \in Nat \ {0} /\ Batch <= Largest /\ BatchSize <= Largest
BY QueueAssumption DEF Largest

\* Taking an address from the list into a batch leaves as much held.
LEMMA Moved ==
  ASSUME NEW A, NEW s \in Seq(Address), s # <<>>, NEW batch \in Seq(Address)
  PROVE  /\ Head(s) \in Address /\ Tail(s) \in Seq(Address)
         /\ Occurrences(A, Tail(s)) + Occurrences(A, Append(batch, Head(s)))
              = Occurrences(A, s) + Occurrences(A, batch)
         /\ Occurrences(A, Tail(s)) <= Occurrences(A, s)
         /\ Occurrences(A, Tail(s)) \in Nat /\ Occurrences(A, Append(batch, Head(s))) \in Nat
<1>1. /\ Occurrences(A, s) = One(Head(s), A) + Occurrences(A, Tail(s))
      /\ Head(s) \in Address /\ Tail(s) \in Seq(Address)
  BY CountTail
<1>2. Occurrences(A, Append(batch, Head(s))) = Occurrences(A, batch) + One(Head(s), A)
  BY <1>1, CountAppend
<1>3. One(Head(s), A) \in Nat /\ Occurrences(A, Tail(s)) \in Nat /\ Occurrences(A, batch) \in Nat
  BY <1>1, IndexFinite DEF One
<1> QED
  BY <1>1, <1>2, <1>3

\* A step that leaves the list, and what is held, as it is, takes nothing.
LEMMA TakesNothing ==
  ASSUME paid' = paid,
         \A A \in SUBSET Address : /\ Held(A)' = Held(A) /\ Held(A) \in Nat
                                   /\ Occurrences(A, queue') <= Occurrences(A, queue)
  PROVE  Takes(<<>>)
<1>1. \A A : Occurrences(A, <<>>) = 0
  BY CountEmpty
<1>2. <<>> \in Seq(Address) /\ Len(<<>>) = 0 /\ 0 <= Largest
  BY LargestIs
<1> QED
  BY <1>1, <1>2 DEF Takes

(* The worker and the chain take a batch at a time. *)
LEMMA WorkerTakes ==
  ASSUME TypeOK, Small, EmptyHanded, workerStep
  PROVE  \E batch : Takes(batch)
<1>0. /\ queue \in Seq(Address) /\ worker.batch \in Seq(Address) /\ airdrops \in Seq(Seq(Address))
      /\ \A A : /\ Occurrences(A, queue) \in Nat /\ Occurrences(A, worker.batch) \in Nat
                /\ Occurrences(A, bworker.batch) \in Nat /\ Cardinality(Places(A, airdrops)) \in Nat
                /\ Held(A) \in Nat /\ Occurrences(A, <<>>) = 0
  <2>1. queue \in Seq(Address) /\ worker.batch \in Seq(Address) /\ airdrops \in Seq(Seq(Address))
    BY DEF TypeOK
  <2> QED
    BY <2>1, CountsNat, CountEmpty
<1>t. \A A : /\ Held(A) = Occurrences(A, queue) + Occurrences(A, worker.batch)
                       + Occurrences(A, bworker.batch) + Cardinality(Places(A, airdrops))
             /\ Held(A)' = Occurrences(A, queue') + Occurrences(A, worker'.batch)
                       + Occurrences(A, bworker'.batch) + Cardinality(Places(A, airdrops'))
  BY HeldIs DEF Held, InAirdrops, Places
<1>1. CASE WorkerPop \/ (WorkerFill /\ queue' # queue)
  <2>1. /\ queue # <<>> /\ queue' = Tail(queue)
        /\ worker'.batch = Append(worker.batch, Head(queue))
        /\ UNCHANGED <<bworker, airdrops, paid>>
    <3>1. CASE WorkerPop
      <4>1. worker.batch = <<>> /\ <<Head(queue)>> = Append(<<>>, Head(queue))
        BY <3>1 DEF WorkerPop, EmptyHanded
      <4> QED
        BY <3>1, <4>1 DEF WorkerPop
    <3>2. CASE WorkerFill /\ queue' # queue
      BY <3>2 DEF WorkerFill, TypeOK
    <3> QED
      BY <1>1, <3>1, <3>2
  <2>2. ASSUME NEW A \in SUBSET Address
        PROVE  Held(A)' = Held(A) /\ Occurrences(A, queue') <= Occurrences(A, queue)
    <3>1. /\ Occurrences(A, queue') + Occurrences(A, worker'.batch)
               = Occurrences(A, queue) + Occurrences(A, worker.batch)
          /\ Occurrences(A, queue') <= Occurrences(A, queue)
          /\ Occurrences(A, queue') \in Nat /\ Occurrences(A, worker'.batch) \in Nat
      <4>1. LET moved == Append(worker.batch, Head(queue))
            IN  /\ Occurrences(A, Tail(queue)) + Occurrences(A, moved)
                     = Occurrences(A, queue) + Occurrences(A, worker.batch)
                /\ Occurrences(A, Tail(queue)) <= Occurrences(A, queue)
                /\ Occurrences(A, Tail(queue)) \in Nat /\ Occurrences(A, moved) \in Nat
        <5>1. queue \in Seq(Address) /\ worker.batch \in Seq(Address) /\ queue # <<>>
          BY <1>0, <2>1
        <5> QED
          BY <5>1, Moved
      <4>2. queue' = Tail(queue) /\ worker'.batch = Append(worker.batch, Head(queue))
        BY <2>1
      <4> QED
        BY <4>1, <4>2
    <3> QED
      BY <1>0, <1>t, <2>1, <3>1
  <2> QED
    BY <1>0, <2>1, <2>2, TakesNothing
<1>2. CASE WorkerFill /\ queue' = queue
  <2>1. worker'.batch = worker.batch /\ UNCHANGED <<queue, bworker, airdrops, paid>>
    <3>1. queue # <<>> => Tail(queue) # queue
      <4>1. queue # <<>> => Len(Tail(queue)) = Len(queue) - 1 /\ Len(queue) \in Nat
        BY <1>0
      <4> QED
        BY <4>1
    <3> QED
      BY <1>2, <3>1 DEF WorkerFill, TypeOK
  <2>2. \A A : Held(A)' = Held(A) /\ Occurrences(A, queue') <= Occurrences(A, queue)
    BY <1>0, <1>t, <2>1
  <2> QED
    BY <1>0, <2>1, <2>2, TakesNothing
<1>3. CASE WorkerSend
  <2>1. worker'.batch = <<>> /\ UNCHANGED <<queue, bworker, paid>>
    BY <1>3 DEF WorkerSend, redisVars
  <2>2. CASE airdrops' = Append(airdrops, worker.batch)
    <3>1. \A A : Cardinality(Places(A, airdrops'))
                   = Cardinality(Places(A, airdrops)) + Occurrences(A, worker.batch)
      BY <1>0, <2>2, PlacesAppend DEF Small
    <3>2. \A A : Held(A)' = Held(A) /\ Occurrences(A, queue') <= Occurrences(A, queue)
      BY <1>0, <1>t, <2>1, <3>1
    <3> QED
      BY <1>0, <2>1, <3>2, TakesNothing
  <2>3. CASE UNCHANGED airdrops /\ ~Mintable(worker.batch)
    <3>1. \A A : /\ Held(A) = Held(A)' + Occurrences(A, worker.batch)
                 /\ Occurrences(A, queue') <= Occurrences(A, queue)
      BY <1>0, <1>t, <2>1, <2>3
    <3>2. Len(worker.batch) <= Largest
      BY <1>0, LargestIs, QueueAssumption DEF Small
    <3>3. Takes(worker.batch)
      BY <1>0, <2>1, <2>3, <3>1, <3>2 DEF Takes
    <3> QED
      BY <3>3
  <2> QED
    BY <1>3, <2>2, <2>3 DEF WorkerSend
<1>4. CASE WorkerWait \/ WorkerStart
  <2>1. worker.batch = <<>> /\ worker'.batch = <<>> /\ UNCHANGED <<queue, bworker, airdrops, paid>>
    BY <1>4 DEF WorkerWait, WorkerStart, EmptyHanded, redisVars, TypeOK
  <2>2. \A A : Held(A)' = Held(A) /\ Occurrences(A, queue') <= Occurrences(A, queue)
    BY <1>0, <1>t, <2>1
  <2> QED
    BY <1>0, <2>1, <2>2, TakesNothing
<1>5. CASE WorkerCrash
  <2>1. worker'.batch = <<>> /\ UNCHANGED <<queue, bworker, airdrops, paid>> /\ Faults
    BY <1>5 DEF WorkerCrash, redisVars
  <2>2. \A A : /\ Held(A) = Held(A)' + Occurrences(A, worker.batch)
               /\ Occurrences(A, queue') <= Occurrences(A, queue)
    BY <1>0, <1>t, <2>1
  <2>3. Len(worker.batch) <= Largest
    BY <1>0, LargestIs, QueueAssumption DEF Small
  <2>4. Takes(worker.batch)
    BY <1>0, <2>1, <2>2, <2>3 DEF Takes
  <2> QED
    BY <2>4
<1>6. CASE MineAirdrop
  <2>1. /\ Pay(Head(airdrops)) /\ UNCHANGED <<queue, worker, bworker>>
        /\ airdrops # <<>> /\ airdrops' = Tail(airdrops)
    BY <1>6 DEF MineAirdrop, redisVars
  <2>2. Len(Head(airdrops)) <= Batch /\ Mintable(Head(airdrops))
    <3>1. Head(airdrops) = airdrops[1] /\ 1 \in 1..Len(airdrops)
      BY <1>0, <2>1
    <3> QED
      BY <3>1 DEF Small
  <2>3. Head(airdrops) \in Seq(Address) /\ Tail(airdrops) \in Seq(Seq(Address))
    BY <1>0, <2>1
  <2>4. \A A : Cardinality(Places(A, airdrops))
                 = Occurrences(A, Head(airdrops)) + Cardinality(Places(A, airdrops'))
    BY <1>0, <2>1, <2>2, PlacesTail
  <2>5. \A A : Occurrences(A, Head(airdrops)) \in Nat /\ Cardinality(Places(A, airdrops')) \in Nat
    BY <2>1, <2>3, IndexFinite, PlacesFinite
  <2>6. \A A : /\ Held(A) = Held(A)' + Occurrences(A, Head(airdrops))
               /\ Occurrences(A, queue') <= Occurrences(A, queue)
    BY <1>0, <1>t, <2>1, <2>4, <2>5
  <2>7. Len(Head(airdrops)) <= Largest
    <3>1. Len(Head(airdrops)) \in Nat
      BY <2>3
    <3> QED
      BY <2>2, <3>1, LargestIs, QueueAssumption
  <2>8. Takes(Head(airdrops))
    BY <2>1, <2>2, <2>3, <2>6, <2>7 DEF Takes
  <2> QED
    BY <2>8
<1> QED
  BY <1>1, <1>2, <1>3, <1>4, <1>5, <1>6 DEF workerStep, WorkerStep

(* So does the batch worker. *)
LEMMA BatchTakes ==
  ASSUME TypeOK, Small, EmptyHanded, batchStep
  PROVE  \E batch : Takes(batch)
<1>0. /\ queue \in Seq(Address) /\ bworker.batch \in Seq(Address)
      /\ \A A : /\ Occurrences(A, queue) \in Nat /\ Occurrences(A, worker.batch) \in Nat
                /\ Occurrences(A, bworker.batch) \in Nat /\ Cardinality(Places(A, airdrops)) \in Nat
                /\ Held(A) \in Nat /\ Occurrences(A, <<>>) = 0
  <2>1. queue \in Seq(Address) /\ bworker.batch \in Seq(Address)
    BY DEF TypeOK
  <2> QED
    BY <2>1, CountsNat, CountEmpty
<1>t. \A A : /\ Held(A) = Occurrences(A, queue) + Occurrences(A, worker.batch)
                       + Occurrences(A, bworker.batch) + Cardinality(Places(A, airdrops))
             /\ Held(A)' = Occurrences(A, queue') + Occurrences(A, worker'.batch)
                       + Occurrences(A, bworker'.batch) + Cardinality(Places(A, airdrops'))
  BY HeldIs DEF Held, InAirdrops, Places
<1>1. CASE BatchLen \/ BatchStart
  <2>1. bworker.batch = <<>> /\ bworker'.batch = <<>> /\ UNCHANGED <<queue, worker, airdrops, paid>>
    BY <1>1 DEF BatchLen, BatchStart, EmptyHanded, redisVars
  <2>2. \A A : Held(A)' = Held(A) /\ Occurrences(A, queue') <= Occurrences(A, queue)
    BY <1>0, <1>t, <2>1
  <2> QED
    BY <1>0, <2>1, <2>2, TakesNothing
<1>2. CASE BatchFill
  <2>1. CASE /\ queue # <<>>
             /\ bworker' = [bworker EXCEPT !.batch = Append(bworker.batch, Head(queue))]
             /\ queue' = Tail(queue)
    <3>1. /\ bworker'.batch = Append(bworker.batch, Head(queue)) /\ queue' = Tail(queue)
          /\ UNCHANGED <<worker, airdrops, paid>>
      BY <1>2, <2>1 DEF BatchFill, TypeOK
    <3>2. ASSUME NEW A \in SUBSET Address
          PROVE  Held(A)' = Held(A) /\ Occurrences(A, queue') <= Occurrences(A, queue)
      <4>1. /\ Occurrences(A, queue') + Occurrences(A, bworker'.batch)
                 = Occurrences(A, queue) + Occurrences(A, bworker.batch)
            /\ Occurrences(A, queue') <= Occurrences(A, queue)
            /\ Occurrences(A, queue') \in Nat /\ Occurrences(A, bworker'.batch) \in Nat
        <5>1. LET moved == Append(bworker.batch, Head(queue))
              IN  /\ Occurrences(A, Tail(queue)) + Occurrences(A, moved)
                       = Occurrences(A, queue) + Occurrences(A, bworker.batch)
                  /\ Occurrences(A, Tail(queue)) <= Occurrences(A, queue)
                  /\ Occurrences(A, Tail(queue)) \in Nat /\ Occurrences(A, moved) \in Nat
          <6>1. queue \in Seq(Address) /\ bworker.batch \in Seq(Address) /\ queue # <<>>
            BY <1>0, <2>1
          <6> QED
            BY <6>1, Moved
        <5> QED
          BY <3>1, <5>1
      <4> QED
        BY <1>0, <1>t, <3>1, <4>1
    <3> QED
      BY <1>0, <3>1, <3>2, TakesNothing
  <2>2. CASE bworker'.batch = bworker.batch /\ UNCHANGED queue
    <3>1. UNCHANGED <<worker, airdrops, paid>>
      BY <1>2 DEF BatchFill
    <3>2. \A A : Held(A)' = Held(A) /\ Occurrences(A, queue') <= Occurrences(A, queue)
      BY <1>0, <1>t, <2>2, <3>1
    <3> QED
      BY <1>0, <3>1, <3>2, TakesNothing
  <2> QED
    BY <1>2, <2>1, <2>2 DEF BatchFill, TypeOK
<1>3. CASE BatchRelay \/ BatchCrash
  <2>1. bworker'.batch = <<>> /\ UNCHANGED <<queue, worker, airdrops>>
    BY <1>3 DEF BatchRelay, BatchCrash, redisVars
  <2>2. \/ paid' = paid /\ (Faults \/ ~Mintable(bworker.batch))
        \/ PaySigned(bworker.batch)
    <3>1. ~Relayable(bworker.batch) => ~Mintable(bworker.batch)
      BY DEF Relayable, Mintable, Payable
    <3> QED
      BY <1>3, <3>1 DEF BatchRelay, BatchCrash
  <2>3. \A A : /\ Held(A) = Held(A)' + Occurrences(A, bworker.batch)
               /\ Occurrences(A, queue') <= Occurrences(A, queue)
    BY <1>0, <1>t, <2>1
  <2>4. Len(bworker.batch) <= Largest
    BY <1>0, LargestIs, QueueAssumption DEF Small
  <2>5. Takes(bworker.batch)
    BY <1>0, <2>2, <2>3, <2>4 DEF Takes
  <2> QED
    BY <2>5
<1> QED
  BY <1>1, <1>2, <1>3 DEF batchStep, BatchStep

(* The requests that have queued a text of A. *)
Pushers(A) == {r \in Requests : req[r].pushed /\ req[r].addr \in A}

(* How often texts of A were pushed is a number, too. *)
LEMMA PushesNat ==
  ASSUME NEW A
  PROVE  IsFiniteSet(Pushers(A)) /\ Pushes(A) = Cardinality(Pushers(A)) /\ Pushes(A) \in Nat
<1>1. Pushers(A) \in SUBSET Requests
  BY DEF Pushers
<1>2. IsFiniteSet(Pushers(A))
  BY <1>1, QueueAssumption, FS_Subset
<1> QED
  BY <1>2, FS_CardinalityType DEF Pushes, Pushers

(* A handler changes the list only as it pushes. *)
LEMMA ServerPushes ==
  ASSUME TypeOK, Marking, serverStep, NEW A
  PROVE  \/ queue' = queue /\ Pushers(A)' = Pushers(A)
         \/ \E r \in Requests :
              /\ req[r].addr \in Address /\ queue' = Append(queue, req[r].addr)
              /\ r \notin Pushers(A)
              /\ Pushers(A)' = IF req[r].addr \in A THEN Pushers(A) \cup {r} ELSE Pushers(A)
<1> USE DEF TypeOK
<1>1. CASE ServerCrash
  <2>1. queue' = queue
    BY <1>1 DEF ServerCrash, redisVars
  <2>2. \A q \in Requests : req'[q].pushed = req[q].pushed /\ req'[q].addr = req[q].addr
    BY <1>1 DEF ServerCrash, Serving
  <2> QED
    BY <2>1, <2>2 DEF Pushers
<1>2. ASSUME NEW r \in Requests, Request(r) PROVE queue' = queue /\ Pushers(A)' = Pushers(A)
  <2>1. queue' = queue /\ ~req[r].pushed
    BY <1>2 DEF Request, redisVars, Marking
  <2>2. \A q \in Requests \ {r} : req'[q] = req[q]
    BY <1>2 DEF Request
  <2>3. req'[r].pushed = FALSE
    <3>1. CASE req' = [req EXCEPT ![r].pc = "limited"]
      BY <2>1, <3>1
    <3>2. ASSUME NEW b \in Address, NEW p \in PostedFor[b],
                 req' = [req EXCEPT ![r] = [pc |-> "check", addr |-> b, valid |-> p.valid,
                                            served |-> p.served, pushed |-> FALSE]]
          PROVE  req'[r].pushed = FALSE
      BY <3>2
    <3> QED
      BY <1>2, <3>1, <3>2 DEF Request
  <2> QED
    BY <2>1, <2>2, <2>3 DEF Pushers
<1>3. ASSUME NEW r \in Requests, Check(r) \/ Mark(r)
      PROVE  queue' = queue /\ Pushers(A)' = Pushers(A)
  <2>1. queue' = queue /\ \E pc \in HandlerPC : req' = [req EXCEPT ![r].pc = pc]
    BY <1>3 DEF Check, Mark, redisVars, HandlerPC
  <2> QED
    BY <2>1 DEF Pushers
<1>4. ASSUME NEW r \in Requests, Push(r)
      PROVE  /\ req[r].addr \in Address /\ queue' = Append(queue, req[r].addr)
             /\ r \notin Pushers(A)
             /\ Pushers(A)' = IF req[r].addr \in A THEN Pushers(A) \cup {r} ELSE Pushers(A)
  <2>1. req[r].addr \in Address /\ queue' = Append(queue, req[r].addr) /\ ~req[r].pushed
    BY <1>4 DEF Push, Marking
  <2>2. /\ \A q \in Requests \ {r} : req'[q] = req[q]
        /\ req'[r].pushed /\ req'[r].addr = req[r].addr
    BY <1>4 DEF Push
  <2> QED
    BY <2>1, <2>2 DEF Pushers
<1> QED
  BY <1>1, <1>2, <1>3, <1>4 DEF serverStep, HandlerStep

\* What a handler does to the counts: nothing, or one more of each.
LEMMA ServerCount ==
  ASSUME TypeOK, Marking, serverStep, NEW A
  PROVE  /\ paid' = paid
         /\ \E n \in {0, 1} :
              /\ Occurrences(A, queue') = Occurrences(A, queue) + n
              /\ Held(A)' = Held(A) + n /\ Pushes(A)' = Pushes(A) + n
<1>0. /\ Occurrences(A, queue) \in Nat /\ Occurrences(A, worker.batch) \in Nat
      /\ Occurrences(A, bworker.batch) \in Nat /\ Cardinality(Places(A, airdrops)) \in Nat
      /\ queue \in Seq(Address)
  BY CountsNat DEF TypeOK
<1>t. /\ Held(A) = Occurrences(A, queue) + Occurrences(A, worker.batch)
                      + Occurrences(A, bworker.batch) + Cardinality(Places(A, airdrops))
      /\ Held(A)' = Occurrences(A, queue') + Occurrences(A, worker'.batch)
                      + Occurrences(A, bworker'.batch) + Cardinality(Places(A, airdrops'))
  BY HeldIs DEF Held, InAirdrops, Places
<1>p. /\ IsFiniteSet(Pushers(A)) /\ Pushes(A) = Cardinality(Pushers(A)) /\ Pushes(A) \in Nat
      /\ Pushes(A)' = Cardinality(Pushers(A)')
  BY PushesNat DEF Pushes, Pushers
<1>1. UNCHANGED <<worker, bworker, airdrops, paid>>
  BY DEF serverStep, ServerCrash, Request, HandlerStep, Check, Push, Mark
<1> DEFINE Counted(n) == /\ Occurrences(A, queue') = Occurrences(A, queue) + n
                         /\ Held(A)' = Held(A) + n /\ Pushes(A)' = Pushes(A) + n
<1>2. CASE queue' = queue /\ Pushers(A)' = Pushers(A)
  <2>1. Counted(0)
    BY <1>0, <1>t, <1>p, <1>1, <1>2
  <2> QED
    BY <1>1, <2>1
<1>3. ASSUME NEW r \in Requests, req[r].addr \in Address, queue' = Append(queue, req[r].addr),
             r \notin Pushers(A),
             Pushers(A)' = IF req[r].addr \in A THEN Pushers(A) \cup {r} ELSE Pushers(A)
      PROVE  \E n \in {0, 1} : Counted(n)
  <2>1. Occurrences(A, queue') = Occurrences(A, queue) + One(req[r].addr, A)
    BY <1>0, <1>3, CountAppend
  <2>2. One(req[r].addr, A) \in {0, 1}
    BY DEF One
  <2>3. Pushes(A)' = Pushes(A) + One(req[r].addr, A)
    <3>1. Cardinality(Pushers(A) \cup {r}) = Cardinality(Pushers(A)) + 1
      BY <1>3, <1>p, FS_AddElement
    <3>2. CASE req[r].addr \in A
      BY <1>3, <1>p, <3>1, <3>2 DEF One
    <3>3. CASE req[r].addr \notin A
      BY <1>3, <1>p, <3>3 DEF One
    <3> QED
      BY <3>2, <3>3
  <2>4. Held(A)' = Held(A) + One(req[r].addr, A)
    BY <1>0, <1>t, <1>1, <2>1, <2>2
  <2> QED
    BY <2>1, <2>2, <2>3, <2>4
<1> QED
  BY <1>1, <1>2, <1>3, ServerPushes

-----------------------------------------------------------------------------
(* Never more than was pushed *)

\* The list, the list a restart brings back, and everything paid or held.
Covered == \A a \in Address :
  /\ Occurrences({a}, queue) <= Pushes({a})
  /\ Occurrences({a}, dump.queue) <= Pushes({a})
  /\ Total(a) <= Pushes({a}) * (1 + restarts)

\* The signer and ethers let no other text through to a contract.
ValidPaid == \A a \in Address : paid[a] > 0 => a \in Valid

CInv == Small /\ EmptyHanded /\ Covered /\ ValidPaid

\* One more push allows one more payment, one more restart as many as pushes.
LEMMA Allowance ==
  ASSUME NEW p \in Nat, NEW k \in Nat
  PROVE  /\ p * (1 + k) \in Nat
         /\ p * (1 + k) <= (p + 1) * (1 + k) - 1
         /\ p * (1 + (k + 1)) = p * (1 + k) + p
<1>1. p * (1 + k) \in Nat
  OBVIOUS
<1>2. (p + 1) * (1 + k) = p * (1 + k) + (1 + k)
  OBVIOUS
<1>3. p * (1 + (k + 1)) = p * (1 + k) + p
  OBVIOUS
<1> QED
  BY <1>1, <1>2, <1>3

\* At the start nothing is held.
LEMMA InitHeld ==
  ASSUME Init, NEW A
  PROVE  Held(A) = 0
<1>1. queue = <<>> /\ worker.batch = <<>> /\ bworker.batch = <<>> /\ airdrops = <<>>
  BY DEF Init
<1>2. Occurrences(A, <<>>) = 0
  BY CountEmpty
<1>3. Cardinality(Places(A, <<>>)) = 0
  <2>1. Places(A, <<>>) = {}
    BY DEF Places
  <2> QED
    BY <2>1, FS_EmptySet
<1> QED
  BY <1>1, <1>2, <1>3, HeldIs

(* At the start nothing is counted. *)
LEMMA InitCInv == Init => CInv
<1> SUFFICES ASSUME Init PROVE CInv
  OBVIOUS
<1>1. TypeOK /\ Marking
  BY InitInv DEF IInv
<1>2. /\ queue = <<>> /\ dump.queue = <<>> /\ worker.batch = <<>> /\ bworker.batch = <<>>
      /\ airdrops = <<>> /\ restarts = 0
  BY DEF Init
<1>3. Small /\ EmptyHanded
  BY <1>2, QueueAssumption DEF Small, EmptyHanded
<1>4. ASSUME NEW a \in Address
      PROVE  /\ Occurrences({a}, queue) = 0 /\ Occurrences({a}, dump.queue) = 0
             /\ Total(a) = 0 /\ paid[a] = 0
  <2>1. Held({a}) = 0 /\ paid[a] = 0
    BY InitHeld DEF Init
  <2> QED
    BY <1>2, <2>1, CountEmpty DEF Total
<1>5. ASSUME NEW a \in Address
      PROVE  Pushes({a}) \in Nat /\ Pushes({a}) * (1 + restarts) \in Nat
  BY <1>2, PushesNat, Allowance
<1>6. Covered /\ ValidPaid
  <2>1. ASSUME NEW a \in Address
        PROVE  0 <= Pushes({a}) /\ 0 <= Pushes({a}) * (1 + restarts)
    BY <1>5
  <2>2. Covered
    BY <1>4, <2>1 DEF Covered
  <2>3. ASSUME NEW a \in Address PROVE ~ (paid[a] > 0)
    <3>1. paid[a] = 0
      BY <1>4
    <3> QED
      BY <3>1
  <2>4. ValidPaid
    BY <2>3 DEF ValidPaid
  <2> QED
    BY <2>2, <2>4
<1> QED
  BY <1>3, <1>6 DEF CInv

(* The batches stay small and the hands of an idle worker empty. *)
LEMMA SmallStep ==
  ASSUME TypeOK, Small, EmptyHanded, [Next]_vars
  PROVE  (Small /\ EmptyHanded)'
<1>0. Batch \in Nat \ {0} /\ BatchSize \in Nat \ {0}
  BY QueueAssumption
<1> USE <1>0 DEF TypeOK, Small, EmptyHanded
<1>1. CASE serverStep \/ redisStep \/ MineAirdrop \/ UNCHANGED vars
  <2>1. worker' = worker /\ bworker' = bworker
    BY <1>1 DEF serverStep, redisStep, ServerCrash, Request, HandlerStep, Check, Push, Mark,
       RedisSave, RedisRestart, MineAirdrop, vars
  <2>2. airdrops' = airdrops \/ (airdrops # <<>> /\ airdrops' = Tail(airdrops))
    BY <1>1 DEF serverStep, redisStep, ServerCrash, Request, HandlerStep, Check, Push, Mark,
       RedisSave, RedisRestart, MineAirdrop, vars
  <2>3. \A i \in 1..Len(airdrops') : Len(airdrops'[i]) <= Batch /\ Mintable(airdrops'[i])
    <3>1. CASE airdrops' = airdrops
      BY <3>1
    <3>2. CASE airdrops # <<>> /\ airdrops' = Tail(airdrops)
      <4>1. /\ Len(airdrops') = Len(airdrops) - 1 /\ Len(airdrops) \in Nat
            /\ \A i \in 1..(Len(airdrops) - 1) : airdrops'[i] = airdrops[i + 1]
        BY <3>2
      <4>2. ASSUME NEW i \in 1..Len(airdrops')
            PROVE  Len(airdrops'[i]) <= Batch /\ Mintable(airdrops'[i])
        <5>1. i \in 1..(Len(airdrops) - 1) /\ i + 1 \in 1..Len(airdrops)
          BY <4>1
        <5>2. airdrops'[i] = airdrops[i + 1]
          BY <4>1, <5>1
        <5> QED
          BY <5>1, <5>2
      <4> QED
        BY <4>2
    <3> QED
      BY <2>2, <3>1, <3>2
  <2> QED
    BY <2>1, <2>3
<1>2. CASE WorkerStep \/ WorkerCrash \/ WorkerStart
  <2>1. bworker' = bworker
    BY <1>2 DEF WorkerStep, WorkerPop, WorkerFill, WorkerSend, WorkerWait, WorkerCrash, WorkerStart
  <2>2. \/ airdrops' = airdrops
        \/ /\ airdrops' = Append(airdrops, worker.batch) /\ worker'.batch = <<>>
           /\ Mintable(worker.batch)
    BY <1>2 DEF WorkerStep, WorkerPop, WorkerFill, WorkerSend, WorkerWait, WorkerCrash, WorkerStart
  <2>3. \A i \in 1..Len(airdrops') : Len(airdrops'[i]) <= Batch /\ Mintable(airdrops'[i])
    <3>1. CASE airdrops' = Append(airdrops, worker.batch) /\ Mintable(worker.batch)
      <4>1. /\ Len(airdrops') = Len(airdrops) + 1 /\ Len(airdrops) \in Nat
            /\ airdrops'[Len(airdrops) + 1] = worker.batch
            /\ \A i \in 1..Len(airdrops) : airdrops'[i] = airdrops[i]
        BY <3>1
      <4>2. ASSUME NEW i \in 1..Len(airdrops')
            PROVE  Len(airdrops'[i]) <= Batch /\ Mintable(airdrops'[i])
        <5>1. \A n \in Nat : \A j \in 1..(n + 1) : j = n + 1 \/ j \in 1..n
          OBVIOUS
        <5>2. i = Len(airdrops) + 1 \/ i \in 1..Len(airdrops)
          BY <4>1, <5>1
        <5>3. CASE i = Len(airdrops) + 1
          BY <3>1, <4>1, <5>3
        <5>4. CASE i \in 1..Len(airdrops)
          BY <4>1, <5>4
        <5> QED
          BY <5>2, <5>3, <5>4
      <4> QED
        BY <4>2
    <3> QED
      BY <2>2, <3>1
  <2>4. /\ Len(worker'.batch) <= Batch
        /\ worker'.pc \in {"pop", "wait", "down"} => worker'.batch = <<>>
    <3>1. CASE WorkerPop
      BY <3>1 DEF WorkerPop
    <3>2. CASE WorkerFill
      <4>1. CASE /\ Len(worker.batch) < Batch /\ queue # <<>>
                 /\ worker' = [worker EXCEPT !.batch = Append(worker.batch, Head(queue))]
        <5>1. Len(Append(worker.batch, Head(queue))) = Len(worker.batch) + 1 /\ Len(worker.batch) \in Nat
          BY <4>1
        <5>2. worker'.batch = Append(worker.batch, Head(queue)) /\ worker'.pc = "fill"
          BY <3>2, <4>1 DEF WorkerFill
        <5> QED
          BY <4>1, <5>1, <5>2
      <4>2. CASE worker' = [worker EXCEPT !.pc = "send"]
        BY <4>2
      <4> QED
        BY <3>2, <4>1, <4>2 DEF WorkerFill
    <3>3. CASE WorkerSend \/ WorkerWait \/ WorkerCrash \/ WorkerStart
      BY <3>3 DEF WorkerSend, WorkerWait, WorkerCrash, WorkerStart
    <3> QED
      BY <1>2, <3>1, <3>2, <3>3 DEF WorkerStep
  <2> QED
    BY <2>1, <2>3, <2>4
<1>3. CASE batchStep
  <2>1. worker' = worker /\ airdrops' = airdrops
    BY <1>3 DEF batchStep, BatchStep, BatchLen, BatchFill, BatchRelay, BatchCrash, BatchStart
  <2>2. bworker'.pc \in {"len", "down"} => bworker'.batch = <<>>
    BY <1>3 DEF batchStep, BatchStep, BatchLen, BatchFill, BatchRelay, BatchCrash, BatchStart
  <2>3. Len(bworker'.batch) <= BatchSize
    <3>1. CASE BatchFill
      <4>1. CASE /\ Len(bworker.batch) < BatchSize /\ queue # <<>>
                 /\ bworker' = [bworker EXCEPT !.batch = Append(bworker.batch, Head(queue))]
        <5>1. /\ Len(Append(bworker.batch, Head(queue))) = Len(bworker.batch) + 1
              /\ Len(bworker.batch) \in Nat
          BY <4>1
        <5>2. bworker'.batch = Append(bworker.batch, Head(queue))
          BY <4>1
        <5> QED
          BY <4>1, <5>1, <5>2
      <4>2. CASE bworker'.batch = bworker.batch
        BY <4>2
      <4> QED
        BY <3>1, <4>1, <4>2 DEF BatchFill
    <3>2. CASE ~BatchFill
      BY <1>3, <3>2 DEF batchStep, BatchStep, BatchLen, BatchRelay, BatchCrash, BatchStart
    <3> QED
      BY <3>1, <3>2
  <2> QED
    BY <2>1, <2>2, <2>3
<1> QED
  BY <1>1, <1>2, <1>3 DEF Next, serverStep, redisStep, workerStep, batchStep

(* The steps that neither queue nor bring back take a batch at most. *)
LEMMA OthersTake ==
  ASSUME IInv, CInv, workerStep \/ batchStep \/ RedisSave \/ UNCHANGED vars
  PROVE  /\ \E batch : Takes(batch)
         /\ \A A : Pushes(A)' = Pushes(A)
         /\ restarts' = restarts
         /\ dump'.queue \in {dump.queue, queue}
<1>1. CASE workerStep
  <2>1. UNCHANGED <<req, dumpVars>>
    BY <1>1 DEF workerStep, WorkerStep, WorkerPop, WorkerFill, WorkerSend, WorkerWait,
       WorkerCrash, WorkerStart, MineAirdrop
  <2> QED
    BY <1>1, <2>1, WorkerTakes DEF Pushes, dumpVars, IInv, CInv
<1>2. CASE batchStep
  <2>1. UNCHANGED <<req, dumpVars>>
    BY <1>2 DEF batchStep, BatchStep, BatchLen, BatchFill, BatchRelay, BatchCrash, BatchStart
  <2> QED
    BY <1>2, <2>1, BatchTakes DEF Pushes, dumpVars, IInv, CInv
<1>3. CASE RedisSave \/ UNCHANGED vars
  <2>1. /\ UNCHANGED <<queue, restarts, req, worker, bworker, airdrops, paid>>
        /\ dump'.queue \in {dump.queue, queue}
    BY <1>3 DEF RedisSave, vars, redisVars, dumpVars
  <2>2. \A A : Held(A)' = Held(A) /\ Pushes(A)' = Pushes(A)
    BY <2>1 DEF Held, InAirdrops, Pushes
  <2>3. \A A : Held(A) \in Nat /\ Occurrences(A, queue) \in Nat
    BY CountsNat DEF IInv
  <2>4. Takes(<<>>)
    BY <2>1, <2>2, <2>3, TakesNothing
  <2> QED
    BY <2>1, <2>2, <2>4
<1> QED
  BY <1>1, <1>2, <1>3

(* What is taken is paid at most once. *)
LEMMA TakesAway ==
  ASSUME TypeOK, TypeOK', NEW batch, Takes(batch), NEW a \in Address
  PROVE  /\ Total(a)' <= Total(a) /\ Occurrences({a}, queue') <= Occurrences({a}, queue)
         /\ ValidPaid => (paid'[a] > 0 => a \in Valid)
<1>1. /\ Held({a}) = Held({a})' + Occurrences({a}, batch)
      /\ Occurrences({a}, queue') <= Occurrences({a}, queue)
      /\ batch \in Seq(Address)
  BY DEF Takes
<1>2. Occurrences({a}, batch) \in Nat /\ paid[a] \in Nat /\ paid'[a] \in Nat /\ Held({a}) \in Nat
  BY <1>1, IndexFinite, CountsNat DEF TypeOK
<1>3. Held({a})' \in Nat
  <2>1. /\ queue' \in Seq(Address) /\ worker'.batch \in Seq(Address)
        /\ bworker'.batch \in Seq(Address) /\ airdrops' \in Seq(Seq(Address))
    BY DEF TypeOK
  <2>2. /\ Occurrences({a}, queue') \in Nat /\ Occurrences({a}, worker'.batch) \in Nat
        /\ Occurrences({a}, bworker'.batch) \in Nat /\ Cardinality(Places({a}, airdrops')) \in Nat
    BY <2>1, IndexFinite, PlacesFinite
  <2> QED
    BY <2>2 DEF Held, InAirdrops, Places
<1>4. \/ paid'[a] = paid[a]
      \/ /\ paid'[a] = paid[a] + Occurrences({a}, batch)
         /\ a \in Valid \/ Mintable(batch)
  BY DEF Takes, Pay, PaySigned
<1>5. Mintable(batch) /\ a \notin Valid => Occurrences({a}, batch) = 0
  <2>1. ASSUME Mintable(batch), a \notin Valid PROVE Occurrences({a}, batch) = 0
    <3>1. {i \in DOMAIN batch : batch[i] \in {a}} = {}
      BY <2>1 DEF Mintable, Payable
    <3> QED
      BY <3>1, FS_EmptySet DEF Occurrences
  <2> QED
    BY <2>1
<1>6. Total(a) = paid[a] + Held({a}) /\ Total(a)' = paid'[a] + Held({a})'
  BY DEF Total
<1> QED
  BY <1>1, <1>2, <1>3, <1>4, <1>5, <1>6 DEF ValidPaid

(* No step leaves more of an address about than it was pushed. *)
LEMMA CoveredStep ==
  ASSUME IInv, CInv, [Next]_vars
  PROVE  (Covered /\ ValidPaid)'
<1> SUFFICES ASSUME NEW a \in Address
             PROVE  /\ Occurrences({a}, queue') <= Pushes({a})'
                    /\ Occurrences({a}, dump'.queue) <= Pushes({a})'
                    /\ Total(a)' <= Pushes({a})' * (1 + restarts')
                    /\ paid'[a] > 0 => a \in Valid
  BY DEF Covered, ValidPaid
<1> DEFINE q == Occurrences({a}, queue)
           d == Occurrences({a}, dump.queue)
           t == Total(a)
           p == Pushes({a})
           k == restarts
<1>1. /\ TypeOK /\ TypeOK' /\ Marking
      /\ k \in Nat /\ p \in Nat /\ q \in Nat /\ d \in Nat /\ t \in Nat
  <2>1. TypeOK /\ TypeOK' /\ Marking /\ k \in Nat /\ paid[a] \in Nat
    <3>1. TypeOK /\ TypeOK' /\ Marking
      BY StepInv DEF IInv
    <3>2. k \in Nat /\ paid[a] \in Nat
      BY <3>1, QueueAssumption DEF TypeOK
    <3> QED
      BY <3>1, <3>2
  <2>2. q \in Nat /\ d \in Nat /\ Held({a}) \in Nat
    BY <2>1, CountsNat
  <2>3. p \in Nat
    BY PushesNat
  <2> QED
    BY <2>1, <2>2, <2>3 DEF Total
<1>2. q <= p /\ d <= p /\ t <= p * (1 + k) /\ (paid[a] > 0 => a \in Valid)
  BY DEF CInv, Covered, ValidPaid
<1>3. /\ p * (1 + k) \in Nat /\ (p + 1) * (1 + k) \in Nat
      /\ p * (1 + k) <= (p + 1) * (1 + k) - 1 /\ p * (1 + (k + 1)) = p * (1 + k) + p
  <2>1. p + 1 \in Nat
    BY <1>1
  <2> QED
    BY <1>1, <2>1, Allowance
<1>4. CASE serverStep
  <2>1. restarts' = k /\ dump' = dump
    BY <1>4 DEF serverStep, ServerCrash, Request, HandlerStep, Check, Push, Mark, dumpVars
  <2>2. PICK n \in {0, 1} : /\ Occurrences({a}, queue') = q + n
                            /\ Held({a})' = Held({a}) + n /\ Pushes({a})' = p + n
    BY <1>1, <1>4, ServerCount
  <2>3. paid' = paid
    BY <1>1, <1>4, ServerCount
  <2>4. Total(a)' = t + n
    <3>1. Held({a}) \in Nat /\ paid[a] \in Nat
      BY <1>1, CountsNat DEF TypeOK
    <3>2. Total(a) = paid[a] + Held({a}) /\ Total(a)' = paid[a] + Held({a})'
      BY <2>3 DEF Total
    <3> QED
      BY <2>2, <3>1, <3>2
  <2> HIDE DEF q, d, t, p, k
  <2>5. CASE n = 0
    <3>1. Occurrences({a}, queue') = q /\ Total(a)' = t /\ Pushes({a})' = p
      BY <1>1, <2>2, <2>4, <2>5
    <3> QED
      BY <1>2, <2>1, <2>3, <3>1 DEF d
  <2>6. CASE n = 1
    <3>1. Occurrences({a}, queue') = q + 1 /\ Total(a)' = t + 1 /\ Pushes({a})' = p + 1
      BY <2>2, <2>4, <2>6
    <3>2. Occurrences({a}, dump'.queue) = d
      BY <2>1 DEF d
    <3>3. t + 1 <= (p + 1) * (1 + k)
      BY <1>1, <1>2, <1>3
    <3> QED
      BY <1>1, <1>2, <2>1, <2>3, <3>1, <3>2, <3>3
  <2> QED
    BY <2>5, <2>6
<1>5. CASE workerStep \/ batchStep \/ RedisSave \/ UNCHANGED vars
  <2>1. PICK batch : Takes(batch)
    BY <1>5, OthersTake
  <2>2. /\ Total(a)' <= t /\ Occurrences({a}, queue') <= q
        /\ paid'[a] > 0 => a \in Valid
    BY <1>1, <2>1, TakesAway DEF CInv
  <2>3. /\ Pushes({a})' = p /\ restarts' = k
        /\ Occurrences({a}, dump'.queue) \in {d, q}
    BY <1>5, OthersTake
  <2>4. Total(a)' \in Int /\ Occurrences({a}, queue') \in Int
    <3>1. /\ queue' \in Seq(Address) /\ worker'.batch \in Seq(Address)
          /\ bworker'.batch \in Seq(Address) /\ airdrops' \in Seq(Seq(Address)) /\ paid'[a] \in Nat
      BY <1>1 DEF TypeOK
    <3>2. /\ Occurrences({a}, queue') \in Nat /\ Occurrences({a}, worker'.batch) \in Nat
          /\ Occurrences({a}, bworker'.batch) \in Nat /\ Cardinality(Places({a}, airdrops')) \in Nat
      BY <3>1, IndexFinite, PlacesFinite
    <3>3. Total(a)' = paid'[a] + (Occurrences({a}, queue') + Occurrences({a}, worker'.batch)
                        + Occurrences({a}, bworker'.batch) + Cardinality(Places({a}, airdrops')))
      BY DEF Total, Held, InAirdrops, Places
    <3> QED
      BY <3>1, <3>2, <3>3
  <2> HIDE DEF q, d, t, p, k
  <2> QED
    BY <1>1, <1>2, <1>3, <2>2, <2>3, <2>4
<1>6. CASE RedisRestart
  <2>1. /\ queue' = dump.queue /\ dump' = dump /\ restarts' = k + 1
        /\ UNCHANGED <<req, worker, bworker, airdrops, paid>>
    BY <1>6 DEF RedisRestart
  <2>2. Pushes({a})' = p
    BY <2>1 DEF Pushes
  <2>3. Occurrences({a}, queue') = d /\ Occurrences({a}, dump'.queue) = d
    BY <2>1
  <2>4. Total(a)' <= t + d /\ Total(a)' \in Int
    <3> DEFINE w == Occurrences({a}, worker.batch)
               b == Occurrences({a}, bworker.batch)
               c == Cardinality(Places({a}, airdrops))
    <3>1. w \in Nat /\ b \in Nat /\ c \in Nat /\ paid[a] \in Nat
      BY <1>1, CountsNat DEF TypeOK
    <3>2. t = paid[a] + (q + w + b + c)
      BY HeldIs DEF Total
    <3>3. Total(a)' = paid[a] + (d + w + b + c)
      BY <2>1 DEF Total, Held, InAirdrops, Places
    <3> HIDE DEF q, d, t, p, k, w, b, c
    <3> QED
      BY <1>1, <3>1, <3>2, <3>3
  <2>5. paid' = paid
    BY <2>1
  <2> HIDE DEF q, d, t, p, k
  <2> QED
    BY <1>1, <1>2, <1>3, <2>1, <2>2, <2>3, <2>4, <2>5
<1> QED
  BY <1>4, <1>5, <1>6 DEF Next, serverStep, redisStep, workerStep, batchStep

(* Both invariants hold in every reachable state. *)
LEMMA Counting == Spec => [](IInv /\ CInv)
<1>1. Init => IInv /\ CInv
  BY InitInv, InitCInv
<1>2. IInv /\ CInv /\ [Next]_vars => (IInv /\ CInv)'
  <2> SUFFICES ASSUME IInv, CInv, [Next]_vars PROVE IInv' /\ CInv'
    OBVIOUS
  <2>1. IInv' /\ (Covered /\ ValidPaid)'
    BY StepInv, CoveredStep
  <2>2. (Small /\ EmptyHanded)'
    BY SmallStep DEF IInv, CInv
  <2> QED
    BY <2>1, <2>2 DEF CInv
<1> QED
  BY <1>1, <1>2, PTL DEF Spec

-----------------------------------------------------------------------------
(***************************************************************************)
(* Every reachable state of the queued claim path is well typed.           *)
(***************************************************************************)
THEOREM TypeCorrect == Spec => []TypeOK
<1>1. IInv => TypeOK
  BY DEF IInv
<1> QED
  BY <1>1, Invariant, PTL

(***************************************************************************)
(* An address POST /claim refuses as "already claimed" was queued, however *)
(* requests overlap and whichever process ends between two commands.       *)
(***************************************************************************)
THEOREM ClaimedWasPushedHolds == Spec => []ClaimedWasPushed
<1>1. IInv => ClaimedWasPushed
  BY DEF IInv
<1> QED
  BY <1>1, Invariant, PTL

(***************************************************************************)
(* An accepted claim is paid at most once, whichever worker takes it and   *)
(* whenever either crashes; a restart of Redis adds at most one payment    *)
(* for each push.                                                          *)
(***************************************************************************)
THEOREM PaidAtMostOncePerPushHolds == Spec => []PaidAtMostOncePerPush
<1>1. CInv => PaidAtMostOncePerPush
  BY DEF CInv, Covered, Total, PaidAtMostOncePerPush
<1> QED
  BY <1>1, Counting, PTL

\* A batch with a spoiler in it has room for one text less.
LEMMA BatchShare ==
  ASSUME NEW batch \in Seq(Address), NEW a \in Payable
  PROVE  /\ Occurrences({a}, batch) \in Nat /\ Occurrences(Spoilers, batch) \in Nat
         /\ Occurrences({a}, batch) + Occurrences(Spoilers, batch) <= Len(batch)
         /\ ~Mintable(batch) => Occurrences(Spoilers, batch) >= 1
<1> DEFINE X == IndexOf({a}, batch)
           Y == IndexOf(Spoilers, batch)
<1>1. /\ IsFiniteSet(X) /\ Occurrences({a}, batch) = Cardinality(X) /\ Cardinality(X) \in Nat
      /\ IsFiniteSet(Y) /\ Occurrences(Spoilers, batch) = Cardinality(Y) /\ Cardinality(Y) \in Nat
  BY IndexFinite
<1>2. X \cap Y = {} /\ X \cup Y \subseteq 1..Len(batch)
  BY DEF IndexOf, Spoilers
<1>3. ~Mintable(batch) => Y # {}
  <2>1. \A i \in DOMAIN batch : batch[i] \in Address
    OBVIOUS
  <2> QED
    BY <2>1 DEF Mintable, IndexOf, Spoilers
<1> HIDE DEF X, Y
<1>4. Cardinality(X \cup Y) = Cardinality(X) + Cardinality(Y) - Cardinality({})
  BY <1>1, <1>2, FS_Union
<1>5. Cardinality(X \cup Y) <= Len(batch)
  <2>1. IsFiniteSet(1..Len(batch)) /\ Cardinality(1..Len(batch)) = Len(batch)
    <3>1. Len(batch) \in Nat
      OBVIOUS
    <3> QED
      BY <3>1, FS_Interval
  <2> QED
    BY <1>2, <2>1, FS_Subset
<1>6. Y # {} => Cardinality(Y) >= 1
  BY <1>1, FS_EmptySet
<1> QED
  BY <1>1, <1>3, <1>4, <1>5, <1>6, FS_EmptySet

\* What a lost batch takes of one text, its spoilers pay for.
LEMMA SpoilersPay ==
  ASSUME NEW l \in Nat \ {0}, NEW s \in Int, NEW m \in Nat, NEW o \in Nat
  PROVE  /\ (l - 1) * s \in Int /\ (l - 1) * (s + m) >= (l - 1) * s
         /\ m >= 1 /\ o + m <= l => (l - 1) * (s + m) >= (l - 1) * s + o
<1>1. (l - 1) \in Nat
  OBVIOUS
<1> DEFINE k == l - 1
<1>2. k \in Nat /\ l = k + 1
  OBVIOUS
<1> HIDE DEF k
<1>3. k * (s + m) = k * s + k * m /\ k * s \in Int /\ k * m \in Nat
  BY <1>2
<1>4. m >= 1 => k * m >= k
  BY <1>2
<1>5. m >= 1 /\ o + m <= l => k >= o
  BY <1>2
<1>6. /\ k * s \in Int /\ k * (s + m) >= k * s
      /\ m >= 1 /\ o + m <= l => k * (s + m) >= k * s + o
  BY <1>2, <1>3, <1>4, <1>5
<1> QED
  BY <1>6 DEF k

(***************************************************************************)
(* Without crashes and restarts of Redis nothing payable disappears        *)
(* between the list, the batches and the chain but with a text that no     *)
(* worker can pay, and each of those costs less than a batch: for any      *)
(* texts, those ethers does not take and those of wallets that refuse      *)
(* included.                                                               *)
(***************************************************************************)
THEOREM NothingLostHolds ==
  ASSUME ~Faults, MaxRestarts = 0
  PROVE  Spec => []NothingLost
<1> DEFINE Bound(a) == Pushes({a}) <= Total(a) + (Largest - 1) * Spoiled
<1>0. /\ NothingLost <=> \A a \in Payable : Bound(a)
      /\ NothingLost' <=> \A a \in Payable : Bound(a)'
  BY DEF NothingLost, Total
<1>1. Init => NothingLost
  <2> SUFFICES ASSUME Init, NEW a \in Payable PROVE Bound(a)
    BY <1>0
  <2>1. Held({a}) = 0 /\ Held(Spoilers) = 0 /\ paid[a] = 0
    <3>1. a \in Address
      BY QueueAssumption DEF Payable
    <3> QED
      BY <3>1, InitHeld DEF Init
  <2>2. Pushes({a}) = 0 /\ Pushes(Spoilers) = 0
    <3>1. Pushers({a}) = {} /\ Pushers(Spoilers) = {}
      BY DEF Init, Pushers
    <3> QED
      BY <3>1, PushesNat, FS_EmptySet
  <2>3. Total(a) = 0 /\ Spoiled = 0
    BY <2>1, <2>2 DEF Total, Spoiled
  <2> QED
    BY <2>2, <2>3, LargestIs
<1>2. IInv /\ CInv /\ NothingLost /\ [Next]_vars => NothingLost'
  <2> SUFFICES ASSUME IInv, CInv, NothingLost, [Next]_vars, NEW a \in Payable
               PROVE  Bound(a)'
    BY <1>0
  <2>a. a \in Address /\ {a} \in SUBSET Address /\ Spoilers \in SUBSET Address
    BY QueueAssumption DEF Payable, Spoilers
  <2>l. Largest \in Nat \ {0}
    BY LargestIs
  <2>n. /\ Pushes({a}) \in Nat /\ Pushes(Spoilers) \in Nat
        /\ Held({a}) \in Nat /\ Held(Spoilers) \in Nat /\ paid[a] \in Nat
    BY <2>a, PushesNat, CountsNat DEF IInv, TypeOK
  <2>s. Spoiled \in Int /\ (Largest - 1) * Spoiled \in Int
    BY <2>l, <2>n DEF Spoiled
  <2>1. Pushes({a}) <= paid[a] + Held({a}) + (Largest - 1) * Spoiled
    BY DEF NothingLost
  <2>2. CASE serverStep
    <3>1. PICK n \in {0, 1} : Held({a})' = Held({a}) + n /\ Pushes({a})' = Pushes({a}) + n
      BY <2>2, ServerCount DEF IInv
    <3>2. PICK m \in {0, 1} : /\ Held(Spoilers)' = Held(Spoilers) + m
                              /\ Pushes(Spoilers)' = Pushes(Spoilers) + m
      BY <2>2, ServerCount DEF IInv
    <3>3. Spoiled' = Spoiled
      BY <2>n, <3>2 DEF Spoiled
    <3>4. Total(a)' = paid[a] + Held({a}) + n
      <4>1. paid' = paid
        BY <2>2, ServerCount DEF IInv
      <4> QED
        BY <2>n, <3>1, <4>1 DEF Total
    <3> HIDE DEF Largest
    <3> QED
      BY <2>1, <2>n, <2>s, <3>1, <3>3, <3>4
  <2>3. CASE workerStep \/ batchStep \/ UNCHANGED vars
    <3>1. PICK batch : Takes(batch)
      BY <2>3, OthersTake
    <3> DEFINE o == Occurrences({a}, batch)
               m == Occurrences(Spoilers, batch)
    <3>2. Pushes({a})' = Pushes({a}) /\ Pushes(Spoilers)' = Pushes(Spoilers)
      BY <2>3, OthersTake
    <3>3. Held({a}) = Held({a})' + o /\ Held(Spoilers) = Held(Spoilers)' + m
      BY <2>a, <3>1 DEF Takes
    <3>4. /\ o \in Nat /\ m \in Nat /\ o + m <= Largest
          /\ ~Mintable(batch) => m >= 1
      <4>1. batch \in Seq(Address) /\ Len(batch) \in Nat /\ Len(batch) <= Largest
        BY <3>1 DEF Takes
      <4> HIDE DEF Largest
      <4> QED
        BY <2>l, <4>1, BatchShare
    <3>5. Held({a})' \in Int /\ Held(Spoilers)' \in Int
      <4>1. TypeOK'
        BY StepInv DEF IInv
      <4>2. /\ queue' \in Seq(Address) /\ worker'.batch \in Seq(Address)
            /\ bworker'.batch \in Seq(Address) /\ airdrops' \in Seq(Seq(Address))
        BY <4>1 DEF TypeOK
      <4>3. \A A : /\ Occurrences(A, queue') \in Nat /\ Occurrences(A, worker'.batch) \in Nat
                   /\ Occurrences(A, bworker'.batch) \in Nat
                   /\ Cardinality(Places(A, airdrops')) \in Nat
        BY <4>2, IndexFinite, PlacesFinite
      <4>4. ASSUME NEW A PROVE Held(A)' \in Int
        <5>1. InAirdrops(A)' = Cardinality(Places(A, airdrops'))
          BY DEF InAirdrops, Places
        <5>2. InAirdrops(A)' \in Nat
          BY <4>3, <5>1
        <5> HIDE DEF Places
        <5>3. Held(A)' = Occurrences(A, queue') + Occurrences(A, worker'.batch)
                           + Occurrences(A, bworker'.batch) + InAirdrops(A)'
          BY DEF Held
        <5> QED
          BY <4>3, <5>2, <5>3
      <4> QED
        BY <4>4
    <3>6. Spoiled' = Spoiled + m
      <4> HIDE DEF m
      <4> QED
        BY <2>n, <3>2, <3>3, <3>4, <3>5 DEF Spoiled
    <3>7. \/ paid'[a] = paid[a] /\ o = 0
          \/ paid'[a] = paid[a] /\ m >= 1
          \/ paid'[a] = paid[a] + o
      <4>1. a \in Valid
        BY DEF Payable
      <4>2. batch = <<>> => o = 0
        BY CountEmpty
      <4> QED
        BY <2>a, <3>1, <3>4, <4>1, <4>2 DEF Takes, Pay, PaySigned
    <3>8. /\ (Largest - 1) * (Spoiled + m) \in Int
          /\ (Largest - 1) * (Spoiled + m) >= (Largest - 1) * Spoiled
          /\ m >= 1 => (Largest - 1) * (Spoiled + m) >= (Largest - 1) * Spoiled + o
      <4>1. Spoiled + m \in Int
        BY <2>s, <3>4
      <4> HIDE DEF Largest, Spoiled, o, m
      <4> QED
        BY <2>l, <2>s, <3>4, <4>1, SpoilersPay
    <3>9. Total(a)' = paid'[a] + Held({a})'
      BY DEF Total
    <3> HIDE DEF Largest, Spoiled, o, m
    <3> QED
      BY <2>1, <2>n, <2>s, <3>2, <3>3, <3>4, <3>5, <3>6, <3>7, <3>8, <3>9
  <2>4. ~RedisSave /\ ~RedisRestart
    BY DEF RedisSave, RedisRestart, IInv, TypeOK
  <2> QED
    BY <2>2, <2>3, <2>4 DEF Next, serverStep, workerStep, batchStep
<1> QED
  BY <1>1, <1>2, Counting, PTL DEF Spec

-----------------------------------------------------------------------------
(* How many requests can queue one spelling *)

\* Requests that have passed the check of a, or still may.
Claimants(a) == {r \in Requests :
  /\ req[r].addr = a
  /\ req[r].pushed \/ req[r].pc = "push" \/ (req[r].pc = "check" /\ a \notin claimed)}

OInv ==
  /\ \A r \in Requests : req[r].pushed /\ req[r].addr \notin claimed => req[r].pc = "mark"
  /\ Cardinality(Serving) <= InFlight
  /\ \A a \in Address : Cardinality(Claimants(a)) <= InFlight

\* Any set of requests that is part of a small one is small.
LEMMA SmallPart ==
  ASSUME NEW S, NEW T, T \subseteq Requests, S \subseteq T, Cardinality(T) <= InFlight
  PROVE  Cardinality(S) <= InFlight
<1>1. IsFiniteSet(T) /\ IsFiniteSet(S)
  BY QueueAssumption, FS_Subset
<1>2. Cardinality(S) <= Cardinality(T) /\ Cardinality(S) \in Nat /\ Cardinality(T) \in Nat
  BY <1>1, FS_Subset, FS_CardinalityType
<1> QED
  BY <1>2, QueueAssumption

(* At the start no request has passed the check. *)
LEMMA InitOInv == Init => OInv
<1> SUFFICES ASSUME Init PROVE OInv
  OBVIOUS
<1>1. \A r \in Requests : req[r].pc = "idle" /\ req[r].pushed = FALSE
  BY DEF Init
<1>2. Serving = {} /\ \A a \in Address : Claimants(a) = {}
  BY <1>1 DEF Serving, Claimants
<1>3. Cardinality({}) = 0 /\ 0 <= InFlight
  BY FS_EmptySet, QueueAssumption
<1>4. Cardinality(Serving) <= InFlight /\ \A a \in Address : Cardinality(Claimants(a)) <= InFlight
  BY <1>2, <1>3
<1>5. \A r \in Requests : ~req[r].pushed
  BY <1>1
<1> QED
  BY <1>4, <1>5 DEF OInv

(* Whoever pushes an address without a mark is being served. *)
LEMMA StepOInv ==
  ASSUME ~Faults, MaxRestarts = 0, IInv, OInv, [Next]_vars
  PROVE  OInv'
<1> USE DEF TypeOK
<1>1. TypeOK /\ Marking
  BY DEF IInv
<1>2. CASE UNCHANGED <<req, claimed>>
  BY <1>2 DEF OInv, Serving, Claimants
<1>3. ASSUME NEW r \in Requests, Request(r) \/ HandlerStep(r)
      PROVE  OInv'
  <2>1. \A q \in Requests \ {r} : req'[q] = req[q]
    BY <1>1, <1>3 DEF Request, HandlerStep, Check, Push, Mark
  <2>2. \/ /\ req[r].pc = "idle" /\ ~req'[r].pushed /\ req'[r].pc \in {"check", "limited"}
           /\ claimed' = claimed /\ Cardinality(Serving) < InFlight
        \/ /\ req[r].pc = "check" /\ ~req'[r].pushed
           /\ claimed' = claimed /\ req'[r].addr = req[r].addr
           /\ req'[r].pc \in {"duplicate", "ineligible", "push"}
           /\ req'[r].pc = "push" => req[r].addr \notin claimed
        \/ /\ req[r].pc = "push" /\ req'[r].pc = "mark"
           /\ claimed' = claimed /\ req'[r].addr = req[r].addr
        \/ /\ req[r].pc = "mark" /\ req'[r].pc = "queued" /\ req'[r].addr \in claimed'
           /\ claimed \subseteq claimed' /\ req'[r].addr = req[r].addr /\ req'[r].pushed
    <3>1. CASE Request(r)
      <4>1. req[r].pc = "idle" /\ claimed' = claimed /\ Cardinality(Serving) < InFlight
        BY <3>1 DEF Request, redisVars
      <4>2. CASE req' = [req EXCEPT ![r].pc = "limited"]
        BY <1>1, <4>1, <4>2 DEF Marking
      <4>3. ASSUME NEW b \in Address, NEW p \in PostedFor[b],
                   req' = [req EXCEPT ![r] = [pc |-> "check", addr |-> b, valid |-> p.valid,
                                              served |-> p.served, pushed |-> FALSE]]
            PROVE  req'[r].pc = "check" /\ req'[r].pushed = FALSE
        BY <1>1, <4>3
      <4> QED
        BY <3>1, <4>1, <4>2, <4>3 DEF Request
    <3>2. CASE Check(r)
      BY <1>1, <3>2 DEF Check, redisVars, Marking
    <3>3. CASE Push(r)
      BY <1>1, <3>3 DEF Push
    <3>4. CASE Mark(r)
      BY <1>1, <3>4 DEF Mark, Marking
    <3> QED
      BY <1>3, <3>1, <3>2, <3>3, <3>4 DEF HandlerStep
  <2>3. claimed \subseteq claimed'
    BY <2>2
  <2>4. \A q \in Requests : req'[q].pushed /\ req'[q].addr \notin claimed' => req'[q].pc = "mark"
    BY <2>1, <2>2, <2>3 DEF OInv
  <2>5. Cardinality(Serving') <= InFlight
    <3>1. CASE r \notin Serving /\ Cardinality(Serving) < InFlight
      <4>1. Serving' \subseteq Serving \cup {r} /\ Serving \cup {r} \subseteq Requests
        BY <2>1 DEF Serving
      <4>2. IsFiniteSet(Serving)
        BY QueueAssumption, FS_Subset DEF Serving
      <4>3. Cardinality(Serving \cup {r}) = Cardinality(Serving) + 1 /\ Cardinality(Serving) \in Nat
        BY <3>1, <4>2, FS_AddElement, FS_CardinalityType
      <4>4. Cardinality(Serving \cup {r}) <= InFlight
        BY <3>1, <4>3, QueueAssumption
      <4> QED
        BY <4>1, <4>4, SmallPart
    <3>2. CASE r \in Serving
      <4>1. Serving' \subseteq Serving /\ Serving \subseteq Requests
        BY <2>1, <3>2 DEF Serving
      <4> QED
        BY <4>1, SmallPart DEF OInv
    <3> QED
      BY <2>2, <3>1, <3>2 DEF Serving
  <2>6. ASSUME NEW a \in Address PROVE Cardinality(Claimants(a)') <= InFlight
    <3>1. CASE a \in claimed'
      <4>1. Claimants(a)' \subseteq Claimants(a) /\ Claimants(a) \subseteq Requests
        <5>1. ASSUME NEW q \in Requests \ {r}, q \in Claimants(a)' PROVE q \in Claimants(a)
          BY <2>1, <2>3, <3>1, <5>1 DEF Claimants
        <5>2. ASSUME r \in Claimants(a)' PROVE r \in Claimants(a)
          <6>1. req'[r].addr = a /\ (req'[r].pushed \/ req'[r].pc = "push")
            BY <3>1, <5>2 DEF Claimants
          <6>2. req[r].pc = "mark" => req[r].pushed
            BY <1>1 DEF Marking
          <6> QED
            BY <2>2, <3>1, <6>1, <6>2 DEF Claimants
        <5> QED
          BY <5>1, <5>2 DEF Claimants
      <4> QED
        BY <4>1, SmallPart DEF OInv
    <3>2. CASE a \notin claimed'
      <4>1. Claimants(a)' \subseteq Serving' /\ Serving' \subseteq Requests
        BY <2>4, <3>2 DEF Claimants, Serving
      <4> QED
        BY <2>5, <4>1, SmallPart
    <3> QED
      BY <3>1, <3>2
  <2> QED
    BY <2>4, <2>5, <2>6 DEF OInv
<1>4. ~ServerCrash /\ ~RedisSave /\ ~RedisRestart
  BY <1>1 DEF ServerCrash, RedisSave, RedisRestart
<1>5. CASE workerStep \/ batchStep \/ UNCHANGED vars
  BY <1>2, <1>5 DEF workerStep, WorkerStep, WorkerPop, WorkerFill, WorkerSend, WorkerWait,
     WorkerCrash, WorkerStart, MineAirdrop, batchStep, BatchStep, BatchLen, BatchFill,
     BatchRelay, BatchCrash, BatchStart, vars, redisVars
<1> QED
  BY <1>3, <1>4, <1>5 DEF Next, workerStep, batchStep

(***************************************************************************)
(* Without crashes and restarts of Redis one spelling is queued at most as *)
(* often as requests are served at once: later ones are refused.           *)
(***************************************************************************)
THEOREM PushesBoundedHolds ==
  ASSUME ~Faults, MaxRestarts = 0
  PROVE  Spec => []PushesBounded
<1>1. Init => IInv /\ OInv
  BY InitInv, InitOInv
<1>2. IInv /\ OInv /\ [Next]_vars => IInv' /\ OInv'
  BY StepInv, StepOInv
<1>3. OInv => PushesBounded
  <2> SUFFICES ASSUME OInv, NEW a \in Address PROVE Pushes({a}) <= InFlight
    BY DEF PushesBounded
  <2>1. Pushers({a}) \subseteq Claimants(a) /\ Claimants(a) \subseteq Requests
    BY DEF Pushers, Claimants
  <2> QED
    BY <2>1, SmallPart, PushesNat DEF OInv
<1> QED
  BY <1>1, <1>2, <1>3, PTL DEF Spec

-----------------------------------------------------------------------------
(* The Merkle tree *)

\* A set of numbers has a least one: what induction rests on here.
LEMMA LeastNumber ==
  ASSUME NEW T, T \subseteq Nat, T # {}
  PROVE  \E x \in T : \A y \in T : x <= y
<1> DEFINE R == OpToRel(<, Nat)
<1>1. IsWellFoundedOn(R, Nat)
  BY NatLessThanWellFounded
<1>2. \A x, y \in Nat : (<<y, x>> \in R) <=> y < x
  BY DEF OpToRel
<1> HIDE DEF R
<1>3. PICK x \in T : \A y \in T : ~ (<<y, x>> \in R)
  BY <1>1, WFMin
<1>4. \A y \in T : ~ (y < x)
  BY <1>2, <1>3
<1> QED
  BY <1>4

\* Induction over the numbers, for a set: its complement has no least number.
LEMMA NumberInduction ==
  ASSUME NEW T, T \subseteq Nat, 0 \in T, \A k \in T : k + 1 \in T
  PROVE  T = Nat
<1> SUFFICES ASSUME Nat \ T # {} PROVE FALSE
  OBVIOUS
<1>1. PICK x \in Nat \ T : \A y \in Nat \ T : x <= y
  BY LeastNumber
<1>2. x - 1 \in Nat /\ x - 1 < x /\ (x - 1) + 1 = x
  BY <1>1
<1>3. x - 1 \in T
  BY <1>1, <1>2
<1> QED
  BY <1>1, <1>2, <1>3

\* The three recursions of Eligibility: step k from the value below it.
Above(of, k, below) ==
  CASE of.kind = "layers"   -> (IF k = 0 THEN [i \in DOMAIN of.wallets |-> LeafOf(of.wallets[i])]
                                         ELSE LayerAbove(below))
    [] of.kind = "climb"    -> (IF k = 0 THEN [at |-> of.n, proof |-> <<>>]
                                ELSE [at |-> (below.at + 1) \div 2,
                                      proof |-> IF Sibling(below.at) \in DOMAIN of.layer[k - 1]
                                                  THEN Append(below.proof, of.layer[k - 1][Sibling(below.at)])
                                                  ELSE below.proof])
    [] of.kind = "computed" -> (IF k = 0 THEN of.leaf ELSE NodeOf(below, of.proof[k]))

\* What a recursive function is up to n
Upto(of, n, g) ==
  /\ g = [k \in 0..n |-> g[k]]
  /\ \A k \in 0..n : g[k] = Above(of, k, IF k = 0 THEN of ELSE g[k - 1])

(* Each of them has a function up to any number, *)
LEMMA RecursionExists ==
  ASSUME NEW of
  PROVE  \A n \in Nat : \E g : Upto(of, n, g)
<1> DEFINE T == {n \in Nat : \E g : Upto(of, n, g)}
<1>1. 0 \in T
  <2> DEFINE g == [k \in 0..0 |-> Above(of, 0, of)]
  <2>1. g = [k \in 0..0 |-> g[k]] /\ \A k \in 0..0 : g[k] = Above(of, k, IF k = 0 THEN of ELSE g[k - 1])
    <3>1. \A k \in 0..0 : k = 0
      OBVIOUS
    <3> QED
      BY <3>1
  <2> QED
    BY <2>1 DEF Upto
<1>2. ASSUME NEW n \in T PROVE n + 1 \in T
  <2>1. PICK g : Upto(of, n, g)
    BY <1>2
  <2> DEFINE h == [k \in 0..(n + 1) |-> IF k = n + 1 THEN Above(of, n + 1, g[n]) ELSE g[k]]
  <2>2. h = [k \in 0..(n + 1) |-> h[k]]
    OBVIOUS
  <2>3. ASSUME NEW k \in 0..(n + 1)
        PROVE  h[k] = Above(of, k, IF k = 0 THEN of ELSE h[k - 1])
    <3>1. CASE k = n + 1
      <4>1. k - 1 = n /\ n \in 0..(n + 1) /\ n # n + 1 /\ k # 0
        BY <3>1
      <4>2. h[k - 1] = g[n] /\ h[k] = Above(of, n + 1, g[n])
        BY <3>1, <4>1
      <4> HIDE DEF h
      <4> QED
        BY <3>1, <4>1, <4>2
    <3>2. CASE k # n + 1
      <4>1. k \in 0..n /\ h[k] = g[k]
        BY <3>2
      <4>2. g[k] = Above(of, k, IF k = 0 THEN of ELSE g[k - 1])
        BY <2>1, <4>1 DEF Upto
      <4>3. k # 0 => h[k - 1] = g[k - 1]
        BY <4>1
      <4> HIDE DEF h
      <4>4. (IF k = 0 THEN of ELSE h[k - 1]) = (IF k = 0 THEN of ELSE g[k - 1])
        BY <4>3
      <4> QED
        BY <4>1, <4>2, <4>4
    <3> QED
      BY <3>1, <3>2
  <2> HIDE DEF h
  <2>4. Upto(of, n + 1, h)
    BY <2>2, <2>3 DEF Upto
  <2> QED
    BY <1>2, <2>4
<1> HIDE DEF T
<1>3. T = Nat
  <2>1. T \subseteq Nat
    BY DEF T
  <2> QED
    BY <1>1, <1>2, <2>1, NumberInduction
<1> QED
  BY <1>3 DEF T

(* and two of them agree. *)
LEMMA RecursionAgrees ==
  ASSUME NEW of, NEW m \in Nat, NEW n \in Nat, NEW g, NEW h, Upto(of, m, g), Upto(of, n, h)
  PROVE  \A k \in Nat : k <= m /\ k <= n => g[k] = h[k]
<1> DEFINE T == {k \in Nat : k <= m /\ k <= n => g[k] = h[k]}
<1>1. 0 \in T
  <2>1. 0 \in 0..m /\ 0 \in 0..n
    OBVIOUS
  <2>2. /\ g[0] = Above(of, 0, IF 0 = 0 THEN of ELSE g[0 - 1])
        /\ h[0] = Above(of, 0, IF 0 = 0 THEN of ELSE h[0 - 1])
    BY <2>1 DEF Upto
  <2> QED
    BY <2>2
<1>2. ASSUME NEW k \in T PROVE k + 1 \in T
  <2> SUFFICES ASSUME k + 1 <= m, k + 1 <= n PROVE g[k + 1] = h[k + 1]
    OBVIOUS
  <2>1. k + 1 \in 0..m /\ k + 1 \in 0..n /\ k + 1 # 0 /\ (k + 1) - 1 = k /\ g[k] = h[k]
    OBVIOUS
  <2>2. /\ g[k + 1] = Above(of, k + 1, IF k + 1 = 0 THEN of ELSE g[(k + 1) - 1])
        /\ h[k + 1] = Above(of, k + 1, IF k + 1 = 0 THEN of ELSE h[(k + 1) - 1])
    BY <2>1 DEF Upto
  <2> QED
    BY <2>1, <2>2
<1> HIDE DEF T
<1>3. T = Nat
  <2>1. T \subseteq Nat
    BY DEF T
  <2> QED
    BY <1>1, <1>2, <2>1, NumberInduction
<1> QED
  BY <1>3 DEF T

Whole(of, f) ==
  f = [k \in Nat |-> Above(of, k, IF k = 0 THEN of ELSE f[k - 1])]

(* So it has one over all the numbers. *)
LEMMA WholeExists ==
  ASSUME NEW of
  PROVE  \E f : Whole(of, f)
<1> DEFINE part(n) == CHOOSE g : Upto(of, n, g)
           f == [k \in Nat |-> part(k)[k]]
<1>1. \A n \in Nat : Upto(of, n, part(n))
  BY RecursionExists
<1> HIDE DEF part
<1>2. ASSUME NEW k \in Nat
      PROVE  f[k] = Above(of, k, IF k = 0 THEN of ELSE f[k - 1])
  <2>1. k \in 0..k /\ f[k] = part(k)[k]
    OBVIOUS
  <2>2. part(k)[k] = Above(of, k, IF k = 0 THEN of ELSE part(k)[k - 1])
    BY <1>1, <2>1 DEF Upto
  <2>3. ASSUME k # 0 PROVE f[k - 1] = part(k)[k - 1]
    <3>1. k - 1 \in Nat /\ k - 1 <= k /\ k - 1 <= k - 1
      BY <2>3
    <3>2. part(k - 1)[k - 1] = part(k)[k - 1]
      BY <1>1, <3>1, RecursionAgrees
    <3> QED
      BY <3>1, <3>2
  <2> HIDE DEF f
  <2>4. (IF k = 0 THEN of ELSE f[k - 1]) = (IF k = 0 THEN of ELSE part(k)[k - 1])
    BY <2>3
  <2> QED
    BY <2>1, <2>2, <2>4
<1>3. f = [k \in Nat |-> f[k]]
  OBVIOUS
<1> HIDE DEF f
<1>4. f = [k \in Nat |-> Above(of, k, IF k = 0 THEN of ELSE f[k - 1])]
  BY <1>2, <1>3
<1> QED
  BY <1>4 DEF Whole

\* The layers of the tree, as Eligibility defines them
LEMMA LayersAre ==
  ASSUME NEW wallets
  PROVE  /\ Layers(wallets)[0] = [i \in DOMAIN wallets |-> LeafOf(wallets[i])]
         /\ \A k \in Nat : Layers(wallets)[k + 1] = LayerAbove(Layers(wallets)[k])
<1> DEFINE of == [kind |-> "layers", wallets |-> wallets]
           leaves == [i \in DOMAIN wallets |-> LeafOf(wallets[i])]
           Is(f) == f = [k \in Nat |-> IF k = 0 THEN leaves ELSE LayerAbove(f[k - 1])]
           L == CHOOSE f : Is(f)
<1>1. Layers(wallets) = L
  BY DEF Layers
<1>2. PICK f : Whole(of, f)
  BY WholeExists
<1>3. \A k, x : Above(of, k, x) = IF k = 0 THEN leaves ELSE LayerAbove(x)
  BY DEF Above
<1> HIDE DEF of, leaves
<1>4. f = [k \in Nat |-> Above(of, k, IF k = 0 THEN of ELSE f[k - 1])]
  BY <1>2 DEF Whole
<1>5. Is(f)
  <2>1. \A k \in Nat : Above(of, k, IF k = 0 THEN of ELSE f[k - 1]) = IF k = 0 THEN leaves ELSE LayerAbove(f[k - 1])
    BY <1>3
  <2> QED
    BY <1>4, <2>1
<1>6. Is(L)
  BY <1>5
<1> HIDE DEF L
<1>7. L[0] = leaves
  BY <1>6
<1>8. ASSUME NEW k \in Nat PROVE L[k + 1] = LayerAbove(L[k])
  <2>1. k + 1 \in Nat /\ k + 1 # 0 /\ (k + 1) - 1 = k
    OBVIOUS
  <2>2. \A j \in Nat : L[j] = IF j = 0 THEN leaves ELSE LayerAbove(L[j - 1])
    BY <1>6
  <2> HIDE DEF Is
  <2> QED
    BY <2>1, <2>2
<1> QED
  BY <1>1, <1>7, <1>8 DEF leaves

IsClimb(C, layers, n) ==
  /\ C[0] = [at |-> n, proof |-> <<>>]
  /\ \A k \in Nat :
       /\ C[k + 1].at = (C[k].at + 1) \div 2
       /\ Sibling(C[k].at) \in DOMAIN layers[k] =>
            C[k + 1].proof = Append(C[k].proof, layers[k][Sibling(C[k].at)])
       /\ Sibling(C[k].at) \notin DOMAIN layers[k] => C[k + 1].proof = C[k].proof

\* The way up from wallet n
LEMMA ClimbIs ==
  ASSUME NEW wallets, NEW n
  PROVE  IsClimb(Climb(wallets, n), Layers(wallets), n)
<1> DEFINE layers == Layers(wallets)
           of == [kind |-> "climb", n |-> n, layer |-> layers]
           start == [at |-> n, proof |-> <<>>]
           Up(k, below) == [at |-> (below.at + 1) \div 2,
                            proof |-> IF Sibling(below.at) \in DOMAIN layers[k - 1]
                                        THEN Append(below.proof, layers[k - 1][Sibling(below.at)])
                                        ELSE below.proof]
           Is(f) == f = [k \in Nat |-> IF k = 0 THEN start ELSE Up(k, f[k - 1])]
           C == CHOOSE f : Is(f)
<1>1. Climb(wallets, n) = C
  BY DEF Climb
<1>2. PICK f : Whole(of, f)
  BY WholeExists
<1>3. \A k, x : Above(of, k, x) = IF k = 0 THEN start ELSE Up(k, x)
  BY DEF Above
<1> HIDE DEF of, start, Up, layers
<1>4. f = [k \in Nat |-> Above(of, k, IF k = 0 THEN of ELSE f[k - 1])]
  BY <1>2 DEF Whole
<1>5. Is(f)
  <2>1. \A k \in Nat : Above(of, k, IF k = 0 THEN of ELSE f[k - 1]) = IF k = 0 THEN start ELSE Up(k, f[k - 1])
    BY <1>3
  <2> QED
    BY <1>4, <2>1
<1>6. Is(C)
  BY <1>5
<1> HIDE DEF C
<1>7. C[0] = start
  BY <1>6
<1>8. ASSUME NEW k \in Nat PROVE C[k + 1] = Up(k + 1, C[k]) /\ layers[(k + 1) - 1] = layers[k]
  <2>1. k + 1 \in Nat /\ k + 1 # 0 /\ (k + 1) - 1 = k
    OBVIOUS
  <2>2. \A j \in Nat : C[j] = IF j = 0 THEN start ELSE Up(j, C[j - 1])
    BY <1>6
  <2> HIDE DEF Is
  <2> QED
    BY <2>1, <2>2
<1>9. ASSUME NEW k \in Nat
      PROVE  /\ C[k + 1].at = (C[k].at + 1) \div 2
             /\ Sibling(C[k].at) \in DOMAIN layers[k] =>
                  C[k + 1].proof = Append(C[k].proof, layers[k][Sibling(C[k].at)])
             /\ Sibling(C[k].at) \notin DOMAIN layers[k] => C[k + 1].proof = C[k].proof
  <2> DEFINE at == (C[k].at + 1) \div 2
             sibling == Sibling(C[k].at)
             added == Append(C[k].proof, layers[k][sibling])
  <2>1. C[k + 1] = [at |-> at, proof |-> IF sibling \in DOMAIN layers[k] THEN added ELSE C[k].proof]
    BY <1>8 DEF Up
  <2> HIDE DEF at, sibling, added
  <2>2. C[k + 1].at = at /\ C[k + 1].proof = IF sibling \in DOMAIN layers[k] THEN added ELSE C[k].proof
    BY <2>1
  <2> QED
    BY <2>2 DEF at, sibling, added
<1> QED
  BY <1>1, <1>7, <1>9 DEF start, layers, IsClimb

\* The hashes along a proof
LEMMA ComputedIs ==
  ASSUME NEW proof, NEW leaf, Len(proof) \in Nat
  PROVE  /\ Computed(proof, leaf)[0] = leaf
         /\ \A i \in 1..Len(proof) :
              Computed(proof, leaf)[i] = NodeOf(Computed(proof, leaf)[i - 1], proof[i])
<1> DEFINE of == [kind |-> "computed", proof |-> proof, leaf |-> leaf]
           n == Len(proof)
           Is(f) == f = [i \in 0..n |-> IF i = 0 THEN leaf ELSE NodeOf(f[i - 1], proof[i])]
           C == CHOOSE f : Is(f)
<1>1. Computed(proof, leaf) = C
  BY DEF Computed
<1>2. PICK f : Upto(of, n, f)
  BY RecursionExists
<1>3. \A k, x : Above(of, k, x) = IF k = 0 THEN leaf ELSE NodeOf(x, proof[k])
  BY DEF Above
<1> HIDE DEF of
<1>4. Is(f)
  <2>1. \A k \in 0..n : f[k] = IF k = 0 THEN leaf ELSE NodeOf(f[k - 1], proof[k])
    BY <1>2, <1>3 DEF Upto
  <2>2. f = [k \in 0..n |-> f[k]]
    BY <1>2 DEF Upto
  <2> QED
    BY <2>1, <2>2
<1>5. Is(C)
  BY <1>4
<1> HIDE DEF C
<1>6. C[0] = leaf
  <2>1. 0 \in 0..n
    OBVIOUS
  <2> QED
    BY <1>5, <2>1
<1>7. ASSUME NEW i \in 1..n PROVE C[i] = NodeOf(C[i - 1], proof[i])
  <2>1. i \in 0..n /\ i # 0
    OBVIOUS
  <2>2. \A j \in 0..n : C[j] = IF j = 0 THEN leaf ELSE NodeOf(C[j - 1], proof[j])
    BY <1>5
  <2> HIDE DEF Is
  <2> QED
    BY <2>1, <2>2
<1> QED
  BY <1>1, <1>6, <1>7

\* A function on 1..m is a sequence of length m.
LEMMA LengthIs ==
  ASSUME NEW m \in Nat, NEW f, f = [i \in 1..m |-> f[i]]
  PROVE  Len(f) = m /\ DOMAIN f = 1..m
<1>1. f \in Seq({f[i] : i \in 1..m})
  OBVIOUS
<1> QED
  BY <1>1

IsLayer(layer, m) == m \in Nat \ {0} /\ Len(layer) = m /\ DOMAIN layer = 1..m

\* The layer above has a node for every two nodes, and one for the last.
LEMMA LayerAboveIs ==
  ASSUME NEW layer, NEW m, IsLayer(layer, m)
  PROVE  /\ IsLayer(LayerAbove(layer), (m + 1) \div 2)
         /\ \A i \in 1..((m + 1) \div 2) :
              LayerAbove(layer)[i] = IF 2 * i <= m THEN NodeOf(layer[2 * i - 1], layer[2 * i])
                                                   ELSE layer[2 * i - 1]
<1> DEFINE half == (m + 1) \div 2
           above == LayerAbove(layer)
<1>1. m \in Nat \ {0} /\ half \in Nat \ {0}
  BY DEF IsLayer
<1>2. above = [i \in 1..half |-> IF 2 * i <= m THEN NodeOf(layer[2 * i - 1], layer[2 * i])
                                               ELSE layer[2 * i - 1]]
  BY DEF LayerAbove, IsLayer
<1> HIDE DEF half, above
<1>3. above = [i \in 1..half |-> above[i]]
  BY <1>2
<1>4. IsLayer(above, half)
  BY <1>1, <1>3, LengthIs DEF IsLayer
<1>5. \A i \in 1..half : above[i] = IF 2 * i <= m THEN NodeOf(layer[2 * i - 1], layer[2 * i])
                                                  ELSE layer[2 * i - 1]
  BY <1>2
<1> QED
  BY <1>4, <1>5 DEF half, above

IsList(wallets) ==
  /\ Len(wallets) \in Nat \ {0} /\ DOMAIN wallets = 1..Len(wallets)
  /\ \A i \in DOMAIN wallets : IsWallet(wallets[i])

\* The layers shrink until one node is left, at the latest in layer Len(wallets).
LEMMA LayerSizes ==
  ASSUME NEW wallets, IsList(wallets)
  PROVE  \A k \in Nat : /\ IsLayer(Layers(wallets)[k], Len(Layers(wallets)[k]))
                        /\ \/ Len(Layers(wallets)[k]) = 1
                           \/ Len(Layers(wallets)[k]) + k <= Len(wallets)
<1> DEFINE L == Layers(wallets)
           N == Len(wallets)
           Good(k) == IsLayer(L[k], Len(L[k])) /\ (Len(L[k]) = 1 \/ Len(L[k]) + k <= N)
           T == {k \in Nat : Good(k)}
<1>1. 0 \in T
  <2>1. L[0] = [i \in 1..N |-> LeafOf(wallets[i])] /\ N \in Nat \ {0}
    BY LayersAre DEF IsList
  <2> HIDE DEF L, N
  <2>2. L[0] = [i \in 1..N |-> L[0][i]]
    BY <2>1
  <2>3. Len(L[0]) = N /\ DOMAIN L[0] = 1..N
    BY <2>1, <2>2, LengthIs
  <2> QED
    BY <2>1, <2>3 DEF IsLayer
<1>2. ASSUME NEW k \in T PROVE k + 1 \in T
  <2> DEFINE m == Len(L[k])
  <2>1. IsLayer(L[k], m) /\ (m = 1 \/ m + k <= N) /\ k \in Nat /\ N \in Nat
    BY <1>2 DEF IsList
  <2>2. L[k + 1] = LayerAbove(L[k])
    BY LayersAre, <2>1
  <2> HIDE DEF L, N, m
  <2>3. IsLayer(L[k + 1], (m + 1) \div 2) /\ m \in Nat \ {0}
    BY <2>1, <2>2, LayerAboveIs DEF IsLayer
  <2>4. Len(L[k + 1]) = (m + 1) \div 2
    BY <2>3 DEF IsLayer
  <2>5. (m + 1) \div 2 = 1 \/ (m + 1) \div 2 + (k + 1) <= N
    <3>1. m = 1 => (m + 1) \div 2 = 1
      BY <2>3
    <3>2. m # 1 => (m + 1) \div 2 + 1 <= m
      BY <2>3
    <3> QED
      BY <2>1, <2>3, <3>1, <3>2
  <2>6. Good(k + 1)
    BY <2>3, <2>4, <2>5
  <2> HIDE DEF Good
  <2> QED
    BY <2>1, <2>6
<1> HIDE DEF T
<1>3. T = Nat
  <2>1. T \subseteq Nat
    BY DEF T
  <2> QED
    BY <1>1, <1>2, <2>1, NumberInduction
<1> QED
  BY <1>3 DEF T

InTree(wallets, node) ==
  \E k \in 0..Len(wallets) : \E i \in DOMAIN Layers(wallets)[k] : Layers(wallets)[k][i] = node

LEMMA InTreeIs ==
  ASSUME NEW wallets, NEW node
  PROVE  InTree(wallets, node) <=> node \in TreeNodes(wallets)
BY DEF InTree, TreeNodes

LEMMA LeavesInTree ==
  ASSUME NEW wallets, IsList(wallets), NEW wallet, Listed(wallets, wallet)
  PROVE  LeafOf(wallet) \in TreeNodes(wallets)
<1>1. PICK n \in DOMAIN wallets : wallets[n] = wallet
  BY DEF Listed
<1>2. Layers(wallets)[0] = [i \in DOMAIN wallets |-> LeafOf(wallets[i])]
  BY LayersAre
<1>3. 0 \in 0..Len(wallets) /\ n \in DOMAIN Layers(wallets)[0] /\ Layers(wallets)[0][n] = LeafOf(wallet)
  BY <1>1, <1>2 DEF IsList
<1> QED
  BY <1>3, InTreeIs DEF InTree

\* The bytes of a wallet are no pair's, and hashes are of the same bytes only
\* if they are the same.
LEMMA HashIs ==
  ASSUME NEW a, NEW b, NEW c, NEW d
  PROVE  /\ LeafOf(a) = LeafOf(b) => a = b
         /\ IsWallet(a) => LeafOf(a) # NodeOf(c, d)
         /\ NodeOf(a, b) = NodeOf(c, d) => {a, b} = {c, d}
<1>1. LeafOf(a).hash = a /\ LeafOf(b).hash = b
  BY DEF LeafOf, Keccak256
<1>2. NodeOf(a, b).hash.of = {a, b} /\ NodeOf(c, d).hash.of = {c, d}
  BY DEF NodeOf, Keccak256, PairBytes
<1>3. IsWallet(a) => a.of = {}
  BY DEF IsWallet
<1>4. {c, d} # {}
  OBVIOUS
<1>5. LeafOf(a) = NodeOf(c, d) => a.of = {c, d}
  BY <1>1, <1>2
<1> QED
  BY <1>1, <1>2, <1>3, <1>4, <1>5

\* A node of the tree is the leaf of a wallet of the list, or has two nodes below it.
LEMMA NodeKinds ==
  ASSUME NEW wallets, IsList(wallets), NEW node, InTree(wallets, node)
  PROVE  \/ \E n \in DOMAIN wallets : node = LeafOf(wallets[n])
         \/ \E a, b : InTree(wallets, a) /\ InTree(wallets, b) /\ node = NodeOf(a, b)
<1> DEFINE L == Layers(wallets)
           Leaf(x) == \E n \in DOMAIN wallets : x = LeafOf(wallets[n])
           Inner(x) == \E a, b : InTree(wallets, a) /\ InTree(wallets, b) /\ x = NodeOf(a, b)
           Good(k) == \A i \in DOMAIN L[k] : Leaf(L[k][i]) \/ Inner(L[k][i])
           T == {k \in Nat : k <= Len(wallets) => Good(k)}
<1>1. 0 \in T
  <2>1. L[0] = [i \in DOMAIN wallets |-> LeafOf(wallets[i])]
    BY LayersAre
  <2> HIDE DEF L
  <2> QED
    BY <2>1
<1>2. ASSUME NEW k \in T PROVE k + 1 \in T
  <2> SUFFICES ASSUME k + 1 <= Len(wallets) PROVE Good(k + 1)
    OBVIOUS
  <2> DEFINE m == Len(L[k])
  <2>0. k \in 0..Len(wallets) /\ Good(k)
    BY <1>2 DEF IsList
  <2>1. k \in Nat /\ IsLayer(L[k], m) /\ L[k + 1] = LayerAbove(L[k])
    BY <1>2, LayerSizes, LayersAre
  <2>2. ASSUME NEW i \in DOMAIN L[k + 1] PROVE Leaf(L[k + 1][i]) \/ Inner(L[k + 1][i])
    <3>1. /\ IsLayer(LayerAbove(L[k]), (m + 1) \div 2)
          /\ \A j \in 1..((m + 1) \div 2) :
               LayerAbove(L[k])[j] = IF 2 * j <= m THEN NodeOf(L[k][2 * j - 1], L[k][2 * j])
                                                   ELSE L[k][2 * j - 1]
      <4> HIDE DEF L, m
      <4> QED
        BY <2>1, LayerAboveIs
    <3>2. \A j \in DOMAIN L[k] : InTree(wallets, L[k][j])
      BY <2>0 DEF InTree
    <3>3. Good(k)
      BY <2>0
    <3> HIDE DEF L, m, Leaf, Inner
    <3>4. /\ i \in 1..((m + 1) \div 2) /\ m \in Nat \ {0} /\ DOMAIN L[k] = 1..m
          /\ L[k + 1][i] = IF 2 * i <= m THEN NodeOf(L[k][2 * i - 1], L[k][2 * i]) ELSE L[k][2 * i - 1]
      BY <2>1, <2>2, <3>1 DEF IsLayer
    <3>5. 2 * i - 1 \in DOMAIN L[k] /\ (2 * i <= m => 2 * i \in DOMAIN L[k])
      BY <3>4
    <3>6. CASE 2 * i <= m
      BY <3>2, <3>4, <3>5, <3>6 DEF Inner
    <3>7. CASE ~ (2 * i <= m)
      BY <3>3, <3>4, <3>5, <3>7
    <3> QED
      BY <3>6, <3>7
  <2> HIDE DEF L, Leaf, Inner
  <2> QED
    BY <2>2
<1> HIDE DEF T
<1>3. T = Nat
  <2>1. T \subseteq Nat
    BY DEF T
  <2> QED
    BY <1>1, <1>2, <2>1, NumberInduction
<1>4. PICK k \in 0..Len(wallets) : \E i \in DOMAIN L[k] : L[k][i] = node
  BY DEF InTree
<1>5. Good(k)
  BY <1>3 DEF T, IsList
<1> QED
  BY <1>4, <1>5

(***************************************************************************)
(* What verifyProof of server.js vouches for, whatever bytes it is given   *)
(* and whatever proof: their hash is a node of the tree, and the bytes of  *)
(* a wallet are those of one on the list.  For every list and every proof. *)
(***************************************************************************)
THEOREM VerifyProofSound ==
  ASSUME NEW wallets, IsList(wallets), NEW proof, Len(proof) \in Nat, NEW bytes,
         VerifyProof(proof, LeafOf(bytes), RootOf(wallets))
  PROVE  /\ LeafOf(bytes) \in TreeNodes(wallets)
         /\ IsWallet(bytes) => Listed(wallets, bytes)
<1> DEFINE c == Computed(proof, LeafOf(bytes))
           n == Len(proof)
           T == {j \in Nat : j <= n => InTree(wallets, c[n - j])}
<1>1. InTree(wallets, RootOf(wallets))
  <2>0. Len(wallets) \in Nat
    BY DEF IsList
  <2>1. Len(wallets) \in 0..Len(wallets) /\ IsLayer(Layers(wallets)[Len(wallets)], Len(Layers(wallets)[Len(wallets)]))
    <3>1. \A m \in Nat : m \in 0..m
      OBVIOUS
    <3>2. IsLayer(Layers(wallets)[Len(wallets)], Len(Layers(wallets)[Len(wallets)]))
      BY <2>0, LayerSizes
    <3> QED
      BY <2>0, <3>1, <3>2
  <2>2. 1 \in DOMAIN Layers(wallets)[Len(wallets)]
    BY <2>1 DEF IsLayer
  <2> QED
    BY <2>1, <2>2 DEF InTree, RootOf
<1>2. /\ c[0] = LeafOf(bytes) /\ c[n] = RootOf(wallets)
      /\ \A i \in 1..n : c[i] = NodeOf(c[i - 1], proof[i])
  BY ComputedIs DEF VerifyProof
<1> HIDE DEF c
<1>3. 0 \in T
  <2>1. n - 0 = n
    OBVIOUS
  <2> QED
    BY <1>1, <1>2, <2>1
<1>4. ASSUME NEW j \in T PROVE j + 1 \in T
  <2> SUFFICES ASSUME j + 1 <= n PROVE InTree(wallets, c[n - (j + 1)])
    OBVIOUS
  <2>1. n - j \in 1..n /\ (n - j) - 1 = n - (j + 1) /\ InTree(wallets, c[n - j])
    OBVIOUS
  <2> HIDE DEF n
  <2> DEFINE before == c[n - (j + 1)]
             sibling == proof[n - j]
             after == c[n - j]
  <2>2. after = NodeOf(before, sibling)
    BY <1>2, <2>1
  <2> HIDE DEF before, sibling, after
  <2>3. \A m \in DOMAIN wallets : LeafOf(wallets[m]) # NodeOf(before, sibling)
    <3>1. ASSUME NEW m \in DOMAIN wallets PROVE LeafOf(wallets[m]) # NodeOf(before, sibling)
      <4>1. IsWallet(wallets[m])
        BY DEF IsList
      <4> QED
        BY <4>1, HashIs
    <3> QED
      BY <3>1
  <2>4. PICK a, b : InTree(wallets, a) /\ InTree(wallets, b) /\ after = NodeOf(a, b)
    <3>1. InTree(wallets, after)
      BY <2>1 DEF after
    <3> QED
      BY <2>2, <2>3, <3>1, NodeKinds
  <2>5. {a, b} = {before, sibling}
    <3>1. NodeOf(a, b).hash.of = {a, b}
      BY DEF NodeOf, Keccak256, PairBytes
    <3>2. NodeOf(before, sibling).hash.of = {before, sibling}
      BY DEF NodeOf, Keccak256, PairBytes
    <3>3. NodeOf(a, b) = NodeOf(before, sibling)
      BY <2>2, <2>4, Zenon
    <3> QED
      BY <3>1, <3>2, <3>3, Zenon
  <2>6. InTree(wallets, before)
    BY <2>4, <2>5, Zenon
  <2> QED
    BY <2>6 DEF before
<1> HIDE DEF T
<1>5. T = Nat
  <2>1. T \subseteq Nat
    BY DEF T
  <2> QED
    BY <1>3, <1>4, <2>1, NumberInduction
<1>6. InTree(wallets, LeafOf(bytes))
  <2>1. n \in T /\ n - n = 0
    BY <1>5
  <2> QED
    BY <1>2, <2>1 DEF T
<1>7. ASSUME IsWallet(bytes) PROVE Listed(wallets, bytes)
  <2>1. \A a, b : LeafOf(bytes) # NodeOf(a, b)
    BY <1>7, HashIs
  <2>2. PICK m \in DOMAIN wallets : LeafOf(bytes) = LeafOf(wallets[m])
    BY <1>6, <2>1, NodeKinds
  <2> QED
    BY <2>2, HashIs DEF Listed
<1> QED
  BY <1>6, <1>7, InTreeIs

\* A longer proof has the hashes of its beginning.
LEMMA ComputedAppend ==
  ASSUME NEW S, NEW proof \in Seq(S), NEW s \in S, NEW leaf
  PROVE  Computed(Append(proof, s), leaf)[Len(proof) + 1] = NodeOf(Computed(proof, leaf)[Len(proof)], s)
<1> DEFINE n == Len(proof)
           longer == Append(proof, s)
           c == Computed(proof, leaf)
           d == Computed(longer, leaf)
           T == {i \in Nat : i <= n => d[i] = c[i]}
<1>1. n \in Nat /\ Len(longer) = n + 1 /\ longer[n + 1] = s /\ \A i \in 1..n : longer[i] = proof[i]
  OBVIOUS
<1>2. c[0] = leaf /\ \A i \in 1..n : c[i] = NodeOf(c[i - 1], proof[i])
  BY <1>1, ComputedIs
<1>3. d[0] = leaf /\ \A i \in 1..(n + 1) : d[i] = NodeOf(d[i - 1], longer[i])
  <2>1. Len(longer) \in Nat
    BY <1>1
  <2>2. d[0] = leaf /\ \A i \in 1..Len(longer) : d[i] = NodeOf(d[i - 1], longer[i])
    <3> HIDE DEF longer
    <3> QED
      BY <2>1, ComputedIs
  <2> HIDE DEF d, longer
  <2> QED
    BY <1>1, <2>2
<1> HIDE DEF c, d, longer
<1>4. 0 \in T
  BY <1>2, <1>3
<1>5. ASSUME NEW i \in T PROVE i + 1 \in T
  <2> SUFFICES ASSUME i + 1 <= n PROVE d[i + 1] = c[i + 1]
    OBVIOUS
  <2>1. i + 1 \in 1..n /\ i + 1 \in 1..(n + 1) /\ (i + 1) - 1 = i /\ d[i] = c[i]
    BY <1>1
  <2>2. c[i + 1] = NodeOf(c[(i + 1) - 1], proof[i + 1]) /\ d[i + 1] = NodeOf(d[(i + 1) - 1], longer[i + 1])
    BY <1>2, <1>3, <2>1
  <2> QED
    BY <1>1, <2>1, <2>2
<1> HIDE DEF T
<1>6. T = Nat
  <2>1. T \subseteq Nat
    BY DEF T
  <2> QED
    BY <1>4, <1>5, <2>1, NumberInduction
<1>7. d[n] = c[n]
  BY <1>1, <1>6 DEF T
<1>8. n + 1 \in 1..(n + 1) /\ (n + 1) - 1 = n
  BY <1>1
<1>9. d[n + 1] = NodeOf(d[n], s)
  BY <1>1, <1>3, <1>8
<1> QED
  BY <1>7, <1>9 DEF c, d, longer

\* The numbers of the two nodes under a node
LEMMA SiblingIs ==
  ASSUME NEW at \in Nat \ {0}, NEW m \in Nat \ {0}, at <= m
  PROVE  LET above == (at + 1) \div 2
         IN  /\ above \in 1..((m + 1) \div 2)
             /\ Sibling(at) \in 1..m => 2 * above <= m /\ {2 * above - 1, 2 * above} = {at, Sibling(at)}
             /\ Sibling(at) \notin 1..m => ~ (2 * above <= m) /\ 2 * above - 1 = at
<1> DEFINE above == (at + 1) \div 2
<1>1. above \in 1..((m + 1) \div 2)
  OBVIOUS
<1>2. CASE at % 2 = 1
  <2>1. Sibling(at) = at + 1 /\ 2 * above = at + 1
    BY <1>2 DEF Sibling
  <2> HIDE DEF above
  <2> QED
    BY <1>1, <2>1 DEF above
<1>3. CASE at % 2 # 1
  <2>1. Sibling(at) = at - 1 /\ 2 * above = at
    BY <1>3 DEF Sibling
  <2>2. at - 1 \in 1..m
    BY <1>3
  <2> HIDE DEF above
  <2> QED
    BY <1>1, <2>1, <2>2 DEF above
<1> QED
  BY <1>2, <1>3

(***************************************************************************)
(* verifyProof accepts the proof setupBackend.js makes for a wallet of the *)
(* list, for a list of any length: a node without a sibling goes up as it  *)
(* is on both sides.                                                       *)
(***************************************************************************)
THEOREM VerifyProofComplete ==
  ASSUME NEW wallets, IsList(wallets), NEW n \in DOMAIN wallets
  PROVE  VerifyProof(ProofOf(wallets, n), LeafOf(wallets[n]), RootOf(wallets))
<1> DEFINE L == Layers(wallets)
           C == Climb(wallets, n)
           Nodes == UNION {{L[k][i] : i \in DOMAIN L[k]} : k \in Nat}
           leaf == LeafOf(wallets[n])
           Last(proof) == Computed(proof, leaf)[Len(proof)]
           Good(k) == C[k].at \in DOMAIN L[k] /\ C[k].proof \in Seq(Nodes) /\ Last(C[k].proof) = L[k][C[k].at]
           T == {k \in Nat : Good(k)}
<1>1. \A k \in Nat : \A i \in DOMAIN L[k] : L[k][i] \in Nodes
  OBVIOUS
<1>2. 0 \in T
  <2>1. C[0] = [at |-> n, proof |-> <<>>] /\ L[0] = [i \in DOMAIN wallets |-> LeafOf(wallets[i])]
    BY ClimbIs, LayersAre DEF IsClimb
  <2>2. Computed(<<>>, leaf)[0] = leaf /\ Len(<<>>) = 0
    BY ComputedIs
  <2>3. <<>> \in Seq(Nodes)
    OBVIOUS
  <2>4. C[0].at = n /\ C[0].proof = <<>> /\ DOMAIN L[0] = DOMAIN wallets /\ L[0][n] = leaf
    BY <2>1
  <2> HIDE DEF C, L, leaf, Nodes
  <2>5. Last(C[0].proof) = leaf
    BY <2>2, <2>4
  <2> HIDE DEF Last
  <2> QED
    BY <2>3, <2>4, <2>5
<1>3. ASSUME NEW k \in T PROVE k + 1 \in T
  <2> DEFINE m == Len(L[k])
             at == C[k].at
             above == (at + 1) \div 2
             proof == C[k].proof
  <2>1. k \in Nat /\ IsLayer(L[k], m) /\ L[k + 1] = LayerAbove(L[k])
    BY <1>3, LayerSizes, LayersAre
  <2>2. at \in DOMAIN L[k] /\ proof \in Seq(Nodes) /\ Last(proof) = L[k][at]
    BY <1>3
  <2>3. /\ C[k + 1].at = above
        /\ Sibling(at) \in DOMAIN L[k] => C[k + 1].proof = Append(proof, L[k][Sibling(at)])
        /\ Sibling(at) \notin DOMAIN L[k] => C[k + 1].proof = proof
    <3>1. IsClimb(C, L, n)
      BY ClimbIs
    <3> HIDE DEF C, L
    <3> QED
      BY <2>1, <3>1 DEF IsClimb
  <2>4. /\ IsLayer(LayerAbove(L[k]), (m + 1) \div 2)
        /\ \A i \in 1..((m + 1) \div 2) :
             LayerAbove(L[k])[i] = IF 2 * i <= m THEN NodeOf(L[k][2 * i - 1], L[k][2 * i])
                                                 ELSE L[k][2 * i - 1]
    <3> HIDE DEF L, m
    <3> QED
      BY <2>1, LayerAboveIs
  <2>5. m \in Nat \ {0} /\ DOMAIN L[k] = 1..m /\ at \in Nat \ {0} /\ at <= m
    <3> HIDE DEF L, m, at
    <3> QED
      BY <2>1, <2>2 DEF IsLayer
  <2>6. /\ above \in 1..((m + 1) \div 2)
        /\ Sibling(at) \in 1..m => 2 * above <= m /\ {2 * above - 1, 2 * above} = {at, Sibling(at)}
        /\ Sibling(at) \notin 1..m => ~ (2 * above <= m) /\ 2 * above - 1 = at
    <3> HIDE DEF L, m, at
    <3> QED
      BY <2>5, SiblingIs
  <2> HIDE DEF L, m, at, above, proof, C, Nodes, leaf
  <2>7. above \in DOMAIN L[k + 1]
    BY <2>1, <2>4, <2>6 DEF IsLayer
  <2>8. CASE Sibling(at) \in 1..m
    <3> DEFINE sibling == L[k][Sibling(at)]
    <3>1. C[k + 1].proof = Append(proof, sibling) /\ sibling \in Nodes
      BY <1>1, <2>1, <2>3, <2>5, <2>8
    <3>2. L[k + 1][above] = NodeOf(L[k][2 * above - 1], L[k][2 * above])
      BY <2>1, <2>4, <2>6, <2>8
    <3>3. {2 * above - 1, 2 * above} = {at, Sibling(at)}
      BY <2>6, <2>8
    <3>4. {L[k][2 * above - 1], L[k][2 * above]} = {L[k][at], sibling}
      BY <3>3
    <3>5. L[k + 1][above] = NodeOf(L[k][at], sibling)
      BY <3>2, <3>4 DEF NodeOf, PairBytes
    <3> HIDE DEF sibling
    <3>6. /\ Len(Append(proof, sibling)) = Len(proof) + 1
          /\ Append(proof, sibling) \in Seq(Nodes)
      BY <2>2, <3>1
    <3>7. Computed(Append(proof, sibling), leaf)[Len(proof) + 1] = NodeOf(Computed(proof, leaf)[Len(proof)], sibling)
      BY <2>2, <3>1, ComputedAppend
    <3>8. Last(Append(proof, sibling)) = NodeOf(Last(proof), sibling)
      BY <3>6, <3>7
    <3> HIDE DEF Last
    <3>9. Good(k + 1)
      BY <2>2, <2>3, <2>7, <3>1, <3>5, <3>6, <3>8
    <3> HIDE DEF Good
    <3> QED
      BY <2>1, <3>9
  <2>9. CASE Sibling(at) \notin 1..m
    <3>1. C[k + 1].proof = proof /\ L[k + 1][above] = L[k][at]
      BY <2>1, <2>3, <2>4, <2>5, <2>6, <2>9
    <3> HIDE DEF Last
    <3>2. Good(k + 1)
      BY <2>2, <2>3, <2>7, <3>1
    <3> HIDE DEF Good
    <3> QED
      BY <2>1, <3>2
  <2> QED
    BY <2>8, <2>9
<1> HIDE DEF T
<1>4. T = Nat
  <2>1. T \subseteq Nat
    BY DEF T
  <2> QED
    BY <1>2, <1>3, <2>1, NumberInduction
<1>5. Len(wallets) \in Nat /\ Good(Len(wallets))
  BY <1>4 DEF T, IsList
<1>6. DOMAIN L[Len(wallets)] = 1..1
  <2>1. /\ IsLayer(L[Len(wallets)], Len(L[Len(wallets)]))
        /\ Len(L[Len(wallets)]) = 1 \/ Len(L[Len(wallets)]) + Len(wallets) <= Len(wallets)
    BY <1>5, LayerSizes
  <2> DEFINE m == Len(L[Len(wallets)])
  <2> HIDE DEF L, m
  <2>2. m \in Nat \ {0} /\ DOMAIN L[Len(wallets)] = 1..m /\ (m = 1 \/ m + Len(wallets) <= Len(wallets))
    BY <2>1 DEF IsLayer, m
  <2>3. m = 1
    BY <1>5, <2>2
  <2> QED
    BY <2>2, <2>3
<1>7. C[Len(wallets)].at = 1
  <2> HIDE DEF L, C
  <2> QED
    BY <1>5, <1>6
<1> QED
  BY <1>5, <1>7 DEF VerifyProof, ProofOf, RootOf

\* GET /proof answers with the proof made for that wallet.
LEMMA ServedVerifies ==
  ASSUME NEW wallets, IsList(wallets), NEW wallet, Listed(wallets, wallet)
  PROVE  VerifyProof(ServedProof(wallets, wallet), LeafOf(wallet), RootOf(wallets))
<1> DEFINE T == {n \in DOMAIN wallets : wallets[n] = wallet}
           First(n) == wallets[n] = wallet /\ \A k \in 1..(n - 1) : wallets[k] # wallet
           idx == CHOOSE n \in DOMAIN wallets : First(n)
<1>1. T \subseteq Nat /\ T # {}
  BY DEF IsList, Listed
<1>2. PICK n \in T : \A k \in T : n <= k
  <2> HIDE DEF T
  <2> QED
    BY <1>1, LeastNumber
<1>3. n \in DOMAIN wallets /\ First(n)
  BY <1>2 DEF IsList
<1>4. idx \in DOMAIN wallets /\ First(idx)
  BY <1>3
<1>5. ServedProof(wallets, wallet) = ProofOf(wallets, idx)
  BY DEF ServedProof
<1> HIDE DEF idx
<1> QED
  BY <1>4, <1>5, VerifyProofComplete

-----------------------------------------------------------------------------
(* The verdict on a claim *)

\* A text whose proof was accepted is one the tree vouches for, a served proof
\* is accepted, and only accepted ones go on to the list.
VouchedFor(bytes) ==
  /\ LeafOf(bytes) \in TreeNodes(Allowlist)
  /\ IsWallet(bytes) => Listed(Allowlist, bytes)

Vouched == \A r \in Requests :
  /\ req[r].valid => VouchedFor(BytesOf[req[r].addr])
  /\ req[r].served \/ req[r].pushed \/ req[r].pc \in {"push", "mark"} => req[r].valid
  /\ req[r].pc = "ineligible" => ~req[r].valid

\* What a client may post for an address, and the verdict on it
LEMMA PostedVouched ==
  \A a \in Address : \A p \in PostedFor[a] :
    /\ p.valid => VouchedFor(BytesOf[a])
    /\ p.served => p.valid
<1> SUFFICES ASSUME NEW a \in Address, NEW p \in Posted(a)
             PROVE  (p.valid => VouchedFor(BytesOf[a])) /\ (p.served => p.valid)
  BY DEF PostedFor
<1> DEFINE bytes == BytesOf[a]
           Verdict(proof) == VerifyProof(proof, LeafOf(bytes), RootOf(Allowlist))
<1>1. IsList(Allowlist)
  BY ListAssumption DEF IsList
<1>2. \A proof \in Proofs : Len(proof) \in Nat
  BY ListAssumption
<1>3. CASE \E proof \in Proofs : p = [valid |-> Verdict(proof), served |-> FALSE]
  <2>1. PICK proof \in Proofs : p = [valid |-> Verdict(proof), served |-> FALSE]
    BY <1>3
  <2>2. Verdict(proof) => VouchedFor(bytes)
    BY <1>1, <1>2, VerifyProofSound DEF VouchedFor
  <2> HIDE DEF Verdict, bytes
  <2>3. p.valid = Verdict(proof) /\ p.served = FALSE
    BY <2>1
  <2> QED
    BY <2>2, <2>3 DEF bytes
<1>4. CASE Listed(Allowlist, bytes) /\ p = [valid |-> Verdict(ServedProof(Allowlist, bytes)), served |-> TRUE]
  <2>1. Verdict(ServedProof(Allowlist, bytes))
    BY <1>1, <1>4, ServedVerifies
  <2>2. VouchedFor(bytes)
    BY <1>1, <1>4, LeavesInTree DEF VouchedFor
  <2> HIDE DEF Verdict
  <2> QED
    BY <1>4, <2>1, <2>2
<1> QED
  BY <1>3, <1>4, Zenon DEF Posted

LEMMA InitVouched == Init => Vouched
  BY DEF Init, Vouched

\* The API keeps it, and nothing else touches a request.
LEMMA StepVouched ==
  ASSUME IInv, Vouched, [Next]_vars
  PROVE  Vouched'
<1> USE DEF Vouched
<1>1. TypeOK
  BY DEF IInv
<1>2. CASE ServerCrash
  BY <1>1, <1>2 DEF ServerCrash, Serving, TypeOK
<1>3. ASSUME NEW r \in Requests, Request(r) PROVE Vouched'
  <2>1. CASE req' = [req EXCEPT ![r].pc = "limited"]
    <3>1. /\ \A q \in Requests \ {r} : req'[q] = req[q]
          /\ req'[r].pc = "limited" /\ req'[r].valid = req[r].valid /\ req'[r].served = req[r].served
          /\ req'[r].pushed = req[r].pushed /\ req'[r].addr = req[r].addr
      BY <1>1, <2>1 DEF TypeOK
    <3> QED
      BY <3>1
  <2>2. ASSUME NEW a \in Address, NEW p \in PostedFor[a],
               req' = [req EXCEPT ![r] = [pc |-> "check", addr |-> a, valid |-> p.valid,
                                          served |-> p.served, pushed |-> FALSE]]
        PROVE  Vouched'
    <3>1. /\ \A q \in Requests \ {r} : req'[q] = req[q]
          /\ req'[r].pc = "check" /\ req'[r].valid = p.valid /\ req'[r].served = p.served
          /\ req'[r].pushed = FALSE /\ req'[r].addr = a
      BY <1>1, <2>2 DEF TypeOK
    <3>2. /\ p.valid => VouchedFor(BytesOf[a])
          /\ p.served => p.valid
      BY PostedVouched
    <3> QED
      BY <3>1, <3>2
  <2> QED
    BY <1>3, <2>1, <2>2 DEF Request
<1>4. ASSUME NEW r \in Requests, HandlerStep(r) PROVE Vouched'
  <2>1. /\ \A q \in Requests \ {r} : req'[q] = req[q]
        /\ req'[r].valid = req[r].valid /\ req'[r].served = req[r].served /\ req'[r].addr = req[r].addr
    <3>1. CASE Check(r)
      BY <1>1, <3>1 DEF Check, TypeOK
    <3>2. CASE Push(r)
      BY <1>1, <3>2 DEF Push, TypeOK
    <3>3. CASE Mark(r)
      BY <1>1, <3>3 DEF Mark, TypeOK
    <3> QED
      BY <1>4, <3>1, <3>2, <3>3 DEF HandlerStep
  <2>2. CASE Check(r)
    <3>1. /\ req'[r].pushed = req[r].pushed
          /\ req'[r].pc \in {"duplicate", "ineligible", "push"}
          /\ req'[r].pc = "ineligible" => ~req[r].valid
          /\ req'[r].pc = "push" => req[r].valid
      BY <1>1, <2>2 DEF Check, TypeOK
    <3> QED
      BY <2>1, <3>1
  <2>3. CASE Push(r)
    <3>1. req[r].pc = "push" /\ req'[r].pc = "mark"
      BY <1>1, <2>3 DEF Push, TypeOK
    <3> QED
      BY <2>1, <3>1
  <2>4. CASE Mark(r)
    <3>1. req[r].pc = "mark" /\ req'[r].pc = "queued"
      BY <1>1, <2>4 DEF Mark, TypeOK
    <3> QED
      BY <2>1, <3>1
  <2> QED
    BY <1>4, <2>2, <2>3, <2>4 DEF HandlerStep
<1>5. CASE req' = req
  BY <1>5
<1>6. redisStep \/ workerStep \/ batchStep \/ UNCHANGED vars => req' = req
  BY DEF redisStep, RedisSave, RedisRestart, workerStep, WorkerStep, WorkerPop, WorkerFill,
     WorkerSend, WorkerWait, WorkerCrash, WorkerStart, MineAirdrop, batchStep, BatchStep,
     BatchLen, BatchFill, BatchRelay, BatchCrash, BatchStart, vars
<1> QED
  BY <1>2, <1>3, <1>4, <1>5, <1>6 DEF Next, redisStep, workerStep, batchStep

\* Whatever was paid was queued.
LEMMA PaidWasPushed ==
  ASSUME IInv, CInv, NEW a \in Address, paid[a] > 0
  PROVE  a \in Valid /\ \E r \in Requests : req[r].pushed /\ req[r].addr = a
<1>1. a \in Valid
  BY DEF CInv, ValidPaid
<1>2. Pushes({a}) # 0
  <2>1. SUFFICES ASSUME Pushes({a}) = 0 PROVE FALSE
    OBVIOUS
  <2>2. paid[a] + Held({a}) <= Pushes({a}) * (1 + restarts)
    BY DEF CInv, Covered, Total
  <2>3. Pushes({a}) * (1 + restarts) = 0
    <3>1. restarts \in Nat
      BY QueueAssumption DEF IInv, TypeOK
    <3> QED
      BY <2>1, <3>1
  <2>4. Held({a}) \in Nat /\ paid[a] \in Nat
    BY CountsNat DEF IInv, TypeOK
  <2> QED
    BY <2>2, <2>3, <2>4
<1>3. Pushers({a}) # {}
  BY <1>2, PushesNat, FS_EmptySet
<1> QED
  BY <1>1, <1>3 DEF Pushers

(***************************************************************************)
(* What the proof decides, for every allowlist, every text and every       *)
(* proof: a text is queued only if its hash is a node of the tree, a       *)
(* wallet only if it is listed, tokens reach listed wallets only, and no   *)
(* listed wallet with the proof GET /proof served it is answered 403.      *)
(***************************************************************************)
THEOREM ProofDecidesHolds == Spec => []ProofDecides
<1>1. Init => Vouched
  BY InitVouched
<1>2. IInv /\ Vouched /\ [Next]_vars => Vouched'
  BY StepVouched
<1>3. IInv /\ CInv /\ Vouched => ProofDecides
  <2> SUFFICES ASSUME IInv, CInv, Vouched PROVE ProofDecides
    OBVIOUS
  <2>1. \A r \in Requests : req[r].pushed => VouchedFor(BytesOf[req[r].addr])
    BY DEF Vouched
  <2>2. \A r \in Requests : req[r].served => req[r].pc # "ineligible"
    BY DEF Vouched
  <2>3. ASSUME NEW a \in Address, paid[a] > 0 PROVE Listed(Allowlist, BytesOf[a])
    <3>1. a \in Valid /\ \E r \in Requests : req[r].pushed /\ req[r].addr = a
      BY <2>3, PaidWasPushed
    <3>2. VouchedFor(BytesOf[a]) /\ IsWallet(BytesOf[a])
      BY <2>1, <3>1, QueueAssumption
    <3> QED
      BY <3>2 DEF VouchedFor
  <2> QED
    BY <2>1, <2>2, <2>3 DEF ProofDecides, VouchedFor
<1> QED
  BY <1>1, <1>2, <1>3, Counting, PTL DEF Spec
=============================================================================
