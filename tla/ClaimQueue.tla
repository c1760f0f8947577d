----------------------------- MODULE ClaimQueue ------------------------------
(***************************************************************************)
(* The queued claim path: POST /claim of server.js puts an address on the  *)
(* Redis list "claims" and into the set "claimed"; worker.js and           *)
(* batch-worker.js take addresses off the list in batches and pay them,    *)
(* the first through AirdropToken.airdrop, the second through the signer   *)
(* and the relayer.  Each Redis command is one step.                       *)
(*                                                                         *)
(* What a client posts as its address is a hex text: the proof is checked  *)
(* against the bytes it stands for, so spellings of one wallet are         *)
(* interchangeable there, Redis compares texts as strings, and ethers      *)
(* takes for an address only one of the right length and checksum.  The    *)
(* rate limit (module RateLimit) is a choice here.                         *)
(***************************************************************************)
EXTENDS Naturals, Sequences, FiniteSets, Eligibility

CONSTANTS
  Address,    \* hex texts a client may post as its address
  BytesOf,    \* the bytes a text stands for
  Valid,      \* those ethers takes for an address
  Allowlist,  \* wallets of config.json, in order
  Proofs,     \* proofs a client may post besides the one it is served
  Rejecting,  \* those of wallets that refuse ERC-1155 tokens
  Requests,   \* requests to POST /claim (bound: each id is used once)
  InFlight,   \* bound on the requests served at once
  Batch,      \* BATCH of worker.js
  BatchSize,  \* BATCH_SIZE of batch-worker.js
  Consumers,  \* which of "worker", "batch-worker" run
  Faults,     \* whether processes crash and calls fail (a body without a hex
              \* text ends server.js, too)
  MaxRestarts \* bound on the restarts of Redis

ASSUME QueueAssumption ==
  /\ Address # {} /\ Valid \subseteq Address /\ Rejecting \subseteq Valid
  /\ \A a \in Valid : IsWallet(BytesOf[a])
  /\ IsFiniteSet(Requests)
  /\ InFlight \in Nat \ {0} /\ Batch \in Nat \ {0} /\ BatchSize \in Nat \ {0}
  /\ Consumers \subseteq {"worker", "batch-worker"}
  /\ Faults \in BOOLEAN /\ MaxRestarts \in Nat

\* The list is never empty (setupBackend.js makes a thousand wallets), and a
\* proof is an array of any hashes.
ASSUME ListAssumption ==
  /\ Allowlist # <<>> /\ Allowlist \in Seq({Allowlist[i] : i \in DOMAIN Allowlist})
  /\ \A i \in DOMAIN Allowlist : IsWallet(Allowlist[i])
  /\ \A proof \in Proofs : proof \in Seq({proof[i] : i \in DOMAIN proof})

VARIABLES
  claimed,  \* Redis set "claimed"
  queue,    \* Redis list "claims"
  dump,     \* the last snapshot Redis has written of both
  restarts, \* how often Redis has been restarted
  req,      \* req[r]: the handler of request r
  worker,   \* worker.js: pc and the batch it holds
  bworker,  \* batch-worker.js: pc and the batch it holds
  airdrops, \* the worker's transactions not yet mined
  paid      \* paid[a]: tokens minted to a

redisVars == <<claimed, queue>>
dumpVars == <<dump, restarts>>
vars == <<redisVars, dumpVars, req, worker, bworker, airdrops, paid>>

HandlerPC == {"idle", "check", "push", "mark", "queued", "limited", "duplicate",
              "ineligible", "dead"}

TypeOK ==
  /\ claimed \subseteq Address
  /\ queue \in Seq(Address)
  /\ dump \in [claimed : SUBSET Address, queue : Seq(Address)]
  /\ restarts \in 0..MaxRestarts
  /\ req \in [Requests -> [pc : HandlerPC, addr : Address, valid : BOOLEAN,
                           served : BOOLEAN, pushed : BOOLEAN]]
  /\ worker \in [pc : {"pop", "fill", "send", "wait", "down"}, batch : Seq(Address)]
  /\ bworker \in [pc : {"len", "fill", "relay", "down"}, batch : Seq(Address)]
  /\ airdrops \in Seq(Seq(Address))
  /\ paid \in [Address -> Nat]

Init ==
  /\ claimed = {}
  /\ queue = <<>>
  /\ dump = [claimed |-> {}, queue |-> <<>>]
  /\ restarts = 0
  /\ req = [r \in Requests |-> [pc |-> "idle", addr |-> CHOOSE a \in Address : TRUE,
                               valid |-> FALSE, served |-> FALSE, pushed |-> FALSE]]
  /\ worker = [pc |-> IF "worker" \in Consumers THEN "pop" ELSE "down", batch |-> <<>>]
  /\ bworker = [pc |-> IF "batch-worker" \in Consumers THEN "len" ELSE "down", batch |-> <<>>]
  /\ airdrops = <<>>
  /\ paid = [a \in Address |-> 0]

-----------------------------------------------------------------------------
(* server.js, POST /claim *)

Serving == {r \in Requests : req[r].pc \in {"check", "push", "mark"}}

\* The proofs a client may post for a, the one GET /proof/:address served it
\* marked, and whether verifyProof accepts each.
Posted(a) ==
  LET Verdict(proof) == VerifyProof(proof, LeafOf(BytesOf[a]), RootOf(Allowlist))
  IN  {[valid |-> Verdict(proof), served |-> FALSE] : proof \in Proofs} \cup
      (IF Listed(Allowlist, BytesOf[a])
         THEN {[valid |-> Verdict(ServedProof(Allowlist, BytesOf[a])), served |-> TRUE]}
         ELSE {})

PostedFor == [a \in Address |-> Posted(a)]

\* A request arrives and passes the rate limit, or is answered 429.
Request(r) ==
  /\ req[r].pc = "idle"
  /\ Cardinality(Serving) < InFlight
  /\ \/ req' = [req EXCEPT ![r].pc = "limited"]
     \/ \E a \in Address : \E p \in PostedFor[a] :
          req' = [req EXCEPT ![r] = [pc |-> "check", addr |-> a, valid |-> p.valid,
                                     served |-> p.served, pushed |-> FALSE]]
  /\ UNCHANGED <<redisVars, dumpVars, worker, bworker, airdrops, paid>>

\* Mutant: the set is written first, and its answer read as the check.
CheckBySadd(r) ==
  /\ req[r].pc = "check"
  /\ req' = [req EXCEPT ![r].pc = IF req[r].addr \in claimed THEN "duplicate"
                                  ELSE IF ~req[r].valid THEN "ineligible" ELSE "push"]
  /\ claimed' = claimed \cup {req[r].addr}
  /\ UNCHANGED <<queue, dumpVars, worker, bworker, airdrops, paid>>

\* sismember, then verifyProof in the same turn of the event loop.
Check(r) ==
  /\ req[r].pc = "check"
  /\ req' = [req EXCEPT ![r].pc = IF req[r].addr \in claimed THEN "duplicate"
                                  ELSE IF ~req[r].valid THEN "ineligible" ELSE "push"]
  /\ UNCHANGED <<redisVars, dumpVars, worker, bworker, airdrops, paid>>

\* rpush
Push(r) ==
  /\ req[r].pc = "push"
  /\ queue' = Append(queue, req[r].addr)
  /\ req' = [req EXCEPT ![r] = [@ EXCEPT !.pc = "mark", !.pushed = TRUE]]
  /\ UNCHANGED <<claimed, dumpVars, worker, bworker, airdrops, paid>>

\* Mutant: the address is queued but not remembered.
MarkNothing(r) ==
  /\ req[r].pc = "mark"
  /\ req' = [req EXCEPT ![r].pc = "queued"]
  /\ UNCHANGED <<redisVars, dumpVars, worker, bworker, airdrops, paid>>

\* sadd, and the answer "queued"
Mark(r) ==
  /\ req[r].pc = "mark"
  /\ claimed' = claimed \cup {req[r].addr}
  /\ req' = [req EXCEPT ![r].pc = "queued"]
  /\ UNCHANGED <<queue, dumpVars, worker, bworker, airdrops, paid>>

\* The process ends; so does an error of Redis, which no handler catches.
ServerCrash ==
  /\ Faults /\ Serving # {}
  /\ req' = [r \in Requests |-> IF r \in Serving THEN [req[r] EXCEPT !.pc = "dead"] ELSE req[r]]
  /\ UNCHANGED <<redisVars, dumpVars, worker, bworker, airdrops, paid>>

\* Redis runs with its default snapshots and no append-only file: a restart
\* takes both keys back to the last snapshot, or to nothing.
RedisSave ==
  /\ restarts < MaxRestarts
  /\ dump' = [claimed |-> claimed, queue |-> queue]
  /\ dump' # dump
  /\ UNCHANGED <<redisVars, restarts, req, worker, bworker, airdrops, paid>>

RedisRestart ==
  /\ restarts < MaxRestarts
  /\ restarts' = restarts + 1
  /\ claimed' = dump.claimed /\ queue' = dump.queue
  /\ UNCHANGED <<dump, req, worker, bworker, airdrops, paid>>

-----------------------------------------------------------------------------
(* worker.js *)

\* How often texts of the set A are in a list.
Occurrences(A, s) == Cardinality({i \in DOMAIN s : s[i] \in A})

Pay(batch) == paid' = [a \in Address |-> paid[a] + Occurrences({a}, batch)]

Payable == Valid \ Rejecting

Spoilers == Address \ Payable

Mintable(batch) == \A i \in DOMAIN batch : batch[i] \in Payable

\* blpop("claims", 0)
WorkerPop ==
  /\ worker.pc = "pop" /\ queue # <<>>
  /\ worker' = [pc |-> "fill", batch |-> <<Head(queue)>>]
  /\ queue' = Tail(queue)
  /\ UNCHANGED <<claimed, dumpVars, req, bworker, airdrops, paid>>

\* Mutant: the list is popped before the batch is known to have room.
WorkerFillOver ==
  /\ worker.pc = "fill"
  /\ \/ /\ queue # <<>>
        /\ queue' = Tail(queue)
        /\ worker' = IF Len(worker.batch) < Batch
                       THEN [worker EXCEPT !.batch = Append(worker.batch, Head(queue))]
                       ELSE [worker EXCEPT !.pc = "send"]
     \/ /\ queue = <<>>
        /\ worker' = [worker EXCEPT !.pc = "send"]
        /\ UNCHANGED queue
  /\ UNCHANGED <<claimed, dumpVars, req, bworker, airdrops, paid>>

\* Mutant: the answer null of an empty list is not looked at.
WorkerFillNull ==
  /\ worker.pc = "fill"
  /\ IF Len(worker.batch) < Batch
       THEN worker' = [worker EXCEPT !.batch =
              Append(@, IF queue = <<>> THEN "null" ELSE Head(queue))]
       ELSE worker' = [worker EXCEPT !.pc = "send"]
  /\ queue' = IF queue # <<>> /\ Len(worker.batch) < Batch THEN Tail(queue) ELSE queue
  /\ UNCHANGED <<claimed, dumpVars, req, bworker, airdrops, paid>>

\* lpop until the batch is full or the list is empty
WorkerFill ==
  /\ worker.pc = "fill"
  /\ \/ /\ Len(worker.batch) < Batch /\ queue # <<>>
        /\ worker' = [worker EXCEPT !.batch = Append(worker.batch, Head(queue))]
        /\ queue' = Tail(queue)
     \/ /\ Len(worker.batch) = Batch \/ queue = <<>>
        /\ worker' = [worker EXCEPT !.pc = "send"]
        /\ UNCHANGED queue
  /\ UNCHANGED <<claimed, dumpVars, req, bworker, airdrops, paid>>

\* token.airdrop: ethers refuses a text that is no address, and a recipient
\* that refuses the token makes the gas estimate fail; the exception ends the
\* process and its batch is gone.
WorkerSend ==
  /\ worker.pc = "send"
  /\ IF Mintable(worker.batch)
       THEN /\ airdrops' = Append(airdrops, worker.batch)
            /\ worker' = [pc |-> "wait", batch |-> <<>>]
       ELSE /\ worker' = [pc |-> "down", batch |-> <<>>]
            /\ UNCHANGED airdrops
  /\ UNCHANGED <<redisVars, dumpVars, req, bworker, paid>>

\* tx.wait(): the worker's last transaction is mined when all of them are.
WorkerWait ==
  /\ worker.pc = "wait" /\ airdrops = <<>>
  /\ worker' = [worker EXCEPT !.pc = "pop"]
  /\ UNCHANGED <<redisVars, dumpVars, req, bworker, airdrops, paid>>

\* Mutant: the batch goes back to the list, though it may have been sent.
WorkerCrashRequeue ==
  /\ Faults /\ worker.pc \notin {"pop", "down"}
  /\ queue' = queue \o (IF worker.pc = "wait" /\ airdrops # <<>>
                         THEN airdrops[Len(airdrops)] ELSE worker.batch)
  /\ worker' = [pc |-> "down", batch |-> <<>>]
  /\ UNCHANGED <<claimed, dumpVars, req, bworker, airdrops, paid>>

\* process.exit(1) on any error, or a crash: the batch held is lost, a
\* transaction already sent may still be mined.
WorkerCrash ==
  /\ Faults /\ worker.pc # "down"
  /\ worker' = [pc |-> "down", batch |-> <<>>]
  /\ UNCHANGED <<redisVars, dumpVars, req, bworker, airdrops, paid>>

\* An operator starts the process again.
WorkerStart ==
  /\ "worker" \in Consumers /\ worker.pc = "down"
  /\ worker' = [pc |-> "pop", batch |-> <<>>]
  /\ UNCHANGED <<redisVars, dumpVars, req, bworker, airdrops, paid>>

MineAirdrop ==
  /\ airdrops # <<>>
  /\ Pay(Head(airdrops))
  /\ airdrops' = Tail(airdrops)
  /\ UNCHANGED <<redisVars, dumpVars, req, worker, bworker>>

-----------------------------------------------------------------------------
(* batch-worker.js *)

\* llen: an empty list is polled again a second later.
BatchLen ==
  /\ bworker.pc = "len" /\ queue # <<>>
  /\ bworker' = [pc |-> "fill", batch |-> <<>>]
  /\ UNCHANGED <<redisVars, dumpVars, req, worker, airdrops, paid>>


\* blpop("claims", 1) until the batch is full or the interval is over
BatchFill ==
  /\ bworker.pc = "fill"
  /\ \/ /\ Len(bworker.batch) < BatchSize /\ queue # <<>>
        /\ bworker' = [bworker EXCEPT !.batch = Append(bworker.batch, Head(queue))]
        /\ queue' = Tail(queue)
     \/ /\ Len(bworker.batch) = BatchSize \/ queue = <<>>
        /\ bworker' = [bworker EXCEPT !.pc = IF bworker.batch = <<>> THEN "len" ELSE "relay"]
        /\ UNCHANGED queue
     \/ \* BATCH_INTERVAL has passed
        /\ bworker.batch # <<>>
        /\ bworker' = [bworker EXCEPT !.pc = "relay"]
        /\ UNCHANGED queue
  /\ UNCHANGED <<claimed, dumpVars, req, worker, airdrops, paid>>

\* /sign-batch leaves out what ethers does not take for an address.
PaySigned(batch) ==
  paid' = [a \in Address |-> IF a \in Valid THEN paid[a] + Occurrences({a}, batch) ELSE paid[a]]

\* No recipient that is signed for refuses the token.
Relayable(batch) == \A i \in DOMAIN batch : batch[i] \notin Rejecting

\* /sign-batch and /relay-batch: what is signed is paid as a whole or not at
\* all, and a failure is only logged; an exception ends the process.
BatchRelay ==
  /\ bworker.pc = "relay"
  /\ \/ Relayable(bworker.batch) /\ PaySigned(bworker.batch)
     \/ (Faults \/ ~Relayable(bworker.batch)) /\ UNCHANGED paid
  /\ \/ bworker' = [pc |-> "len", batch |-> <<>>]
     \/ Faults /\ bworker' = [pc |-> "down", batch |-> <<>>]
  /\ UNCHANGED <<redisVars, dumpVars, req, worker, airdrops>>

BatchCrash ==
  /\ Faults /\ bworker.pc # "down"
  /\ bworker' = [pc |-> "down", batch |-> <<>>]
  /\ UNCHANGED <<redisVars, dumpVars, req, worker, airdrops, paid>>

BatchStart ==
  /\ "batch-worker" \in Consumers /\ bworker.pc = "down"
  /\ bworker' = [pc |-> "len", batch |-> <<>>]
  /\ UNCHANGED <<redisVars, dumpVars, req, worker, airdrops, paid>>

-----------------------------------------------------------------------------
HandlerStep(r) == Check(r) \/ Push(r) \/ Mark(r)
WorkerStep == WorkerPop \/ WorkerFill \/ WorkerSend \/ WorkerWait
BatchStep == BatchLen \/ BatchFill \/ BatchRelay

Next ==
  \/ \E r \in Requests : Request(r) \/ HandlerStep(r)
  \/ ServerCrash \/ RedisSave \/ RedisRestart
  \/ WorkerStep \/ WorkerCrash \/ WorkerStart \/ MineAirdrop
  \/ BatchStep \/ BatchCrash \/ BatchStart

Spec == Init /\ [][Next]_vars

QueueFairness ==
  /\ \A r \in Requests : WF_vars(HandlerStep(r))
  /\ WF_vars(WorkerStep) /\ WF_vars(BatchStep) /\ WF_vars(MineAirdrop)

-----------------------------------------------------------------------------
(* Properties *)

Pushes(A) == Cardinality({r \in Requests : req[r].pushed /\ req[r].addr \in A})

InAirdrops(A) == Cardinality({p \in (1..Len(airdrops)) \X (1..Batch) :
  p[2] \in DOMAIN airdrops[p[1]] /\ airdrops[p[1]][p[2]] \in A})

\* Payments to texts of A that may still come.
Held(A) ==
  Occurrences(A, queue) + Occurrences(A, worker.batch) + Occurrences(A, bworker.batch)
    + InAirdrops(A)

(***************************************************************************)
(* Safety: an accepted claim is paid at most once, whichever of the two    *)
(* workers takes it and whenever they crash (server.js, both workers).     *)
(* Only a Redis that goes back to a snapshot can bring an address back,    *)
(* and each restart at most once.                                          *)
(***************************************************************************)
PaidAtMostOncePerPush ==
  \A a \in Address : paid[a] + Held({a}) <= Pushes({a}) * (1 + restarts)

(***************************************************************************)
(* Safety: what the proof decides.  Whatever is posted to POST /claim, a   *)
(* text is queued only if its hash is a node of the tree, and one that is  *)
(* a wallet's only if the wallet is listed; tokens reach listed wallets    *)
(* only, though the hash of two children is a node, too; and no wallet of  *)
(* the list that posts the proof GET /proof served it is answered 403      *)
(* (setupBackend.js, verifyProof, the workers and the signer together).    *)
(***************************************************************************)
ProofDecides ==
  /\ \A r \in Requests :
       /\ req[r].pushed => LeafOf(BytesOf[req[r].addr]) \in TreeNodes(Allowlist)
       /\ req[r].pushed /\ IsWallet(BytesOf[req[r].addr]) =>
            Listed(Allowlist, BytesOf[req[r].addr])
       /\ req[r].served => req[r].pc # "ineligible"
  /\ \A a \in Address : paid[a] > 0 => Listed(Allowlist, BytesOf[a])

Largest == IF Batch >= BatchSize THEN Batch ELSE BatchSize

\* Queued texts that no worker can pay, and that none has any more.
Spoiled == Pushes(Spoilers) - Held(Spoilers)

(***************************************************************************)
(* Safety: without faults nothing payable disappears between the list, the *)
(* two workers' batches and the chain, except in a batch with a text that  *)
(* ethers does not take or a wallet that refuses the token: each of those  *)
(* costs at most the rest of one batch (worker.js and its airdrop,         *)
(* batch-worker.js and its two services).                                  *)
(***************************************************************************)
NothingLost ==
  \A a \in Payable : Pushes({a}) <= paid[a] + Held({a}) + (Largest - 1) * Spoiled

(***************************************************************************)
(* Safety: an address the API refuses as "already claimed" was queued: a   *)
(* crash between the commands of POST /claim never locks a client out      *)
(* before its claim was queued (rpush comes before sadd in server.js).     *)
(***************************************************************************)
ClaimedWasPushed == \A a \in claimed : \E r \in Requests : req[r].pushed /\ req[r].addr = a

(***************************************************************************)
(* Safety: the check of "claimed" can be passed only by requests that      *)
(* overlap, so one spelling is never queued more often than requests are   *)
(* served at once.                                                         *)
(***************************************************************************)
PushesBounded == \A a \in Address : Pushes({a}) <= InFlight

Lost(a) == paid[a] + Held({a}) < Pushes({a})


(***************************************************************************)
(* Documented, 01-arco1-fundamentos.md Dia 4: POST /claim consumes a proof *)
(* only once: no wallet is queued twice.                                   *)
(***************************************************************************)
ProofConsumedOnce ==
  \A r, q \in Requests : r # q /\ req[r].pushed /\ req[q].pushed =>
    BytesOf[req[r].addr] # BytesOf[req[q].addr]
=============================================================================
