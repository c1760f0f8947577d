------------------------------ MODULE RpcFailover -----------------------------
(***************************************************************************)
(* rpc.js, and rpcDemo.js that uses it: bestRpc asks all endpoints of a    *)
(* network at once and takes the one that answers first; withFailover      *)
(* tries them in their order.                                              *)
(*                                                                         *)
(* The endpoints are not in this repository.  A provider of ethers waits   *)
(* for an endpoint that is away and may get its answer when it is back, or *)
(* throw; only healthCheck bounds that wait.                               *)
(***************************************************************************)
EXTENDS Naturals, Sequences

CONSTANTS
  Endpoints,  \* RPCS[network]
  RpcTimeout, \* the five seconds of healthCheck, in units of time
  MaxNow,     \* bound on the clock
  MaxFlips    \* bound on how often an endpoint goes or comes back

ASSUME RpcAssumption ==
  /\ Len(Endpoints) > 0
  /\ RpcTimeout \in Nat \ {0} /\ MaxNow \in Nat /\ MaxFlips \in Nat

VARIABLES
  now,   \* time since main() began
  away,  \* the endpoints that do not answer
  flips,
  probe, \* probe[k]: the healthCheck of endpoint k, and its latency
  demo   \* main(): pc, the endpoint at work

rpcVars == <<now, away, flips, probe, demo>>

Rpcs == DOMAIN Endpoints

\* main() calls bestRpc, which starts every healthCheck before it waits.
RpcInit ==
  /\ now = 0 /\ flips = 0
  /\ away \in SUBSET Rpcs
  /\ probe = [k \in Rpcs |-> [st |-> "asked", latency |-> 0]]
  /\ demo = [pc |-> "best", at |-> 0]

Flip(k) ==
  /\ flips < MaxFlips
  /\ flips' = flips + 1
  /\ away' = IF k \in away THEN away \ {k} ELSE away \cup {k}
  /\ UNCHANGED <<now, probe, demo>>

Late(k) == probe[k].st = "asked" /\ now >= RpcTimeout

\* A timer that is due runs before time goes on.
RpcTick ==
  /\ now < MaxNow
  /\ \A k \in Rpcs : ~Late(k)
  /\ now' = now + 1
  /\ UNCHANGED <<away, flips, probe, demo>>

\* getBlockNumber against timeout(5000)
HealthCheck(k) ==
  /\ probe[k].st = "asked"
  /\ \/ k \notin away /\ probe' = [probe EXCEPT ![k] = [st |-> "fulfilled", latency |-> now]]
     \/ (k \in away \/ Late(k)) /\ probe' = [probe EXCEPT ![k].st = "rejected"]
  /\ UNCHANGED <<now, away, flips, demo>>

Alive == {k \in Rpcs : probe[k].st = "fulfilled"}

\* The first of the fastest: sort keeps the order of equals.
Fastest(k) == \A j \in Alive :
  probe[k].latency < probe[j].latency \/ (probe[k].latency = probe[j].latency /\ k <= j)

\* Mutant: Promise.all, which one rejected check rejects.
BestRpcAll ==
  /\ demo.pc = "best"
  /\ \/ /\ \E k \in Rpcs : probe[k].st = "rejected"
        /\ demo' = [demo EXCEPT !.pc = "noneAlive"]
     \/ /\ Alive = Rpcs
        /\ \E k \in Alive : Fastest(k) /\ demo' = [pc |-> "call", at |-> k]
  /\ UNCHANGED <<now, away, flips, probe>>

\* Promise.allSettled
BestRpc ==
  /\ demo.pc = "best" /\ \A k \in Rpcs : probe[k].st # "asked"
  /\ \/ Alive = {} /\ demo' = [demo EXCEPT !.pc = "noneAlive"]
     \/ \E k \in Alive : Fastest(k) /\ demo' = [pc |-> "call", at |-> k]
  /\ UNCHANGED <<now, away, flips, probe>>

\* getBlockNumber on the provider chosen, which may be away by now: without
\* a timer main() waits, or throws and ends.
CallChosen ==
  /\ demo.pc = "call"
  /\ \/ demo.at \notin away /\ demo' = [pc |-> "failover", at |-> 1]
     \/ demo.at \in away /\ demo' = [demo EXCEPT !.pc = "thrown"]
  /\ UNCHANGED <<now, away, flips, probe>>

\* withFailover: the next endpoint is tried when the call throws.
WithFailover ==
  /\ demo.pc = "failover"
  /\ \/ demo.at \notin away /\ demo' = [demo EXCEPT !.pc = "done"]
     \/ /\ demo.at \in away
        /\ demo' = IF demo.at < Len(Endpoints) THEN [demo EXCEPT !.at = @ + 1]
                   ELSE [demo EXCEPT !.pc = "thrown"]
  /\ UNCHANGED <<now, away, flips, probe>>

RpcNext ==
  \/ \E k \in Rpcs : Flip(k) \/ HealthCheck(k)
  \/ RpcTick \/ BestRpc \/ CallChosen \/ WithFailover

RpcSpec == RpcInit /\ [][RpcNext]_rpcVars

-----------------------------------------------------------------------------
(* Properties *)

(***************************************************************************)
(* Safety: bestRpc waits for no endpoint longer than the timer of          *)
(* healthCheck, throws only if none answered by then, and else takes one   *)
(* that was no slower than any other: an endpoint that hangs or throws     *)
(* spoils neither the choice nor its time.                                 *)
(***************************************************************************)
BestRpcPrompt ==
  /\ \A k \in Rpcs : probe[k].st = "asked" => now <= RpcTimeout
  /\ demo.pc = "noneAlive" => Alive = {}
  /\ demo.pc = "call" => \A k \in Alive : probe[demo.at].latency <= probe[k].latency
=============================================================================
