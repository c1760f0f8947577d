------------------------------ MODULE RateLimit ------------------------------
(***************************************************************************)
(* ratelimit.js: allow(redis, key, limit, windowMs), the gate of POST      *)
(* /claim, for the requests of one address.  Redis executes one command at *)
(* a time, but allow() awaits each of its four commands, so the commands   *)
(* of concurrent requests interleave and time passes between them.         *)
(*                                                                         *)
(* Time is counted in units of which Window make windowMs.  A member of    *)
(* the sorted set is the request that added it (Math.random() keeps        *)
(* members apart), its score the time the request read from Date.now().    *)
(***************************************************************************)
EXTENDS Naturals, FiniteSets

CONSTANTS
  Requests,  \* requests for one address (bound: each id is used once)
  Limit,     \* the parameter limit
  Window,    \* the parameter windowMs, in units of time
  InFlight,  \* bound on the requests served at once
  MaxDelay,  \* the longest a request may wait for its commands
  MaxTime    \* bound on the clock

ASSUME RateAssumption ==
  /\ IsFiniteSet(Requests)
  /\ Limit \in Nat \ {0} /\ Window \in Nat \ {0}
  /\ InFlight \in Nat \ {0} /\ MaxTime \in Nat
  /\ MaxDelay \in Nat /\ MaxDelay < Window

VARIABLES
  clock,  \* Date.now() and the clock of Redis
  zset,   \* the members of the key: the requests it counts
  ttl,    \* when Redis drops the key; Never if no expiry is set
  req,    \* req[r]: pc and the time read by the request
  lost    \* members that went with the key before their time (history)

vars == <<clock, zset, ttl, req, lost>>

Never == MaxTime + Window + 1

PCs == {"idle", "trim", "count", "add", "expire", "allowed", "refused", "dead"}

TypeOK ==
  /\ clock \in 0..MaxTime
  /\ zset \subseteq Requests
  /\ ttl \in 0..Never
  /\ req \in [Requests -> [pc : PCs, now : 0..MaxTime]]
  /\ lost \subseteq Requests

Init ==
  /\ clock = 0
  /\ zset = {}
  /\ ttl = Never
  /\ req = [r \in Requests |-> [pc |-> "idle", now |-> 0]]
  /\ lost = {}

Serving == {r \in Requests : req[r].pc \in {"trim", "count", "add", "expire"}}

Goto(r, pc) == req' = [req EXCEPT ![r].pc = pc]

\* const now = Date.now()
Arrive(r) ==
  /\ req[r].pc = "idle"
  /\ Cardinality(Serving) < InFlight
  /\ req' = [req EXCEPT ![r] = [pc |-> "trim", now |-> clock]]
  /\ UNCHANGED <<clock, zset, ttl, lost>>

\* Mutant: members that have left the window are kept.
TrimNothing(r) ==
  /\ req[r].pc = "trim"
  /\ Goto(r, "count")
  /\ UNCHANGED <<clock, zset, ttl, lost>>

\* zremrangebyscore(k, 0, now - windowMs), both ends included.  A sorted set
\* that loses its last member disappears with its expiry.
Trim(r) ==
  /\ req[r].pc = "trim"
  /\ zset' = {m \in zset : req[m].now + Window > req[r].now}
  /\ ttl' = IF zset' = {} THEN Never ELSE ttl
  /\ Goto(r, "count")
  /\ UNCHANGED <<clock, lost>>

\* Mutant: one request too many passes.
CountOffByOne(r) ==
  /\ req[r].pc = "count"
  /\ Goto(r, IF Cardinality(zset) > Limit THEN "refused" ELSE "add")
  /\ UNCHANGED <<clock, zset, ttl, lost>>

\* zcard(k): a refused request leaves no member behind.
Count(r) ==
  /\ req[r].pc = "count"
  /\ Goto(r, IF Cardinality(zset) >= Limit THEN "refused" ELSE "add")
  /\ UNCHANGED <<clock, zset, ttl, lost>>

\* zadd keeps whatever expiry the key already has.
Add(r) ==
  /\ req[r].pc = "add"
  /\ zset' = zset \cup {r}
  /\ Goto(r, "expire")
  /\ UNCHANGED <<clock, ttl, lost>>

\* Mutant: only the first request sets an expiry (PEXPIRE with NX).
ExpireOnce(r) ==
  /\ req[r].pc = "expire"
  /\ ttl' = IF zset = {} \/ ttl # Never THEN ttl ELSE clock + Window
  /\ Goto(r, "allowed")
  /\ UNCHANGED <<clock, zset, lost>>

\* pexpire(k, windowMs); of a key that is gone it does nothing.
Expire(r) ==
  /\ req[r].pc = "expire"
  /\ ttl' = IF zset = {} THEN ttl ELSE clock + Window
  /\ Goto(r, "allowed")
  /\ UNCHANGED <<clock, zset, lost>>

\* A unit of time passes; Redis drops the key when its expiry is reached.
Tick ==
  /\ clock < MaxTime
  /\ \A r \in Serving : clock < req[r].now + MaxDelay
  /\ clock' = clock + 1
  /\ \/ /\ ttl <= clock + 1
        /\ zset' = {} /\ ttl' = Never
        /\ lost' = lost \cup {m \in zset : req[m].now + Window > clock + 1}
     \/ ttl > clock + 1 /\ UNCHANGED <<zset, ttl, lost>>
  /\ UNCHANGED req

\* server.js ends between two commands of the requests it is serving.
ServerCrash ==
  /\ Serving # {}
  /\ req' = [r \in Requests |-> IF r \in Serving THEN [req[r] EXCEPT !.pc = "dead"] ELSE req[r]]
  /\ UNCHANGED <<clock, zset, ttl, lost>>

Step(r) == Trim(r) \/ Count(r) \/ Add(r) \/ Expire(r)

Next ==
  \/ \E r \in Requests : Arrive(r) \/ Step(r)
  \/ Tick
  \/ ServerCrash

Spec == Init /\ [][Next]_vars

-----------------------------------------------------------------------------
(* Properties *)

Admitted == {r \in Requests : req[r].pc = "allowed"}

\* The admitted requests of the window that ends at time t.  A request that
\* waits is judged up to MaxDelay after its stamp, when members of its window
\* may rightly be gone: the window is shortened by as much.
InWindow(t) == {r \in Admitted : req[r].now <= t /\ t + MaxDelay < req[r].now + Window}

(***************************************************************************)
(* Documented, server.js, the sliding window: at most five requests in ten *)
(* seconds for an address.  No window of windowMs holds more admitted      *)
(* requests than the limit.                                                *)
(***************************************************************************)
LimitKept == \A t \in 0..MaxTime : Cardinality(InWindow(t)) <= Limit

(***************************************************************************)
(* Safety, what the code keeps of LimitKept, in every window and not only  *)
(* in aligned ones: requests that overlap may exceed the limit, as each    *)
(* can count before the others add, but by fewer than are in flight; one   *)
(* at a time, never.  Members that went with an expired key are not        *)
(* counted: ExpiryIsLate says which these are.                             *)
(***************************************************************************)
OvershootBounded ==
  \A t \in 0..MaxTime : Cardinality(InWindow(t) \ lost) <= Limit + InFlight - 1

(***************************************************************************)
(* Action property: an expiring key takes with it no member still in its   *)
(* window whose request has set the expiry: only requests between ZADD and *)
(* PEXPIRE, or ended there by a crash, can be forgotten.                   *)
(***************************************************************************)
ExpiryIsLate ==
  [][\A m \in lost' \ lost : req[m].pc \in {"expire", "dead"}]_vars

(***************************************************************************)
(* Safety: no request is refused below the limit: the set counts, besides  *)
(* admitted requests of its window, only requests served at once with it   *)
(* or ended by a crash after they were added.                              *)
(***************************************************************************)
RefusedOnlyAtLimit ==
  \A r \in Requests : req[r].pc = "refused" =>
    Cardinality({q \in Requests \ {r} :
      req[q].pc \in {"expire", "allowed", "dead"} /\ req[q].now + Window > req[r].now}) >= Limit
=============================================================================
