--------------------------- MODULE EdgesProofs ------------------------------
(***************************************************************************)
(* Proofs about the parts that stand alone, but for deployment.  First     *)
(* RateLimit, for every set of requests, limit and window: what an         *)
(* expiring key may forget, that nobody is refused below the limit, and by *)
(* how much overlapping requests exceed it.                                *)
(***************************************************************************)
EXTENDS RateLimit, RpcFailover, ContractClaims, FiniteSetTheorems, TLAPS

\* The requests whose ZADD was executed before they ended or were admitted.
Added(m) == req[m].pc \in {"expire", "allowed", "dead"}

\* No request has a stamp of the future, or waits longer than MaxDelay.
Punctual == \A r \in Requests :
  /\ req[r].now <= clock
  /\ r \in Serving => clock <= req[r].now + MaxDelay

\* The expiry lies behind the window of every member that is admitted.
Covered == \A m \in zset :
  /\ Added(m)
  /\ req[m].pc = "allowed" => ttl >= req[m].now + Window

\* What ZCARD is about to count for r belongs to the window of r.
Counted == \A r \in Requests : req[r].pc = "count" =>
  \A m \in zset : req[m].now + Window > req[r].now

Before(r) == {q \in Requests \ {r} : Added(q) /\ req[q].now + Window > req[r].now}

IInv == TypeOK /\ Punctual /\ Covered /\ Counted /\ RefusedOnlyAtLimit

-----------------------------------------------------------------------------
LEMMA RefusedMeansBefore ==
  RefusedOnlyAtLimit <=> \A r \in Requests : req[r].pc = "refused" => Cardinality(Before(r)) >= Limit
  BY DEF RefusedOnlyAtLimit, Before, Added

LEMMA InitIInv == Init => IInv
  BY RateAssumption DEF Init, IInv, TypeOK, Punctual, Covered, Counted, RefusedOnlyAtLimit, Never, PCs, Serving

\* The members a refusal rests on never leave: it stays justified.
LEMMA RefusedStays ==
  ASSUME TypeOK, TypeOK', RefusedOnlyAtLimit,
         \A q \in Requests : Added(q) => Added(q)' /\ req'[q].now = req[q].now,
         \A q \in Requests : req'[q].pc = "refused" => req'[q].now = req[q].now,
         \A q \in Requests : req'[q].pc = "refused" =>
           req[q].pc = "refused" \/ Cardinality(Before(q)) >= Limit
  PROVE  RefusedOnlyAtLimit'
<1> SUFFICES ASSUME NEW r \in Requests, req'[r].pc = "refused"
             PROVE  Cardinality(Before(r)') >= Limit
  BY DEF RefusedOnlyAtLimit, Before, Added
<1>1. Cardinality(Before(r)) >= Limit
  BY RefusedMeansBefore
<1>2. Before(r) \subseteq Before(r)'
  BY DEF Before
<1>3. IsFiniteSet(Before(r)')
  <2>1. Before(r)' \subseteq Requests
    BY DEF Before
  <2> QED BY <2>1, FS_Subset, RateAssumption
<1>4. /\ IsFiniteSet(Before(r))
      /\ Cardinality(Before(r)) <= Cardinality(Before(r)')
  BY <1>2, <1>3, FS_Subset
<1>5. Cardinality(Before(r)) \in Nat /\ Cardinality(Before(r)') \in Nat
  BY <1>3, <1>4, FS_CardinalityType
<1> QED BY <1>1, <1>4, <1>5, RateAssumption

LEMMA TypeStep == ASSUME TypeOK, [Next]_vars PROVE TypeOK'
<1> USE RateAssumption DEF TypeOK, PCs, Never
<1>1. ASSUME NEW r \in Requests, Arrive(r) PROVE TypeOK'
  BY <1>1 DEF Arrive
<1>2. ASSUME NEW r \in Requests, Trim(r) PROVE TypeOK'
  BY <1>2 DEF Trim, Goto
<1>3. ASSUME NEW r \in Requests, Count(r) PROVE TypeOK'
  BY <1>3 DEF Count, Goto
<1>4. ASSUME NEW r \in Requests, Add(r) PROVE TypeOK'
  BY <1>4 DEF Add, Goto
<1>5. ASSUME NEW r \in Requests, Expire(r) PROVE TypeOK'
  BY <1>5 DEF Expire, Goto
<1>6. ASSUME Tick PROVE TypeOK'
  BY <1>6 DEF Tick
<1>7. ASSUME ServerCrash PROVE TypeOK'
  BY <1>7 DEF ServerCrash
<1>8. CASE UNCHANGED vars
  BY <1>8 DEF vars
<1> QED BY <1>1, <1>2, <1>3, <1>4, <1>5, <1>6, <1>7, <1>8 DEF Next, Step

\* A step of one request: the others keep their state, and it keeps its stamp.
LEMMA NextIInv == ASSUME IInv, [Next]_vars PROVE IInv'
<1> USE RateAssumption DEF IInv
<1>0. TypeOK'
  BY TypeStep
<1> DEFINE Rest == Punctual' /\ Covered' /\ Counted' /\ RefusedOnlyAtLimit'
<1>1. ASSUME NEW r \in Requests, Arrive(r) PROVE Rest
  <2> USE <1>1, <1>0 DEF Arrive, TypeOK, Added
  <2>1. Punctual'
    BY DEF Punctual, Serving
  <2>2. Covered'
    BY DEF Covered
  <2>3. Counted'
    BY DEF Counted, Covered
  <2>4. RefusedOnlyAtLimit'
    BY RefusedStays
  <2> QED BY <2>1, <2>2, <2>3, <2>4
<1>2. ASSUME NEW r \in Requests, Trim(r) PROVE Rest
  <2> USE <1>2, <1>0 DEF Trim, Goto, TypeOK, Added
  <2>1. Punctual'
    BY DEF Punctual, Serving
  <2>2. Covered'
    BY DEF Covered, Never
  <2>3. Counted'
    BY DEF Counted, Covered
  <2>4. RefusedOnlyAtLimit'
    BY RefusedStays
  <2> QED BY <2>1, <2>2, <2>3, <2>4
<1>3. ASSUME NEW r \in Requests, Count(r) PROVE Rest
  <2> USE <1>3, <1>0 DEF Count, Goto, TypeOK, Added
  <2>1. Punctual'
    BY DEF Punctual, Serving
  <2>2. Covered'
    BY DEF Covered
  <2>3. Counted'
    BY DEF Counted, Covered
  <2>4. req'[r].pc = "refused" => Cardinality(Before(r)) >= Limit
    <3> SUFFICES ASSUME req'[r].pc = "refused" PROVE Cardinality(Before(r)) >= Limit
      OBVIOUS
    <3>1. Cardinality(zset) >= Limit
      OBVIOUS
    <3>2. zset \subseteq Before(r)
      BY DEF Before, Counted, Covered
    <3>3. IsFiniteSet(Before(r))
      <4>1. Before(r) \subseteq Requests
        BY DEF Before
      <4> QED BY <4>1, FS_Subset
    <3>4. IsFiniteSet(zset) /\ Cardinality(zset) <= Cardinality(Before(r))
      BY <3>2, <3>3, FS_Subset
    <3>5. Cardinality(zset) \in Nat /\ Cardinality(Before(r)) \in Nat
      BY <3>3, <3>4, FS_CardinalityType
    <3> QED BY <3>1, <3>4, <3>5
  <2>5. RefusedOnlyAtLimit'
    BY <2>4, RefusedStays
  <2> QED BY <2>1, <2>2, <2>3, <2>5
<1>4. ASSUME NEW r \in Requests, Add(r) PROVE Rest
  <2> USE <1>4, <1>0 DEF Add, Goto, TypeOK, Added
  <2>1. Punctual'
    BY DEF Punctual, Serving
  <2>2. Covered'
    BY DEF Covered
  <2>3. Counted'
    <3> SUFFICES ASSUME NEW q \in Requests, req'[q].pc = "count", NEW m \in zset'
                 PROVE  req'[m].now + Window > req'[q].now
      BY DEF Counted
    <3>1. CASE m = r
      BY <3>1 DEF Punctual, Serving
    <3>2. CASE m # r
      BY <3>2 DEF Counted
    <3> QED BY <3>1, <3>2
  <2>4. RefusedOnlyAtLimit'
    BY RefusedStays
  <2> QED BY <2>1, <2>2, <2>3, <2>4
<1>5. ASSUME NEW r \in Requests, Expire(r) PROVE Rest
  <2> USE <1>5, <1>0 DEF Expire, Goto, TypeOK, Added
  <2>1. Punctual'
    BY DEF Punctual, Serving
  <2>2. Covered'
    BY DEF Covered, Punctual
  <2>3. Counted'
    BY DEF Counted, Covered
  <2>4. RefusedOnlyAtLimit'
    BY RefusedStays
  <2> QED BY <2>1, <2>2, <2>3, <2>4
<1>6. ASSUME Tick PROVE Rest
  <2> USE <1>6, <1>0 DEF Tick, TypeOK, Added
  <2>1. Punctual'
    BY DEF Punctual, Serving
  <2>2. Covered'
    BY DEF Covered
  <2>3. Counted'
    BY DEF Counted
  <2>4. RefusedOnlyAtLimit'
    BY RefusedStays
  <2> QED BY <2>1, <2>2, <2>3, <2>4
<1>7. ASSUME ServerCrash PROVE Rest
  <2> USE <1>7, <1>0 DEF ServerCrash, TypeOK, Added, Serving
  <2>1. Punctual'
    BY DEF Punctual
  <2>2. Covered'
    BY DEF Covered
  <2>3. Counted'
    BY DEF Counted
  <2>4. RefusedOnlyAtLimit'
    BY RefusedStays
  <2> QED BY <2>1, <2>2, <2>3, <2>4
<1>8. ASSUME UNCHANGED vars PROVE Rest
  BY <1>8 DEF vars, Punctual, Covered, Counted, RefusedOnlyAtLimit, Serving, Added
<1>9. Rest
  <2> HIDE DEF Rest
  <2> QED BY <1>1, <1>2, <1>3, <1>4, <1>5, <1>6, <1>7, <1>8 DEF Next, Step
<1> QED BY <1>0, <1>9

LEMMA Invariance == Spec => []IInv
<1>1. Init => IInv
  BY InitIInv
<1>2. IInv /\ [Next]_vars => IInv'
  BY NextIInv
<1> QED BY <1>1, <1>2, PTL DEF Spec

(***************************************************************************)
(* Every reachable state of allow() is well typed.                         *)
(***************************************************************************)
THEOREM TypeCorrect == Spec => []TypeOK
<1>1. IInv => TypeOK
  BY DEF IInv
<1> QED BY <1>1, Invariance, PTL

(***************************************************************************)
(* For any limit, window and number of requests, allow() refuses nobody    *)
(* below the limit.                                                        *)
(***************************************************************************)
THEOREM RefusedHolds == Spec => []RefusedOnlyAtLimit
<1>1. IInv => RefusedOnlyAtLimit
  BY DEF IInv
<1> QED BY <1>1, Invariance, PTL

(***************************************************************************)
(* Only requests between ZADD and PEXPIRE, or ended there, can be          *)
(* forgotten when the key of allow() expires.                              *)
(***************************************************************************)
THEOREM ExpiryHolds == Spec => ExpiryIsLate
<1> DEFINE A == \A m \in lost' \ lost : req[m].pc \in {"expire", "dead"}
<1>1. IInv /\ [Next]_vars => [A]_vars
  <2> SUFFICES ASSUME IInv, Next PROVE A
    OBVIOUS
  <2> USE RateAssumption DEF IInv, TypeOK
  <2>1. CASE Tick
    BY <2>1 DEF Tick, Covered, Added
  <2>2. CASE ~Tick
    BY <2>2 DEF Next, Step, Arrive, Trim, Count, Add, Expire, ServerCrash
  <2> QED BY <2>1, <2>2
<1> QED BY <1>1, Invariance, PTL DEF Spec, ExpiryIsLate
-----------------------------------------------------------------------------
(* How far overlapping requests exceed the limit *)

\* The requests in flight are within their bound.
ServingBounded == Cardinality(Serving) <= InFlight

\* A request that was added, and not forgotten, is counted in all its window.
Kept == \A m \in Requests :
  req[m].pc \in {"expire", "allowed"} /\ m \notin lost /\ clock < req[m].now + Window => m \in zset

\* The requests of the window that ends at t, let pass or about to be.
Passing(t) == {r \in Requests \ lost :
  /\ req[r].pc \in {"add", "expire", "allowed"}
  /\ req[r].now <= t /\ t + MaxDelay < req[r].now + Window}

PassingBounded == \A t \in 0..MaxTime : Cardinality(Passing(t)) <= Limit + InFlight - 1

OInv == IInv /\ ServingBounded /\ Kept /\ PassingBounded

LEMMA PartOfRequests ==
  ASSUME NEW S, S \subseteq Requests
  PROVE  IsFiniteSet(S) /\ Cardinality(S) \in Nat
  BY RateAssumption, FS_Subset, FS_CardinalityType

LEMMA SmallerPart ==
  ASSUME NEW S, NEW T, S \subseteq T, T \subseteq Requests
  PROVE  Cardinality(S) <= Cardinality(T)
  BY PartOfRequests, FS_Subset

LEMMA InitOInv == Init => OInv
<1> SUFFICES ASSUME Init PROVE OInv
  OBVIOUS
<1>1. Serving = {} /\ \A t \in 0..MaxTime : Passing(t) = {}
  BY DEF Init, Serving, Passing
<1>2. Cardinality({}) = 0
  BY FS_EmptySet
<1>3. ServingBounded /\ PassingBounded
  BY <1>1, <1>2, RateAssumption DEF ServingBounded, PassingBounded
<1>4. Kept
  BY DEF Init, Kept
<1> QED BY <1>3, <1>4, InitIInv DEF OInv

LEMMA ServingStep ==
  ASSUME IInv, ServingBounded, [Next]_vars
  PROVE  ServingBounded'
<1> USE RateAssumption DEF IInv
<1>0. Serving \subseteq Requests /\ Serving' \subseteq Requests
  BY DEF Serving
<1>1. CASE \E r \in Requests : Arrive(r)
  <2>1. PICK r \in Requests : Arrive(r)
    BY <1>1
  <2>2. Serving' \subseteq Serving \cup {r}
    BY <2>1 DEF Serving, Arrive, TypeOK
  <2>3. Cardinality(Serving) < InFlight
    BY <2>1 DEF Arrive
  <2>4. /\ Cardinality(Serving \cup {r}) <= Cardinality(Serving) + 1
        /\ Cardinality(Serving \cup {r}) \in Nat /\ Cardinality(Serving) \in Nat
    <3>1. IsFiniteSet(Serving) /\ Cardinality(Serving) \in Nat
      BY <1>0, PartOfRequests
    <3>2. Cardinality(Serving \cup {r}) = IF r \in Serving THEN Cardinality(Serving) ELSE Cardinality(Serving) + 1
      BY <3>1, FS_AddElement
    <3> QED BY <3>1, <3>2
  <2>5. Cardinality(Serving') <= Cardinality(Serving \cup {r})
    BY <2>2, <1>0, SmallerPart
  <2>6. Cardinality(Serving') \in Nat
    BY <1>0, PartOfRequests
  <2> QED BY <2>3, <2>4, <2>5, <2>6 DEF ServingBounded
<1>2. CASE ~\E r \in Requests : Arrive(r)
  <2>1. Serving' \subseteq Serving
    <3>1. CASE \E r \in Requests : Step(r)
      BY <3>1 DEF Step, Trim, Count, Add, Expire, Goto, Serving, TypeOK
    <3>2. CASE Tick \/ UNCHANGED vars
      BY <3>2 DEF Tick, vars, Serving
    <3>3. CASE ServerCrash
      BY <3>3 DEF ServerCrash, Serving
    <3> QED BY <3>1, <3>2, <3>3, <1>2 DEF Next
  <2>2. Cardinality(Serving') <= Cardinality(Serving)
    BY <2>1, <1>0, SmallerPart
  <2>3. Cardinality(Serving') \in Nat /\ Cardinality(Serving) \in Nat
    BY <1>0, PartOfRequests
  <2> QED BY <2>2, <2>3 DEF ServingBounded
<1> QED BY <1>1, <1>2

LEMMA KeptStep ==
  ASSUME IInv, Kept, [Next]_vars
  PROVE  Kept'
<1> USE RateAssumption DEF IInv, TypeOK
<1>1. ASSUME NEW r \in Requests, Arrive(r) PROVE Kept'
  BY <1>1 DEF Arrive, Kept
<1>2. ASSUME NEW r \in Requests, Trim(r) PROVE Kept'
  BY <1>2 DEF Trim, Goto, Kept, Punctual
<1>3. ASSUME NEW r \in Requests, Count(r) \/ Add(r) \/ Expire(r) PROVE Kept'
  BY <1>3 DEF Count, Add, Expire, Goto, Kept
<1>4. ASSUME Tick PROVE Kept'
  BY <1>4 DEF Tick, Kept
<1>5. ASSUME ServerCrash PROVE Kept'
  BY <1>5 DEF ServerCrash, Kept
<1>6. CASE UNCHANGED vars
  BY <1>6 DEF vars, Kept
<1> QED BY <1>1, <1>2, <1>3, <1>4, <1>5, <1>6 DEF Next, Step

\* Whom the next request to pass meets in its window is counted or in flight.
LEMMA PassingWithin ==
  ASSUME IInv, Kept, NEW r \in Requests, Count(r), NEW t \in 0..MaxTime,
         r \in Passing(t)'
  PROVE  Passing(t)' \subseteq zset \cup Serving
<1> USE RateAssumption DEF IInv, TypeOK, Count, Goto
<1>1. clock <= t + MaxDelay
  <2>1. r \in Serving /\ req'[r].now = req[r].now
    BY DEF Serving
  <2>2. req[r].now <= t
    BY <2>1 DEF Passing
  <2> QED BY <2>1, <2>2 DEF Punctual
<1> SUFFICES ASSUME NEW q \in Passing(t)', q \notin Serving
             PROVE  q \in zset
  OBVIOUS
<1>2. /\ q \in Requests /\ q \notin lost
      /\ req[q].pc \in {"expire", "allowed"}
      /\ t + MaxDelay < req[q].now + Window
  BY DEF Passing, Serving
<1>3. clock < req[q].now + Window
  BY <1>1, <1>2
<1> QED BY <1>2, <1>3 DEF Kept

LEMMA PassingStep ==
  ASSUME OInv, TypeOK', [Next]_vars
  PROVE  PassingBounded'
<1> USE RateAssumption DEF OInv, IInv
<1> SUFFICES ASSUME NEW t \in 0..MaxTime
             PROVE  Cardinality(Passing(t)') <= Limit + InFlight - 1
  BY DEF PassingBounded
<1>0. Passing(t) \subseteq Requests /\ Passing(t)' \subseteq Requests
  BY DEF Passing
<1>1. CASE Passing(t)' \subseteq Passing(t)
  <2>1. Cardinality(Passing(t)') <= Cardinality(Passing(t))
    BY <1>0, <1>1, SmallerPart
  <2>2. Cardinality(Passing(t)') \in Nat /\ Cardinality(Passing(t)) \in Nat
    BY <1>0, PartOfRequests
  <2> QED BY <2>1, <2>2 DEF PassingBounded
<1>2. ASSUME NEW r \in Requests, Count(r) PROVE Cardinality(Passing(t)') <= Limit + InFlight - 1
  <2>1. CASE r \notin Passing(t)'
    <3>1. Passing(t)' \subseteq Passing(t)
      BY <1>2, <2>1 DEF Passing, Count, Goto, TypeOK
    <3> QED BY <3>1, <1>1
  <2>2. CASE r \in Passing(t)'
    <3>1. Passing(t)' \subseteq zset \cup Serving
      BY <1>2, <2>2, PassingWithin
    <3>2. Cardinality(zset) < Limit
      <4>1. req'[r].pc = "add"
        BY <1>2, <2>2 DEF Passing, Count, Goto, TypeOK
      <4>2. ~(Cardinality(zset) >= Limit)
        BY <4>1, <1>2 DEF Count, Goto, TypeOK
      <4>3. Cardinality(zset) \in Nat
        BY PartOfRequests DEF TypeOK
      <4> QED BY <4>2, <4>3
    <3>3. zset \subseteq Requests /\ Serving \subseteq Requests
      BY DEF TypeOK, Serving
    <3>4. Cardinality(zset \cup Serving) <= Cardinality(zset) + Cardinality(Serving)
      <4>1. IsFiniteSet(zset) /\ IsFiniteSet(Serving) /\ zset \cap Serving \subseteq Requests
        BY <3>3, PartOfRequests
      <4>2. Cardinality(zset \cup Serving)
              = Cardinality(zset) + Cardinality(Serving) - Cardinality(zset \cap Serving)
        BY <4>1, FS_Union
      <4>3. /\ Cardinality(zset) \in Nat /\ Cardinality(Serving) \in Nat
            /\ Cardinality(zset \cap Serving) \in Nat
        BY <3>3, <4>1, PartOfRequests
      <4> QED BY <4>2, <4>3
    <3>5. Cardinality(Passing(t)') <= Cardinality(zset \cup Serving)
      BY <3>1, <3>3, SmallerPart
    <3>6. /\ Cardinality(zset) \in Nat /\ Cardinality(Serving) \in Nat
          /\ Cardinality(Passing(t)') \in Nat /\ Cardinality(zset \cup Serving) \in Nat
      BY <1>0, <3>3, PartOfRequests
    <3>7. Cardinality(Serving) <= InFlight
      BY DEF ServingBounded
    <3> HIDE DEF OInv, IInv
    <3> QED BY <3>2, <3>4, <3>5, <3>6, <3>7
  <2> QED BY <2>1, <2>2
<1>3. ASSUME NEW r \in Requests, Arrive(r) \/ Trim(r) \/ Add(r) \/ Expire(r)
      PROVE  Passing(t)' \subseteq Passing(t)
  BY <1>3 DEF Passing, Arrive, Trim, Add, Expire, Goto, TypeOK
<1>4. ASSUME Tick \/ UNCHANGED vars PROVE Passing(t)' \subseteq Passing(t)
  BY <1>4 DEF Passing, Tick, vars, TypeOK
<1>5. ASSUME ServerCrash PROVE Passing(t)' \subseteq Passing(t)
  BY <1>5 DEF Passing, ServerCrash, TypeOK
<1> QED BY <1>1, <1>2, <1>3, <1>4, <1>5 DEF Next, Step

LEMMA OvershootInvariance == Spec => []OInv
<1>1. OInv /\ [Next]_vars => OInv'
  <2> SUFFICES ASSUME OInv, [Next]_vars PROVE OInv'
    OBVIOUS
  <2>1. IInv'
    BY NextIInv DEF OInv
  <2>2. TypeOK'
    BY <2>1 DEF IInv
  <2> QED BY <2>1, <2>2, ServingStep, KeptStep, PassingStep DEF OInv
<1> QED BY <1>1, InitOInv, PTL DEF Spec

(***************************************************************************)
(* For any limit, window and number of requests, in every window allow()   *)
(* lets pass at most one request less than are in flight above the limit.  *)
(***************************************************************************)
THEOREM OvershootHolds == Spec => []OvershootBounded
<1>1. OInv => OvershootBounded
  <2> SUFFICES ASSUME OInv, NEW t \in 0..MaxTime
               PROVE  Cardinality(InWindow(t) \ lost) <= Limit + InFlight - 1
    BY DEF OvershootBounded
  <2>1. InWindow(t) \ lost \subseteq Passing(t) /\ Passing(t) \subseteq Requests
    BY DEF InWindow, Admitted, Passing
  <2>2. Cardinality(InWindow(t) \ lost) <= Cardinality(Passing(t))
    BY <2>1, SmallerPart
  <2>3. Cardinality(InWindow(t) \ lost) \in Nat /\ Cardinality(Passing(t)) \in Nat
    BY <2>1, PartOfRequests
  <2>4. Cardinality(Passing(t)) <= Limit + InFlight - 1
    BY DEF OInv, PassingBounded
  <2> QED BY <2>2, <2>3, <2>4, RateAssumption
<1> QED BY <1>1, OvershootInvariance, PTL
-----------------------------------------------------------------------------
(* RpcFailover, for any list of endpoints and any timer *)

RpcTypeOK ==
  /\ now \in Nat
  /\ probe \in [Rpcs -> [st : {"asked", "fulfilled", "rejected"}, latency : Nat]]
  /\ demo \in [pc : {"best", "call", "failover", "noneAlive", "thrown", "done"}, at : Nat]

\* Once bestRpc has chosen no check is under way, so that none can answer.
Settled == demo.pc # "best" => \A k \in Rpcs : probe[k].st # "asked"

RpcInv == RpcTypeOK /\ Settled /\ BestRpcPrompt

LEMMA InitRpcInv == RpcInit => RpcInv
  BY RpcAssumption DEF RpcInit, RpcInv, RpcTypeOK, Settled, BestRpcPrompt

LEMMA FastestLeads ==
  ASSUME RpcTypeOK, NEW k \in Alive, Fastest(k)
  PROVE  \A j \in Alive : probe[k].latency <= probe[j].latency
<1> SUFFICES ASSUME NEW j \in Alive PROVE probe[k].latency <= probe[j].latency
  OBVIOUS
<1>1. probe[k].latency \in Nat /\ probe[j].latency \in Nat
  BY DEF RpcTypeOK, Alive
<1>2. probe[k].latency < probe[j].latency \/ probe[k].latency = probe[j].latency
  BY DEF Fastest
<1> QED BY <1>1, <1>2

LEMMA NextRpcInv == ASSUME RpcInv, [RpcNext]_rpcVars PROVE RpcInv'
<1> USE RpcAssumption DEF RpcInv
<1>1. ASSUME NEW k \in Rpcs, Flip(k) PROVE RpcInv'
  BY <1>1 DEF Flip, RpcTypeOK, Settled, BestRpcPrompt, Alive
<1>2. ASSUME NEW k \in Rpcs, HealthCheck(k) PROVE RpcInv'
  <2>1. RpcTypeOK'
    <3>1. CASE probe' = [probe EXCEPT ![k] = [st |-> "fulfilled", latency |-> now]]
      BY <1>2, <3>1 DEF HealthCheck, RpcTypeOK
    <3>2. CASE probe' = [probe EXCEPT ![k].st = "rejected"]
      <4>1. [probe[k] EXCEPT !.st = "rejected"] \in [st : {"asked", "fulfilled", "rejected"}, latency : Nat]
        BY DEF RpcTypeOK
      <4> QED BY <1>2, <3>2, <4>1 DEF HealthCheck, RpcTypeOK
    <3> QED BY <1>2, <3>1, <3>2 DEF HealthCheck
  <2>2. demo.pc = "best" /\ demo' = demo /\ now' = now
    BY <1>2 DEF HealthCheck, Settled
  <2>3. \A j \in Rpcs : probe'[j].st = "asked" => probe[j].st = "asked"
    BY <1>2 DEF HealthCheck, RpcTypeOK
  <2> QED BY <2>1, <2>2, <2>3 DEF Settled, BestRpcPrompt
<1>3. ASSUME RpcTick PROVE RpcInv'
  <2>1. RpcTypeOK' /\ now' = now + 1 /\ UNCHANGED <<probe, demo>>
    BY <1>3 DEF RpcTick, RpcTypeOK
  <2>2. \A k \in Rpcs : probe[k].st = "asked" => now + 1 <= RpcTimeout
    BY <1>3 DEF RpcTick, Late, RpcTypeOK
  <2> QED BY <2>1, <2>2 DEF Settled, BestRpcPrompt, Alive
<1>4. ASSUME BestRpc PROVE RpcInv'
  <2> USE <1>4 DEF BestRpc
  <2>1. \/ Alive = {} /\ demo' = [demo EXCEPT !.pc = "noneAlive"]
        \/ \E k \in Alive : Fastest(k) /\ demo' = [pc |-> "call", at |-> k]
    OBVIOUS
  <2>2. CASE Alive = {} /\ demo' = [demo EXCEPT !.pc = "noneAlive"]
    BY <2>2 DEF RpcTypeOK, Settled, BestRpcPrompt, Alive
  <2>3. CASE \E k \in Alive : Fastest(k) /\ demo' = [pc |-> "call", at |-> k]
    <3>1. PICK k \in Alive : Fastest(k) /\ demo' = [pc |-> "call", at |-> k]
      BY <2>3
    <3>2. k \in Nat
      BY DEF Alive, Rpcs
    <3>3. \A j \in Alive : probe[k].latency <= probe[j].latency
      BY <3>1, FastestLeads
    <3> QED BY <3>1, <3>2, <3>3 DEF RpcTypeOK, Settled, BestRpcPrompt, Alive
  <2> QED BY <2>1, <2>2, <2>3
<1>5. ASSUME CallChosen PROVE RpcInv'
  BY <1>5 DEF CallChosen, RpcTypeOK, Settled, BestRpcPrompt, Alive
<1>6. ASSUME WithFailover PROVE RpcInv'
  BY <1>6 DEF WithFailover, RpcTypeOK, Settled, BestRpcPrompt, Alive
<1>7. CASE UNCHANGED rpcVars
  BY <1>7 DEF rpcVars, RpcTypeOK, Settled, BestRpcPrompt, Alive
<1> QED BY <1>1, <1>2, <1>3, <1>4, <1>5, <1>6, <1>7 DEF RpcNext

LEMMA RpcInvariance == RpcSpec => []RpcInv
  BY InitRpcInv, NextRpcInv, PTL DEF RpcSpec

(***************************************************************************)
(* For any endpoints, which may hang, throw and come back at any time,     *)
(* bestRpc ends its wait with its timer, throws only if no endpoint has    *)
(* answered, and else takes one no slower than the others.                 *)
(***************************************************************************)
THEOREM BestRpcHolds == RpcSpec => []BestRpcPrompt
<1>1. RpcInv => BestRpcPrompt
  BY DEF RpcInv
<1> QED BY <1>1, RpcInvariance, PTL

-----------------------------------------------------------------------------
(* ContractClaims, for any accounts and any depth of calls within calls *)

Storages == [marks : [Airdrops -> SUBSET Keys], nonces : [Accounts -> Nat],
             paid : [Airdrops -> [Keys -> Nat]]]

Balanced(s) ==
  /\ \A c \in Airdrops, k \in Keys : s.paid[c][k] = IF k \in s.marks[c] THEN 1 ELSE 0
  /\ \A a \in Accounts : s.nonces[a] = s.paid["secure"][a]

Sound == {s \in Storages : Balanced(s)}

\* The storage is right, and so is each that a refused call goes back to.
ClaimsInv ==
  /\ state \in Sound
  /\ calls \in Seq([to : Receivers, back : Sound])

LEMMA InitClaimsInv == ClaimsInit => ClaimsInv
<1> SUFFICES ASSUME ClaimsInit PROVE ClaimsInv
  OBVIOUS
<1>1. state \in Storages
  BY DEF ClaimsInit, Storages
<1>2. Balanced(state)
  BY DEF ClaimsInit, Balanced, Airdrops, Keys
<1> QED BY <1>1, <1>2 DEF ClaimsInit, ClaimsInv, Sound

LEMMA WithoutLast ==
  ASSUME NEW S, NEW q \in Seq(S), q # <<>>
  PROVE  q[Len(q)] \in S /\ SubSeq(q, 1, Len(q) - 1) \in Seq(S)
  OBVIOUS

\* One storage after a claim that pays the key once and marks it.
LEMMA PaySound ==
  ASSUME NEW s \in Sound, NEW c \in Airdrops, NEW k \in Keys, k \notin s.marks[c],
         NEW nonces \in [Accounts -> Nat],
         c = "secure" => nonces = [s.nonces EXCEPT ![k] = @ + 1],
         c # "secure" => nonces = s.nonces
  PROVE  [marks |-> [s.marks EXCEPT ![c] = @ \cup {k}], nonces |-> nonces,
          paid |-> [s.paid EXCEPT ![c][k] = @ + 1]] \in Sound
<1> DEFINE new == [marks |-> [s.marks EXCEPT ![c] = @ \cup {k}], nonces |-> nonces,
                   paid |-> [s.paid EXCEPT ![c][k] = @ + 1]]
<1>1. s \in Storages /\ Balanced(s)
  BY DEF Sound
<1>2. new \in Storages
  BY <1>1 DEF Storages
<1>3. \A d \in Airdrops, j \in Keys :
        /\ new.marks[d] = IF d = c THEN s.marks[d] \cup {k} ELSE s.marks[d]
        /\ new.paid[d][j] = IF d = c /\ j = k THEN s.paid[d][j] + 1 ELSE s.paid[d][j]
  BY <1>1 DEF Storages
<1>4. \A d \in Airdrops, j \in Keys : new.paid[d][j] = IF j \in new.marks[d] THEN 1 ELSE 0
  <2> SUFFICES ASSUME NEW d \in Airdrops, NEW j \in Keys
               PROVE  new.paid[d][j] = IF j \in new.marks[d] THEN 1 ELSE 0
    OBVIOUS
  <2>1. s.paid[d][j] = IF j \in s.marks[d] THEN 1 ELSE 0
    BY <1>1 DEF Balanced
  <2>2. CASE d = c /\ j = k
    BY <1>3, <2>1, <2>2
  <2>3. CASE ~(d = c /\ j = k)
    BY <1>3, <2>1, <2>3
  <2> QED BY <2>2, <2>3
<1>5. \A a \in Accounts : new.nonces[a] = new.paid["secure"][a]
  <2> SUFFICES ASSUME NEW a \in Accounts PROVE new.nonces[a] = new.paid["secure"][a]
    OBVIOUS
  <2>1. s.nonces[a] = s.paid["secure"][a] /\ a \in Keys /\ "secure" \in Airdrops
    BY <1>1 DEF Balanced, Keys, Airdrops
  <2>2. new.nonces[a] = IF c = "secure" /\ a = k THEN s.nonces[a] + 1 ELSE s.nonces[a]
    BY <1>1 DEF Storages
  <2>3. new.paid["secure"][a]
          = IF c = "secure" /\ a = k THEN s.paid["secure"][a] + 1 ELSE s.paid["secure"][a]
    BY <1>3, <2>1
  <2> HIDE DEF new
  <2> QED BY <2>1, <2>2, <2>3
<1> QED BY <1>2, <1>4, <1>5 DEF Sound, Balanced

LEMMA PayInv ==
  ASSUME ClaimsInv, NEW c \in Airdrops, NEW k \in Keys, NEW to \in Accounts,
         k \notin state.marks[c], NEW nonces \in [Accounts -> Nat],
         c = "secure" => nonces = [state.nonces EXCEPT ![k] = @ + 1],
         c # "secure" => nonces = state.nonces,
         Pay(c, k, to, nonces)
  PROVE  ClaimsInv'
<1>1. state \in Sound
  BY DEF ClaimsInv
<1>2. state' \in Sound
  BY <1>1, PaySound DEF Pay
<1>3. calls' \in Seq([to : Receivers, back : Sound])
  <2>1. CASE to \in Receivers
    BY <1>1, <2>1 DEF Pay, ClaimsInv
  <2>2. CASE to \notin Receivers
    BY <2>2 DEF Pay, ClaimsInv
  <2> QED BY <2>1, <2>2
<1> QED BY <1>2, <1>3 DEF ClaimsInv

LEMMA NextClaimsInv == ASSUME ClaimsInv, [ClaimsNext]_claimVars PROVE ClaimsInv'
<1>0. /\ state.nonces \in [Accounts -> Nat]
      /\ Accounts \subseteq Keys /\ Nullifiers \subseteq Keys
      /\ Airdrops = {"merkle", "secure", "gasless", "zk"}
  BY DEF ClaimsInv, Sound, Storages, Keys, Airdrops
<1>1. ASSUME NEW a \in Accounts, MerkleClaim(a) PROVE ClaimsInv'
  BY <1>0, <1>1, PayInv DEF MerkleClaim
<1>2. ASSUME NEW a \in Accounts, SecureClaim(a) PROVE ClaimsInv'
  <2>1. [state.nonces EXCEPT ![a] = @ + 1] \in [Accounts -> Nat]
    BY <1>0
  <2> QED BY <1>0, <1>2, <2>1, PayInv DEF SecureClaim
<1>3. ASSUME NEW a \in Accounts, NEW to \in Accounts, GaslessAirdropClaim(a, to) PROVE ClaimsInv'
  BY <1>0, <1>3, PayInv DEF GaslessAirdropClaim
<1>4. ASSUME NEW a \in Accounts, NEW n \in Nullifiers, NEW to \in Accounts, ZKClaim(a, n, to)
      PROVE  ClaimsInv'
  BY <1>0, <1>4, PayInv DEF ZKClaim
<1>5. ASSUME calls # <<>> PROVE
      /\ calls[Len(calls)].back \in Sound
      /\ SubSeq(calls, 1, Len(calls) - 1) \in Seq([to : Receivers, back : Sound])
  <2>1. calls \in Seq([to : Receivers, back : Sound])
    BY DEF ClaimsInv
  <2>2. /\ calls[Len(calls)] \in [to : Receivers, back : Sound]
        /\ SubSeq(calls, 1, Len(calls) - 1) \in Seq([to : Receivers, back : Sound])
    BY <1>5, <2>1, WithoutLast
  <2> QED BY <2>2
<1>6. ASSUME Accept PROVE ClaimsInv'
  BY <1>5, <1>6 DEF Accept, ClaimsInv
<1>7. ASSUME Refuse PROVE ClaimsInv'
  BY <1>5, <1>7 DEF Refuse, ClaimsInv
<1>8. ASSUME NewBlock \/ UNCHANGED claimVars PROVE ClaimsInv'
  BY <1>8 DEF NewBlock, claimVars, ClaimsInv
<1> QED BY <1>1, <1>2, <1>3, <1>4, <1>6, <1>7, <1>8 DEF ClaimsNext

(***************************************************************************)
(* For any accounts and any depth of calls, each contract has paid what it *)
(* has marked, whoever calls again from within a transfer or refuses it.   *)
(***************************************************************************)
THEOREM PaidHolds == ClaimsSpec => []PaidIsMarked
<1>1. ClaimsInv => PaidIsMarked
  BY DEF ClaimsInv, Sound, Balanced, PaidIsMarked
<1> QED BY <1>1, InitClaimsInv, NextClaimsInv, PTL DEF ClaimsSpec
=============================================================================
