---------------------------- MODULE ContractClaims ----------------------------
(***************************************************************************)
(* The contracts an account claims from by itself: MerkleAirdrop,          *)
(* SecureAirdrop, GaslessAirdrop and ZKAirdrop.  _mint of ERC-1155 calls   *)
(* a receiver that is a contract after it has moved the token; the         *)
(* receiver may call the same contract again before it accepts, or refuse  *)
(* and so undo the call that paid it.                                      *)
(***************************************************************************)
EXTENDS Naturals, Sequences, FiniteSets

CONSTANTS
  People,     \* accounts without code
  Receivers,  \* accounts with code, called when they receive a token
  Nullifiers, \* of ZKAirdrop, whose verifyProof accepts every proof
  Eligible,   \* accounts that have a Merkle proof and a signed claim
  Deadline,   \* of the signed claims
  MaxDepth,   \* bound on calls within calls
  MaxBlocks   \* bound on block.timestamp

ASSUME ClaimsAssumption ==
  /\ People \cap Receivers = {}
  /\ Eligible \subseteq People \cup Receivers
  /\ Deadline \in Nat /\ MaxDepth \in Nat /\ MaxBlocks \in Nat

VARIABLES
  time,  \* block.timestamp
  state, \* storage: marks (hasClaimed, claimed, nullifiers), nonces, claims paid
  calls  \* receivers being asked, outermost first, and the storage to go back to

claimVars == <<time, state, calls>>

Accounts == People \cup Receivers
Airdrops == {"merkle", "secure", "gasless", "zk"}
Keys == Accounts \cup Nullifiers

ClaimsInit ==
  /\ time = 0
  /\ state = [marks |-> [c \in Airdrops |-> {}], nonces |-> [a \in Accounts |-> 0],
              paid |-> [c \in Airdrops |-> [k \in Keys |-> 0]]]
  /\ calls = <<>>

\* msg.sender: anyone begins a transaction; inside it the receiver asked last
\* may call.
Sender(a) ==
  IF calls = <<>> THEN a \in Accounts ELSE Len(calls) < MaxDepth /\ a = calls[Len(calls)].to

\* _mint: the token has moved when the receiver is asked.
Pay(c, key, to, nonces) ==
  /\ state' = [marks |-> [state.marks EXCEPT ![c] = @ \cup {key}], nonces |-> nonces,
               paid |-> [state.paid EXCEPT ![c][key] = @ + 1]]
  /\ calls' = IF to \in Receivers THEN Append(calls, [to |-> to, back |-> state]) ELSE calls
  /\ UNCHANGED time

\* Mutant: the account is marked when its token has been accepted.
MerkleClaimLate(a) ==
  /\ Sender(a)
  /\ a \notin state.marks["merkle"] /\ a \in Eligible
  /\ state' = [state EXCEPT !.paid["merkle"][a] = @ + 1,
                            !.marks["merkle"] = IF a \in Receivers THEN @ ELSE @ \cup {a}]
  /\ calls' = IF a \in Receivers THEN Append(calls, [to |-> a, back |-> state]) ELSE calls
  /\ UNCHANGED time

MerkleClaim(a) ==
  /\ Sender(a)
  /\ a \notin state.marks["merkle"] /\ a \in Eligible
  /\ Pay("merkle", a, a, state.nonces)

\* The signature is one for nonce 0 that ends at Deadline.
SecureClaim(a) ==
  /\ Sender(a)
  /\ time <= Deadline
  /\ a \notin state.marks["secure"]
  /\ a \in People /\ a \in Eligible
  /\ state.nonces[a] = 0
  /\ Pay("secure", a, a, [state.nonces EXCEPT ![a] = @ + 1])

\* Anyone may claim for anyone.
GaslessAirdropClaim(a, to) ==
  /\ Sender(a)
  /\ to \notin state.marks["gasless"]
  /\ Pay("gasless", to, to, state.nonces)

ZKClaim(a, n, to) ==
  /\ Sender(a)
  /\ n \notin state.marks["zk"]
  /\ Pay("zk", n, to, state.nonces)

\* onERC1155Received returns.
Accept ==
  /\ calls # <<>>
  /\ calls' = SubSeq(calls, 1, Len(calls) - 1)
  /\ UNCHANGED <<time, state>>

\* It throws: the call that paid it is undone, and a receiver around it may
\* catch that.
Refuse ==
  /\ calls # <<>>
  /\ state' = calls[Len(calls)].back
  /\ calls' = SubSeq(calls, 1, Len(calls) - 1)
  /\ UNCHANGED time

NewBlock ==
  /\ calls = <<>> /\ time < MaxBlocks
  /\ time' = time + 1
  /\ UNCHANGED <<state, calls>>

ClaimsNext ==
  \/ \E a \in Accounts :
       \/ MerkleClaim(a) \/ SecureClaim(a)
       \/ \E to \in Accounts :
            \/ GaslessAirdropClaim(a, to)
            \/ \E n \in Nullifiers : ZKClaim(a, n, to)
  \/ Accept \/ Refuse \/ NewBlock

ClaimsSpec == ClaimsInit /\ [][ClaimsNext]_claimVars

-----------------------------------------------------------------------------
(* Properties *)

(***************************************************************************)
(* Safety: whoever calls again from within a transfer, and whichever calls *)
(* are undone, each contract has paid exactly what it has marked: an       *)
(* account once, a nullifier once, and a signed claim with its nonce.      *)
(***************************************************************************)
PaidIsMarked ==
  /\ \A c \in Airdrops, k \in Keys : state.paid[c][k] = IF k \in state.marks[c] THEN 1 ELSE 0
  /\ \A a \in Accounts : state.nonces[a] = state.paid["secure"][a]
=============================================================================
