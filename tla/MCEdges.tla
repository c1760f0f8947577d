------------------------------- MODULE MCEdges --------------------------------
(***************************************************************************)
(* Small instances, for TLC, of the parts that share no state with the     *)
(* rest of the model or with one another: the rate limiter, the choice of  *)
(* an RPC endpoint, the contracts claimed from directly, and deployment.   *)
(* A behaviour runs one of them while the others stay as they began, so    *)
(* that their state spaces add up.                                         *)
(***************************************************************************)
EXTENDS RateLimit, RpcFailover, ContractClaims, Deployment

VARIABLE part

MCEndpoints == <<"publicnode", "technology", "tenderly">>

EdgesInit ==
  /\ part \in {"rate", "rpc", "claims", "deploy"}
  /\ Init /\ ClaimsInit
  /\ IF part = "rpc" THEN RpcInit ELSE RpcInit /\ away = {}
  /\ IF part = "deploy" THEN DeployInit ELSE DeployInit /\ service.name = "api"

EdgesNext ==
  /\ UNCHANGED part
  /\ \/ part = "rate" /\ Next /\ UNCHANGED <<rpcVars, claimVars, deployVars>>
     \/ part = "rpc" /\ RpcNext /\ UNCHANGED <<vars, claimVars, deployVars>>
     \/ part = "claims" /\ ClaimsNext /\ UNCHANGED <<vars, rpcVars, deployVars>>
     \/ part = "deploy" /\ DeployNext /\ UNCHANGED <<vars, rpcVars, claimVars>>

EdgesSpec == EdgesInit /\ [][EdgesNext]_<<part, vars, rpcVars, claimVars, deployVars>>

\* Which request comes first makes no difference: they come in their order.
InOrder == \A r, q \in Requests : r < q /\ req[r].pc = "idle" => req[q].pc = "idle"
=============================================================================
