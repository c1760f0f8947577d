------------------------------ MODULE MCDelivery ------------------------------
(***************************************************************************)
(* Small instances, for TLC, of the parts that must bring every message to *)
(* an end: the claim queue while nothing fails, and the two chat bots.     *)
(* They share no state, and a behaviour runs one of them while the other   *)
(* stays as it began, so that their state spaces add up.                   *)
(***************************************************************************)
EXTENDS MCClaimQueue, ChatBots

CONSTANTS w1, w2

VARIABLE part

DeliveryInit == part \in {"queue", "bots"} /\ Init /\ BotsInit

DeliveryNext ==
  /\ UNCHANGED part
  /\ \/ part = "queue" /\ Next /\ UNCHANGED botsVars
     \/ part = "bots" /\ BotsNext /\ UNCHANGED vars

\* While a part is not run none of its fair actions is enabled.
DeliverySpec ==
  /\ DeliveryInit /\ [][DeliveryNext]_<<part, vars, botsVars>>
  /\ QueueFairness /\ BotsFairness
=============================================================================
