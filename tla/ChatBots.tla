------------------------------- MODULE ChatBots -------------------------------
(***************************************************************************)
(* The two chat front ends of the claim path.  telegram-bot.js polls       *)
(* getUpdates and handles one update after the other; Telegram forgets an  *)
(* update when a later poll names a higher offset.  discord-bot/index.js   *)
(* handles interactions side by side and gives up on a service after       *)
(* twelve seconds (fetchT).  Both turn /claim into a voucher of the signer *)
(* and a request to the relayer.                                           *)
(*                                                                         *)
(* What the relayer does with a request is module GaslessClaim; here it    *)
(* pays, fails, or fails with a transaction still on its way.  Commands    *)
(* that only read (/balance, /leaderboard, /badges, /myprogress) and       *)
(* messages that are refused are the one command "other".                  *)
(***************************************************************************)
EXTENDS Naturals, Sequences

CONSTANTS
  Users, Wallets,
  MaxUpdates,   \* bound on the messages sent to the Telegram bot
  Interactions, \* uses of /claim on Discord (bound: each id is used once)
  MaxCrashes    \* bound on the times the Telegram bot ends

ASSUME BotsAssumption ==
  /\ MaxUpdates \in Nat /\ MaxCrashes \in Nat
  /\ Interactions \cap (1..MaxUpdates) = {}

Updates == 1..MaxUpdates

Command ==
  [cmd : {"link"}, user : Users, wallet : Wallets] \cup [cmd : {"claim", "other"}]

VARIABLES
  inbox,     \* messages sent to the Telegram bot; update_id is the place
  confirmed, \* updates up to this one Telegram has forgotten
  offset,    \* telegram-bot.js: offset
  bot,       \* its loop: pc, the rest of the batch, the update at work
  link,      \* Redis strings link:tg:<id>
  handled,   \* updates whose handler has ended
  talk,      \* talk[i]: the handler of the Discord interaction i
  minted,    \* minted[c]: times the claim of update or interaction c was paid
  stray,     \* stray[c]: requests for c at the relayer that nobody waits for
  told,      \* told[c]: what the user was told
  crashes    \* how often the Telegram bot has ended

claimVars == <<minted, stray>>
botsVars == <<inbox, confirmed, offset, bot, link, handled, talk, claimVars, told, crashes>>

Message == {"linked", "ok", "failed", "other"}

BotsTypeOK ==
  /\ inbox \in Seq(Command) /\ Len(inbox) <= MaxUpdates
  /\ confirmed \in 0..Len(inbox) /\ offset \in 0..(Len(inbox) + 1)
  /\ bot \in [pc : {"poll", "next", "sign", "relay", "reply", "down"},
              batch : Seq(Updates), at : 0..MaxUpdates, say : Message]
  /\ link \in [Users -> Wallets \cup {"none"}]
  /\ handled \subseteq Updates
  /\ talk \in [Interactions -> [pc : {"idle", "sign", "relay", "reply", "done"}, say : Message]]
  /\ minted \in [Updates \cup Interactions -> Nat]
  /\ stray \in [Updates \cup Interactions -> Nat]
  /\ told \in [Updates \cup Interactions -> SUBSET Message]
  /\ crashes \in 0..MaxCrashes

Started == [pc |-> "poll", batch |-> <<>>, at |-> 0, say |-> "other"]

BotsInit ==
  /\ inbox = <<>> /\ confirmed = 0 /\ offset = 0
  /\ bot = Started
  /\ link = [u \in Users |-> "none"]
  /\ handled = {}
  /\ talk = [i \in Interactions |-> [pc |-> "idle", say |-> "other"]]
  /\ minted = [c \in Updates \cup Interactions |-> 0]
  /\ stray = [c \in Updates \cup Interactions |-> 0]
  /\ told = [c \in Updates \cup Interactions |-> {}]
  /\ crashes = 0

-----------------------------------------------------------------------------
(* Telegram: getUpdates with an offset drops the updates before it and      *)
(* returns the rest.                                                        *)

Send(command) ==
  /\ Len(inbox) < MaxUpdates
  /\ inbox' = Append(inbox, command)
  /\ UNCHANGED <<confirmed, offset, bot, link, handled, talk, claimVars, told, crashes>>

Dropped == IF offset > confirmed THEN offset - 1 ELSE confirmed

\* Mutant: the batch is acknowledged when it is fetched.
PollAcking ==
  /\ bot.pc = "poll" /\ Dropped < Len(inbox)
  /\ confirmed' = Len(inbox)
  /\ bot' = [bot EXCEPT !.pc = "next",
                        !.batch = [k \in 1..(Len(inbox) - Dropped) |-> Dropped + k]]
  /\ UNCHANGED <<inbox, offset, link, handled, talk, claimVars, told, crashes>>

Poll ==
  /\ bot.pc = "poll"
  /\ confirmed' = Dropped
  /\ bot' = [bot EXCEPT !.pc = IF Dropped = Len(inbox) THEN "poll" ELSE "next",
                        !.batch = [k \in 1..(Len(inbox) - Dropped) |-> Dropped + k]]
  /\ UNCHANGED <<inbox, offset, link, handled, talk, claimVars, told, crashes>>

\* The request arrived and its answer did not: the catch of loop() waits three
\* seconds and polls again.
PollLost ==
  /\ bot.pc = "poll"
  /\ confirmed' = Dropped
  /\ UNCHANGED <<inbox, offset, bot, link, handled, talk, claimVars, told, crashes>>

-----------------------------------------------------------------------------
(* telegram-bot.js, loop and handle                                         *)

\* handle(u) returns or its exception is caught: on to the next update.
HandlerEnds ==
  /\ bot' = [bot EXCEPT !.pc = "next"]
  /\ handled' = handled \cup {bot.at}

\* Mutant: offset = u.update_id.
OffsetSame(u) == u

OffsetAfter(u) == u + 1

\* Mutant: /link keeps the wallet a user has linked first.
LinkedFirst(command) ==
  IF command.cmd = "link" /\ link[command.user] = "none"
    THEN [link EXCEPT ![command.user] = command.wallet] ELSE link

\* redis.set
Linked(command) ==
  IF command.cmd = "link" THEN [link EXCEPT ![command.user] = command.wallet] ELSE link

\* The offset moves before the update is handled, up to its first await.
Begin ==
  /\ bot.pc = "next" /\ bot.batch # <<>>
  /\ LET u == Head(bot.batch)
         command == inbox[u]
     IN  /\ offset' = OffsetAfter(u)
         /\ bot' = [pc |-> IF command.cmd = "claim" THEN "sign" ELSE "reply",
                    batch |-> Tail(bot.batch), at |-> u,
                    say |-> IF command.cmd = "link" THEN "linked" ELSE "other"]
         /\ link' = Linked(command)
  /\ UNCHANGED <<inbox, confirmed, handled, talk, claimVars, told, crashes>>

BatchDone ==
  /\ bot.pc = "next" /\ bot.batch = <<>>
  /\ bot' = [bot EXCEPT !.pc = "poll"]
  /\ UNCHANGED <<inbox, confirmed, offset, link, handled, talk, claimVars, told, crashes>>

\* The signer answers, answers an error, or the fetch throws.
BotSign ==
  /\ bot.pc = "sign"
  /\ \/ bot' = [bot EXCEPT !.pc = "relay"] /\ UNCHANGED handled
     \/ bot' = [bot EXCEPT !.pc = "reply", !.say = "failed"] /\ UNCHANGED handled
     \/ HandlerEnds
  /\ UNCHANGED <<inbox, confirmed, offset, link, talk, claimVars, told, crashes>>

\* The relayer is done with the request someone waits for: it has paid; it
\* has not; or it says it has not and the transaction is still on its way.
Paid(c) == minted' = [minted EXCEPT ![c] = @ + 1] /\ UNCHANGED stray
Unpaid == UNCHANGED claimVars
OnItsWay(c) == stray' = [stray EXCEPT ![c] = @ + 1] /\ UNCHANGED minted

\* Mutant: r.ok is not looked at.
BotRelayAnyStatus ==
  /\ bot.pc = "relay"
  /\ \/ Paid(bot.at) /\ bot' = [bot EXCEPT !.pc = "reply", !.say = "ok"] /\ UNCHANGED handled
     \/ /\ Unpaid \/ OnItsWay(bot.at)
        /\ bot' = [bot EXCEPT !.pc = "reply", !.say = "ok"] /\ UNCHANGED handled
  /\ UNCHANGED <<inbox, confirmed, offset, link, talk, told, crashes>>

BotRelay ==
  /\ bot.pc = "relay"
  /\ \/ /\ Paid(bot.at)
        /\ \/ bot' = [bot EXCEPT !.pc = "reply", !.say = "ok"] /\ UNCHANGED handled
           \/ HandlerEnds
     \/ /\ Unpaid \/ OnItsWay(bot.at)
        /\ \/ bot' = [bot EXCEPT !.pc = "reply", !.say = "failed"] /\ UNCHANGED handled
           \/ HandlerEnds
  /\ UNCHANGED <<inbox, confirmed, offset, link, talk, told, crashes>>

\* sendMessage, which may fail as well
BotReply ==
  /\ bot.pc = "reply"
  /\ \/ told' = [told EXCEPT ![bot.at] = @ \cup {bot.say}]
     \/ UNCHANGED told
  /\ HandlerEnds
  /\ UNCHANGED <<inbox, confirmed, offset, link, talk, claimVars, crashes>>

\* The process ends; the relayer goes on with a request it has.
BotCrash ==
  /\ bot.pc # "down" /\ crashes < MaxCrashes
  /\ crashes' = crashes + 1
  /\ offset' = 0
  /\ bot' = [Started EXCEPT !.pc = "down"]
  /\ IF bot.pc = "relay" THEN OnItsWay(bot.at) ELSE UNCHANGED claimVars
  /\ UNCHANGED <<inbox, confirmed, link, handled, talk, told>>

BotStart ==
  /\ bot.pc = "down"
  /\ bot' = Started
  /\ UNCHANGED <<inbox, confirmed, offset, link, handled, talk, claimVars, told, crashes>>

\* A transaction nobody waits for is mined, or reverts.
StraySettles(c) ==
  /\ stray[c] > 0
  /\ stray' = [stray EXCEPT ![c] = @ - 1]
  /\ \/ minted' = [minted EXCEPT ![c] = @ + 1]
     \/ UNCHANGED minted
  /\ UNCHANGED <<inbox, confirmed, offset, bot, link, handled, talk, told, crashes>>

-----------------------------------------------------------------------------
(* discord-bot/index.js, /claim                                             *)

TalkStep(i, from, to, message) ==
  /\ talk[i].pc = from
  /\ talk' = [talk EXCEPT ![i] = [pc |-> to, say |-> message]]
  /\ UNCHANGED <<inbox, confirmed, offset, bot, link, handled, crashes>>

Interact(i) == TalkStep(i, "idle", "sign", "other") /\ UNCHANGED <<claimVars, told>>

TalkSign(i) ==
  /\ \/ TalkStep(i, "sign", "relay", "other")
     \/ TalkStep(i, "sign", "reply", "failed")
  /\ UNCHANGED <<claimVars, told>>

TalkRelay(i) ==
  /\ \/ TalkStep(i, "relay", "reply", "ok") /\ Paid(i)
     \/ TalkStep(i, "relay", "reply", "failed") /\ (Unpaid \/ OnItsWay(i))
  /\ UNCHANGED told

\* Mutant: only the call to the signer is aborted.
TalkTimeoutSigner(i) ==
  /\ TalkStep(i, "sign", "reply", "failed") /\ UNCHANGED claimVars
  /\ UNCHANGED told

\* fetchT aborts; the service does not notice.
TalkTimeout(i) ==
  /\ \/ TalkStep(i, "sign", "reply", "failed") /\ UNCHANGED claimVars
     \/ TalkStep(i, "relay", "reply", "failed") /\ OnItsWay(i)
  /\ UNCHANGED told

\* editReply, whose own failure is swallowed
TalkReply(i) ==
  /\ TalkStep(i, "reply", "done", talk[i].say)
  /\ \/ told' = [told EXCEPT ![i] = {talk[i].say}]
     \/ UNCHANGED told
  /\ UNCHANGED claimVars

-----------------------------------------------------------------------------
BotStep == Poll \/ Begin \/ BatchDone \/ BotSign \/ BotRelay \/ BotReply

BotsNext ==
  \/ \E command \in Command : Send(command)
  \/ BotStep \/ PollLost \/ BotCrash \/ BotStart
  \/ \E c \in Updates \cup Interactions : StraySettles(c)
  \/ \E i \in Interactions :
       Interact(i) \/ TalkSign(i) \/ TalkRelay(i) \/ TalkTimeout(i) \/ TalkReply(i)

BotsSpec == BotsInit /\ [][BotsNext]_botsVars

\* Telegram answers a poll at last, and fetch gives up on a service after five
\* minutes.  Of Discord's handlers only their own timeouts are relied upon.
BotsFairness ==
  /\ WF_botsVars(BotStep)
  /\ \A i \in Interactions : WF_botsVars(TalkTimeout(i)) /\ WF_botsVars(TalkReply(i))

-----------------------------------------------------------------------------
(* Properties *)

(***************************************************************************)
(* Safety: Telegram forgets no update whose handler has not ended: a crash *)
(* of the bot at any step loses no message (loop of telegram-bot.js).      *)
(***************************************************************************)
ConfirmedWasHandled == 1..confirmed \subseteq handled

(***************************************************************************)
(* Safety: a /claim message is paid more than once only because the bot    *)
(* ended and was given the message again, at most once for each end.       *)
(***************************************************************************)
PaidOncePerDelivery ==
  \A u \in Updates :
    minted[u] + stray[u] + (IF bot.pc = "relay" /\ bot.at = u THEN 1 ELSE 0) <= 1 + crashes

\* The wallet of the last /link of a user, "none" without one.
LastLink(user) ==
  LET links == {u \in DOMAIN inbox : inbox[u].cmd = "link" /\ inbox[u].user = user}
  IN  IF links = {} THEN "none"
      ELSE inbox[CHOOSE u \in links : \A v \in links : v <= u].wallet

(***************************************************************************)
(* Safety: once the bot has handled all messages a user's link is the last *)
(* one they sent, though a restart handles older ones again.               *)
(***************************************************************************)
LinkIsLast ==
  bot.pc = "poll" /\ offset = Len(inbox) + 1 => \A user \in Users : link[user] = LastLink(user)

(***************************************************************************)
(* Safety: a user who reads "claim minerada" has been paid.                *)
(***************************************************************************)
OkMeansMinted == \A c \in Updates \cup Interactions : "ok" \in told[c] => minted[c] > 0

(***************************************************************************)
(* Liveness: a message is handled and forgotten by Telegram, whatever the  *)
(* messages before it do to the loop, unless the bot is left down.         *)
(***************************************************************************)
UpdateConfirmed ==
  \A u \in Updates : u <= Len(inbox) ~> u <= confirmed \/ bot.pc = "down"

(***************************************************************************)
(* Liveness: an interaction is answered even if no service ever answers.   *)
(***************************************************************************)
InteractionAnswered == \A i \in Interactions : talk[i].pc = "sign" ~> talk[i].pc = "done"
=============================================================================
