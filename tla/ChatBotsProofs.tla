---------------------------- MODULE ChatBotsProofs ----------------------------
(***************************************************************************)
(* Proofs about ChatBots, for any number of users, messages, interactions  *)
(* and crashes: no message is lost, a payment is repeated only after a     *)
(* crash, links end at the last one sent, and what a user reads is true.   *)
(***************************************************************************)
EXTENDS ChatBots, TLAPS

Claims == Updates \cup Interactions

PCs == {"poll", "next", "sign", "relay", "reply", "down"}
Bots == [pc : PCs, batch : Seq(Updates), at : 0..MaxUpdates, say : Message]
Talks == [pc : {"idle", "sign", "relay", "reply", "done"}, say : Message]

Handling == bot.pc \in {"sign", "relay", "reply"}

\* The updates whose handler has ended, or is at work.
Begun == handled \cup (IF Handling THEN {bot.at} ELSE {})

\* A run of messages one after the other, up to last at most.
Run(batch, last) == \A k \in 1..Len(batch) : batch[k] = batch[1] + (k - 1) /\ batch[k] <= last

\* The batch holds the messages after those begun, in order and without a gap.
Ordered ==
  /\ bot.pc \in {"poll", "down"} => bot.batch = <<>>
  /\ Run(bot.batch, Len(inbox))
  /\ bot.batch # <<>> => bot.batch[1] = Dropped + 1
  /\ Handling => bot.at \in Updates /\ bot.at + 1 = offset
  /\ 1..(offset - 1) \subseteq Begun
  /\ ConfirmedWasHandled

\* A message is at the relayer, or was, at most once more than the bot ended,
\* and only if it was begun since the bot was started.
InFlight(u) == IF bot.pc = "relay" /\ bot.at = u THEN 1 ELSE 0
Since(u) == IF u < offset /\ ~(bot.pc = "sign" /\ bot.at = u) THEN 1 ELSE 0
Counted == \A u \in Updates : minted[u] + stray[u] + InFlight(u) <= crashes + Since(u)

\* Whoever is about to be told of a payment, or was, has been paid.
Said ==
  /\ bot.pc = "reply" /\ bot.say = "ok" => minted[bot.at] > 0
  /\ \A i \in Interactions : talk[i].pc = "reply" /\ talk[i].say = "ok" => minted[i] > 0
  /\ OkMeansMinted

\* wallet is that of the last /link of a user among the first n messages.
LinksOf(user, n) == {u \in 1..n : inbox[u].cmd = "link" /\ inbox[u].user = user}
IsLink(user, n, wallet) ==
  \/ LinksOf(user, n) = {} /\ wallet = "none"
  \/ \E u \in LinksOf(user, n) : (\A v \in LinksOf(user, n) : v <= u) /\ wallet = inbox[u].wallet

\* A link is that of the messages up to some one, not before the last begun:
\* after a restart it may be ahead of the messages handled again.
Following == \A user \in Users : \E n \in Dropped..Len(inbox) : IsLink(user, n, link[user])

IInv == BotsTypeOK /\ Ordered /\ Counted /\ Said /\ Following

-----------------------------------------------------------------------------
LEMMA InitIInv == BotsInit => IInv
<1> SUFFICES ASSUME BotsInit PROVE IInv
  OBVIOUS
<1> USE BotsAssumption
<1>1. BotsTypeOK
  BY DEF BotsInit, BotsTypeOK, Started, Command, Message, Updates
<1>2. Ordered /\ Counted /\ Said
  BY DEF BotsInit, Started, Ordered, Counted, Said, ConfirmedWasHandled, OkMeansMinted, Dropped, Begun, Handling,
         InFlight, Since, Updates, Run
<1>3. Following
  BY DEF BotsInit, Following, Dropped, IsLink, LinksOf
<1> QED BY <1>1, <1>2, <1>3 DEF IInv

LEMMA Types == ASSUME BotsTypeOK
               PROVE  /\ inbox \in Seq(Command) /\ confirmed \in Nat /\ offset \in Nat
                      /\ Dropped \in Nat /\ Dropped <= Len(inbox) /\ Len(inbox) \in Nat
                      /\ bot \in Bots /\ talk \in [Interactions -> Talks]
                      /\ minted \in [Claims -> Nat] /\ stray \in [Claims -> Nat]
                      /\ crashes \in Nat /\ MaxUpdates \in Nat /\ Updates \subseteq Claims
  BY BotsAssumption DEF BotsTypeOK, Bots, PCs, Talks, Claims, Dropped

\* A batch goes on with the message after its head.
LEMMA BatchRest ==
  ASSUME NEW batch \in Seq(Nat), batch # <<>>, NEW last \in Nat, Run(batch, last)
  PROVE  /\ Head(batch) = batch[1] /\ batch[1] \in Nat /\ batch[1] <= last
         /\ Run(Tail(batch), last)
         /\ Tail(batch) # <<>> => Tail(batch)[1] = batch[1] + 1
<1>1. /\ Tail(batch) \in Seq(Nat) /\ Len(batch) \in Nat /\ Len(batch) > 0 /\ Len(Tail(batch)) = Len(batch) - 1
      /\ batch[1] \in Nat /\ Head(batch) = batch[1] /\ Len(Tail(batch)) \in Nat
  OBVIOUS
<1>2. \A k \in 1..Len(Tail(batch)) : Tail(batch)[k] = batch[k + 1]
  BY <1>1
<1>3. \A k \in 1..Len(Tail(batch)) : batch[k + 1] = batch[1] + k /\ batch[k + 1] <= last
  BY <1>1 DEF Run
<1>4. Tail(batch) # <<>> => 1 \in 1..Len(Tail(batch))
  BY <1>1
<1> QED BY <1>1, <1>2, <1>3, <1>4 DEF Run

-----------------------------------------------------------------------------
(* The last link of a user *)

LEMMA LinkNext ==
  ASSUME BotsTypeOK, NEW user \in Users, NEW n \in Nat, n < Len(inbox), NEW wallet
  PROVE  /\ inbox[n + 1].cmd = "link" /\ inbox[n + 1].user = user => IsLink(user, n + 1, inbox[n + 1].wallet)
         /\ ~(inbox[n + 1].cmd = "link" /\ inbox[n + 1].user = user) /\ IsLink(user, n, wallet)
              => IsLink(user, n + 1, wallet)
<1>1. ASSUME inbox[n + 1].cmd = "link" /\ inbox[n + 1].user = user
      PROVE  IsLink(user, n + 1, inbox[n + 1].wallet)
  <2>1. n + 1 \in LinksOf(user, n + 1) /\ \A v \in LinksOf(user, n + 1) : v <= n + 1
    BY <1>1 DEF LinksOf
  <2> QED BY <2>1 DEF IsLink
<1>2. ASSUME ~(inbox[n + 1].cmd = "link" /\ inbox[n + 1].user = user), IsLink(user, n, wallet)
      PROVE  IsLink(user, n + 1, wallet)
  <2>1. LinksOf(user, n + 1) = LinksOf(user, n)
    BY <1>2 DEF LinksOf
  <2> QED BY <1>2, <2>1 DEF IsLink
<1> QED BY <1>1, <1>2

LEMMA LinkSame ==
  ASSUME inbox' = inbox, NEW user, NEW n, IsLink(user, n, link'[user])
  PROVE  IsLink(user, n, link[user])'
<1>1. LinksOf(user, n)' = LinksOf(user, n)
  BY DEF LinksOf
<1> QED BY <1>1 DEF IsLink

\* What is sent later changes nothing of it.
LEMMA LinkOfPrefix ==
  ASSUME BotsTypeOK, NEW user \in Users, NEW n \in Nat, n <= Len(inbox), NEW wallet, IsLink(user, n, wallet),
         NEW command, inbox' = Append(inbox, command)
  PROVE  IsLink(user, n, wallet)'
<1>1. \A u \in 1..n : inbox'[u] = inbox[u]
  BY Types
<1>2. LinksOf(user, n)' = LinksOf(user, n) /\ LinksOf(user, n) \subseteq 1..n
  BY <1>1 DEF LinksOf
<1> QED BY <1>1, <1>2 DEF IsLink

-----------------------------------------------------------------------------
(* Types *)

\* The message at work is one, and the head of a batch has been sent.
LEMMA AtWork == ASSUME BotsTypeOK, Ordered
                PROVE  /\ Handling => bot.at \in Updates
                       /\ bot.batch # <<>> => /\ Head(bot.batch) = bot.batch[1] /\ bot.batch[1] \in Updates
                                              /\ bot.batch[1] <= Len(inbox)
                                              /\ Tail(bot.batch) \in Seq(Updates)
<1>1. bot.batch \in Seq(Updates) /\ bot.at \in 0..MaxUpdates /\ offset \in Nat
  BY Types DEF Bots
<1>2. Handling => bot.at \in Updates
  BY <1>1, Types DEF Ordered, Updates, BotsTypeOK
<1>3. ASSUME bot.batch # <<>>
      PROVE  /\ Head(bot.batch) = bot.batch[1] /\ bot.batch[1] \in Updates /\ bot.batch[1] <= Len(inbox)
             /\ Tail(bot.batch) \in Seq(Updates)
  <2>1. Head(bot.batch) = bot.batch[1] /\ bot.batch[1] \in Updates /\ Tail(bot.batch) \in Seq(Updates)
        /\ 1 \in 1..Len(bot.batch)
    BY <1>1, <1>3
  <2> QED BY <2>1 DEF Ordered, Run
<1> QED BY <1>2, <1>3

\* What the steps of the loop do to its record, field by field.
BotChange(pc, batch, at, say) ==
  /\ bot'.pc = pc /\ bot'.batch = batch /\ bot'.at = at /\ bot'.say = say
  /\ bot' \in Bots

LEMMA BotSet ==
  ASSUME BotsTypeOK, NEW pc \in PCs, NEW batch \in Seq(Updates), NEW at \in 0..MaxUpdates, NEW say \in Message
  PROVE  /\ bot' = [bot EXCEPT !.pc = pc] => BotChange(pc, bot.batch, bot.at, bot.say)
         /\ bot' = [bot EXCEPT !.pc = pc, !.batch = batch] => BotChange(pc, batch, bot.at, bot.say)
         /\ bot' = [bot EXCEPT !.pc = pc, !.say = say] => BotChange(pc, bot.batch, bot.at, say)
         /\ bot' = [pc |-> pc, batch |-> batch, at |-> at, say |-> say] => BotChange(pc, batch, at, say)
<1>1. bot \in Bots
  BY Types
<1>2. ASSUME bot' = [bot EXCEPT !.pc = pc] PROVE BotChange(pc, bot.batch, bot.at, bot.say)
  BY <1>1, <1>2 DEF BotChange, Bots
<1>3. ASSUME bot' = [bot EXCEPT !.pc = pc, !.batch = batch] PROVE BotChange(pc, batch, bot.at, bot.say)
  BY <1>1, <1>3 DEF BotChange, Bots
<1>4. ASSUME bot' = [bot EXCEPT !.pc = pc, !.say = say] PROVE BotChange(pc, bot.batch, bot.at, say)
  BY <1>1, <1>4 DEF BotChange, Bots
<1>5. ASSUME bot' = [pc |-> pc, batch |-> batch, at |-> at, say |-> say] PROVE BotChange(pc, batch, at, say)
  BY <1>5 DEF BotChange, Bots
<1> QED BY <1>2, <1>3, <1>4, <1>5

Kept == UNCHANGED <<inbox, confirmed, offset, link, talk, crashes>>

\* The handler of a claim, from the signer to the answer.
LEMMA HandlerDoes ==
  ASSUME BotsTypeOK, BotSign \/ BotRelay \/ BotReply
  PROVE  /\ Kept
         /\ \/ handled' = handled /\ bot'.pc \in {"relay", "reply"} /\ bot.pc \in {"sign", "relay"}
            \/ handled' = handled \cup {bot.at} /\ bot'.pc = "next"
         /\ Handling /\ bot'.batch = bot.batch /\ bot'.at = bot.at /\ bot' \in Bots
<1>1. bot.batch \in Seq(Updates) /\ bot.at \in 0..MaxUpdates
  BY Types DEF Bots
<1>2. ASSUME \/ bot' = [bot EXCEPT !.pc = "next"]
             \/ bot' = [bot EXCEPT !.pc = "relay"]
             \/ \E say \in Message : bot' = [bot EXCEPT !.pc = "reply", !.say = say]
      PROVE  /\ bot'.batch = bot.batch /\ bot'.at = bot.at /\ bot' \in Bots
             /\ bot' = [bot EXCEPT !.pc = "next"] => bot'.pc = "next"
             /\ bot' = [bot EXCEPT !.pc = "relay"] => bot'.pc = "relay"
             /\ (\E say \in Message : bot' = [bot EXCEPT !.pc = "reply", !.say = say]) => bot'.pc = "reply"
  BY <1>1, <1>2, BotSet DEF BotChange, PCs, Message
<1>3. CASE BotSign
  <2>1. bot.pc = "sign" /\ Kept
        /\ \/ bot' = [bot EXCEPT !.pc = "relay"] /\ handled' = handled
           \/ bot' = [bot EXCEPT !.pc = "reply", !.say = "failed"] /\ handled' = handled
           \/ bot' = [bot EXCEPT !.pc = "next"] /\ handled' = handled \cup {bot.at}
    BY <1>3 DEF BotSign, HandlerEnds, Kept
  <2> QED BY <1>2, <2>1 DEF Handling, Message
<1>4. CASE BotRelay
  <2>1. bot.pc = "relay" /\ Kept
        /\ \/ bot' = [bot EXCEPT !.pc = "reply", !.say = "ok"] /\ handled' = handled
           \/ bot' = [bot EXCEPT !.pc = "reply", !.say = "failed"] /\ handled' = handled
           \/ bot' = [bot EXCEPT !.pc = "next"] /\ handled' = handled \cup {bot.at}
    BY <1>4 DEF BotRelay, HandlerEnds, Kept
  <2> QED BY <1>2, <2>1 DEF Handling, Message
<1>5. CASE BotReply
  <2>1. bot.pc = "reply" /\ Kept /\ bot' = [bot EXCEPT !.pc = "next"] /\ handled' = handled \cup {bot.at}
    BY <1>5 DEF BotReply, HandlerEnds, Kept
  <2> QED BY <1>2, <2>1 DEF Handling
<1> QED BY <1>3, <1>4, <1>5

LoopVars == <<inbox, confirmed, offset, bot, link, handled, crashes>>

LEMMA OthersKeep ==
  ASSUME \/ \E c \in Claims : StraySettles(c)
         \/ \E i \in Interactions :
              Interact(i) \/ TalkSign(i) \/ TalkRelay(i) \/ TalkTimeout(i) \/ TalkReply(i)
         \/ UNCHANGED botsVars
  PROVE  UNCHANGED LoopVars
<1>1. ASSUME NEW c \in Claims, StraySettles(c) PROVE UNCHANGED LoopVars
  BY <1>1 DEF StraySettles, LoopVars
<1>2. ASSUME NEW i \in Interactions, Interact(i) \/ TalkSign(i) \/ TalkRelay(i) \/ TalkTimeout(i) \/ TalkReply(i)
      PROVE  UNCHANGED LoopVars
  BY <1>2 DEF Interact, TalkSign, TalkRelay, TalkTimeout, TalkReply, TalkStep, LoopVars
<1>3. CASE UNCHANGED botsVars
  BY <1>3 DEF botsVars, LoopVars
<1> QED BY <1>1, <1>2, <1>3

\* The steps of the system, in the groups that the proofs treat alike.
LEMMA StepCases ==
  ASSUME [BotsNext]_botsVars
  PROVE  \/ \E command \in Command : Send(command)
         \/ Poll \/ PollLost \/ BatchDone \/ BotCrash \/ BotStart
         \/ Begin
         \/ BotSign \/ BotRelay \/ BotReply
         \/ \E c \in Claims : StraySettles(c)
         \/ \E i \in Interactions :
              Interact(i) \/ TalkSign(i) \/ TalkRelay(i) \/ TalkTimeout(i) \/ TalkReply(i)
         \/ UNCHANGED botsVars
  BY DEF BotsNext, BotStep, Claims

LEMMA PollDoes ==
  ASSUME BotsTypeOK, Poll
  PROVE  /\ bot.pc = "poll" /\ bot'.pc \in {"poll", "next"} /\ bot' \in Bots
         /\ bot'.pc = "poll" => bot'.batch = <<>>
         /\ bot'.batch # <<>> => bot'.batch[1] = Dropped + 1
         /\ Run(bot'.batch, Len(inbox))
<1> DEFINE batch == [k \in 1..(Len(inbox) - Dropped) |-> Dropped + k]
           pc == IF Dropped = Len(inbox) THEN "poll" ELSE "next"
<1>1. /\ Dropped \in Nat /\ Len(inbox) \in Nat /\ Dropped <= Len(inbox) /\ Len(inbox) <= MaxUpdates /\ bot \in Bots
  BY Types DEF BotsTypeOK
<1>2. /\ batch \in Seq(Updates) /\ Len(batch) = Len(inbox) - Dropped
      /\ \A k \in 1..Len(batch) : batch[k] = Dropped + k
      /\ Dropped = Len(inbox) => batch = <<>>
  <2>1. \A k \in 1..(Len(inbox) - Dropped) : Dropped + k \in Updates
    BY <1>1, BotsAssumption DEF Updates
  <2> QED BY <1>1, <2>1
<1>3. bot.pc = "poll" /\ bot' = [bot EXCEPT !.pc = pc, !.batch = batch]
  BY DEF Poll
<1>4. pc \in PCs /\ pc \in {"poll", "next"} /\ (pc = "poll" => Dropped = Len(inbox))
  BY DEF PCs
<1> HIDE DEF batch, pc
<1>5. Run(batch, Len(inbox)) /\ (batch # <<>> => batch[1] = Dropped + 1)
  <2>1. batch # <<>> => 1 \in 1..Len(batch)
    BY <1>1, <1>2
  <2>2. \A k \in 1..Len(batch) : batch[1] = Dropped + 1 /\ batch[k] <= Len(inbox)
    BY <1>1, <1>2
  <2>3. \A k \in 1..Len(batch) : batch[k] = batch[1] + (k - 1)
    BY <1>1, <1>2, <2>2
  <2> QED BY <1>2, <2>1, <2>2, <2>3 DEF Run
<1>6. bot'.pc = pc /\ bot'.batch = batch /\ bot' \in Bots
  <2>1. bot.at \in 0..MaxUpdates /\ bot.say \in Message
    BY <1>1 DEF Bots
  <2> QED BY <1>2, <1>3, <1>4, <2>1, BotSet DEF BotChange
<1> QED BY <1>2, <1>3, <1>4, <1>5, <1>6

LEMMA BeginDoes ==
  ASSUME BotsTypeOK, Ordered, Begin
  PROVE  LET u == bot.batch[1] IN
         /\ bot.pc = "next" /\ bot.batch # <<>> /\ u \in Updates /\ u <= Len(inbox)
         /\ offset' = u + 1 /\ bot'.at = u /\ bot'.batch = Tail(bot.batch) /\ bot' \in Bots
         /\ bot'.pc \in {"sign", "reply"} /\ bot'.say # "ok"
         /\ link' = Linked(inbox[u])
<1> DEFINE u == bot.batch[1]
           pc == IF inbox[u].cmd = "claim" THEN "sign" ELSE "reply"
           say == IF inbox[u].cmd = "link" THEN "linked" ELSE "other"
<1>1. bot.pc = "next" /\ bot.batch # <<>>
  BY DEF Begin
<1>2. Head(bot.batch) = u /\ u \in Updates /\ u <= Len(inbox) /\ Tail(bot.batch) \in Seq(Updates)
  BY <1>1, AtWork
<1>3. /\ offset' = u + 1 /\ link' = Linked(inbox[u])
      /\ bot' = [pc |-> pc, batch |-> Tail(bot.batch), at |-> u, say |-> say]
  BY <1>2 DEF Begin, OffsetAfter
<1>4. pc \in {"sign", "reply"} /\ say \in {"linked", "other"}
  OBVIOUS
<1> HIDE DEF u, pc, say
<1>5. u \in 0..MaxUpdates /\ pc \in PCs /\ say \in Message /\ say # "ok"
  BY <1>2, <1>4, Types DEF Updates, PCs, Message
<1>6. bot'.pc = pc /\ bot'.batch = Tail(bot.batch) /\ bot'.at = u /\ bot'.say = say /\ bot' \in Bots
  BY <1>2, <1>3, <1>5, BotSet DEF BotChange
<1>7. u = bot.batch[1]
  BY DEF u
<1> QED BY <1>1, <1>2, <1>3, <1>4, <1>5, <1>6, <1>7

-----------------------------------------------------------------------------
(* The order of the messages *)

LEMMA BatchNat ==
  ASSUME NEW batch \in Seq(Updates) PROVE batch \in Seq(Nat) /\ \A k \in 1..Len(batch) : batch[k] \in Nat
<1>1. \A k \in 1..Len(batch) : batch[k] \in Nat
  BY BotsAssumption DEF Updates
<1>2. batch = [k \in 1..Len(batch) |-> batch[k]] /\ Len(batch) \in Nat
  OBVIOUS
<1> QED BY <1>1, <1>2

LEMMA OrderedStep == ASSUME BotsTypeOK, Ordered, [BotsNext]_botsVars PROVE Ordered'
<1>1. /\ confirmed \in Nat /\ offset \in Nat /\ Len(inbox) \in Nat /\ bot.batch \in Seq(Updates) /\ bot \in Bots
      /\ Updates \subseteq Nat
  BY Types DEF Bots, Updates
<1>2. CASE \E command \in Command : Send(command)
  <2>1. PICK command \in Command : Send(command)
    BY <1>2
  <2>2. /\ inbox' = Append(inbox, command) /\ bot' = bot /\ offset' = offset /\ confirmed' = confirmed
        /\ handled' = handled
    BY <2>1 DEF Send
  <2>3. Len(inbox') = Len(inbox) + 1
    BY <2>2, Types
  <2>4. Run(bot.batch, Len(inbox'))
    <3>1. Run(bot.batch, Len(inbox))
      BY DEF Ordered
    <3>2. \A k \in 1..Len(bot.batch) : bot.batch[k] \in Nat
      BY <1>1, BatchNat
    <3> QED BY <1>1, <2>3, <3>1, <3>2 DEF Run
  <2>5. Begun' = Begun /\ Dropped' = Dropped /\ Handling' = Handling
    BY <2>2 DEF Begun, Dropped, Handling
  <2> QED BY <2>2, <2>4, <2>5 DEF Ordered, ConfirmedWasHandled
<1>3. CASE Poll
  <2>1. confirmed' = Dropped /\ UNCHANGED <<inbox, offset, handled>>
    BY <1>3 DEF Poll
  <2>2. /\ bot.pc = "poll" /\ bot'.pc \in {"poll", "next"}
        /\ bot'.pc = "poll" => bot'.batch = <<>>
        /\ bot'.batch # <<>> => bot'.batch[1] = Dropped + 1
        /\ Run(bot'.batch, Len(inbox))
    BY <1>3, PollDoes
  <2>3. Begun = handled /\ Begun' = handled /\ ~Handling' /\ Dropped' = Dropped /\ Dropped \in Nat
    BY <1>1, <2>1, <2>2 DEF Begun, Handling, Dropped
  <2>4. 1..Dropped \subseteq handled
    BY <2>3 DEF Ordered, Dropped, ConfirmedWasHandled
  <2>5. /\ bot'.batch # <<>> => bot'.batch[1] = Dropped' + 1
        /\ 1..(offset' - 1) \subseteq Begun' /\ ConfirmedWasHandled'
    BY <1>1, <2>1, <2>2, <2>3, <2>4 DEF Ordered, ConfirmedWasHandled
  <2> QED BY <2>1, <2>2, <2>3, <2>5 DEF Ordered
<1>4. CASE PollLost
  <2>1. /\ bot.pc = "poll" /\ confirmed' = Dropped /\ UNCHANGED <<inbox, offset, bot, handled>>
        /\ bot.batch = <<>>
    BY <1>4 DEF PollLost, Ordered
  <2>2. Begun = handled /\ Begun' = handled /\ ~Handling /\ ~Handling' /\ 1..Dropped \subseteq handled
    BY <2>1 DEF Begun, Handling, Ordered, Dropped, ConfirmedWasHandled
  <2> QED BY <2>1, <2>2 DEF Ordered, ConfirmedWasHandled
<1>5. CASE BatchDone
  <2>1. /\ bot.pc = "next" /\ bot'.pc = "poll" /\ bot'.batch = <<>> /\ bot.batch = <<>>
        /\ UNCHANGED <<inbox, confirmed, offset, handled>>
    BY <1>1, <1>5 DEF BatchDone, Bots
  <2>2. Begun = handled /\ Begun' = handled /\ ~Handling'
    BY <2>1 DEF Begun, Handling
  <2> QED BY <2>1, <2>2 DEF Ordered, Run, ConfirmedWasHandled
<1>6. CASE BotCrash \/ BotStart
  <2>1. /\ bot'.pc \in {"poll", "down"} /\ bot'.batch = <<>> /\ UNCHANGED <<inbox, confirmed, handled>>
        /\ offset' = 0 \/ (offset' = offset /\ bot.pc = "down")
    BY <1>6 DEF BotCrash, BotStart, Started
  <2>2. ~Handling' /\ Begun' = handled /\ (bot.pc = "down" => Begun = handled)
    BY <2>1 DEF Begun, Handling
  <2>3. 1..(offset' - 1) \subseteq Begun'
    BY <2>1, <2>2 DEF Ordered
  <2> QED BY <2>1, <2>2, <2>3 DEF Ordered, Run, ConfirmedWasHandled
<1>7. CASE Begin
  <2> DEFINE u == bot.batch[1]
  <2>1. /\ bot.pc = "next" /\ bot.batch # <<>> /\ u \in Updates /\ u <= Len(inbox)
        /\ offset' = u + 1 /\ bot'.at = u /\ bot'.batch = Tail(bot.batch)
        /\ bot'.pc \in {"sign", "reply"}
    BY <1>7, BeginDoes
  <2>2. UNCHANGED <<inbox, confirmed, handled>>
    BY <1>7 DEF Begin
  <2>3. Run(bot'.batch, Len(inbox)) /\ (bot'.batch # <<>> => bot'.batch[1] = u + 1)
    <3>1. Run(bot.batch, Len(inbox)) /\ bot.batch \in Seq(Nat)
      BY <1>1, BatchNat DEF Ordered
    <3> QED BY <1>1, <2>1, <3>1, BatchRest
  <2>4. /\ Begun = handled /\ Begun' = handled \cup {u} /\ Handling'
        /\ 1..(u - 1) \subseteq handled /\ Dropped = u - 1
    <3>1. u \in Nat /\ u = Dropped + 1
      BY <1>1, <2>1 DEF Ordered
    <3>2. 1..Dropped \subseteq Begun
      BY DEF Ordered, Dropped, ConfirmedWasHandled, Begun
    <3>3. Begun = handled /\ Begun' = handled \cup {u} /\ Handling'
      BY <2>1, <2>2 DEF Begun, Handling
    <3>4. Dropped = u - 1
      BY <1>1, <3>1, Types
    <3> QED BY <3>2, <3>3, <3>4
  <2> HIDE DEF u
  <2>5. 1..u \subseteq Begun' /\ Dropped' = u
    <3>1. u \in Nat /\ confirmed <= Dropped
      BY <1>1, <2>1 DEF Dropped
    <3>2. 1..u \subseteq 1..(u - 1) \cup {u} /\ confirmed < u + 1 /\ (u + 1) - 1 = u
      BY <1>1, <2>4, <3>1
    <3>3. Dropped' = u
      BY <1>1, <2>1, <2>2, <3>1, <3>2 DEF Dropped
    <3> QED BY <2>4, <3>2, <3>3
  <2>6. ConfirmedWasHandled'
    BY <2>2 DEF Ordered, ConfirmedWasHandled
  <2>7. bot'.batch # <<>> => bot'.batch[1] = Dropped' + 1
    BY <2>3, <2>5
  <2>8. 1..(offset' - 1) \subseteq Begun' /\ bot'.at \in Updates /\ bot'.at + 1 = offset'
    BY <1>1, <2>1, <2>5
  <2> QED BY <2>1, <2>2, <2>3, <2>6, <2>7, <2>8 DEF Ordered
<1>8. CASE BotSign \/ BotRelay \/ BotReply
  <2>1. /\ UNCHANGED <<inbox, confirmed, offset>> /\ Handling /\ bot'.batch = bot.batch /\ bot'.at = bot.at
        /\ \/ handled' = handled /\ bot'.pc \in {"relay", "reply"}
           \/ handled' = handled \cup {bot.at} /\ bot'.pc = "next"
    BY <1>8, HandlerDoes DEF Kept
  <2>2. Begun' = Begun /\ Dropped' = Dropped
    BY <2>1 DEF Begun, Handling, Dropped
  <2> QED BY <2>1, <2>2 DEF Ordered, ConfirmedWasHandled, Handling
<1>9. CASE UNCHANGED LoopVars
  BY <1>9 DEF LoopVars, Ordered, ConfirmedWasHandled, Begun, Handling, Dropped
<1> QED BY <1>2, <1>3, <1>4, <1>5, <1>6, <1>7, <1>8, <1>9, StepCases, OthersKeep

-----------------------------------------------------------------------------
(* Payments: a step changes those of one message or interaction *)

Books == minted \in [Claims -> Nat] /\ stray \in [Claims -> Nat]

LEMMA Settling ==
  ASSUME Books, NEW c \in Claims
  PROVE  /\ Paid(c) => /\ Books' /\ minted'[c] = minted[c] + 1 /\ stray' = stray
                       /\ \A d \in Claims \ {c} : minted'[d] = minted[d]
         /\ OnItsWay(c) => /\ Books' /\ stray'[c] = stray[c] + 1 /\ minted' = minted
                           /\ \A d \in Claims \ {c} : stray'[d] = stray[d]
         /\ Unpaid => Books' /\ minted' = minted /\ stray' = stray
         /\ StraySettles(c) => /\ Books' /\ minted'[c] + stray'[c] <= minted[c] + stray[c] /\ minted'[c] >= minted[c]
                               /\ \A d \in Claims \ {c} : minted'[d] = minted[d] /\ stray'[d] = stray[d]
<1>1. ASSUME Paid(c)
      PROVE  /\ Books' /\ minted'[c] = minted[c] + 1 /\ stray' = stray
             /\ \A d \in Claims \ {c} : minted'[d] = minted[d]
  BY <1>1 DEF Paid, Books
<1>2. ASSUME OnItsWay(c)
      PROVE  /\ Books' /\ stray'[c] = stray[c] + 1 /\ minted' = minted
             /\ \A d \in Claims \ {c} : stray'[d] = stray[d]
  BY <1>2 DEF OnItsWay, Books
<1>3. ASSUME Unpaid PROVE Books' /\ minted' = minted /\ stray' = stray
  BY <1>3 DEF Unpaid, claimVars, Books
<1>4. ASSUME StraySettles(c)
      PROVE  /\ Books' /\ minted'[c] + stray'[c] <= minted[c] + stray[c] /\ minted'[c] >= minted[c]
             /\ \A d \in Claims \ {c} : minted'[d] = minted[d] /\ stray'[d] = stray[d]
  <2>1. /\ stray[c] \in Nat /\ stray[c] > 0 /\ minted[c] \in Nat
        /\ stray' = [stray EXCEPT ![c] = @ - 1]
        /\ minted' = minted \/ minted' = [minted EXCEPT ![c] = @ + 1]
    BY <1>4 DEF StraySettles, Books
  <2>2. stray' \in [Claims -> Nat] /\ stray'[c] = stray[c] - 1 /\ \A d \in Claims \ {c} : stray'[d] = stray[d]
    BY <2>1 DEF Books
  <2>3. /\ minted' \in [Claims -> Nat] /\ minted'[c] \in {minted[c], minted[c] + 1}
        /\ \A d \in Claims \ {c} : minted'[d] = minted[d]
    BY <2>1 DEF Books
  <2> QED BY <2>1, <2>2, <2>3 DEF Books
<1> QED BY <1>1, <1>2, <1>3, <1>4

\* What the step of a conversation does to the payments.
TalkStepOf(i) == Interact(i) \/ TalkSign(i) \/ TalkRelay(i) \/ TalkTimeout(i) \/ TalkReply(i)

LEMMA TalkPays ==
  ASSUME NEW i \in Interactions, TalkStepOf(i)
  PROVE  Paid(i) \/ OnItsWay(i) \/ Unpaid
  BY DEF TalkStepOf, Interact, TalkSign, TalkRelay, TalkTimeout, TalkReply, Unpaid, claimVars

\* Nothing paid is taken back, and the books stay books.
LEMMA BooksStep ==
  ASSUME BotsTypeOK, Ordered, [BotsNext]_botsVars
  PROVE  Books' /\ \A c \in Claims : minted'[c] >= minted[c]
<1>1. Books /\ bot.pc = "relay" => bot.at \in Claims
  BY Types, AtWork DEF Books, Handling
<1>2. Books
  BY Types DEF Books
<1>3. ASSUME NEW c \in Claims, Paid(c) \/ OnItsWay(c) \/ Unpaid \/ StraySettles(c)
      PROVE  Books' /\ \A d \in Claims : minted'[d] >= minted[d]
  BY <1>2, <1>3, Settling DEF Books
<1>4. ASSUME claimVars' = claimVars PROVE Books' /\ \A d \in Claims : minted'[d] >= minted[d]
  BY <1>2, <1>4 DEF claimVars, Books
<1>5. CASE \E command \in Command : Send(command)
  BY <1>4, <1>5 DEF Send
<1>6. CASE Poll \/ PollLost \/ BatchDone \/ BotStart \/ Begin \/ UNCHANGED botsVars
  BY <1>4, <1>6 DEF Poll, PollLost, BatchDone, BotStart, Begin, botsVars
<1>7. CASE BotCrash
  BY <1>1, <1>2, <1>3, <1>4, <1>7 DEF BotCrash
<1>8. CASE BotSign \/ BotReply
  BY <1>4, <1>8 DEF BotSign, BotReply
<1>9. CASE BotRelay
  <2>1. bot.at \in Claims /\ (Paid(bot.at) \/ OnItsWay(bot.at) \/ Unpaid)
    BY <1>1, <1>2, <1>9 DEF BotRelay
  <2> QED BY <1>3, <2>1
<1>10. CASE \E c \in Claims : StraySettles(c)
  BY <1>3, <1>10
<1>11. ASSUME NEW i \in Interactions, TalkStepOf(i) PROVE Books' /\ \A d \in Claims : minted'[d] >= minted[d]
  BY <1>3, <1>11, TalkPays DEF Claims
<1> QED BY <1>5, <1>6, <1>7, <1>8, <1>9, <1>10, <1>11, StepCases DEF TalkStepOf

-----------------------------------------------------------------------------
LEMMA TypeStep == ASSUME BotsTypeOK, Ordered, [BotsNext]_botsVars PROVE BotsTypeOK'
<1>1. /\ confirmed \in 0..Len(inbox) /\ offset \in 0..(Len(inbox) + 1) /\ Dropped \in 0..Len(inbox)
      /\ Len(inbox) \in Nat /\ Len(inbox) <= MaxUpdates /\ crashes \in 0..MaxCrashes
  BY Types DEF BotsTypeOK
<1>2. minted' \in [Claims -> Nat] /\ stray' \in [Claims -> Nat]
  BY BooksStep DEF Books
<1>3. told' \in [Claims -> SUBSET Message] /\ talk' \in [Interactions -> Talks]
  <2>1. /\ told \in [Claims -> SUBSET Message] /\ talk \in [Interactions -> Talks]
        /\ bot.say \in Message /\ (Handling => bot.at \in Claims)
    BY Types, AtWork DEF BotsTypeOK, Claims, Bots
  <2>2. CASE \E command \in Command : Send(command)
    BY <2>1, <2>2 DEF Send
  <2>3. CASE Poll \/ PollLost \/ BatchDone \/ BotCrash \/ BotStart \/ Begin \/ BotSign \/ BotRelay \/ UNCHANGED botsVars
    BY <2>1, <2>3 DEF Poll, PollLost, BatchDone, BotCrash, BotStart, Begin, BotSign, BotRelay, botsVars
  <2>4. CASE BotReply
    BY <2>1, <2>4 DEF BotReply, Handling
  <2>5. CASE \E c \in Claims : StraySettles(c)
    BY <2>1, <2>5 DEF StraySettles
  <2>6. ASSUME NEW i \in Interactions, TalkStepOf(i)
        PROVE  told' \in [Claims -> SUBSET Message] /\ talk' \in [Interactions -> Talks]
    <3>1. talk[i] \in Talks
      BY <2>1
    <3>2. /\ \E to \in {"sign", "relay", "reply", "done"}, message \in Message :
               talk' = [talk EXCEPT ![i] = [pc |-> to, say |-> message]]
          /\ told' = told \/ told' = [told EXCEPT ![i] = {talk[i].say}]
      BY <2>6, <3>1 DEF TalkStepOf, Interact, TalkSign, TalkRelay, TalkTimeout, TalkReply, TalkStep, Message, Talks
    <3> QED BY <2>1, <3>1, <3>2 DEF Talks, Claims
  <2> QED BY <2>2, <2>3, <2>4, <2>5, <2>6, StepCases DEF TalkStepOf
<1>4. bot' \in Bots /\ handled' \subseteq Updates
  <2>1. bot \in Bots /\ handled \subseteq Updates
    BY Types DEF BotsTypeOK
  <2>2. CASE Poll
    BY <2>1, <2>2, PollDoes DEF Poll
  <2>3. CASE Begin
    BY <2>1, <2>3, BeginDoes DEF Begin
  <2>4. CASE BatchDone
    BY <2>1, <2>4 DEF BatchDone, Bots, PCs
  <2>5. CASE BotCrash \/ BotStart
    <3>1. <<>> \in Seq(Updates) /\ 0 \in 0..MaxUpdates
      BY BotsAssumption
    <3>2. Started \in Bots /\ [Started EXCEPT !.pc = "down"] \in Bots
      BY <3>1 DEF Started, Bots, PCs, Message
    <3> QED BY <2>1, <2>5, <3>2 DEF BotCrash, BotStart
  <2>6. CASE BotSign \/ BotRelay \/ BotReply
    BY <2>1, <2>6, HandlerDoes, AtWork
  <2>7. CASE PollLost \/ UNCHANGED LoopVars \/ \E command \in Command : Send(command)
    BY <2>1, <2>7 DEF PollLost, LoopVars, Send
  <2> QED BY <2>2, <2>3, <2>4, <2>5, <2>6, <2>7, StepCases, OthersKeep
<1>5. /\ inbox' \in Seq(Command) /\ Len(inbox') <= MaxUpdates
      /\ confirmed' \in 0..Len(inbox') /\ offset' \in 0..(Len(inbox') + 1) /\ crashes' \in 0..MaxCrashes
  <2>1. CASE \E command \in Command : Send(command)
    <3>1. PICK command \in Command : Send(command)
      BY <2>1
    <3> QED BY <1>1, <3>1, Types DEF Send
  <2>2. CASE Poll \/ PollLost \/ BatchDone \/ BotStart
    BY <1>1, <2>2, Types DEF Poll, PollLost, BatchDone, BotStart
  <2>3. CASE BotCrash
    BY <1>1, <2>3, Types, BotsAssumption DEF BotCrash
  <2>4. CASE Begin
    <3>1. bot.batch[1] \in Nat /\ bot.batch[1] <= Len(inbox) /\ offset' = bot.batch[1] + 1
      BY <2>4, BeginDoes, BotsAssumption DEF Updates
    <3> QED BY <1>1, <2>4, <3>1, Types DEF Begin
  <2>5. CASE BotSign \/ BotRelay \/ BotReply
    BY <1>1, <2>5, HandlerDoes, Types DEF Kept
  <2>6. CASE UNCHANGED LoopVars
    BY <1>1, <2>6, Types DEF LoopVars
  <2> QED BY <2>1, <2>2, <2>3, <2>4, <2>5, <2>6, StepCases, OthersKeep
<1>6. link' \in [Users -> Wallets \cup {"none"}]
  <2>1. link \in [Users -> Wallets \cup {"none"}]
    BY DEF BotsTypeOK
  <2>2. CASE Begin
    <3>1. link' = Linked(inbox[bot.batch[1]]) /\ inbox[bot.batch[1]] \in Command
      BY <2>2, BeginDoes, Types, BotsAssumption DEF Updates
    <3>2. \A command \in Command : command.cmd = "link" => command.wallet \in Wallets
      BY DEF Command
    <3> QED BY <2>1, <3>1, <3>2 DEF Linked
  <2>3. CASE link' = link
    BY <2>1, <2>3
  <2>4. ASSUME ~Begin PROVE link' = link
    <3>1. CASE \E command \in Command : Send(command)
      BY <3>1 DEF Send
    <3>2. CASE Poll \/ PollLost \/ BatchDone \/ BotCrash \/ BotStart
      BY <3>2 DEF Poll, PollLost, BatchDone, BotCrash, BotStart
    <3> QED BY <2>4, <3>1, <3>2, StepCases, OthersKeep, HandlerDoes DEF LoopVars, Kept
  <2> QED BY <2>2, <2>3, <2>4
<1> QED BY <1>2, <1>3, <1>4, <1>5, <1>6 DEF BotsTypeOK, Claims, Bots, PCs, Talks

-----------------------------------------------------------------------------
(* A message is paid again only after a crash *)

LEMMA CountedStep == ASSUME BotsTypeOK, Ordered, Counted, [BotsNext]_botsVars PROVE Counted'
<1>1. /\ Books /\ crashes \in Nat /\ offset \in Nat /\ Updates \subseteq Claims /\ Updates \subseteq Nat
      /\ \A u \in Updates : u \notin Interactions
  <2>1. Updates \subseteq Nat /\ \A u \in Updates : u \notin Interactions
    BY BotsAssumption DEF Updates
  <2> QED BY <2>1, Types DEF Books
<1>2. \A u \in Updates : /\ minted[u] \in Nat /\ stray[u] \in Nat
                         /\ InFlight(u) \in {0, 1} /\ Since(u) \in {0, 1}
  BY <1>1 DEF Books, InFlight, Since
<1>3. ASSUME minted' = minted, stray' = stray, crashes' = crashes,
             \A u \in Updates : InFlight(u)' <= InFlight(u) /\ Since(u) <= Since(u)'
      PROVE  Counted'
  BY <1>1, <1>2, <1>3 DEF Counted, InFlight, Since
<1>4. CASE (\E command \in Command : Send(command)) \/ Poll \/ PollLost \/ BatchDone \/ BotStart \/ UNCHANGED botsVars
  <2>1. /\ minted' = minted /\ stray' = stray /\ crashes' = crashes /\ offset' = offset
        /\ bot' = bot \/ bot'.pc \in {"poll", "next"}
    BY <1>4, PollDoes, Types
       DEF Send, Poll, PollLost, BatchDone, BotStart, Started, botsVars, claimVars, Bots
  <2>2. bot' = bot \/ bot.pc \notin {"sign", "relay"}
    BY <1>4 DEF Send, Poll, PollLost, BatchDone, BotStart, botsVars
  <2> QED BY <1>3, <2>1, <2>2 DEF InFlight, Since
<1>5. CASE Begin
  <2> DEFINE u == bot.batch[1]
  <2>1. /\ minted' = minted /\ stray' = stray /\ crashes' = crashes
        /\ bot.pc = "next" /\ bot'.pc \in {"sign", "reply"} /\ bot'.at = u /\ offset' = u + 1 /\ u \in Nat
    BY <1>1, <1>5, BeginDoes DEF Begin, claimVars
  <2>2. offset <= u
    BY <1>1, <1>5, <2>1, BeginDoes, Types DEF Ordered, Dropped
  <2> HIDE DEF u
  <2> QED BY <1>1, <1>3, <2>1, <2>2 DEF InFlight, Since
<1>6. CASE BotCrash
  <2>1. /\ crashes' = crashes + 1 /\ offset' = 0 /\ bot'.pc = "down"
        /\ IF bot.pc = "relay" THEN OnItsWay(bot.at) ELSE claimVars' = claimVars
    BY <1>6 DEF BotCrash, Started
  <2>2. \A u \in Updates : InFlight(u)' = 0 /\ Since(u)' \in {0, 1}
    BY <2>1 DEF InFlight, Since
  <2>3. CASE bot.pc = "relay"
    <3>1. bot.at \in Updates /\ OnItsWay(bot.at)
      BY <2>1, <2>3, AtWork DEF Handling
    <3>2. /\ minted' = minted /\ stray'[bot.at] = stray[bot.at] + 1
          /\ \A d \in Claims \ {bot.at} : stray'[d] = stray[d]
      BY <1>1, <3>1, Settling
    <3>3. \A u \in Updates : minted'[u] = minted[u] /\ stray'[u] = stray[u] + InFlight(u)
      BY <1>1, <1>2, <2>3, <3>2 DEF InFlight
    <3> QED BY <1>1, <1>2, <2>1, <2>2, <3>3 DEF Counted
  <2>4. CASE bot.pc # "relay"
    BY <1>1, <1>2, <2>1, <2>2, <2>4 DEF Counted, claimVars, InFlight
  <2> QED BY <2>3, <2>4
<1>7. CASE BotSign \/ BotReply
  <2>1. /\ minted' = minted /\ stray' = stray /\ crashes' = crashes /\ offset' = offset
        /\ bot'.at = bot.at /\ bot'.pc \in {"relay", "reply", "next"} /\ bot.pc \in {"sign", "reply"}
        /\ bot'.pc = "relay" => bot.pc = "sign"
    BY <1>7, HandlerDoes DEF Kept, BotSign, BotReply, claimVars
  <2>2. bot.at \in Updates /\ bot.at < offset
    <3>1. Handling
      BY <1>7, HandlerDoes
    <3>2. bot.at \in Updates /\ bot.at + 1 = offset
      BY <3>1 DEF Ordered
    <3>3. bot.at \in Nat
      BY <1>1, <3>2
    <3> QED BY <3>2, <3>3
  <2>3. \A u \in Updates : InFlight(u) = 0 /\ InFlight(u)' + Since(u) <= Since(u)'
    BY <1>1, <2>1, <2>2 DEF InFlight, Since
  <2> QED BY <1>1, <1>2, <2>1, <2>3 DEF Counted, InFlight, Since
<1>8. CASE BotRelay
  <2>1. /\ crashes' = crashes /\ offset' = offset /\ bot'.at = bot.at
        /\ bot'.pc \in {"reply", "next"} /\ bot.pc = "relay" /\ bot.at \in Updates
    <3>1. Kept /\ Handling /\ bot'.at = bot.at /\ bot'.pc \in {"relay", "reply", "next"}
      BY <1>8, HandlerDoes
    <3>2. bot.pc = "relay" /\ bot'.pc # "relay"
      <4>1. bot.pc = "relay"
            /\ \/ bot' = [bot EXCEPT !.pc = "reply", !.say = "ok"]
               \/ bot' = [bot EXCEPT !.pc = "reply", !.say = "failed"]
               \/ bot' = [bot EXCEPT !.pc = "next"]
        BY <1>8 DEF BotRelay, HandlerEnds
      <4> QED BY <4>1, Types DEF Bots
    <3> QED BY <3>1, <3>2, AtWork DEF Kept
  <2>2. Paid(bot.at) \/ OnItsWay(bot.at) \/ Unpaid
    BY <1>8 DEF BotRelay
  <2>3. \A u \in Updates : InFlight(u)' = 0 /\ Since(u)' = Since(u)
    BY <2>1 DEF InFlight, Since
  <2>4. \A u \in Updates : minted'[u] + stray'[u] <= minted[u] + stray[u] + InFlight(u)
    <3>1. bot.at \in Claims
      BY <1>1, <2>1
    <3>2. \/ /\ minted'[bot.at] = minted[bot.at] + 1 /\ stray' = stray
             /\ \A d \in Claims \ {bot.at} : minted'[d] = minted[d]
          \/ /\ stray'[bot.at] = stray[bot.at] + 1 /\ minted' = minted
             /\ \A d \in Claims \ {bot.at} : stray'[d] = stray[d]
          \/ minted' = minted /\ stray' = stray
      BY <1>1, <2>2, <3>1, Settling
    <3> QED BY <1>1, <1>2, <2>1, <3>2 DEF InFlight
  <2>5. \A u \in Updates : minted'[u] \in Nat /\ stray'[u] \in Nat
    BY <1>1, BooksStep DEF Books
  <2> QED BY <1>1, <1>2, <2>1, <2>3, <2>4, <2>5 DEF Counted
<1>9. ASSUME UNCHANGED LoopVars,
             \A u \in Updates : minted'[u] + stray'[u] <= minted[u] + stray[u]
      PROVE  Counted'
  <2>1. /\ crashes' = crashes
        /\ \A u \in Updates : InFlight(u)' = InFlight(u) /\ Since(u)' = Since(u)
    BY <1>9 DEF LoopVars, InFlight, Since
  <2>2. \A u \in Updates : minted'[u] \in Nat /\ stray'[u] \in Nat
    BY <1>1, BooksStep DEF Books
  <2> QED BY <1>1, <1>2, <1>9, <2>1, <2>2 DEF Counted
<1>10. CASE \E c \in Claims : StraySettles(c)
  BY <1>1, <1>2, <1>9, <1>10, OthersKeep, Settling DEF Books
<1>11. ASSUME NEW i \in Interactions, TalkStepOf(i) PROVE Counted'
  <2>1. UNCHANGED LoopVars
    BY <1>11, OthersKeep DEF TalkStepOf
  <2>2. \A u \in Updates : u \in Claims \ {i} /\ i \in Claims
    BY <1>1 DEF Claims
  <2>3. \A u \in Updates : minted'[u] = minted[u] /\ stray'[u] = stray[u]
    BY <1>1, <1>11, <2>2, TalkPays, Settling
  <2> QED BY <1>1, <1>2, <1>9, <2>1, <2>3
<1> QED BY <1>4, <1>5, <1>6, <1>7, <1>8, <1>10, <1>11, StepCases DEF TalkStepOf

-----------------------------------------------------------------------------
(* Whoever reads of a payment has been paid *)

LEMMA SaidStep == ASSUME BotsTypeOK, Ordered, Said, [BotsNext]_botsVars PROVE Said'
<1>1. /\ minted \in [Claims -> Nat] /\ minted' \in [Claims -> Nat]
      /\ \A c \in Claims : minted'[c] >= minted[c]
      /\ \A c \in Claims : minted[c] > 0 => minted'[c] > 0
  <2>1. Books /\ Books' /\ \A c \in Claims : minted'[c] >= minted[c]
    BY Types, BooksStep DEF Books
  <2> QED BY <2>1 DEF Books
<1>2. /\ told \in [Claims -> SUBSET Message] /\ Interactions \subseteq Claims /\ Updates \subseteq Claims
      /\ bot \in Bots /\ talk \in [Interactions -> Talks] /\ (Handling => bot.at \in Updates)
  BY Types, AtWork DEF BotsTypeOK, Claims
\* The three parts of Said, each from what may disturb it.
<1> DEFINE BotSaid == bot.pc = "reply" /\ bot.say = "ok" => minted[bot.at] > 0
           TalkSaid == \A i \in Interactions : talk[i].pc = "reply" /\ talk[i].say = "ok" => minted[i] > 0
<1>3. BotSaid /\ TalkSaid /\ \A c \in Claims : "ok" \in told[c] => minted[c] > 0
  BY DEF Said, OkMeansMinted, Claims
<1>4. ASSUME bot' = bot PROVE BotSaid'
  BY <1>1, <1>2, <1>3, <1>4 DEF Handling
<1>5. ASSUME talk' = talk PROVE TalkSaid'
  BY <1>1, <1>2, <1>3, <1>5
<1>6. ASSUME told' = told PROVE OkMeansMinted'
  BY <1>1, <1>3, <1>6 DEF OkMeansMinted, Claims
<1>7. ASSUME BotSaid', TalkSaid', OkMeansMinted' PROVE Said'
  BY <1>7 DEF Said
<1> HIDE DEF BotSaid, TalkSaid
<1>8. CASE (\E command \in Command : Send(command)) \/ PollLost \/ (\E c \in Claims : StraySettles(c)) \/ UNCHANGED botsVars
  <2>1. bot' = bot /\ talk' = talk /\ told' = told
    BY <1>8 DEF Send, PollLost, StraySettles, botsVars
  <2> QED BY <1>4, <1>5, <1>6, <1>7, <2>1
<1>9. CASE Poll \/ BatchDone \/ BotCrash \/ BotStart \/ Begin
  <2>1. talk' = talk /\ told' = told
    BY <1>9 DEF Poll, BatchDone, BotCrash, BotStart, Begin
  <2>2. bot'.pc # "reply" \/ bot'.say # "ok"
    <3>1. CASE Poll
      BY <3>1, PollDoes
    <3>2. CASE Begin
      BY <3>2, BeginDoes
    <3>3. CASE BatchDone \/ BotCrash \/ BotStart
      BY <1>2, <3>3 DEF BatchDone, BotCrash, BotStart, Started, Bots
    <3> QED BY <1>9, <3>1, <3>2, <3>3
  <2> QED BY <1>5, <1>6, <1>7, <2>1, <2>2 DEF BotSaid
<1>10. CASE BotSign
  <2>1. talk' = talk /\ told' = told
    BY <1>10 DEF BotSign
  <2>2. \/ bot' = [bot EXCEPT !.pc = "relay"]
        \/ bot' = [bot EXCEPT !.pc = "reply", !.say = "failed"]
        \/ bot' = [bot EXCEPT !.pc = "next"]
    BY <1>10 DEF BotSign, HandlerEnds
  <2>3. bot'.pc # "reply" \/ bot'.say # "ok"
    BY <1>2, <2>2 DEF Bots
  <2> QED BY <1>5, <1>6, <1>7, <2>1, <2>3 DEF BotSaid
<1>11. CASE BotRelay
  <2>1. talk' = talk /\ told' = told /\ bot.pc = "relay"
    BY <1>11 DEF BotRelay
  <2>2. bot.at \in Claims
    BY <1>2, <2>1 DEF Handling
  <2>3. \/ Paid(bot.at) /\ bot' = [bot EXCEPT !.pc = "reply", !.say = "ok"]
        \/ bot' = [bot EXCEPT !.pc = "reply", !.say = "failed"]
        \/ bot' = [bot EXCEPT !.pc = "next"]
    BY <1>11 DEF BotRelay, HandlerEnds
  <2>4. \/ Paid(bot.at) /\ bot'.at = bot.at
        \/ bot'.pc # "reply" \/ bot'.say # "ok"
    BY <1>2, <2>3 DEF Bots
  <2>5. Paid(bot.at) => minted'[bot.at] > 0
    <3>1. Paid(bot.at) => minted'[bot.at] = minted[bot.at] + 1
      BY <1>1, <2>2, Types, Settling DEF Books
    <3>2. minted[bot.at] \in Nat
      BY <1>1, <2>2
    <3> QED BY <3>1, <3>2
  <2> QED BY <1>5, <1>6, <1>7, <2>1, <2>4, <2>5 DEF BotSaid
<1>12. CASE BotReply
  <2>1. /\ talk' = talk /\ bot.pc = "reply"
        /\ told' = told \/ told' = [told EXCEPT ![bot.at] = @ \cup {bot.say}]
        /\ bot' = [bot EXCEPT !.pc = "next"]
    BY <1>12 DEF BotReply, HandlerEnds
  <2>2. bot.at \in Claims /\ bot'.pc # "reply"
    BY <1>2, <2>1 DEF Handling, Bots
  <2>3. \A c \in Claims : "ok" \in told'[c] => "ok" \in told[c] \/ (c = bot.at /\ bot.say = "ok")
    BY <1>2, <2>1, <2>2
  <2>4. OkMeansMinted'
    BY <1>1, <1>3, <2>1, <2>3 DEF OkMeansMinted, BotSaid, Claims
  <2> QED BY <1>5, <1>7, <2>1, <2>2, <2>4 DEF BotSaid
<1>13. ASSUME NEW i \in Interactions, TalkStepOf(i) PROVE Said'
  <2>1. bot' = bot
    BY <1>13 DEF TalkStepOf, Interact, TalkSign, TalkRelay, TalkTimeout, TalkReply, TalkStep
  <2>2. PICK to \in {"sign", "relay", "reply", "done"}, message \in Message :
          talk' = [talk EXCEPT ![i] = [pc |-> to, say |-> message]] /\ (to = "reply" /\ message = "ok" => Paid(i))
    <3>1. talk[i] \in Talks
      BY <1>2
    <3> QED BY <1>13, <3>1
        DEF TalkStepOf, Interact, TalkSign, TalkRelay, TalkTimeout, TalkReply, TalkStep, Message, Talks
  <2>3. /\ talk'[i].pc = to /\ talk'[i].say = message
        /\ \A j \in Interactions \ {i} : talk'[j] = talk[j]
    BY <1>2, <2>2
  <2>4. Paid(i) => minted'[i] > 0
    <3>1. i \in Claims /\ minted[i] \in Nat
      BY <1>1, <1>2
    <3>2. Paid(i) => minted'[i] = minted[i] + 1
      BY <1>1, <3>1, Types, Settling DEF Books
    <3> QED BY <3>1, <3>2
  <2>5. TalkSaid'
    BY <1>1, <1>2, <1>3, <2>2, <2>3, <2>4 DEF TalkSaid
  <2>6. told' = told \/ (talk[i].pc = "reply" /\ told' = [told EXCEPT ![i] = {talk[i].say}])
    BY <1>13 DEF TalkStepOf, Interact, TalkSign, TalkRelay, TalkTimeout, TalkReply, TalkStep
  <2>7. \A c \in Claims : "ok" \in told'[c] =>
          "ok" \in told[c] \/ (c = i /\ talk[i].pc = "reply" /\ talk[i].say = "ok")
    BY <1>2, <2>6
  <2>8. OkMeansMinted'
    BY <1>1, <1>2, <1>3, <2>7 DEF OkMeansMinted, TalkSaid, Claims
  <2> QED BY <1>4, <1>7, <2>1, <2>5, <2>8
<1> QED BY <1>8, <1>9, <1>10, <1>11, <1>12, <1>13, StepCases DEF TalkStepOf

-----------------------------------------------------------------------------
(* Links end at the last one sent *)

LEMMA FollowingStep == ASSUME BotsTypeOK, Ordered, Following, [BotsNext]_botsVars PROVE Following'
<1>1. /\ confirmed \in Nat /\ offset \in Nat /\ Len(inbox) \in Nat /\ Dropped \in Nat /\ Dropped <= Len(inbox)
      /\ inbox \in Seq(Command) /\ link \in [Users -> Wallets \cup {"none"}]
  BY Types DEF BotsTypeOK
<1>2. ASSUME inbox' = inbox, link' = link, Dropped' \in Nat, Dropped' <= Dropped PROVE Following'
  <2> SUFFICES ASSUME NEW user \in Users PROVE (\E n \in Dropped..Len(inbox) : IsLink(user, n, link[user]))'
    BY DEF Following
  <2>1. PICK n \in Dropped..Len(inbox) : IsLink(user, n, link[user])
    BY DEF Following
  <2>2. IsLink(user, n, link[user])'
    BY <1>2, <2>1 DEF IsLink, LinksOf
  <2>3. n \in Dropped'..Len(inbox')
    BY <1>1, <1>2
  <2> QED BY <2>2, <2>3
<1>3. CASE \E command \in Command : Send(command)
  <2>1. PICK command \in Command : Send(command)
    BY <1>3
  <2>2. inbox' = Append(inbox, command) /\ link' = link /\ Dropped' = Dropped /\ Len(inbox') = Len(inbox) + 1
    BY <1>1, <2>1 DEF Send, Dropped
  <2> SUFFICES ASSUME NEW user \in Users PROVE (\E n \in Dropped..Len(inbox) : IsLink(user, n, link[user]))'
    BY DEF Following
  <2>3. PICK n \in Dropped..Len(inbox) : IsLink(user, n, link[user])
    BY DEF Following
  <2>4. n \in Nat /\ n <= Len(inbox) /\ n \in Dropped'..Len(inbox')
    BY <1>1, <2>2
  <2>5. IsLink(user, n, link[user])'
    <3>1. \A wallet : IsLink(user, n, wallet) => IsLink(user, n, wallet)'
      BY <2>2, <2>4, LinkOfPrefix
    <3> QED BY <2>2, <2>3, <3>1 DEF IsLink
  <2> QED BY <2>4, <2>5
<1>4. CASE Poll \/ PollLost \/ BatchDone \/ BotStart
  <2>1. inbox' = inbox /\ link' = link /\ offset' = offset /\ confirmed' \in {confirmed, Dropped}
    BY <1>4 DEF Poll, PollLost, BatchDone, BotStart
  <2>2. Dropped' = Dropped
    BY <1>1, <2>1 DEF Dropped
  <2> QED BY <1>1, <1>2, <2>1, <2>2
<1>5. CASE BotCrash
  <2>1. inbox' = inbox /\ link' = link /\ offset' = 0 /\ confirmed' = confirmed
    BY <1>5 DEF BotCrash
  <2>2. Dropped' = confirmed /\ confirmed <= Dropped
    BY <1>1, <2>1 DEF Dropped
  <2> QED BY <1>1, <1>2, <2>1, <2>2
<1>6. CASE Begin
  <2> DEFINE u == bot.batch[1]
  <2>1. /\ u \in Updates /\ u <= Len(inbox) /\ offset' = u + 1 /\ link' = Linked(inbox[u])
        /\ bot.batch # <<>> /\ bot.pc = "next"
    BY <1>6, BeginDoes
  <2>2. inbox' = inbox /\ confirmed' = confirmed
    BY <1>6 DEF Begin
  <2>3. u \in Nat /\ u = Dropped + 1
    BY <2>1, BotsAssumption DEF Ordered, Updates
  <2> HIDE DEF u
  <2>4. Dropped' = u /\ Dropped < Len(inbox)
    <3>1. confirmed <= Dropped
      BY <1>1 DEF Dropped
    <3> QED BY <1>1, <2>1, <2>2, <2>3, <3>1 DEF Dropped
  <2> SUFFICES ASSUME NEW user \in Users PROVE (\E n \in Dropped..Len(inbox) : IsLink(user, n, link[user]))'
    BY DEF Following
  <2>5. PICK n \in Dropped..Len(inbox) : IsLink(user, n, link[user])
    BY DEF Following
  <2> DEFINE Links == inbox[u].cmd = "link" /\ inbox[u].user = user
  <2>6. link'[user] = IF Links THEN inbox[u].wallet ELSE link[user]
    BY <1>1, <2>1 DEF Linked
  <2>7. /\ Links => IsLink(user, u, inbox[u].wallet)
        /\ ~Links /\ IsLink(user, Dropped, link[user]) => IsLink(user, u, link[user])
    BY <1>1, <2>3, <2>4, LinkNext
  <2>8. \E m \in u..Len(inbox) : IsLink(user, m, link'[user])
    <3>1. u \in u..Len(inbox)
      BY <1>1, <2>1, <2>3
    <3>2. CASE Links \/ n = Dropped
      BY <2>5, <2>6, <2>7, <3>1, <3>2
    <3>3. CASE ~Links /\ n # Dropped
      <4>1. n \in u..Len(inbox)
        BY <1>1, <2>3, <3>3
      <4> QED BY <2>5, <2>6, <3>3, <4>1
    <3> QED BY <3>2, <3>3
  <2>9. PICK m \in u..Len(inbox) : IsLink(user, m, link'[user])
    BY <2>8
  <2>10. IsLink(user, m, link[user])' /\ m \in Dropped'..Len(inbox')
    BY <2>2, <2>4, <2>9, LinkSame
  <2> QED BY <2>10
<1>7. CASE BotSign \/ BotRelay \/ BotReply
  <2>1. inbox' = inbox /\ link' = link /\ Dropped' = Dropped
    BY <1>7, HandlerDoes DEF Kept, Dropped
  <2> QED BY <1>1, <1>2, <2>1
<1>8. CASE UNCHANGED LoopVars
  <2>1. inbox' = inbox /\ link' = link /\ Dropped' = Dropped
    BY <1>8 DEF LoopVars, Dropped
  <2> QED BY <1>1, <1>2, <2>1
<1> QED BY <1>3, <1>4, <1>5, <1>6, <1>7, <1>8, StepCases, OthersKeep

-----------------------------------------------------------------------------
LEMMA Invariance == BotsSpec => []IInv
<1>1. IInv /\ [BotsNext]_botsVars => IInv'
  BY TypeStep, OrderedStep, CountedStep, SaidStep, FollowingStep DEF IInv
<1> QED BY InitIInv, <1>1, PTL DEF BotsSpec

(***************************************************************************)
(* Every reachable state of the two bots is well typed.                    *)
(***************************************************************************)
THEOREM TypeCorrect == BotsSpec => []BotsTypeOK
<1>1. IInv => BotsTypeOK
  BY DEF IInv
<1> QED BY <1>1, Invariance, PTL

(***************************************************************************)
(* A crash of the Telegram bot at any step, and any number of them, loses  *)
(* no message (loop of telegram-bot.js).                                   *)
(***************************************************************************)
THEOREM ConfirmedHolds == BotsSpec => []ConfirmedWasHandled
<1>1. IInv => ConfirmedWasHandled
  BY DEF IInv, Ordered
<1> QED BY <1>1, Invariance, PTL

(***************************************************************************)
(* A message is paid at most once more than the bot has ended, counting    *)
(* the payments that are still on their way.                               *)
(***************************************************************************)
THEOREM PaidOncePerDeliveryHolds == BotsSpec => []PaidOncePerDelivery
<1>1. IInv => PaidOncePerDelivery
  <2> SUFFICES ASSUME IInv, NEW u \in Updates
               PROVE  minted[u] + stray[u] + InFlight(u) <= 1 + crashes
    BY DEF PaidOncePerDelivery, InFlight
  <2>1. /\ u \in Claims /\ minted[u] \in Nat /\ stray[u] \in Nat /\ crashes \in Nat
        /\ InFlight(u) \in {0, 1} /\ Since(u) \in {0, 1}
    BY Types DEF IInv, InFlight, Since
  <2>2. minted[u] + stray[u] + InFlight(u) <= crashes + Since(u)
    BY DEF IInv, Counted
  <2> QED BY <2>1, <2>2
<1> QED BY <1>1, Invariance, PTL

(***************************************************************************)
(* When all messages are handled, a user's link is the last one they sent, *)
(* although a restart handles older ones again.                            *)
(***************************************************************************)
THEOREM LinkIsLastHolds == BotsSpec => []LinkIsLast
<1>1. IInv => LinkIsLast
  <2> SUFFICES ASSUME IInv, offset = Len(inbox) + 1, NEW user \in Users PROVE link[user] = LastLink(user)
    BY DEF LinkIsLast
  <2>1. Dropped = Len(inbox) /\ Len(inbox) \in Nat /\ DOMAIN inbox = 1..Len(inbox)
    BY Types DEF IInv, BotsTypeOK, Dropped
  <2>2. IsLink(user, Len(inbox), link[user])
    BY <2>1 DEF IInv, Following
  <2>3. LinksOf(user, Len(inbox)) = {u \in DOMAIN inbox : inbox[u].cmd = "link" /\ inbox[u].user = user}
    BY <2>1 DEF LinksOf
  <2> DEFINE links == LinksOf(user, Len(inbox))
             last == CHOOSE u \in links : \A v \in links : v <= u
  <2>4. LastLink(user) = IF links = {} THEN "none" ELSE inbox[last].wallet
    BY <2>3 DEF LastLink
  <2>5. CASE links = {}
    BY <2>2, <2>4, <2>5 DEF IsLink
  <2>6. CASE links # {}
    <3>1. PICK u \in links : (\A v \in links : v <= u) /\ link[user] = inbox[u].wallet
      BY <2>2, <2>6 DEF IsLink
    <3>2. \A v \in links : v \in Nat
      BY <2>1 DEF LinksOf
    <3>3. last \in links /\ \A v \in links : v <= last
      BY <3>1
    <3> HIDE DEF last, links
    <3>4. last = u
      BY <3>1, <3>2, <3>3
    <3> QED BY <2>4, <2>6, <3>1, <3>4
  <2> QED BY <2>5, <2>6
<1> QED BY <1>1, Invariance, PTL

(***************************************************************************)
(* Who reads "claim minerada" has been paid, on Telegram and on Discord,   *)
(* whatever calls are cut short and whatever the relayer does after that.  *)
(***************************************************************************)
THEOREM OkMeansMintedHolds == BotsSpec => []OkMeansMinted
<1>1. IInv => OkMeansMinted
  BY DEF IInv, Said
<1> QED BY <1>1, Invariance, PTL
=============================================================================
