------------------------------ MODULE Deployment ------------------------------
(***************************************************************************)
(* Bringing the stack up: boot.sh with the setup scripts it runs,          *)
(* subir-tudo.sh with updateSubgraph.js, the files through which contract  *)
(* addresses reach the services, and the start of each service.            *)
(*                                                                         *)
(* The chain is in memory and starts empty; the files are in the working   *)
(* copy and outlive it.  All contracts are created by one account, and an  *)
(* address depends only on the account and the number of its transaction:  *)
(* the address n is that of transaction n, on every chain.  The account    *)
(* also pays EXTRA and the relayer's gas, and sends the transactions of    *)
(* the worker and of setMetadata.js.  The node numbers what the scripts    *)
(* send; relayer.js numbers its own and is refused if it comes too late.   *)
(*                                                                         *)
(* Services meet only in the transactions of that account.  So the model   *)
(* follows one service, which may be any, and lets workers and the scripts *)
(* of an operator send at any time.                                        *)
(***************************************************************************)
EXTENDS Naturals, Sequences, FiniteSets

CONSTANTS
  Prefunded, \* whether the relayer's account has gas on a new chain
  MaxEras,   \* bound on the chains
  MaxTxs,    \* bound on the transactions of the account on a chain
  MaxOthers, \* bound on those that make no contract of boot.sh
  MaxBoots,  \* bound on the runs of boot.sh
  MaxTries   \* the thirty tries of ensureGas

ASSUME DeployAssumption ==
  /\ Prefunded \in BOOLEAN
  /\ MaxEras \in Nat /\ MaxTxs \in Nat /\ MaxOthers \in Nat
  /\ MaxBoots \in Nat /\ MaxTries \in Nat \ {0}

VARIABLES
  chain,   \* up, its number (era), what each transaction made, ETH sent to the relayer
  files,   \* config.json, signed.json, badges.json, subgraph.yaml
  boot,    \* boot.sh: pc, EXTRA, the number of the run, addresses in its hands
  bring,   \* subir-tudo.sh
  service, \* the service followed, and what it expects at which address
  relayer  \* if it is relayer.js: pc, the tries of ensureGas, when it came up

deployVars == <<chain, files, boot, bring, service, relayer>>

\* A contract: its name and, for MerkleAirdrop, the run that made its root.
Contract(name) == <<name, 0>>
Merkle(run) == <<"MerkleAirdrop", run>>
NoContract == Contract("none")

\* An address, with the chain it was created on (history).
At(n, era) == [n |-> n, era |-> era]
NoFile == [made |-> FALSE]

NoRelayer == [pc |-> "down", tries |-> 0, era |-> 0]
NewChain(era) == [up |-> TRUE, era |-> era, made |-> <<>>, gifts |-> 0]

Booted == {"worker", "indexer", "api"}
Services == Booted \cup {"signer", "relayer", "badge"}
IdleBoot(n) == [pc |-> "idle", extra |-> FALSE, run |-> n,
                token |-> At(0, 0), airdrop |-> At(0, 0), signed |-> At(0, 0)]

\* badges.json and subgraph.yaml are in the repository, config.json and
\* signed.json are not.
DeployInit ==
  /\ chain = [NewChain(1) EXCEPT !.up = FALSE]
  /\ files = [config |-> NoFile, signed |-> NoFile,
              badges |-> [made |-> TRUE, address |-> At(9, 0)],
              yaml |-> [AirdropToken |-> At(6, 0), SignedAirdrop |-> At(8, 0)]]
  /\ boot = IdleBoot(0)
  /\ bring = "idle"
  /\ service \in [name : Services, uses : {{}}]
  /\ relayer = NoRelayer

Addresses == [n : Nat, era : Nat]
Contracts == {Contract(name) : name \in {"none", "AirdropToken", "SignedAirdrop", "ChallengeBadge"}}
             \cup {Merkle(run) : run \in Nat}

ConfigFiles == {NoFile} \cup [made : {TRUE}, token : Addresses, airdrop : Addresses, root : Nat]
AddressFiles == [made : {TRUE}, address : Addresses]

DeployTypeOK ==
  /\ chain \in [up : BOOLEAN, era : Nat, made : Seq(Contracts), gifts : Nat]
  /\ files \in [config : ConfigFiles, signed : {NoFile} \cup AddressFiles, badges : AddressFiles,
                yaml : [{"AirdropToken", "SignedAirdrop"} -> Addresses]]
  /\ boot \in [pc : {"idle", "wait", "token", "merkle", "extra", "config", "signed", "write", "services"},
               extra : BOOLEAN, run : Nat, token : Addresses, airdrop : Addresses, signed : Addresses]
  /\ bring \in {"idle", "rpc", "fresh", "failed"}
  /\ service \in [name : Services, uses : SUBSET (Contracts \X Addresses)]
  /\ relayer \in [pc : {"down", "funding", "up"}, tries : Nat, era : Nat]

-----------------------------------------------------------------------------
(* The chain *)

Sent(contract) == [chain EXCEPT !.made = Append(@, contract)]
NextAddress == At(Len(chain.made) + 1, chain.era)
CanSend == chain.up /\ Len(chain.made) < MaxTxs

Others == {n \in DOMAIN chain.made : chain.made[n] \in {NoContract, Contract("ChallengeBadge")}}
CanSendOther == CanSend /\ Cardinality(Others) < MaxOthers

\* What is found at an address of the present chain.
Found(address) == IF address.n \in DOMAIN chain.made THEN chain.made[address.n] ELSE NoContract

\* The node ends and everything on its chain is gone.
NodeCrash ==
  /\ chain.up
  /\ chain' = [chain EXCEPT !.up = FALSE]
  /\ UNCHANGED <<files, boot, bring, service, relayer>>

\* A batch of worker.js, or setURI of setMetadata.js after its uploads.
WorkerPays ==
  /\ files.config.made /\ CanSendOther
  /\ chain' = Sent(NoContract)
  /\ UNCHANGED <<files, boot, bring, service, relayer>>

SetMetadata ==
  /\ files.config.made /\ CanSendOther
  /\ chain' = Sent(NoContract)
  /\ UNCHANGED <<files, boot, bring, service, relayer>>

-----------------------------------------------------------------------------
(* The services: what each reads when it starts, and expects to find there *)

WorkerUses(f) == {<<Contract("AirdropToken"), f.config.token>>}
IndexerUses(f) == WorkerUses(f) \cup {<<Contract("SignedAirdrop"), f.signed.address>>}
ApiUses(f) == {<<Merkle(f.config.root), f.config.airdrop>>,
               <<Contract("SignedAirdrop"), f.signed.address>>}
SignerUses(f) == {<<Contract("SignedAirdrop"), f.signed.address>>}
RelayerUses(f) == {<<Contract("SignedAirdrop"), f.signed.address>>}
BadgeUses(f) == {<<Contract("ChallengeBadge"), f.badges.address>>}

Uses(s) == CASE s = "worker" -> WorkerUses(files)
             [] s = "indexer" -> IndexerUses(files)
             [] s = "api" -> ApiUses(files)
             [] s = "signer" -> SignerUses(files)
             [] s = "relayer" -> RelayerUses(files)
             [] s = "badge" -> BadgeUses(files)

Needs(s) == CASE s = "worker" -> {"config"}
              [] s \in {"indexer", "api"} -> {"config", "signed"}
              [] s \in {"signer", "relayer"} -> {"signed"}
              [] s = "badge" -> {"badges"}

\* A service that lacks a file throws when it is loaded; relayer.js begins
\* with ensureGas.
Loads(s) == IF \A f \in Needs(s) : files[f].made THEN Uses(s) ELSE {}

Running == service' = [service EXCEPT !.uses = Loads(service.name)]

StartService ==
  /\ service.uses = {} /\ Loads(service.name) # {}
  /\ Running
  /\ relayer' = IF service.name = "relayer" THEN [relayer EXCEPT !.pc = "funding"] ELSE relayer
  /\ UNCHANGED <<chain, files, boot, bring>>

StopService ==
  /\ service.uses # {}
  /\ service' = [service EXCEPT !.uses = {}]
  /\ relayer' = NoRelayer
  /\ UNCHANGED <<chain, files, boot, bring>>

Gas == Prefunded \/ chain.gifts > 0

\* Mutant: the balance is read before the loop only.
EnsureGasBlind ==
  /\ relayer.pc = "funding"
  /\ \/ CanSend /\ chain' = [Sent(NoContract) EXCEPT !.gifts = @ + 1]
     \/ UNCHANGED chain
  /\ \/ chain'.gifts > chain.gifts /\ relayer' = [relayer EXCEPT !.pc = "up", !.era = chain.era]
     \/ /\ relayer.tries + 1 < MaxTries
        /\ relayer' = [relayer EXCEPT !.tries = @ + 1]
  /\ UNCHANGED <<files, boot, bring, service>>

\* One try of ensureGas: the balance is enough; or it is not and the
\* deployer's account sends some; or a call fails, perhaps after the
\* transaction was mined, and after the last try the process ends.
EnsureGas ==
  /\ relayer.pc = "funding"
  /\ \/ chain.up /\ Gas /\ UNCHANGED chain
     \/ CanSend /\ ~Gas /\ chain' = [Sent(NoContract) EXCEPT !.gifts = @ + 1]
     \/ UNCHANGED chain
  /\ \/ /\ chain.up /\ (Prefunded \/ chain'.gifts > 0)
        /\ relayer' = [relayer EXCEPT !.pc = "up", !.era = chain.era]
        /\ UNCHANGED service
     \/ /\ relayer.tries + 1 < MaxTries
        /\ relayer' = [relayer EXCEPT !.tries = @ + 1]
        /\ UNCHANGED service
     \/ /\ relayer.tries + 1 = MaxTries
        /\ relayer' = NoRelayer /\ service' = [service EXCEPT !.uses = {}]
  /\ UNCHANGED <<files, boot, bring>>

-----------------------------------------------------------------------------
(* boot.sh, which goes on to the next line when one has failed *)

\* hardhat node: the port is taken if the chain is up.
BootStart ==
  /\ boot.pc = "idle" /\ boot.run < MaxBoots /\ chain.era < MaxEras
  /\ service.name \in Booted => service.uses = {}
  /\ chain' = IF chain.up THEN chain ELSE NewChain(chain.era + 1)
  /\ \E extra \in BOOLEAN :
       boot' = [IdleBoot(boot.run + 1) EXCEPT !.pc = "wait", !.extra = extra]
  /\ UNCHANGED <<files, bring, service, relayer>>

\* The loop on eth_blockNumber ends the script if the node never answers.
BootWait ==
  /\ boot.pc = "wait"
  /\ boot' = IF chain.up THEN [boot EXCEPT !.pc = "token"] ELSE IdleBoot(boot.run)
  /\ UNCHANGED <<chain, files, bring, service, relayer>>

\* A script makes a contract; or throws, perhaps after its transaction was
\* mined, and boot.sh goes on at otherwise.
Creates(pc, contract, next, otherwise) ==
  /\ boot.pc = pc
  /\ \/ CanSend /\ chain' = Sent(contract) /\ boot' = next
     \/ /\ UNCHANGED chain \/ (CanSend /\ chain' = Sent(contract))
        /\ boot' = [boot EXCEPT !.pc = otherwise]
  /\ UNCHANGED <<files, bring, service, relayer>>

SetupToken ==
  Creates("token", Contract("AirdropToken"), [boot EXCEPT !.token = NextAddress, !.pc = "merkle"], "signed")

SetupMerkle ==
  Creates("merkle", Merkle(boot.run),
          [boot EXCEPT !.airdrop = NextAddress, !.pc = IF boot.extra THEN "extra" ELSE "config"], "signed")

SetupExtra == Creates("extra", NoContract, [boot EXCEPT !.pc = "config"], "signed")

\* Mutant: the two addresses change places.
SetupConfigSwapped ==
  /\ boot.pc = "config"
  /\ files' = [files EXCEPT !.config =
                 [made |-> TRUE, token |-> boot.airdrop, airdrop |-> boot.token, root |-> boot.run]]
  /\ boot' = [boot EXCEPT !.pc = "signed"]
  /\ UNCHANGED <<chain, bring, service, relayer>>

\* The file is written at the end of the script, in one piece.
SetupConfig ==
  /\ boot.pc = "config"
  /\ files' = [files EXCEPT !.config =
                 [made |-> TRUE, token |-> boot.token, airdrop |-> boot.airdrop, root |-> boot.run]]
  /\ boot' = [boot EXCEPT !.pc = "signed"]
  /\ UNCHANGED <<chain, bring, service, relayer>>

\* Mutant: the address is reckoned from a count read after the deployment.
SetupSignedReckoned ==
  \/ Creates("signed", Contract("SignedAirdrop"), [boot EXCEPT !.pc = "write"], "services")
  \/ /\ boot.pc = "write"
     /\ files' = [files EXCEPT !.signed = [made |-> TRUE, address |-> At(Len(chain.made), chain.era)]]
     /\ boot' = [boot EXCEPT !.pc = "services"]
     /\ UNCHANGED <<chain, bring, service, relayer>>

\* setupSigned.js
SetupSigned ==
  \/ Creates("signed", Contract("SignedAirdrop"),
             [boot EXCEPT !.signed = NextAddress, !.pc = "write"], "services")
  \/ /\ boot.pc = "write"
     /\ files' = [files EXCEPT !.signed = [made |-> TRUE, address |-> boot.signed]]
     /\ boot' = [boot EXCEPT !.pc = "services"]
     /\ UNCHANGED <<chain, bring, service, relayer>>

BootServices ==
  /\ boot.pc = "services"
  /\ boot' = IdleBoot(boot.run)
  /\ IF service.name \in Booted THEN Running ELSE UNCHANGED service
  /\ UNCHANGED <<chain, files, bring, relayer>>

\* setupBadges.js, run by hand; it may end before it writes the file.
SetupBadges ==
  /\ CanSendOther
  /\ chain' = Sent(Contract("ChallengeBadge"))
  /\ \/ files' = [files EXCEPT !.badges = [made |-> TRUE, address |-> NextAddress]]
     \/ UNCHANGED files
  /\ UNCHANGED <<boot, bring, service, relayer>>

-----------------------------------------------------------------------------
(* subir-tudo.sh and updateSubgraph.js *)

\* docker compose down -v: the processes and volumes go, the files stay; then
\* boot.sh runs on its own.
BringDown ==
  /\ bring \in {"idle", "fresh", "failed"} /\ boot.run < MaxBoots /\ chain.era < MaxEras
  /\ chain' = [chain EXCEPT !.up = FALSE]
  /\ boot' = IdleBoot(boot.run)
  /\ service' = [service EXCEPT !.uses = {}]
  /\ relayer' = NoRelayer
  /\ bring' = "rpc"
  /\ UNCHANGED files

\* The parts of a data source's name that nameToKey looks for.
Holds(name, word) == word \in (CASE name = "AirdropToken" -> {"airdrop", "token"}
                                 [] name = "SignedAirdrop" -> {"airdrop", "signed"})

\* Mutant: "airdrop" is looked for first.
NameToKeyAirdropFirst(name) ==
  IF Holds(name, "merkle") \/ (Holds(name, "airdrop") /\ ~Holds(name, "token")) THEN "merkle"
  ELSE IF Holds(name, "signed") THEN "signed" ELSE "token"

NameToKey(name) ==
  IF Holds(name, "signed") THEN "signed"
  ELSE IF Holds(name, "merkle") \/ (Holds(name, "airdrop") /\ ~Holds(name, "token")) THEN "merkle"
  ELSE "token"

\* map of updateSubgraph.js.  setupBackend.js writes none of the keys that
\* pick tries for merkle, so that one is null and its sources stay.
FreshAddress(key, old) ==
  CASE key = "token" -> files.config.token
    [] key = "signed" -> files.signed.address
    [] key = "merkle" -> old

\* Step 5 comes fifteen seconds after the first answer of the node, whatever
\* boot.sh has done by then; set -e ends the script if a file is missing.
UpdateSubgraph ==
  /\ bring = "rpc" /\ chain.up
  /\ IF files.config.made /\ files.signed.made
       THEN /\ files' = [files EXCEPT !.yaml =
                           [name \in DOMAIN files.yaml |-> FreshAddress(NameToKey(name), files.yaml[name])]]
            /\ bring' = "fresh"
       ELSE bring' = "failed" /\ UNCHANGED files
  /\ UNCHANGED <<chain, boot, service, relayer>>

-----------------------------------------------------------------------------
DeployNext ==
  \/ NodeCrash \/ WorkerPays \/ SetMetadata
  \/ StartService \/ StopService \/ EnsureGas
  \/ BootStart \/ BootWait \/ SetupToken \/ SetupMerkle \/ SetupExtra \/ SetupConfig \/ SetupSigned \/ BootServices
  \/ SetupBadges
  \/ BringDown \/ UpdateSubgraph

DeploySpec == DeployInit /\ [][DeployNext]_deployVars

-----------------------------------------------------------------------------
(* Properties *)

(***************************************************************************)
(* Safety: a running service that holds an address of the present chain    *)
(* finds there the contract it expects, with the root its proofs were made *)
(* for, whoever else sends transactions of the deployer's account while    *)
(* boot.sh runs and wherever boot.sh fails (setup scripts, services).      *)
(***************************************************************************)
UpOnContracts == \A u \in service.uses :
  u[2].era = chain.era => Found(u[2]) = u[1]

Written == files.config.made /\ files.signed.made
Fresh == Written /\ files.config.token.era = chain.era /\ files.signed.address.era = chain.era

(***************************************************************************)
(* Action property: when boot.sh has written both files on the present     *)
(* chain before step 5 of subir-tudo.sh, updateSubgraph.js points every    *)
(* data source at the contract of its name, whatever addresses of older    *)
(* chains subgraph.yaml held.                                              *)
(***************************************************************************)
SubgraphOnContracts ==
  [][bring = "rpc" /\ bring' = "fresh" /\ Fresh =>
       \A name \in DOMAIN files'.yaml : Found(files'.yaml[name]) = Contract(name)]_deployVars

(***************************************************************************)
(* Safety: the relayer listens only with gas on its account, and a try of  *)
(* ensureGas whose answer is lost does not make the next one pay again.    *)
(***************************************************************************)
FundedOnce ==
  /\ chain.gifts <= 1
  /\ relayer.pc = "up" /\ relayer.era = chain.era => Gas
=============================================================================
