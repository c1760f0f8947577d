--------------------------- MODULE DeploymentProofs ---------------------------
(***************************************************************************)
(* Proofs about Deployment, for any number of chains, runs of boot.sh and  *)
(* other transactions of the deployer's account: a service that runs finds *)
(* the contracts it expects, and the relayer is funded once on a chain.    *)
(***************************************************************************)
EXTENDS Deployment, TLAPS

\* On the chain ch, or an older one, the contract was made at this address.
Right(ch, contract, address) ==
  /\ address.era <= ch.era
  /\ address.era = ch.era => address.n \in DOMAIN ch.made /\ ch.made[address.n] = contract

ConfigRight(ch, config) == config.made =>
  Right(ch, Contract("AirdropToken"), config.token) /\ Right(ch, Merkle(config.root), config.airdrop)

FilesRight ==
  /\ ConfigRight(chain, files.config)
  /\ files.signed.made => Right(chain, Contract("SignedAirdrop"), files.signed.address)
  /\ Right(chain, Contract("ChallengeBadge"), files.badges.address)

\* What a script of boot.sh holds until it writes its file.
BootRight ==
  /\ boot.pc \in {"merkle", "extra", "config"} => Right(chain, Contract("AirdropToken"), boot.token)
  /\ boot.pc \in {"extra", "config"} => Right(chain, Merkle(boot.run), boot.airdrop)
  /\ boot.pc = "write" => Right(chain, Contract("SignedAirdrop"), boot.signed)

ServiceRight == \A u \in service.uses : Right(chain, u[1], u[2])

IInv == DeployTypeOK /\ FilesRight /\ BootRight /\ ServiceRight

-----------------------------------------------------------------------------
(* The chain only grows, or is replaced by one with a higher number. *)

Chains == [up : BOOLEAN, era : Nat, made : Seq(Contracts), gifts : Nat]

Grows(ch, next) ==
  /\ ch.era <= next.era
  /\ ch.era = next.era =>
       \A n \in DOMAIN ch.made : n \in DOMAIN next.made /\ next.made[n] = ch.made[n]

LEMMA RightStays ==
  ASSUME NEW ch \in Chains, NEW next \in Chains, Grows(ch, next),
         NEW c, NEW a \in Addresses, Right(ch, c, a)
  PROVE  Right(next, c, a)
  BY DEF Grows, Right, Chains, Addresses

LEMMA ContractTypes ==
  /\ NoContract \in Contracts /\ Contract("AirdropToken") \in Contracts
  /\ Contract("SignedAirdrop") \in Contracts /\ Contract("ChallengeBadge") \in Contracts
  /\ \A n \in Nat : Merkle(n) \in Contracts
  BY DEF Contracts, NoContract

LEMMA SentRight ==
  ASSUME chain \in Chains, NEW c \in Contracts
  PROVE  /\ Sent(c) \in Chains /\ Grows(chain, Sent(c))
         /\ NextAddress \in Addresses
         /\ Right(Sent(c), c, NextAddress)
<1>1. chain.made \in Seq(Contracts) /\ Len(chain.made) \in Nat /\ chain.era \in Nat
  BY DEF Chains
<1>2. Sent(c).made = Append(chain.made, c) /\ Sent(c).era = chain.era
  BY DEF Chains, Sent
<1>3. Append(chain.made, c) \in Seq(Contracts)
  BY <1>1
<1>4. Sent(c) \in Chains
  BY <1>3 DEF Chains, Sent
<1>5. Grows(chain, Sent(c))
  BY <1>1, <1>2 DEF Grows
<1>6. NextAddress \in Addresses
  BY <1>1 DEF NextAddress, At, Addresses
<1>7. Right(Sent(c), c, NextAddress)
  BY <1>1, <1>2 DEF Right, NextAddress, At
<1> QED BY <1>4, <1>5, <1>6, <1>7

LEMMA SameGrows == ASSUME NEW ch \in Chains PROVE Grows(ch, ch)
  BY DEF Grows, Chains

\* A transaction that also sends the relayer its gas.
LEMMA GiftRight ==
  ASSUME chain \in Chains
  PROVE  /\ [Sent(NoContract) EXCEPT !.gifts = @ + 1] \in Chains
         /\ Grows(chain, [Sent(NoContract) EXCEPT !.gifts = @ + 1])
<1>1. Sent(NoContract) \in Chains /\ Grows(chain, Sent(NoContract))
  BY SentRight, ContractTypes
<1> QED BY <1>1 DEF Chains, Grows

LEMMA ChainGrows ==
  ASSUME DeployTypeOK, [DeployNext]_deployVars
  PROVE  chain' \in Chains /\ Grows(chain, chain')
<1> DEFINE Goal == chain' \in Chains /\ Grows(chain, chain')
<1>0. chain \in Chains /\ boot.run \in Nat
  BY DEF DeployTypeOK, Chains
<1>1. ASSUME chain' = chain PROVE Goal
  BY <1>0, <1>1, SameGrows
<1>2. ASSUME NEW c \in Contracts, chain' = Sent(c) PROVE Goal
  BY <1>0, <1>2, SentRight
<1>3. ASSUME chain' = [chain EXCEPT !.up = FALSE] PROVE Goal
  <2>1. chain.made \in Seq(Contracts)
    BY <1>0 DEF Chains
  <2>2. chain' \in Chains /\ chain'.made = chain.made /\ chain'.era = chain.era
    BY <1>0, <1>3, <2>1 DEF Chains
  <2> QED BY <1>0, <2>2 DEF Chains, Grows
<1>4. ASSUME EnsureGas PROVE Goal
  BY <1>0, <1>1, <1>4, GiftRight DEF EnsureGas
<1>5. ASSUME BootStart PROVE Goal
  <2>1. CASE chain.up
    BY <1>1, <1>5, <2>1 DEF BootStart
  <2>2. CASE ~chain.up
    <3>1. chain' = NewChain(chain.era + 1)
      BY <1>5, <2>2 DEF BootStart
    <3>2. <<>> \in Seq(Contracts)
      OBVIOUS
    <3> QED BY <1>0, <3>1, <3>2 DEF NewChain, Chains, Grows
  <2> QED BY <2>1, <2>2
<1>6. ASSUME NEW pc, NEW c \in Contracts, NEW next, NEW otherwise, Creates(pc, c, next, otherwise)
      PROVE  Goal
  BY <1>1, <1>2, <1>6 DEF Creates
<1>7. ASSUME SetupToken \/ SetupMerkle \/ SetupExtra \/ SetupSigned PROVE Goal
  BY <1>0, <1>1, <1>2, <1>7, ContractTypes
     DEF SetupToken, SetupMerkle, SetupExtra, SetupSigned, Creates
<1> HIDE DEF Goal
<1>8. ASSUME WorkerPays \/ SetMetadata \/ SetupBadges PROVE Goal
  BY <1>2, <1>8, ContractTypes DEF WorkerPays, SetMetadata, SetupBadges
<1>9. ASSUME NodeCrash \/ BringDown PROVE Goal
  BY <1>3, <1>9 DEF NodeCrash, BringDown
<1>10. ASSUME \/ StartService \/ StopService \/ BootWait \/ SetupConfig \/ BootServices \/ UpdateSubgraph
              \/ UNCHANGED deployVars
       PROVE Goal
  BY <1>1, <1>10
     DEF StartService, StopService, BootWait, SetupConfig, BootServices, UpdateSubgraph, deployVars
<1>11. Goal
  BY <1>4, <1>5, <1>7, <1>8, <1>9, <1>10 DEF DeployNext
<1> QED BY <1>11 DEF Goal

-----------------------------------------------------------------------------
(* What is right stays right, and what is read from right files is right. *)

LEMMA FilesTypes ==
  ASSUME DeployTypeOK
  PROVE  /\ files.config \in ConfigFiles /\ files.signed \in {NoFile} \cup AddressFiles
         /\ files.config.made => /\ files.config.token \in Addresses /\ files.config.airdrop \in Addresses
                                 /\ files.config.root \in Nat
         /\ files.signed.made => files.signed.address \in Addresses
         /\ files.badges.address \in Addresses
<1>1. /\ files.config \in ConfigFiles /\ files.signed \in {NoFile} \cup AddressFiles
      /\ files.badges \in AddressFiles
  BY DEF DeployTypeOK
<1>2. ASSUME NEW f \in ConfigFiles, f.made
      PROVE  f.token \in Addresses /\ f.airdrop \in Addresses /\ f.root \in Nat
  <2>1. CASE f = NoFile
    BY <1>2, <2>1 DEF NoFile
  <2>2. CASE f \in [made : {TRUE}, token : Addresses, airdrop : Addresses, root : Nat]
    BY <2>2
  <2> QED BY <2>1, <2>2 DEF ConfigFiles
<1>3. ASSUME NEW f \in {NoFile} \cup AddressFiles, f.made PROVE f.address \in Addresses
  <2>1. CASE f = NoFile
    BY <1>3, <2>1 DEF NoFile
  <2>2. CASE f \in AddressFiles
    BY <2>2 DEF AddressFiles
  <2> QED BY <1>3, <2>1, <2>2
<1>4. files.badges.made
  BY <1>1 DEF AddressFiles
<1> QED BY <1>1, <1>2, <1>3, <1>4

LEMMA FilesStay ==
  ASSUME DeployTypeOK, chain' \in Chains, Grows(chain, chain'), FilesRight,
         files'.config = files.config, files'.signed = files.signed, files'.badges = files.badges
  PROVE  FilesRight'
<1>1. chain \in Chains
  BY DEF DeployTypeOK, Chains
<1>2. ConfigRight(chain', files.config)
  BY <1>1, FilesTypes, RightStays DEF FilesRight, ConfigRight
<1>3. files.signed.made => Right(chain', Contract("SignedAirdrop"), files.signed.address)
  BY <1>1, FilesTypes, RightStays DEF FilesRight
<1>4. Right(chain', Contract("ChallengeBadge"), files.badges.address)
  BY <1>1, FilesTypes, RightStays DEF FilesRight
<1> QED BY <1>2, <1>3, <1>4 DEF FilesRight

LEMMA BootStays ==
  ASSUME DeployTypeOK, chain' \in Chains, Grows(chain, chain'), BootRight, boot' = boot
  PROVE  BootRight'
<1>1. chain \in Chains
  BY DEF DeployTypeOK, Chains
<1>2. boot.token \in Addresses /\ boot.airdrop \in Addresses /\ boot.signed \in Addresses
  BY DEF DeployTypeOK
<1> QED BY <1>1, <1>2, RightStays DEF BootRight

LEMMA ServiceStays ==
  ASSUME DeployTypeOK, chain' \in Chains, Grows(chain, chain'), ServiceRight,
         service'.uses \subseteq service.uses
  PROVE  ServiceRight'
<1>1. chain \in Chains
  BY DEF DeployTypeOK, Chains
<1>2. \A u \in service.uses : u[2] \in Addresses
  BY DEF DeployTypeOK
<1> QED BY <1>1, <1>2, RightStays DEF ServiceRight

LEMMA LoadsRight ==
  ASSUME DeployTypeOK, FilesRight, NEW s \in Services
  PROVE  /\ Loads(s) \subseteq Contracts \X Addresses
         /\ \A u \in Loads(s) : Right(chain, u[1], u[2])
<1> DEFINE Fine(S) == S \subseteq Contracts \X Addresses /\ \A u \in S : Right(chain, u[1], u[2])
<1> USE FilesTypes, ContractTypes DEF FilesRight, ConfigRight
<1>2. Fine({})
  OBVIOUS
<1>3. files.config.made => Fine(WorkerUses(files))
  BY DEF WorkerUses
<1>4. files.signed.made => Fine(SignerUses(files)) /\ Fine(RelayerUses(files))
  BY DEF SignerUses, RelayerUses
<1>5. files.config.made /\ files.signed.made => Fine(IndexerUses(files)) /\ Fine(ApiUses(files))
  BY DEF IndexerUses, WorkerUses, ApiUses
<1>6. Fine(BadgeUses(files))
  BY DEF BadgeUses
<1> HIDE DEF Fine
<1>7. ASSUME s = "worker" PROVE Fine(Loads(s))
  <2>1. Needs(s) = {"config"} /\ Uses(s) = WorkerUses(files)
    BY <1>7 DEF Needs, Uses
  <2> QED BY <2>1, <1>2, <1>3 DEF Loads
<1>8. ASSUME s \in {"indexer", "api"} PROVE Fine(Loads(s))
  <2>1. Needs(s) = {"config", "signed"} /\ Uses(s) \in {IndexerUses(files), ApiUses(files)}
    BY <1>8 DEF Needs, Uses
  <2> QED BY <2>1, <1>2, <1>5 DEF Loads
<1>9. ASSUME s \in {"signer", "relayer"} PROVE Fine(Loads(s))
  <2>1. Needs(s) = {"signed"} /\ Uses(s) \in {SignerUses(files), RelayerUses(files)}
    BY <1>9 DEF Needs, Uses
  <2> QED BY <2>1, <1>2, <1>4 DEF Loads
<1>10. ASSUME s = "badge" PROVE Fine(Loads(s))
  <2>1. Uses(s) = BadgeUses(files)
    BY <1>10 DEF Uses
  <2> QED BY <2>1, <1>2, <1>6 DEF Loads
<1>11. Fine(Loads(s))
  BY <1>7, <1>8, <1>9, <1>10 DEF Services, Booted
<1> QED BY <1>11 DEF Fine

-----------------------------------------------------------------------------
(* The invariant is inductive. *)

LEMMA IdleTypes ==
  ASSUME NEW n \in Nat
  PROVE  /\ IdleBoot(n) \in [pc : {"idle"}, extra : BOOLEAN, run : Nat,
                             token : Addresses, airdrop : Addresses, signed : Addresses]
         /\ IdleBoot(n).pc = "idle"
  BY DEF IdleBoot, At, Addresses

LEMMA InitIInv == DeployInit => IInv
<1> SUFFICES ASSUME DeployInit PROVE IInv
  OBVIOUS
<1>1. <<>> \in Seq(Contracts)
  OBVIOUS
<1>2. chain \in [up : BOOLEAN, era : Nat, made : Seq(Contracts), gifts : Nat] /\ chain.era = 1
  BY <1>1 DEF DeployInit, NewChain
<1>3. IdleBoot(0) \in [pc : {"idle"}, extra : BOOLEAN, run : Nat,
                      token : Addresses, airdrop : Addresses, signed : Addresses]
  BY IdleTypes
<1>4. /\ files.config = NoFile /\ files.signed = NoFile
      /\ files.badges = [made |-> TRUE, address |-> At(9, 0)]
      /\ files \in [config : ConfigFiles, signed : {NoFile} \cup AddressFiles, badges : AddressFiles,
                    yaml : [{"AirdropToken", "SignedAirdrop"} -> Addresses]]
  BY DEF DeployInit, ConfigFiles, AddressFiles, At, Addresses
<1>5. DeployTypeOK
  BY <1>2, <1>3, <1>4 DEF DeployInit, DeployTypeOK, NoRelayer, IdleBoot
<1>6. FilesRight
  BY <1>2, <1>4 DEF FilesRight, ConfigRight, Right, NoFile, At
<1>7. BootRight /\ ServiceRight
  BY DEF DeployInit, IdleBoot, BootRight, ServiceRight
<1> QED BY <1>5, <1>6, <1>7 DEF IInv

\* Steps that leave the files and boot.sh as they are.
LEMMA ServiceSteps ==
  ASSUME IInv, \/ NodeCrash \/ WorkerPays \/ SetMetadata \/ StopService \/ StartService \/ EnsureGas
               \/ UNCHANGED deployVars
  PROVE  IInv'
<1> USE DEF IInv
<1>1. chain' \in Chains /\ Grows(chain, chain')
  BY ChainGrows DEF DeployNext
<1>2. files' = files /\ boot' = boot /\ bring' = bring
  BY DEF NodeCrash, WorkerPays, SetMetadata, StopService, StartService, EnsureGas, deployVars
<1>3. relayer \in [pc : {"down", "funding", "up"}, tries : Nat, era : Nat] /\ chain.era \in Nat
  BY DEF DeployTypeOK
<1>4. relayer' \in [pc : {"down", "funding", "up"}, tries : Nat, era : Nat]
  <2>1. ASSUME EnsureGas
        PROVE  \/ relayer' = [relayer EXCEPT !.pc = "up", !.era = chain.era]
               \/ relayer' = [relayer EXCEPT !.tries = @ + 1]
               \/ relayer' = NoRelayer
    BY <2>1 DEF EnsureGas
  <2>2. ASSUME ~EnsureGas
        PROVE  relayer' = relayer \/ relayer' = NoRelayer \/ relayer' = [relayer EXCEPT !.pc = "funding"]
    BY <2>2 DEF NodeCrash, WorkerPays, SetMetadata, StopService, StartService, deployVars
  <2>3. NoRelayer \in [pc : {"down", "funding", "up"}, tries : Nat, era : Nat]
    BY DEF NoRelayer
  <2>4. CASE EnsureGas
    <3>1. CASE relayer' = [relayer EXCEPT !.pc = "up", !.era = chain.era]
      BY <1>3, <3>1
    <3>2. CASE relayer' = [relayer EXCEPT !.tries = @ + 1]
      BY <1>3, <3>2
    <3> QED BY <2>1, <2>3, <2>4, <3>1, <3>2
  <2>5. CASE ~EnsureGas
    BY <1>3, <2>2, <2>3, <2>5
  <2> QED BY <2>4, <2>5
<1>5. service \in [name : Services, uses : SUBSET (Contracts \X Addresses)]
  BY DEF DeployTypeOK
<1>6. ASSUME StartService
      PROVE  ServiceRight' /\ service' \in [name : Services, uses : SUBSET (Contracts \X Addresses)]
  <2>1. chain' = chain /\ service' = [service EXCEPT !.uses = Loads(service.name)]
    BY <1>6 DEF StartService, Running
  <2> QED BY <2>1, <1>5, LoadsRight DEF ServiceRight
<1>7. ASSUME ~StartService
      PROVE  ServiceRight' /\ service' \in [name : Services, uses : SUBSET (Contracts \X Addresses)]
  <2>1. service' = service \/ service' = [service EXCEPT !.uses = {}]
    BY <1>7 DEF NodeCrash, WorkerPays, SetMetadata, StopService, EnsureGas, deployVars
  <2>2. service'.uses \subseteq service.uses
    BY <2>1, <1>5
  <2> QED BY <1>1, <1>5, <2>1, <2>2, ServiceStays
<1>8. FilesRight' /\ BootRight'
  BY <1>1, <1>2, FilesStay, BootStays
<1>9. DeployTypeOK'
  BY <1>1, <1>2, <1>4, <1>6, <1>7 DEF DeployTypeOK, Chains
<1> QED BY <1>6, <1>7, <1>8, <1>9

\* Steps of boot.sh that make no contract and write no file.
LEMMA BootSteps ==
  ASSUME IInv, BootStart \/ BootWait \/ BootServices \/ BringDown
  PROVE  IInv'
<1> USE DEF IInv
<1>1. chain' \in Chains /\ Grows(chain, chain')
  BY ChainGrows DEF DeployNext
<1>2. files' = files
  BY DEF BootStart, BootWait, BootServices, BringDown
<1>3. /\ service \in [name : Services, uses : SUBSET (Contracts \X Addresses)]
      /\ relayer \in [pc : {"down", "funding", "up"}, tries : Nat, era : Nat]
      /\ bring \in {"idle", "rpc", "fresh", "failed"}
      /\ boot.run \in Nat
      /\ boot \in [pc : {"idle", "wait", "token", "merkle", "extra", "config", "signed", "write", "services"},
                   extra : BOOLEAN, run : Nat, token : Addresses, airdrop : Addresses, signed : Addresses]
  BY DEF DeployTypeOK
<1>4. /\ relayer' \in [pc : {"down", "funding", "up"}, tries : Nat, era : Nat]
      /\ bring' \in {"idle", "rpc", "fresh", "failed"}
  <2>1. relayer' \in {relayer, NoRelayer} /\ bring' \in {bring, "rpc"}
    BY DEF BootStart, BootWait, BootServices, BringDown
  <2> QED BY <1>3, <2>1 DEF NoRelayer
<1>5. /\ boot'.pc \in {"idle", "wait", "token"}
      /\ boot' \in [pc : {"idle", "wait", "token", "merkle", "extra", "config", "signed", "write", "services"},
                    extra : BOOLEAN, run : Nat, token : Addresses, airdrop : Addresses, signed : Addresses]
  <2>1. CASE BootStart
    <3>1. PICK extra \in BOOLEAN :
            boot' = [IdleBoot(boot.run + 1) EXCEPT !.pc = "wait", !.extra = extra]
      BY <2>1 DEF BootStart
    <3>2. boot.run + 1 \in Nat
      BY <1>3
    <3>3. IdleBoot(boot.run + 1) \in [pc : {"idle"}, extra : BOOLEAN, run : Nat,
                                     token : Addresses, airdrop : Addresses, signed : Addresses]
      BY <3>2, IdleTypes
    <3> QED BY <3>1, <3>3
  <2>2. CASE BootWait
    <3>1. boot' = [boot EXCEPT !.pc = "token"] \/ boot' = IdleBoot(boot.run)
      BY <2>2 DEF BootWait
    <3> QED BY <1>3, <3>1, IdleTypes
  <2>3. CASE BootServices \/ BringDown
    <3>1. boot' = IdleBoot(boot.run)
      BY <2>3 DEF BootServices, BringDown
    <3> QED BY <1>3, <3>1, IdleTypes
  <2> QED BY <2>1, <2>2, <2>3
<1>6. BootRight'
  BY <1>5 DEF BootRight
<1>7. ServiceRight' /\ service' \in [name : Services, uses : SUBSET (Contracts \X Addresses)]
  <2>1. CASE service' = [service EXCEPT !.uses = Loads(service.name)] /\ chain' = chain
    BY <2>1, <1>3, LoadsRight DEF ServiceRight
  <2>2. CASE service' = service \/ service' = [service EXCEPT !.uses = {}]
    <3>1. service'.uses \subseteq service.uses
      BY <2>2, <1>3
    <3> QED BY <1>1, <1>3, <2>2, <3>1, ServiceStays
  <2> QED BY <2>1, <2>2 DEF BootStart, BootWait, BootServices, BringDown, Running
<1>8. FilesRight'
  BY <1>1, <1>2, FilesStay
<1>9. DeployTypeOK'
  BY <1>1, <1>2, <1>4, <1>5, <1>7, <1>3 DEF DeployTypeOK, Chains
<1> QED BY <1>6, <1>7, <1>8, <1>9

BootTypes == [pc : {"idle", "wait", "token", "merkle", "extra", "config", "signed", "write", "services"},
              extra : BOOLEAN, run : Nat, token : Addresses, airdrop : Addresses, signed : Addresses]

\* A script of boot.sh that makes contract c: all but what it holds then.
LEMMA CreatesKeeps ==
  ASSUME IInv, NEW c \in Contracts, NEW pc, NEW next \in BootTypes, NEW otherwise \in {"signed", "services"},
         Creates(pc, c, next, otherwise)
  PROVE  /\ DeployTypeOK' /\ FilesRight' /\ ServiceRight'
         /\ boot.pc = pc
         /\ \/ chain' = Sent(c) /\ boot' = next
            \/ BootRight'
<1>1. chain \in Chains /\ boot \in BootTypes
  BY DEF IInv, DeployTypeOK, Chains, BootTypes
<1>2. chain' \in Chains /\ Grows(chain, chain')
  BY <1>1, SentRight, SameGrows DEF Creates
<1>3. boot' \in BootTypes
  BY <1>1 DEF Creates, BootTypes
<1>4. DeployTypeOK'
  BY <1>2, <1>3 DEF IInv, Creates, DeployTypeOK, Chains, BootTypes
<1>5. FilesRight' /\ ServiceRight'
  BY <1>2, FilesStay, ServiceStays DEF IInv, Creates
<1>6. ASSUME boot' = [boot EXCEPT !.pc = otherwise] PROVE BootRight'
  <2>1. boot'.pc = otherwise
    BY <1>1, <1>6 DEF BootTypes
  <2> QED BY <2>1 DEF BootRight
<1> QED BY <1>4, <1>5, <1>6 DEF Creates

LEMMA SetupSteps ==
  ASSUME IInv, \/ SetupToken \/ SetupMerkle \/ SetupExtra
               \/ Creates("signed", Contract("SignedAirdrop"),
                          [boot EXCEPT !.signed = NextAddress, !.pc = "write"], "services")
  PROVE  IInv'
<1>1. /\ chain \in Chains /\ boot \in BootTypes /\ boot.run \in Nat
      /\ boot.token \in Addresses /\ boot.airdrop \in Addresses
  BY DEF IInv, DeployTypeOK, Chains, BootTypes
<1>2. NextAddress \in Addresses
  BY <1>1, SentRight, ContractTypes
<1>3. CASE SetupToken
  <2> DEFINE next == [boot EXCEPT !.token = NextAddress, !.pc = "merkle"]
  <2>1. next \in BootTypes /\ next.pc = "merkle" /\ next.token = NextAddress
    BY <1>1, <1>2 DEF BootTypes
  <2>2. Creates("token", Contract("AirdropToken"), next, "signed")
    BY <1>3 DEF SetupToken
  <2> HIDE DEF next
  <2>3. /\ DeployTypeOK' /\ FilesRight' /\ ServiceRight'
        /\ (chain' = Sent(Contract("AirdropToken")) /\ boot' = next) \/ BootRight'
    BY <2>1, <2>2, CreatesKeeps, ContractTypes
  <2>4. ASSUME chain' = Sent(Contract("AirdropToken")), boot' = next PROVE BootRight'
    BY <1>1, <2>1, <2>4, SentRight, ContractTypes DEF BootRight
  <2> QED BY <2>3, <2>4 DEF IInv
<1>4. CASE SetupMerkle
  <2> DEFINE next == [boot EXCEPT !.airdrop = NextAddress, !.pc = IF boot.extra THEN "extra" ELSE "config"]
  <2>1. /\ next \in BootTypes /\ next.pc \in {"extra", "config"} /\ next.token = boot.token
        /\ next.airdrop = NextAddress /\ next.run = boot.run
    BY <1>1, <1>2 DEF BootTypes
  <2>2. Creates("merkle", Merkle(boot.run), next, "signed")
    BY <1>4 DEF SetupMerkle
  <2> HIDE DEF next
  <2>3. /\ DeployTypeOK' /\ FilesRight' /\ ServiceRight' /\ boot.pc = "merkle"
        /\ (chain' = Sent(Merkle(boot.run)) /\ boot' = next) \/ BootRight'
    BY <1>1, <2>1, <2>2, CreatesKeeps, ContractTypes
  <2>4. ASSUME chain' = Sent(Merkle(boot.run)), boot' = next PROVE BootRight'
    <3>1. Right(chain, Contract("AirdropToken"), boot.token)
      BY <2>3 DEF IInv, BootRight
    <3>2. /\ chain' \in Chains /\ Grows(chain, chain')
          /\ Right(chain', Merkle(boot.run), NextAddress)
      BY <1>1, <2>4, SentRight, ContractTypes
    <3>3. Right(chain', Contract("AirdropToken"), boot.token)
      BY <1>1, <3>1, <3>2, RightStays
    <3> QED BY <2>1, <2>4, <3>2, <3>3 DEF BootRight
  <2> QED BY <2>3, <2>4 DEF IInv
<1>5. CASE SetupExtra
  <2> DEFINE next == [boot EXCEPT !.pc = "config"]
  <2>1. /\ next \in BootTypes /\ next.pc = "config" /\ next.token = boot.token
        /\ next.airdrop = boot.airdrop /\ next.run = boot.run
    BY <1>1 DEF BootTypes
  <2>2. Creates("extra", NoContract, next, "signed")
    BY <1>5 DEF SetupExtra
  <2> HIDE DEF next
  <2>3. /\ DeployTypeOK' /\ FilesRight' /\ ServiceRight' /\ boot.pc = "extra"
        /\ (chain' = Sent(NoContract) /\ boot' = next) \/ BootRight'
    BY <2>1, <2>2, CreatesKeeps, ContractTypes
  <2>4. ASSUME chain' = Sent(NoContract), boot' = next PROVE BootRight'
    <3>1. Right(chain, Contract("AirdropToken"), boot.token) /\ Right(chain, Merkle(boot.run), boot.airdrop)
      BY <2>3 DEF IInv, BootRight
    <3>2. chain' \in Chains /\ Grows(chain, chain')
      BY <1>1, <2>4, SentRight, ContractTypes
    <3>3. Right(chain', Contract("AirdropToken"), boot.token) /\ Right(chain', Merkle(boot.run), boot.airdrop)
      BY <1>1, <3>1, <3>2, RightStays
    <3> QED BY <2>1, <2>4, <3>3 DEF BootRight
  <2> QED BY <2>3, <2>4 DEF IInv
<1>6. CASE Creates("signed", Contract("SignedAirdrop"),
                   [boot EXCEPT !.signed = NextAddress, !.pc = "write"], "services")
  <2> DEFINE next == [boot EXCEPT !.signed = NextAddress, !.pc = "write"]
  <2>1. next \in BootTypes /\ next.pc = "write" /\ next.signed = NextAddress
    BY <1>1, <1>2 DEF BootTypes
  <2>2. Creates("signed", Contract("SignedAirdrop"), next, "services")
    BY <1>6
  <2> HIDE DEF next
  <2>3. /\ DeployTypeOK' /\ FilesRight' /\ ServiceRight'
        /\ (chain' = Sent(Contract("SignedAirdrop")) /\ boot' = next) \/ BootRight'
    BY <2>1, <2>2, CreatesKeeps, ContractTypes
  <2>4. ASSUME chain' = Sent(Contract("SignedAirdrop")), boot' = next PROVE BootRight'
    BY <1>1, <2>1, <2>4, SentRight, ContractTypes DEF BootRight
  <2> QED BY <2>3, <2>4 DEF IInv
<1> QED BY <1>3, <1>4, <1>5, <1>6

\* The steps that write a file.
LEMMA ConfigStep == ASSUME IInv, SetupConfig PROVE IInv'
<1>1. /\ chain \in Chains /\ boot \in BootTypes /\ boot.run \in Nat
      /\ boot.token \in Addresses /\ boot.airdrop \in Addresses
  BY DEF IInv, DeployTypeOK, Chains, BootTypes
<1> DEFINE config == [made |-> TRUE, token |-> boot.token, airdrop |-> boot.airdrop, root |-> boot.run]
<1>2. /\ boot.pc = "config" /\ files' = [files EXCEPT !.config = config]
      /\ boot' = [boot EXCEPT !.pc = "signed"]
      /\ chain' = chain /\ bring' = bring /\ service' = service /\ relayer' = relayer
  BY DEF SetupConfig
<1>3. config \in ConfigFiles /\ ConfigRight(chain, config)
  BY <1>1, <1>2 DEF ConfigFiles, ConfigRight, IInv, BootRight
<1> HIDE DEF config
<1>4. /\ files'.config = config /\ files'.signed = files.signed /\ files'.badges = files.badges
      /\ files' \in [config : ConfigFiles, signed : {NoFile} \cup AddressFiles, badges : AddressFiles,
                     yaml : [{"AirdropToken", "SignedAirdrop"} -> Addresses]]
  BY <1>2, <1>3 DEF IInv, DeployTypeOK
<1>5. boot' \in BootTypes /\ boot'.pc = "signed"
  BY <1>1, <1>2 DEF BootTypes
<1>6. DeployTypeOK'
  BY <1>2, <1>4, <1>5 DEF IInv, DeployTypeOK, BootTypes
<1>7. FilesRight' /\ ServiceRight' /\ BootRight'
  BY <1>2, <1>3, <1>4, <1>5 DEF IInv, FilesRight, ServiceRight, BootRight
<1> QED BY <1>6, <1>7 DEF IInv

LEMMA SignedStep == ASSUME IInv, SetupSigned PROVE IInv'
<1>1. chain \in Chains /\ boot \in BootTypes /\ boot.signed \in Addresses
  BY DEF IInv, DeployTypeOK, Chains, BootTypes
<1>2. CASE Creates("signed", Contract("SignedAirdrop"),
                   [boot EXCEPT !.signed = NextAddress, !.pc = "write"], "services")
  BY <1>2, SetupSteps
<1>3. CASE /\ boot.pc = "write"
           /\ files' = [files EXCEPT !.signed = [made |-> TRUE, address |-> boot.signed]]
           /\ boot' = [boot EXCEPT !.pc = "services"]
           /\ UNCHANGED <<chain, bring, service, relayer>>
  <2> DEFINE signed == [made |-> TRUE, address |-> boot.signed]
  <2>1. signed \in AddressFiles /\ Right(chain, Contract("SignedAirdrop"), signed.address)
    BY <1>1, <1>3 DEF AddressFiles, IInv, BootRight
  <2>2. files' = [files EXCEPT !.signed = signed]
    BY <1>3
  <2> HIDE DEF signed
  <2>3. /\ files'.signed = signed /\ files'.config = files.config /\ files'.badges = files.badges
        /\ files' \in [config : ConfigFiles, signed : {NoFile} \cup AddressFiles, badges : AddressFiles,
                       yaml : [{"AirdropToken", "SignedAirdrop"} -> Addresses]]
    BY <2>1, <2>2 DEF IInv, DeployTypeOK
  <2>4. boot' \in BootTypes /\ boot'.pc = "services"
    BY <1>1, <1>3 DEF BootTypes
  <2>5. DeployTypeOK'
    BY <1>3, <2>3, <2>4 DEF IInv, DeployTypeOK, BootTypes
  <2>6. FilesRight' /\ ServiceRight' /\ BootRight'
    BY <1>3, <2>1, <2>3, <2>4 DEF IInv, FilesRight, ServiceRight, BootRight
  <2> QED BY <2>5, <2>6 DEF IInv
<1> QED BY <1>2, <1>3 DEF SetupSigned

LEMMA BadgesStep == ASSUME IInv, SetupBadges PROVE IInv'
<1>1. chain \in Chains
  BY DEF IInv, DeployTypeOK, Chains
<1>2. /\ chain' = Sent(Contract("ChallengeBadge"))
      /\ boot' = boot /\ bring' = bring /\ service' = service /\ relayer' = relayer
  BY DEF SetupBadges
<1>3. /\ chain' \in Chains /\ Grows(chain, chain') /\ NextAddress \in Addresses
      /\ Right(chain', Contract("ChallengeBadge"), NextAddress)
  BY <1>1, <1>2, SentRight, ContractTypes
<1>4. BootRight' /\ ServiceRight'
  BY <1>2, <1>3, BootStays, ServiceStays DEF IInv
<1>5. CASE files' = files
  <2>1. FilesRight'
    BY <1>3, <1>5, FilesStay DEF IInv
  <2>2. DeployTypeOK'
    BY <1>2, <1>3, <1>5 DEF IInv, DeployTypeOK, Chains
  <2> QED BY <1>4, <2>1, <2>2 DEF IInv
<1>6. CASE files' = [files EXCEPT !.badges = [made |-> TRUE, address |-> NextAddress]]
  <2> DEFINE badges == [made |-> TRUE, address |-> NextAddress]
  <2>1. badges \in AddressFiles /\ badges.address = NextAddress
    BY <1>3 DEF AddressFiles
  <2>2. files' = [files EXCEPT !.badges = badges]
    BY <1>6
  <2> HIDE DEF badges
  <2>3. /\ files'.badges = badges /\ files'.config = files.config /\ files'.signed = files.signed
        /\ files' \in [config : ConfigFiles, signed : {NoFile} \cup AddressFiles, badges : AddressFiles,
                       yaml : [{"AirdropToken", "SignedAirdrop"} -> Addresses]]
    BY <2>1, <2>2 DEF IInv, DeployTypeOK
  <2>4. ConfigRight(chain', files.config)
    BY <1>1, <1>3, FilesTypes, RightStays DEF IInv, FilesRight, ConfigRight
  <2>5. files.signed.made => Right(chain', Contract("SignedAirdrop"), files.signed.address)
    BY <1>1, <1>3, FilesTypes, RightStays DEF IInv, FilesRight
  <2>6. FilesRight'
    BY <1>3, <2>1, <2>3, <2>4, <2>5 DEF FilesRight
  <2>7. DeployTypeOK'
    BY <1>2, <1>3, <2>3 DEF IInv, DeployTypeOK, Chains
  <2> QED BY <1>4, <2>6, <2>7 DEF IInv
<1> QED BY <1>5, <1>6 DEF SetupBadges

LEMMA SubgraphStep == ASSUME IInv, UpdateSubgraph PROVE IInv'
<1> DEFINE Names == {"AirdropToken", "SignedAirdrop"}
           yaml == [name \in DOMAIN files.yaml |-> FreshAddress(NameToKey(name), files.yaml[name])]
<1>1. /\ chain' = chain /\ boot' = boot /\ service' = service /\ relayer' = relayer
      /\ bring' \in {"fresh", "failed"}
      /\ \/ files' = files
         \/ files.config.made /\ files.signed.made /\ files' = [files EXCEPT !.yaml = yaml]
  <2>1. CASE files.config.made /\ files.signed.made
    BY <2>1 DEF UpdateSubgraph
  <2>2. CASE ~(files.config.made /\ files.signed.made)
    BY <2>2 DEF UpdateSubgraph
  <2> QED BY <2>1, <2>2
<1>2. ASSUME files.config.made, files.signed.made PROVE yaml \in [Names -> Addresses]
  <2>1. files.yaml \in [Names -> Addresses]
    BY DEF IInv, DeployTypeOK
  <2>2. /\ files.config.token \in Addresses /\ files.signed.address \in Addresses
    BY <1>2, FilesTypes DEF IInv
  <2>3. \A name \in Names : NameToKey(name) \in {"token", "signed", "merkle"}
    BY DEF NameToKey
  <2>4. \A key \in {"token", "signed", "merkle"}, old \in Addresses : FreshAddress(key, old) \in Addresses
    BY <2>2 DEF FreshAddress
  <2> QED BY <2>1, <2>3, <2>4
<1> HIDE DEF yaml
<1>3. /\ files'.config = files.config /\ files'.signed = files.signed /\ files'.badges = files.badges
      /\ files' \in [config : ConfigFiles, signed : {NoFile} \cup AddressFiles, badges : AddressFiles,
                     yaml : [Names -> Addresses]]
  BY <1>1, <1>2 DEF IInv, DeployTypeOK
<1>4. DeployTypeOK'
  BY <1>1, <1>3 DEF IInv, DeployTypeOK
<1>5. FilesRight' /\ ServiceRight' /\ BootRight'
  BY <1>1, <1>3 DEF IInv, FilesRight, ServiceRight, BootRight
<1> QED BY <1>4, <1>5 DEF IInv

LEMMA NextIInv == ASSUME IInv, [DeployNext]_deployVars PROVE IInv'
  BY ServiceSteps, BootSteps, SetupSteps, ConfigStep, SignedStep, BadgesStep, SubgraphStep DEF DeployNext

LEMMA Invariance == DeploySpec => []IInv
  BY InitIInv, NextIInv, PTL DEF DeploySpec

(***************************************************************************)
(* Every reachable state of the deployment is well typed.                  *)
(***************************************************************************)
THEOREM TypeCorrect == DeploySpec => []DeployTypeOK
<1>1. IInv => DeployTypeOK
  BY DEF IInv
<1> QED BY <1>1, Invariance, PTL

(***************************************************************************)
(* A service finds the contracts it expects at the addresses of the        *)
(* present chain, for any number of chains, runs of boot.sh and senders.   *)
(***************************************************************************)
THEOREM UpOnContractsHolds == DeploySpec => []UpOnContracts
<1>1. IInv => UpOnContracts
  <2> SUFFICES ASSUME IInv, NEW u \in service.uses, u[2].era = chain.era
               PROVE  Found(u[2]) = u[1]
    BY DEF UpOnContracts
  <2> QED BY DEF IInv, ServiceRight, Right, Found
<1> QED BY <1>1, Invariance, PTL

-----------------------------------------------------------------------------
(* The relayer's gas *)

Funded ==
  /\ chain.gifts <= 1
  /\ relayer.era <= chain.era
  /\ relayer.pc = "up" /\ relayer.era = chain.era => Gas

LEMMA FundedStep == ASSUME DeployTypeOK, Funded, [DeployNext]_deployVars PROVE Funded'
<1>1. /\ chain \in Chains /\ chain.gifts \in Nat /\ chain.era \in Nat
      /\ relayer \in [pc : {"down", "funding", "up"}, tries : Nat, era : Nat]
  BY DEF DeployTypeOK, Chains
<1>2. ASSUME EnsureGas PROVE Funded'
  <2>1. /\ chain'.gifts = chain.gifts \/ (~Gas /\ chain'.gifts = chain.gifts + 1)
        /\ chain'.era = chain.era
    BY <1>1, <1>2 DEF EnsureGas, Sent, Chains
  <2>2. \/ relayer' = [relayer EXCEPT !.pc = "up", !.era = chain.era] /\ (Prefunded \/ chain'.gifts > 0)
        \/ relayer' = [relayer EXCEPT !.tries = @ + 1] /\ relayer.pc = "funding"
        \/ relayer' = NoRelayer
    BY <1>2 DEF EnsureGas
  <2>3. \/ relayer'.pc = "up" /\ relayer'.era = chain.era /\ (Prefunded \/ chain'.gifts > 0)
        \/ relayer'.pc # "up" /\ relayer'.era \in {relayer.era, 0}
    <3>1. CASE relayer' = [relayer EXCEPT !.pc = "up", !.era = chain.era] /\ (Prefunded \/ chain'.gifts > 0)
      BY <1>1, <3>1
    <3>2. CASE relayer' = [relayer EXCEPT !.tries = @ + 1] /\ relayer.pc = "funding"
      BY <1>1, <3>2
    <3>3. CASE relayer' = NoRelayer
      BY <3>3 DEF NoRelayer
    <3> QED BY <2>2, <3>1, <3>2, <3>3
  <2> QED BY <1>1, <2>1, <2>3 DEF Funded, Gas
<1>3. ASSUME DeployNext, ~EnsureGas
      PROVE  \/ chain'.gifts = chain.gifts /\ chain'.era = chain.era
             \/ chain'.gifts = 0 /\ chain'.era = chain.era + 1
  <2>1. \/ chain' = chain \/ (\E c \in Contracts : chain' = Sent(c))
        \/ chain' = [chain EXCEPT !.up = FALSE] \/ chain' = NewChain(chain.era + 1)
    BY <1>1, <1>3, ContractTypes
       DEF DeployNext, NodeCrash, WorkerPays, SetMetadata, StartService, StopService, BootStart, BootWait,
           SetupToken, SetupMerkle, SetupExtra, SetupConfig, SetupSigned, BootServices, SetupBadges,
           BringDown, UpdateSubgraph, Creates, DeployTypeOK
  <2> QED BY <1>1, <2>1 DEF Sent, NewChain, Chains
<1>4. ASSUME DeployNext, ~EnsureGas
      PROVE  relayer' = relayer \/ (relayer'.pc # "up" /\ relayer'.era \in {relayer.era, 0})
  <2>1. relayer' = relayer \/ relayer' = NoRelayer \/ relayer' = [relayer EXCEPT !.pc = "funding"]
    BY <1>4
       DEF DeployNext, NodeCrash, WorkerPays, SetMetadata, StartService, StopService, BootStart, BootWait,
           SetupToken, SetupMerkle, SetupExtra, SetupConfig, SetupSigned, BootServices, SetupBadges,
           BringDown, UpdateSubgraph, Creates
  <2> QED BY <1>1, <2>1 DEF NoRelayer
<1>5. ASSUME DeployNext, ~EnsureGas PROVE Funded'
  BY <1>1, <1>3, <1>4, <1>5 DEF Funded, Gas
<1>6. CASE UNCHANGED deployVars
  BY <1>6 DEF deployVars, Funded, Gas
<1> QED BY <1>2, <1>5, <1>6

(***************************************************************************)
(* However often it tries and whoever else sends, ensureGas takes gas from *)
(* the deployer's account once on a chain, and not without need.           *)
(***************************************************************************)
THEOREM FundedOnceHolds == DeploySpec => []FundedOnce
<1>1. DeployInit => Funded
  BY DEF DeployInit, Funded, NewChain, NoRelayer
<1>2. DeployTypeOK /\ Funded /\ [DeployNext]_deployVars => Funded'
  BY FundedStep
<1>3. Funded => FundedOnce
  BY DEF Funded, FundedOnce
<1> QED BY <1>1, <1>2, <1>3, TypeCorrect, PTL DEF DeploySpec
-----------------------------------------------------------------------------
(* The subgraph's addresses *)

LEMMA DataSourceKeys ==
  NameToKey("AirdropToken") = "token" /\ NameToKey("SignedAirdrop") = "signed"
<1>1. /\ ~Holds("AirdropToken", "signed") /\ ~Holds("AirdropToken", "merkle")
      /\ Holds("AirdropToken", "airdrop") /\ Holds("AirdropToken", "token")
      /\ Holds("SignedAirdrop", "signed")
  BY DEF Holds
<1> QED BY <1>1 DEF NameToKey

LEMMA OnlyUpdateSubgraph ==
  ASSUME [DeployNext]_deployVars, bring = "rpc", bring' = "fresh"
  PROVE  UpdateSubgraph
<1>1. bring' # bring
  OBVIOUS
<1>2. ~(NodeCrash \/ WorkerPays \/ SetMetadata \/ StartService \/ StopService \/ EnsureGas)
  BY <1>1 DEF NodeCrash, WorkerPays, SetMetadata, StartService, StopService, EnsureGas
<1>3. ~(BootStart \/ BootWait \/ SetupToken \/ SetupMerkle \/ SetupExtra \/ SetupConfig \/ SetupSigned \/ BootServices)
  BY <1>1 DEF BootStart, BootWait, SetupToken, SetupMerkle, SetupExtra, SetupConfig, SetupSigned, BootServices, Creates
<1>4. ~SetupBadges /\ ~BringDown /\ ~UNCHANGED deployVars
  BY <1>1 DEF SetupBadges, BringDown, deployVars
<1> QED BY <1>2, <1>3, <1>4 DEF DeployNext

\* What is found at an address that is right and of the present chain.
LEMMA FoundRight ==
  ASSUME NEW c, NEW a, Right(chain, c, a), a.era = chain.era
  PROVE  Found(a) = c
  BY DEF Right, Found

(***************************************************************************)
(* For any number of chains and runs of boot.sh, updateSubgraph.js points  *)
(* every data source at the contract of its name when both files were      *)
(* written on the present chain.                                           *)
(***************************************************************************)
THEOREM SubgraphHolds == DeploySpec => SubgraphOnContracts
<1> DEFINE A == bring = "rpc" /\ bring' = "fresh" /\ Fresh =>
                  \A name \in DOMAIN files'.yaml : Found(files'.yaml[name]) = Contract(name)
<1>1. IInv /\ [DeployNext]_deployVars => [A]_deployVars
  <2> SUFFICES ASSUME IInv, [DeployNext]_deployVars, bring = "rpc", bring' = "fresh", Fresh,
                      NEW name \in DOMAIN files'.yaml
               PROVE  Found(files'.yaml[name]) = Contract(name)
    OBVIOUS
  <2>1. UpdateSubgraph
    BY OnlyUpdateSubgraph
  <2>2. /\ files.config.made /\ files.signed.made
        /\ files.config.token.era = chain.era /\ files.signed.address.era = chain.era
    BY DEF Fresh, Written
  <2>3. /\ Found(files.config.token) = Contract("AirdropToken")
        /\ Found(files.signed.address) = Contract("SignedAirdrop")
    BY <2>2, FoundRight DEF IInv, FilesRight, ConfigRight
  <2>4. files' = [files EXCEPT !.yaml =
                    [n \in DOMAIN files.yaml |-> FreshAddress(NameToKey(n), files.yaml[n])]]
    BY <2>1, <2>2 DEF UpdateSubgraph
  <2>5. DOMAIN files.yaml = {"AirdropToken", "SignedAirdrop"}
        /\ files'.yaml = [n \in DOMAIN files.yaml |-> FreshAddress(NameToKey(n), files.yaml[n])]
    BY <2>4 DEF IInv, DeployTypeOK
  <2>6. CASE name = "AirdropToken"
    <3>1. files'.yaml[name] = files.config.token
      BY <2>5, <2>6, DataSourceKeys DEF FreshAddress
    <3> QED BY <2>3, <2>6, <3>1
  <2>7. CASE name = "SignedAirdrop"
    <3>1. files'.yaml[name] = files.signed.address
      BY <2>5, <2>7, DataSourceKeys DEF FreshAddress
    <3> QED BY <2>3, <2>7, <3>1
  <2> QED BY <2>5, <2>6, <2>7
<1> QED BY <1>1, Invariance, PTL DEF DeploySpec, SubgraphOnContracts
=============================================================================
