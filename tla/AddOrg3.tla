------------------------------ MODULE AddOrg3 ------------------------------
(***************************************************************************)
(* A third organisation joins the channel ch1 of the first network         *)
(* (aws/README.md, STEP 1 to 5): create_channel.sh, install_chaincode.sh   *)
(* and add-org3.sh in cli-tools of the host organisation, bootstrap.sh,    *)
(* cleanup.sh and cli-tools/join-channel.sh of add-org3, and the files     *)
(* that are carried from one to the other.                                 *)
(*                                                                         *)
(* AwsNetwork is the host's network; here its scripts run undisturbed.     *)
(* None of the scripts has set -e.  Each organisation runs one at a time,  *)
(* the two side by side.  cryptogen, terraform and Fabric are external:    *)
(* the channel is the sequence of its states, one per block, and an        *)
(* organisation is known by the generation of its certificates.            *)
(***************************************************************************)
EXTENDS AwsNetwork, Integers, Sequences

CONSTANTS
  MaxOrg3,    \* bound on the runs of cryptogen for org3
  MaxFaults   \* bound on the commands that fail from outside and the kills

ASSUME MaxOrg3Assumption   == MaxOrg3 \in Nat \ {0}
ASSUME MaxFaultsAssumption == MaxFaults \in Nat

VARIABLES
  chain,   \* ch1 on the host's network, the state after each block
  peer,    \* the host's peer: has it joined, which versions are installed?
  tools,   \* cli-tools of the host: channel-artifact.json, config_block.pb
  task,    \* the next command in the cli container of the host
  calm,    \* history: has nothing failed from outside while it ran?
  gen3,    \* runs of cryptogen for org3
  dir3,    \* the files of add-org3
  org3,    \* the machines of org3
  task3,   \* the next command of org3
  answer,  \* the state of ch1 that the last query at org3 was answered from
  faults   \* commands that failed from outside, and kills, so far

hostCli  == <<peer, tools, task, calm>>
orgFiles == <<gen3, dir3>>
orgCli   == <<gen3, dir3, org3, task3, answer>>
joint    == <<vars, chain, hostCli, orgCli, faults>>

Absent == -1       \* no such file; 0 is an empty one

HostRest == {"idle", "added"}
OrgRest  == {"idle", "joined"}

NoPeer  == [joined |-> FALSE, installed |-> {}]
NoTools == [artifact |-> Absent, fetched |-> Absent]
NoBlock == [org3 |-> 0, version |-> "none"]
NoOrg3  == [up |-> FALSE, crypto |-> 0, ledger |-> "none", height |-> 0, view |-> NoBlock,
            installed |-> FALSE]

Tip == chain[Len(chain)]

Append3(block) == chain' = Append(chain, block)

\* The certificates that a machine of the host runs with.
GenOf(v) == IF vm[v].state = "done" THEN Cert(vm[v].crypto) ELSE 0

\* cli-tools of the host reaches its peer and orderer.
HostConnects == dir["cli"] # {} /\ \A v \in VMs : GenOf(v) = Cert(dir["cli"])

\* cli-tools of org3 reaches its peer.
OrgConnects == org3.up /\ dir3.cli # 0 /\ dir3.cli = org3.crypto

\* Something fails from outside.
Fault(happens) ==
  IF happens THEN faults < MaxFaults /\ faults' = faults + 1 ELSE UNCHANGED faults

-----------------------------------------------------------------------------
JointInit ==
  /\ Init
  /\ chain = <<>>
  /\ peer = NoPeer /\ tools = NoTools /\ task = "idle" /\ calm = TRUE
  /\ gen3 = 0
  /\ dir3 = [input |-> 0, resources |-> 0, cli |-> 0, cert |-> 0, artifact |-> Absent,
             block |-> "none"]
  /\ org3 = NoOrg3
  /\ task3 = "idle" /\ answer = NoBlock
  /\ faults = 0

\* bootstrap.sh and cleanup.sh of the host.  Machines that come or go take
\* the channel with them; what org3 has of it belongs to nothing any more.
\* cleanup.sh removes *.json and *.pb from cli-tools.
HostScript ==
  /\ task \in HostRest
  /\ Undisturbed
  /\ task' = "idle" /\ calm' = TRUE
  /\ tools' = IF pc \in Rest /\ pc' \in {"destroy", "rmLocal"} THEN NoTools ELSE tools
  /\ IF vm' = vm THEN UNCHANGED <<chain, peer, dir3, org3>>
     ELSE /\ chain' = <<>> /\ peer' = NoPeer
          /\ dir3' = [dir3 EXCEPT !.block = IF @ = "live" THEN "old" ELSE @]
          /\ org3' = [org3 EXCEPT !.ledger = IF @ = "live" THEN "old" ELSE @]
  /\ UNCHANGED <<gen3, task3, answer, faults>>

\* The exits of create_channel.sh (channel transaction, certificate) and of
\* add-org3.sh (channel-artifact.json) come before their first command.
StartHost ==
  /\ pc \in Rest /\ task \in HostRest
  /\ \/ task' = "create" /\ made["channelTx"] # 0 /\ dir["cli"] # {}
     \/ task' = "install10"
     \/ task' = "fetch" /\ tools.artifact # Absent
  /\ calm' = TRUE
  /\ UNCHANGED <<vars, chain, peer, tools, orgCli, faults>>

\* Command s of the host runs, t is next; outside tells whether nothing but
\* the command itself can make it fail.
Host(s, t, outside) ==
  /\ task = s /\ task' = t
  /\ calm' = (t = "idle" \/ (calm /\ outside))
  /\ Fault(~outside)
  /\ UNCHANGED <<vars, orgCli>>

CreateChannel(outside) ==
  /\ Host("create", "join", outside)
  /\ IF outside /\ HostConnects /\ chain = <<>>
     THEN Append3(NoBlock) ELSE UNCHANGED chain
  /\ UNCHANGED <<peer, tools>>

\* Joining, and the anchor peer, which nothing here depends on.
JoinHost(outside) ==
  /\ Host("join", "idle", outside)
  /\ peer' = [peer EXCEPT !.joined = @ \/ (outside /\ HostConnects /\ chain # <<>>)]
  /\ UNCHANGED <<chain, tools>>

\* Faulty variant: with set -e, an install that fails because an earlier
\* run has done it ends the script.
InstallOrStop(version, outside) ==
  /\ \/ version = "1.0" /\ Host("install10", "instantiate", outside)
     \/ version = "1.1" /\ Host("install11", IF version \in peer.installed THEN "added" ELSE "upgrade",
                                outside)
  /\ peer' = [peer EXCEPT !.installed = IF outside /\ HostConnects THEN @ \cup {version} ELSE @]
  /\ UNCHANGED <<chain, tools>>

\* peer chaincode install; a version that is there is refused.
Install(version, outside) ==
  /\ \/ version = "1.0" /\ Host("install10", "instantiate", outside)
     \/ version = "1.1" /\ Host("install11", "upgrade", outside)
  /\ peer' = [peer EXCEPT !.installed = IF outside /\ HostConnects THEN @ \cup {version} ELSE @]
  /\ UNCHANGED <<chain, tools>>

\* Faulty variant: a version can be deployed again.
DeployableAgain(version) ==
  /\ HostConnects /\ peer.joined /\ version \in peer.installed /\ chain # <<>>
  /\ version = "1.1" => Tip.version # "none"

\* Can the host's peer endorse the deployment, and is it at its turn?
Deployable(version) ==
  /\ HostConnects /\ peer.joined /\ version \in peer.installed /\ chain # <<>>
  /\ Tip.version = (IF version = "1.0" THEN "none" ELSE "1.0")

\* peer chaincode instantiate and upgrade.
Deploy(version, outside) ==
  /\ \/ version = "1.0" /\ Host("instantiate", "idle", outside)
     \/ version = "1.1" /\ Host("upgrade", "added", outside)
  /\ IF outside /\ Deployable(version)
     THEN Append3([Tip EXCEPT !.version = version]) ELSE UNCHANGED chain
  /\ UNCHANGED <<peer, tools>>

\* peer channel fetch config: without an answer, the file of an earlier run
\* stays.
FetchConfig(outside) ==
  /\ Host("fetch", "update", outside)
  /\ tools' = [tools EXCEPT !.fetched =
       IF outside /\ HostConnects /\ chain # <<>> THEN Tip.org3 ELSE @]
  /\ UNCHANGED <<chain, peer>>

\* Faulty variant: the signature of the host alone replaces an organisation.
UpdateConfigReplacing(outside) ==
  /\ Host("update", "install11", outside)
  /\ IF /\ outside /\ HostConnects /\ chain # <<>>
        /\ tools.artifact > 0 /\ tools.fetched = Tip.org3 /\ tools.artifact # Tip.org3
     THEN Append3([Tip EXCEPT !.org3 = tools.artifact]) ELSE UNCHANGED chain
  /\ UNCHANGED <<peer, tools>>

\* The update is computed from the fetched configuration and the same with
\* Org3MSP merged in, signed by the host and sent.  There is none if nothing
\* differs or channel-artifact.json is empty.  The orderer takes it if it
\* started from the present configuration; to replace an organisation it
\* would want the signature of that organisation.
UpdateConfig(outside) ==
  /\ Host("update", "install11", outside)
  /\ IF /\ outside /\ HostConnects /\ chain # <<>>
        /\ tools.artifact > 0 /\ tools.fetched = 0 /\ Tip.org3 = 0
     THEN Append3([Tip EXCEPT !.org3 = tools.artifact]) ELSE UNCHANGED chain
  /\ UNCHANGED <<peer, tools>>

KillHost ==
  /\ task \notin HostRest /\ task' = "idle" /\ calm' = TRUE /\ Fault(TRUE)
  /\ UNCHANGED <<vars, chain, peer, tools, orgCli>>

-----------------------------------------------------------------------------
\* The output files of one organisation are copied to the other; the
\* README does it when bootstrap.sh is through.
PassToOrg3 ==
  /\ pc \in Rest /\ task3 \in OrgRest
  /\ made["artifacts"] # 0
  /\ dir3' = [dir3 EXCEPT !.input = made["artifacts"]]
  /\ UNCHANGED <<vars, chain, hostCli, gen3, org3, task3, answer, faults>>

PassToHost ==
  /\ task \in HostRest /\ task3 \in OrgRest
  /\ dir3.artifact # Absent
  /\ tools' = [tools EXCEPT !.artifact = dir3.artifact]
  /\ task' = "idle" /\ calm' = TRUE
  /\ UNCHANGED <<vars, chain, peer, orgCli, faults>>

-----------------------------------------------------------------------------
\* Command s of org3 runs and t is next; a command that can work fails only
\* from outside.
Org(s, t, can, works) ==
  /\ task3 = s /\ task3' = t
  /\ works => can
  /\ Fault(can /\ ~works)
  /\ UNCHANGED <<vars, chain, hostCli>>

\* bootstrap.sh exits without its input files.
StartOrg3 ==
  /\ task3 \in OrgRest
  /\ \/ task3' = "cryptogen" /\ dir3.resources = 0 /\ dir3.input # 0 /\ gen3 < MaxOrg3
     \/ task3' = "rmResources" /\ dir3.resources # 0 /\ dir3.input # 0 /\ gen3 < MaxOrg3
     \/ task3' = "clean"
     \/ task3' = "fetch0"
  /\ answer' = NoBlock
  /\ UNCHANGED <<vars, chain, hostCli, gen3, dir3, org3, faults>>

RemoveCrypto3 ==
  /\ \/ Org("rmResources", "rmCli", TRUE, TRUE) /\ dir3' = [dir3 EXCEPT !.resources = 0]
     \/ Org("rmCli", "cryptogen", TRUE, TRUE) /\ dir3' = [dir3 EXCEPT !.cli = 0, !.cert = 0]
  /\ UNCHANGED <<gen3, org3, answer>>

Cryptogen3(works) ==
  /\ Org("cryptogen", "cp", TRUE, works)
  /\ gen3' = IF works THEN gen3 + 1 ELSE gen3
  /\ dir3' = IF works THEN [dir3 EXCEPT !.resources = gen3 + 1] ELSE dir3
  /\ UNCHANGED <<org3, answer>>

\* cp -avR of the crypto material, then the orderer's certificate is added.
Copy3(works) ==
  /\ Org("cp", "artifact", dir3.resources # 0, works)
  /\ dir3' = [dir3 EXCEPT !.cli = IF works THEN dir3.resources ELSE @, !.cert = dir3.input]
  /\ UNCHANGED <<gen3, org3, answer>>

\* configtxgen -printOrg > channel-artifact.json: a failure leaves it empty.
PrintOrg(works) ==
  /\ Org("artifact", "apply", dir3.resources # 0, works)
  /\ dir3' = [dir3 EXCEPT !.artifact = IF works THEN dir3.resources ELSE 0]
  /\ UNCHANGED <<gen3, org3, answer>>

\* terraform provisions the machine of org3's peer unless it is there.  When it
\* fails, files may be on the machine all the same; the next run adds its own.
Apply3(works) ==
  /\ Org("apply", "idle", TRUE, works)
  /\ IF org3.up THEN UNCHANGED org3
     ELSE \E copied \in {works, TRUE} :
            org3' = [org3 EXCEPT !.up = works,
                       !.crypto = IF copied /\ dir3.resources # 0 THEN dir3.resources ELSE @]
  /\ UNCHANGED <<orgFiles, answer>>

\* cleanup.sh leaves the crypto material under resources.
Cleanup3 ==
  /\ Org("clean", "idle", TRUE, TRUE)
  /\ dir3' = [dir3 EXCEPT !.input = 0, !.cli = 0, !.cert = 0, !.artifact = Absent, !.block = "none"]
  /\ org3' = NoOrg3
  /\ UNCHANGED <<gen3, answer>>

\* join-channel.sh: the orderer hands the first block to organisations of
\* the channel; without an answer, the file of an earlier run stays.
FetchFirst(works) ==
  /\ Org("fetch0", "join", chain # <<>> /\ dir3.cert = GenOf("vm1")
                             /\ dir3.cli # 0 /\ dir3.cli = Tip.org3, works)
  /\ dir3' = IF works THEN [dir3 EXCEPT !.block = "live"] ELSE dir3
  /\ UNCHANGED <<gen3, org3, answer>>

\* The ledger that a peer gets of a block: that of the channel as it runs, or,
\* from a block of a channel that is gone, one that nothing is added to.
LedgerOf(block) == IF block = "live" THEN "live" ELSE "stale"

\* A peer that has a ledger of that name refuses.
JoinOrg3(works) ==
  /\ Org("join", "install", OrgConnects /\ dir3.block # "none" /\ org3.ledger = "none", works)
  /\ org3' = IF works
             THEN [org3 EXCEPT !.ledger = LedgerOf(dir3.block), !.height = 1, !.view = NoBlock]
             ELSE org3
  /\ UNCHANGED <<orgFiles, answer>>

InstallOrg3(works) ==
  /\ Org("install", "query", OrgConnects /\ ~org3.installed, works)
  /\ org3' = [org3 EXCEPT !.installed = @ \/ works]
  /\ UNCHANGED <<orgFiles, answer>>

\* Faulty variant: the version that the host installed first.
JoinVersionFirst == "1.0"

\* The version that join-channel.sh installs.
JoinVersion == "1.1"

\* The peer answers readers of the channel as it knows it, with the version
\* it has installed.  sleep 10 may or may not have been long enough.
QueryOrg3(works) ==
  /\ Org("query", "joined", OrgConnects /\ org3.ledger # "none" /\ org3.installed
                              /\ org3.view.org3 = dir3.cli /\ org3.view.version = JoinVersion, works)
  /\ answer' = IF works THEN org3.view ELSE NoBlock
  /\ UNCHANGED <<orgFiles, org3>>

KillOrg3 ==
  /\ task3 \notin OrgRest /\ task3' = "idle" /\ Fault(TRUE)
  /\ UNCHANGED <<vars, chain, hostCli, gen3, dir3, org3, answer>>

\* The peer of org3 pulls the next block; the orderer wants a member.
Deliver ==
  /\ org3.ledger = "live" /\ org3.height < Len(chain) /\ Tip.org3 = org3.crypto
  /\ org3' = [org3 EXCEPT !.height = @ + 1, !.view = chain[org3.height + 1]]
  /\ UNCHANGED <<vars, chain, hostCli, gen3, dir3, task3, answer, faults>>

-----------------------------------------------------------------------------
JointNext ==
  \/ HostScript \/ StartHost \/ KillHost
  \/ \E outside \in BOOLEAN :
       \/ CreateChannel(outside) \/ JoinHost(outside)
       \/ \E version \in {"1.0", "1.1"} : Install(version, outside) \/ Deploy(version, outside)
       \/ FetchConfig(outside) \/ UpdateConfig(outside)
  \/ PassToOrg3 \/ PassToHost
  \/ StartOrg3 \/ RemoveCrypto3 \/ Cleanup3 \/ KillOrg3
  \/ \E works \in BOOLEAN :
       \/ Cryptogen3(works) \/ Copy3(works) \/ PrintOrg(works) \/ Apply3(works)
       \/ FetchFirst(works) \/ JoinOrg3(works) \/ InstallOrg3(works) \/ QueryOrg3(works)
  \/ Deliver

JointSpec == JointInit /\ [][JointNext]_joint

-----------------------------------------------------------------------------
HostPlaces == HostRest \cup {"create", "join", "install10", "instantiate", "fetch", "update",
                             "install11", "upgrade"}
OrgPlaces  == OrgRest \cup {"rmResources", "rmCli", "cryptogen", "cp", "artifact", "apply", "clean",
                            "fetch0", "join", "install", "query"}
Gens3  == 0..MaxOrg3
Blocks == [org3 : Gens3, version : {"none", "1.0", "1.1"}]

JointTypeOK ==
  /\ TypeOK
  /\ chain \in Seq(Blocks) /\ Len(chain) <= 4
  /\ peer \in [joined : BOOLEAN, installed : SUBSET {"1.0", "1.1"}]
  /\ tools \in [artifact : Gens3 \cup {Absent}, fetched : Gens3 \cup {Absent}]
  /\ task \in HostPlaces /\ calm \in BOOLEAN
  /\ gen3 \in Gens3
  /\ dir3 \in [input : 0..MaxGen, resources : Gens3, cli : Gens3, cert : 0..MaxGen,
               artifact : Gens3 \cup {Absent}, block : {"none", "live", "old"}]
  /\ org3 \in [up : BOOLEAN, crypto : Gens3, ledger : {"none", "live", "old", "stale"}, height : 0..4,
               view : Blocks, installed : BOOLEAN]
  /\ task3 \in OrgPlaces
  /\ answer \in Blocks
  /\ faults \in 0..MaxFaults

\* A peer of org3 that follows the channel (has more of it than the block it
\* joined with) stays a member of it: whatever channel-artifact.json
\* add-org3.sh is run with later, after org3 made new crypto material for
\* machines that run on, the channel keeps the certificates the peer has
\* (add-org3.sh, lines 6-16).
MemberStays ==
  org3.ledger = "live" /\ org3.height > 1 => Tip.org3 = org3.crypto

\* add-org3.sh can be run again after it was killed or failed half way: a run
\* to its end with nothing failing from outside, on a channel with the chaincode
\* and with an artifact that is not empty, leaves org3 in the channel and the
\* upgrade done, though some of its commands must fail because an earlier run
\* has done their work (lines 6-22, no set -e).
RerunCompletes ==
  /\ task = "added" /\ calm
  /\ HostConnects /\ chain # <<>> /\ Tip.version # "none" /\ peer.joined /\ tools.artifact > 0
  => Tip.org3 # 0 /\ Tip.version = "1.1"

\* When join-channel.sh's query shows something, it comes from a peer that
\* joined the channel it was meant to, and, for as long as the machines of
\* that channel run, it is the newest state there is: nothing that the host
\* does later or has done before makes the answer an old one, neither a query
\* right after the sleep of 10 s nor a .block that is left of a channel that
\* is gone (join-channel.sh, lines 3-7).  When the host's machines are gone,
\* the peer goes on answering from the ledger it has; no command reports it.
AnswerIsNewest ==
  answer # NoBlock =>
    /\ org3.ledger # "stale"
    /\ org3.ledger = "live" => answer = Tip
=============================================================================
