----------------------------- MODULE AwsNetwork -----------------------------
(***************************************************************************)
(* aws/first-network/bootstrap.sh and cleanup.sh: crypto material in three *)
(* directories, what is generated from it, the terraform sources and the   *)
(* network that runs on AWS.                                               *)
(*                                                                         *)
(* The scripts run without set -e: a command that fails is passed over.    *)
(* They can be killed between any two commands and run again, in any       *)
(* order, one at a time.  cryptogen, configtxgen and terraform are         *)
(* external.  Each run of cryptogen is a generation; key files are named   *)
(* after their keys, so those of several generations can lie side by side, *)
(* while certificates replace each other.                                  *)
(*                                                                         *)
(* Two machines carry the network, each with a provisioner of its own that *)
(* terraform runs or fails to run by itself (ec2-private-fabric.tf): vm0   *)
(* has peer0 and the CA, vm1 has peer1 and the orderer.                    *)
(***************************************************************************)
EXTENDS Naturals, FiniteSetsExt

CONSTANT MaxGen    \* bound on the runs of cryptogen

ASSUME MaxGenAssumption == MaxGen \in Nat \ {0}

Gens      == 1..MaxGen
Dirs      == {"crypto", "resources", "cli"}
Artefacts == {"genesis", "channelTx", "anchorTx", "artifacts"}
VMs       == {"vm0", "vm1"}

VARIABLES
  gen,       \* runs of cryptogen so far
  dir,       \* per crypto directory, the generations whose keys are in it
  made,      \* per artefact, the generation it was made from, or 0
  keyfile,   \* the keys that FABRIC_CA_SERVER_CA_KEYFILE of .env names
  subnet,    \* the route table that n-private-subnet.tf names
  backup,    \* the one that n-private-subnet.tf.bak names, or "none"
  terraform, \* is there a directory .terraform?
  net,       \* what is on AWS: does terraform know of it, and its route
  vm,        \* the machines: what is on them, and are they provisioned?
  pc,        \* the next command of the script that runs
  tidy,      \* history: this run of bootstrap.sh started from a tidy directory,
             \* and no command of it has failed
  whole      \* history: all machines are of one run of bootstrap.sh

files == <<dir, made, keyfile>>
aws   == <<net, vm>>
infra == <<subnet, backup, terraform, aws>>
vars  == <<gen, files, infra, pc, tidy, whole>>

\* No script is running.
Rest == {"idle", "bootstrapped", "cleaned"}

Down == [up |-> FALSE, tracked |-> FALSE, route |-> "none"]

\* A machine is "done" when terraform counts it as provisioned; one that is
\* "loose" has files of a provisioner that did not end well.
NoVM  == [state |-> "none", crypto |-> {}, genesis |-> 0, keyfile |-> {}]
NoVMs == [v \in VMs |-> NoVM]

InState(state) == {v \in VMs : vm[v].state = state}

\* The generation of the certificates in a directory.
Cert(keys) == IF keys = {} THEN 0 ELSE Max(keys)

Tidy ==
  /\ dir["resources"] = {} => dir["crypto"] = {} /\ dir["cli"] = {}
  /\ subnet = "public"
  /\ ~net.up

\* Command s runs and t comes next.
Run(s, t, works) ==
  /\ pc = s /\ pc' = t
  /\ tidy' = (tidy /\ works)
  /\ UNCHANGED whole

Remove(d) == dir' = [dir EXCEPT ![d] = {}]

-----------------------------------------------------------------------------
Init ==
  /\ gen = 0
  /\ dir = [d \in Dirs |-> {}]
  /\ made = [f \in Artefacts |-> 0]
  /\ keyfile = {}
  /\ subnet = "public" /\ backup = "none"
  /\ terraform = FALSE
  /\ net = Down /\ vm = NoVMs
  /\ pc = "idle" /\ tidy = TRUE /\ whole = TRUE

\* A run of bootstrap.sh starts.  What it provisions is of one run with the
\* rest if there is no machine yet, or none that it has to provision.
StartsRun ==
  /\ tidy' = Tidy
  /\ whole' = (InState("none") = VMs \/ (whole /\ InState("done") = VMs))

\* Faulty variant: what is there is not removed.
BootstrapKeeping ==
  /\ pc \in Rest
  /\ gen < MaxGen
  /\ pc' = "cryptogen" /\ StartsRun
  /\ UNCHANGED <<gen, files, infra>>

\* bootstrap.sh.  Only the copy under resources decides whether anything is
\* removed.
Bootstrap ==
  /\ pc \in Rest
  /\ gen < MaxGen
  /\ pc' = IF dir["resources"] # {} THEN "rmCrypto" ELSE "cryptogen"
  /\ StartsRun
  /\ UNCHANGED <<gen, files, infra>>

RemoveCrypto ==
  \/ Run("rmCrypto", "rmResources", TRUE) /\ Remove("crypto") /\ UNCHANGED <<gen, made, keyfile, infra>>
  \/ Run("rmResources", "rmCli", TRUE) /\ Remove("resources") /\ UNCHANGED <<gen, made, keyfile, infra>>
  \/ Run("rmCli", "cryptogen", TRUE) /\ Remove("cli") /\ UNCHANGED <<gen, made, keyfile, infra>>

\* cryptogen generates into the directory whether or not it is empty.
Cryptogen(works) ==
  /\ Run("cryptogen", "cpResources", works)
  /\ IF works THEN /\ gen' = gen + 1
                   /\ dir' = [dir EXCEPT !["crypto"] = @ \cup {gen + 1}]
     ELSE UNCHANGED <<gen, dir>>
  /\ UNCHANGED <<made, keyfile, infra>>

\* cp -avR crypto: into a directory that is there, it adds and overwrites.
Copy(works) ==
  /\ works => dir["crypto"] # {}
  /\ \E d \in {"resources", "cli"} :
       /\ IF d = "resources" THEN Run("cpResources", "cpCli", works)
          ELSE Run("cpCli", "genesis", works)
       /\ dir' = IF works THEN [dir EXCEPT ![d] = @ \cup dir["crypto"]] ELSE dir
  /\ UNCHANGED <<gen, made, keyfile, infra>>

\* The artefacts in the order they are made, and what comes after each.
Following(f) ==
  CASE f = "genesis"   -> "channelTx"
    [] f = "channelTx" -> "anchorTx"
    [] f = "anchorTx"  -> "env"
    [] f = "artifacts" -> "init"

\* Faulty variant: what is there is not made again.
MakeMissing(f, works) ==
  /\ Run(f, Following(f), works)
  /\ made' = [made EXCEPT ![f] = IF @ # 0 THEN @ ELSE IF works THEN Cert(dir["crypto"]) ELSE 0]
  /\ UNCHANGED <<gen, dir, keyfile, infra>>

\* The old artefact is removed; configtxgen makes a new one of the
\* certificates in ./crypto, cp that of the artifacts.
Make(f, works) ==
  /\ Run(f, Following(f), works)
  /\ works => dir["crypto"] # {}
  /\ made' = [made EXCEPT ![f] = IF works THEN Cert(dir["crypto"]) ELSE 0]
  /\ UNCHANGED <<gen, dir, keyfile, infra>>

\* Faulty variant: cat >> without rm -rf first.
WriteEnvAppending ==
  /\ Run("env", "artifacts", TRUE)
  /\ keyfile' = keyfile \cup dir["resources"]
  /\ UNCHANGED <<gen, dir, made, infra>>

\* .env gets every key file that tree finds.
WriteEnv ==
  /\ Run("env", "artifacts", TRUE)
  /\ keyfile' = dir["resources"]
  /\ UNCHANGED <<gen, dir, made, infra>>

TerraformInit(works) ==
  /\ Run("init", "apply", works)
  /\ terraform' = (terraform \/ works)
  /\ UNCHANGED <<gen, files, subnet, backup, aws>>

ApplyStep(works) == Run("apply", "sed", works) \/ Run("applyAgain", "bootstrapped", works)

\* The machines that terraform has to provision, and can it?  That goes over
\* ssh, which needs the public route.  Machines that terraform has lost track
\* of stand in the way by their names.
Todo      == VMs \ InState("done")
Reachable == subnet = "public" \/ net.route = "public"
Known     == terraform /\ (net.up => net.tracked)

Applied(route) == [up |-> TRUE, tracked |-> TRUE, route |-> route]

\* The files under resources are copied to the machine, over what is there.
Copied(v, state) ==
  [state   |-> state,
   crypto  |-> vm[v].crypto \cup dir["resources"],
   genesis |-> IF made["genesis"] # 0 THEN made["genesis"] ELSE vm[v].genesis,
   keyfile |-> keyfile]

Provision(done, loose) ==
  vm' = [v \in VMs |-> IF v \in done THEN Copied(v, "done")
                       ELSE IF v \in loose THEN Copied(v, "loose") ELSE vm[v]]

\* terraform apply: the machines that are not provisioned yet are, and the
\* route becomes that of the file.
ApplyAll ==
  /\ ApplyStep(TRUE)
  /\ Known /\ (Todo # {} => Reachable)
  /\ net' = Applied(subnet)
  /\ Provision(Todo, {})
  /\ UNCHANGED <<gen, files, subnet, backup, terraform>>

\* terraform apply fails, or is interrupted before the script is killed: of
\* what it had to do anything may be done, one machine but not the other too.
ApplyPartly ==
  /\ ApplyStep(FALSE)
  /\ \E done \in SUBSET Todo, loose \in SUBSET Todo :
       /\ done \cup loose # {} => Known /\ Reachable
       /\ Provision(done, loose \ done)
       /\ \/ UNCHANGED net /\ (done \cup loose # {} => net.up)
          \/ Known /\ \E route \in {net.route, subnet} : net' = Applied(route)
  /\ UNCHANGED <<gen, files, subnet, backup, terraform>>

\* sed -i.bak 's/public/private/g' n-private-subnet.tf
ReplaceRoute ==
  /\ Run("sed", "applyAgain", TRUE)
  /\ backup' = subnet
  /\ subnet' = "private"
  /\ UNCHANGED <<gen, files, terraform, aws>>

-----------------------------------------------------------------------------
\* cleanup.sh: the files of cli-tools first.
Cleanup ==
  /\ pc \in Rest
  /\ Remove("cli")
  /\ made' = [made EXCEPT !["channelTx"] = 0, !["anchorTx"] = 0]
  /\ pc' = IF terraform THEN "destroy" ELSE "rmLocal"
  /\ tidy' = FALSE
  /\ UNCHANGED <<gen, keyfile, infra, whole>>

\* terraform destroy takes down what terraform knows of.  When it fails, some
\* of the machines may be gone, and others be counted as not provisioned.
DestroyAll ==
  /\ Run("destroy", "rmState", TRUE)
  /\ net' = IF net.tracked THEN Down ELSE net
  /\ vm' = IF net.tracked THEN NoVMs ELSE vm
  /\ UNCHANGED <<gen, files, subnet, backup, terraform>>

DestroyPartly ==
  /\ Run("destroy", "rmState", FALSE)
  /\ \/ UNCHANGED aws
     \/ /\ net.tracked /\ UNCHANGED net
        /\ \E gone \in SUBSET VMs, loose \in SUBSET VMs :
             vm' = [v \in VMs |-> IF v \in gone THEN NoVM
                                 ELSE IF v \in loose /\ vm[v].state = "done"
                                      THEN [vm[v] EXCEPT !.state = "loose"] ELSE vm[v]]
  /\ UNCHANGED <<gen, files, subnet, backup, terraform>>

RemoveState ==
  /\ Run("rmState", "rmTerraform", TRUE)
  /\ net' = [net EXCEPT !.tracked = FALSE]
  /\ UNCHANGED <<gen, files, subnet, backup, terraform, vm>>

RemoveTerraform ==
  /\ Run("rmTerraform", "restore", TRUE)
  /\ terraform' = FALSE
  /\ UNCHANGED <<gen, files, subnet, backup, aws>>

\* Faulty variant: the file is restored from nothing.
RestoreBlindly ==
  /\ Run("restore", "rmLocal", TRUE)
  /\ subnet' = backup /\ backup' = "none"
  /\ UNCHANGED <<gen, files, terraform, aws>>

\* mv n-private-subnet.tf.bak n-private-subnet.tf
RestoreSubnet ==
  /\ Run("restore", "rmLocal", backup # "none")
  /\ subnet' = IF backup = "none" THEN subnet ELSE backup
  /\ backup' = "none"
  /\ UNCHANGED <<gen, files, terraform, aws>>

RemoveLocal ==
  /\ Run("rmLocal", "cleaned", TRUE)
  /\ Remove("crypto")
  /\ made' = [made EXCEPT !["artifacts"] = 0]
  /\ UNCHANGED <<gen, keyfile, infra>>

Kill ==
  /\ pc \notin Rest
  /\ pc' = "idle"
  /\ tidy' = FALSE
  /\ UNCHANGED <<gen, files, infra, whole>>

\* What the scripts do when nothing fails, and what can go wrong.
Undisturbed ==
  \/ Bootstrap \/ RemoveCrypto \/ Cryptogen(TRUE) \/ Copy(TRUE) \/ WriteEnv
  \/ \E f \in Artefacts : Make(f, TRUE)
  \/ TerraformInit(TRUE) \/ ApplyAll \/ ReplaceRoute
  \/ Cleanup \/ DestroyAll \/ RemoveState \/ RemoveTerraform \/ RestoreSubnet \/ RemoveLocal

Disturbed ==
  \/ Cryptogen(FALSE) \/ Copy(FALSE) \/ TerraformInit(FALSE)
  \/ \E f \in Artefacts : Make(f, FALSE)
  \/ ApplyPartly \/ DestroyPartly
  \/ Kill

Next == Undisturbed \/ Disturbed

Spec == Init /\ [][Next]_vars

-----------------------------------------------------------------------------
Places == Rest \cup Artefacts \cup
  {"rmCrypto", "rmResources", "rmCli", "cryptogen", "cpResources", "cpCli", "env", "init",
   "apply", "sed", "applyAgain", "destroy", "rmState", "rmTerraform", "restore", "rmLocal"}

Routes == {"public", "private"}

TypeOK ==
  /\ gen \in 0..MaxGen
  /\ dir \in [Dirs -> SUBSET Gens]
  /\ made \in [Artefacts -> 0..MaxGen]
  /\ keyfile \in SUBSET Gens
  /\ subnet \in Routes /\ backup \in Routes \cup {"none"}
  /\ terraform \in BOOLEAN
  /\ net \in [up : BOOLEAN, tracked : BOOLEAN, route : Routes \cup {"none"}]
  /\ vm \in [VMs -> [state : {"none", "loose", "done"}, crypto : SUBSET Gens,
                     genesis : 0..MaxGen, keyfile : SUBSET Gens]]
  /\ pc \in Places
  /\ tidy \in BOOLEAN /\ whole \in BOOLEAN

\* If all machines are of one run of bootstrap.sh, the genesis block that the
\* orderer starts from was made of the certificates that it, peer0 and peer1
\* have: what runs before it left behind in the directories, and what failed
\* in it, does not mix generations on the machines (bootstrap.sh, lines 67-84
\* and 156-159, ec2-private-fabric.tf, lines 29-92).  One run may provision
\* vm0 in its first apply and vm1 in its second.
OneNetwork ==
  whole /\ InState("done") = VMs =>
    \A v \in VMs :
      vm["vm1"].genesis # 0 /\ vm[v].crypto # {} => vm["vm1"].genesis = Cert(vm[v].crypto)

\* Whatever failed, was killed or run twice, and even if a later run found the
\* machine half provisioned: the keys that .env on the machine of the CA names
\* lie there, and the one of its certificate is among them (bootstrap.sh,
\* lines 67-74, 109-120 and 156-159).
KeyfileNamesKey ==
  vm["vm0"].state = "done" /\ vm["vm0"].keyfile # {} =>
    /\ vm["vm0"].keyfile \subseteq vm["vm0"].crypto
    /\ Cert(vm["vm0"].crypto) \in vm["vm0"].keyfile

\* A bootstrap that starts tidy and in which nothing fails ends with both
\* machines, the tools of cli-tools and the artifacts for the other
\* organisation on one generation, and the private subnet private.
TidyBootstrap ==
  pc = "bootstrapped" /\ tidy =>
    /\ net = Applied("private")
    /\ \A v \in VMs : vm[v] = [state |-> "done", crypto |-> {gen}, genesis |-> gen, keyfile |-> {gen}]
    /\ dir["cli"] = {gen}
    /\ \A f \in Artefacts : made[f] = gen
=============================================================================
