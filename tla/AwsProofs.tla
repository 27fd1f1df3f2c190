----------------------------- MODULE AwsProofs -----------------------------
(***************************************************************************)
(* Proofs about AwsNetwork, the scripts of the first network alone, and    *)
(* AddOrg3, in which a third organisation joins its channel: for any       *)
(* number of runs of cryptogen, of commands that fail and of kills.        *)
(***************************************************************************)
EXTENDS AddOrg3, TLAPS, WellFoundedInduction

\* A set of generations has a latest one.
LEMMA MaxInSet ==
  ASSUME NEW n \in Nat, NEW S \in SUBSET (1..n), S # {}
  PROVE  Max(S) \in S /\ \A y \in S : y <= Max(S)
<1> DEFINE D == {k \in Nat : \E x \in S : k = n - x}
<1>1. \A a, b \in Nat : a < b => <<a, b>> \in OpToRel(<, Nat)
  BY DEF OpToRel
<1>2. D \subseteq Nat /\ D # {}
  <2>1. PICK x \in S : x \in 1..n
    OBVIOUS
  <2>2. n - x \in D
    BY <2>1
  <2> QED
    BY <2>2
<1>3. PICK d \in D : \A e \in D : ~(<<e, d>> \in OpToRel(<, Nat))
  BY ONLY <1>2, WFMin, NatLessThanWellFounded
<1>4. PICK m \in S : d = n - m
  OBVIOUS
<1>5. \A y \in S : m >= y
  <2> SUFFICES ASSUME NEW y \in S PROVE m >= y
    OBVIOUS
  <2>1. n - y \in D /\ d \in Nat
    OBVIOUS
  <2>2. ~(n - y < d)
    BY <1>1, <1>3, <2>1
  <2> QED
    BY <1>4, <2>1, <2>2
<1> QED
  BY <1>5 DEF Max

LEMMA CertInRange ==
  ASSUME NEW keys \in SUBSET Gens
  PROVE  Cert(keys) \in 0..MaxGen
<1>1. CASE keys = {}
  BY <1>1, MaxGenAssumption DEF Cert
<1>2. CASE keys # {}
  <2>1. Max(keys) \in keys
    BY <1>2, MaxInSet, MaxGenAssumption DEF Gens
  <2>2. \A k \in Gens : k \in 0..MaxGen
    BY MaxGenAssumption DEF Gens
  <2> QED
    BY <1>2, <2>1, <2>2 DEF Cert
<1> QED
  BY <1>1, <1>2

LEMMA CertOfOne ==
  ASSUME NEW g \in Gens
  PROVE  Cert({g}) = g
<1>1. Max({g}) \in {g}
  BY MaxInSet, MaxGenAssumption DEF Gens
<1> QED
  BY <1>1 DEF Cert

\* What comes on top of older certificates decides which one is there.
LEMMA CertOfUnion ==
  ASSUME NEW S \in SUBSET Gens, NEW T \in SUBSET Gens, T # {},
         \A g \in S : g <= Cert(T)
  PROVE  /\ Cert(S \cup T) = Cert(T) /\ Cert(T) \in T
         /\ \A g \in S \cup T : g <= Cert(T)
<1> USE MaxGenAssumption DEF Gens
<1>1. Max(T) \in T /\ \A g \in T : g <= Max(T)
  BY MaxInSet
<1>2. Max(S \cup T) \in S \cup T /\ \A g \in S \cup T : g <= Max(S \cup T)
  BY MaxInSet
<1>3. Cert(T) = Max(T) /\ Cert(S \cup T) = Max(S \cup T)
  BY DEF Cert
<1>4. /\ Max(S \cup T) <= Max(T) /\ Max(T) <= Max(S \cup T)
      /\ Max(S \cup T) \in Int /\ Max(T) \in Int
  <2>1. \A x \in S \cup T : x \in Int /\ x <= Max(T)
    BY <1>1, <1>3
  <2>2. Max(T) \in S \cup T
    BY <1>1
  <2> QED
    BY ONLY <1>2, <2>1, <2>2
<1>5. Max(S \cup T) = Max(T)
  BY ONLY <1>4
<1> QED
  BY <1>1, <1>3, <1>5

-----------------------------------------------------------------------------
\* The commands of bootstrap.sh from one on.
SinceSed       == {"sed", "applyAgain"}
SinceInit      == SinceSed \cup {"init", "apply", "bootstrapped"}
SinceArtifacts == SinceInit \cup {"artifacts"}
SinceEnv       == SinceArtifacts \cup {"env"}
SinceAnchorTx  == SinceEnv \cup {"anchorTx"}
SinceChannelTx == SinceAnchorTx \cup {"channelTx"}
SinceGenesis   == SinceChannelTx \cup {"genesis"}
SinceCpCli     == SinceGenesis \cup {"cpCli"}
SinceCp        == SinceCpCli \cup {"cpResources"}
ToCryptogen    == {"rmCrypto", "rmResources", "rmCli", "cryptogen"}

\* bootstrap.sh has not started unless one more run of cryptogen is left.
HostTypeOK == TypeOK /\ (pc \in ToCryptogen => gen < MaxGen)

\* Where bootstrap.sh is, whatever has failed: the copy is whole or empty,
\* and what was made is made of the present certificates or not there.
Prepared ==
  /\ pc \in {"rmCli", "cryptogen", "cpResources"} => dir["resources"] = {}
  /\ pc \in SinceCpCli \ {"bootstrapped"} => dir["resources"] \in {{}, dir["crypto"]}
  /\ pc \in SinceChannelTx \ {"bootstrapped"} => made["genesis"] \in {0, Cert(dir["crypto"])}
  /\ pc \in SinceArtifacts \ {"bootstrapped"} => keyfile = dir["resources"]

\* Each machine, whatever has failed: what it has is no newer than what is in
\* ./crypto, and once it is provisioned its .env fits.
KeyfileFits(v) ==
  vm[v].state = "done" /\ vm[v].keyfile # {} =>
    vm[v].keyfile \subseteq vm[v].crypto /\ Cert(vm[v].crypto) \in vm[v].keyfile

Machines ==
  /\ ~net.up => vm = NoVMs
  /\ \A d \in Dirs : dir[d] \subseteq 1..gen
  /\ \A v \in VMs :
       /\ vm[v].state = "none" => vm[v] = NoVM
       /\ vm[v].crypto \subseteq 1..gen
       /\ dir["crypto"] # {} => \A g \in vm[v].crypto : g <= Cert(dir["crypto"])
       /\ KeyfileFits(v)

\* Has machine v got crypto material c and genesis block g?
Has(v, c, g) == vm[v].crypto = c /\ vm[v].genesis = g

\* The machines, if they are of one run: while bootstrap.sh is at work there
\* are none, or all of them from before, or what it has provisioned itself.
OneRun ==
  whole =>
    /\ pc \in ToCryptogen \cup (SinceCp \ {"bootstrapped"}) =>
         \/ \A v \in VMs : vm[v].state = "none"
         \/ \A v \in VMs : vm[v].state = "done"
         \/ /\ pc \in SinceSed
            /\ \A v \in VMs : vm[v].state # "none" => Has(v, dir["resources"], made["genesis"])
    /\ \E c \in SUBSET Gens, g \in 0..MaxGen :
         /\ c # {} /\ g # 0 => g = Cert(c)
         /\ \A v \in VMs : vm[v].state # "none" => Has(v, c, g)

\* The machines as they are provisioned when everything is of one generation.
VMsOf(g) == [v \in VMs |-> [state |-> "done", crypto |-> {g}, genesis |-> g, keyfile |-> {g}]]

\* Where bootstrap.sh is, if it started tidy and nothing has failed.
TidyRun ==
  tidy =>
    /\ pc \in ToCryptogen \cup (SinceCp \ (SinceSed \cup {"bootstrapped"})) =>
         subnet = "public" /\ ~net.up
    /\ pc \in {"rmResources", "rmCli", "cryptogen"} => dir["crypto"] = {}
    /\ pc \in {"cryptogen", "cpResources", "cpCli"} => dir["cli"] = {}
    /\ pc \in SinceCp => dir["crypto"] = {gen}
    /\ pc \in SinceCpCli => dir["resources"] = {gen}
    /\ pc \in SinceGenesis => dir["cli"] = {gen}
    /\ pc \in SinceChannelTx => made["genesis"] = gen
    /\ pc \in SinceAnchorTx => made["channelTx"] = gen
    /\ pc \in SinceEnv => made["anchorTx"] = gen
    /\ pc \in SinceArtifacts => keyfile = {gen}
    /\ pc \in SinceInit => made["artifacts"] = gen
    /\ pc \in SinceSed => net = Applied("public") /\ vm = VMsOf(gen)
    /\ pc = "applyAgain" => subnet = "private"
    /\ pc = "bootstrapped" => net = Applied("private") /\ vm = VMsOf(gen)

HostInv == HostTypeOK /\ Prepared /\ Machines /\ OneRun /\ TidyRun

VMType == [state : {"none", "loose", "done"}, crypto : SUBSET Gens, genesis : 0..MaxGen,
           keyfile : SUBSET Gens]

LEMMA NoVMsTyped == NoVM \in VMType /\ NoVMs \in [VMs -> VMType]
<1>1. 0 \in 0..MaxGen
  BY MaxGenAssumption
<1> QED
  BY <1>1 DEF NoVM, NoVMs, VMType

LEMMA HostInitEstablishes == Init => HostInv
<1> SUFFICES ASSUME Init PROVE HostInv
  OBVIOUS
<1> USE DEF Init, Dirs, Artefacts, Down
<1>1. HostTypeOK
  <2>1. 0 \in 0..MaxGen
    BY MaxGenAssumption
  <2> QED
    BY <2>1, NoVMsTyped DEF HostTypeOK, TypeOK, Places, Routes, Rest, ToCryptogen, VMType
<1>2. Prepared /\ TidyRun
  BY DEF Prepared, TidyRun, ToCryptogen, SinceCp, SinceCpCli, SinceGenesis, SinceChannelTx,
         SinceAnchorTx, SinceEnv, SinceArtifacts, SinceInit, SinceSed
<1>3. Machines
  BY DEF Machines, KeyfileFits, NoVMs, NoVM
<1>4. OneRun
  <2>1. 0 \in 0..MaxGen /\ {} \in SUBSET Gens
    BY MaxGenAssumption
  <2>2. \A v \in VMs : vm[v].state = "none"
    BY DEF NoVMs, NoVM
  <2> QED
    BY <2>1, <2>2 DEF OneRun
<1> QED
  BY <1>1, <1>2, <1>3, <1>4 DEF HostInv

\* What terraform may do to the machines and the network, working or not.
LEMMA ApplySteps ==
  ASSUME HostTypeOK, ApplyAll \/ ApplyPartly
  PROVE  /\ pc \in {"apply", "applyAgain"} /\ pc' \in {"sed", "bootstrapped"}
         /\ pc = "apply" => pc' = "sed"
         /\ pc = "applyAgain" => pc' = "bootstrapped"
         /\ UNCHANGED <<gen, files, subnet, backup, terraform, whole>>
         /\ net' \in [up : BOOLEAN, tracked : BOOLEAN, route : Routes \cup {"none"}]
         /\ vm' \in [VMs -> VMType]
         /\ net.up => net'.up
         /\ ~net'.up => vm' = vm
         /\ \A v \in VMs : \/ vm'[v] = vm[v]
                           \/ /\ vm[v].state # "done"
                              /\ vm'[v] = Copied(v, "done") \/ vm'[v] = Copied(v, "loose")
<1>1. /\ pc \in {"apply", "applyAgain"} /\ pc' \in {"sed", "bootstrapped"}
      /\ pc = "apply" => pc' = "sed"
      /\ pc = "applyAgain" => pc' = "bootstrapped"
      /\ UNCHANGED <<gen, files, subnet, backup, terraform, whole>>
  BY DEF ApplyAll, ApplyPartly, ApplyStep, Run
<1>2. PICK done \in SUBSET Todo, loose \in SUBSET Todo :
        /\ Provision(done, loose)
        /\ \/ UNCHANGED net /\ (done \cup loose # {} => net.up)
           \/ \E route \in {net.route, subnet} : net' = Applied(route)
  <2>1. CASE ApplyAll
    BY <2>1 DEF ApplyAll
  <2>2. CASE ApplyPartly
    <3>1. PICK done \in SUBSET Todo, loose \in SUBSET Todo :
            /\ Provision(done, loose \ done)
            /\ \/ UNCHANGED net /\ (done \cup loose # {} => net.up)
               \/ \E route \in {net.route, subnet} : net' = Applied(route)
      BY <2>2 DEF ApplyPartly
    <3>2. loose \ done \in SUBSET Todo
      OBVIOUS
    <3> QED
      BY <3>1, <3>2
  <2> QED
    BY <2>1, <2>2
<1>3. /\ net' \in [up : BOOLEAN, tracked : BOOLEAN, route : Routes \cup {"none"}]
      /\ net.up => net'.up
  <2>1. CASE UNCHANGED net
    BY <2>1 DEF HostTypeOK, TypeOK
  <2>2. CASE \E route \in {net.route, subnet} : net' = Applied(route)
    <3>1. PICK route \in Routes \cup {"none"} : net' = Applied(route)
      BY <2>2 DEF HostTypeOK, TypeOK
    <3> QED
      BY <3>1 DEF Applied
  <2> QED
    BY <1>2, <2>1, <2>2
<1>4. \A v \in VMs : vm'[v] = IF v \in done THEN Copied(v, "done")
                             ELSE IF v \in loose THEN Copied(v, "loose") ELSE vm[v]
  BY <1>2 DEF Provision
<1>5. \A v \in VMs : \/ vm'[v] = vm[v]
                    \/ /\ vm[v].state # "done"
                       /\ vm'[v] = Copied(v, "done") \/ vm'[v] = Copied(v, "loose")
  BY <1>2, <1>4 DEF Todo, InState
<1>6. \A v \in VMs : Copied(v, "done") \in VMType /\ Copied(v, "loose") \in VMType
  BY DEF Copied, VMType, HostTypeOK, TypeOK, Dirs, Artefacts
<1>7. vm' \in [VMs -> VMType]
  <2>1. \A v \in VMs : vm'[v] \in VMType
    BY <1>5, <1>6 DEF HostTypeOK, TypeOK, VMType
  <2>2. vm' = [v \in VMs |-> vm'[v]]
    BY <1>2, <1>4 DEF Provision
  <2> QED
    BY <2>1, <2>2
<1>8. ~net'.up => vm' = vm
  <2> SUFFICES ASSUME ~net'.up PROVE vm' = vm
    OBVIOUS
  <2>1. done = {} /\ loose = {}
    BY <1>2 DEF Applied
  <2>2. vm = [v \in VMs |-> vm[v]]
    BY DEF HostTypeOK, TypeOK
  <2> QED
    BY <1>2, <2>1, <2>2 DEF Provision
<1> QED
  BY <1>1, <1>3, <1>5, <1>7, <1>8

LEMMA DestroySteps ==
  ASSUME HostTypeOK, DestroyAll \/ DestroyPartly
  PROVE  /\ pc = "destroy" /\ pc' = "rmState"
         /\ UNCHANGED <<gen, files, subnet, backup, terraform, whole>>
         /\ net' \in [up : BOOLEAN, tracked : BOOLEAN, route : Routes \cup {"none"}]
         /\ vm' \in [VMs -> VMType]
         /\ net'.up = net.up \/ vm' = NoVMs
         /\ \A v \in VMs : \/ vm'[v] \in {NoVM, vm[v]}
                           \/ /\ vm[v].state = "done"
                              /\ vm'[v] = [vm[v] EXCEPT !.state = "loose"]
<1> vm \in [VMs -> VMType]
  BY DEF HostTypeOK, TypeOK, VMType
<1>1. /\ pc = "destroy" /\ pc' = "rmState"
      /\ UNCHANGED <<gen, files, subnet, backup, terraform, whole>>
      /\ net' \in [up : BOOLEAN, tracked : BOOLEAN, route : Routes \cup {"none"}]
  <2>1. Down \in [up : BOOLEAN, tracked : BOOLEAN, route : Routes \cup {"none"}]
    BY DEF Down
  <2>2. net' \in {net, Down}
    BY DEF DestroyAll, DestroyPartly, aws
  <2> QED
    BY <2>1, <2>2 DEF DestroyAll, DestroyPartly, Run, HostTypeOK, TypeOK
<1>2. CASE UNCHANGED <<vm, net>>
  BY <1>1, <1>2
<1>3. CASE vm' = NoVMs
  BY <1>1, <1>3, NoVMsTyped DEF NoVMs
<1>4. CASE /\ UNCHANGED net
           /\ \E gone \in SUBSET VMs, loose \in SUBSET VMs :
                vm' = [v \in VMs |-> IF v \in gone THEN NoVM
                                    ELSE IF v \in loose /\ vm[v].state = "done"
                                         THEN [vm[v] EXCEPT !.state = "loose"] ELSE vm[v]]
  <2>1. PICK gone \in SUBSET VMs, loose \in SUBSET VMs :
          vm' = [v \in VMs |-> IF v \in gone THEN NoVM
                              ELSE IF v \in loose /\ vm[v].state = "done"
                                   THEN [vm[v] EXCEPT !.state = "loose"] ELSE vm[v]]
    BY <1>4
  <2>2. \A v \in VMs : \/ vm'[v] \in {NoVM, vm[v]}
                      \/ /\ vm[v].state = "done"
                         /\ vm'[v] = [vm[v] EXCEPT !.state = "loose"]
    BY <2>1
  <2>3. \A v \in VMs : [vm[v] EXCEPT !.state = "loose"] \in VMType
    BY DEF VMType
  <2>4. \A v \in VMs : vm'[v] \in VMType
    BY <2>2, <2>3, NoVMsTyped
  <2> QED
    BY <1>1, <1>4, <2>1, <2>2, <2>4
<1> QED
  BY <1>2, <1>3, <1>4 DEF DestroyAll, DestroyPartly, aws

LEMMA HostTypePreserved == HostTypeOK /\ [Next]_vars => HostTypeOK'
<1> SUFFICES ASSUME HostTypeOK, [Next]_vars PROVE HostTypeOK'
  OBVIOUS
<1> USE DEF HostTypeOK, TypeOK, ToCryptogen, Run, Remove, Places, Rest, Dirs, Artefacts, Routes,
            files, aws, infra
<1>1. Cert(dir["crypto"]) \in 0..MaxGen
  BY CertInRange
<1>2. ASSUME Bootstrap \/ RemoveCrypto \/ WriteEnv \/ ReplaceRoute PROVE HostTypeOK'
  BY <1>2 DEF Bootstrap, StartsRun, RemoveCrypto, WriteEnv, ReplaceRoute, Tidy
<1>3. ASSUME NEW works \in BOOLEAN, Cryptogen(works) PROVE HostTypeOK'
  BY <1>3, MaxGenAssumption DEF Cryptogen, Gens
<1>4. ASSUME NEW works \in BOOLEAN, Copy(works) PROVE HostTypeOK'
  BY <1>4 DEF Copy
<1>5. ASSUME NEW works \in BOOLEAN, NEW f \in Artefacts, Make(f, works) PROVE HostTypeOK'
  <2>1. made' \in [Artefacts -> 0..MaxGen]
    <3>1. PICK c \in 0..MaxGen : made' = [made EXCEPT ![f] = c]
      <4> DEFINE c == IF works THEN Cert(dir["crypto"]) ELSE 0
      <4>1. c \in 0..MaxGen
        BY <1>1, MaxGenAssumption
      <4>2. made' = [made EXCEPT ![f] = c]
        BY <1>5 DEF Make
      <4> QED
        BY <4>1, <4>2
    <3> QED
      BY <3>1
  <2>2. Following(f) \in Places \ ToCryptogen
    BY DEF Following
  <2> QED
    BY <1>5, <2>1, <2>2 DEF Make
<1>6. ASSUME NEW works \in BOOLEAN, TerraformInit(works) PROVE HostTypeOK'
  BY <1>6 DEF TerraformInit
<1>7. ASSUME ApplyAll \/ ApplyPartly PROVE HostTypeOK'
  <2>1. tidy' \in BOOLEAN
    BY <1>7 DEF ApplyAll, ApplyPartly, ApplyStep
  <2> QED
    BY <1>7, <2>1, ApplySteps DEF VMType
<1>8. ASSUME DestroyAll \/ DestroyPartly PROVE HostTypeOK'
  <2>1. tidy' \in BOOLEAN
    BY <1>8 DEF DestroyAll, DestroyPartly
  <2> QED
    BY <1>8, <2>1, DestroySteps DEF VMType
<1>9. ASSUME Cleanup \/ RemoveLocal PROVE HostTypeOK'
  <2>1. dir' \in [Dirs -> SUBSET Gens] /\ made' \in [Artefacts -> 0..MaxGen]
    BY <1>9, MaxGenAssumption DEF Cleanup, RemoveLocal
  <2> QED
    BY <1>9, <2>1 DEF Cleanup, RemoveLocal
<1>10. ASSUME RemoveState \/ RemoveTerraform \/ RestoreSubnet \/ Kill PROVE HostTypeOK'
  BY <1>10 DEF RemoveState, RemoveTerraform, RestoreSubnet, Kill
<1>11. CASE UNCHANGED vars
  BY <1>11 DEF vars
<1> QED
  BY <1>2, <1>3, <1>4, <1>5, <1>6, <1>7, <1>8, <1>9, <1>10, <1>11 DEF Next, Undisturbed, Disturbed

LEMMA PreparedPreserved == HostTypeOK /\ Prepared /\ [Next]_vars => Prepared'
<1> SUFFICES ASSUME HostTypeOK, Prepared, [Next]_vars PROVE Prepared'
  OBVIOUS
<1> USE DEF Prepared, SinceCpCli, SinceGenesis, SinceChannelTx, SinceAnchorTx, SinceEnv,
            SinceArtifacts, SinceInit, SinceSed, Run, Remove, Rest, Dirs, Artefacts, files, aws, infra
<1>1. dir \in [Dirs -> SUBSET Gens] /\ made \in [Artefacts -> 0..MaxGen]
  BY DEF HostTypeOK, TypeOK
<1>2. ASSUME Bootstrap \/ RemoveCrypto \/ WriteEnv \/ ReplaceRoute PROVE Prepared'
  BY <1>1, <1>2 DEF Bootstrap, RemoveCrypto, WriteEnv, ReplaceRoute
<1>3. ASSUME NEW works \in BOOLEAN, Cryptogen(works) PROVE Prepared'
  BY <1>1, <1>3 DEF Cryptogen
<1>4. ASSUME NEW works \in BOOLEAN, Copy(works) PROVE Prepared'
  BY <1>1, <1>4 DEF Copy
<1>5. ASSUME NEW works \in BOOLEAN, NEW f \in Artefacts, Make(f, works) PROVE Prepared'
  BY <1>1, <1>5 DEF Make, Following
<1>6. ASSUME NEW works \in BOOLEAN,
             \/ TerraformInit(works) \/ ApplyAll \/ ApplyPartly \/ DestroyAll \/ DestroyPartly
      PROVE Prepared'
  BY <1>6 DEF TerraformInit, ApplyAll, ApplyPartly, ApplyStep, DestroyAll, DestroyPartly
<1>7. ASSUME Cleanup \/ RemoveState \/ RemoveTerraform \/ RestoreSubnet \/ RemoveLocal \/ Kill
      PROVE Prepared'
  BY <1>7 DEF Cleanup, RemoveState, RemoveTerraform, RestoreSubnet, RemoveLocal, Kill
<1>8. CASE UNCHANGED vars
  BY <1>8 DEF vars
<1> QED
  BY <1>2, <1>3, <1>4, <1>5, <1>6, <1>7, <1>8 DEF Next, Undisturbed, Disturbed

LEMMA TidyRunPreserved ==
  HostTypeOK /\ Prepared /\ Machines /\ TidyRun /\ [Next]_vars => TidyRun'
<1> SUFFICES ASSUME HostTypeOK, Prepared, Machines, TidyRun, [Next]_vars PROVE TidyRun'
  OBVIOUS
<1> USE DEF TidyRun, ToCryptogen, SinceCp, SinceCpCli, SinceGenesis, SinceChannelTx,
            SinceAnchorTx, SinceEnv, SinceArtifacts, SinceInit, SinceSed, Run, Remove, Rest, Dirs,
            Artefacts, files, aws, infra
<1>1. dir \in [Dirs -> SUBSET Gens] /\ made \in [Artefacts -> 0..MaxGen]
  BY DEF HostTypeOK, TypeOK
<1>2. ASSUME Bootstrap \/ RemoveCrypto PROVE TidyRun'
  BY <1>1, <1>2 DEF Bootstrap, StartsRun, RemoveCrypto, Tidy
<1>3. ASSUME WriteEnv \/ ReplaceRoute PROVE TidyRun'
  BY <1>1, <1>3 DEF WriteEnv, ReplaceRoute
<1>4. ASSUME NEW works \in BOOLEAN, Cryptogen(works) PROVE TidyRun'
  <2>1. dir["crypto"] = {} /\ works => dir'["crypto"] = {gen'}
    BY <1>1, <1>4 DEF Cryptogen
  <2>2. dir'["cli"] = dir["cli"] /\ dir'["resources"] = dir["resources"]
    BY <1>1, <1>4 DEF Cryptogen
  <2> QED
    BY <1>4, <2>1, <2>2 DEF Cryptogen
<1>5. ASSUME NEW works \in BOOLEAN, Copy(works) PROVE TidyRun'
  <2>1. CASE pc = "cpResources"
    <3>1. dir'["crypto"] = dir["crypto"] /\ dir'["cli"] = dir["cli"]
      BY <1>1, <1>5, <2>1 DEF Copy
    <3>2. works => dir'["resources"] = dir["resources"] \cup dir["crypto"]
      BY <1>1, <1>5, <2>1 DEF Copy
    <3>3. dir["resources"] = {}
      BY <2>1 DEF Prepared
    <3>4. pc' = "cpCli" /\ (tidy' => works /\ tidy) /\ UNCHANGED <<gen, subnet, net>>
      BY <1>5, <2>1 DEF Copy
    <3> QED
      BY <2>1, <3>1, <3>2, <3>3, <3>4
  <2>2. CASE pc = "cpCli"
    <3>1. dir'["crypto"] = dir["crypto"] /\ dir'["resources"] = dir["resources"]
      BY <1>1, <1>5, <2>2 DEF Copy
    <3>2. works => dir'["cli"] = dir["cli"] \cup dir["crypto"]
      BY <1>1, <1>5, <2>2 DEF Copy
    <3>3. pc' = "genesis" /\ (tidy' => works /\ tidy) /\ UNCHANGED <<gen, subnet, net>>
      BY <1>5, <2>2 DEF Copy
    <3> QED
      BY <2>2, <3>1, <3>2, <3>3
  <2> QED
    BY <1>5, <2>1, <2>2 DEF Copy
<1>6. ASSUME NEW works \in BOOLEAN, NEW f \in Artefacts, Make(f, works) PROVE TidyRun'
  <2>1. dir["crypto"] = {gen} => Cert(dir["crypto"]) = gen
    BY <1>1, CertOfOne
  <2> QED
    BY <1>1, <1>6, <2>1 DEF Make, Following
<1>7. ASSUME NEW works \in BOOLEAN, TerraformInit(works) PROVE TidyRun'
  BY <1>7 DEF TerraformInit
<1>8. ASSUME ApplyAll PROVE TidyRun'
  <2> SUFFICES ASSUME tidy PROVE TidyRun'
    BY <1>8 DEF ApplyAll, ApplyStep
  <2>1. CASE pc = "apply"
    <3>1. net' = Applied("public")
      BY <1>8, <2>1 DEF ApplyAll
    <3>2. vm = NoVMs
      BY <2>1 DEF Machines
    <3>3. Todo = VMs /\ \A v \in VMs : Copied(v, "done") = VMsOf(gen)[v]
      BY <2>1, <3>2, MaxGenAssumption DEF Todo, InState, Copied, VMsOf, NoVMs, NoVM, HostTypeOK, TypeOK
    <3>4. vm' = VMsOf(gen)
      BY <1>8, <3>3 DEF ApplyAll, Provision, VMsOf
    <3> QED
      BY <1>8, <2>1, <3>1, <3>4 DEF ApplyAll, ApplyStep
  <2>2. CASE pc = "applyAgain"
    <3>1. net' = Applied("private")
      BY <1>8, <2>2 DEF ApplyAll, ApplyStep
    <3>2. vm = VMsOf(gen)
      BY <2>2
    <3>3. Todo = {}
      BY <3>2 DEF Todo, InState, VMsOf
    <3>4. vm' = vm
      BY <1>8, <3>2, <3>3 DEF ApplyAll, Provision, VMsOf
    <3> QED
      BY <1>8, <2>2, <3>1, <3>2, <3>4 DEF ApplyAll, ApplyStep
  <2> QED
    BY <1>8, <2>1, <2>2 DEF ApplyAll, ApplyStep
<1>9. ASSUME ApplyPartly \/ DestroyAll \/ DestroyPartly PROVE TidyRun'
  BY <1>9 DEF ApplyPartly, ApplyStep, DestroyAll, DestroyPartly
<1>10. ASSUME Cleanup \/ RemoveState \/ RemoveTerraform \/ RestoreSubnet \/ RemoveLocal \/ Kill
      PROVE TidyRun'
  BY <1>10 DEF Cleanup, RemoveState, RemoveTerraform, RestoreSubnet, RemoveLocal, Kill
<1>11. CASE UNCHANGED vars
  BY <1>11 DEF vars
<1> QED
  BY <1>2, <1>3, <1>4, <1>5, <1>6, <1>7, <1>8, <1>9, <1>10, <1>11 DEF Next, Undisturbed, Disturbed

LEMMA MachinesPreserved == HostTypeOK /\ Prepared /\ Machines /\ [Next]_vars => Machines'
<1> SUFFICES ASSUME HostTypeOK, Prepared, Machines, [Next]_vars PROVE Machines'
  OBVIOUS
<1> USE DEF Dirs
<1>1. /\ dir \in [Dirs -> SUBSET Gens] /\ gen \in 0..MaxGen /\ vm \in [VMs -> VMType]
      /\ made["genesis"] \in 0..MaxGen /\ keyfile \in SUBSET Gens
  BY DEF HostTypeOK, TypeOK, VMType, Artefacts
<1>2. ASSUME UNCHANGED aws, UNCHANGED <<gen, dir>> PROVE Machines'
  BY <1>2 DEF Machines, aws, KeyfileFits
<1>3. ASSUME UNCHANGED aws, UNCHANGED gen, NEW d \in Dirs,
             dir' = [dir EXCEPT ![d] = {}] \/ (d # "crypto" /\ dir' = [dir EXCEPT ![d] = @ \cup dir["crypto"]])
      PROVE  Machines'
  <2>1. dir'["crypto"] \in {{}, dir["crypto"]} /\ \A e \in Dirs : dir'[e] \subseteq 1..gen
    BY <1>1, <1>3 DEF Machines
  <2> QED
    BY <1>3, <2>1 DEF Machines, aws, KeyfileFits
<1>4. ASSUME NEW works \in BOOLEAN, Cryptogen(works) PROVE Machines'
  <2>1. CASE ~works
    BY <1>2, <1>4, <2>1 DEF Cryptogen, infra
  <2>2. CASE works
    <3>1. /\ UNCHANGED aws /\ gen' = gen + 1 /\ gen + 1 \in Gens
          /\ dir'["crypto"] = dir["crypto"] \cup {gen + 1}
          /\ \A d \in Dirs \ {"crypto"} : dir'[d] = dir[d]
      BY <1>1, <1>4, <2>2, MaxGenAssumption
         DEF Cryptogen, infra, Run, HostTypeOK, ToCryptogen, Gens
    <3>2. \A g \in 1..gen : g \in 1..gen' /\ g <= gen + 1
      BY <1>1, <3>1
    <3>3. Cert({gen + 1}) = gen + 1
      BY <3>1, CertOfOne
    <3>4. Cert(dir'["crypto"]) = gen + 1
      <4>1. \A g \in dir["crypto"] : g <= Cert({gen + 1})
        BY <3>2, <3>3 DEF Machines
      <4>2. dir["crypto"] \in SUBSET Gens /\ {gen + 1} \in SUBSET Gens /\ {gen + 1} # {}
        BY <1>1, <3>1
      <4>3. Cert(dir["crypto"] \cup {gen + 1}) = Cert({gen + 1})
        BY ONLY <4>1, <4>2, CertOfUnion
      <4> QED
        BY <3>1, <3>3, <4>3
    <3>5. gen + 1 \in 1..gen'
      BY <1>1, <3>1
    <3>6. \A d \in Dirs : dir'[d] \subseteq 1..gen'
      BY <3>1, <3>2, <3>5 DEF Machines
    <3> QED
      BY <3>1, <3>2, <3>4, <3>6 DEF Machines, aws, KeyfileFits
  <2> QED
    BY <2>1, <2>2
<1>5. ASSUME NEW works \in BOOLEAN, Copy(works) PROVE Machines'
  BY <1>2, <1>3, <1>5 DEF Copy, infra
<1>6. ASSUME RemoveCrypto \/ Cleanup \/ RemoveLocal PROVE Machines'
  BY <1>3, <1>6 DEF RemoveCrypto, Cleanup, RemoveLocal, Remove, infra
<1>7. ASSUME ApplyAll \/ ApplyPartly PROVE Machines'
  <2> USE <1>7, ApplySteps
  <2>1. UNCHANGED <<gen, dir>>
    BY DEF files
  <2>2. dir["resources"] \in {{}, dir["crypto"]} /\ keyfile = dir["resources"]
    BY DEF Prepared, SinceCpCli, SinceGenesis, SinceChannelTx, SinceAnchorTx, SinceEnv,
           SinceArtifacts, SinceInit, SinceSed
  <2>3. ASSUME NEW v \in VMs
        PROVE  /\ vm'[v].state = "none" => vm'[v] = NoVM
               /\ vm'[v].crypto \subseteq 1..gen
               /\ dir["crypto"] # {} => \A g \in vm'[v].crypto : g <= Cert(dir["crypto"])
               /\ KeyfileFits(v)'
    <3>1. CASE vm'[v] = vm[v]
      BY <3>1 DEF Machines, KeyfileFits
    <3>2. CASE vm'[v] = Copied(v, "done") \/ vm'[v] = Copied(v, "loose")
      <4>1. /\ vm'[v].state # "none" /\ vm'[v].keyfile = keyfile
            /\ vm'[v].crypto = vm[v].crypto \cup dir["resources"]
        BY <3>2 DEF Copied
      <4>2. CASE dir["resources"] = {}
        BY <2>2, <4>1, <4>2 DEF Machines, KeyfileFits
      <4>3. CASE dir["resources"] = dir["crypto"] /\ dir["crypto"] # {}
        <5>1. vm[v].crypto \in SUBSET Gens /\ \A g \in vm[v].crypto : g <= Cert(dir["crypto"])
          BY <1>1, <4>3 DEF Machines, VMType
        <5>2. /\ Cert(vm'[v].crypto) = Cert(dir["crypto"]) /\ Cert(dir["crypto"]) \in dir["crypto"]
              /\ \A g \in vm'[v].crypto : g <= Cert(dir["crypto"])
          <6>1. dir["crypto"] \in SUBSET Gens
            BY <1>1
          <6>2. vm'[v].crypto = vm[v].crypto \cup dir["crypto"]
            BY <4>1, <4>3
          <6>3. dir["crypto"] # {}
            BY <4>3
          <6> QED
            BY ONLY <5>1, <6>1, <6>2, <6>3, CertOfUnion
        <5> QED
          BY <2>2, <4>1, <4>3, <5>2 DEF Machines, KeyfileFits
      <4> QED
        BY <2>2, <4>2, <4>3
    <3> QED
      BY <3>1, <3>2
  <2>4. ~net'.up => vm' = NoVMs
    BY DEF Machines
  <2> QED
    BY <2>1, <2>3, <2>4 DEF Machines
<1>8. ASSUME DestroyAll \/ DestroyPartly PROVE Machines'
  <2> USE <1>8, DestroySteps
  <2>1. UNCHANGED <<gen, dir>>
    BY DEF files
  <2>2. ASSUME NEW v \in VMs
        PROVE  /\ vm'[v].state = "none" => vm'[v] = NoVM
               /\ vm'[v].crypto \subseteq 1..gen
               /\ dir["crypto"] # {} => \A g \in vm'[v].crypto : g <= Cert(dir["crypto"])
               /\ KeyfileFits(v)'
    <3>1. CASE vm'[v] = vm[v]
      BY <3>1 DEF Machines, KeyfileFits
    <3>2. CASE vm'[v] = NoVM
      BY <3>2 DEF NoVM, KeyfileFits
    <3>3. CASE vm'[v] = [vm[v] EXCEPT !.state = "loose"]
      <4>1. vm'[v].state = "loose" /\ vm'[v].crypto = vm[v].crypto
        BY <1>1, <3>3 DEF VMType
      <4> QED
        BY <4>1 DEF Machines, KeyfileFits
    <3> QED
      BY <3>1, <3>2, <3>3
  <2>3. ~net'.up => vm' = NoVMs
    <3>1. CASE vm' = NoVMs
      BY <3>1
    <3>2. CASE net'.up = net.up /\ vm' # NoVMs
      <4>1. CASE net.up
        BY <3>2, <4>1
      <4>2. CASE ~net.up
        <5>1. vm = NoVMs /\ \A v \in VMs : vm[v] = NoVM
          BY <4>2 DEF Machines, NoVMs
        <5>2. vm' \in [VMs -> VMType] /\ \A v \in VMs : vm'[v] = NoVM
          <6>1. NoVM.state # "done"
            BY DEF NoVM
          <6> QED
            BY <5>1, <6>1, Zenon
        <5>3. vm' = NoVMs
          BY <5>2, Zenon DEF NoVMs
        <5> QED
          BY <3>2, <5>3
      <4> QED
        BY <4>1, <4>2
    <3> QED
      BY <3>1, <3>2
  <2> QED
    BY <2>1, <2>2, <2>3 DEF Machines
<1>9. ASSUME RemoveState PROVE Machines'
  <2>1. net'.up = net.up /\ UNCHANGED <<gen, dir, vm>>
    BY <1>9 DEF RemoveState, files, HostTypeOK, TypeOK
  <2> QED
    BY <2>1 DEF Machines, KeyfileFits
<1>10. ASSUME NEW works \in BOOLEAN,
              \/ Bootstrap \/ WriteEnv \/ TerraformInit(works) \/ ReplaceRoute
              \/ RemoveTerraform \/ RestoreSubnet \/ Kill \/ UNCHANGED vars
       PROVE  Machines'
  BY <1>2, <1>10 DEF Bootstrap, WriteEnv, TerraformInit, ReplaceRoute, RemoveTerraform,
                     RestoreSubnet, Kill, vars, infra, files, aws
<1>11. ASSUME NEW works \in BOOLEAN, NEW f \in Artefacts, Make(f, works) PROVE Machines'
  BY <1>2, <1>11 DEF Make, infra
<1> QED
  BY <1>4, <1>5, <1>6, <1>7, <1>8, <1>9, <1>10, <1>11 DEF Next, Undisturbed, Disturbed

LEMMA OneRunPreserved ==
  HostTypeOK /\ Prepared /\ Machines /\ OneRun /\ [Next]_vars => OneRun'
<1> SUFFICES ASSUME HostTypeOK, Prepared, Machines, OneRun, [Next]_vars, whole' PROVE OneRun'
  BY DEF OneRun
<1> USE DEF ToCryptogen, SinceCp, SinceCpCli, SinceGenesis, SinceChannelTx, SinceAnchorTx, SinceEnv,
            SinceArtifacts, SinceInit, SinceSed, Rest
<1>1. vm \in [VMs -> VMType] /\ made["genesis"] \in 0..MaxGen /\ dir["resources"] \in SUBSET Gens
  BY DEF HostTypeOK, TypeOK, VMType, Artefacts, Dirs
<1>2. \A v \in VMs : vm[v].state = "none" => vm[v].crypto = {} /\ vm[v].genesis = 0
  BY DEF Machines, NoVM
<1>3. ASSUME Bootstrap PROVE OneRun'
  <2>1. UNCHANGED vm /\ pc' \notin SinceSed
    BY <1>3 DEF Bootstrap, infra, aws
  <2>2. CASE InState("none") = VMs
    <3>1. \A v \in VMs : vm[v].state = "none"
      BY <2>2 DEF InState
    <3>2. {} \in SUBSET Gens /\ 0 \in 0..MaxGen
      BY MaxGenAssumption
    <3> QED
      BY <2>1, <3>1, <3>2 DEF OneRun
  <2>3. CASE whole /\ InState("done") = VMs
    <3>1. \A v \in VMs : vm[v].state = "done"
      BY <2>3 DEF InState
    <3> QED
      BY <2>1, <2>3, <3>1 DEF OneRun, Has
  <2> QED
    BY <1>3, <2>2, <2>3 DEF Bootstrap, StartsRun
<1>4. ASSUME ApplyAll \/ ApplyPartly PROVE OneRun'
  <2> USE <1>4, ApplySteps
  <2>1. whole /\ UNCHANGED <<dir, made>>
    BY DEF files
  <2>2. dir["resources"] # {} /\ made["genesis"] # 0 => made["genesis"] = Cert(dir["resources"])
    BY DEF Prepared
  <2>3. CASE \A v \in VMs : vm[v].state = "done"
    <3>1. \A v \in VMs : vm'[v] = vm[v]
      BY <2>3
    <3> QED
      BY <2>1, <2>3, <3>1 DEF OneRun, Has
  <2>4. CASE \A v \in VMs : vm[v].state # "none" => Has(v, dir["resources"], made["genesis"])
    <3>1. \A v \in VMs : vm'[v].state # "none" => Has(v, dir["resources"], made["genesis"])'
      <4> SUFFICES ASSUME NEW v \in VMs, vm'[v].state # "none"
                   PROVE  Has(v, dir["resources"], made["genesis"])'
        OBVIOUS
      <4>1. CASE vm'[v] = vm[v]
        BY <2>1, <2>4, <4>1 DEF Has
      <4>2. CASE vm'[v] = Copied(v, "done") \/ vm'[v] = Copied(v, "loose")
        <5>1. /\ vm'[v].crypto = vm[v].crypto \cup dir["resources"]
              /\ vm'[v].genesis = IF made["genesis"] # 0 THEN made["genesis"] ELSE vm[v].genesis
          BY <4>2 DEF Copied
        <5>2. vm[v].crypto \in {{}, dir["resources"]} /\ vm[v].genesis \in {0, made["genesis"]}
          BY <1>2, <2>4 DEF Has
        <5> QED
          BY <2>1, <5>1, <5>2 DEF Has
      <4> QED
        BY <4>1, <4>2
    <3> QED
      BY <1>1, <2>1, <2>2, <3>1 DEF OneRun
  <2> QED
    BY <2>1, <2>3, <2>4 DEF OneRun
<1>5. ASSUME DestroyAll \/ DestroyPartly PROVE OneRun'
  <2> USE <1>5, DestroySteps
  <2>1. ASSUME NEW v \in VMs, vm'[v].state # "none"
        PROVE  vm[v].state # "none" /\ vm'[v].crypto = vm[v].crypto /\ vm'[v].genesis = vm[v].genesis
    <3>1. CASE vm'[v] \in {NoVM, vm[v]}
      BY <2>1, <3>1 DEF NoVM
    <3>2. CASE vm[v].state = "done" /\ vm'[v] = [vm[v] EXCEPT !.state = "loose"]
      BY <1>1, <3>2 DEF VMType
    <3> QED
      BY <3>1, <3>2
  <2>2. PICK c \in SUBSET Gens, g \in 0..MaxGen :
          /\ c # {} /\ g # 0 => g = Cert(c)
          /\ \A v \in VMs : vm[v].state # "none" => Has(v, c, g)
    BY DEF OneRun
  <2>3. \A v \in VMs : vm'[v].state # "none" => Has(v, c, g)'
    BY <2>1, <2>2 DEF Has
  <2> QED
    BY <2>2, <2>3 DEF OneRun
<1>6. ASSUME UNCHANGED <<vm, whole>>, pc' \notin ToCryptogen \cup (SinceCp \ {"bootstrapped"})
      PROVE  OneRun'
  BY <1>6 DEF OneRun, Has
<1>7. ASSUME UNCHANGED <<vm, whole>>, pc \in ToCryptogen \cup (SinceCp \ {"bootstrapped"}),
             pc \in SinceSed => UNCHANGED <<dir, made>> /\ pc' \in SinceSed
      PROVE  OneRun'
  BY <1>7 DEF OneRun, Has
<1>8. ASSUME NEW works \in BOOLEAN,
             \/ RemoveCrypto \/ Cryptogen(works) \/ Copy(works) \/ WriteEnv
             \/ TerraformInit(works) \/ ReplaceRoute
      PROVE  OneRun'
  BY <1>7, <1>8 DEF RemoveCrypto, Cryptogen, Copy, WriteEnv, TerraformInit, ReplaceRoute, Run,
                    infra, aws, files
<1>11. ASSUME NEW works \in BOOLEAN, NEW f \in Artefacts, Make(f, works) PROVE OneRun'
  BY <1>7, <1>11 DEF Make, Run, infra, aws, Artefacts
<1>9. ASSUME Cleanup \/ RemoveState \/ RemoveTerraform \/ RestoreSubnet \/ RemoveLocal \/ Kill
      PROVE  OneRun'
  BY <1>6, <1>9 DEF Cleanup, RemoveState, RemoveTerraform, RestoreSubnet, RemoveLocal, Kill, Run,
                    infra, aws
<1>10. CASE UNCHANGED vars
  BY <1>10 DEF OneRun, Has, vars, infra, aws, files
<1> QED
  BY <1>3, <1>4, <1>5, <1>8, <1>9, <1>10, <1>11 DEF Next, Undisturbed, Disturbed

LEMMA HostInvPreserved == HostInv /\ [Next]_vars => HostInv'
  BY HostTypePreserved, PreparedPreserved, MachinesPreserved, OneRunPreserved, TidyRunPreserved
     DEF HostInv

LEMMA HostInductive == Spec => []HostInv
  BY HostInitEstablishes, HostInvPreserved, PTL DEF Spec

\* The state of the scripts, their files and the network keeps its type.
THEOREM HostTypeCorrect == Spec => []TypeOK
<1>1. HostInv => TypeOK
  BY DEF HostInv, HostTypeOK
<1> QED
  BY HostInductive, <1>1, PTL

\* Machines that are all of one run of bootstrap.sh have one generation of
\* certificates, and the orderer's genesis block was made of it, though vm0 and
\* vm1 may have been provisioned by different commands of that run, and
\* whatever else failed in it or was left behind (bootstrap.sh, lines 67-83
\* and 156-159, ec2-private-fabric.tf, lines 29-92).
THEOREM OneNetworkAlways == Spec => []OneNetwork
<1>1. HostInv => OneNetwork
  <2> SUFFICES ASSUME HostInv, whole, InState("done") = VMs, NEW v \in VMs,
                      vm["vm1"].genesis # 0, vm[v].crypto # {}
               PROVE  vm["vm1"].genesis = Cert(vm[v].crypto)
    BY DEF OneNetwork
  <2>1. vm["vm1"].state # "none" /\ vm[v].state # "none"
    BY DEF InState, VMs
  <2> QED
    BY <2>1 DEF HostInv, OneRun, Has, VMs
<1> QED
  BY HostInductive, <1>1, PTL

\* Whatever failed, was killed or was run twice, the .env of the machine with
\* the CA names keys that lie there, the one of its certificate among them
\* (bootstrap.sh, lines 67-74, 109-120 and 156-159).
THEOREM KeyfileAlwaysNamesKey == Spec => []KeyfileNamesKey
<1>1. HostInv => KeyfileNamesKey
  BY DEF HostInv, Machines, KeyfileFits, KeyfileNamesKey, VMs
<1> QED
  BY HostInductive, <1>1, PTL

\* A bootstrap that starts tidy and in which nothing fails ends with one
\* generation everywhere and the private subnet private (bootstrap.sh, lines
\* 67-161), however the scripts were killed and rerun before it.
THEOREM TidyBootstrapEnds == Spec => []TidyBootstrap
<1>1. HostInv => TidyBootstrap
  <2> SUFFICES ASSUME HostInv, pc = "bootstrapped", tidy PROVE TidyBootstrap
    BY DEF TidyBootstrap
  <2> QED
    BY DEF HostInv, TidyRun, TidyBootstrap, VMsOf, SinceCp, SinceCpCli, SinceGenesis,
           SinceChannelTx, SinceAnchorTx, SinceEnv, SinceArtifacts, SinceInit, Artefacts
<1> QED
  BY HostInductive, <1>1, PTL

-----------------------------------------------------------------------------
\* AddOrg3.  Its steps are steps of the scripts of the host, or leave the
\* host's network alone.
LEMMA JointStepIsHostStep == [JointNext]_joint => [Next]_vars
<1> SUFFICES ASSUME [JointNext]_joint PROVE [Next]_vars
  OBVIOUS
<1>1. CASE HostScript
  BY <1>1 DEF HostScript, Next
<1>2. CASE UNCHANGED vars
  BY <1>2
<1>3. UNCHANGED vars \/ HostScript
  BY DEF JointNext, joint, StartHost, KillHost, Host, CreateChannel, JoinHost, Install, Deploy,
         FetchConfig, UpdateConfig, PassToOrg3, PassToHost, StartOrg3, Org, RemoveCrypto3, Cleanup3,
         KillOrg3, Cryptogen3, Copy3, PrintOrg, Apply3, FetchFirst, JoinOrg3, InstallOrg3,
         QueryOrg3, Deliver
<1> QED
  BY <1>1, <1>2, <1>3

\* What the blocks of a channel have changed since its first one.
Changes(b) == (IF b.org3 = 0 THEN 0 ELSE 1)
                + (IF b.version = "none" THEN 0 ELSE IF b.version = "1.0" THEN 1 ELSE 2)

\* A channel starts empty, and every later block adds org3 or deploys the
\* next version.
ChainShape ==
  chain # <<>> => chain[1] = NoBlock /\ \A h \in 1..Len(chain) : Changes(chain[h]) = h - 1

\* The types, with the run of cryptogen that add-org3's bootstrap.sh has left.
JointTyped ==
  /\ HostTypeOK /\ JointTypeOK /\ ChainShape
  /\ task3 \in {"rmResources", "rmCli", "cryptogen"} => gen3 < MaxOrg3

\* What org3 has of the channel, as long as the channel is there.
Follows ==
  /\ dir3.block = "live" => chain # <<>>
  /\ ~org3.up => org3.ledger = "none"
  /\ org3.ledger # "none" => org3.crypto # 0
  /\ org3.ledger = "live" =>
       /\ chain # <<>> /\ org3.height \in 1..Len(chain) /\ org3.view = chain[org3.height]
       /\ org3.height > 1 => Tip.org3 = org3.crypto

\* Where add-org3.sh is, if nothing has failed from outside.
CalmRun ==
  calm /\ HostConnects /\ chain # <<>> =>
    /\ task = "update" => tools.fetched = Tip.org3
    /\ task \in {"install11", "upgrade", "added"} /\ tools.artifact > 0 => Tip.org3 # 0
    /\ task = "upgrade" => "1.1" \in peer.installed
    /\ task = "added" /\ peer.joined /\ Tip.version # "none" => Tip.version = "1.1"

\* What the query of join-channel.sh shows, until the next script of org3.
Answers ==
  /\ org3.ledger = "stale" => org3.view = NoBlock
  /\ answer # NoBlock =>
       /\ task3 = "joined" /\ org3.ledger # "stale"
       /\ answer.version = "1.1" /\ answer.org3 # 0
       /\ org3.ledger = "live" => \E h \in 1..Len(chain) : answer = chain[h]

JointInv == JointTyped /\ Follows /\ CalmRun /\ Answers

-----------------------------------------------------------------------------
\* The channel.

LEMMA TipIsBlock ==
  ASSUME chain \in Seq(Blocks), chain # <<>>
  PROVE  Len(chain) \in 1..Len(chain) /\ Tip \in Blocks
  BY DEF Tip

LEMMA NoBlockIsBlock == NoBlock \in Blocks
  BY MaxOrg3Assumption DEF NoBlock, Blocks, Gens3

LEMMA ChangesBound ==
  ASSUME NEW b \in Blocks
  PROVE  Changes(b) \in 0..3
  BY DEF Changes, Blocks

LEMMA TipHasAll ==
  ASSUME chain \in Seq(Blocks), ChainShape
  PROVE  chain # <<>> => /\ Tip \in Blocks /\ Len(chain) = 1 + Changes(Tip)
                        /\ Changes(Tip) \in 0..3
<1> SUFFICES ASSUME chain # <<>>
             PROVE  Tip \in Blocks /\ Len(chain) = 1 + Changes(Tip) /\ Changes(Tip) \in 0..3
  OBVIOUS
<1>1. Tip \in Blocks /\ Len(chain) \in 1..Len(chain)
  BY TipIsBlock
<1>2. Changes(Tip) = Len(chain) - 1
  BY <1>1 DEF ChainShape, Tip
<1>3. Changes(Tip) \in 0..3
  BY <1>1, ChangesBound
<1> QED
  BY <1>1, <1>2, <1>3

\* What the commands of the host do to the channel.
Grows ==
  \/ chain' = chain
  \/ chain = <<>> /\ chain' = <<NoBlock>>
  \/ /\ chain # <<>>
     /\ \E b \in Blocks :
          /\ chain' = Append(chain, b)
          /\ Tip.org3 # 0 => b.org3 = Tip.org3
          /\ Changes(b) = Changes(Tip) + 1

LEMMA GrowsFacts ==
  ASSUME chain \in Seq(Blocks), ChainShape, Grows
  PROVE  /\ chain' \in Seq(Blocks) /\ ChainShape'
         /\ Len(chain) <= Len(chain') /\ Len(chain') <= 4
         /\ \A h \in 1..Len(chain) : chain'[h] = chain[h]
         /\ chain # <<>> => chain' # <<>>
         /\ chain # <<>> /\ Tip.org3 # 0 => Tip'.org3 = Tip.org3
<1>1. CASE chain' = chain
  <2>1. Tip' = Tip
    BY <1>1 DEF Tip
  <2>2. Len(chain) <= 4
    BY TipHasAll, ChangesBound
  <2> QED
    BY <1>1, <2>1, <2>2 DEF ChainShape
<1>2. CASE chain = <<>> /\ chain' = <<NoBlock>>
  <2>1. Tip' = NoBlock /\ Changes(NoBlock) = 0 /\ Len(chain') = 1 /\ chain'[1] = NoBlock
    BY <1>2 DEF Tip, NoBlock, Changes
  <2>2. ChainShape'
    <3>1. \A h \in 1..1 : h = 1
      OBVIOUS
    <3> QED
      BY <2>1, <3>1 DEF ChainShape
  <2> QED
    BY <1>2, <2>1, <2>2, NoBlockIsBlock
<1>3. CASE /\ chain # <<>>
           /\ \E b \in Blocks :
                /\ chain' = Append(chain, b)
                /\ Tip.org3 # 0 => b.org3 = Tip.org3
                /\ Changes(b) = Changes(Tip) + 1
  <2>1. PICK b \in Blocks :
          /\ chain' = Append(chain, b)
          /\ Tip.org3 # 0 => b.org3 = Tip.org3
          /\ Changes(b) = Changes(Tip) + 1
    BY <1>3
  <2>2. /\ chain' \in Seq(Blocks) /\ Len(chain') = Len(chain) + 1 /\ chain' # <<>>
        /\ \A h \in 1..Len(chain) : chain'[h] = chain[h]
        /\ chain'[Len(chain) + 1] = b
    BY <2>1
  <2>3. Tip' = b
    BY <2>2 DEF Tip
  <2>4. Len(chain) = 1 + Changes(Tip) /\ Changes(Tip) \in Nat /\ Changes(b) \in 0..3 /\ chain[1] = NoBlock
    BY <1>3, TipHasAll, ChangesBound DEF ChainShape
  <2>5. ChainShape'
    <3>1. chain'[1] = NoBlock
      BY <1>3, <2>2, <2>4, TipIsBlock
    <3>2. ASSUME NEW h \in 1..Len(chain') PROVE Changes(chain'[h]) = h - 1
      <4>1. CASE h \in 1..Len(chain)
        BY <1>3, <2>2, <4>1 DEF ChainShape
      <4>2. CASE h = Len(chain) + 1
        BY <2>1, <2>2, <2>4, <4>2
      <4> QED
        BY <2>2, <4>1, <4>2
    <3> QED
      BY <3>1, <3>2 DEF ChainShape, Changes
  <2>6. Len(chain') <= 4
    BY <2>1, <2>2, <2>4
  <2> QED
    BY <1>3, <2>1, <2>2, <2>3, <2>5, <2>6
<1> QED
  BY <1>1, <1>2, <1>3 DEF Grows

LEMMA CommandsGrow ==
  ASSUME JointTyped, NEW outside \in BOOLEAN, NEW version \in {"1.0", "1.1"},
         \/ CreateChannel(outside) \/ Deploy(version, outside) \/ UpdateConfig(outside)
  PROVE  Grows
<1>1. CASE CreateChannel(outside)
  <2>1. CASE chain' = chain
    BY <2>1 DEF Grows
  <2>2. CASE chain = <<>> /\ chain' = Append(chain, NoBlock)
    <3>1. chain' = <<NoBlock>>
      BY <2>2
    <3> QED
      BY <2>2, <3>1 DEF Grows
  <2> QED
    BY <1>1, <2>1, <2>2 DEF CreateChannel, Append3
<1>2. CASE Deploy(version, outside)
  <2>1. CASE chain' = chain
    BY <2>1 DEF Grows
  <2>2. CASE Deployable(version) /\ chain' = Append(chain, [Tip EXCEPT !.version = version])
    <3>1. chain # <<>> /\ Tip \in Blocks /\ Tip.version = (IF version = "1.0" THEN "none" ELSE "1.0")
      BY <2>2, TipIsBlock DEF JointTyped, JointTypeOK, Deployable
    <3> DEFINE b == [Tip EXCEPT !.version = version]
    <3>2. b \in Blocks /\ b.org3 = Tip.org3 /\ b.version = version
      BY <3>1 DEF Blocks
    <3>3. Changes(b) = Changes(Tip) + 1
      BY <3>1, <3>2 DEF Changes
    <3> QED
      BY <2>2, <3>1, <3>2, <3>3 DEF Grows
  <2> QED
    BY <1>2, <2>1, <2>2 DEF Deploy, Append3
<1>3. CASE UpdateConfig(outside)
  <2>1. CASE chain' = chain
    BY <2>1 DEF Grows
  <2>2. CASE /\ chain # <<>> /\ tools.artifact > 0 /\ Tip.org3 = 0
             /\ chain' = Append(chain, [Tip EXCEPT !.org3 = tools.artifact])
    <3>1. Tip \in Blocks /\ tools.artifact \in Gens3 \ {0}
      BY <2>2, TipIsBlock, MaxOrg3Assumption DEF JointTyped, JointTypeOK, Absent, Gens3
    <3> DEFINE b == [Tip EXCEPT !.org3 = tools.artifact]
    <3>2. b \in Blocks /\ b.org3 = tools.artifact /\ b.version = Tip.version
      BY <3>1 DEF Blocks
    <3>3. Changes(b) = Changes(Tip) + 1
      BY <2>2, <3>1, <3>2 DEF Changes, Blocks
    <3> QED
      BY <2>2, <3>1, <3>2, <3>3 DEF Grows
  <2> QED
    BY <1>3, <2>1, <2>2 DEF UpdateConfig, Append3
<1> QED
  BY <1>1, <1>2, <1>3

-----------------------------------------------------------------------------
\* Types, one part for each organisation.
HostCliTyped ==
  /\ peer \in [joined : BOOLEAN, installed : SUBSET {"1.0", "1.1"}]
  /\ tools \in [artifact : Gens3 \cup {Absent}, fetched : Gens3 \cup {Absent}]
  /\ task \in HostPlaces /\ calm \in BOOLEAN

OrgTyped ==
  /\ gen3 \in Gens3
  /\ dir3 \in [input : 0..MaxGen, resources : Gens3, cli : Gens3, cert : 0..MaxGen,
               artifact : Gens3 \cup {Absent}, block : {"none", "live", "old"}]
  /\ org3 \in [up : BOOLEAN, crypto : Gens3, ledger : {"none", "live", "old", "stale"}, height : 0..4,
               view : Blocks, installed : BOOLEAN]
  /\ task3 \in OrgPlaces
  /\ answer \in Blocks
  /\ task3 \in {"rmResources", "rmCli", "cryptogen"} => gen3 < MaxOrg3

LEMMA JointTypedParts ==
  JointTyped <=> /\ HostTypeOK /\ ChainShape /\ HostCliTyped /\ OrgTyped
                 /\ chain \in Seq(Blocks) /\ Len(chain) <= 4
                 /\ faults \in 0..MaxFaults
  BY DEF JointTyped, JointTypeOK, HostTypeOK, HostCliTyped, OrgTyped

LEMMA FaultTyped ==
  ASSUME NEW happens, faults \in 0..MaxFaults, Fault(happens)
  PROVE  faults' \in 0..MaxFaults
  BY MaxFaultsAssumption DEF Fault

LEMMA NoOrg3Typed ==
  NoOrg3 \in [up : BOOLEAN, crypto : Gens3, ledger : {"none", "live", "old", "stale"}, height : 0..4,
              view : Blocks, installed : BOOLEAN]
<1>1. 0 \in Gens3 /\ 0 \in 0..4
  BY MaxOrg3Assumption DEF Gens3
<1> QED
  BY <1>1, NoBlockIsBlock DEF NoOrg3

LEMMA JointInitTyped == JointInit => JointTyped
<1> SUFFICES ASSUME JointInit PROVE JointTyped
  OBVIOUS
<1>1. HostTypeOK
  BY HostInitEstablishes DEF JointInit, HostInv
<1>2. chain \in Seq(Blocks) /\ Len(chain) <= 4 /\ ChainShape
  BY MaxOrg3Assumption DEF JointInit, ChainShape
<1>3. HostCliTyped
  BY DEF JointInit, HostCliTyped, NoPeer, NoTools, HostPlaces, HostRest
<1>4. OrgTyped
  <2>1. 0 \in Gens3 /\ 0 \in 0..MaxGen
    BY MaxOrg3Assumption, MaxGenAssumption DEF Gens3
  <2>2. dir3 \in [input : 0..MaxGen, resources : Gens3, cli : Gens3, cert : 0..MaxGen,
                  artifact : Gens3 \cup {Absent}, block : {"none", "live", "old"}]
    BY <2>1 DEF JointInit
  <2> QED
    BY <2>1, <2>2, NoOrg3Typed, NoBlockIsBlock DEF JointInit, OrgTyped, OrgPlaces, OrgRest
<1>5. faults \in 0..MaxFaults
  BY MaxFaultsAssumption DEF JointInit
<1> QED
  BY <1>1, <1>2, <1>3, <1>4, <1>5, JointTypedParts

\* The commands in the cli container of the host.
LEMMA HostCommandTyped ==
  ASSUME JointTyped, NEW outside \in BOOLEAN, NEW version \in {"1.0", "1.1"},
         \/ CreateChannel(outside) \/ JoinHost(outside) \/ Install(version, outside)
         \/ Deploy(version, outside) \/ FetchConfig(outside) \/ UpdateConfig(outside)
  PROVE  HostCliTyped' /\ faults' \in 0..MaxFaults /\ Grows /\ UNCHANGED <<vars, orgCli>>
<1> USE JointTypedParts
<1>1. Grows
  BY CommandsGrow DEF Grows, JoinHost, Install, FetchConfig
<1>2. PICK s, t : Host(s, t, outside) /\ t \in HostPlaces
  BY DEF CreateChannel, JoinHost, Install, Deploy, FetchConfig, UpdateConfig, HostPlaces, HostRest
<1>3. task' \in HostPlaces /\ calm' \in BOOLEAN /\ faults' \in 0..MaxFaults /\ UNCHANGED <<vars, orgCli>>
  BY <1>2, FaultTyped DEF Host, HostCliTyped
<1>4. peer' \in [joined : BOOLEAN, installed : SUBSET {"1.0", "1.1"}]
  <2>1. CASE UNCHANGED peer
    BY <2>1 DEF HostCliTyped
  <2>2. CASE JoinHost(outside)
    <3> DEFINE j == peer.joined \/ (outside /\ HostConnects /\ chain # <<>>)
    <3>1. peer' = [peer EXCEPT !.joined = j] /\ j \in BOOLEAN
      BY <2>2 DEF JoinHost
    <3> QED
      BY <3>1 DEF HostCliTyped
  <2>3. CASE Install(version, outside)
    <3> DEFINE i == IF outside /\ HostConnects THEN peer.installed \cup {version} ELSE peer.installed
    <3>1. peer' = [peer EXCEPT !.installed = i] /\ i \in SUBSET {"1.0", "1.1"}
      BY <2>3 DEF Install, HostCliTyped
    <3> QED
      BY <3>1 DEF HostCliTyped
  <2> QED
    BY <2>1, <2>2, <2>3 DEF CreateChannel, Deploy, FetchConfig, UpdateConfig
<1>5. tools' \in [artifact : Gens3 \cup {Absent}, fetched : Gens3 \cup {Absent}]
  <2>1. CASE UNCHANGED tools
    BY <2>1 DEF HostCliTyped
  <2>2. CASE FetchConfig(outside)
    <3> DEFINE f == IF outside /\ HostConnects /\ chain # <<>> THEN Tip.org3 ELSE tools.fetched
    <3>1. tools' = [tools EXCEPT !.fetched = f]
      BY <2>2 DEF FetchConfig
    <3>2. f \in Gens3 \cup {Absent}
      BY TipIsBlock DEF HostCliTyped, Blocks
    <3> QED
      BY <3>1, <3>2 DEF HostCliTyped
  <2> QED
    BY <2>1, <2>2 DEF CreateChannel, JoinHost, Install, Deploy, UpdateConfig
<1> QED
  BY <1>1, <1>3, <1>4, <1>5 DEF HostCliTyped

\* The commands of org3, one conjunct of the type after the other.
LEMMA OrgCommandTyped ==
  ASSUME JointTyped, NEW works \in BOOLEAN,
         \/ Cryptogen3(works) \/ Copy3(works) \/ PrintOrg(works) \/ Apply3(works) \/ FetchFirst(works)
         \/ JoinOrg3(works) \/ InstallOrg3(works) \/ QueryOrg3(works) \/ RemoveCrypto3 \/ Cleanup3
  PROVE  OrgTyped' /\ faults' \in 0..MaxFaults /\ UNCHANGED <<vars, chain, hostCli>>
<1> OrgTyped
  BY JointTypedParts
<1> USE DEF OrgTyped, OrgPlaces, OrgRest
<1>1. 0 \in Gens3 /\ 0 \in 0..MaxGen /\ 1 \in 0..4
  BY MaxOrg3Assumption, MaxGenAssumption DEF Gens3
<1>2. faults' \in 0..MaxFaults /\ UNCHANGED <<vars, chain, hostCli>>
  BY JointTypedParts, FaultTyped DEF Cryptogen3, Copy3, PrintOrg, Apply3, FetchFirst, JoinOrg3, InstallOrg3, QueryOrg3,
                    RemoveCrypto3, Cleanup3, Org
<1>3. ASSUME Cryptogen3(works) PROVE OrgTyped'
  <2>1. task3 = "cryptogen" /\ gen3 + 1 \in Gens3
    BY <1>2, <1>3, MaxOrg3Assumption DEF Cryptogen3, Org, Gens3
  <2> QED
    BY <1>2, <1>3, <2>1 DEF Cryptogen3, Org
<1>4. ASSUME Copy3(works) PROVE OrgTyped'
  <2> DEFINE c == IF works THEN dir3.resources ELSE dir3.cli
  <2>1. dir3' = [dir3 EXCEPT !.cli = c, !.cert = dir3.input] /\ c \in Gens3
    BY <1>2, <1>4 DEF Copy3
  <2> QED
    BY <1>2, <1>4, <2>1 DEF Copy3, Org
<1>5. ASSUME PrintOrg(works) PROVE OrgTyped'
  <2> DEFINE a == IF works THEN dir3.resources ELSE 0
  <2>1. dir3' = [dir3 EXCEPT !.artifact = a] /\ a \in Gens3
    BY <1>2, <1>1, <1>5 DEF PrintOrg
  <2> QED
    BY <1>2, <1>5, <2>1 DEF PrintOrg, Org
<1>6. ASSUME Apply3(works) PROVE OrgTyped'
  <2>1. UNCHANGED org3 \/ \E c \in Gens3 : org3' = [org3 EXCEPT !.up = works, !.crypto = c]
    BY <1>6 DEF Apply3
  <2> QED
    BY <1>2, <1>6, <2>1 DEF Apply3, Org, orgFiles
<1>7. ASSUME FetchFirst(works) PROVE OrgTyped'
  BY <1>2, <1>7 DEF FetchFirst, Org
<1>8. ASSUME JoinOrg3(works) PROVE OrgTyped'
  BY <1>2, <1>1, <1>8, NoBlockIsBlock DEF JoinOrg3, LedgerOf, Org, orgFiles
<1>9. ASSUME InstallOrg3(works) PROVE OrgTyped'
  <2> DEFINE i == org3.installed \/ works
  <2>1. org3' = [org3 EXCEPT !.installed = i] /\ i \in BOOLEAN
    BY <1>2, <1>9 DEF InstallOrg3
  <2> QED
    BY <1>2, <1>9, <2>1 DEF InstallOrg3, Org, orgFiles
<1>10. ASSUME QueryOrg3(works) PROVE OrgTyped'
  BY <1>2, <1>10, NoBlockIsBlock DEF QueryOrg3, Org, orgFiles
<1>11. ASSUME RemoveCrypto3 PROVE OrgTyped'
  BY <1>2, <1>1, <1>11 DEF RemoveCrypto3, Org
<1>12. ASSUME Cleanup3 PROVE OrgTyped'
  BY <1>2, <1>1, <1>12, NoOrg3Typed DEF Cleanup3, Org
<1> QED
  BY <1>2, <1>3, <1>4, <1>5, <1>6, <1>7, <1>8, <1>9, <1>10, <1>11, <1>12

\* The scripts of the host's network, and what their machines take along.
LEMMA HostScriptTyped ==
  ASSUME JointTyped, HostScript
  PROVE  HostCliTyped' /\ OrgTyped' /\ UNCHANGED faults
         /\ (UNCHANGED chain \/ chain' = <<>>)
<1> HostCliTyped /\ OrgTyped
  BY JointTypedParts
<1>1. HostCliTyped'
  <2>1. NoTools \in [artifact : Gens3 \cup {Absent}, fetched : Gens3 \cup {Absent}]
    BY DEF NoTools
  <2>2. NoPeer \in [joined : BOOLEAN, installed : SUBSET {"1.0", "1.1"}]
    BY DEF NoPeer
  <2> QED
    BY <2>1, <2>2 DEF HostScript, HostCliTyped, HostPlaces, HostRest
<1>2. OrgTyped'
  <2>1. CASE UNCHANGED <<dir3, org3>>
    BY <2>1 DEF HostScript, OrgTyped
  <2>2. CASE /\ dir3' = [dir3 EXCEPT !.block = IF @ = "live" THEN "old" ELSE @]
             /\ org3' = [org3 EXCEPT !.ledger = IF @ = "live" THEN "old" ELSE @]
    <3> DEFINE b == IF dir3.block = "live" THEN "old" ELSE dir3.block
               l == IF org3.ledger = "live" THEN "old" ELSE org3.ledger
    <3>1. dir3' = [dir3 EXCEPT !.block = b] /\ b \in {"none", "live", "old"}
      BY <2>2 DEF OrgTyped
    <3>2. org3' = [org3 EXCEPT !.ledger = l] /\ l \in {"none", "live", "old", "stale"}
      BY <2>2 DEF OrgTyped
    <3> HIDE DEF b, l
    <3> QED
      BY <2>2, <3>1, <3>2 DEF HostScript, OrgTyped
  <2> QED
    BY <2>1, <2>2 DEF HostScript
<1> QED
  BY <1>1, <1>2 DEF HostScript

\* The other steps.
LEMMA OtherStepTyped ==
  ASSUME JointTyped, \/ StartHost \/ KillHost \/ PassToOrg3 \/ PassToHost
                     \/ StartOrg3 \/ KillOrg3 \/ Deliver \/ UNCHANGED joint
  PROVE  HostCliTyped' /\ OrgTyped' /\ faults' \in 0..MaxFaults /\ UNCHANGED chain
<1> HostCliTyped /\ OrgTyped /\ faults \in 0..MaxFaults
  BY JointTypedParts
<1> USE DEF HostPlaces, HostRest, OrgPlaces, OrgRest
<1>1. CASE StartHost
  BY <1>1 DEF StartHost, HostCliTyped, OrgTyped, orgCli
<1>2. CASE KillHost
  BY <1>2, MaxFaultsAssumption DEF KillHost, Fault, HostCliTyped, OrgTyped, orgCli
<1>3. CASE PassToOrg3
  <2>1. made["artifacts"] \in 0..MaxGen
    BY JointTypedParts DEF HostTypeOK, TypeOK, Artefacts
  <2> QED
    BY <1>3, <2>1 DEF PassToOrg3, HostCliTyped, OrgTyped, hostCli
<1>4. CASE PassToHost
  BY <1>4 DEF PassToHost, HostCliTyped, OrgTyped, orgCli
<1>5. CASE StartOrg3
  BY <1>5, NoBlockIsBlock DEF StartOrg3, HostCliTyped, OrgTyped, hostCli
<1>6. CASE KillOrg3
  BY <1>6, MaxFaultsAssumption DEF KillOrg3, Fault, HostCliTyped, OrgTyped, hostCli
<1>7. CASE Deliver
  <2>1. chain \in Seq(Blocks) /\ Len(chain) <= 4 /\ org3.height \in 0..4
    BY JointTypedParts DEF OrgTyped
  <2>2. org3.height + 1 \in 0..4 /\ chain[org3.height + 1] \in Blocks
    BY <1>7, <2>1, MaxOrg3Assumption DEF Deliver
  <2> DEFINE h == org3.height + 1
             v == chain[org3.height + 1]
  <2>3. org3' = [org3 EXCEPT !.height = h, !.view = v]
    BY <1>7 DEF Deliver
  <2>4. h \in 0..4 /\ v \in Blocks
    BY <2>2
  <2> HIDE DEF h, v
  <2>5. org3' \in [up : BOOLEAN, crypto : Gens3, ledger : {"none", "live", "old", "stale"}, height : 0..4,
                   view : Blocks, installed : BOOLEAN]
    BY <2>3, <2>4 DEF OrgTyped
  <2> QED
    BY <1>7, <2>5 DEF Deliver, HostCliTyped, OrgTyped, hostCli
<1>8. CASE UNCHANGED joint
  BY <1>8 DEF joint, HostCliTyped, OrgTyped, hostCli, orgCli
<1> QED
  BY <1>1, <1>2, <1>3, <1>4, <1>5, <1>6, <1>7, <1>8

\* Every step of the system is of one of the four kinds.
LEMMA JointCases ==
  ASSUME [JointNext]_joint
  PROVE  \/ HostScript
         \/ \E outside \in BOOLEAN, version \in {"1.0", "1.1"} :
              \/ CreateChannel(outside) \/ JoinHost(outside) \/ Install(version, outside)
              \/ Deploy(version, outside) \/ FetchConfig(outside) \/ UpdateConfig(outside)
         \/ \E works \in BOOLEAN :
              \/ Cryptogen3(works) \/ Copy3(works) \/ PrintOrg(works) \/ Apply3(works)
              \/ FetchFirst(works) \/ JoinOrg3(works) \/ InstallOrg3(works) \/ QueryOrg3(works)
              \/ RemoveCrypto3 \/ Cleanup3
         \/ \/ StartHost \/ KillHost \/ PassToOrg3 \/ PassToHost
            \/ StartOrg3 \/ KillOrg3 \/ Deliver \/ UNCHANGED joint
<1>1. CASE UNCHANGED joint
  BY <1>1
<1>2. CASE JointNext
  BY <1>2, Zenon DEF JointNext
<1> QED
  BY <1>1, <1>2

LEMMA JointTypedPreserved == JointTyped /\ [JointNext]_joint => JointTyped'
<1> SUFFICES ASSUME JointTyped, [JointNext]_joint PROVE JointTyped'
  OBVIOUS
<1> HostCliTyped /\ OrgTyped /\ chain \in Seq(Blocks) /\ Len(chain) <= 4 /\ ChainShape
    /\ faults \in 0..MaxFaults
  BY JointTypedParts
<1>1. HostTypeOK'
  BY JointStepIsHostStep, HostTypePreserved, JointTypedParts
<1>2. ASSUME Grows
      PROVE  chain' \in Seq(Blocks) /\ Len(chain') <= 4 /\ ChainShape'
  <2>1. chain' \in Seq(Blocks) /\ ChainShape' /\ Len(chain') <= 4
    BY <1>2, GrowsFacts
  <2> QED
    BY <2>1, MaxOrg3Assumption
<1>3. UNCHANGED chain => Grows
  BY DEF Grows
<1>4. ASSUME HostScript PROVE JointTyped'
  <2>1. chain' = <<>> => chain' \in Seq(Blocks) /\ Len(chain') <= 4 /\ ChainShape'
    BY MaxOrg3Assumption DEF ChainShape
  <2> QED
    BY <1>1, <1>2, <1>3, <1>4, <2>1, HostScriptTyped
       DEF JointTyped, JointTypeOK, HostTypeOK, HostCliTyped, OrgTyped
<1>5. ASSUME NEW outside \in BOOLEAN, NEW version \in {"1.0", "1.1"},
             \/ CreateChannel(outside) \/ JoinHost(outside) \/ Install(version, outside)
             \/ Deploy(version, outside) \/ FetchConfig(outside) \/ UpdateConfig(outside)
      PROVE  JointTyped'
  <2>1. HostCliTyped' /\ faults' \in 0..MaxFaults /\ Grows /\ UNCHANGED <<vars, orgCli>>
    BY <1>5, HostCommandTyped
  <2>2. OrgTyped'
    BY <2>1 DEF OrgTyped, orgCli
  <2> QED
    BY <1>1, <1>2, <2>1, <2>2
       DEF JointTyped, JointTypeOK, HostTypeOK, HostCliTyped, OrgTyped
<1>6. ASSUME NEW works \in BOOLEAN,
             \/ Cryptogen3(works) \/ Copy3(works) \/ PrintOrg(works) \/ Apply3(works)
             \/ FetchFirst(works) \/ JoinOrg3(works) \/ InstallOrg3(works) \/ QueryOrg3(works)
             \/ RemoveCrypto3 \/ Cleanup3
      PROVE  JointTyped'
  <2>1. OrgTyped' /\ faults' \in 0..MaxFaults /\ UNCHANGED <<vars, chain, hostCli>>
    BY <1>6, OrgCommandTyped
  <2>2. HostCliTyped' /\ UNCHANGED chain
    BY <2>1 DEF HostCliTyped, hostCli
  <2> QED
    BY <1>1, <1>2, <1>3, <2>1, <2>2
       DEF JointTyped, JointTypeOK, HostTypeOK, HostCliTyped, OrgTyped
<1>7. ASSUME \/ StartHost \/ KillHost \/ PassToOrg3 \/ PassToHost
             \/ StartOrg3 \/ KillOrg3 \/ Deliver \/ UNCHANGED joint
      PROVE  JointTyped'
  <2>1. HostCliTyped' /\ OrgTyped' /\ faults' \in 0..MaxFaults /\ UNCHANGED chain
    BY <1>7, OtherStepTyped
  <2> QED
    BY <1>1, <1>2, <1>3, <2>1
       DEF JointTyped, JointTypeOK, HostTypeOK, HostCliTyped, OrgTyped
<1> QED
  BY <1>4, <1>5, <1>6, <1>7, JointCases

-----------------------------------------------------------------------------
LEMMA FollowsPreserved == JointTyped /\ Follows /\ [JointNext]_joint => Follows'
<1> SUFFICES ASSUME JointTyped, Follows, [JointNext]_joint PROVE Follows'
  OBVIOUS
<1> HostCliTyped /\ OrgTyped /\ chain \in Seq(Blocks) /\ ChainShape
  BY JointTypedParts
<1>1. CASE HostScript
  <2>1. CASE UNCHANGED <<chain, dir3, org3>>
    BY <2>1 DEF Follows, Tip
  <2>2. CASE /\ dir3' = [dir3 EXCEPT !.block = IF @ = "live" THEN "old" ELSE @]
             /\ org3' = [org3 EXCEPT !.ledger = IF @ = "live" THEN "old" ELSE @]
    <3>1. /\ dir3'.block # "live" /\ org3'.ledger # "live" /\ org3'.crypto = org3.crypto
          /\ org3'.up = org3.up
      BY <2>2 DEF OrgTyped
    <3>2. org3'.ledger # "none" <=> org3.ledger # "none"
      BY <2>2 DEF OrgTyped
    <3> QED
      BY <3>1, <3>2 DEF Follows
  <2> QED
    BY <1>1, <2>1, <2>2 DEF HostScript
<1>2. ASSUME NEW outside \in BOOLEAN, NEW version \in {"1.0", "1.1"},
             \/ CreateChannel(outside) \/ JoinHost(outside) \/ Install(version, outside)
             \/ Deploy(version, outside) \/ FetchConfig(outside) \/ UpdateConfig(outside)
      PROVE  Follows'
  <2>1. Grows /\ UNCHANGED <<dir3, org3>>
    BY <1>2, HostCommandTyped DEF orgCli
  <2>2. /\ Len(chain) <= Len(chain') /\ (chain # <<>> => chain' # <<>>)
        /\ \A h \in 1..Len(chain) : chain'[h] = chain[h]
        /\ chain # <<>> /\ Tip.org3 # 0 => Tip'.org3 = Tip.org3
    BY <2>1, GrowsFacts
  <2>3. chain' \in Seq(Blocks)
    BY <2>1, GrowsFacts
  <2> QED
    BY <2>1, <2>2, <2>3 DEF Follows
<1>3. ASSUME NEW works \in BOOLEAN,
             \/ Cryptogen3(works) \/ Copy3(works) \/ PrintOrg(works) \/ InstallOrg3(works)
             \/ QueryOrg3(works) \/ RemoveCrypto3
      PROVE  Follows'
  <2>1. UNCHANGED chain /\ dir3'.block = dir3.block /\ org3'.ledger = org3.ledger
        /\ org3'.crypto = org3.crypto /\ org3'.height = org3.height /\ org3'.view = org3.view
        /\ org3'.up = org3.up
    BY <1>3 DEF OrgTyped, Cryptogen3, Copy3, PrintOrg, InstallOrg3, QueryOrg3, RemoveCrypto3, Org, orgFiles
  <2> QED
    BY <2>1 DEF Follows, Tip
<1>4. ASSUME NEW works \in BOOLEAN, Apply3(works) PROVE Follows'
  <2>1. UNCHANGED <<chain, dir3>>
    BY <1>4 DEF Apply3, Org, orgFiles
  <2>2. UNCHANGED org3 \/ org3'.ledger = "none"
    BY <1>4 DEF Apply3, Follows, OrgTyped
  <2> QED
    BY <2>1, <2>2 DEF Follows, Tip
<1>5. ASSUME Cleanup3 PROVE Follows'
  BY <1>5 DEF Cleanup3, NoOrg3, Follows, OrgTyped
<1>6. ASSUME NEW works \in BOOLEAN, FetchFirst(works) PROVE Follows'
  <2>1. UNCHANGED <<chain, org3>> /\ (works => chain # <<>>) /\ (~works => UNCHANGED dir3)
    BY <1>6 DEF FetchFirst, Org
  <2> QED
    BY <2>1 DEF Follows, Tip
<1>7. ASSUME NEW works \in BOOLEAN, JoinOrg3(works) PROVE Follows'
  <2>1. UNCHANGED <<chain, dir3>>
    BY <1>7 DEF JoinOrg3, Org, orgFiles
  <2>2. ASSUME works PROVE Follows'
    <3>1. /\ org3'.ledger = LedgerOf(dir3.block) /\ org3'.height = 1 /\ org3'.view = NoBlock
          /\ org3'.crypto = org3.crypto /\ org3.crypto # 0 /\ org3'.up /\ dir3.block # "none"
      BY <1>7, <2>2 DEF JoinOrg3, Org, OrgConnects, OrgTyped
    <3> QED
      BY <2>1, <3>1 DEF Follows, ChainShape, LedgerOf
  <2> QED
    BY <1>7, <2>1, <2>2 DEF JoinOrg3, Follows, Tip
<1>8. CASE Deliver
  <2>1. /\ UNCHANGED <<chain, dir3>> /\ org3'.ledger = org3.ledger /\ org3'.crypto = org3.crypto
        /\ org3'.height = org3.height + 1 /\ org3'.view = chain[org3.height + 1] /\ org3'.up = org3.up
        /\ org3.height < Len(chain) /\ Tip.org3 = org3.crypto /\ Tip' = Tip
    BY <1>8 DEF Deliver, OrgTyped, Tip
  <2>2. org3.height + 1 \in 1..Len(chain)
    BY <1>8, <2>1 DEF Deliver, Follows
  <2> QED
    BY <2>1, <2>2 DEF Follows
<1>9. CASE StartHost \/ KillHost \/ PassToHost \/ StartOrg3 \/ KillOrg3 \/ UNCHANGED joint
  BY <1>9 DEF StartHost, KillHost, PassToHost, StartOrg3, KillOrg3, joint, orgCli, Follows, Tip
<1>10. CASE PassToOrg3
  <2>1. UNCHANGED <<chain, org3>> /\ dir3'.block = dir3.block
    BY <1>10 DEF PassToOrg3, OrgTyped
  <2> QED
    BY <2>1 DEF Follows, Tip
<1> QED
  BY <1>1, <1>2, <1>3, <1>4, <1>5, <1>6, <1>7, <1>8, <1>9, <1>10, JointCases

LEMMA CalmRunPreserved == JointTyped /\ CalmRun /\ [JointNext]_joint => CalmRun'
<1> SUFFICES ASSUME JointTyped, CalmRun, [JointNext]_joint PROVE CalmRun'
  OBVIOUS
<1> HostCliTyped /\ OrgTyped /\ chain \in Seq(Blocks) /\ ChainShape
  BY JointTypedParts
<1>1. CASE task' \notin {"update", "install11", "upgrade", "added"}
  BY <1>1 DEF CalmRun
<1>2. CASE UNCHANGED <<vars, chain, hostCli>>
  <2>1. HostConnects' = HostConnects /\ Tip' = Tip
    BY <1>2 DEF HostConnects, GenOf, Tip, Cert, vars, infra, aws, files
  <2> QED
    BY <1>2, <2>1 DEF CalmRun, hostCli
<1>3. ASSUME NEW outside \in BOOLEAN, FetchConfig(outside) PROVE CalmRun'
  <2>1. UNCHANGED chain /\ HostConnects' = HostConnects /\ Tip' = Tip /\ task' = "update"
        /\ (calm' => outside)
    BY <1>3 DEF FetchConfig, Host, HostConnects, GenOf, Tip, Cert, vars, infra, aws, files
  <2>2. outside /\ HostConnects /\ chain # <<>> => tools'.fetched = Tip.org3
    BY <1>3 DEF FetchConfig, HostCliTyped
  <2> QED
    BY <2>1, <2>2 DEF CalmRun
<1>4. ASSUME NEW outside \in BOOLEAN, UpdateConfig(outside) PROVE CalmRun'
  <2> SUFFICES ASSUME calm', HostConnects', chain' # <<>>, tools'.artifact > 0 PROVE Tip'.org3 # 0
    BY <1>4 DEF UpdateConfig, Host, CalmRun
  <2>1. calm /\ outside /\ task = "update" /\ HostConnects /\ UNCHANGED tools
    BY <1>4 DEF UpdateConfig, Host, HostConnects, GenOf, Cert, vars, infra, aws, files
  <2>2. chain # <<>>
    BY <1>4 DEF UpdateConfig
  <2>3. tools.fetched = Tip.org3
    BY <2>1, <2>2 DEF CalmRun
  <2>4. CASE Tip.org3 = 0
    <3> DEFINE b == [Tip EXCEPT !.org3 = tools.artifact]
    <3>1. chain' = Append(chain, b)
      BY <1>4, <2>1, <2>2, <2>3, <2>4 DEF UpdateConfig, Append3
    <3>2. b.org3 = tools.artifact
      BY <2>2, TipIsBlock DEF Blocks
    <3>3. Tip' = b
      BY <3>1 DEF Tip
    <3>4. tools.artifact # 0
      BY <2>1 DEF HostCliTyped
    <3> QED
      BY <3>2, <3>3, <3>4
  <2>5. CASE Tip.org3 # 0
    BY <1>4, <2>5 DEF UpdateConfig, Tip
  <2> QED
    BY <2>4, <2>5
<1>5. ASSUME NEW outside \in BOOLEAN, Install("1.1", outside) PROVE CalmRun'
  <2>1. UNCHANGED <<chain, tools>> /\ HostConnects' = HostConnects /\ Tip' = Tip
        /\ task = "install11" /\ task' = "upgrade" /\ (calm' => calm /\ outside)
    BY <1>5 DEF Install, Host, HostConnects, GenOf, Tip, Cert, vars, infra, aws, files
  <2>2. outside /\ HostConnects => "1.1" \in peer'.installed
    BY <1>5 DEF Install, HostCliTyped
  <2> QED
    BY <2>1, <2>2 DEF CalmRun
<1>6. ASSUME NEW outside \in BOOLEAN, Deploy("1.1", outside) PROVE CalmRun'
  <2> SUFFICES ASSUME calm', HostConnects', chain' # <<>>
               PROVE  /\ tools'.artifact > 0 => Tip'.org3 # 0
                      /\ peer'.joined /\ Tip'.version # "none" => Tip'.version = "1.1"
    BY <1>6 DEF Deploy, Host, CalmRun
  <2>1. calm /\ outside /\ task = "upgrade" /\ HostConnects /\ UNCHANGED <<tools, peer>>
    BY <1>6 DEF Deploy, Host, HostConnects, GenOf, Cert, vars, infra, aws, files
  <2>2. CASE Deployable("1.1")
    <3> DEFINE b == [Tip EXCEPT !.version = "1.1"]
    <3>1. chain' = Append(chain, b) /\ chain # <<>>
      BY <1>6, <2>1, <2>2 DEF Deploy, Deployable, Append3
    <3>2. b.org3 = Tip.org3 /\ b.version = "1.1"
      BY <3>1, TipIsBlock DEF Blocks
    <3>3. Tip' = b
      BY <3>1 DEF Tip
    <3> QED
      BY <2>1, <3>1, <3>2, <3>3 DEF CalmRun
  <2>3. CASE ~Deployable("1.1")
    <3>1. UNCHANGED chain /\ Tip' = Tip
      BY <1>6, <2>3 DEF Deploy, Tip
    <3>2. "1.1" \in peer.installed /\ chain # <<>> /\ (tools.artifact > 0 => Tip.org3 # 0)
      BY <2>1, <3>1 DEF CalmRun
    <3>3. Tip.version \in {"none", "1.0", "1.1"}
      BY <3>2, TipIsBlock DEF Blocks
    <3>4. peer.joined => Tip.version # "1.0"
      BY <2>1, <2>3, <3>2 DEF Deployable
    <3> QED
      BY <2>1, <3>1, <3>2, <3>3, <3>4
  <2> QED
    BY <2>2, <2>3
<1>7. ASSUME NEW outside \in BOOLEAN, NEW version \in {"1.0", "1.1"},
             \/ CreateChannel(outside) \/ JoinHost(outside) \/ Install(version, outside)
             \/ Deploy(version, outside) \/ FetchConfig(outside) \/ UpdateConfig(outside)
      PROVE  CalmRun'
  BY <1>1, <1>3, <1>4, <1>5, <1>6, <1>7 DEF CreateChannel, JoinHost, Install, Deploy, Host
<1>8. ASSUME NEW works \in BOOLEAN,
             \/ Cryptogen3(works) \/ Copy3(works) \/ PrintOrg(works) \/ Apply3(works)
             \/ FetchFirst(works) \/ JoinOrg3(works) \/ InstallOrg3(works) \/ QueryOrg3(works)
             \/ RemoveCrypto3 \/ Cleanup3
      PROVE  CalmRun'
  BY <1>2, <1>8, OrgCommandTyped
<1>9. CASE HostScript \/ StartHost \/ KillHost \/ PassToHost
  BY <1>1, <1>9 DEF HostScript, StartHost, KillHost, PassToHost
<1>10. CASE PassToOrg3 \/ StartOrg3 \/ KillOrg3 \/ Deliver \/ UNCHANGED joint
  BY <1>2, <1>10 DEF PassToOrg3, StartOrg3, KillOrg3, Deliver, joint
<1> QED
  BY <1>7, <1>8, <1>9, <1>10, JointCases

LEMMA AnswersPreserved ==
  JointTyped /\ Follows /\ Answers /\ [JointNext]_joint => Answers'
<1> SUFFICES ASSUME JointTyped, Follows, Answers, [JointNext]_joint PROVE Answers'
  OBVIOUS
<1> HostCliTyped /\ OrgTyped /\ chain \in Seq(Blocks) /\ ChainShape
  BY JointTypedParts
<1>1. ASSUME NEW outside \in BOOLEAN, NEW version \in {"1.0", "1.1"},
             \/ CreateChannel(outside) \/ JoinHost(outside) \/ Install(version, outside)
             \/ Deploy(version, outside) \/ FetchConfig(outside) \/ UpdateConfig(outside)
      PROVE  Answers'
  <2>1. Grows /\ UNCHANGED <<org3, task3, answer>>
    BY <1>1, HostCommandTyped DEF orgCli
  <2>2. /\ \A h \in 1..Len(chain) : chain'[h] = chain[h]
        /\ Len(chain) <= Len(chain') /\ chain' \in Seq(Blocks)
    BY <2>1, GrowsFacts
  <2>3. \A h \in 1..Len(chain) : h \in 1..Len(chain')
    BY <2>2
  <2> QED
    BY <2>1, <2>2, <2>3 DEF Answers
<1>2. CASE HostScript
  <2>1. UNCHANGED <<task3, answer>> /\ org3'.view = org3.view
    BY <1>2 DEF HostScript, OrgTyped
  <2>2. UNCHANGED <<chain, org3>> \/ (org3'.ledger # "live" /\ (org3'.ledger = "stale" <=> org3.ledger = "stale"))
    BY <1>2 DEF HostScript, OrgTyped
  <2> QED
    BY <2>1, <2>2 DEF Answers
\* Before it asks, org3 has no answer.
<1>3. ASSUME task3 # "joined" PROVE answer = NoBlock
  BY <1>3 DEF Answers
<1>4. ASSUME NEW works \in BOOLEAN, QueryOrg3(works) PROVE Answers'
  <2>1. UNCHANGED <<chain, org3>> /\ task3' = "joined"
    BY <1>4 DEF QueryOrg3, Org, orgFiles
  <2>2. CASE answer' = NoBlock
    BY <2>1, <2>2 DEF Answers
  <2>3. CASE answer' = org3.view /\ works
    <3>1. /\ org3.view.version = "1.1" /\ org3.view.org3 # 0
      BY <1>4, <2>3 DEF QueryOrg3, Org, OrgConnects, JoinVersion
    <3>2. org3.ledger # "stale"
      BY <3>1 DEF Answers, NoBlock
    <3>3. org3.ledger = "live" => \E h \in 1..Len(chain) : org3.view = chain[h]
      BY DEF Follows
    <3> QED
      BY <2>1, <2>3, <3>1, <3>2, <3>3 DEF Answers
  <2> QED
    BY <1>4, <2>2, <2>3 DEF QueryOrg3
<1>5. ASSUME NEW works \in BOOLEAN,
             \/ Cryptogen3(works) \/ Copy3(works) \/ PrintOrg(works) \/ Apply3(works)
             \/ FetchFirst(works) \/ JoinOrg3(works) \/ InstallOrg3(works)
             \/ RemoveCrypto3 \/ Cleanup3
      PROVE  Answers'
  <2>1. task3 # "joined" /\ UNCHANGED answer
    BY <1>5 DEF Cryptogen3, Copy3, PrintOrg, Apply3, FetchFirst, JoinOrg3, InstallOrg3, RemoveCrypto3,
                Cleanup3, Org, OrgRest
  <2>2. org3'.ledger = "stale" => org3'.view = NoBlock
    <3>1. CASE Apply3(works)
      BY <3>1 DEF Apply3, Answers, OrgTyped
    <3>2. CASE JoinOrg3(works)
      BY <3>2 DEF JoinOrg3, Answers, OrgTyped
    <3>3. CASE InstallOrg3(works)
      BY <3>3 DEF InstallOrg3, Answers, OrgTyped
    <3>4. CASE Cleanup3
      BY <3>4 DEF Cleanup3, NoOrg3
    <3>5. CASE UNCHANGED org3
      BY <3>5 DEF Answers
    <3> QED
      BY <1>5, <3>1, <3>2, <3>3, <3>4, <3>5 DEF Cryptogen3, Copy3, PrintOrg, FetchFirst, RemoveCrypto3
  <2> QED
    BY <1>3, <2>1, <2>2 DEF Answers
<1>6. CASE StartOrg3
  BY <1>6 DEF StartOrg3, Answers
<1>7. CASE KillOrg3
  <2>1. task3 # "joined" /\ UNCHANGED <<org3, answer>>
    BY <1>7 DEF KillOrg3, OrgRest
  <2> QED
    BY <1>3, <2>1 DEF Answers
<1>8. CASE Deliver
  <2>1. UNCHANGED <<chain, task3, answer>> /\ org3'.ledger = org3.ledger /\ org3.ledger = "live"
    BY <1>8 DEF Deliver, OrgTyped
  <2> QED
    BY <2>1 DEF Answers
<1>9. CASE StartHost \/ KillHost \/ PassToHost \/ PassToOrg3 \/ UNCHANGED joint
  BY <1>9 DEF StartHost, KillHost, PassToHost, PassToOrg3, joint, orgCli, Answers
<1> QED
  BY <1>1, <1>2, <1>4, <1>5, <1>6, <1>7, <1>8, <1>9, JointCases

LEMMA JointInductive == JointSpec => []JointInv
<1>1. JointInit => JointInv
  <2> SUFFICES ASSUME JointInit PROVE JointInv
    OBVIOUS
  <2>1. JointTyped
    BY JointInitTyped
  <2>2. Follows /\ CalmRun /\ Answers
    BY DEF JointInit, NoOrg3, Follows, CalmRun, Answers
  <2> QED
    BY <2>1, <2>2 DEF JointInv
<1>2. JointInv /\ [JointNext]_joint => JointInv'
  BY JointTypedPreserved, FollowsPreserved, CalmRunPreserved, AnswersPreserved DEF JointInv
<1> QED
  BY <1>1, <1>2, PTL DEF JointSpec

\* Whatever org3 does, the host's scripts and network behave as they do
\* alone, so that all that is proved of them holds here too: the scripts of
\* add-org3 touch files and machines of their own (add-org3/bootstrap.sh and
\* cleanup.sh, cli-tools/join-channel.sh).
THEOREM HostUndisturbed == JointSpec => Spec
<1>1. JointInit => Init
  BY DEF JointInit
<1> QED
  BY <1>1, JointStepIsHostStep, PTL DEF JointSpec, Spec

\* The files, machines and scripts of both organisations and the channel keep
\* their types; a channel never has more than four states.
THEOREM JointTypeCorrect == JointSpec => []JointTypeOK
<1>1. JointInv => JointTypeOK
  BY DEF JointInv, JointTyped
<1> QED
  BY JointInductive, <1>1, PTL

\* A peer of org3 that follows the channel stays a member of it, whatever
\* crypto material either organisation makes later (add-org3.sh, lines 6-16).
THEOREM MemberAlwaysStays == JointSpec => []MemberStays
<1>1. JointInv => MemberStays
  BY DEF JointInv, Follows, MemberStays
<1> QED
  BY JointInductive, <1>1, PTL

\* A run of add-org3.sh to its end in which nothing fails from outside leaves
\* org3 in the channel and the upgrade done, wherever an earlier run was
\* killed (add-org3.sh, lines 6-22).
THEOREM RerunAlwaysCompletes == JointSpec => []RerunCompletes
<1>1. JointInv => RerunCompletes
  BY DEF JointInv, CalmRun, RerunCompletes
<1> QED
  BY JointInductive, <1>1, PTL

\* What join-channel.sh's query shows comes from the channel that org3 was
\* meant to join and, as long as the machines of that channel run, is its
\* newest state, whatever the host does meanwhile (join-channel.sh, lines 3-7):
\* there is no block after the one with the upgrade and org3 in it.
THEOREM AnswerAlwaysNewest == JointSpec => []AnswerIsNewest
<1>1. JointInv => AnswerIsNewest
  <2> SUFFICES ASSUME JointInv, answer # NoBlock, org3.ledger = "live" PROVE answer = Tip
    BY DEF JointInv, Answers, AnswerIsNewest
  <2>1. chain \in Seq(Blocks) /\ ChainShape
    BY JointTypedParts DEF JointInv
  <2>2. PICK h \in 1..Len(chain) : answer = chain[h]
    BY DEF JointInv, Answers
  <2>3. answer.version = "1.1" /\ answer.org3 # 0
    BY DEF JointInv, Answers
  <2>4. Changes(answer) = 3
    BY <2>3 DEF Changes
  <2>5. chain # <<>> /\ Changes(answer) = h - 1
    BY <2>1, <2>2 DEF ChainShape
  <2>6. Len(chain) <= 4
    BY <2>1, <2>5, TipHasAll
  <2>7. h = Len(chain)
    BY <2>1, <2>4, <2>5, <2>6
  <2> QED
    BY <2>2, <2>7 DEF Tip
<1> QED
  BY JointInductive, <1>1, PTL
=============================================================================
