----------------------------- MODULE Enrolment -----------------------------
(***************************************************************************)
(* How the client applications come by their identities: enrollAdmin.js    *)
(* and registerUser.js get them from the Fabric CA and keep them in the    *)
(* wallet directory of their dapp; invoke.js, query.js and the listeners   *)
(* use what is there.                                                      *)
(*                                                                         *)
(* A process runs one script from one await to the next.  Others run in    *)
(* between; any call may fail, any process may be killed, and the network  *)
(* may be bootstrapped anew, with a new CA.  The CA is external: admin is  *)
(* enrolled by its fixed secret, a user once registered by the secret that *)
(* the registration returned.                                              *)
(***************************************************************************)
EXTENDS Naturals

CONSTANTS Dapps,       \* directories with a wallet each
          UserOf,      \* per dapp, whom registerUser.js registers and invoke.js needs
          ListenerOf,  \* per dapp, whom its event listener needs
          Cleaned,     \* the dapps whose wallet directory clean.sh names
          Admin,       \* the name "admin"
          Processes,   \* runs of a script
          MaxEpoch     \* bound on how often the network is bootstrapped

Programs == {"enrollAdmin", "registerUser", "client", "listener"}
Names    == {Admin} \cup {UserOf[d] : d \in Dapps} \cup {ListenerOf[d] : d \in Dapps}
Epochs   == 1..MaxEpoch

ASSUME DappsAssumption == Dapps # {}
ASSUME MaxEpochAssumption == MaxEpoch \in Nat \ {0}
ASSUME NamesAssumption == \A d \in Dapps : UserOf[d] # Admin /\ ListenerOf[d] # Admin
ASSUME CleanedAssumption == Cleaned \subseteq Dapps

VARIABLES
  epoch,       \* the network in operation: its crypto material and its CA
  registered,  \* at that CA, the users and whose registration it was
  wallet,      \* per dapp, the names it has an identity for, and whose CA's
  proc,        \* per process, the script and where it is
  said         \* per process, its last line of output

vars == <<epoch, registered, wallet, proc, said>>

Name(r) ==
  LET d == proc[r].dapp
  IN  CASE proc[r].prog = "enrollAdmin"  -> Admin
        [] proc[r].prog = "listener"     -> ListenerOf[d]
        [] proc[r].prog \in {"registerUser", "client"} -> UserOf[d]

Identities(r) == wallet[proc[r].dapp]
Exists(r, name) == name \in DOMAIN Identities(r)

\* f with x mapped to y.
With(f, x, y) == [z \in DOMAIN f \cup {x} |-> IF z = x THEN y ELSE f[z]]

At(r, pc)     == proc[r].pc = pc
GoTo(r, pc)   == proc' = [proc EXCEPT ![r].pc = pc]
End(r, line)  ==
  /\ proc' = [proc EXCEPT ![r].pc = "end"]
  /\ said' = [said EXCEPT ![r] = line]

NoIdentities == [n \in {} |-> 0]
Nobody       == [n \in {} |-> 0]

-----------------------------------------------------------------------------
Init ==
  /\ epoch = 1
  /\ registered = Nobody
  /\ wallet = [d \in Dapps |-> NoIdentities]
  /\ proc = [r \in Processes |->
              [prog |-> "client", dapp |-> CHOOSE d \in Dapps : TRUE, pc |-> "idle", cert |-> 0]]
  /\ said = [r \in Processes |-> "nothing"]

Start(r, prog, d) ==
  /\ At(r, "idle")
  /\ proc' = [proc EXCEPT ![r] = [prog |-> prog, dapp |-> d, pc |-> "check", cert |-> 0]]
  /\ UNCHANGED <<epoch, registered, wallet, said>>

\* await wallet.exists(...): the enrolling scripts stop if the name is there,
\* the others if it is not.
Check(r) ==
  /\ At(r, "check")
  /\ CASE proc[r].prog = "enrollAdmin" ->
            IF Exists(r, Admin) THEN End(r, "already exists")
            ELSE GoTo(r, "enroll") /\ UNCHANGED said
       [] proc[r].prog = "registerUser" ->
            IF Exists(r, Name(r)) THEN End(r, "already exists")
            ELSE GoTo(r, "checkAdmin") /\ UNCHANGED said
       [] proc[r].prog \in {"client", "listener"} ->
            IF ~Exists(r, Name(r)) THEN End(r, "run registerUser.js")
            ELSE GoTo(r, "connect") /\ UNCHANGED said
  /\ UNCHANGED <<epoch, registered, wallet>>

CheckAdmin(r) ==
  /\ At(r, "checkAdmin")
  /\ IF Exists(r, Admin) THEN GoTo(r, "connect") /\ UNCHANGED said
     ELSE End(r, "run enrollAdmin.js")
  /\ UNCHANGED <<epoch, registered, wallet>>

\* await gateway.connect(...) reads the identity: registerUser.js that of admin,
\* for the CA; a client its user's, for the peers, who accept what the CA of
\* their network signed.  It fails if the identity is gone since the check.
Connect(r) ==
  LET name == IF proc[r].prog = "registerUser" THEN Admin ELSE Name(r)
  IN  /\ At(r, "connect")
      /\ IF Exists(r, name) /\ proc[r].prog = "registerUser"
         THEN /\ proc' = [proc EXCEPT ![r].pc = "register", ![r].cert = Identities(r)[name]]
              /\ UNCHANGED said
         ELSE End(r, IF Exists(r, name) /\ Identities(r)[name] = epoch
                     THEN "connected" ELSE "failed")
      /\ UNCHANGED <<epoch, registered, wallet>>

\* Faulty variant: a name that is registered is registered again.
RegisterAgain(r) ==
  /\ At(r, "register")
  /\ IF proc[r].cert = epoch
     THEN registered' = With(registered, Name(r), r) /\ GoTo(r, "enroll") /\ UNCHANGED said
     ELSE End(r, "failed") /\ UNCHANGED registered
  /\ UNCHANGED <<epoch, wallet>>

\* await ca.register(...): for a name the CA does not have yet.
Register(r) ==
  /\ At(r, "register")
  /\ IF proc[r].cert = epoch /\ Name(r) \notin DOMAIN registered
     THEN /\ registered' = With(registered, Name(r), r)
          /\ GoTo(r, "enroll")
          /\ UNCHANGED said
     ELSE End(r, "failed") /\ UNCHANGED registered
  /\ UNCHANGED <<epoch, wallet>>

\* The registration takes place and its answer is lost.
RegisterUnanswered(r) ==
  /\ At(r, "register")
  /\ proc[r].cert = epoch /\ Name(r) \notin DOMAIN registered
  /\ registered' = With(registered, Name(r), r)
  /\ End(r, "failed")
  /\ UNCHANGED <<epoch, wallet>>

\* Faulty variant: any secret enrols.
MayEnrollAny(r) == TRUE

\* The CA knows the secret that the process enrols with.
MayEnroll(r) ==
  Name(r) # Admin => Name(r) \in DOMAIN registered /\ registered[Name(r)] = r

\* Faulty variant: the certificate of the enrolment is not used.
EnrollUncertified(r) ==
  /\ At(r, "enroll")
  /\ proc' = [proc EXCEPT ![r].pc = "importing"]
  /\ said' = [said EXCEPT ![r] = "success"]
  /\ UNCHANGED <<epoch, registered, wallet>>

\* await ca.enroll(...).  The import that follows is started, not awaited, and
\* the success message printed at once.
Enroll(r) ==
  /\ At(r, "enroll")
  /\ IF MayEnroll(r)
     THEN /\ proc' = [proc EXCEPT ![r].pc = "importing", ![r].cert = epoch]
          /\ said' = [said EXCEPT ![r] = "success"]
     ELSE End(r, "failed")
  /\ UNCHANGED <<epoch, registered, wallet>>

\* wallet.import(...) writes what came from enrol, over anything there.
Import(r) ==
  /\ At(r, "importing")
  /\ wallet' = [wallet EXCEPT ![proc[r].dapp] = With(@, Name(r), proc[r].cert)]
  /\ GoTo(r, "end")
  /\ UNCHANGED <<epoch, registered, said>>

\* A call to the CA or a peer throws and is caught.
CallFails(r) ==
  /\ proc[r].pc \in {"connect", "register", "enroll"}
  /\ End(r, "failed")
  /\ UNCHANGED <<epoch, registered, wallet>>

\* The import rejects, and nobody looks at its promise.
ImportFails(r) ==
  /\ At(r, "importing")
  /\ GoTo(r, "end")
  /\ UNCHANGED <<epoch, registered, wallet, said>>

Kill(r) ==
  /\ proc[r].pc \notin {"idle", "end"}
  /\ GoTo(r, "end")
  /\ UNCHANGED <<epoch, registered, wallet, said>>

\* clean.sh removes wallets, wherever the processes that use them are.
Clean ==
  /\ wallet' = [d \in Dapps |-> IF d \in Cleaned THEN NoIdentities ELSE wallet[d]]
  /\ UNCHANGED <<epoch, registered, proc, said>>

\* bootstrap.sh of the network: new crypto material, a CA with an empty
\* database, and the wallets as they were.
Rebootstrap ==
  /\ epoch < MaxEpoch
  /\ epoch' = epoch + 1
  /\ registered' = Nobody
  /\ UNCHANGED <<wallet, proc, said>>

Step(r) ==
  \/ Check(r) \/ CheckAdmin(r) \/ Connect(r) \/ Register(r) \/ Enroll(r) \/ Import(r)

Next ==
  \/ \E r \in Processes, prog \in Programs, d \in Dapps : Start(r, prog, d)
  \/ \E r \in Processes : Step(r)
  \/ \E r \in Processes : RegisterUnanswered(r) \/ CallFails(r) \/ ImportFails(r) \/ Kill(r)
  \/ Clean
  \/ Rebootstrap

Spec == Init /\ [][Next]_vars

-----------------------------------------------------------------------------
Lines == {"nothing", "already exists", "run registerUser.js", "run enrollAdmin.js",
          "connected", "failed", "success"}
Places == {"idle", "check", "checkAdmin", "connect", "register", "enroll", "importing", "end"}

TypeOK ==
  /\ epoch \in Epochs
  /\ DOMAIN registered \subseteq Names
  /\ \A n \in DOMAIN registered : registered[n] \in Processes
  /\ DOMAIN wallet = Dapps
  /\ \A d \in Dapps : /\ DOMAIN wallet[d] \subseteq Names
                      /\ \A n \in DOMAIN wallet[d] : wallet[d][n] \in Epochs
  /\ proc \in [Processes -> [prog : Programs, dapp : Dapps, pc : Places, cert : 0..MaxEpoch]]
  /\ said \in [Processes -> Lines]

\* No identity without a registration: an identity that the network in
\* operation accepts, of a user, in a wallet or on its way there, belongs to a
\* name its CA has registered, through all retries, races of two processes
\* and networks bootstrapped in between (registerUser.js, lines 24-50).
IdentityBacked ==
  /\ \A d \in Dapps : \A n \in DOMAIN wallet[d] \ {Admin} :
       wallet[d][n] = epoch => n \in DOMAIN registered
  /\ \A r \in Processes :
       At(r, "importing") /\ Name(r) # Admin /\ proc[r].cert = epoch =>
         Name(r) \in DOMAIN registered

\* Of all processes that register one name, also at once from one wallet or
\* again after clean.sh, one at most reports success for one CA.
OneSuccess ==
  \A q, r \in Processes :
    /\ said[q] = "success" /\ said[r] = "success"
    /\ proc[q].prog = "registerUser" /\ proc[r].prog = "registerUser"
    /\ Name(q) = Name(r) /\ proc[q].cert = proc[r].cert
    => q = r

Ends(r) == ~At(r, "end") /\ At(r, "end")'

\* "Successfully registered and enrolled ... and imported it into the wallet"
\* (registerUser.js, line 51; enrollAdmin.js, line 39): a process that has said
\* so leaves the identity behind.  False: the import is not awaited.
SuccessIsImported ==
  [][\A r \in Processes :
       Ends(r) /\ said'[r] = "success" => Exists(r, Name(r))']_vars
=============================================================================
