-------------------------- MODULE EnrolmentProofs --------------------------
(***************************************************************************)
(* Proofs about Enrolment: for any dapps, users, wallets that clean.sh     *)
(* removes, number of processes and of networks.                           *)
(***************************************************************************)
EXTENDS Enrolment, TLAPS

\* Nothing is certified by a CA that is yet to come, and what is imported is
\* certified by one.
CertsPast ==
  /\ \A d \in Dapps : \A n \in DOMAIN wallet[d] : wallet[d][n] <= epoch
  /\ \A r \in Processes : proc[r].cert <= epoch /\ (At(r, "importing") => proc[r].cert # 0)

\* A process that reports success is past its enrolment, and the registration
\* at the CA that certified it is its own, as long as that CA is in operation.
Successes ==
  \A r \in Processes : said[r] = "success" =>
    /\ proc[r].pc \in {"importing", "end"}
    /\ proc[r].prog = "registerUser" /\ proc[r].cert = epoch =>
         Name(r) \in DOMAIN registered /\ registered[Name(r)] = r

IndInv == TypeOK /\ CertsPast /\ Successes /\ IdentityBacked /\ OneSuccess

ProcType == [prog : Programs, dapp : Dapps, pc : Places, cert : 0..MaxEpoch]

LEMMA InitEstablishes == Init => IndInv
<1> SUFFICES ASSUME Init PROVE IndInv
  OBVIOUS
<1>1. TypeOK
  <2>1. (CHOOSE d \in Dapps : TRUE) \in Dapps
    BY DappsAssumption
  <2>2. 0 \in 0..MaxEpoch /\ 1 \in Epochs
    BY MaxEpochAssumption DEF Epochs
  <2> QED
    BY <2>1, <2>2 DEF Init, TypeOK, Programs, Places, Lines, NoIdentities, Nobody
<1>2. CertsPast
  <2>1. \A d \in Dapps : DOMAIN wallet[d] = {}
    BY DEF Init, NoIdentities
  <2>2. \A r \in Processes : proc[r].cert = 0 /\ proc[r].pc = "idle"
    BY DEF Init
  <2>3. epoch = 1
    BY DEF Init
  <2> QED
    BY ONLY <2>1, <2>2, <2>3 DEF CertsPast, At
<1>3. Successes /\ OneSuccess
  BY DEF Init, Successes, OneSuccess
<1>4. IdentityBacked
  BY DEF Init, IdentityBacked, NoIdentities, At
<1> QED
  BY <1>1, <1>2, <1>3, <1>4 DEF IndInv

LEMMA NameTyped ==
  ASSUME TypeOK, NEW r \in Processes
  PROVE  Name(r) \in Names
  BY DEF TypeOK, Name, Names, Programs

\* The steps of process r.
ProcessStep(r) ==
  Step(r) \/ RegisterUnanswered(r) \/ CallFails(r) \/ ImportFails(r) \/ Kill(r)


\* Process r goes to p with certificate c, and its last line of output is l.
Moves(r, p, c, l) ==
  /\ proc' = [proc EXCEPT ![r].pc = p, ![r].cert = c]
  /\ said' = [said EXCEPT ![r] = l]

\* What a step of process r can come to.
Registers(r) ==
  /\ Name(r) \notin DOMAIN registered /\ registered' = With(registered, Name(r), r)
  /\ UNCHANGED wallet
  /\ At(r, "register")
  /\ \E p \in {"enroll", "end"}, l \in {said[r], "failed"} : Moves(r, p, proc[r].cert, l)

Enrols(r) ==
  /\ At(r, "enroll") /\ MayEnroll(r)
  /\ UNCHANGED <<registered, wallet>>
  /\ Moves(r, "importing", epoch, "success")

Imports(r) ==
  /\ At(r, "importing")
  /\ wallet' = [wallet EXCEPT ![proc[r].dapp] = With(@, Name(r), proc[r].cert)]
  /\ UNCHANGED registered
  /\ Moves(r, "end", proc[r].cert, said[r])

Ceases(r) ==
  /\ UNCHANGED <<registered, wallet>>
  /\ ~At(r, "idle") /\ ~At(r, "end")
  /\ \E l \in Lines \ {"success"} : Moves(r, "end", proc[r].cert, l) \/ Moves(r, "end", proc[r].cert, said[r])

GoesOn(r) ==
  /\ UNCHANGED <<registered, wallet>>
  /\ proc[r].pc \in {"check", "checkAdmin", "connect"}
  /\ \E p \in Places \ {"idle", "importing", "end"} :
       \/ Moves(r, p, proc[r].cert, said[r])
       \/ \E n \in DOMAIN wallet[proc[r].dapp] : Moves(r, p, wallet[proc[r].dapp][n], said[r])

LEMMA Outcomes ==
  ASSUME TypeOK, NEW r \in Processes, ProcessStep(r)
  PROVE  UNCHANGED epoch /\ (Registers(r) \/ Enrols(r) \/ Imports(r) \/ Ceases(r) \/ GoesOn(r))
<1> USE DEF At, GoTo, End
<1>1. proc[r] \in ProcType /\ said[r] \in Lines
  BY DEF TypeOK, ProcType
<1>2. ASSUME NEW p PROVE GoTo(r, p) /\ UNCHANGED said => Moves(r, p, proc[r].cert, said[r])
  BY <1>1 DEF Moves, TypeOK, ProcType
<1>3. ASSUME NEW l PROVE End(r, l) => Moves(r, "end", proc[r].cert, l)
  BY <1>1 DEF Moves, TypeOK, ProcType
<1> HIDE DEF GoTo, End
<1>4. ASSUME NEW l \in Lines \ {"success"}, UNCHANGED <<registered, wallet>>, End(r, l),
             ~At(r, "idle"), ~At(r, "end")
      PROVE  Ceases(r)
  BY <1>3, <1>4 DEF Ceases
<1>5. ASSUME Check(r) PROVE UNCHANGED epoch /\ (Ceases(r) \/ GoesOn(r))
  <2>1. UNCHANGED <<epoch, registered, wallet>> /\ At(r, "check")
    BY <1>5 DEF Check
  <2>2. \/ \E l \in Lines \ {"success"} : End(r, l)
        \/ \E p \in {"enroll", "checkAdmin", "connect"} : GoTo(r, p) /\ UNCHANGED said
    BY <1>1, <1>5 DEF Check, ProcType, Programs, Lines
  <2> QED
    BY <1>2, <1>4, <2>1, <2>2 DEF GoesOn, Places
<1>6. ASSUME CheckAdmin(r) PROVE UNCHANGED epoch /\ (Ceases(r) \/ GoesOn(r))
  <2>1. UNCHANGED <<epoch, registered, wallet>> /\ At(r, "checkAdmin")
    BY <1>6 DEF CheckAdmin
  <2>2. \/ End(r, "run enrollAdmin.js")
        \/ GoTo(r, "connect") /\ UNCHANGED said
    BY <1>6 DEF CheckAdmin
  <2> QED
    BY <1>2, <1>4, <2>1, <2>2 DEF GoesOn, Places, Lines
<1>7. ASSUME Connect(r) PROVE UNCHANGED epoch /\ (Ceases(r) \/ GoesOn(r))
  <2>1. UNCHANGED <<epoch, registered, wallet>> /\ At(r, "connect")
    BY <1>7 DEF Connect
  <2>2. CASE \E l \in {"connected", "failed"} : End(r, l)
    BY <1>4, <2>1, <2>2 DEF Lines
  <2>3. CASE Exists(r, Admin) /\ UNCHANGED said
             /\ proc' = [proc EXCEPT ![r].pc = "register", ![r].cert = Identities(r)[Admin]]
    BY <2>1, <2>3 DEF GoesOn, Exists, Identities, Moves, Places, TypeOK
  <2>4. CASE Exists(r, Admin) /\ proc[r].prog = "registerUser"
    BY <1>7, <2>1, <2>3, <2>4 DEF Connect
  <2>5. CASE ~(Exists(r, Admin) /\ proc[r].prog = "registerUser")
    <3> DEFINE name == IF proc[r].prog = "registerUser" THEN Admin ELSE Name(r)
               l == IF Exists(r, name) /\ Identities(r)[name] = epoch THEN "connected" ELSE "failed"
    <3>1. End(r, l)
      BY <1>7, <2>5 DEF Connect
    <3> QED
      BY <2>1, <2>2, <3>1
  <2> QED
    BY <2>4, <2>5
<1>8. ASSUME Register(r) PROVE UNCHANGED epoch /\ (Ceases(r) \/ Registers(r))
  <2>1. CASE End(r, "failed") /\ UNCHANGED registered
    BY <1>4, <1>8, <2>1 DEF Register, Lines
  <2>2. CASE /\ Name(r) \notin DOMAIN registered /\ registered' = With(registered, Name(r), r)
             /\ GoTo(r, "enroll") /\ UNCHANGED said
    BY <1>2, <1>8, <2>2 DEF Register, Registers
  <2> QED
    BY <1>8, <2>1, <2>2 DEF Register
<1>9. ASSUME RegisterUnanswered(r) PROVE UNCHANGED epoch /\ Registers(r)
  BY <1>3, <1>9 DEF RegisterUnanswered, Registers
<1>10. ASSUME Enroll(r) PROVE UNCHANGED epoch /\ (Ceases(r) \/ Enrols(r))
  BY <1>4, <1>10 DEF Enroll, Enrols, Moves, Lines
<1>11. ASSUME Import(r) PROVE UNCHANGED epoch /\ Imports(r)
  BY <1>2, <1>11 DEF Import, Imports
<1>12. ASSUME CallFails(r) PROVE UNCHANGED epoch /\ Ceases(r)
  BY <1>4, <1>12 DEF CallFails, Lines
<1>13. ASSUME ImportFails(r) \/ Kill(r) PROVE UNCHANGED epoch /\ Ceases(r)
  <2>1. GoTo(r, "end") /\ UNCHANGED <<epoch, registered, wallet, said>> /\ ~At(r, "idle") /\ ~At(r, "end")
    BY <1>13 DEF ImportFails, Kill
  <2>2. "failed" \in Lines \ {"success"}
    BY DEF Lines
  <2> QED
    BY <1>2, <2>1, <2>2 DEF Ceases
<1> QED
  BY <1>5, <1>6, <1>7, <1>8, <1>9, <1>10, <1>11, <1>12, <1>13 DEF ProcessStep, Step

-----------------------------------------------------------------------------
LEMMA MovesFacts ==
  ASSUME TypeOK, NEW r \in Processes, NEW p \in Places, NEW c \in 0..MaxEpoch, NEW l \in Lines,
         Moves(r, p, c, l)
  PROVE  /\ proc' \in [Processes -> ProcType] /\ said' \in [Processes -> Lines]
         /\ \A q \in Processes : q # r => proc'[q] = proc[q] /\ said'[q] = said[q]
         /\ \A q \in Processes : proc'[q].prog = proc[q].prog /\ proc'[q].dapp = proc[q].dapp
         /\ \A q \in Processes : Name(q)' = Name(q)
         /\ proc'[r].pc = p /\ proc'[r].cert = c /\ said'[r] = l
<1>1. proc \in [Processes -> ProcType] /\ said \in [Processes -> Lines]
  BY DEF TypeOK, ProcType
<1> DEFINE new == [proc[r] EXCEPT !.pc = p, !.cert = c]
<1>2. new \in ProcType /\ new.prog = proc[r].prog /\ new.dapp = proc[r].dapp
      /\ new.pc = p /\ new.cert = c
  BY <1>1 DEF ProcType
<1>3. proc' = [proc EXCEPT ![r] = new] /\ said' = [said EXCEPT ![r] = l]
  BY <1>1 DEF Moves
<1> HIDE DEF new
<1>4. \A q \in Processes : proc'[q].prog = proc[q].prog /\ proc'[q].dapp = proc[q].dapp
  BY <1>1, <1>2, <1>3
<1>5. \A q \in Processes : Name(q)' = Name(q)
  BY <1>4 DEF Name
<1> QED
  BY <1>1, <1>2, <1>3, <1>4, <1>5

\* Every step of process r, seen from what it does to proc and said: it is
\* about to import what it may, and has success to report if it is, or had.
LEMMA StepMoves ==
  ASSUME TypeOK, CertsPast, Successes, NEW r \in Processes,
         Registers(r) \/ Enrols(r) \/ Imports(r) \/ Ceases(r) \/ GoesOn(r)
  PROVE  \E p \in Places, c \in 0..MaxEpoch, l \in Lines :
           /\ Moves(r, p, c, l) /\ c <= epoch
           /\ p = "importing" => MayEnroll(r) /\ c = epoch /\ UNCHANGED registered
           /\ l = "success" =>
                \/ p = "importing"
                \/ p = "end" /\ said[r] = "success" /\ c = proc[r].cert
<1>1. proc[r] \in ProcType /\ said[r] \in Lines /\ proc[r].cert <= epoch
  BY DEF TypeOK, ProcType, CertsPast
<1>2. epoch \in 0..MaxEpoch
  BY DEF TypeOK, Epochs
<1>3. said[r] = "success" => proc[r].pc \in {"importing", "end"}
  BY DEF Successes
<1>4. CASE Registers(r)
  <2>1. PICK p \in {"enroll", "end"}, l \in {said[r], "failed"} : Moves(r, p, proc[r].cert, l)
    BY <1>4 DEF Registers
  <2>2. p \in Places /\ l \in Lines /\ proc[r].cert \in 0..MaxEpoch /\ l # "success" /\ p # "importing"
    BY <1>1, <1>3, <1>4 DEF Registers, At, Places, Lines, ProcType
  <2> QED
    BY <1>1, <2>1, <2>2
<1>5. CASE Enrols(r)
  <2>1. "importing" \in Places /\ "success" \in Lines /\ epoch <= epoch
    BY <1>2 DEF Places, Lines
  <2> QED
    BY <1>2, <1>5, <2>1 DEF Enrols
<1>6. CASE Imports(r)
  BY <1>1, <1>6 DEF Imports, ProcType, Places
<1>7. CASE Ceases(r)
  <2>1. PICK l \in Lines : Moves(r, "end", proc[r].cert, l) /\ (l = "success" => said[r] = "success")
    BY <1>1, <1>7 DEF Ceases
  <2>2. "end" \in Places /\ proc[r].cert \in 0..MaxEpoch
    BY <1>1 DEF Places, ProcType
  <2> QED
    BY <1>1, <2>1, <2>2
<1>8. CASE GoesOn(r)
  <2>1. \A n \in DOMAIN wallet[proc[r].dapp] :
          wallet[proc[r].dapp][n] \in 0..MaxEpoch /\ wallet[proc[r].dapp][n] <= epoch
    BY <1>1 DEF TypeOK, CertsPast, ProcType, Epochs
  <2>2. PICK p \in Places \ {"idle", "importing", "end"}, c \in 0..MaxEpoch :
          Moves(r, p, c, said[r]) /\ c <= epoch
    BY <1>1, <1>8, <2>1 DEF GoesOn, ProcType
  <2>3. said[r] # "success"
    BY <1>3, <1>8 DEF GoesOn
  <2> QED
    BY <1>1, <2>2, <2>3
<1> QED
  BY <1>4, <1>5, <1>6, <1>7, <1>8

\* What a wallet and the registrations are after a step.
LEMMA StepStores ==
  ASSUME TypeOK, CertsPast, NEW r \in Processes,
         Registers(r) \/ Enrols(r) \/ Imports(r) \/ Ceases(r) \/ GoesOn(r)
  PROVE  /\ \A n \in DOMAIN registered : n \in DOMAIN registered' /\ registered'[n] = registered[n]
         /\ \A n \in DOMAIN registered' : n \in DOMAIN registered \/ (n = Name(r) /\ registered'[n] = r)
         /\ DOMAIN wallet' = Dapps
         /\ \A d \in Dapps : \A n \in DOMAIN wallet'[d] :
              \/ n \in DOMAIN wallet[d] /\ wallet'[d][n] = wallet[d][n]
              \/ At(r, "importing") /\ n = Name(r) /\ wallet'[d][n] = proc[r].cert
<1>1. CASE Registers(r)
  <2>1. /\ DOMAIN registered' = DOMAIN registered \cup {Name(r)} /\ registered'[Name(r)] = r
        /\ \A z \in DOMAIN registered : z # Name(r) => registered'[z] = registered[z]
        /\ Name(r) \notin DOMAIN registered /\ UNCHANGED wallet
    BY <1>1 DEF Registers, With
  <2> QED
    BY <2>1 DEF TypeOK
<1>2. CASE UNCHANGED <<registered, wallet>>
  BY <1>2 DEF TypeOK
<1>3. CASE Imports(r)
  <2> DEFINE w == With(wallet[proc[r].dapp], Name(r), proc[r].cert)
  <2>1. wallet' = [wallet EXCEPT ![proc[r].dapp] = w] /\ UNCHANGED registered /\ At(r, "importing")
    BY <1>3 DEF Imports
  <2>2. \A n \in DOMAIN w : \/ n \in DOMAIN wallet[proc[r].dapp] /\ w[n] = wallet[proc[r].dapp][n]
                            \/ n = Name(r) /\ w[n] = proc[r].cert
    <3> DEFINE f == wallet[proc[r].dapp]
    <3>1. /\ DOMAIN w = DOMAIN f \cup {Name(r)} /\ w[Name(r)] = proc[r].cert
          /\ \A z \in DOMAIN f : z # Name(r) => w[z] = f[z]
      BY DEF With
    <3> QED
      BY <3>1
  <2> HIDE DEF w
  <2>3. DOMAIN wallet = Dapps /\ proc[r].dapp \in Dapps
    BY DEF TypeOK
  <2> QED
    BY <2>1, <2>2, <2>3
<1> QED
  BY <1>1, <1>2, <1>3 DEF Enrols, Ceases, GoesOn

LEMMA ProcessPreserves ==
  ASSUME IndInv, NEW r \in Processes, UNCHANGED epoch,
         Registers(r) \/ Enrols(r) \/ Imports(r) \/ Ceases(r) \/ GoesOn(r)
  PROVE  IndInv'
<1> TypeOK /\ CertsPast /\ Successes /\ IdentityBacked /\ OneSuccess
  BY DEF IndInv
<1>1. PICK p \in Places, c \in 0..MaxEpoch, l \in Lines :
        /\ Moves(r, p, c, l) /\ c <= epoch
        /\ p = "importing" => MayEnroll(r) /\ c = epoch /\ UNCHANGED registered
        /\ l = "success" =>
             \/ p = "importing"
             \/ p = "end" /\ said[r] = "success" /\ c = proc[r].cert
  BY StepMoves
<1>2. /\ proc' \in [Processes -> ProcType] /\ said' \in [Processes -> Lines]
      /\ \A q \in Processes : q # r => proc'[q] = proc[q] /\ said'[q] = said[q]
      /\ \A q \in Processes : proc'[q].prog = proc[q].prog /\ proc'[q].dapp = proc[q].dapp
      /\ \A q \in Processes : Name(q)' = Name(q)
      /\ proc'[r].pc = p /\ proc'[r].cert = c /\ said'[r] = l
  BY <1>1, MovesFacts
<1>3. /\ \A n \in DOMAIN registered : n \in DOMAIN registered' /\ registered'[n] = registered[n]
      /\ \A n \in DOMAIN registered' : n \in DOMAIN registered \/ (n = Name(r) /\ registered'[n] = r)
      /\ DOMAIN wallet' = Dapps
      /\ \A d \in Dapps : \A n \in DOMAIN wallet'[d] :
           \/ n \in DOMAIN wallet[d] /\ wallet'[d][n] = wallet[d][n]
           \/ At(r, "importing") /\ n = Name(r) /\ wallet'[d][n] = proc[r].cert
  BY StepStores
<1>4. Name(r) \in Names /\ proc[r].cert \in 0..MaxEpoch /\ proc[r].cert <= epoch
      /\ (At(r, "importing") => proc[r].cert # 0)
  BY NameTyped DEF TypeOK, CertsPast
<1>5. epoch \in Epochs /\ epoch' = epoch
  BY DEF TypeOK
<1>6. \A d \in Dapps : \A n \in DOMAIN wallet'[d] :
        n \in Names /\ wallet'[d][n] \in Epochs /\ wallet'[d][n] <= epoch
  BY <1>3, <1>4 DEF TypeOK, CertsPast, Epochs
<1>7. TypeOK'
  BY <1>2, <1>3, <1>4, <1>5, <1>6 DEF TypeOK, ProcType
<1>8. CertsPast'
  BY <1>1, <1>2, <1>5, <1>6 DEF CertsPast, At, Epochs
<1>9. p = "importing" /\ Name(r) # Admin => Name(r) \in DOMAIN registered' /\ registered'[Name(r)] = r
  BY <1>1, <1>3 DEF MayEnroll
<1>10. ASSUME NEW q \in Processes, said'[q] = "success"
       PROVE  /\ proc'[q].pc \in {"importing", "end"}
              /\ proc'[q].prog = "registerUser" /\ proc'[q].cert = epoch =>
                   Name(q) \in DOMAIN registered' /\ registered'[Name(q)] = q
  <2>1. CASE q # r \/ p # "importing"
    BY <1>1, <1>2, <1>3, <1>10, <2>1 DEF Successes
  <2>2. CASE q = r /\ p = "importing"
    <3>1. proc[r].prog = "registerUser" => Name(r) # Admin
      BY NamesAssumption DEF Name, TypeOK
    <3> QED
      BY <1>2, <1>9, <2>2, <3>1
  <2> QED
    BY <2>1, <2>2
<1>11. Successes'
  BY <1>2, <1>5, <1>10 DEF Successes
<1>12. IdentityBacked'
  <2>1. ASSUME NEW d \in Dapps, NEW n \in DOMAIN wallet'[d] \ {Admin}, wallet'[d][n] = epoch
        PROVE  n \in DOMAIN registered'
    BY <1>3, <2>1 DEF IdentityBacked
  <2>2. ASSUME NEW q \in Processes, proc'[q].pc = "importing", Name(q) # Admin, proc'[q].cert = epoch
        PROVE  Name(q) \in DOMAIN registered'
    BY <1>2, <1>3, <1>9, <2>2 DEF IdentityBacked, At
  <2> QED
    BY <1>2, <1>5, <2>1, <2>2 DEF IdentityBacked, At
<1>13. OneSuccess'
  <2> SUFFICES ASSUME NEW q \in Processes, NEW s \in Processes,
                      said'[q] = "success", said'[s] = "success",
                      proc'[q].prog = "registerUser", proc'[s].prog = "registerUser",
                      Name(q) = Name(s), proc'[q].cert = proc'[s].cert
               PROVE  q = s
    BY <1>2 DEF OneSuccess
  <2>1. CASE proc'[q].cert = epoch
    BY <1>10, <2>1
  <2>2. CASE proc'[q].cert # epoch
    <3>1. ASSUME NEW t \in Processes, said'[t] = "success", proc'[t].cert # epoch
          PROVE  said[t] = "success" /\ proc'[t].cert = proc[t].cert
      BY <1>1, <1>2, <3>1
    <3> QED
      BY <1>2, <2>2, <3>1 DEF OneSuccess
  <2> QED
    BY <2>1, <2>2
<1> QED
  BY <1>7, <1>8, <1>11, <1>12, <1>13 DEF IndInv

LEMMA OthersPreserve ==
  ASSUME IndInv,
         \/ \E r \in Processes, prog \in Programs, d \in Dapps : Start(r, prog, d)
         \/ Clean \/ Rebootstrap \/ UNCHANGED vars
  PROVE  IndInv'
<1> TypeOK /\ CertsPast /\ Successes /\ IdentityBacked /\ OneSuccess
  BY DEF IndInv
<1>1. ASSUME NEW r \in Processes, NEW prog \in Programs, NEW d \in Dapps, Start(r, prog, d)
      PROVE  IndInv'
  <2> DEFINE new == [prog |-> prog, dapp |-> d, pc |-> "check", cert |-> 0]
  <2>1. proc' = [proc EXCEPT ![r] = new] /\ UNCHANGED <<epoch, registered, wallet, said>>
        /\ proc[r].pc = "idle"
    BY <1>1 DEF Start, At
  <2>2. new \in ProcType
    BY MaxEpochAssumption DEF ProcType, Places
  <2>3. proc' \in [Processes -> ProcType] /\ proc'[r] = new
        /\ \A q \in Processes : q # r => proc'[q] = proc[q]
    BY <2>1, <2>2 DEF TypeOK, ProcType
  <2>4. said[r] # "success"
    BY <2>1 DEF Successes
  <2>5. \A q \in Processes : q # r => Name(q)' = Name(q)
    BY <2>3 DEF Name
  <2>6. epoch \in Nat
    BY MaxEpochAssumption DEF TypeOK, Epochs
  <2>7. TypeOK'
    BY <2>1, <2>3 DEF TypeOK, ProcType
  <2>8. CertsPast'
    BY <2>1, <2>3, <2>6 DEF CertsPast, At
  <2>9. Successes'
    BY <2>1, <2>3, <2>4, <2>5 DEF Successes
  <2>10. IdentityBacked'
    BY <2>1, <2>3, <2>5 DEF IdentityBacked, At
  <2>11. OneSuccess'
    BY <2>1, <2>3, <2>4, <2>5 DEF OneSuccess
  <2> QED
    BY <2>7, <2>8, <2>9, <2>10, <2>11 DEF IndInv
<1>2. CASE Clean
  <2>1. DOMAIN wallet' = Dapps /\ UNCHANGED <<epoch, registered, proc, said>>
        /\ \A d \in Dapps : wallet'[d] = wallet[d] \/ wallet'[d] = NoIdentities
    BY <1>2 DEF Clean
  <2>2. DOMAIN NoIdentities = {}
    BY DEF NoIdentities
  <2>3. TypeOK'
    BY <2>1, <2>2 DEF TypeOK
  <2>4. CertsPast'
    BY <2>1, <2>2 DEF CertsPast, At
  <2>5. IdentityBacked'
    BY <2>1, <2>2 DEF IdentityBacked, At, Name
  <2>6. Successes' /\ OneSuccess'
    BY <2>1 DEF Successes, OneSuccess, Name
  <2> QED
    BY <2>3, <2>4, <2>5, <2>6 DEF IndInv
<1>3. CASE Rebootstrap
  <2>1. UNCHANGED <<wallet, proc, said>> /\ epoch' = epoch + 1 /\ DOMAIN registered' = {}
    BY <1>3 DEF Rebootstrap, Nobody
  <2>2. epoch \in Nat /\ epoch' \in Epochs
    BY <1>3, MaxEpochAssumption DEF Rebootstrap, TypeOK, Epochs
  <2>3. \A r \in Processes : proc[r].cert \in Nat /\ proc[r].cert < epoch'
    BY <2>1, <2>2, MaxEpochAssumption DEF TypeOK, CertsPast
  <2>4. \A d \in Dapps : \A n \in DOMAIN wallet[d] : wallet[d][n] \in Nat /\ wallet[d][n] < epoch'
    BY <2>1, <2>2 DEF TypeOK, CertsPast, Epochs
  <2>5. TypeOK'
    BY <2>1, <2>2 DEF TypeOK
  <2>6. CertsPast'
    BY <2>1, <2>2, <2>3, <2>4 DEF CertsPast, At
  <2>7. Successes'
    BY <2>1, <2>2, <2>3 DEF Successes
  <2>8. IdentityBacked'
    BY <2>1, <2>2, <2>3, <2>4 DEF IdentityBacked, At
  <2>9. OneSuccess'
    BY <2>1 DEF OneSuccess, Name
  <2> QED
    BY <2>5, <2>6, <2>7, <2>8, <2>9 DEF IndInv
<1>4. CASE UNCHANGED vars
  <2>1. UNCHANGED <<epoch, registered, wallet, proc, said>>
    BY <1>4 DEF vars
  <2>2. TypeOK' /\ CertsPast'
    BY <2>1 DEF TypeOK, CertsPast, At
  <2>3. Successes' /\ IdentityBacked' /\ OneSuccess'
    BY <2>1 DEF Successes, IdentityBacked, OneSuccess, At, Name
  <2> QED
    BY <2>2, <2>3 DEF IndInv
<1> QED
  BY <1>1, <1>2, <1>3, <1>4

LEMMA Inductive == Spec => []IndInv
<1>1. IndInv /\ [Next]_vars => IndInv'
  <2> SUFFICES ASSUME IndInv, [Next]_vars PROVE IndInv'
    OBVIOUS
  <2>1. ASSUME NEW r \in Processes, ProcessStep(r) PROVE IndInv'
    BY <2>1, Outcomes, ProcessPreserves DEF IndInv
  <2> QED
    BY <2>1, OthersPreserve DEF Next, ProcessStep
<1> QED
  BY InitEstablishes, <1>1, PTL DEF Spec

\* Wallets, registrations and processes keep their types.
THEOREM TypeCorrect == Spec => []TypeOK
<1>1. IndInv => TypeOK
  BY DEF IndInv
<1> QED
  BY Inductive, <1>1, PTL

\* A user's identity that the network in operation accepts always belongs to a
\* name its CA has registered (registerUser.js, lines 24-50, and the scripts
\* that bootstrap the network).
THEOREM IdentityAlwaysBacked == Spec => []IdentityBacked
<1>1. IndInv => IdentityBacked
  BY DEF IndInv
<1> QED
  BY Inductive, <1>1, PTL

\* Of all processes that register a name, one at most reports success for one
\* CA (registerUser.js, lines 24-51).
THEOREM NeverTwoSuccesses == Spec => []OneSuccess
<1>1. IndInv => OneSuccess
  BY DEF IndInv
<1> QED
  BY Inductive, <1>1, PTL
=============================================================================
