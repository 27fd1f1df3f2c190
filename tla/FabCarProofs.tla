---------------------------- MODULE FabCarProofs ----------------------------
(***************************************************************************)
(* Proofs about FabCar: for any cars, owners, clients and calls.           *)
(***************************************************************************)
EXTENDS FabCar, FunctionTheorems, FiniteSetTheorems, TLAPS

States == [Numbers -> [car : Cars \cup Ghosts \cup {NoCar}, version : Nat]]

-----------------------------------------------------------------------------
\* The handlers.  A call changes an owner, replaces cars without a look at
\* them, or writes nothing.
ChangesOwner(call) == call.fn = "changeCarOwner" /\ Len(call.args) = 2
Replaces(call)     == \/ call.fn = "initLedger"
                      \/ call.fn = "createCar" /\ Len(call.args) = 3

NewCars(call) ==
  IF call.fn = "initLedger" THEN initLedger.writes
  ELSE createCar(call.args[1], call.args[2], call.args[3]).writes

\* What is written when the owner of car n is changed.
Owned(db, n, owner) ==
  [k \in {n} |-> [spec |-> IF db[n].car = NoCar THEN NoSpec ELSE db[n].car.spec, owner |-> owner]]

LEMMA BadArgumentsMeans ==
  ASSUME NEW call
  PROVE  BadArguments(call) <=>
           \/ call.fn = "queryCar" /\ Len(call.args) # 1
           \/ call.fn = "createCar" /\ Len(call.args) # 3
           \/ call.fn = "changeCarOwner" /\ Len(call.args) # 2
<1>1. DOMAIN Arity = {"queryCar", "createCar", "changeCarOwner"}
  BY DEF Arity
<1>2. Arity["queryCar"] = 1 /\ Arity["createCar"] = 3 /\ Arity["changeCarOwner"] = 2
  BY DEF Arity
<1> QED
  BY <1>1, <1>2 DEF BadArguments

LEMMA GoHandlers ==
  ASSUME NEW db, NEW call
  PROVE  /\ ChangesOwner(call) =>
              GoInvoke(db, call) = Result({call.args[1]}, Owned(db, call.args[1], call.args[2]))
         /\ Replaces(call) => GoInvoke(db, call) = Result({}, NewCars(call))
         /\ ~ChangesOwner(call) /\ ~Replaces(call) => GoInvoke(db, call).writes = Nothing
<1>1. CASE ChangesOwner(call)
  <2>1. ~BadArguments(call) /\ ~Replaces(call)
    BY <1>1, BadArgumentsMeans DEF ChangesOwner, Replaces
  <2>2. GoInvoke(db, call) = changeCarOwner(db, call.args[1], call.args[2])
    BY <1>1, <2>1 DEF GoInvoke, ChangesOwner, Handlers
  <2> QED
    BY <1>1, <2>1, <2>2 DEF changeCarOwner, Owned
<1>2. CASE Replaces(call)
  <2>1. ~BadArguments(call) /\ ~ChangesOwner(call)
    BY <1>2, BadArgumentsMeans DEF ChangesOwner, Replaces
  <2>2. GoInvoke(db, call) = IF call.fn = "initLedger" THEN initLedger
                             ELSE createCar(call.args[1], call.args[2], call.args[3])
    BY <1>2, <2>1 DEF GoInvoke, Replaces, Handlers
  <2> QED
    BY <1>2, <2>1, <2>2 DEF initLedger, createCar, NewCars, Result
<1>3. CASE ~ChangesOwner(call) /\ ~Replaces(call)
  <2>1. CASE BadArguments(call)
    BY <1>3, <2>1 DEF GoInvoke, Error, Result
  <2>2. CASE ~BadArguments(call)
    <3>1. call.fn \notin {"initLedger", "createCar", "changeCarOwner"}
      BY <1>3, <2>2, BadArgumentsMeans DEF ChangesOwner, Replaces
    <3>2. GoInvoke(db, call) \in {Result({call.args[1]}, Nothing), queryAllCars, Error}
      BY <2>2, <3>1 DEF GoInvoke, Handlers
    <3> QED
      BY <1>3, <3>2 DEF Result, queryAllCars, Error
  <2> QED
    BY <2>1, <2>2
<1> QED
  BY <1>1, <1>2, <1>3

LEMMA NodeHandlers ==
  ASSUME NEW db, NEW call
  PROVE  /\ ChangesOwner(call) =>
              NodeInvoke(db, call) = IF db[call.args[1]].car = NoCar THEN Error
                                     ELSE GoInvoke(db, call)
         /\ Replaces(call) => NodeInvoke(db, call) = GoInvoke(db, call)
         /\ ~ChangesOwner(call) /\ ~Replaces(call) => NodeInvoke(db, call).writes = Nothing
<1>1. ChangesOwner(call) => ~BadArguments(call)
  BY BadArgumentsMeans DEF ChangesOwner
<1>2. Error.writes = Nothing
  BY DEF Error, Result
<1> QED
  BY <1>1, <1>2, GoHandlers DEF NodeInvoke, ChangesOwner, Replaces

LEMMA NewCarsTyped ==
  ASSUME NEW call \in Calls, Replaces(call)
  PROVE  DOMAIN NewCars(call) \subseteq Numbers /\ \A n \in DOMAIN NewCars(call) : NewCars(call)[n] \in Cars
<1>1. CASE call.fn = "initLedger"
  <2>1. NewCars(call) = [n \in 0..Len(InitCars)-1 |-> InitCars[n + 1]]
    BY <1>1 DEF NewCars, initLedger, Result
  <2>2. \A n \in 0..Len(InitCars)-1 : InitCars[n + 1] \in Cars
    BY CarsAssumption
  <2> QED
    BY <2>1, <2>2, CarsAssumption
<1>2. CASE call.fn # "initLedger"
  <2>1. NewCars(call) = [k \in {call.args[1]} |-> [spec |-> call.args[2], owner |-> call.args[3]]]
    BY <1>2 DEF NewCars, createCar, Result
  <2>2. call.args[1] \in Numbers /\ call.args[2] \in Specs /\ call.args[3] \in Owners
    BY <1>2, CallsAssumption DEF Replaces
  <2> QED
    BY <2>1, <2>2 DEF Cars
<1> QED
  BY <1>1, <1>2

LEMMA CarsDiffer ==
  /\ Cars \cap Ghosts = {} /\ NoCar \notin Cars /\ NoCar \notin Ghosts
  BY CarsAssumption, NoCarAssumption DEF Cars, Ghosts

-----------------------------------------------------------------------------
\* What is known of a change of owner on its way: as long as nobody has
\* written the car since, it writes what it would write now.  Node has
\* endorsed it if and only if the car was a real one, and then the one ledger
\* still has the version it saw if and only if the other has.
ChangeInv(c) ==
  LET n == tx[c].call.args[1]
      o == tx[c].call.args[2]
      e == tx[c].go
      f == tx[c].node
  IN  /\ DOMAIN e.seen = {n} /\ e.seen[n] \in Nat /\ e.seen[n] <= go[n].version
      /\ go[n].version = e.seen[n] => e.writes = Owned(go, n, o)
      /\ \/ /\ f.writes = Nothing
            /\ go[n].version = e.seen[n] => go[n].car \notin Cars
         \/ /\ DOMAIN f.seen = {n} /\ f.seen[n] \in Nat /\ f.seen[n] <= node[n].version
            /\ node[n].version = f.seen[n] <=> go[n].version = e.seen[n]
            /\ go[n].version = e.seen[n] => go[n].car \in Cars /\ f.writes = Owned(go, n, o)

\* What is known of a call that was endorsed.
TxInv(c) ==
  LET call == tx[c].call
      e == tx[c].go
      f == tx[c].node
  IN  /\ call \in Calls
      /\ ChangesOwner(call) => ChangeInv(c)
      /\ Replaces(call) => /\ e.seen = [n \in {} |-> NoCar] /\ e.writes = NewCars(call)
                           /\ f.seen = [n \in {} |-> NoCar] /\ f.writes = NewCars(call)
      /\ ~ChangesOwner(call) /\ ~Replaces(call) => e.writes = Nothing /\ f.writes = Nothing

IndInv ==
  /\ TypeOK /\ SameCars
  /\ tx = [c \in Clients |-> tx[c]]
  /\ \A c \in Clients : pc[c] = "endorsed" => TxInv(c)

LEMMA InitEstablishes == Init => IndInv
<1> SUFFICES ASSUME Init PROVE IndInv
  OBVIOUS
<1>1. TypeOK
  BY DEF Init, TypeOK
<1>2. SameCars
  BY CarsDiffer DEF Init, SameCars
<1>3. tx = [c \in Clients |-> tx[c]]
  BY DEF Init
<1>4. \A c \in Clients : pc[c] # "endorsed"
  BY DEF Init
<1> QED
  BY <1>1, <1>2, <1>3, <1>4 DEF IndInv

\* A new endorsement is of the present ledgers.
LEMMA EndorsementKnown ==
  ASSUME TypeOK, SameCars, NEW c \in Clients, NEW call \in Calls, UNCHANGED <<go, node>>,
         tx'[c] = [call |-> call,
                  go   |-> Endorsement(go, GoInvoke(go, call)),
                  node |-> Endorsement(node, NodeInvoke(node, call))]
  PROVE  TxInv(c)'
<1> DEFINE e == tx'[c].go
           f == tx'[c].node
<1>1. tx'[c].call = call /\ e = Endorsement(go, GoInvoke(go, call))
      /\ f = Endorsement(node, NodeInvoke(node, call))
  OBVIOUS
<1> HIDE DEF e, f
<1>2. CASE ChangesOwner(call)
  <2> DEFINE n == call.args[1]
             o == call.args[2]
  <2>1. n \in Numbers /\ go[n].version \in Nat /\ node[n].version \in Nat
        /\ go[n].car \in Cars \cup Ghosts \cup {NoCar}
    BY <1>2, CallsAssumption DEF ChangesOwner, TypeOK
  <2>2. e.seen = [k \in {n} |-> go[k].version] /\ e.writes = Owned(go, n, o)
    BY <1>1, <1>2, GoHandlers DEF Endorsement, Result
  <2>3. CASE node[n].car = NoCar
    <3>1. f.writes = Nothing
      BY <1>1, <1>2, <2>3, NodeHandlers DEF Endorsement, Error, Result
    <3>2. go[n].car \notin Cars
      BY <2>1, <2>3, CarsDiffer DEF SameCars
    <3>3. ChangeInv(c)'
      BY <1>1, <2>1, <2>2, <3>1, <3>2 DEF ChangeInv, e, f
    <3> QED
      BY <1>1, <1>2, <3>3 DEF TxInv, ChangesOwner, Replaces
  <2>4. CASE node[n].car # NoCar
    <3>1. f.seen = [k \in {n} |-> node[k].version] /\ f.writes = Owned(node, n, o)
      BY <1>1, <1>2, <2>4, GoHandlers, NodeHandlers DEF Endorsement, Result
    <3>2. go[n].car \in Cars /\ node[n].car = go[n].car
      BY <2>1, <2>4, CarsDiffer DEF SameCars
    <3>3. f.writes = Owned(go, n, o)
      BY <3>1, <3>2 DEF Owned
    <3>4. ChangeInv(c)'
      BY <1>1, <2>1, <2>2, <3>1, <3>2, <3>3 DEF ChangeInv, e, f
    <3> QED
      BY <1>1, <1>2, <3>4 DEF TxInv, ChangesOwner, Replaces
  <2> QED
    BY <2>3, <2>4
<1>3. CASE Replaces(call)
  <2>1. ~ChangesOwner(call)
    BY <1>3 DEF ChangesOwner, Replaces
  <2>2. e.seen = [n \in {} |-> NoCar] /\ e.writes = NewCars(call)
    BY <1>1, <1>3, GoHandlers DEF Endorsement, Result
  <2>3. f.seen = [n \in {} |-> NoCar] /\ f.writes = NewCars(call)
    BY <1>1, <1>3, GoHandlers, NodeHandlers DEF Endorsement, Result
  <2> QED
    BY <1>1, <1>3, <2>1, <2>2, <2>3 DEF TxInv, e, f
<1>4. CASE ~ChangesOwner(call) /\ ~Replaces(call)
  <2>1. e.writes = Nothing /\ f.writes = Nothing
    BY <1>1, <1>4, GoHandlers, NodeHandlers DEF Endorsement
  <2> QED
    BY <1>1, <1>4, <2>1 DEF TxInv, e, f
<1> QED
  BY <1>2, <1>3, <1>4

-----------------------------------------------------------------------------
\* What a commit can do to the ledgers: the same new cars on both, or a ghost
\* on Go's where no real car is.
BothWrite(w) ==
  /\ DOMAIN w \subseteq Numbers /\ \A n \in DOMAIN w : w[n] \in Cars
  /\ go' = Written(go, w) /\ node' = Written(node, w)

GhostWrite(n, g) ==
  /\ go[n].car \notin Cars
  /\ go' = Written(go, [k \in {n} |-> g]) /\ UNCHANGED node

LEMMA NothingWritten ==
  ASSUME NEW db \in States
  PROVE  Written(db, Nothing) = db
  BY DEF Written, Nothing, States

LEMMA ValidOne ==
  ASSUME NEW db, NEW e, NEW n, DOMAIN e.seen = {n}
  PROVE  Valid(db, e) <=> db[n].version = e.seen[n]
  BY DEF Valid

LEMMA OwnedTyped ==
  ASSUME TypeOK, NEW n \in Numbers, NEW o \in Owners
  PROVE  /\ go[n].car \in Cars => Owned(go, n, o)[n] \in Cars
         /\ go[n].car \notin Cars => Owned(go, n, o) = [k \in {n} |-> [spec |-> NoSpec, owner |-> o]]
<1>1. CASE go[n].car \in Cars
  <2>1. go[n].car # NoCar /\ go[n].car.spec \in Specs
    BY <1>1, CarsDiffer DEF Cars
  <2> QED
    BY <1>1, <2>1 DEF Owned, Cars
<1>2. CASE go[n].car \notin Cars
  <2>1. go[n].car \in Ghosts \cup {NoCar}
    BY <1>2 DEF TypeOK
  <2>2. go[n].car # NoCar => go[n].car.spec = NoSpec
    BY <2>1 DEF Ghosts
  <2> QED
    BY <1>2, <2>2 DEF Owned
<1> QED
  BY <1>1, <1>2

LEMMA CommitOutcome ==
  ASSUME IndInv, NEW c \in Clients, Commit(c)
  PROVE  \/ UNCHANGED <<go, node>>
         \/ \E w : BothWrite(w)
         \/ \E n \in Numbers, g \in Ghosts : GhostWrite(n, g)
<1> DEFINE call == tx[c].call
           e == tx[c].go
           f == tx[c].node
           n == call.args[1]
           o == call.args[2]
<1>1. go \in States /\ node \in States /\ TypeOK
  BY DEF IndInv, TypeOK, States
<1>2. TxInv(c) /\ call \in Calls
  BY DEF IndInv, Commit, TxInv
<1>3. go' = (IF Valid(go, e) THEN Written(go, e.writes) ELSE go)
      /\ node' = (IF Valid(node, f) THEN Written(node, f.writes) ELSE node)
  BY DEF Commit, Apply
<1>4. CASE ChangesOwner(call)
  <2>1. ChangeInv(c) /\ n \in Numbers /\ o \in Owners
    BY <1>2, <1>4, CallsAssumption DEF TxInv, ChangesOwner
  <2>2. /\ DOMAIN e.seen = {n}
        /\ go[n].version = e.seen[n] => e.writes = Owned(go, n, o)
        /\ \/ /\ f.writes = Nothing
              /\ go[n].version = e.seen[n] => go[n].car \notin Cars
           \/ /\ DOMAIN f.seen = {n}
              /\ node[n].version = f.seen[n] <=> go[n].version = e.seen[n]
              /\ go[n].version = e.seen[n] => go[n].car \in Cars /\ f.writes = Owned(go, n, o)
    BY <2>1 DEF ChangeInv
  <2> HIDE DEF e, f, n, o
  <2>3. Valid(go, e) <=> go[n].version = e.seen[n]
    BY <2>2, ValidOne
  <2>4. CASE f.writes = Nothing /\ (go[n].version = e.seen[n] => go[n].car \notin Cars)
    <3>1. UNCHANGED node
      BY <1>1, <1>3, <2>4, NothingWritten
    <3>2. ASSUME Valid(go, e)
          PROVE  GhostWrite(n, [spec |-> NoSpec, owner |-> o]) /\ [spec |-> NoSpec, owner |-> o] \in Ghosts
      <4>1. Owned(go, n, o) = [k \in {n} |-> [spec |-> NoSpec, owner |-> o]]
        BY <1>1, <2>1, <2>3, <2>4, <3>2, OwnedTyped
      <4> QED
        BY <1>3, <2>1, <2>2, <2>3, <2>4, <3>1, <3>2, <4>1 DEF GhostWrite, Ghosts
    <3> QED
      BY <1>3, <2>1, <3>1, <3>2
  <2>5. CASE /\ DOMAIN f.seen = {n}
             /\ node[n].version = f.seen[n] <=> go[n].version = e.seen[n]
             /\ go[n].version = e.seen[n] => go[n].car \in Cars /\ f.writes = Owned(go, n, o)
    <3>1. Valid(node, f) <=> Valid(go, e)
      BY <2>3, <2>5, ValidOne
    <3>2. CASE Valid(go, e)
      <4>1. Owned(go, n, o)[n] \in Cars /\ DOMAIN Owned(go, n, o) = {n}
        BY <1>1, <2>1, <2>3, <2>5, <3>2, OwnedTyped DEF Owned
      <4>2. BothWrite(Owned(go, n, o))
        BY <1>3, <2>1, <2>2, <2>3, <2>5, <3>1, <3>2, <4>1 DEF BothWrite
      <4> QED
        BY <4>2
    <3> QED
      BY <1>3, <3>1, <3>2
  <2> QED
    BY <2>2, <2>4, <2>5
<1>5. CASE Replaces(call)
  <2>1. ~ChangesOwner(call)
    BY <1>5 DEF ChangesOwner, Replaces
  <2>2. /\ e.seen = [k \in {} |-> NoCar] /\ e.writes = NewCars(call)
        /\ f.seen = [k \in {} |-> NoCar] /\ f.writes = NewCars(call)
    BY <1>2, <1>5 DEF TxInv
  <2>3. Valid(go, e) /\ Valid(node, f)
    BY <2>2 DEF Valid
  <2>4. BothWrite(NewCars(call))
    BY <1>2, <1>3, <1>5, <2>2, <2>3, NewCarsTyped DEF BothWrite
  <2> QED
    BY <2>4
<1>6. CASE ~ChangesOwner(call) /\ ~Replaces(call)
  BY <1>1, <1>2, <1>3, <1>6, NothingWritten DEF TxInv
<1> QED
  BY <1>4, <1>5, <1>6

LEMMA WrittenFacts ==
  ASSUME NEW db \in States, NEW w, DOMAIN w \subseteq Numbers,
         \A n \in DOMAIN w : w[n] \in Cars \cup Ghosts
  PROVE  /\ Written(db, w) \in States
         /\ \A n \in DOMAIN w : /\ Written(db, w)[n].car = w[n]
                                /\ Written(db, w)[n].version = db[n].version + 1
         /\ \A n \in Numbers : n \notin DOMAIN w => Written(db, w)[n] = db[n]
  BY DEF Written, States

\* A commit writes the cars of S, on Go's ledger and, where they were real
\* ones or become so, on Node's.
Touches(S) ==
  /\ S \subseteq Numbers
  /\ \A n \in Numbers \ S : go'[n] = go[n] /\ node'[n] = node[n]
  /\ \A n \in S : /\ go'[n].version = go[n].version + 1
                  /\ \/ node'[n].version = node[n].version + 1
                     \/ node'[n] = node[n] /\ go[n].car \notin Cars

\* No commit disturbs what is known of the other calls on their way.
LEMMA OutcomePreserves ==
  ASSUME IndInv,
         \/ UNCHANGED <<go, node>>
         \/ \E w : BothWrite(w)
         \/ \E n \in Numbers, g \in Ghosts : GhostWrite(n, g)
  PROVE  /\ go' \in States /\ node' \in States /\ SameCars'
         /\ \A c \in Clients : TxInv(c) /\ tx'[c] = tx[c] => TxInv(c)'
<1>1. go \in States /\ node \in States /\ TypeOK /\ SameCars
  BY DEF IndInv, TypeOK, States
<1>2. PICK S : Touches(S) /\ go' \in States /\ node' \in States /\ SameCars'
  <2>1. CASE UNCHANGED <<go, node>>
    <3>1. SameCars'
      BY <1>1, <2>1 DEF SameCars
    <3>2. Touches({})
      BY <2>1 DEF Touches
    <3> QED
      BY <1>1, <2>1, <3>1, <3>2
  <2>2. ASSUME NEW w, BothWrite(w)
        PROVE  \E S : Touches(S) /\ go' \in States /\ node' \in States /\ SameCars'
    <3>1. /\ go' \in States
          /\ \A n \in DOMAIN w : go'[n].car = w[n] /\ go'[n].version = go[n].version + 1
          /\ \A n \in Numbers : n \notin DOMAIN w => go'[n] = go[n]
      BY <1>1, <2>2, WrittenFacts DEF BothWrite
    <3>2. /\ node' \in States
          /\ \A n \in DOMAIN w : node'[n].car = w[n] /\ node'[n].version = node[n].version + 1
          /\ \A n \in Numbers : n \notin DOMAIN w => node'[n] = node[n]
      BY <1>1, <2>2, WrittenFacts DEF BothWrite
    <3>3. SameCars'
      BY <1>1, <2>2, <3>1, <3>2, CarsDiffer DEF SameCars, BothWrite
    <3>4. Touches(DOMAIN w)
      BY <2>2, <3>1, <3>2 DEF Touches, BothWrite
    <3> QED
      BY <3>1, <3>2, <3>3, <3>4
  <2>3. ASSUME NEW m \in Numbers, NEW g \in Ghosts, GhostWrite(m, g)
        PROVE  \E S : Touches(S) /\ go' \in States /\ node' \in States /\ SameCars'
    <3> DEFINE w == [k \in {m} |-> g]
    <3>1. /\ go' \in States
          /\ go'[m].car = g /\ go'[m].version = go[m].version + 1
          /\ \A n \in Numbers : n # m => go'[n] = go[n]
      <4>1. DOMAIN w = {m} /\ w[m] = g
        OBVIOUS
      <4>2. go' = Written(go, w)
        BY <2>3 DEF GhostWrite
      <4> HIDE DEF w
      <4> QED
        BY <1>1, <4>1, <4>2, WrittenFacts
    <3>2. UNCHANGED node /\ go[m].car \notin Cars /\ go[m].car \in Ghosts \cup {NoCar}
      BY <1>1, <2>3 DEF GhostWrite, States
    <3>3. SameCars'
      <4>1. node[m].car = NoCar
        BY <1>1, <3>2 DEF SameCars
      <4> QED
        BY <1>1, <3>1, <3>2, <4>1, CarsDiffer DEF SameCars
    <3> HIDE DEF w
    <3>4. Touches({m})
      BY <3>1, <3>2 DEF Touches
    <3> QED
      BY <1>1, <3>1, <3>2, <3>3, <3>4
  <2> QED
    BY <2>1, <2>2, <2>3
<1>3. ASSUME NEW c \in Clients, TxInv(c), tx'[c] = tx[c] PROVE TxInv(c)'
  <2> DEFINE call == tx[c].call
             n == call.args[1]
             o == call.args[2]
             e == tx[c].go
             f == tx[c].node
  <2>1. CASE ~ChangesOwner(call)
    BY <1>3, <2>1 DEF TxInv, ChangesOwner, Replaces
  <2>2. CASE ChangesOwner(call)
    <3>1. ChangeInv(c) /\ n \in Numbers /\ ~Replaces(call) /\ call \in Calls
      BY <1>3, <2>2, CallsAssumption DEF TxInv, ChangesOwner, Replaces
    <3>2. go[n].version \in Nat /\ node[n].version \in Nat
      BY <1>1, <3>1 DEF States
    <3>3. /\ DOMAIN e.seen = {n} /\ e.seen[n] \in Nat /\ e.seen[n] <= go[n].version
          /\ go[n].version = e.seen[n] => e.writes = Owned(go, n, o)
          /\ \/ /\ f.writes = Nothing
                /\ go[n].version = e.seen[n] => go[n].car \notin Cars
             \/ /\ DOMAIN f.seen = {n} /\ f.seen[n] \in Nat /\ f.seen[n] <= node[n].version
                /\ node[n].version = f.seen[n] <=> go[n].version = e.seen[n]
                /\ go[n].version = e.seen[n] => go[n].car \in Cars /\ f.writes = Owned(go, n, o)
      BY <3>1 DEF ChangeInv
    <3> HIDE DEF n, o, e, f
    <3>4. CASE n \notin S
      <4>1. go'[n] = go[n] /\ node'[n] = node[n]
        BY <1>2, <3>1, <3>4 DEF Touches
      <4>2. Owned(go', n, o) = Owned(go, n, o)
        BY <4>1 DEF Owned
      <4>3. /\ DOMAIN e.seen = {n} /\ e.seen[n] \in Nat /\ e.seen[n] <= go'[n].version
            /\ go'[n].version = e.seen[n] => e.writes = Owned(go', n, o)
            /\ \/ /\ f.writes = Nothing
                  /\ go'[n].version = e.seen[n] => go'[n].car \notin Cars
               \/ /\ DOMAIN f.seen = {n} /\ f.seen[n] \in Nat /\ f.seen[n] <= node'[n].version
                  /\ node'[n].version = f.seen[n] <=> go'[n].version = e.seen[n]
                  /\ go'[n].version = e.seen[n] => go'[n].car \in Cars /\ f.writes = Owned(go', n, o)
        BY <3>3, <4>1, <4>2
      <4>4. ChangeInv(c)'
        BY <1>3, <4>3 DEF ChangeInv, n, o, e, f
      <4> QED
        BY <1>3, <2>2, <3>1, <4>4 DEF TxInv
    <3>5. CASE n \in S
      <4>1. go'[n].version = go[n].version + 1 /\ go'[n].version # e.seen[n] /\ e.seen[n] <= go'[n].version
        BY <1>2, <3>2, <3>3, <3>5 DEF Touches
      <4>3. /\ DOMAIN e.seen = {n} /\ e.seen[n] \in Nat /\ e.seen[n] <= go'[n].version
            /\ go'[n].version = e.seen[n] => e.writes = Owned(go', n, o)
            /\ \/ /\ f.writes = Nothing
                  /\ go'[n].version = e.seen[n] => go'[n].car \notin Cars
               \/ /\ DOMAIN f.seen = {n} /\ f.seen[n] \in Nat /\ f.seen[n] <= node'[n].version
                  /\ node'[n].version = f.seen[n] <=> go'[n].version = e.seen[n]
                  /\ go'[n].version = e.seen[n] => go'[n].car \in Cars /\ f.writes = Owned(go', n, o)
        BY <1>2, <3>2, <3>3, <3>5, <4>1 DEF Touches
      <4>4. ChangeInv(c)'
        BY <1>3, <4>3 DEF ChangeInv, n, o, e, f
      <4> QED
        BY <1>3, <2>2, <3>1, <4>4 DEF TxInv
    <3> QED
      BY <3>4, <3>5
  <2> QED
    BY <2>1, <2>2
<1> QED
  BY <1>2, <1>3

LEMMA Preserved == IndInv /\ [Next]_vars => IndInv'
<1> SUFFICES ASSUME IndInv, [Next]_vars PROVE IndInv'
  OBVIOUS
<1>1. /\ TypeOK /\ SameCars /\ tx = [c \in Clients |-> tx[c]]
      /\ pc \in [Clients -> {"idle", "endorsed", "ended"}]
      /\ \A c \in Clients : pc[c] = "endorsed" => TxInv(c)
      /\ \A c \in Clients : pc[c] # "idle" => tx[c].call \in Calls
  BY DEF IndInv, TypeOK
<1>2. ASSUME NEW c \in Clients, NEW call \in Calls, Endorse(c, call) PROVE IndInv'
  <2> DEFINE new == [call |-> call,
                     go   |-> Endorsement(go, GoInvoke(go, call)),
                     node |-> Endorsement(node, NodeInvoke(node, call))]
  <2>1. UNCHANGED <<go, node>> /\ tx' = [tx EXCEPT ![c] = new] /\ pc' = [pc EXCEPT ![c] = "endorsed"]
    BY <1>2 DEF Endorse
  <2>2. new.call = call /\ tx'[c] = [call |-> call,
                                     go   |-> Endorsement(go, GoInvoke(go, call)),
                                     node |-> Endorsement(node, NodeInvoke(node, call))]
    BY <1>1, <2>1
  <2> HIDE DEF new
  <2>3. /\ tx' = [d \in Clients |-> tx'[d]] /\ tx'[c] = new
        /\ \A d \in Clients : d # c => tx'[d] = tx[d] /\ pc'[d] = pc[d]
    BY <1>1, <2>1
  <2>4. TypeOK' /\ SameCars'
    BY <1>1, <2>1, <2>2, <2>3 DEF TypeOK, SameCars
  <2>5. TxInv(c)'
    BY <1>1, <2>1, <2>2, EndorsementKnown
  <2>6. \A d \in Clients : d # c /\ pc'[d] = "endorsed" => TxInv(d)'
    BY <1>1, <2>1, <2>3, OutcomePreserves
  <2> QED
    BY <2>3, <2>4, <2>5, <2>6 DEF IndInv
<1>3. ASSUME NEW c \in Clients, Commit(c) PROVE IndInv'
  <2>1. UNCHANGED tx /\ pc' = [pc EXCEPT ![c] = "ended"] /\ pc[c] = "endorsed"
    BY <1>3 DEF Commit
  <2>2. /\ go' \in States /\ node' \in States /\ SameCars'
        /\ \A d \in Clients : TxInv(d) /\ tx'[d] = tx[d] => TxInv(d)'
    BY <1>3, CommitOutcome, OutcomePreserves
  <2>3. TypeOK'
    BY <1>1, <2>1, <2>2 DEF TypeOK, States
  <2>4. \A d \in Clients : pc'[d] = "endorsed" => TxInv(d)'
    BY <1>1, <2>1, <2>2
  <2> QED
    BY <1>1, <2>1, <2>2, <2>3, <2>4 DEF IndInv
<1>4. ASSUME NEW c \in Clients, Drop(c) PROVE IndInv'
  <2>1. UNCHANGED <<go, node, tx>> /\ pc' = [pc EXCEPT ![c] = "ended"] /\ pc[c] = "endorsed"
    BY <1>4 DEF Drop
  <2>2. SameCars' /\ \A d \in Clients : TxInv(d) /\ tx'[d] = tx[d] => TxInv(d)'
    BY <2>1, OutcomePreserves
  <2>3. TypeOK'
    BY <1>1, <2>1 DEF TypeOK
  <2>4. \A d \in Clients : pc'[d] = "endorsed" => TxInv(d)'
    BY <1>1, <2>1, <2>2
  <2> QED
    BY <1>1, <2>1, <2>2, <2>3, <2>4 DEF IndInv
<1>5. CASE UNCHANGED vars
  <2>1. UNCHANGED <<go, node, tx, pc>>
    BY <1>5 DEF vars
  <2>2. SameCars' /\ \A d \in Clients : TxInv(d) /\ tx'[d] = tx[d] => TxInv(d)'
    BY <2>1, OutcomePreserves
  <2>3. TypeOK'
    BY <1>1, <2>1 DEF TypeOK
  <2> QED
    BY <1>1, <2>1, <2>2, <2>3 DEF IndInv
<1> QED
  BY <1>2, <1>3, <1>4, <1>5 DEF Next

LEMMA Inductive == Spec => []IndInv
  BY InitEstablishes, Preserved, PTL DEF Spec

\* Both ledgers hold cars, ghosts or nothing, under versions; every call on
\* its way is one of those that clients make.
THEOREM TypeCorrect == Spec => []TypeOK
<1>1. IndInv => TypeOK
  BY DEF IndInv
<1> QED
  BY Inductive, <1>1, PTL

\* The two chaincodes keep the same cars, but for the ghosts on Go's ledger,
\* however calls cross between endorsement and commit (fabcar.go, lines
\* 95-194; fabcar.js, lines 55-190).
THEOREM CarsAlwaysSame == Spec => []SameCars
<1>1. IndInv => SameCars
  BY DEF IndInv
<1> QED
  BY Inductive, <1>1, PTL

\* A commit that changes a ledger does what the call would do if it ran at
\* that moment (fabcar.go, lines 95-194; fabcar.js, lines 55-190).
THEOREM CommitsAsIfRun == Spec => AsIfRunAtCommit
<1> DEFINE Step(c) ==
      /\ go' # go /\ pc'[c] # pc[c] => go' = Written(go, GoInvoke(go, tx[c].call).writes)
      /\ node' # node /\ pc'[c] # pc[c] => node' = Written(node, NodeInvoke(node, tx[c].call).writes)
<1>1. IndInv /\ [Next]_vars => [\A c \in Clients : Step(c)]_vars
  <2> SUFFICES ASSUME IndInv, Next, NEW c \in Clients, pc'[c] # pc[c]
               PROVE  Step(c)
    BY DEF vars
  <2>1. CASE UNCHANGED <<go, node>>
    BY <2>1
  <2>2. CASE Commit(c)
    <3> DEFINE call == tx[c].call
               e == tx[c].go
               f == tx[c].node
               n == call.args[1]
               o == call.args[2]
    <3>1. go \in States /\ node \in States /\ TypeOK /\ SameCars
      BY DEF IndInv, TypeOK, States
    <3>2. TxInv(c) /\ call \in Calls
      BY <2>2 DEF IndInv, Commit, TxInv
    <3>3. go' = (IF Valid(go, e) THEN Written(go, e.writes) ELSE go)
          /\ node' = (IF Valid(node, f) THEN Written(node, f.writes) ELSE node)
      BY <2>2 DEF Commit, Apply
    <3>4. CASE ChangesOwner(call)
      <4>1. ChangeInv(c) /\ n \in Numbers
        BY <3>2, <3>4, CallsAssumption DEF TxInv, ChangesOwner
      <4>2. GoInvoke(go, call).writes = Owned(go, n, o)
        BY <3>4, GoHandlers DEF Result
      <4>6. /\ DOMAIN e.seen = {n}
            /\ go[n].version = e.seen[n] => e.writes = Owned(go, n, o)
            /\ \/ f.writes = Nothing
               \/ /\ DOMAIN f.seen = {n}
                  /\ node[n].version = f.seen[n] <=> go[n].version = e.seen[n]
                  /\ go[n].version = e.seen[n] => go[n].car \in Cars /\ f.writes = Owned(go, n, o)
        BY <4>1 DEF ChangeInv
      <4>7. n = call.args[1] /\ o = call.args[2]
        OBVIOUS
      <4> HIDE DEF e, f, n, o
      <4>3. Valid(go, e) => e.writes = Owned(go, n, o)
        BY <4>6, ValidOne
      <4>4. CASE f.writes = Nothing
        BY <3>1, <3>3, <4>2, <4>3, <4>4, NothingWritten
      <4>5. CASE /\ DOMAIN f.seen = {n}
                 /\ node[n].version = f.seen[n] <=> go[n].version = e.seen[n]
                 /\ go[n].version = e.seen[n] => go[n].car \in Cars /\ f.writes = Owned(go, n, o)
        <5>1. Valid(node, f) => go[n].car \in Cars /\ f.writes = Owned(go, n, o)
          BY <4>5, ValidOne
        <5>2. go[n].car \in Cars => node[n].car = go[n].car /\ node[n].car # NoCar
          BY <3>1, <4>1, CarsDiffer DEF SameCars
        <5>3. ASSUME go[n].car \in Cars PROVE NodeInvoke(node, call).writes = Owned(go, n, o)
          <6>1. NodeInvoke(node, call) = GoInvoke(node, call)
            BY <3>4, <4>7, <5>2, <5>3, NodeHandlers
          <6>2. GoInvoke(node, call).writes = Owned(node, n, o)
            BY <3>4, <4>7, GoHandlers DEF Result
          <6>3. Owned(node, n, o) = Owned(go, n, o)
            BY <5>2, <5>3 DEF Owned
          <6> QED
            BY <6>1, <6>2, <6>3
        <5> QED
          BY <3>3, <4>2, <4>3, <5>1, <5>3
      <4> QED
        BY <4>4, <4>5, <4>6
    <3>5. CASE Replaces(call)
      <4>1. ~ChangesOwner(call)
        BY <3>5 DEF ChangesOwner, Replaces
      <4>2. e.writes = NewCars(call) /\ f.writes = NewCars(call)
        BY <3>2, <3>5 DEF TxInv
      <4>3. GoInvoke(go, call).writes = NewCars(call) /\ NodeInvoke(node, call).writes = NewCars(call)
        BY <3>5, GoHandlers, NodeHandlers DEF Result
      <4> QED
        BY <3>3, <4>2, <4>3
    <3>6. CASE ~ChangesOwner(call) /\ ~Replaces(call)
      BY <3>1, <3>2, <3>3, <3>6, NothingWritten DEF TxInv
    <3> QED
      BY <3>4, <3>5, <3>6
  <2>3. UNCHANGED <<go, node>> \/ Commit(c)
    <3>1. PICK d \in Clients : (\E call \in Calls : Endorse(d, call)) \/ Commit(d) \/ Drop(d)
      BY DEF Next
    <3>2. Commit(d) => d = c
      BY DEF Commit, IndInv, TypeOK
    <3> QED
      BY <3>1, <3>2 DEF Endorse, Drop
  <2> QED
    BY <2>1, <2>2, <2>3
<1> QED
  BY Inductive, <1>1, PTL DEF Spec, AsIfRunAtCommit

-----------------------------------------------------------------------------
\* The order of the keys.

\* How many digits a number has.
LEMMA DigitsOf ==
  ASSUME NEW n \in Nat
  PROVE  \/ n < 10 /\ Digits(n) = 1
         \/ n >= 10 /\ n < 100 /\ Digits(n) = 2
         \/ n >= 100 /\ n < 1000 /\ Digits(n) = 3
         \/ n >= 1000 /\ Digits(n) = 4
<1> DEFINE D == {d \in {10, 100, 1000} : n >= d}
<1>9. Digits(n) = 1 + Cardinality(D)
  BY DEF Digits
<1>10. \A d : d \in D <=> d \in {10, 100, 1000} /\ n >= d
  OBVIOUS
<1> HIDE DEF D
<1>1. Cardinality({}) = 0 /\ IsFiniteSet({})
  BY FS_EmptySet
<1>2. Cardinality({10}) = 1 /\ IsFiniteSet({10})
  BY FS_Singleton
<1>3. Cardinality({10, 100}) = 2 /\ IsFiniteSet({10, 100})
  <2>1. {10} \cup {100} = {10, 100} /\ 100 \notin {10}
    OBVIOUS
  <2> QED
    BY <1>2, <2>1, FS_AddElement
<1>4. Cardinality({10, 100, 1000}) = 3
  <2>1. {10, 100} \cup {1000} = {10, 100, 1000} /\ 1000 \notin {10, 100}
    OBVIOUS
  <2> QED
    BY <1>3, <2>1, FS_AddElement
<1>5. CASE n < 10
  <2>1. D = {}
    <3>1. \A d : d \in D <=> d \in {}
      BY <1>5, <1>10
    <3> QED
      BY <3>1
  <2> QED
    BY <1>9, <1>1, <1>5, <2>1
<1>6. CASE n >= 10 /\ n < 100
  <2>1. D = {10}
    <3>1. \A d : d \in D <=> d \in {10}
      BY <1>6, <1>10
    <3> QED
      BY <3>1
  <2> QED
    BY <1>9, <1>2, <1>6, <2>1
<1>7. CASE n >= 100 /\ n < 1000
  <2>1. D = {10, 100}
    <3>1. \A d : d \in D <=> d \in {10, 100}
      BY <1>7, <1>10
    <3> QED
      BY <3>1
  <2> QED
    BY <1>9, <1>3, <1>7, <2>1
<1>8. CASE n >= 1000
  <2>1. D = {10, 100, 1000}
    <3>1. \A d : d \in D <=> d \in {10, 100, 1000}
      BY <1>8, <1>10
    <3> QED
      BY <3>1
  <2> QED
    BY <1>9, <1>4, <1>8, <2>1
<1> QED
  BY <1>5, <1>6, <1>7, <1>8

\* What a number is filled up to.
LEMMA FilledOf ==
  ASSUME NEW n \in Nat
  PROVE  \/ n < 10 /\ Digits(n) = 1 /\ Filled(n) = 1000 * n
         \/ n >= 10 /\ n < 100 /\ Digits(n) = 2 /\ Filled(n) = 100 * n
         \/ n >= 100 /\ n < 1000 /\ Digits(n) = 3 /\ Filled(n) = 10 * n
         \/ n >= 1000 /\ Digits(n) = 4 /\ Filled(n) = n
<1> DEFINE z == <<1000, 100, 10, 1>>
<1>1. z[1] = 1000 /\ z[2] = 100 /\ z[3] = 10 /\ z[4] = 1
  OBVIOUS
<1>2. Filled(n) = n * z[Digits(n)]
  BY DEF Filled
<1> HIDE DEF z
<1>3. CASE n < 10 /\ Digits(n) = 1
  BY <1>1, <1>2, <1>3
<1>4. CASE n >= 10 /\ n < 100 /\ Digits(n) = 2
  BY <1>1, <1>2, <1>4
<1>5. CASE n >= 100 /\ n < 1000 /\ Digits(n) = 3
  BY <1>1, <1>2, <1>5
<1>6. CASE n >= 1000 /\ Digits(n) = 4
  BY <1>1, <1>2, <1>6
<1> QED
  BY <1>3, <1>4, <1>5, <1>6, DigitsOf

\* Both are numbers.
LEMMA FilledType ==
  ASSUME NEW n \in Nat
  PROVE  Filled(n) \in Int /\ Digits(n) \in Int
<1>1. 1000 * n \in Int /\ 100 * n \in Int /\ 10 * n \in Int /\ n \in Int
  OBVIOUS
<1> QED
  BY <1>1, FilledOf

\* Strings of different numbers differ.
LEMMA OneKeyEach ==
  ASSUME NEW m \in Nat, NEW n \in Nat, Filled(m) = Filled(n), Digits(m) = Digits(n)
  PROVE  m = n
<1>1. CASE Digits(n) = 1
  <2> DEFINE c == 1000
  <2>1. Filled(m) = c * m /\ Filled(n) = c * n
    BY <1>1, FilledOf
  <2>2. c * m = c * n
    <3> HIDE DEF c
    <3> QED
      BY <2>1
  <2> QED
    BY ONLY <2>2, m \in Nat, n \in Nat
<1>2. CASE Digits(n) = 2
  <2>1. Filled(m) = 100 * m /\ Filled(n) = 100 * n
    BY <1>2, FilledOf
  <2>2. 100 * m = 100 * n
    BY <2>1
  <2> QED
    BY ONLY <2>2, m \in Nat, n \in Nat
<1>3. CASE Digits(n) = 3
  <2>1. Filled(m) = 10 * m /\ Filled(n) = 10 * n
    BY <1>3, FilledOf
  <2>2. 10 * m = 10 * n
    BY <2>1
  <2> QED
    BY ONLY <2>2, m \in Nat, n \in Nat
<1>4. CASE Digits(n) = 4
  <2>1. Filled(m) = m /\ Filled(n) = n
    BY <1>4, FilledOf
  <2> QED
    BY <2>1
<1>5. Digits(n) \in {1, 2, 3, 4}
  BY DigitsOf
<1> QED
  BY <1>1, <1>2, <1>3, <1>4, <1>5

\* The order of the keys is a strict total order.
LEMMA BeforeOrders ==
  /\ \A m \in Nat : ~Before(m, m)
  /\ \A k, m, n \in Nat : Before(k, m) /\ Before(m, n) => Before(k, n)
  /\ \A m, n \in Nat : m # n => Before(m, n) \/ Before(n, m)
<1>1. ASSUME NEW m \in Nat PROVE ~Before(m, m)
  BY FilledType DEF Before
<1>2. ASSUME NEW k \in Nat, NEW m \in Nat, NEW n \in Nat,
             Before(k, m), Before(m, n)
      PROVE  Before(k, n)
  <2>1. /\ Filled(k) \in Int /\ Filled(m) \in Int /\ Filled(n) \in Int
        /\ Digits(k) \in Int /\ Digits(m) \in Int /\ Digits(n) \in Int
    BY FilledType
  <2> QED
    BY <1>2, <2>1 DEF Before
<1>3. ASSUME NEW m \in Nat, NEW n \in Nat, m # n
      PROVE  Before(m, n) \/ Before(n, m)
  <2>1. Filled(m) \in Int /\ Filled(n) \in Int /\ Digits(m) \in Int /\ Digits(n) \in Int
    BY FilledType
  <2>2. Filled(m) # Filled(n) \/ Digits(m) # Digits(n)
    BY <1>3, OneKeyEach
  <2> QED
    BY <2>1, <2>2 DEF Before
<1> QED
  BY <1>1, <1>2, <1>3

\* The range holds CAR0 to CAR998 (and some more).
LEMMA AllInRange == ASSUME NEW n \in 0..998 PROVE InRange(n)
<1>1. Filled(0) = 1000 * 0 /\ Digits(0) = 1
  BY FilledOf
<1>2. Filled(999) = 10 * 999
  BY FilledOf
<1>3. n \in Nat /\ n < 999
  OBVIOUS
<1>4. CASE n < 10 /\ Digits(n) = 1 /\ Filled(n) = 1000 * n
  BY <1>1, <1>2, <1>3, <1>4 DEF InRange, Before
<1>5. CASE n >= 10 /\ n < 100 /\ Digits(n) = 2 /\ Filled(n) = 100 * n
  BY <1>1, <1>2, <1>3, <1>5 DEF InRange, Before
<1>6. CASE n >= 100 /\ n < 1000 /\ Digits(n) = 3 /\ Filled(n) = 10 * n
  BY <1>1, <1>2, <1>3, <1>6 DEF InRange, Before
<1> QED
  BY <1>3, <1>4, <1>5, <1>6, FilledOf

-----------------------------------------------------------------------------
\* The list.

\* There are finitely many keys.
LEMMA NumbersFacts == Numbers \subseteq Nat /\ IsFiniteSet(Numbers)
<1> DEFINE top == 9999
<1>1. Numbers \in SUBSET (0..top) /\ top \in Int
  BY NumbersAssumption
<1> HIDE DEF top
<1>2. IsFiniteSet(0..top) /\ 0..top \subseteq Nat
  BY <1>1, FS_Interval
<1>3. IsFiniteSet(Numbers)
  BY <1>1, <1>2, FS_Subset
<1> QED
  BY <1>1, <1>2, <1>3

\* What comes later has more before it.
LEMMA RankGrows ==
  ASSUME NEW S \in SUBSET Numbers, IsFiniteSet(S), NEW m \in S, NEW n \in S, Before(m, n)
  PROVE  Rank(S, m) < Rank(S, n)
<1> DEFINE A == {k \in S : Before(k, m)}
           B == {k \in S : Before(k, n)}
<1>1. S \subseteq Nat
  BY NumbersFacts
<1>2. A \in SUBSET B /\ A # B
  BY <1>1, BeforeOrders
<1>3. IsFiniteSet(A) /\ IsFiniteSet(B)
  BY FS_Subset
<1>4. Cardinality(A) <= Cardinality(B) /\ Cardinality(A) # Cardinality(B)
  BY <1>2, <1>3, FS_Subset
<1>5. Cardinality(A) \in Nat /\ Cardinality(B) \in Nat
  BY <1>3, FS_CardinalityType
<1> QED
  BY <1>4, <1>5 DEF Rank

\* Every place of the list is taken, by one car.
LEMMA RankPlaces ==
  ASSUME NEW S \in SUBSET Numbers, IsFiniteSet(S)
  PROVE  /\ Cardinality(S) \in Nat
         /\ \A n \in S : Rank(S, n) \in 0..Cardinality(S) - 1
         /\ \A m, n \in S : Rank(S, m) = Rank(S, n) => m = n
         /\ \A i \in 0..Cardinality(S) - 1 : \E n \in S : Rank(S, n) = i
<1> DEFINE size == Cardinality(S)
           f == [n \in S |-> Rank(S, n)]
<1>1. size \in Nat
  BY FS_CardinalityType
<1>2. ASSUME NEW n \in S PROVE Rank(S, n) \in 0..size - 1
  <2> DEFINE B == {k \in S : Before(k, n)}
  <2>1. n \notin B /\ B \in SUBSET S /\ B # S
    BY NumbersFacts, BeforeOrders
  <2>2. IsFiniteSet(B) /\ Cardinality(B) <= size /\ Cardinality(B) # size
    BY <2>1, FS_Subset
  <2>3. Cardinality(B) \in Nat
    BY <2>2, FS_CardinalityType
  <2> HIDE DEF size
  <2> QED
    BY <1>1, <2>2, <2>3 DEF Rank
<1>3. ASSUME NEW m \in S, NEW n \in S, Rank(S, m) = Rank(S, n) PROVE m = n
  <2> SUFFICES ASSUME m # n PROVE FALSE
    OBVIOUS
  <2>1. Before(m, n) \/ Before(n, m)
    BY NumbersFacts, BeforeOrders
  <2>2. Rank(S, m) \in Int /\ Rank(S, n) \in Int
    BY <1>1, <1>2
  <2> QED
    BY <1>3, <2>1, <2>2, RankGrows
<1>4. f \in Injection(S, 0..size - 1)
  <2>1. f \in [S -> 0..size - 1]
    BY <1>2
  <2>2. \A a, b \in S : f[a] = f[b] => a = b
    BY <1>3
  <2> HIDE DEF f, size
  <2> QED
    BY <2>1, <2>2, Fun_IsInj
<1>5. IsFiniteSet(0..size - 1) /\ Cardinality(0..size - 1) = size
  <2> HIDE DEF size
  <2> QED
    BY <1>1, FS_Interval
<1>6. f \in Surjection(S, 0..size - 1)
  <2> HIDE DEF f
  <2> QED
    BY <1>4, <1>5, FS_Injection
<1>7. ASSUME NEW i \in 0..size - 1 PROVE \E n \in S : Rank(S, n) = i
  <2>1. \A t \in 0..size - 1 : \E n \in S : f[n] = t
    <3> HIDE DEF f, size
    <3> QED
      BY <1>6 DEF Surjection
  <2>2. PICK n \in S : f[n] = i
    BY <2>1
  <2> QED
    BY <2>2
<1> HIDE DEF f
<1> QED
  BY <1>1, <1>2, <1>3, <1>7

\* Whatever the ledger holds, queryAllCars (fabcar.go, lines 135-176) lists
\* each car of the range once, nothing else, and in the order of the keys.
THEOREM ListingOf ==
  ASSUME NEW db
  PROVE  /\ Listed(db) = {Listing(db)[i] : i \in DOMAIN Listing(db)}
         /\ \A i, j \in DOMAIN Listing(db) : i < j => Before(Listing(db)[i], Listing(db)[j])
<1> DEFINE S == Listed(db)
           size == Cardinality(S)
           l == Listing(db)
<1>1. S \in SUBSET Numbers /\ IsFiniteSet(S)
  <2>1. S \in SUBSET Numbers
    BY DEF Listed
  <2> HIDE DEF S
  <2> QED
    BY <2>1, NumbersFacts, FS_Subset
<1>2. l = [i \in 1..size |-> CHOOSE n \in S : Rank(S, n) = i - 1]
  BY DEF Listing
<1> HIDE DEF S, size, l
<1>3. size \in Nat
  BY <1>1, RankPlaces DEF size
<1>4. ASSUME NEW i \in 1..size PROVE l[i] \in S /\ Rank(S, l[i]) = i - 1
  <2>1. i - 1 \in 0..size - 1
    BY <1>3
  <2>2. \E n \in S : Rank(S, n) = i - 1
    BY <1>1, <2>1, RankPlaces DEF size
  <2>3. l[i] = CHOOSE n \in S : Rank(S, n) = i - 1
    BY <1>2
  <2> QED
    BY <2>2, <2>3, Zenon
<1>5. ASSUME NEW n \in S PROVE \E i \in 1..size : l[i] = n
  <2>1. Rank(S, n) \in 0..size - 1
    BY <1>1, RankPlaces DEF size
  <2>2. Rank(S, n) + 1 \in 1..size /\ (Rank(S, n) + 1) - 1 = Rank(S, n)
    BY <1>3, <2>1
  <2>3. l[Rank(S, n) + 1] \in S /\ Rank(S, l[Rank(S, n) + 1]) = Rank(S, n)
    BY <1>4, <2>2
  <2>4. l[Rank(S, n) + 1] = n
    BY <1>1, <2>3, RankPlaces
  <2> QED
    BY <2>2, <2>4
<1>6. ASSUME NEW i \in 1..size, NEW j \in 1..size, i < j PROVE Before(l[i], l[j])
  <2>1. l[i] \in S /\ l[j] \in S /\ Rank(S, l[i]) = i - 1 /\ Rank(S, l[j]) = j - 1
    BY <1>4
  <2>2. l[i] # l[j]
    BY <1>6, <2>1
  <2>3. ~Before(l[j], l[i])
    <3> SUFFICES ASSUME Before(l[j], l[i]) PROVE FALSE
      OBVIOUS
    <3>1. Rank(S, l[j]) < Rank(S, l[i])
      BY <1>1, <2>1, RankGrows
    <3> QED
      BY <1>6, <2>1, <3>1
  <2>4. l[i] \in Nat /\ l[j] \in Nat
    BY <1>1, <2>1, NumbersFacts
  <2> QED
    BY <2>2, <2>3, <2>4, BeforeOrders
<1>7. DOMAIN l = 1..size
  BY <1>2
<1>8. S = {l[i] : i \in DOMAIN l}
  BY <1>4, <1>5, <1>7
<1> QED
  BY <1>6, <1>7, <1>8 DEF S, l

\* Every listing is complete and sorted, whatever the ledger holds.
LEMMA ListingsComplete == ListsAll
<1> SUFFICES ASSUME NEW db \in {go, node}
             PROVE  /\ {n \in 0..998 \cap Numbers : db[n].car # NoCar}
                         \subseteq {Listing(db)[i] : i \in DOMAIN Listing(db)}
                    /\ \A i, j \in DOMAIN Listing(db) :
                         i < j => Before(Listing(db)[i], Listing(db)[j])
  BY DEF ListsAll
<1>1. {n \in 0..998 \cap Numbers : db[n].car # NoCar} \subseteq Listed(db)
  BY AllInRange DEF Listed
<1> QED
  BY <1>1, ListingOf

\* queryAllCars (fabcar.go, lines 135-176) misses no car from CAR0 to CAR998
\* and lists no key twice, although keys are compared as strings.
THEOREM ListingsAlwaysComplete == Spec => []ListsAll
BY ListingsComplete, PTL
=============================================================================
