------------------------------- MODULE FabCar -------------------------------
(***************************************************************************)
(* The two fabcar chaincodes, fabcar.go and fabcar.js, side by side: the   *)
(* same calls go to a channel that runs the one and to a channel that runs *)
(* the other, and are committed there in the same order.                   *)
(*                                                                         *)
(* A chaincode runs when a call is endorsed; what it read is compared and  *)
(* what it wrote is applied when the call is committed, after others.      *)
(* Peers and orderer are external.                                         *)
(*                                                                         *)
(* Car n has the key "CAR" followed by the digits of n.  Make, model and   *)
(* colour of a car are one value, its spec.                                *)
(* That Node writes "color" and a docType where Go writes "colour" is left *)
(* out with the rest of the record's layout.                               *)
(***************************************************************************)
EXTENDS Integers, Sequences, FiniteSets

CONSTANTS Numbers,  \* the numbers of the cars that calls are about
          InitCars, \* the cars of initLedger, from number 0 on
          Specs, Owners,
          NoSpec,   \* the empty make, model and colour
          NoCar,    \* what is stored under a key that nobody wrote
          Clients,  \* each submits one call
          Calls     \* the calls clients submit: a function name and arguments

Cars == [spec : Specs, owner : Owners]

ASSUME NumbersAssumption == Numbers \subseteq 0..9999
ASSUME CarsAssumption ==
  InitCars \in Seq(Cars) /\ NoSpec \notin Specs /\ 0..Len(InitCars)-1 \subseteq Numbers

ASSUME NoCarAssumption == NoCar \notin [spec : Specs \cup {NoSpec}, owner : Owners]

\* A call with as many arguments as its function takes is about a car, a spec
\* and an owner; what other calls hold does not matter.
ASSUME CallsAssumption ==
  \A call \in Calls :
    LET args == call.args
    IN  /\ call.fn = "queryCar" /\ Len(args) = 1 => args[1] \in Numbers
        /\ call.fn = "createCar" /\ Len(args) = 3 =>
             args[1] \in Numbers /\ args[2] \in Specs /\ args[3] \in Owners
        /\ call.fn = "changeCarOwner" /\ Len(args) = 2 => args[1] \in Numbers /\ args[2] \in Owners

VARIABLES
  go, node, \* the two ledgers: per car number, the car and its version
  tx,       \* per client, its call and what was endorsed for it on each side
  pc        \* per client, how far its call has come

vars == <<go, node, tx, pc>>

-----------------------------------------------------------------------------
\* Keys in the order of a range query, which compares strings: of two numbers
\* filled up with zeros on the right to four digits, the smaller one; of two
\* that are then the same, the one with fewer digits.
Digits(n) == 1 + Cardinality({d \in {10, 100, 1000} : n >= d})
Filled(n) == n * <<1000, 100, 10, 1>>[Digits(n)]
Before(m, n) ==
  \/ Filled(m) < Filled(n)
  \/ Filled(m) = Filled(n) /\ Digits(m) < Digits(n)

\* Faulty variant: the scan ends one digit earlier.
InRangeShort(n) == ~Before(n, 0) /\ Before(n, 99)

\* startKey "CAR0" and endKey "CAR999", the end exclusive.
InRange(n) == ~Before(n, 0) /\ Before(n, 999)

\* queryAllCars: the numbers of the cars it lists, in its order: the i-th has
\* i - 1 before it.
Listed(db) == {n \in Numbers : InRange(n) /\ db[n].car # NoCar}
Rank(S, n) == Cardinality({m \in S : Before(m, n)})

Listing(db) ==
  LET S == Listed(db)
  IN  [i \in 1..Cardinality(S) |-> CHOOSE n \in S : Rank(S, n) = i - 1]

-----------------------------------------------------------------------------
\* What a run of a chaincode leaves: keys read, cars written.  A run that ends
\* in an error is not endorsed and leaves nothing.
Result(reads, writes) == [reads |-> reads, writes |-> writes]
Nothing == [n \in {} |-> NoCar]
Error   == Result({}, Nothing)

Arity == [queryCar |-> 1, createCar |-> 3, changeCarOwner |-> 2]

BadArguments(call) == call.fn \in DOMAIN Arity /\ Len(call.args) # Arity[call.fn]

initLedger == Result({}, [n \in 0..Len(InitCars)-1 |-> InitCars[n + 1]])

\* Faulty variant: the owner is taken from the wrong argument.
createCarShifted(n, spec, owner) == Result({}, [k \in {n} |-> [spec |-> owner, owner |-> spec]])

\* createCar reads nothing: a car that is there is replaced.
createCar(n, spec, owner) == Result({}, [k \in {n} |-> [spec |-> spec, owner |-> owner]])

queryAllCars == Result({n \in Numbers : InRange(n)}, Nothing)

\* Faulty variant: the car is not read again but taken from what is there.
changeCarOwnerBlind(db, n, owner) ==
  LET old == IF db[n].car = NoCar THEN NoSpec ELSE db[n].car.spec
  IN  Result({}, [k \in {n} |-> [spec |-> old, owner |-> owner]])

\* json.Unmarshal of nothing leaves the empty Car and an error that is
\* dropped: a car that does not exist gets an owner all the same.
changeCarOwner(db, n, owner) ==
  LET old == IF db[n].car = NoCar THEN NoSpec ELSE db[n].car.spec
  IN  Result({n}, [k \in {n} |-> [spec |-> old, owner |-> owner]])

Handlers == {"queryCar", "initLedger", "createCar", "queryAllCars", "changeCarOwner"}

\* queryCar answers with success, and nothing, for a car that is not there.
GoInvoke(db, call) ==
  IF BadArguments(call) THEN Error
  ELSE CASE call.fn = "queryCar"       -> Result({call.args[1]}, Nothing)
         [] call.fn = "initLedger"     -> initLedger
         [] call.fn = "createCar"      -> createCar(call.args[1], call.args[2], call.args[3])
         [] call.fn = "queryAllCars"   -> queryAllCars
         [] call.fn = "changeCarOwner" -> changeCarOwner(db, call.args[1], call.args[2])
         [] call.fn \notin Handlers     -> Error

\* Faulty variant: JSON.parse takes nothing for an object.
NodeInvokeLenient(db, call) == GoInvoke(db, call)

\* fabcar.js: queryCar throws for a car that is not there, and so does
\* changeCarOwner, when it parses nothing; the rest is as in fabcar.go.  (Line
\* 27 calls any property of the object that has the function's name, as Init
\* or toString: no handler, writes nothing, and counts as Error here.)
NodeInvoke(db, call) ==
  IF /\ ~BadArguments(call)
     /\ call.fn \in {"queryCar", "changeCarOwner"}
     /\ db[call.args[1]].car = NoCar
  THEN Error
  ELSE GoInvoke(db, call)

-----------------------------------------------------------------------------
Endorsement(db, r) == [seen |-> [n \in r.reads |-> db[n].version], writes |-> r.writes]

Valid(db, e) == \A n \in DOMAIN e.seen : db[n].version = e.seen[n]

Written(db, writes) ==
  [n \in Numbers |-> IF n \in DOMAIN writes
                     THEN [car |-> writes[n], version |-> db[n].version + 1] ELSE db[n]]

Apply(db, e) == IF Valid(db, e) THEN Written(db, e.writes) ELSE db

Init ==
  /\ go = [n \in Numbers |-> [car |-> NoCar, version |-> 0]]
  /\ node = go
  /\ tx = [c \in Clients |-> NoCar]
  /\ pc = [c \in Clients |-> "idle"]

Endorse(c, call) ==
  /\ pc[c] = "idle"
  /\ pc' = [pc EXCEPT ![c] = "endorsed"]
  /\ tx' = [tx EXCEPT ![c] = [call |-> call,
                              go   |-> Endorsement(go, GoInvoke(go, call)),
                              node |-> Endorsement(node, NodeInvoke(node, call))]]
  /\ UNCHANGED <<go, node>>

Commit(c) ==
  /\ pc[c] = "endorsed"
  /\ pc' = [pc EXCEPT ![c] = "ended"]
  /\ go' = Apply(go, tx[c].go)
  /\ node' = Apply(node, tx[c].node)
  /\ UNCHANGED tx

\* The call is lost on its way to the orderer.
Drop(c) ==
  /\ pc[c] = "endorsed"
  /\ pc' = [pc EXCEPT ![c] = "ended"]
  /\ UNCHANGED <<go, node, tx>>

Next == \E c \in Clients : (\E call \in Calls : Endorse(c, call)) \/ Commit(c) \/ Drop(c)

Spec == Init /\ [][Next]_vars

-----------------------------------------------------------------------------
Ghosts == [spec : {NoSpec}, owner : Owners]

TypeOK ==
  /\ go \in [Numbers -> [car : Cars \cup Ghosts \cup {NoCar}, version : Nat]]
  /\ node \in [Numbers -> [car : Cars \cup Ghosts \cup {NoCar}, version : Nat]]
  /\ pc \in [Clients -> {"idle", "endorsed", "ended"}]
  /\ \A c \in Clients : pc[c] # "idle" => tx[c].call \in Calls

\* The two chaincodes keep the same cars, whatever calls cross each other
\* between endorsement and commit.  Go's ledger has ghosts besides: cars with
\* an owner and nothing else, made by changing the owner of a car that does
\* not exist (fabcar.go, lines 184-191; fabcar.js, line 185).
SameCars ==
  \A n \in Numbers : node[n].car = IF go[n].car \in Ghosts THEN NoCar ELSE go[n].car

\* queryAllCars is meant for the cars CAR0 to CAR998 (fabcar.go, lines
\* 137-138) and misses none of them, though its range is one of strings, in
\* which CAR1000 lies between CAR100 and CAR101; the list has no key twice.
ListsAll ==
  \A db \in {go, node} :
    /\ {n \in 0..998 \cap Numbers : db[n].car # NoCar} \subseteq {Listing(db)[i] : i \in DOMAIN Listing(db)}
    /\ \A i, j \in DOMAIN Listing(db) : i < j => Before(Listing(db)[i], Listing(db)[j])

\* A call that was endorsed against an older ledger and is committed does what
\* it would do if it ran now, on either side: no change of owner brings back
\* what another call has replaced, though createCar and initLedger replace
\* cars without looking.
AsIfRunAtCommit ==
  [][\A c \in Clients :
       /\ go' # go /\ pc'[c] # pc[c] => go' = Written(go, GoInvoke(go, tx[c].call).writes)
       /\ node' # node /\ pc'[c] # pc[c] => node' = Written(node, NodeInvoke(node, tx[c].call).writes)]_vars
=============================================================================
