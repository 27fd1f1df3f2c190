-------------------------------- MODULE Pdc --------------------------------
(***************************************************************************)
(* The private-data payment chaincode of example02_pdc.go in its unit test *)
(* on the MockStub, next to the peer it is deployed on (examples/pdc).     *)
(*                                                                         *)
(* The test sets a transient map and invokes; the same calls go, each with *)
(* the map that was set for it, to a peer.  What is under test is whether  *)
(* the stub shows what the peer does.                                      *)
(*                                                                         *)
(* One collection is in use; MockStub reads one that nobody has written    *)
(* like an empty one.  A JSON field that is missing decodes to 0 or to the *)
(* empty name, a key that the MockStub stores and a peer refuses.          *)
(***************************************************************************)
EXTENDS GoInt, Sequences

CONSTANTS Names,       \* keys of the collection
          Unnamed,     \* the empty one among them
          Nil,         \* no value; a JSON input that is empty or malformed
          Maps,        \* the transient maps that tests set
          EventSlots,  \* capacity of the stub's event channel
          MaxCalls     \* bound on the calls of one test

E2 == INSTANCE Example02

NoMap == [k \in {} |-> Nil]

InitInputs     == [a_name : Names, a_val : GoInts, b_name : Names, b_val : GoInts]
TransferInputs == [sender : Names, receiver : Names, val : GoInts]

ASSUME MapsAssumption == \A map \in Maps :
  /\ DOMAIN map \subseteq {"initData", "transferData"}
  /\ "initData" \in DOMAIN map => map["initData"] = Nil \/ map["initData"] \in InitInputs
  /\ "transferData" \in DOMAIN map =>
       map["transferData"] = Nil \/ map["transferData"] \in TransferInputs
ASSUME UnnamedAssumption == Unnamed \in Names
ASSUME BoundsAssumption == EventSlots \in Nat /\ MaxCalls \in Nat

VARIABLES
  PvtState,     \* the stub's private data
  TransientMap, \* the stub's transient map
  events,       \* chaincode events waiting in the stub's channel
  blocked,      \* the test's goroutine waits for room in that channel
  peer,         \* the private data of the peer
  fresh,        \* history: TransientMap was set since the last call
  strayed,      \* history: a call did what stub and peer do differently
  last,         \* history: the last call and its two answers
  calls         \* history: the number of calls

vars == <<PvtState, TransientMap, events, blocked, peer, fresh, strayed, last, calls>>

-----------------------------------------------------------------------------
\* The handlers, as functions of the private data, the transient map and the
\* arguments.  Results are those of Example02: status, reads, writes, payload
\* and SetEvent calls.  Every handler but an unknown one announces itself
\* before it looks at its input, delete and query after counting arguments.

Decodes(map, key) == key \in DOMAIN map /\ map[key] # Nil

\* An input of init that names an account with the empty string.
NamesNobody(map) ==
  Decodes(map, "initData") /\ Unnamed \in {map["initData"].a_name, map["initData"].b_name}

init(map, args, onPeer) ==
  IF args # <<>> \/ ~Decodes(map, "initData") \/ (onPeer /\ NamesNobody(map))
  THEN E2!Failure(<<"init">>)
  ELSE LET in == map["initData"]
       IN  E2!Success({}, E2!PutBoth(in.a_name, in.a_val, in.b_name, in.b_val), Nil, <<"init">>)

TransferRefuses(db, map) ==
  \/ ~Decodes(map, "transferData")
  \/ db[map["transferData"].sender] = Nil
  \/ db[map["transferData"].receiver] = Nil

\* Both balances are read before either is written, the receiver's last.
Moved(db, in) ==
  E2!PutBoth(in.sender, Wrap(Atoi(db[in.sender]) - in.val),
             in.receiver, Wrap(Atoi(db[in.receiver]) + in.val))

\* Faulty variant: the sender's balance is written before the last check.
transferEarly(db, map) ==
  LET in == map["transferData"]
  IN  IF ~TransferRefuses(db, map)
      THEN E2!Success({in.sender, in.receiver}, Moved(db, in), Nil, <<"transfer">>)
      ELSE [E2!Failure(<<"transfer">>) EXCEPT !.writes =
              IF Decodes(map, "transferData") /\ db[in.sender] # Nil
              THEN [k \in {in.sender} |-> Itoa(Wrap(Atoi(db[k]) - in.val))] ELSE @]

\* Faulty variant: the receiver's balance is read after the debit.
transferChained(db, map) ==
  LET in == map["transferData"]
  IN  IF TransferRefuses(db, map) THEN E2!Failure(<<"transfer">>)
      ELSE E2!Success({in.sender, in.receiver},
                      IF in.sender = in.receiver THEN NoMap ELSE Moved(db, in), Nil, <<"transfer">>)

\* Faulty variant: ints that do not wrap.
transferUnbounded(db, map) ==
  LET in == map["transferData"]
  IN  IF TransferRefuses(db, map) THEN E2!Failure(<<"transfer">>)
      ELSE E2!Success({in.sender, in.receiver},
                      E2!PutBoth(in.sender, db[in.sender].n - in.val,
                                 in.receiver, db[in.receiver].n + in.val), Nil, <<"transfer">>)

transfer(db, map) ==
  LET in == map["transferData"]
  IN  IF TransferRefuses(db, map) THEN E2!Failure(<<"transfer">>)
      ELSE E2!Success({in.sender, in.receiver}, Moved(db, in), Nil, <<"transfer">>)

\* DelPrivateData is "Not Implemented" in the MockStub; a peer deletes.
delete(args, onPeer) ==
  IF Len(args) # 1 THEN E2!Failure(<<>>)
  ELSE IF onPeer THEN E2!Success({}, [k \in {args[1]} |-> Nil], Nil, <<"delete">>)
  ELSE E2!Failure(<<"delete">>)

query(db, args) ==
  IF Len(args) # 1 THEN E2!Failure(<<>>)
  ELSE IF db[args[1]] = Nil THEN E2!Failure(<<"query">>)
  ELSE E2!Success({args[1]}, NoMap, db[args[1]], <<"query">>)

Handlers == {"init", "transfer", "delete", "query"}

Handle(fn, args, db, map, onPeer) ==
  CASE fn = "init"     -> init(map, args, onPeer)
    [] fn = "transfer" -> transfer(db, map)
    [] fn = "delete"   -> delete(args, onPeer)
    [] fn = "query"    -> query(db, args)
    [] fn \notin Handlers -> E2!Failure(<<>>)

-----------------------------------------------------------------------------
Init ==
  /\ PvtState = [k \in Names |-> Nil]
  /\ TransientMap = NoMap
  /\ events = 0 /\ blocked = FALSE
  /\ peer = PvtState
  /\ fresh = FALSE /\ strayed = FALSE
  /\ last = [fn |-> "none", stub |-> 200, peer |-> 200]
  /\ calls = 0

\* The stub keeps the map until another one is set.
SetTransient(map) ==
  /\ ~blocked
  /\ TransientMap' = map
  /\ fresh' = TRUE
  /\ UNCHANGED <<PvtState, events, blocked, peer, strayed, last, calls>>

\* Faulty variant: the last slot is never used.
AnnounceShort(announced) ==
  IF announced # <<>> /\ events + 1 >= EventSlots
  THEN blocked' = TRUE /\ UNCHANGED events
  ELSE events' = events + Len(announced) /\ UNCHANGED blocked

\* One SetEvent of a call: on a full channel the goroutine waits for itself.
Announce(announced) ==
  IF announced # <<>> /\ events = EventSlots
  THEN blocked' = TRUE /\ UNCHANGED events
  ELSE events' = events + Len(announced) /\ UNCHANGED blocked

\* Private data of the stub after a run: writes are there at once, and stay
\* also when the run fails.
PutPrivateData(db, r) == E2!Write(db, r.writes)

\* A peer forgets the writes of a run that fails.
Committed(db, r) == IF r.status = 200 THEN E2!Write(db, r.writes) ELSE db

\* What the stub does otherwise than a peer: it passes on the map of an
\* earlier call, stores under the empty name, and does not delete.
Differs(fn, args, map) ==
  \/ fn \in {"init", "transfer"} /\ map # TransientMap
  \/ fn = "init" /\ args = <<>> /\ NamesNobody(TransientMap)
  \/ fn = "delete" /\ Len(args) = 1

\* MockInvoke: the run on the stub, and the same call on the peer.
MockInvoke(fn, args) ==
  LET map == IF fresh THEN TransientMap ELSE NoMap
      r == Handle(fn, args, PvtState, TransientMap, FALSE)
      p == Handle(fn, args, peer, map, TRUE)
  IN  /\ ~blocked /\ calls < MaxCalls
      /\ Announce(r.events)
      /\ PvtState' = IF blocked' THEN PvtState ELSE PutPrivateData(PvtState, r)
      /\ peer' = Committed(peer, p)
      /\ fresh' = FALSE
      /\ strayed' = (strayed \/ Differs(fn, args, map))
      /\ last' = [fn |-> fn, stub |-> IF blocked' THEN 0 ELSE r.status, peer |-> p.status]
      /\ calls' = calls + 1
      /\ UNCHANGED TransientMap

ReceiveEvent ==
  /\ ~blocked
  /\ events > 0
  /\ events' = events - 1
  /\ UNCHANGED <<PvtState, TransientMap, blocked, peer, fresh, strayed, last, calls>>

\* The function names in use; invoke stands for those the chaincode does not
\* know.
Called    == {"init", "transfer", "delete", "query", "invoke"}
Arguments == {<<>>} \cup {<<k>> : k \in Names}

Next ==
  \/ \E map \in Maps : SetTransient(map)
  \/ \E fn \in Called, args \in Arguments : MockInvoke(fn, args)
  \/ ReceiveEvent

Spec == Init /\ [][Next]_vars

-----------------------------------------------------------------------------
Stored == [n : GoInts, spelling : {"plain"}] \cup {Nil}

TypeOK ==
  /\ PvtState \in [Names -> Stored] /\ peer \in [Names -> Stored]
  /\ TransientMap \in Maps \cup {NoMap}
  /\ events \in 0..EventSlots
  /\ blocked \in BOOLEAN /\ fresh \in BOOLEAN /\ strayed \in BOOLEAN
  /\ last \in [fn : Called \cup {"none"}, stub : {0, 200, 500}, peer : {200, 500}]
  /\ calls \in 0..MaxCalls

\* A unit test shows what the deployed chaincode does: as long as each call
\* that needs a transient map has one set for it, nobody is nameless and
\* nothing is deleted, the stub holds the peer's private data and answers
\* alike, refused calls included.  The stub has no roll-back (mockstub.go, lines 139-145, 171-181),
\* so this rests on the handlers writing nothing before their last check.
StubLikePeer ==
  ~strayed /\ ~blocked => PvtState = peer /\ last.stub = last.peer

\* The event channel has "large capacity for non-blocking setEvent calls"
\* (mockstub.go, line 445): a test that receives no events hangs, but not
\* before it has made more calls than there are slots, whatever these calls
\* were and however many of them were refused.
HangsOnlyWhenFull == blocked => calls > EventSlots

\* The port kept the meaning: a transfer moves what invoke of
\* chaincode_example02 moves between the same balances, overflow and payments
\* from an account to itself included, and is refused when that is.
MatchesExample02 ==
  [][calls' # calls /\ ~blocked' /\ last'.fn = "transfer" /\ Decodes(TransientMap, "transferData")
     => LET in == TransientMap["transferData"]
            r  == E2!invoke(PvtState, <<in.sender, in.receiver, Itoa(in.val)>>)
        IN  last'.stub = r.status /\ PvtState' = E2!Write(PvtState, r.writes)]_vars
=============================================================================
