----------------------------- MODULE PdcProofs -----------------------------
(***************************************************************************)
(* Proofs about Pdc: for any names, transient maps, int width and number   *)
(* of event slots, and for tests of any length.                            *)
(***************************************************************************)
EXTENDS Pdc, TLAPS

-----------------------------------------------------------------------------
\* Ints and strings.
LEMMA WrapType == ASSUME NEW n \in Int PROVE Wrap(n) \in GoInts
BY HalfRangeAssumption DEF Wrap, GoInts, MinInt, MaxInt

LEMMA AtoiType == ASSUME NEW s PROVE Atoi(s) \in GoInts
<1>1. \A n \in Int : Clamp(n) \in GoInts
  BY HalfRangeAssumption DEF Clamp, GoInts, MinInt, MaxInt
<1>2. 0 \in GoInts
  BY HalfRangeAssumption DEF GoInts, MinInt, MaxInt
<1>3. s \in Decimals => s.n \in Int
  BY DEF Decimals
<1> QED
  BY <1>1, <1>2, <1>3 DEF Atoi

LEMMA ItoaType == ASSUME NEW n \in GoInts PROVE Itoa(n) \in Stored
BY DEF Itoa, Stored

LEMMA IntsAreInts == GoInts \subseteq Int
BY DEF GoInts

\* Example02 is over the same ints.
LEMMA SameInts ==
  /\ \A n : E2!Wrap(n) = Wrap(n)
  /\ \A s : E2!Atoi(s) = Atoi(s)
  /\ \A n : E2!Itoa(n) = Itoa(n)
BY DEF E2!Wrap, Wrap, E2!Atoi, Atoi, E2!Itoa, Itoa, E2!Decimals, Decimals, E2!Clamp, Clamp,
       E2!MaxInt, MaxInt, E2!MinInt, MinInt

LEMMA ItoaParses ==
  ASSUME NEW n \in GoInts
  PROVE  E2!Parses(Itoa(n)) /\ E2!Atoi(Itoa(n)) = n
<1>1. Itoa(n) \in Decimals /\ Itoa(n).n = n /\ n \in Int
  BY IntsAreInts DEF Itoa, Decimals
<1>2. Clamp(n) = n
  BY HalfRangeAssumption DEF Clamp, GoInts, MinInt, MaxInt
<1>3. Atoi(Itoa(n)) = n
  BY <1>1, <1>2 DEF Atoi
<1>4. E2!Parses(Itoa(n))
  BY <1>1 DEF E2!Parses, E2!Decimals, Decimals, E2!GoInts, GoInts, E2!MinInt, MinInt, E2!MaxInt, MaxInt
<1> QED
  BY <1>3, <1>4, SameInts

-----------------------------------------------------------------------------
\* What a handler's run leaves: a status, at most one announcement, and writes
\* of balances or deletions; none, if it failed.
Fine(r) ==
  /\ r.status \in {200, 500}
  /\ r.events = <<>> \/ \E e : r.events = <<e>>
  /\ DOMAIN r.writes \subseteq Names
  /\ \A k \in DOMAIN r.writes : r.writes[k] \in Stored
  /\ r.status = 500 => r.writes = [k \in {} |-> Nil]

LEMMA FailureIsFine ==
  /\ Fine(E2!Failure(<<>>))
  /\ \A e : Fine(E2!Failure(<<e>>))
BY DEF Fine, E2!Failure

LEMMA SuccessIsFine ==
  ASSUME NEW reads, NEW writes, NEW payload, NEW e,
         DOMAIN writes \subseteq Names, \A k \in DOMAIN writes : writes[k] \in Stored
  PROVE  /\ Fine(E2!Success(reads, writes, payload, <<e>>))
         /\ E2!Success(reads, writes, payload, <<e>>).status = 200
BY DEF Fine, E2!Success

LEMMA BothAreStored ==
  ASSUME NEW x \in Names, NEW n \in GoInts, NEW y \in Names, NEW m \in GoInts
  PROVE  /\ DOMAIN E2!PutBoth(x, n, y, m) \subseteq Names
         /\ \A k \in DOMAIN E2!PutBoth(x, n, y, m) : E2!PutBoth(x, n, y, m)[k] \in Stored
<1>1. E2!Itoa(n) \in Stored /\ E2!Itoa(m) \in Stored
  BY SameInts, ItoaType
<1> QED
  BY <1>1 DEF E2!PutBoth

LEMMA DecodedInputs ==
  ASSUME NEW map \in Maps \cup {NoMap}
  PROVE  /\ Decodes(map, "initData") => map["initData"] \in InitInputs
         /\ Decodes(map, "transferData") => map["transferData"] \in TransferInputs
<1>1. CASE map = NoMap
  BY <1>1 DEF Decodes, NoMap
<1>2. CASE map \in Maps
  BY <1>2, MapsAssumption DEF Decodes
<1> QED
  BY <1>1, <1>2

LEMMA HandlersAreFine ==
  ASSUME NEW fn, NEW args \in Arguments, NEW db \in [Names -> Stored],
         NEW map \in Maps \cup {NoMap}, NEW onPeer
  PROVE  Fine(Handle(fn, args, db, map, onPeer))
<1>1. CASE fn = "init"
  <2>1. CASE args # <<>> \/ ~Decodes(map, "initData") \/ (onPeer /\ NamesNobody(map))
    <3>1. Handle(fn, args, db, map, onPeer) = E2!Failure(<<"init">>)
      BY <1>1, <2>1 DEF Handle, init, Handlers
    <3> QED
      BY <3>1, FailureIsFine
  <2>2. CASE ~(args # <<>> \/ ~Decodes(map, "initData") \/ (onPeer /\ NamesNobody(map)))
    <3> DEFINE in == map["initData"]
               w  == E2!PutBoth(in.a_name, in.a_val, in.b_name, in.b_val)
    <3>1. Handle(fn, args, db, map, onPeer) = E2!Success({}, w, Nil, <<"init">>)
      BY <1>1, <2>2 DEF Handle, init, Handlers
    <3>2. in.a_name \in Names /\ in.a_val \in GoInts /\ in.b_name \in Names /\ in.b_val \in GoInts
      BY <2>2, DecodedInputs DEF InitInputs
    <3>3. DOMAIN w \subseteq Names /\ \A k \in DOMAIN w : w[k] \in Stored
      BY <3>2, BothAreStored
    <3> HIDE DEF w
    <3> QED
      BY <3>1, <3>3, SuccessIsFine
  <2> QED
    BY <2>1, <2>2
<1>2. CASE fn = "transfer"
  <2>1. CASE TransferRefuses(db, map)
    <3>1. Handle(fn, args, db, map, onPeer) = E2!Failure(<<"transfer">>)
      BY <1>2, <2>1 DEF Handle, transfer, Handlers
    <3> QED
      BY <3>1, FailureIsFine
  <2>2. CASE ~TransferRefuses(db, map)
    <3> DEFINE in == map["transferData"]
               w  == Moved(db, in)
    <3>1. Handle(fn, args, db, map, onPeer) = E2!Success({in.sender, in.receiver}, w, Nil, <<"transfer">>)
      BY <1>2, <2>2 DEF Handle, transfer, Handlers
    <3>2. in.sender \in Names /\ in.receiver \in Names /\ in.val \in GoInts
      BY <2>2, DecodedInputs DEF TransferInputs, TransferRefuses
    <3>3. /\ Wrap(Atoi(db[in.sender]) - in.val) \in GoInts
          /\ Wrap(Atoi(db[in.receiver]) + in.val) \in GoInts
      BY <3>2, AtoiType, WrapType, IntsAreInts
    <3>4. DOMAIN w \subseteq Names /\ \A k \in DOMAIN w : w[k] \in Stored
      BY <3>2, <3>3, BothAreStored DEF Moved
    <3> HIDE DEF w
    <3> QED
      BY <3>1, <3>4, SuccessIsFine
  <2> QED
    BY <2>1, <2>2
<1>3. CASE fn = "delete"
  <2>1. Handle(fn, args, db, map, onPeer) = delete(args, onPeer)
    BY <1>3 DEF Handle, Handlers
  <2>2. CASE Len(args) # 1 \/ ~onPeer
    <3>1. delete(args, onPeer) \in {E2!Failure(<<>>), E2!Failure(<<"delete">>)}
      BY <2>2 DEF delete
    <3> QED
      BY <2>1, <3>1, FailureIsFine
  <2>3. CASE Len(args) = 1 /\ onPeer
    <3> DEFINE w == [k \in {args[1]} |-> Nil]
    <3>1. delete(args, onPeer) = E2!Success({}, w, Nil, <<"delete">>)
      BY <2>3 DEF delete
    <3>2. args[1] \in Names
      BY <2>3 DEF Arguments
    <3>3. DOMAIN w \subseteq Names /\ \A k \in DOMAIN w : w[k] \in Stored
      BY <3>2 DEF Stored
    <3> HIDE DEF w
    <3> QED
      BY <2>1, <3>1, <3>3, SuccessIsFine
  <2> QED
    BY <2>2, <2>3
<1>4. CASE fn = "query"
  <2>1. Handle(fn, args, db, map, onPeer) = query(db, args)
    BY <1>4 DEF Handle, Handlers
  <2>2. \/ query(db, args) \in {E2!Failure(<<>>), E2!Failure(<<"query">>)}
        \/ query(db, args) = E2!Success({args[1]}, NoMap, db[args[1]], <<"query">>)
    BY DEF query
  <2>3. DOMAIN NoMap = {}
    BY DEF NoMap
  <2> QED
    BY <2>1, <2>2, <2>3, FailureIsFine, SuccessIsFine
<1>5. CASE fn \notin Handlers
  <2>1. Handle(fn, args, db, map, onPeer) = E2!Failure(<<>>)
    BY <1>5 DEF Handle, Handlers
  <2> QED
    BY <2>1, FailureIsFine
<1> QED
  BY <1>1, <1>2, <1>3, <1>4, <1>5 DEF Handlers

LEMMA WriteType ==
  ASSUME NEW db \in [Names -> Stored], NEW r, Fine(r)
  PROVE  /\ E2!Write(db, r.writes) \in [Names -> Stored]
         /\ r.status = 500 => E2!Write(db, r.writes) = db
BY DEF Fine, E2!Write

-----------------------------------------------------------------------------
\* The inductive invariant: no more events than calls, and as long as no call
\* strayed, one content.
IndInv ==
  /\ TypeOK /\ StubLikePeer /\ HangsOnlyWhenFull
  /\ events <= calls

LEMMA InitEstablishes == Init => IndInv
<1> SUFFICES ASSUME Init PROVE IndInv
  OBVIOUS
<1>1. TypeOK
  <2>1. last \in [fn : Called \cup {"none"}, stub : {0, 200, 500}, peer : {200, 500}]
    <3>1. last = [fn |-> "none", stub |-> 200, peer |-> 200]
      BY DEF Init
    <3> QED
      BY <3>1
  <2>2. PvtState \in [Names -> Stored] /\ peer \in [Names -> Stored] /\ TransientMap = NoMap
    BY DEF Init, Stored
  <2>3. events \in 0..EventSlots /\ calls \in 0..MaxCalls
    BY BoundsAssumption DEF Init
  <2>4. blocked \in BOOLEAN /\ fresh \in BOOLEAN /\ strayed \in BOOLEAN
    BY DEF Init
  <2> QED
    BY <2>1, <2>2, <2>3, <2>4 DEF TypeOK
<1>2. StubLikePeer /\ HangsOnlyWhenFull /\ events <= calls
  BY DEF Init, StubLikePeer, HangsOnlyWhenFull
<1> QED
  BY <1>1, <1>2 DEF IndInv

\* A call that does not stray runs the same on stub and peer.
LEMMA SameRun ==
  ASSUME NEW fn, NEW args \in Arguments, NEW db, NEW map, ~Differs(fn, args, map)
  PROVE  Handle(fn, args, db, TransientMap, FALSE) = Handle(fn, args, db, map, TRUE)
<1>1. CASE fn = "init"
  <2>1. map = TransientMap /\ (args # <<>> \/ ~NamesNobody(map))
    BY <1>1 DEF Differs
  <2> QED
    BY <1>1, <2>1 DEF Handle, Handlers, init
<1>2. CASE fn = "transfer"
  BY <1>2 DEF Handle, Handlers, Differs
<1>3. CASE fn = "delete"
  BY <1>3 DEF Handle, Handlers, Differs, delete
<1>4. CASE fn \notin {"init", "transfer", "delete"}
  BY <1>4 DEF Handle, Handlers
<1> QED
  BY <1>1, <1>2, <1>3, <1>4

LEMMA InvokePreserves ==
  ASSUME IndInv, NEW fn \in Called, NEW args \in Arguments, MockInvoke(fn, args)
  PROVE  IndInv'
<1> DEFINE map == IF fresh THEN TransientMap ELSE NoMap
           r   == Handle(fn, args, PvtState, TransientMap, FALSE)
           p   == Handle(fn, args, peer, map, TRUE)
<1>1. /\ TypeOK /\ StubLikePeer /\ HangsOnlyWhenFull /\ events <= calls
      /\ events \in 0..EventSlots /\ calls \in 0..MaxCalls /\ EventSlots \in Nat /\ MaxCalls \in Nat
      /\ PvtState \in [Names -> Stored] /\ peer \in [Names -> Stored]
      /\ TransientMap \in Maps \cup {NoMap}
  BY BoundsAssumption DEF IndInv, TypeOK
<1>2. map \in Maps \cup {NoMap}
  BY <1>1
<1>3. Fine(r) /\ Fine(p)
  BY <1>1, <1>2, HandlersAreFine
<1>4. /\ ~blocked /\ calls < MaxCalls
      /\ Announce(r.events)
      /\ PvtState' = (IF blocked' THEN PvtState ELSE PutPrivateData(PvtState, r))
      /\ peer' = Committed(peer, p)
      /\ fresh' = FALSE
      /\ strayed' = (strayed \/ Differs(fn, args, map))
      /\ last' = [fn |-> fn, stub |-> IF blocked' THEN 0 ELSE r.status, peer |-> p.status]
      /\ calls' = calls + 1
      /\ UNCHANGED TransientMap
  BY DEF MockInvoke
<1>5. ~Differs(fn, args, map) /\ PvtState = peer => r = p
  BY SameRun
<1> HIDE DEF map, r, p
<1>6. \/ blocked' = TRUE /\ events = EventSlots /\ UNCHANGED events
      \/ UNCHANGED blocked /\ events' \in {events, events + 1} /\ events' <= EventSlots
  <2>1. r.events = <<>> \/ (r.events # <<>> /\ Len(r.events) = 1)
    <3>1. \A e : <<e>> # <<>> /\ Len(<<e>>) = 1
      OBVIOUS
    <3> QED
      BY <1>3, <3>1 DEF Fine
  <2>2. CASE r.events # <<>> /\ events = EventSlots
    BY <1>4, <2>2 DEF Announce
  <2>3. CASE ~(r.events # <<>> /\ events = EventSlots)
    <3>1. events' = events + Len(r.events) /\ UNCHANGED blocked
      BY <1>4, <2>3 DEF Announce
    <3>2. Len(<<>>) = 0
      OBVIOUS
    <3>3. events' = events \/ (events # EventSlots /\ events' = events + 1)
      <4>1. CASE r.events = <<>>
        BY <1>1, <3>1, <3>2, <4>1
      <4>2. CASE r.events # <<>> /\ Len(r.events) = 1
        BY <2>3, <3>1, <4>2
      <4> QED
        BY <2>1, <4>1, <4>2
    <3> QED
      BY <1>1, <3>1, <3>3
  <2> QED
    BY <2>2, <2>3
<1>7. calls' \in 0..MaxCalls /\ events' \in 0..EventSlots /\ events' <= calls'
      /\ blocked' \in BOOLEAN /\ (blocked' => calls' > EventSlots)
  <2>1. blocked \in BOOLEAN /\ ~blocked
    BY <1>1, <1>4 DEF TypeOK
  <2>2. events' \in {events, events + 1} /\ events' <= EventSlots
    BY <1>1, <1>6
  <2>3. calls' \in 0..MaxCalls /\ events' \in 0..EventSlots /\ events' <= calls'
    BY <1>1, <1>4, <2>2
  <2>4. blocked' \in BOOLEAN
    BY <1>6, <2>1
  <2>5. blocked' => events = EventSlots
    BY <1>6, <2>1
  <2>6. events = EventSlots => calls' > EventSlots
    BY <1>1, <1>4
  <2> QED
    BY <2>3, <2>4, <2>5, <2>6
<1>8. PvtState' \in [Names -> Stored] /\ peer' \in [Names -> Stored]
  BY <1>1, <1>3, <1>4, WriteType DEF PutPrivateData, Committed
<1>9. last' \in [fn : Called \cup {"none"}, stub : {0, 200, 500}, peer : {200, 500}]
      /\ last'.stub = (IF blocked' THEN 0 ELSE r.status) /\ last'.peer = p.status
  <2> DEFINE answer == IF blocked' THEN 0 ELSE r.status
  <2>1. answer \in {0, 200, 500} /\ p.status \in {200, 500}
    BY <1>3 DEF Fine
  <2>2. last' = [fn |-> fn, stub |-> answer, peer |-> p.status]
    BY <1>4
  <2> HIDE DEF answer
  <2>3. last' \in [fn : Called \cup {"none"}, stub : {0, 200, 500}, peer : {200, 500}]
        /\ last'.stub = answer /\ last'.peer = p.status
    BY <2>1, <2>2
  <2> QED
    BY <2>3 DEF answer
<1>10. strayed' \in BOOLEAN
  BY <1>4
<1>11. TypeOK'
  BY <1>1, <1>4, <1>7, <1>8, <1>9, <1>10 DEF TypeOK
<1>12. StubLikePeer'
  <2> SUFFICES ASSUME ~strayed', ~blocked' PROVE PvtState' = peer' /\ last'.stub = last'.peer
    BY DEF StubLikePeer
  <2>1. ~strayed /\ ~Differs(fn, args, map)
    BY <1>4
  <2>2. PvtState = peer /\ r = p
    BY <1>1, <1>4, <1>5, <2>1 DEF StubLikePeer
  <2>3. PvtState' = E2!Write(PvtState, r.writes)
    BY <1>4 DEF PutPrivateData
  <2>4. peer' = E2!Write(PvtState, r.writes)
    BY <1>1, <1>3, <1>4, <2>2, WriteType DEF Committed, Fine
  <2> QED
    BY <1>9, <2>2, <2>3, <2>4
<1>13. HangsOnlyWhenFull'
  BY <1>7 DEF HangsOnlyWhenFull
<1> QED
  BY <1>7, <1>11, <1>12, <1>13 DEF IndInv

LEMMA Preserved == IndInv /\ [Next]_vars => IndInv'
<1> SUFFICES ASSUME IndInv, [Next]_vars PROVE IndInv'
  OBVIOUS
<1>1. ASSUME NEW map \in Maps, SetTransient(map) PROVE IndInv'
  BY <1>1 DEF SetTransient, IndInv, TypeOK, StubLikePeer, HangsOnlyWhenFull
<1>2. ASSUME NEW fn \in Called, NEW args \in Arguments, MockInvoke(fn, args) PROVE IndInv'
  BY <1>2, InvokePreserves
<1>3. CASE ReceiveEvent
  <2>1. UNCHANGED <<PvtState, TransientMap, blocked, peer, fresh, strayed, last, calls>>
        /\ ~blocked /\ events > 0 /\ events' = events - 1
    BY <1>3 DEF ReceiveEvent
  <2>2. events \in 0..EventSlots /\ calls \in 0..MaxCalls /\ EventSlots \in Nat /\ events <= calls
        /\ MaxCalls \in Nat
    BY BoundsAssumption DEF IndInv, TypeOK
  <2>3. events' \in 0..EventSlots /\ events' <= calls
    BY <2>1, <2>2
  <2> QED
    BY <2>1, <2>3 DEF IndInv, TypeOK, StubLikePeer, HangsOnlyWhenFull
<1>4. CASE UNCHANGED vars
  BY <1>4 DEF vars, IndInv, TypeOK, StubLikePeer, HangsOnlyWhenFull
<1> QED
  BY <1>1, <1>2, <1>3, <1>4 DEF Next

LEMMA Inductive == Spec => []IndInv
  BY InitEstablishes, Preserved, PTL DEF Spec

\* Private data are strings of ints on stub and peer.
THEOREM TypeCorrect == Spec => []TypeOK
<1>1. IndInv => TypeOK
  BY DEF IndInv
<1> QED
  BY Inductive, <1>1, PTL

\* As long as no call strays, the unit test sees what the deployed chaincode
\* does, refused calls included, although the stub has no roll-back
\* (example02_pdc.go, lines 61-232; mockstub.go, lines 139-145 and 161-185).
THEOREM TestShowsThePeer == Spec => []StubLikePeer
<1>1. IndInv => StubLikePeer
  BY DEF IndInv
<1> QED
  BY Inductive, <1>1, PTL

\* A test that receives no events does not hang before it has made more calls
\* than there are event slots (mockstub.go, lines 400-403 and 445).
THEOREM NeverHangsEarly == Spec => []HangsOnlyWhenFull
<1>1. IndInv => HangsOnlyWhenFull
  BY DEF IndInv
<1> QED
  BY Inductive, <1>1, PTL

\* A transfer of private data does what invoke of chaincode_example02 does
\* with the same balances and amount (example02_pdc.go, lines 111-184;
\* chaincode_example02.go, lines 103-158).
THEOREM TransferIsInvoke == Spec => MatchesExample02
<1> DEFINE Step ==
      calls' # calls /\ ~blocked' /\ last'.fn = "transfer" /\ Decodes(TransientMap, "transferData")
      => LET in == TransientMap["transferData"]
             r  == E2!invoke(PvtState, <<in.sender, in.receiver, Itoa(in.val)>>)
         IN  last'.stub = r.status /\ PvtState' = E2!Write(PvtState, r.writes)
<1>1. IndInv /\ [Next]_vars => [Step]_vars
  <2> SUFFICES ASSUME IndInv, Next, calls' # calls, ~blocked', last'.fn = "transfer",
                      Decodes(TransientMap, "transferData")
               PROVE  LET in == TransientMap["transferData"]
                          r  == E2!invoke(PvtState, <<in.sender, in.receiver, Itoa(in.val)>>)
                      IN  last'.stub = r.status /\ PvtState' = E2!Write(PvtState, r.writes)
    OBVIOUS
  <2> DEFINE in   == TransientMap["transferData"]
             call == <<in.sender, in.receiver, Itoa(in.val)>>
  <2>1. PICK fn, args : MockInvoke(fn, args)
    BY DEF Next, SetTransient, ReceiveEvent
  <2>2. /\ fn = "transfer"
        /\ last'.stub = transfer(PvtState, TransientMap).status
        /\ PvtState' = E2!Write(PvtState, transfer(PvtState, TransientMap).writes)
    <3>1. last'.fn = fn
      BY <2>1 DEF MockInvoke
    <3>2. Handle("transfer", args, PvtState, TransientMap, FALSE) = transfer(PvtState, TransientMap)
      BY DEF Handle, Handlers
    <3> QED
      BY <2>1, <3>1, <3>2 DEF MockInvoke, PutPrivateData
  <2>3. in.val \in GoInts
    BY DecodedInputs DEF IndInv, TypeOK, TransferInputs
  <2>4. call[1] = in.sender /\ call[2] = in.receiver /\ call[3] = Itoa(in.val) /\ Len(call) = 3
    OBVIOUS
  <2>5. E2!InvokeRefuses(PvtState, call) <=> TransferRefuses(PvtState, TransientMap)
    BY <2>3, <2>4, ItoaParses DEF E2!InvokeRefuses, TransferRefuses
  <2> HIDE DEF call
  <2>6. CASE TransferRefuses(PvtState, TransientMap)
    <3>1. E2!invoke(PvtState, call) = E2!Failure(<<"invoke">>)
      BY <2>5, <2>6 DEF E2!invoke
    <3>2. transfer(PvtState, TransientMap) = E2!Failure(<<"transfer">>)
      BY <2>6 DEF transfer
    <3> QED
      BY <2>2, <3>1, <3>2 DEF E2!Failure, call
  <2>7. CASE ~TransferRefuses(PvtState, TransientMap)
    <3>1. /\ E2!invoke(PvtState, call).status = 200
          /\ E2!invoke(PvtState, call).writes =
               E2!PutBoth(in.sender, E2!Wrap(E2!Atoi(PvtState[in.sender]) - E2!Atoi(Itoa(in.val))),
                          in.receiver, E2!Wrap(E2!Atoi(PvtState[in.receiver]) + E2!Atoi(Itoa(in.val))))
      BY <2>4, <2>5, <2>7 DEF E2!invoke, E2!Success
    <3>2. /\ transfer(PvtState, TransientMap).status = 200
          /\ transfer(PvtState, TransientMap).writes =
               E2!PutBoth(in.sender, Wrap(Atoi(PvtState[in.sender]) - in.val),
                          in.receiver, Wrap(Atoi(PvtState[in.receiver]) + in.val))
      BY <2>7 DEF transfer, Moved, E2!Success
    <3>3. E2!Atoi(Itoa(in.val)) = in.val
      BY <2>3, ItoaParses
    <3>4. E2!invoke(PvtState, call).writes = transfer(PvtState, TransientMap).writes
      BY <3>1, <3>2, <3>3, SameInts
    <3> QED
      BY <2>2, <3>1, <3>2, <3>4 DEF call
  <2> QED
    BY <2>6, <2>7
<1> QED
  BY Inductive, <1>1, PTL DEF Spec, MatchesExample02
=============================================================================
