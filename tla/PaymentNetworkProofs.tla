------------------------ MODULE PaymentNetworkProofs ------------------------
(***************************************************************************)
(* The payment network, for every number of peers and clients, every set   *)
(* of names and calls and every width of int: the inductive invariant and  *)
(* what follows from it.  The first two sections are about Go ints and one *)
(* run of a chaincode handler, the others about the network.               *)
(***************************************************************************)
EXTENDS PaymentNetwork, FiniteSetTheorems, WellFoundedInduction, TLAPS

-----------------------------------------------------------------------------
\* Conversions.

\* Addition and subtraction never leave the ints (lines 142 and 143).
LEMMA WrapType == ASSUME NEW n \in Int PROVE Wrap(n) \in GoInts
BY HalfRangeAssumption DEF Wrap, GoInts, MinInt, MaxInt

\* Whatever the string, Atoi leaves an int in the variable.
LEMMA AtoiType == ASSUME NEW s PROVE Atoi(s) \in GoInts
<1>1. \A n \in Int : Clamp(n) \in GoInts
  BY HalfRangeAssumption DEF Clamp, GoInts, MinInt, MaxInt
<1>2. 0 \in GoInts
  BY HalfRangeAssumption DEF GoInts, MinInt, MaxInt
<1>3. s \in Decimals => s.n \in Int
  BY DEF Decimals
<1> QED
  BY <1>1, <1>2, <1>3 DEF Atoi

\* Itoa's strings are canonical, and Atoi undoes Itoa.
LEMMA ItoaCanonical ==
  ASSUME NEW n \in GoInts
  PROVE  Canonical(Itoa(n)) /\ Atoi(Itoa(n)) = n /\ Itoa(n) \in Decimals
BY HalfRangeAssumption
   DEF Canonical, Parses, Itoa, Atoi, Decimals, Clamp, GoInts, MinInt, MaxInt

-----------------------------------------------------------------------------
\* One run of a handler.

\* What PutBoth writes: strings of ints, and the later one for equal keys.
LEMMA PutBothType ==
  ASSUME NEW A \in Names, NEW B \in Names, NEW v \in GoInts, NEW w \in GoInts
  PROVE  /\ IsPartial(PutBoth(A, v, B, w), Names, Values)
         /\ \A k \in DOMAIN PutBoth(A, v, B, w) : Canonical(PutBoth(A, v, B, w)[k])
<1>1. Itoa(v) \in Values /\ Itoa(w) \in Values
  BY ItoaCanonical DEF Values
<1>2. Canonical(Itoa(v)) /\ Canonical(Itoa(w))
  BY ItoaCanonical
<1> QED
  BY <1>1, <1>2 DEF PutBoth, IsPartial

\* The handlers' successful results, one by one.
LEMMA InitShape ==
  ASSUME NEW call, IsCall(call), call.kind = "deploy", ~InitRefuses(call.args)
  PROVE  /\ call.args[1] \in Names /\ call.args[3] \in Names
         /\ InitHandler(call.args)
              = Success({}, PutBoth(call.args[1], Atoi(call.args[2]),
                                    call.args[3], Atoi(call.args[4])), Nil, <<>>)
<1>1. call.args \in Seq(Strings) /\ Len(call.args) = 4
  BY DEF IsCall, InitRefuses
<1>2. {1, 3} \subseteq DOMAIN call.args
  BY <1>1
<1> QED
  BY <1>2 DEF IsCall, KeyPositions, InitHandler

LEMMA InvokeArgs ==
  ASSUME NEW call, IsCall(call), call.kind = "submit", call.fn = "invoke",
         Len(call.args) = 3
  PROVE  call.args[1] \in Names /\ call.args[2] \in Names
<1>1. call.args \in Seq(Strings)
  BY DEF IsCall
<1>2. {1, 2} \subseteq DOMAIN call.args
  BY <1>1
<1> QED
  BY <1>2 DEF IsCall, KeyPositions

LEMMA OtherArgs ==
  ASSUME NEW call, IsCall(call), call.kind = "submit", call.fn \in {"delete", "query"},
         Len(call.args) = 1
  PROVE  call.args[1] \in Names
<1>1. call.args \in Seq(Strings)
  BY DEF IsCall
<1>2. 1 \in DOMAIN call.args
  BY <1>1
<1> QED
  BY <1>2 DEF IsCall, KeyPositions

\* The four ways in which a run succeeds; what each reads, writes and returns.
IsPaymentRun(state, call, r) ==
  /\ call.kind = "submit" /\ call.fn = "invoke"
  /\ call.args[1] \in Names /\ call.args[2] \in Names
  /\ ~InvokeRefuses(state, call.args)
  /\ r.reads = {call.args[1], call.args[2]}
  /\ r.writes = PutBoth(call.args[1], Wrap(Atoi(state[call.args[1]]) - Atoi(call.args[3])),
                        call.args[2], Wrap(Atoi(state[call.args[2]]) + Atoi(call.args[3])))
  /\ r.payload = Nil
  /\ r.events = <<"Invoke1", "Invoke2">> \o <<"invoke">>

IsDeleteRun(call, r) ==
  /\ call.kind = "submit" /\ call.fn = "delete"
  /\ call.args[1] \in Names
  /\ r.reads = {}
  /\ r.writes = [k \in {call.args[1]} |-> Nil]
  /\ r.payload = Nil
  /\ r.events = <<"Invoke1", "Invoke3">> \o <<"delete">>

IsQueryRun(state, call, r) ==
  /\ call.kind = "submit" /\ call.fn = "query"
  /\ Len(call.args) = 1
  /\ call.args[1] \in Names
  /\ state[call.args[1]] # Nil
  /\ r.reads = {call.args[1]}
  /\ r.writes = [k \in {} |-> Nil]
  /\ r.payload = state[call.args[1]]
  /\ r.events = <<"Invoke1", "Invoke4">> \o <<"query">>

IsInitRun(call, r) ==
  /\ call.kind = "deploy"
  /\ call.args[1] \in Names /\ call.args[3] \in Names
  /\ ~InitRefuses(call.args)
  /\ r.reads = {}
  /\ r.writes = PutBoth(call.args[1], Atoi(call.args[2]), call.args[3], Atoi(call.args[4]))
  /\ r.payload = Nil
  /\ r.events = <<>>

LEMMA ExecuteShape ==
  ASSUME NEW state \in States, NEW call, IsCall(call), Execute(state, call).status = 200
  PROVE  LET r == Execute(state, call)
         IN  /\ r = [status |-> 200, reads |-> r.reads, writes |-> r.writes,
                     payload |-> r.payload, events |-> r.events]
             /\ \/ IsInitRun(call, r)
                \/ IsPaymentRun(state, call, r)
                \/ IsDeleteRun(call, r)
                \/ IsQueryRun(state, call, r)
<1> DEFINE r == Execute(state, call)
<1>1. CASE call.kind = "deploy"
  <2>1. r = InitHandler(call.args)
    BY <1>1 DEF Execute
  <2>2. ~InitRefuses(call.args)
    BY <2>1 DEF InitHandler, Failure
  <2>3. r = Success({}, PutBoth(call.args[1], Atoi(call.args[2]),
                                call.args[3], Atoi(call.args[4])), Nil, <<>>)
    BY <1>1, <2>1, <2>2, InitShape
  <2> QED
    BY <1>1, <2>2, <2>3, InitShape DEF Success, IsInitRun
<1>2. CASE call.kind = "submit"
  <2>1. r = InvokeHandler(state, call.fn, call.args)
    BY <1>2 DEF Execute
  <2>2. call.fn \in {"invoke", "delete", "query"}
    BY <2>1 DEF InvokeHandler, Announcement, Failure
  <2>3. CASE call.fn = "invoke"
    <3>1. r = [invoke(state, call.args) EXCEPT !.events = <<"Invoke1", "Invoke2">> \o @]
      BY <2>1, <2>3 DEF InvokeHandler, Announcement
    <3>2. ~InvokeRefuses(state, call.args)
      BY <3>1 DEF invoke, Failure
    <3>3. call.args[1] \in Names /\ call.args[2] \in Names
      BY <1>2, <2>3, <3>2, InvokeArgs DEF InvokeRefuses
    <3>4. IsPaymentRun(state, call, r)
      BY <1>2, <2>3, <3>1, <3>2, <3>3 DEF invoke, Success, IsPaymentRun
    <3> QED
      BY <3>1, <3>2, <3>4 DEF invoke, Success
  <2>4. CASE call.fn = "delete"
    <3>1. r = [delete(call.args) EXCEPT !.events = <<"Invoke1", "Invoke3">> \o @]
      BY <2>1, <2>4 DEF InvokeHandler, Announcement
    <3>2. Len(call.args) = 1
      BY <3>1 DEF delete, Failure
    <3>3. call.args[1] \in Names
      BY <1>2, <2>4, <3>2, OtherArgs
    <3>4. IsDeleteRun(call, r)
      BY <1>2, <2>4, <3>1, <3>2, <3>3 DEF delete, Success, IsDeleteRun
    <3> QED
      BY <3>1, <3>2, <3>4 DEF delete, Success
  <2>5. CASE call.fn = "query"
    <3>1. r = [query(state, call.args) EXCEPT !.events = <<"Invoke1", "Invoke4">> \o @]
      BY <2>1, <2>5 DEF InvokeHandler, Announcement
    <3>2. Len(call.args) = 1 /\ state[call.args[1]] # Nil
      BY <3>1 DEF query, Failure
    <3>3. call.args[1] \in Names
      BY <1>2, <2>5, <3>2, OtherArgs
    <3>4. IsQueryRun(state, call, r)
      BY <1>2, <2>5, <3>1, <3>2, <3>3 DEF query, Success, IsQueryRun
    <3> QED
      BY <3>1, <3>2, <3>4 DEF query, Success
  <2> QED
    BY <2>2, <2>3, <2>4, <2>5
<1> QED
  BY <1>1, <1>2 DEF IsCall

LEMMA ThreeEvents ==
  ASSUME NEW S, NEW e \in S, NEW f \in S, NEW g \in S
  PROVE  <<e, f>> \o <<g>> \in Seq(S)
<1>1. <<e, f>> = Append(<<e>>, f)
  OBVIOUS
<1> QED
  BY <1>1

LEMMA RunParts ==
  ASSUME NEW state \in States, NEW call, NEW r,
         \/ IsInitRun(call, r)
         \/ IsPaymentRun(state, call, r)
         \/ IsDeleteRun(call, r)
         \/ IsQueryRun(state, call, r)
  PROVE  /\ r.reads \subseteq Names
         /\ r.payload \in Values
         /\ r.events \in Seq(EventNames)
         /\ IsPartial(r.writes, Names, Values)
         /\ \A k \in DOMAIN r.writes : r.writes[k] = Nil \/ Canonical(r.writes[k])
<1>1. r.reads \subseteq Names /\ r.payload \in Values
  BY DEF IsInitRun, IsPaymentRun, IsDeleteRun, IsQueryRun, Values, States
<1>2. r.events \in Seq(EventNames)
  <2>1. \A e, f, g \in EventNames : <<e, f>> \o <<g>> \in Seq(EventNames)
    BY ThreeEvents
  <2>2. <<>> \in Seq(EventNames)
    OBVIOUS
  <2>3. /\ "Invoke1" \in EventNames /\ "Invoke2" \in EventNames
        /\ "Invoke3" \in EventNames /\ "Invoke4" \in EventNames
        /\ "invoke" \in EventNames /\ "delete" \in EventNames /\ "query" \in EventNames
    BY DEF EventNames
  <2>4. /\ <<"Invoke1", "Invoke2">> \o <<"invoke">> \in Seq(EventNames)
        /\ <<"Invoke1", "Invoke3">> \o <<"delete">> \in Seq(EventNames)
        /\ <<"Invoke1", "Invoke4">> \o <<"query">> \in Seq(EventNames)
    BY <2>1, <2>3
  <2>5. \/ r.events = <<>>
        \/ r.events = <<"Invoke1", "Invoke2">> \o <<"invoke">>
        \/ r.events = <<"Invoke1", "Invoke3">> \o <<"delete">>
        \/ r.events = <<"Invoke1", "Invoke4">> \o <<"query">>
    BY DEF IsInitRun, IsPaymentRun, IsDeleteRun, IsQueryRun
  <2> QED
    BY <2>2, <2>4, <2>5, Zenon
<1>3. /\ IsPartial(r.writes, Names, Values)
      /\ \A k \in DOMAIN r.writes : r.writes[k] = Nil \/ Canonical(r.writes[k])
  <2>1. CASE IsInitRun(call, r)
    BY <2>1, AtoiType, PutBothType DEF IsInitRun
  <2>2. CASE IsPaymentRun(state, call, r)
    <3>1. \A i, j \in GoInts : i - j \in Int /\ i + j \in Int
      BY HalfRangeAssumption DEF GoInts, MinInt, MaxInt
    <3>2. \A i, j \in GoInts : Wrap(i - j) \in GoInts /\ Wrap(i + j) \in GoInts
      BY <3>1, WrapType
    <3> QED
      BY <2>2, <3>2, AtoiType, PutBothType DEF IsPaymentRun
  <2>3. CASE IsDeleteRun(call, r)
    BY <2>3 DEF IsDeleteRun, IsPartial, Values
  <2>4. CASE IsQueryRun(state, call, r)
    BY <2>4 DEF IsQueryRun, IsPartial
  <2> QED
    BY <2>1, <2>2, <2>3, <2>4
<1> QED
  BY <1>1, <1>2, <1>3

\* A successful run's result is well-formed, and all it puts into the world
\* state are canonical balances and deletions.
THEOREM ExecuteType ==
  ASSUME NEW state \in States, NEW call, IsCall(call), Execute(state, call).status = 200
  PROVE  LET r == Execute(state, call)
         IN  /\ IsResult(r)
             /\ \A k \in DOMAIN r.writes : r.writes[k] = Nil \/ Canonical(r.writes[k])
<1> DEFINE r == Execute(state, call)
<1>1. /\ r.reads \subseteq Names
      /\ r.payload \in Values
      /\ r.events \in Seq(EventNames)
      /\ IsPartial(r.writes, Names, Values)
      /\ \A k \in DOMAIN r.writes : r.writes[k] = Nil \/ Canonical(r.writes[k])
  BY ExecuteShape, RunParts
<1>2. r = [status |-> 200, reads |-> r.reads, writes |-> r.writes,
           payload |-> r.payload, events |-> r.events]
  BY ExecuteShape
<1> QED
  BY <1>1, <1>2 DEF IsResult

\* A run depends on no more of the world state than the keys it read: on any
\* state that agrees on them it succeeds again, with the same result.
THEOREM ExecuteLocal ==
  ASSUME NEW s \in States, NEW t \in States, NEW call, IsCall(call),
         Execute(s, call).status = 200,
         \A k \in Execute(s, call).reads : s[k] = t[k]
  PROVE  Execute(t, call) = Execute(s, call)
<1> DEFINE r == Execute(s, call)
<1>1. CASE IsInitRun(call, r)
  BY <1>1 DEF IsInitRun, Execute
<1>2. CASE IsPaymentRun(s, call, r)
  <2>1. s[call.args[1]] = t[call.args[1]] /\ s[call.args[2]] = t[call.args[2]]
    BY <1>2 DEF IsPaymentRun
  <2>2. invoke(t, call.args) = invoke(s, call.args)
    BY <2>1 DEF invoke, InvokeRefuses
  <2> QED
    BY <1>2, <2>2 DEF IsPaymentRun, Execute, InvokeHandler
<1>3. CASE IsDeleteRun(call, r)
  BY <1>3 DEF IsDeleteRun, Execute, InvokeHandler
<1>4. CASE IsQueryRun(s, call, r)
  <2>1. s[call.args[1]] = t[call.args[1]]
    BY <1>4 DEF IsQueryRun
  <2>2. query(t, call.args) = query(s, call.args)
    BY <2>1 DEF query
  <2> QED
    BY <1>4, <2>2 DEF IsQueryRun, Execute, InvokeHandler
<1> QED
  BY <1>1, <1>2, <1>3, <1>4, ExecuteShape

-----------------------------------------------------------------------------
\* Ledgers and transactions.

LEMMA GenesisType == Genesis \in Ledgers
BY DEF Genesis, Ledgers, Cells, Values

LEMMA StateOfType == ASSUME NEW l \in Ledgers PROVE StateOf(l) \in States
BY DEF StateOf, Ledgers, Cells, States

\* What a peer endorses is a transaction, and it writes canonical balances.
LEMMA EndorsementType ==
  ASSUME NEW l \in Ledgers, NEW call \in Calls, Endorsable(l, call)
  PROVE  LET tx == Endorsement(l, call)
         IN  /\ IsTx(tx)
             /\ tx.call = call
             /\ tx.result = Execute(StateOf(l), call)
             /\ tx.versions = [k \in tx.result.reads |-> l.cell[k].ver]
             /\ tx.deployed = l.deployed
             /\ \A k \in DOMAIN tx.result.writes :
                  tx.result.writes[k] = Nil \/ Canonical(tx.result.writes[k])
<1> DEFINE r == Execute(StateOf(l), call)
           tx == Endorsement(l, call)
<1>1. StateOf(l) \in States /\ IsCall(call) /\ r.status = 200
  BY StateOfType, CallsAssumption DEF Endorsable
<1>2. /\ IsResult(r)
      /\ \A k \in DOMAIN r.writes : r.writes[k] = Nil \/ Canonical(r.writes[k])
  BY <1>1, ExecuteType
<1> HIDE DEF r
<1>3. tx = [call |-> call, deployed |-> l.deployed,
            versions |-> [k \in r.reads |-> l.cell[k].ver], result |-> r]
  BY DEF Endorsement, r
<1> HIDE DEF tx
<1>4. r.reads \subseteq Names
  BY <1>2 DEF IsResult
<1>5. IsPartial(tx.versions, Names, Nat)
  BY <1>3, <1>4 DEF IsPartial, Ledgers, Cells
<1>6. IsTx(tx)
  BY <1>2, <1>3, <1>5 DEF IsTx, Ledgers
<1> QED
  BY <1>2, <1>3, <1>6 DEF r, tx

LEMMA AfterType ==
  ASSUME NEW l \in Ledgers, NEW tx, IsTx(tx), NEW n \in Nat
  PROVE  After(l, tx, n) \in Ledgers
<1>1. \A v \in Values : Written(v, n) \in Cells
  BY DEF Written, Cells
<1>2. \A k \in DOMAIN tx.result.writes : tx.result.writes[k] \in Values
  BY DEF IsTx, IsResult, IsPartial
<1>3. Apply(l, tx, n) \in Ledgers
  BY <1>1, <1>2 DEF Apply, Ledgers
<1> QED
  BY <1>3 DEF After

\* The history of a reachable state: where it starts, ends and is a ledger.
LEMMA HistType ==
  ASSUME TypeOK, HistoryOfChain
  PROVE  /\ Len(chain) \in Nat /\ Len(hist) \in Nat /\ Len(hist) = Len(chain) + 1
         /\ \A i \in 1..Len(hist) : hist[i] \in Ledgers
         /\ Newest \in Ledgers
         /\ DOMAIN chain = 1..Len(chain)
BY DEF TypeOK, HistoryOfChain, Newest

-----------------------------------------------------------------------------
\* The inductive invariant holds at the start.

\* An empty channel has nothing to contradict it.
THEOREM InitEstablishes == Init => IndInv
<1> SUFFICES ASSUME Init PROVE IndInv
  OBVIOUS
<1> USE DEF Init
<1>1. TypeOK
  BY GenesisType DEF TypeOK, Sent
<1>2. HistoryOfChain
  BY DEF HistoryOfChain
<1>3. VersionsName /\ HistoryParses
  BY DEF VersionsName, HistoryParses, Genesis
<1>3a. VersionsAge
  BY DEF VersionsAge, Genesis
<1>4. EndorsedOnHistory
  BY DEF EndorsedOnHistory, Sent
<1>5. PeersOnHistory
  BY DEF PeersOnHistory, Height
<1>6. ClientsInOrder
  BY DEF ClientsInOrder, Sent
<1> QED
  BY <1>1, <1>2, <1>3, <1>3a, <1>4, <1>5, <1>6 DEF IndInv

-----------------------------------------------------------------------------
\* Every action preserves it.

LEMMA EndorsePreserves ==
  ASSUME IndInv, NEW c \in Clients, NEW p \in Peers, NEW call \in Calls, Endorse(c, p, call)
  PROVE  IndInv'
<1> DEFINE tx == Endorsement(ledger[p], call)
<1> USE DEF IndInv
<1>1. /\ c \notin Sent /\ Sent' = Sent \cup {c}
      /\ \A d \in Sent : txOf'[d] = txOf[d]
      /\ txOf'[c] = tx
  BY DEF Endorse, ClientsInOrder, Sent
<1>2. /\ UNCHANGED <<chain, flags, ledger, hist>>
      /\ status' = [status EXCEPT ![c] = "waiting"]
      /\ Endorsable(ledger[p], call)
      /\ status[c] = "idle"
  BY DEF Endorse
<1>3. ledger[p] \in Ledgers
  BY DEF TypeOK
<1>4. IsTx(tx) /\ tx.call = call
  BY <1>2, <1>3, EndorsementType
<1> HIDE DEF tx
<1>5. TypeOK'
  BY <1>1, <1>2, <1>4 DEF TypeOK
<1>6. HistoryOfChain'
  BY <1>1, <1>2 DEF HistoryOfChain
<1>7. VersionsName' /\ VersionsAge' /\ HistoryParses'
  BY <1>2 DEF VersionsName, VersionsAge, HistoryParses
<1>8. EndorsedOnHistory'
  <2>1. Height(p) + 1 \in 1..Len(hist) /\ ledger[p] = hist[Height(p) + 1]
    BY HistType DEF PeersOnHistory, TypeOK, Height
  <2>2. txOf'[c] = Endorsement(hist[Height(p) + 1], call) /\ Endorsable(hist[Height(p) + 1], call)
    BY <1>1, <1>2, <2>1 DEF tx
  <2>3. txOf'[c].call = call
    BY <1>1, <1>4
  <2>4. \A d \in Sent : \E i \in 1..Len(hist) :
          /\ Endorsable(hist[i], txOf[d].call)
          /\ txOf[d] = Endorsement(hist[i], txOf[d].call)
    BY DEF EndorsedOnHistory
  <2> QED
    BY <1>1, <1>2, <2>1, <2>2, <2>3, <2>4 DEF EndorsedOnHistory
<1>9. PeersOnHistory'
  <2>1. \A n \in 1..Len(chain) : txOf'[chain[n]] = txOf[chain[n]]
    BY <1>1 DEF HistoryOfChain
  <2>2. \A q \in Peers : \A n \in 1..Height(q) : n \in 1..Len(chain)
    BY HistType DEF PeersOnHistory, TypeOK, Height
  <2> QED
    BY <1>2, <2>1, <2>2 DEF PeersOnHistory, Height
<1>10. ClientsInOrder'
  BY <1>1, <1>2 DEF ClientsInOrder, TypeOK, Height
<1> QED
  BY <1>5, <1>6, <1>7, <1>8, <1>9, <1>10

\* Refuse, Notify and Timeout only tell a client something.
LEMMA TellPreserves ==
  ASSUME IndInv, NEW c \in Clients, NEW s \in {"submitted", "failed"},
         UNCHANGED <<chain, flags, ledger, txOf, hist>>,
         status' = [status EXCEPT ![c] = s],
         s = "submitted" =>
           \E p \in Peers : \E n \in 1..Height(p) : chain[n] = c /\ flags[p][n] = "VALID"
  PROVE  IndInv'
<1> USE DEF IndInv
<1>1. TypeOK'
  BY DEF TypeOK, Sent
<1>2. HistoryOfChain' /\ VersionsName' /\ HistoryParses'
  BY DEF HistoryOfChain, VersionsName, HistoryParses, Sent
<1>2a. VersionsAge'
  BY DEF VersionsAge
<1>3. EndorsedOnHistory' /\ PeersOnHistory'
  BY DEF EndorsedOnHistory, PeersOnHistory, Height, Sent
<1>4. ClientsInOrder'
  <2>1. ClientsInOrder /\ TypeOK
    OBVIOUS
  <2>2. \A d \in Clients : status'[d] = IF d = c THEN s ELSE status[d]
    BY <2>1 DEF TypeOK
  <2> QED
    BY ONLY <2>1, <2>2, s \in {"submitted", "failed"},
            UNCHANGED <<chain, flags, ledger, txOf, hist>>,
            s = "submitted" =>
              \E p \in Peers : \E n \in 1..Height(p) : chain[n] = c /\ flags[p][n] = "VALID"
       DEF ClientsInOrder, Height, Sent
<1> QED
  BY <1>1, <1>2, <1>2a, <1>3, <1>4

LEMMA RefusePreserves ==
  ASSUME IndInv, NEW c \in Clients, NEW p \in Peers, NEW call \in Calls, Refuse(c, p, call)
  PROVE  IndInv'
BY TellPreserves DEF Refuse

LEMMA TimeoutPreserves ==
  ASSUME IndInv, NEW c \in Clients, Timeout(c)
  PROVE  IndInv'
BY TellPreserves DEF Timeout

LEMMA NotifyPreserves ==
  ASSUME IndInv, NEW c \in Clients, NEW p \in Peers, Notify(c, p)
  PROVE  IndInv'
<1>1. PICK n \in 1..Height(p) :
        /\ chain[n] = c
        /\ status' = [status EXCEPT ![c] = IF flags[p][n] = "VALID"
                                           THEN "submitted" ELSE "failed"]
  BY DEF Notify
<1> DEFINE s == IF flags[p][n] = "VALID" THEN "submitted" ELSE "failed"
<1>2. s \in {"submitted", "failed"} /\ status' = [status EXCEPT ![c] = s]
  BY <1>1
<1>3. s = "submitted" =>
        \E q \in Peers : \E m \in 1..Height(q) : chain[m] = c /\ flags[q][m] = "VALID"
  BY <1>1
<1>4. UNCHANGED <<chain, flags, ledger, txOf, hist>>
  BY DEF Notify
<1> HIDE DEF s
<1> QED
  BY <1>2, <1>3, <1>4, TellPreserves

LEMMA DropPreserves ==
  ASSUME IndInv, NEW c \in Clients, Drop(c)
  PROVE  IndInv'
<1> USE DEF IndInv
<1>1. /\ Sent' = Sent \ {c}
      /\ \A d \in Sent \ {c} : txOf'[d] = txOf[d]
  BY DEF Drop, Sent
<1>2. /\ UNCHANGED <<chain, flags, ledger, hist>>
      /\ status' = [status EXCEPT ![c] = "failed"]
  BY DEF Drop
<1>3. \A n \in 1..Len(chain) : chain[n] \in Sent \ {c} /\ txOf'[chain[n]] = txOf[chain[n]]
  BY <1>1, HistType DEF Drop, Ordered, HistoryOfChain
<1>4. TypeOK'
  BY <1>1, <1>2 DEF TypeOK
<1>5. HistoryOfChain'
  BY <1>1, <1>2, <1>3 DEF HistoryOfChain
<1>6. VersionsName' /\ VersionsAge' /\ HistoryParses'
  BY <1>2 DEF VersionsName, VersionsAge, HistoryParses
<1>7. EndorsedOnHistory'
  BY <1>1, <1>2 DEF EndorsedOnHistory
<1>8. PeersOnHistory'
  <2>1. \A q \in Peers : \A n \in 1..Height(q) : n \in 1..Len(chain)
    BY HistType DEF PeersOnHistory, TypeOK, Height
  <2> QED
    BY <1>2, <1>3, <2>1 DEF PeersOnHistory, Height
<1>9. ClientsInOrder'
  BY <1>1, <1>2 DEF ClientsInOrder, TypeOK, Height
<1> QED
  BY <1>4, <1>5, <1>6, <1>7, <1>8, <1>9

\* The one action that makes history.
LEMMA OrderPreserves ==
  ASSUME IndInv, NEW c \in Clients, Order(c)
  PROVE  IndInv'
<1> DEFINE N  == Len(hist)
           tx == txOf[c]
           l  == After(hist[N], tx, N)
<1> USE DEF IndInv
<1>1. /\ N \in Nat /\ N >= 1 /\ N = Len(chain) + 1 /\ Len(chain) \in Nat
      /\ \A i \in 1..N : hist[i] \in Ledgers
      /\ DOMAIN chain = 1..Len(chain)
  BY HistType
<1>2. /\ chain' = Append(chain, c) /\ hist' = Append(hist, l)
      /\ UNCHANGED <<flags, ledger, status, txOf>>
      /\ c \in Sent /\ c \notin Ordered
  BY DEF Order, Newest
<1>3. IsTx(tx) /\ \A k \in DOMAIN tx.result.writes :
                    tx.result.writes[k] = Nil \/ Canonical(tx.result.writes[k])
  <2>1. PICK i \in 1..N : Endorsable(hist[i], tx.call) /\ tx = Endorsement(hist[i], tx.call)
    BY <1>2 DEF EndorsedOnHistory
  <2>2. tx.call \in Calls
    BY <1>2 DEF TypeOK, IsTx
  <2> DEFINE e == Endorsement(hist[i], tx.call)
  <2>3. IsTx(e) /\ \A k \in DOMAIN e.result.writes :
                     e.result.writes[k] = Nil \/ Canonical(e.result.writes[k])
    BY <1>1, <2>1, <2>2, EndorsementType
  <2>4. tx = e
    BY <2>1
  <2> HIDE DEF e, tx
  <2> QED
    BY <2>3, <2>4
<1>4. l \in Ledgers
  BY <1>1, <1>3, AfterType
<1> HIDE DEF l
<1>5. /\ Len(chain') = N /\ chain'[N] = c
      /\ \A n \in 1..Len(chain) : chain'[n] = chain[n]
  BY <1>1, <1>2 DEF TypeOK
<1>6. /\ Len(hist') = N + 1 /\ hist'[N + 1] = l
      /\ \A i \in 1..N : hist'[i] = hist[i]
  BY <1>1, <1>2 DEF TypeOK
<1>7. TypeOK'
  BY <1>2, <1>4 DEF TypeOK, Sent
<1>8. HistoryOfChain'
  <2>1. ASSUME NEW n \in 1..N
        PROVE  chain'[n] \in Sent /\ hist'[n + 1] = After(hist'[n], txOf[chain'[n]], n)
    <3>1. CASE n = N
      BY <3>1, <1>1, <1>2, <1>5, <1>6 DEF l
    <3>2. CASE n # N
      <4>1. n \in 1..Len(chain) /\ n + 1 \in 1..N
        BY <3>2, <1>1
      <4> QED
        BY <4>1, <1>1, <1>5, <1>6 DEF HistoryOfChain
    <3> QED
      BY <3>1, <3>2
  <2>2. hist'[1] = Genesis
    BY <1>1, <1>6 DEF HistoryOfChain
  <2> QED
    BY <1>1, <1>2, <1>5, <1>6, <2>1, <2>2 DEF HistoryOfChain, Sent
<1>9. ASSUME NEW k \in Names
      PROVE  \/ l.cell[k] = hist[N].cell[k]
             \/ \E v \in Values : /\ l.cell[k] = [val |-> v, ver |-> IF v = Nil THEN 0 ELSE N]
                                  /\ v = Nil \/ Canonical(v)
  <2>1. CASE ~Valid(hist[N], tx)
    BY <2>1 DEF l, After
  <2>2. CASE Valid(hist[N], tx) /\ k \notin DOMAIN tx.result.writes
    BY <2>2 DEF l, After, Apply
  <2>3. CASE Valid(hist[N], tx) /\ k \in DOMAIN tx.result.writes
    <3>1. tx.result.writes[k] \in Values
      BY <1>3, <2>3 DEF IsTx, IsResult, IsPartial
    <3>2. l.cell[k] = Written(tx.result.writes[k], N)
      BY <2>3 DEF l, After, Apply
    <3> QED
      BY <1>3, <2>3, <3>1, <3>2 DEF Written
  <2> QED
    BY <2>1, <2>2, <2>3
<1>10. VersionsName'
  <2>1. ASSUME NEW i \in 1..N, NEW k \in Names
        PROVE  LET cell == hist'[i].cell[k]
               IN  /\ cell.ver < i
                   /\ cell.ver = 0 <=> cell.val = Nil
                   /\ cell.ver # 0 => hist'[cell.ver + 1].cell[k] = cell
    <3>1. /\ hist[i].cell[k].ver < i
          /\ hist[i].cell[k].ver = 0 <=> hist[i].cell[k].val = Nil
          /\ hist[i].cell[k].ver # 0 => hist[hist[i].cell[k].ver + 1].cell[k] = hist[i].cell[k]
      BY DEF VersionsName
    <3>2. hist[i].cell[k].ver \in Nat
      BY <1>1 DEF Ledgers, Cells
    <3>3. hist[i].cell[k].ver + 1 \in 1..N
      BY <1>1, <3>1, <3>2
    <3> QED
      BY <1>6, <3>1, <3>3
  <2>2. ASSUME NEW k \in Names
        PROVE  /\ l.cell[k].ver < N + 1
               /\ l.cell[k].ver = 0 <=> l.cell[k].val = Nil
               /\ l.cell[k].ver # 0 => hist'[l.cell[k].ver + 1].cell[k] = l.cell[k]
    <3>1. CASE l.cell[k] = hist[N].cell[k]
      <4>1. N \in 1..N /\ hist'[N] = hist[N]
        BY <1>1, <1>6
      <4>2. hist[N].cell[k].ver \in Nat
        BY <1>1, <4>1 DEF Ledgers, Cells
      <4> QED
        BY <1>1, <2>1, <3>1, <4>1, <4>2
    <3>2. CASE \E v \in Values : l.cell[k] = [val |-> v, ver |-> IF v = Nil THEN 0 ELSE N]
      BY <1>1, <1>6, <3>2
    <3> QED
      BY <1>9, <3>1, <3>2
  <2>3. \A i \in 1..Len(hist') : i \in 1..N \/ i = N + 1
    BY <1>1, <1>6
  <2> QED
    BY <1>6, <2>1, <2>2, <2>3 DEF VersionsName
<1>10a. VersionsAge'
  <2>1. ASSUME NEW k \in Names, NEW i \in 1..N
        PROVE  l.cell[k].ver \in {0, hist[i].cell[k].ver} \/ l.cell[k].ver >= i
    <3>1. CASE l.cell[k] = hist[N].cell[k]
      <4>1. N \in 1..N /\ i \in 1..N
        BY <1>1
      <4> QED
        BY <3>1, <4>1 DEF VersionsAge
    <3>2. CASE \E v \in Values : l.cell[k] = [val |-> v, ver |-> IF v = Nil THEN 0 ELSE N]
      BY <1>1, <3>2
    <3> QED
      BY <1>9, <3>1, <3>2
  <2>2. \A j \in 1..Len(hist') : j \in 1..N \/ j = N + 1
    BY <1>1, <1>6
  <2>3. \A j \in 1..N : \A i \in 1..j : i \in 1..N
    BY <1>1
  <2>4. \A i \in 1..(N + 1) : i \in 1..N \/ i = N + 1
    BY <1>1
  <2> QED
    BY <1>6, <2>1, <2>2, <2>3, <2>4 DEF VersionsAge
<1>11. HistoryParses'
  <2>1. \A i \in 1..Len(hist') : i \in 1..N \/ i = N + 1
    BY <1>1, <1>6
  <2>2. ASSUME NEW k \in Names, l.cell[k].val # Nil
        PROVE  Canonical(l.cell[k].val)
    <3>1. CASE l.cell[k] = hist[N].cell[k]
      <4>1. N \in 1..N
        BY <1>1
      <4> QED
        BY <2>2, <3>1, <4>1 DEF HistoryParses
    <3>2. ASSUME NEW v \in Values, l.cell[k] = [val |-> v, ver |-> IF v = Nil THEN 0 ELSE N],
                 v = Nil \/ Canonical(v)
          PROVE  Canonical(l.cell[k].val)
      <4>1. l.cell[k].val = v
        BY <3>2
      <4> QED
        BY <2>2, <3>2, <4>1
    <3> QED
      BY <1>9, <3>1, <3>2
  <2> QED
    BY <1>6, <2>1, <2>2 DEF HistoryParses
<1>12. EndorsedOnHistory'
  <2>1. \A i \in 1..N : i \in 1..Len(hist') /\ hist'[i] = hist[i]
    BY <1>1, <1>6
  <2> QED
    BY <1>2, <2>1 DEF EndorsedOnHistory, Sent
<1>13. PeersOnHistory'
  <2>1. ASSUME NEW p \in Peers
        PROVE  /\ Height(p)' = Height(p) /\ Height(p) <= N
               /\ ledger'[p] = hist'[Height(p) + 1]
               /\ \A n \in 1..Height(p) :
                    flags'[p][n] = Verdict(hist'[n], txOf'[chain'[n]])
    <3>1. Height(p) \in Nat /\ Height(p) <= Len(chain) /\ Height(p)' = Height(p)
      BY <1>2 DEF PeersOnHistory, TypeOK, Height
    <3>2. Height(p) + 1 \in 1..N /\ \A n \in 1..Height(p) : n \in 1..N /\ n \in 1..Len(chain)
      BY <1>1, <3>1
    <3> QED
      BY <1>1, <1>2, <1>5, <1>6, <3>1, <3>2 DEF PeersOnHistory
  <2> QED
    BY <1>5, <2>1 DEF PeersOnHistory
<1>14. ClientsInOrder'
  <2>1. \A m, n \in 1..N : chain'[m] = chain'[n] => m = n
    BY <1>1, <1>2, <1>5 DEF ClientsInOrder, Ordered
  <2>2. \A p \in Peers : \A n \in 1..Height(p) : n \in 1..Len(chain)
    BY <1>1 DEF PeersOnHistory, TypeOK, Height
  <2> QED
    BY <1>2, <1>5, <2>1, <2>2 DEF ClientsInOrder, Sent, Height
<1> QED
  BY <1>7, <1>8, <1>10, <1>10a, <1>11, <1>12, <1>13, <1>14

\* A peer that applies its next block stays on the history.
LEMMA CommitPreserves ==
  ASSUME IndInv, NEW p \in Peers, Commit(p)
  PROVE  IndInv'
<1> DEFINE n  == Height(p) + 1
           tx == txOf[chain[n]]
<1> USE DEF IndInv
<1>1. /\ Height(p) \in Nat /\ n \in 1..Len(chain) /\ Len(chain) \in Nat
      /\ \A q \in Peers : Height(q) \in Nat
  BY HistType DEF Commit, Height, TypeOK
<1>2. /\ flags' = [flags EXCEPT ![p] = Append(flags[p], Verdict(ledger[p], tx))]
      /\ ledger' = [ledger EXCEPT ![p] = After(ledger[p], tx, n)]
      /\ UNCHANGED <<chain, status, txOf, hist>>
  BY DEF Commit
<1>3. ledger[p] = hist[n] /\ ledger[p] \in Ledgers
  BY DEF PeersOnHistory, TypeOK
<1>4. IsTx(tx) /\ hist[n + 1] = After(hist[n], tx, n)
  BY <1>1 DEF HistoryOfChain, TypeOK
<1>5. After(ledger[p], tx, n) = hist[n + 1] /\ After(ledger[p], tx, n) \in Ledgers
  BY <1>1, <1>3, <1>4, AfterType
<1>6. /\ Height(p)' = n
      /\ flags'[p][n] = Verdict(hist[n], tx)
      /\ \A m \in 1..Height(p) : flags'[p][m] = flags[p][m]
      /\ \A q \in Peers \ {p} : flags'[q] = flags[q] /\ Height(q)' = Height(q)
  BY <1>1, <1>2, <1>3 DEF TypeOK, Height
<1>7. Verdict(ledger[p], tx) \in {"VALID", "INVALID"}
  BY DEF Verdict
<1>8. TypeOK'
  BY <1>2, <1>5, <1>7 DEF TypeOK, Sent
<1>9. HistoryOfChain' /\ VersionsName' /\ VersionsAge' /\ HistoryParses' /\ EndorsedOnHistory'
  BY <1>2 DEF HistoryOfChain, VersionsName, VersionsAge, HistoryParses, EndorsedOnHistory, Sent
<1>10. PeersOnHistory'
  <2>1. /\ Height(p)' <= Len(chain)
        /\ ledger'[p] = hist[Height(p)' + 1]
    BY <1>1, <1>2, <1>5, <1>6 DEF TypeOK
  <2>2. \A m \in 1..Height(p)' : flags'[p][m] = Verdict(hist[m], txOf[chain[m]])
    <3>1. \A m \in 1..n : m = n \/ m \in 1..Height(p)
      BY <1>1
    <3> QED
      BY <1>6, <3>1 DEF PeersOnHistory
  <2>3. ASSUME NEW q \in Peers \ {p}
        PROVE  /\ Height(q)' <= Len(chain)
               /\ ledger'[q] = hist[Height(q)' + 1]
               /\ \A m \in 1..Height(q)' : flags'[q][m] = Verdict(hist[m], txOf[chain[m]])
    BY <1>2, <1>6 DEF PeersOnHistory, TypeOK
  <2> QED
    BY <1>2, <2>1, <2>2, <2>3 DEF PeersOnHistory
<1>11. ClientsInOrder'
  <2>1. \A q \in Peers : \A m \in 1..Height(q) :
          m \in 1..Height(q)' /\ flags'[q][m] = flags[q][m]
    BY <1>1, <1>6
  <2>2. ASSUME NEW c \in Clients, status'[c] = "submitted"
        PROVE  \E q \in Peers : \E m \in 1..Height(q)' :
                 chain'[m] = c /\ flags'[q][m] = "VALID"
    <3>1. PICK q \in Peers : \E m \in 1..Height(q) : chain[m] = c /\ flags[q][m] = "VALID"
      BY <1>2, <2>2 DEF ClientsInOrder
    <3> QED
      BY <1>2, <2>1, <3>1
  <2> QED
    BY <1>2, <2>2 DEF ClientsInOrder, Sent
<1> QED
  BY <1>8, <1>9, <1>10, <1>11

\* The invariant is an invariant.
THEOREM NetworkInvariant == Spec => []IndInv
<1>1. Init => IndInv
  BY InitEstablishes
<1>2. IndInv /\ [Next]_vars => IndInv'
  <2> SUFFICES ASSUME IndInv, [Next]_vars PROVE IndInv'
    OBVIOUS
  <2>1. ASSUME NEW c \in Clients, NEW p \in Peers, NEW call \in Calls, Endorse(c, p, call)
        PROVE  IndInv'
    BY <2>1, EndorsePreserves
  <2>2. ASSUME NEW c \in Clients, NEW p \in Peers, NEW call \in Calls, Refuse(c, p, call)
        PROVE  IndInv'
    BY <2>2, RefusePreserves
  <2>3. ASSUME NEW c \in Clients, Order(c) PROVE IndInv'
    BY <2>3, OrderPreserves
  <2>4. ASSUME NEW c \in Clients, Drop(c) PROVE IndInv'
    BY <2>4, DropPreserves
  <2>5. ASSUME NEW c \in Clients, Timeout(c) PROVE IndInv'
    BY <2>5, TimeoutPreserves
  <2>6. ASSUME NEW p \in Peers, Commit(p) PROVE IndInv'
    BY <2>6, CommitPreserves
  <2>7. ASSUME NEW c \in Clients, NEW p \in Peers, Notify(c, p) PROVE IndInv'
    BY <2>7, NotifyPreserves
  <2>8. CASE UNCHANGED vars
    <3>1. TypeOK' /\ HistoryOfChain' /\ EndorsedOnHistory'
      BY <2>8 DEF vars, IndInv, TypeOK, HistoryOfChain, EndorsedOnHistory, Sent
    <3>2. VersionsName' /\ HistoryParses'
      BY <2>8 DEF vars, IndInv, VersionsName, HistoryParses
    <3>3. VersionsAge'
      BY <2>8 DEF vars, IndInv, VersionsAge
    <3>4. PeersOnHistory' /\ ClientsInOrder'
      BY <2>8 DEF vars, IndInv, PeersOnHistory, ClientsInOrder, Sent, Height
    <3> QED
      BY <3>1, <3>2, <3>3, <3>4 DEF IndInv
  <2> QED
    BY <2>1, <2>2, <2>3, <2>4, <2>5, <2>6, <2>7, <2>8 DEF Next
<1> QED
  BY <1>1, <1>2, PTL DEF Spec

-----------------------------------------------------------------------------
\* What follows from it.

\* Every variable keeps its type: ledgers hold values with versions, what is
\* sent is a well-formed transaction of a permitted call.
THEOREM TypeCorrect == Spec => []TypeOK
BY NetworkInvariant, PTL DEF IndInv

\* Peers that have committed as many blocks agree on verdicts and state.
THEOREM PeersNeverFork == Spec => []NoFork
<1>1. IndInv => NoFork
  <2> SUFFICES ASSUME IndInv, NEW p \in Peers, NEW q \in Peers, Height(p) = Height(q)
               PROVE  flags[p] = flags[q] /\ ledger[p] = ledger[q]
    BY DEF NoFork
  <2>1. /\ flags[p] \in Seq({"VALID", "INVALID"}) /\ flags[q] \in Seq({"VALID", "INVALID"})
        /\ Len(flags[p]) = Len(flags[q])
    BY DEF IndInv, TypeOK, Height
  <2>2. \A n \in 1..Len(flags[p]) : flags[p][n] = flags[q][n]
    BY DEF IndInv, PeersOnHistory, Height
  <2>3. flags[p] = flags[q]
    BY <2>1, <2>2
  <2> QED
    BY <2>3 DEF IndInv, PeersOnHistory
<1> QED
  BY <1>1, NetworkInvariant, PTL

\* Every stored balance converts without the error invoke ignores.
THEOREM BalancesAlwaysParse == Spec => []BalancesParse
<1>1. IndInv => BalancesParse
  <2> SUFFICES ASSUME IndInv, NEW p \in Peers, NEW k \in Names,
                      ledger[p].cell[k].val # Nil
               PROVE  Canonical(ledger[p].cell[k].val)
    BY DEF BalancesParse
  <2>1. Height(p) + 1 \in 1..Len(hist) /\ ledger[p] = hist[Height(p) + 1]
    BY HistType DEF IndInv, PeersOnHistory, TypeOK, Height
  <2> QED
    BY <2>1 DEF IndInv, HistoryParses
<1> QED
  BY <1>1, NetworkInvariant, PTL

\* A success message is never wrong, whichever peer is asked and whenever.
THEOREM SuccessIsCommitted == Spec => []SubmittedIsCommitted
<1>1. IndInv => SubmittedIsCommitted
  <2> SUFFICES ASSUME IndInv, NEW c \in Clients, status[c] = "submitted"
               PROVE  \E n \in DOMAIN chain :
                        /\ chain[n] = c
                        /\ \E p \in Peers : n <= Height(p)
                        /\ \A p \in Peers : n <= Height(p) => flags[p][n] = "VALID"
    BY DEF SubmittedIsCommitted
  <2>0. PICK p \in Peers : \E n \in 1..Height(p) : chain[n] = c /\ flags[p][n] = "VALID"
    BY DEF IndInv, ClientsInOrder
  <2>1. PICK n \in 1..Height(p) : chain[n] = c /\ flags[p][n] = "VALID"
    BY <2>0
  <2>2. n \in DOMAIN chain /\ n \in Nat /\ n >= 1 /\ n <= Height(p)
    BY HistType DEF IndInv, PeersOnHistory, TypeOK, Height
  <2>3. ASSUME NEW q \in Peers, n <= Height(q) PROVE flags[q][n] = "VALID"
    <3>1. n \in 1..Height(q)
      BY <2>2, <2>3 DEF IndInv, TypeOK, Height
    <3> QED
      BY <2>1, <3>1 DEF IndInv, PeersOnHistory
  <2> QED
    BY <2>1, <2>2, <2>3
<1> QED
  BY <1>1, NetworkInvariant, PTL

-----------------------------------------------------------------------------
\* Validation by versions is as good as running the call again.

LEMMA EqualVersionsEqualCells ==
  ASSUME IndInv, NEW i \in 1..Len(hist), NEW j \in 1..Len(hist), NEW k \in Names,
         hist[i].cell[k].ver = hist[j].cell[k].ver
  PROVE  hist[i].cell[k].val = hist[j].cell[k].val
<1>1. VersionsName
  BY DEF IndInv
<1>2. /\ hist[i].cell[k].ver = 0 <=> hist[i].cell[k].val = Nil
      /\ hist[i].cell[k].ver # 0 => hist[hist[i].cell[k].ver + 1].cell[k] = hist[i].cell[k]
  BY ONLY <1>1, i \in 1..Len(hist), k \in Names DEF VersionsName
<1>3. /\ hist[j].cell[k].ver = 0 <=> hist[j].cell[k].val = Nil
      /\ hist[j].cell[k].ver # 0 => hist[hist[j].cell[k].ver + 1].cell[k] = hist[j].cell[k]
  BY ONLY <1>1, j \in 1..Len(hist), k \in Names DEF VersionsName
<1> QED
  BY ONLY <1>2, <1>3, hist[i].cell[k].ver = hist[j].cell[k].ver

LEMMA ValidRunsTheSame ==
  ASSUME IndInv, NEW c \in Sent, NEW j \in 1..Len(hist), Valid(hist[j], txOf[c])
  PROVE  /\ Execute(StateOf(hist[j]), txOf[c].call) = txOf[c].result
         /\ txOf[c].result.status = 200
         /\ IsCall(txOf[c].call)
         /\ StateOf(hist[j]) \in States
<1> DEFINE call == txOf[c].call
<1>1. PICK i \in 1..Len(hist) :
        Endorsable(hist[i], call) /\ txOf[c] = Endorsement(hist[i], call)
  BY DEF IndInv, EndorsedOnHistory
<1>2. call \in Calls /\ IsCall(call)
  BY CallsAssumption DEF IndInv, TypeOK, IsTx
<1>3. hist[i] \in Ledgers /\ hist[j] \in Ledgers
  BY HistType DEF IndInv
<1> DEFINE s == StateOf(hist[i])
           t == StateOf(hist[j])
           r == Execute(s, call)
<1>4. s \in States /\ t \in States
  BY <1>3, StateOfType
<1>5. r.status = 200 /\ r.reads \subseteq Names
  BY <1>1, <1>2, <1>4, ExecuteType DEF Endorsable, IsResult
<1>6. txOf[c].result = r /\ txOf[c].versions = [k \in r.reads |-> hist[i].cell[k].ver]
  <2> DEFINE e == Endorsement(hist[i], call)
  <2>1. e.result = r /\ e.versions = [k \in r.reads |-> hist[i].cell[k].ver]
    BY DEF Endorsement
  <2>2. txOf[c] = e
    BY <1>1
  <2> HIDE DEF e, r, call
  <2> QED
    BY <2>1, <2>2
<1>7. ASSUME NEW k \in r.reads PROVE s[k] = t[k]
  <2>1. k \in Names
    BY <1>5
  <2>2. hist[i].cell[k].ver = hist[j].cell[k].ver
    <3> HIDE DEF r
    <3> QED
      BY <1>6 DEF Valid
  <2> QED
    BY <2>1, <2>2, EqualVersionsEqualCells DEF StateOf
<1>8. Execute(t, call) = r
  <2> HIDE DEF s, t
  <2> QED
    BY <1>2, <1>4, <1>5, <1>7, ExecuteLocal
<1> HIDE DEF r
<1> QED
  BY <1>2, <1>4, <1>5, <1>6, <1>8

\* The chain is a serial execution, from what is known of its history.
LEMMA SerialHistory == ASSUME IndInv PROVE Serializable
<1> SUFFICES ASSUME NEW p \in Peers, NEW n \in 1..Height(p)
             PROVE  LET tx == txOf[chain[n]]
                        s  == StateOf(hist[n])
                    IN  IF flags[p][n] = "VALID"
                        THEN /\ Execute(s, tx.call) = tx.result
                             /\ StateOf(hist[n + 1]) = Write(s, tx.result.writes)
                        ELSE hist[n + 1] = hist[n]
  BY DEF Serializable
<1> DEFINE tx == txOf[chain[n]]
<1>1. n \in 1..Len(chain) /\ n \in 1..Len(hist)
  BY HistType DEF IndInv, PeersOnHistory, TypeOK, Height
<1>2. chain[n] \in Sent /\ hist[n + 1] = After(hist[n], tx, n)
  BY <1>1 DEF IndInv, HistoryOfChain
<1>3. flags[p][n] = Verdict(hist[n], tx)
  BY DEF IndInv, PeersOnHistory
<1>4. CASE Valid(hist[n], tx)
  <2>1. flags[p][n] = "VALID"
    BY <1>3, <1>4 DEF Verdict
  <2>2. Execute(StateOf(hist[n]), tx.call) = tx.result
    BY <1>1, <1>2, <1>4, ValidRunsTheSame
  <2>3. hist[n + 1] = Apply(hist[n], tx, n)
    BY <1>2, <1>4 DEF After
  <2>4. StateOf(hist[n + 1]) = Write(StateOf(hist[n]), tx.result.writes)
    <3> HIDE DEF tx
    <3> QED
      BY <2>3 DEF StateOf, Write, Apply, Written
  <2> QED
    BY <2>1, <2>2, <2>4
<1>5. CASE ~Valid(hist[n], tx)
  BY <1>2, <1>3, <1>5 DEF Verdict, After
<1> QED
  BY <1>4, <1>5

\* Lost updates, write skew and stale reads are impossible: the chain is a
\* serial execution of its valid transactions.
THEOREM SerialExecution == Spec => []Serializable
BY SerialHistory, NetworkInvariant, PTL

\* A successful run read only names that had a value.
LEMMA ReadsHaveValues ==
  ASSUME NEW s \in States, NEW call, IsCall(call), Execute(s, call).status = 200,
         NEW k \in Execute(s, call).reads
  PROVE  k \in Names /\ s[k] # Nil
<1> DEFINE r == Execute(s, call)
<1>1. \/ IsInitRun(call, r) \/ IsPaymentRun(s, call, r)
      \/ IsDeleteRun(call, r) \/ IsQueryRun(s, call, r)
  BY ExecuteShape
<1>2. k \in r.reads
  OBVIOUS
<1> HIDE DEF r
<1> QED
  BY <1>1, <1>2 DEF IsInitRun, IsPaymentRun, IsDeleteRun, IsQueryRun, InvokeRefuses

\* Of two valid transactions, the later does not build on a version of a name
\* that the earlier one read and overwrote.
LEMMA SpentVersionsAreGone ==
  ASSUME IndInv, NEW m \in 1..Len(chain), NEW n \in 1..Len(chain), m < n,
         Valid(hist[m], txOf[chain[m]]), Valid(hist[n], txOf[chain[n]]),
         NEW k \in DOMAIN txOf[chain[m]].versions,
         k \in DOMAIN txOf[chain[m]].result.writes,
         k \in DOMAIN txOf[chain[n]].versions
  PROVE  txOf[chain[m]].versions[k] # txOf[chain[n]].versions[k]
<1> DEFINE t == txOf[chain[m]]
           u == txOf[chain[n]]
<1>1. /\ m \in Nat /\ n \in Nat /\ m >= 1 /\ m + 1 \in 1..n /\ n \in 1..Len(hist)
      /\ m \in 1..Len(hist) /\ m + 1 \in 1..Len(hist)
      /\ hist[m] \in Ledgers /\ hist[m + 1] \in Ledgers /\ hist[n] \in Ledgers
  BY HistType DEF IndInv
<1>2. chain[m] \in Sent /\ hist[m + 1] = After(hist[m], t, m) /\ IsTx(t)
  BY DEF IndInv, HistoryOfChain, TypeOK
<1>3. k \in Names /\ t.versions[k] = hist[m].cell[k].ver /\ u.versions[k] = hist[n].cell[k].ver
  BY <1>2 DEF Valid, IsTx, IsPartial
<1>4. hist[m].cell[k].ver # 0
  <2>1. PICK i \in 1..Len(hist) :
          Endorsable(hist[i], t.call) /\ t = Endorsement(hist[i], t.call)
    BY <1>2 DEF IndInv, EndorsedOnHistory
  <2>2. hist[i] \in Ledgers /\ IsCall(t.call)
    BY <1>2, <2>1, HistType, CallsAssumption DEF IndInv, IsTx
  <2>3. StateOf(hist[i]) \in States
    BY <2>2, StateOfType
  <2> DEFINE e == Endorsement(hist[i], t.call)
             r == Execute(StateOf(hist[i]), t.call)
  <2>4. e.versions = [x \in r.reads |-> hist[i].cell[x].ver] /\ r.status = 200
    BY <2>1 DEF Endorsement, Endorsable
  <2>5. t.versions = [x \in r.reads |-> hist[i].cell[x].ver]
    <3>1. t = e
      BY <2>1
    <3> HIDE DEF t, e, r
    <3> QED
      BY <2>4, <3>1
  <2>6. k \in r.reads
    <3> HIDE DEF r
    <3> QED
      BY <2>5
  <2>7. StateOf(hist[i])[k] # Nil
    BY <2>2, <2>3, <2>4, <2>6, ReadsHaveValues
  <2>8. hist[i].cell[k].val # Nil
    BY <1>3, <2>7 DEF StateOf
  <2>9. VersionsName
    BY DEF IndInv
  <2>10. hist[i].cell[k].ver # 0
    BY ONLY <1>3, <2>8, <2>9, i \in 1..Len(hist) DEF VersionsName
  <2>11. t.versions[k] = hist[i].cell[k].ver
    <3> HIDE DEF t, r
    <3> QED
      BY <2>5, <2>6
  <2> QED
    BY <1>3, <2>10, <2>11
<1>5. hist[m].cell[k].ver < m
  BY <1>1, <1>3 DEF IndInv, VersionsName
<1>6. hist[m + 1].cell[k].ver \in {0, m}
  <2>1. hist[m + 1] = Apply(hist[m], t, m)
    BY <1>2 DEF After
  <2> QED
    BY <1>3, <2>1 DEF Apply, Written
<1>7. \/ hist[n].cell[k].ver \in {0, hist[m + 1].cell[k].ver}
      \/ hist[n].cell[k].ver >= m + 1
  <2>1. VersionsAge
    BY DEF IndInv
  <2> QED
    BY ONLY <1>1, <1>3, <2>1 DEF VersionsAge
<1>8. hist[m].cell[k].ver \in Nat /\ hist[n].cell[k].ver \in Nat
  BY <1>1, <1>3 DEF Ledgers, Cells
<1> QED
  BY <1>1, <1>3, <1>4, <1>5, <1>6, <1>7, <1>8

\* No two valid payments are made from, or to, the same version of an account.
THEOREM NeverSpentTwice == Spec => []NoDoubleSpend
<1>1. IndInv => NoDoubleSpend
  <2> SUFFICES ASSUME IndInv, NEW p \in Peers, NEW m \in 1..Height(p), NEW n \in 1..Height(p),
                      m # n, flags[p][m] = "VALID", flags[p][n] = "VALID",
                      NEW k \in DOMAIN txOf[chain[m]].versions,
                      k \in DOMAIN txOf[chain[m]].result.writes,
                      k \in DOMAIN txOf[chain[n]].versions,
                      k \in DOMAIN txOf[chain[n]].result.writes
               PROVE  txOf[chain[m]].versions[k] # txOf[chain[n]].versions[k]
    BY DEF NoDoubleSpend
  <2>1. m \in 1..Len(chain) /\ n \in 1..Len(chain) /\ (m < n \/ n < m)
    BY HistType DEF IndInv, PeersOnHistory, TypeOK, Height
  <2>2. Valid(hist[m], txOf[chain[m]]) /\ Valid(hist[n], txOf[chain[n]])
    BY DEF IndInv, PeersOnHistory, Verdict
  <2>3. CASE m < n
    BY <2>1, <2>2, <2>3, SpentVersionsAreGone
  <2>4. CASE n < m
    BY <2>1, <2>2, <2>4, SpentVersionsAreGone
  <2> QED
    BY <2>1, <2>3, <2>4
<1> QED
  BY <1>1, NetworkInvariant, PTL

-----------------------------------------------------------------------------
\* The network implements the bank.

LEMMA SameWrap == ASSUME NEW n PROVE TheBank!Wrap(n) = Wrap(n)
BY DEF TheBank!Wrap, Wrap

LEMMA SameInts == TheBank!GoInts = GoInts
BY DEF TheBank!GoInts, TheBank!MinInt, TheBank!MaxInt, GoInts, MinInt, MaxInt

\* What a string of an int is worth.
LEMMA BalanceOfItoa == ASSUME NEW n \in GoInts PROVE BalanceOf(Itoa(n)) = n
BY ItoaCanonical, StringsAssumption DEF BalanceOf

\* The balances after a transaction is applied.
LEMMA ApplyBalances ==
  ASSUME NEW l \in Ledgers, NEW tx, NEW n, NEW k \in Names
  PROVE  AccountsOf(Apply(l, tx, n))[k]
           = IF k \in DOMAIN tx.result.writes THEN BalanceOf(tx.result.writes[k])
                                              ELSE AccountsOf(l)[k]
BY DEF AccountsOf, Apply, Written

\* What an endorsed call orders is an order.
LEMMA OrderOfType ==
  ASSUME NEW l \in Ledgers, NEW call, IsCall(call), Endorsable(l, call)
  PROVE  OrderOf(call) \in TheBank!Orders
<1> DEFINE s == StateOf(l)
           r == Execute(s, call)
<1>1. s \in States /\ r.status = 200
  BY StateOfType DEF Endorsable
<1>2. \/ IsInitRun(call, r) \/ IsPaymentRun(s, call, r)
      \/ IsDeleteRun(call, r) \/ IsQueryRun(s, call, r)
  BY <1>1, ExecuteShape
<1> HIDE DEF r, s
<1>3. CASE IsInitRun(call, r)
  <2>1. /\ call.args[1] \in Names /\ Atoi(call.args[2]) \in GoInts
        /\ call.args[3] \in Names /\ Atoi(call.args[4]) \in GoInts
    BY <1>3, AtoiType DEF IsInitRun
  <2> QED
    BY <1>3, <2>1, SameInts DEF IsInitRun, OrderOf, TheBank!Orders
<1>4. CASE IsPaymentRun(s, call, r)
  <2>1. call.args[1] \in Names /\ call.args[2] \in Names /\ Atoi(call.args[3]) \in GoInts
    BY <1>4, AtoiType DEF IsPaymentRun
  <2> QED
    BY <1>4, <2>1, SameInts DEF IsPaymentRun, IsPayment, OrderOf, TheBank!Orders
<1>5. CASE IsDeleteRun(call, r)
  BY <1>5 DEF IsDeleteRun, OrderOf, TheBank!Orders
<1>6. CASE IsQueryRun(s, call, r)
  BY <1>6 DEF IsQueryRun, OrderOf, TheBank!Orders
<1> QED
  BY <1>2, <1>3, <1>4, <1>5, <1>6

\* Ordering a valid transaction does to the accounts what its call orders.
LEMMA OrderTakesEffect ==
  ASSUME NEW l \in Ledgers, NEW call, IsCall(call), NEW tx, NEW n,
         tx.result = Execute(StateOf(l), call), tx.result.status = 200,
         IsPayment(call) /\ Len(call.args) = 3 => call.args[1] # call.args[2],
         Accounts = AccountsOf(l), Accounts' = AccountsOf(Apply(l, tx, n))
  PROVE  TheBank!Effect(OrderOf(call))
<1> DEFINE s == StateOf(l)
           r == Execute(s, call)
<1>1. s \in States
  BY StateOfType
<1>2. \/ IsInitRun(call, r) \/ IsPaymentRun(s, call, r)
      \/ IsDeleteRun(call, r) \/ IsQueryRun(s, call, r)
  BY <1>1, ExecuteShape
<1>3. /\ Accounts \in [Names -> {Accounts[k] : k \in Names}]
      /\ Accounts' \in [Names -> {Accounts'[k] : k \in Names}]
  BY DEF AccountsOf
<1>4. \A k \in Names : Accounts'[k] = IF k \in DOMAIN r.writes THEN BalanceOf(r.writes[k])
                                                                ELSE Accounts[k]
  BY ApplyBalances
<1>5. \A k \in Names : Accounts[k] = BalanceOf(s[k])
  BY DEF AccountsOf, StateOf
<1> HIDE DEF r, s
<1>6. CASE IsInitRun(call, r)
  <2> DEFINE A == call.args[1]  v == Atoi(call.args[2])
             B == call.args[3]  w == Atoi(call.args[4])
  <2>1. A \in Names /\ B \in Names /\ v \in GoInts /\ w \in GoInts
    BY <1>6, AtoiType DEF IsInitRun
  <2>2. r.writes = PutBoth(A, v, B, w)
    BY <1>6 DEF IsInitRun
  <2>2a. OrderOf(call) = <<"open", A, v, B, w>>
    BY <1>6 DEF IsInitRun, OrderOf
  <2> HIDE DEF A, B, v, w
  <2>3. \A k \in Names : Accounts'[k] = IF k = B THEN w ELSE IF k = A THEN v ELSE Accounts[k]
    BY <1>4, <2>1, <2>2, BalanceOfItoa DEF PutBoth
  <2>4. TheBank!Open(A, v, B, w)
    BY <1>3, <2>1, <2>3 DEF TheBank!Open
  <2> QED
    BY <2>2a, <2>4 DEF TheBank!Effect
<1>7. CASE IsPaymentRun(s, call, r)
  <2> DEFINE A == call.args[1]
             B == call.args[2]
             X == Atoi(call.args[3])
  <2>1. A \in Names /\ B \in Names /\ X \in GoInts /\ A # B /\ s[A] # Nil /\ s[B] # Nil
    BY <1>7, AtoiType DEF IsPaymentRun, IsPayment, InvokeRefuses
  <2>2. r.writes = PutBoth(A, Wrap(Atoi(s[A]) - X), B, Wrap(Atoi(s[B]) + X))
    BY <1>7 DEF IsPaymentRun
  <2>2a. OrderOf(call) = <<"pay", A, B, X>>
    BY <1>7 DEF IsPaymentRun, OrderOf
  <2> HIDE DEF A, B, X
  <2>3. Accounts[A] = Atoi(s[A]) /\ Accounts[B] = Atoi(s[B])
    BY <1>5, <2>1 DEF BalanceOf
  <2>4. Accounts[A] \in GoInts /\ Accounts[B] \in GoInts
    BY <2>3, AtoiType
  <2>5. Accounts[A] - X \in Int /\ Accounts[B] + X \in Int
    BY <2>1, <2>4, HalfRangeAssumption DEF GoInts, MinInt, MaxInt
  <2>6. Wrap(Accounts[A] - X) \in GoInts /\ Wrap(Accounts[B] + X) \in GoInts
    BY <2>5, WrapType
  <2>7. \A k \in Names : Accounts'[k] = IF k = B THEN Wrap(Accounts[B] + X)
                                        ELSE IF k = A THEN Wrap(Accounts[A] - X) ELSE Accounts[k]
    BY <1>4, <2>1, <2>2, <2>3, <2>6, BalanceOfItoa DEF PutBoth
  <2>8. Accounts[A] # Nil /\ Accounts[B] # Nil
    BY <2>4, NilAssumption
  <2>9. TheBank!Pay(A, B, X)
    BY <1>3, <2>1, <2>7, <2>8, SameWrap DEF TheBank!Pay
  <2> QED
    BY <2>2a, <2>9 DEF TheBank!Effect
<1>8. CASE IsDeleteRun(call, r)
  <2> DEFINE A == call.args[1]
  <2>1. A \in Names /\ r.writes = [k \in {A} |-> Nil]
    BY <1>8 DEF IsDeleteRun
  <2>1a. OrderOf(call) = <<"close", A>>
    BY <1>8 DEF IsDeleteRun, OrderOf
  <2> HIDE DEF A
  <2>2. \A k \in Names : Accounts'[k] = IF k = A THEN Nil ELSE Accounts[k]
    BY <1>4, <2>1 DEF BalanceOf
  <2>3. TheBank!Close(A)
    BY <1>3, <2>1, <2>2 DEF TheBank!Close
  <2> QED
    BY <2>1a, <2>3 DEF TheBank!Effect
<1>9. CASE IsQueryRun(s, call, r)
  <2> DEFINE A == call.args[1]
  <2>1. A \in Names /\ s[A] # Nil /\ r.writes = [k \in {} |-> Nil]
    BY <1>9 DEF IsQueryRun
  <2>1a. OrderOf(call) = <<"look", A>>
    BY <1>9 DEF IsQueryRun, OrderOf
  <2> HIDE DEF A
  <2>2. Accounts' = Accounts
    BY <1>3, <1>4, <2>1
  <2>3. Accounts[A] # Nil
    BY <1>5, <2>1, AtoiType, NilAssumption DEF BalanceOf
  <2>4. TheBank!Look(A)
    BY <2>2, <2>3 DEF TheBank!Look
  <2> QED
    BY <2>1a, <2>4 DEF TheBank!Effect
<1> QED
  BY <1>2, <1>6, <1>7, <1>8, <1>9

LEMMA OrderStepsBank ==
  ASSUME IndInv, NoSelfPayment, NEW c \in Clients, Order(c)
  PROVE  TheBank!CarryOut(c) \/ UNCHANGED <<Accounts, Asked, Done, Told>>
<1> DEFINE N  == Len(hist)
           tx == txOf[c]
<1>1. /\ N \in Nat /\ N >= 1 /\ N = Len(chain) + 1 /\ Len(chain) \in Nat
      /\ \A i \in 1..N : hist[i] \in Ledgers
      /\ Newest = hist[N] /\ DOMAIN chain = 1..Len(chain)
  BY HistType DEF IndInv, Newest
<1>2. /\ chain' = Append(chain, c) /\ hist' = Append(hist, After(hist[N], tx, N))
      /\ UNCHANGED <<flags, ledger, status, txOf>>
      /\ c \in Sent /\ c \notin Ordered
  BY DEF Order, Newest
<1>3. /\ DOMAIN chain' = 1..N /\ chain'[N] = c
      /\ \A m \in 1..Len(chain) : chain'[m] = chain[m]
  BY <1>1, <1>2 DEF IndInv, TypeOK
<1>4. /\ Newest' = After(hist[N], tx, N)
      /\ \A m \in 1..N : hist'[m] = hist[m]
  <2>1. /\ Len(hist') = N + 1 /\ hist'[N + 1] = After(hist[N], tx, N)
        /\ \A m \in 1..N : hist'[m] = hist[m]
    BY <1>1, <1>2 DEF IndInv, TypeOK
  <2> QED
    BY <2>1 DEF Newest
<1>5. \A m \in 1..N : m \in 1..Len(chain) \/ m = N
  BY <1>1
<1>6. \A m \in 1..Len(chain) : m \in 1..N
  BY <1>1
<1>7. Told' = Told /\ Asked' = Asked
  BY <1>2 DEF Told, Asked, Sent
<1>8. c \in DOMAIN Asked \ Done /\ Asked[c] = OrderOf(tx.call)
  BY <1>2 DEF Done, Ordered, Asked
<1>8a. \A m \in 1..Len(chain) :
         Valid(hist'[m], txOf'[chain'[m]]) <=> Valid(hist[m], txOf[chain[m]])
  BY <1>2, <1>3, <1>4, <1>6
<1>8b. \A d : d \in Done <=>
         \E m \in 1..Len(chain) : Valid(hist[m], txOf[chain[m]]) /\ d = chain[m]
  BY <1>1 DEF Done
<1>8c. \A d : d \in Done' <=>
         \E m \in 1..N : Valid(hist'[m], txOf'[chain'[m]]) /\ d = chain'[m]
  BY <1>3 DEF Done
<1>9. CASE Valid(hist[N], tx)
  <2>1. Done' = Done \cup {c}
    <3>1. N \in 1..N /\ Valid(hist'[N], txOf'[chain'[N]])
      BY <1>1, <1>2, <1>3, <1>4, <1>9
    <3> QED
      BY <1>3, <1>5, <1>6, <1>8a, <1>8b, <1>8c, <3>1
  <2>2. N \in 1..N /\ hist[N] \in Ledgers
    BY <1>1
  <2>3. /\ tx.result = Execute(StateOf(hist[N]), tx.call) /\ tx.result.status = 200
        /\ IsCall(tx.call)
    BY <1>2, <1>9, <2>2, ValidRunsTheSame
  <2>4. tx.call \in Calls
    BY <1>2 DEF IndInv, TypeOK, IsTx
  <2>5. IsPayment(tx.call) /\ Len(tx.call.args) = 3 => tx.call.args[1] # tx.call.args[2]
    BY <2>4 DEF NoSelfPayment
  <2>6. Accounts = AccountsOf(hist[N]) /\ Accounts' = AccountsOf(Apply(hist[N], tx, N))
    BY <1>1, <1>4, <1>9 DEF Accounts, After
  <2> HIDE DEF tx, N
  <2>7. TheBank!Effect(OrderOf(tx.call))
    BY <2>2, <2>3, <2>5, <2>6, OrderTakesEffect
  <2> QED
    BY <1>7, <1>8, <2>1, <2>7 DEF TheBank!CarryOut
<1>10. CASE ~Valid(hist[N], tx)
  <2>1. Newest' = Newest
    BY <1>1, <1>4, <1>10 DEF After
  <2>2. Done' = Done
    <3>1. ~Valid(hist'[N], txOf'[chain'[N]])
      BY <1>1, <1>2, <1>3, <1>4, <1>10
    <3>2. ASSUME NEW d \in Done' PROVE d \in Done
      <4>1. PICK m \in 1..N : Valid(hist'[m], txOf'[chain'[m]]) /\ d = chain'[m]
        BY <1>8c
      <4>2. m \in 1..Len(chain)
        BY <1>5, <3>1, <4>1
      <4> QED
        BY <1>3, <1>8a, <1>8b, <4>1, <4>2
    <3>3. ASSUME NEW d \in Done PROVE d \in Done'
      <4>1. PICK m \in 1..Len(chain) : Valid(hist[m], txOf[chain[m]]) /\ d = chain[m]
        BY <1>8b
      <4> QED
        BY <1>3, <1>6, <1>8a, <1>8c, <4>1
    <3> QED
      BY <3>2, <3>3
  <2> QED
    BY <1>7, <2>1, <2>2 DEF Accounts
<1> QED
  BY <1>9, <1>10

\* Where the chain stays, so does the bank's record of orders carried out.
LEMMA DoneStays ==
  ASSUME IndInv, UNCHANGED <<chain, hist>>,
         \A n \in 1..Len(chain) : txOf'[chain[n]] = txOf[chain[n]]
  PROVE  Accounts' = Accounts /\ Done' = Done
<1>1. DOMAIN chain = 1..Len(chain)
  BY HistType DEF IndInv
<1>2. Done' = Done
  BY <1>1 DEF Done
<1> QED
  BY <1>2 DEF Accounts, Newest

LEMMA NotifyStepsBank ==
  ASSUME IndInv, NEW c \in Clients, NEW p \in Peers, Notify(c, p)
  PROVE  TheBank!Tell(c) \/ UNCHANGED <<Accounts, Asked, Done, Told>>
<1>1. Accounts' = Accounts /\ Done' = Done /\ Asked' = Asked
  BY DoneStays DEF Notify, Asked, Sent
<1>2. PICK n \in 1..Height(p) :
        /\ chain[n] = c
        /\ status' = [status EXCEPT ![c] = IF flags[p][n] = "VALID"
                                           THEN "submitted" ELSE "failed"]
  BY DEF Notify
<1>3. status \in [Clients -> {"idle", "waiting", "submitted", "failed"}] /\ status[c] = "waiting"
  BY DEF Notify, IndInv, TypeOK
<1>4. n \in DOMAIN chain
  BY HistType DEF IndInv, PeersOnHistory, TypeOK, Height
<1>5. CASE flags[p][n] = "VALID"
  <2>1. Valid(hist[n], txOf[chain[n]])
    BY <1>5 DEF IndInv, PeersOnHistory, Verdict
  <2>2. c \in Done
    BY <1>2, <1>4, <2>1 DEF Done
  <2>3. Told' = Told \cup {c}
    BY <1>2, <1>3, <1>5 DEF Told
  <2> QED
    BY <1>1, <2>2, <2>3 DEF TheBank!Tell
<1>6. CASE flags[p][n] # "VALID"
  <2>1. Told' = Told
    BY <1>2, <1>3, <1>6 DEF Told
  <2> QED
    BY <1>1, <2>1
<1> QED
  BY <1>5, <1>6

\* Seen by its users the network is one bank that carries out what they asked
\* for, one order at a time and each at most once, provided nobody pays to
\* himself.
THEOREM NetworkImplementsBank ==
  ASSUME NoSelfPayment
  PROVE  Spec => ImplementsBank
<1>1. Init => TheBank!Init
  BY DEF Init, TheBank!Init, Accounts, AccountsOf, BalanceOf, Newest, Genesis, Done, Told, Asked, Sent
<1>2. IndInv /\ [Next]_vars => [TheBank!Next]_<<Accounts, Asked, Done, Told>>
  <2> SUFFICES ASSUME IndInv, [Next]_vars
               PROVE  [TheBank!Next]_<<Accounts, Asked, Done, Told>>
    OBVIOUS
  <2>1. ASSUME NEW c \in Clients, NEW p \in Peers, NEW call \in Calls, Endorse(c, p, call)
        PROVE  TheBank!Ask(c)
    <3>1. \A n \in 1..Len(chain) : txOf'[chain[n]] = txOf[chain[n]]
      BY <2>1 DEF Endorse, IndInv, HistoryOfChain, ClientsInOrder, Sent
    <3>2. Told' = Told
      BY <2>1 DEF Endorse, Told, IndInv, TypeOK
    <3>3. c \notin Sent /\ Sent' = Sent \cup {c}
      BY <2>1 DEF Endorse, IndInv, ClientsInOrder, Sent
    <3>4. /\ txOf'[c].call = call
          /\ \A d \in Sent : d # c => txOf'[d] = txOf[d]
      BY <2>1 DEF Endorse, Endorsement, Sent
    <3>5. OrderOf(call) \in TheBank!Orders
      BY <2>1, CallsAssumption, OrderOfType DEF Endorse, IndInv, TypeOK
    <3>6. /\ c \notin DOMAIN Asked /\ c \in DOMAIN Asked'
          /\ Asked'[c] = OrderOf(call)
          /\ Asked' = [d \in DOMAIN Asked \cup {c} |->
                         IF d = c THEN Asked'[c] ELSE Asked[d]]
      BY <3>3, <3>4 DEF Asked
    <3> QED
      BY <2>1, <3>1, <3>2, <3>5, <3>6, DoneStays DEF Endorse, TheBank!Ask
  <2>2. ASSUME NEW c \in Clients, NEW p \in Peers, NEW call \in Calls, Refuse(c, p, call)
        PROVE  UNCHANGED <<Accounts, Asked, Done, Told>>
    <3>1. Told' = Told /\ Asked' = Asked
      BY <2>2 DEF Refuse, Told, IndInv, TypeOK, Asked, Sent
    <3> QED
      BY <2>2, <3>1, DoneStays DEF Refuse
  <2>3. ASSUME NEW c \in Clients, Order(c)
        PROVE  [TheBank!Next]_<<Accounts, Asked, Done, Told>>
    BY <2>3, OrderStepsBank DEF TheBank!Next
  <2>4. ASSUME NEW c \in Clients, Drop(c)
        PROVE  TheBank!Withdraw(c) \/ UNCHANGED <<Accounts, Asked, Done, Told>>
    <3>1. \A n \in 1..Len(chain) : txOf'[chain[n]] = txOf[chain[n]]
      BY <2>4, HistType DEF Drop, Ordered, IndInv, HistoryOfChain, Sent
    <3>2. Told' = Told
      BY <2>4 DEF Drop, Told, IndInv, TypeOK
    <3>3. c \notin Done
      BY <2>4 DEF Drop, Ordered, Done
    <3>4. Sent' = Sent \ {c} /\ \A d \in Sent \ {c} : txOf'[d] = txOf[d]
      BY <2>4 DEF Drop, Sent
    <3>5. Asked' = [d \in DOMAIN Asked \ {c} |-> Asked[d]]
      BY <3>4 DEF Asked
    <3>6. CASE c \in Sent
      BY <2>4, <3>1, <3>2, <3>3, <3>5, <3>6, DoneStays DEF Drop, Asked, TheBank!Withdraw
    <3>7. CASE c \notin Sent
      <4>1. Asked' = Asked
        BY <3>5, <3>7 DEF Asked
      <4> QED
        BY <2>4, <3>1, <3>2, <4>1, DoneStays DEF Drop
    <3> QED
      BY <3>6, <3>7
  <2>5. ASSUME NEW c \in Clients, Timeout(c)
        PROVE  UNCHANGED <<Accounts, Asked, Done, Told>>
    <3>1. Told' = Told /\ Asked' = Asked
      BY <2>5 DEF Timeout, Told, IndInv, TypeOK, Asked, Sent
    <3> QED
      BY <2>5, <3>1, DoneStays DEF Timeout
  <2>6. ASSUME NEW p \in Peers, Commit(p)
        PROVE  UNCHANGED <<Accounts, Asked, Done, Told>>
    BY <2>6, DoneStays DEF Commit, Told, Asked, Sent
  <2>7. ASSUME NEW c \in Clients, NEW p \in Peers, Notify(c, p)
        PROVE  [TheBank!Next]_<<Accounts, Asked, Done, Told>>
    BY <2>7, NotifyStepsBank DEF TheBank!Next
  <2>8. CASE UNCHANGED vars
    BY <2>8, DoneStays DEF vars, Told, Asked, Sent
  <2> QED
    BY <2>1, <2>2, <2>3, <2>4, <2>5, <2>6, <2>7, <2>8 DEF Next, TheBank!Next
<1> QED
  BY <1>1, <1>2, NetworkInvariant, PTL DEF Spec, ImplementsBank, TheBank!Spec

-----------------------------------------------------------------------------
\* Sums over a finite set of names.

\* What 0 has and n + 1 has if n does, every natural number has: a smallest
\* exception would have a predecessor.
LEMMA Induction ==
  ASSUME NEW G \in SUBSET Nat, 0 \in G, \A n \in G : n + 1 \in G
  PROVE  G = Nat
<1> SUFFICES ASSUME G # Nat PROVE FALSE
  OBVIOUS
<1> DEFINE D == Nat \ G
<1>1. D \subseteq Nat /\ D # {}
  OBVIOUS
<1>2. \A a, b \in Nat : a < b => <<a, b>> \in OpToRel(<, Nat)
  BY DEF OpToRel
<1>3. PICK d \in D : \A e \in D : ~(<<e, d>> \in OpToRel(<, Nat))
  BY ONLY <1>1, WFMin, NatLessThanWellFounded
<1>4. d \in Nat /\ d # 0 /\ d \notin G
  OBVIOUS
<1>5. d - 1 \in Nat /\ d - 1 < d /\ (d - 1) + 1 = d
  BY <1>4
<1>6. d - 1 \notin D
  BY <1>2, <1>3, <1>4, <1>5
<1> QED
  BY <1>4, <1>5, <1>6

\* The element a sum takes next.
Pick(s) == CHOOSE x \in s : TRUE

\* h summed up along the elements picked.
IsSum(g, h, S) ==
  g = [s \in SUBSET S |-> IF s = {} THEN 0 ELSE h[Pick(s)] + g[s \ {Pick(s)}]]

\* Every h has such a sum over a finite set: the recursion ends.
LEMMA SumExists ==
  ASSUME NEW S, IsFiniteSet(S), NEW h
  PROVE  \E g : IsSum(g, h, S)
<1> DEFINE Small(n) == {s \in SUBSET S : Cardinality(s) <= n}
           Step(g, s) == IF s = {} THEN 0 ELSE h[Pick(s)] + g[s \ {Pick(s)}]
           G == {n \in Nat : \E g : g = [s \in Small(n) |-> Step(g, s)]}
<1>1. \A s \in SUBSET S : IsFiniteSet(s) /\ Cardinality(s) \in Nat /\ (Cardinality(s) = 0 <=> s = {})
                          /\ Cardinality(s) <= Cardinality(S)
  BY FS_Subset, FS_CardinalityType, FS_EmptySet
<1>2. \A s \in SUBSET S : s # {} =>
        Pick(s) \in s /\ s \ {Pick(s)} \in SUBSET S /\ Cardinality(s \ {Pick(s)}) = Cardinality(s) - 1
  <2> SUFFICES ASSUME NEW s \in SUBSET S, s # {}
               PROVE  Pick(s) \in s /\ s \ {Pick(s)} \in SUBSET S
                      /\ Cardinality(s \ {Pick(s)}) = Cardinality(s) - 1
    OBVIOUS
  <2>1. Pick(s) \in s
    BY DEF Pick
  <2> QED
    BY <1>1, <2>1, FS_RemoveElement
<1>3. 0 \in G
  <2> DEFINE g == [s \in Small(0) |-> 0]
  <2>1. \A s \in Small(0) : s = {}
    BY <1>1
  <2>2. g = [s \in Small(0) |-> Step(g, s)]
    BY <2>1
  <2> QED
    BY <2>2
<1>4. ASSUME NEW n \in G PROVE n + 1 \in G
  <2>1. PICK f : f = [s \in Small(n) |-> Step(f, s)]
    OBVIOUS
  <2> DEFINE g == [s \in Small(n + 1) |-> IF s \in Small(n) THEN f[s] ELSE Step(f, s)]
  <2>2. ASSUME NEW s \in Small(n + 1), s # {} PROVE s \ {Pick(s)} \in Small(n)
    BY <1>1, <1>2, <2>2
  <2>3. Small(n) \subseteq Small(n + 1)
    BY <1>1
  <2>4. ASSUME NEW s \in Small(n + 1) PROVE g[s] = Step(g, s)
    <3>1. CASE s = {}
      BY <3>1, <2>1
    <3>2. CASE s # {}
      <4>1. g[s \ {Pick(s)}] = f[s \ {Pick(s)}]
        BY <2>2, <2>3, <3>2
      <4>2. g[s] = Step(f, s)
        BY <2>1
      <4> QED
        BY <3>2, <4>1, <4>2
    <3> QED
      BY <3>1, <3>2
  <2>5. g = [s \in Small(n + 1) |-> Step(g, s)]
    BY <2>4
  <2> HIDE DEF g
  <2>6. \E e : e = [s \in Small(n + 1) |-> Step(e, s)]
    BY <2>5
  <2>7. n + 1 \in Nat
    OBVIOUS
  <2> QED
    BY <2>6, <2>7
<1>5. G = Nat
  <2> HIDE DEF G
  <2>1. G \in SUBSET Nat
    BY DEF G
  <2> QED
    BY <1>3, <1>4, <2>1, Induction
<1>6. Cardinality(S) \in G
  BY <1>1, <1>5
<1>7. Small(Cardinality(S)) = SUBSET S
  BY <1>1
<1> QED
  BY <1>6, <1>7 DEF IsSum

\* h and i differ at A and B at most.
Near(h, i, A, B, S) ==
  /\ h \in [S -> Int] /\ i \in [S -> Int]
  /\ A \in S /\ B \in S
  /\ \A k \in S \ {A, B} : i[k] = h[k]

\* How much more i is than h at A and B, once if they are the same.
Change(h, i, A, B) == (i[A] - h[A]) + (IF A = B THEN 0 ELSE i[B] - h[B])

\* The sums of two such functions.
LEMMA SumsDiffer ==
  ASSUME NEW S, IsFiniteSet(S), NEW h, NEW i, NEW A, NEW B, Near(h, i, A, B, S),
         NEW g, IsSum(g, h, S), NEW f, IsSum(f, i, S)
  PROVE  g[S] \in Int /\ f[S] \in Int /\ f[S] - g[S] = Change(h, i, A, B)
<1> DEFINE One(k, s) == IF k \in s THEN i[k] - h[k] ELSE 0
           Two(s) == IF A = B THEN 0 ELSE One(B, s)
           Fits(s) == g[s] \in Int /\ f[s] \in Int /\ f[s] - g[s] = One(A, s) + Two(s)
           G == {n \in Nat : \A s \in SUBSET S : Cardinality(s) = n => Fits(s)}
<1> /\ h \in [S -> Int] /\ i \in [S -> Int] /\ A \in S /\ B \in S
    /\ \A k \in S \ {A, B} : i[k] = h[k]
  BY DEF Near
<1>1. \A s \in SUBSET S : IsFiniteSet(s) /\ Cardinality(s) \in Nat /\ (Cardinality(s) = 0 <=> s = {})
  BY FS_Subset, FS_CardinalityType, FS_EmptySet
<1>2. 0 \in G
  <2> SUFFICES Fits({})
    BY <1>1
  <2> QED
    BY DEF IsSum
<1>3. ASSUME NEW n \in G PROVE n + 1 \in G
  <2> SUFFICES ASSUME NEW s \in SUBSET S, Cardinality(s) = n + 1 PROVE Fits(s)
    OBVIOUS
  <2> DEFINE x == Pick(s)
             t == s \ {x}
  <2>1. s # {} /\ x \in s /\ x \in S
    <3>1. s # {}
      BY <1>1
    <3> QED
      BY <3>1 DEF Pick
  <2>2. t \in SUBSET S /\ Cardinality(t) = n
    <3>1. Cardinality(t) = Cardinality(s) - 1
      BY <1>1, <2>1, FS_RemoveElement
    <3>2. n \in Nat
      OBVIOUS
    <3> QED
      BY <3>1, <3>2
  <2>3. g[s] = h[x] + g[t] /\ f[s] = i[x] + f[t]
    BY <2>1 DEF IsSum
  <2>4. Fits(t)
    BY <2>2
  <2>5. h[x] \in Int /\ i[x] \in Int /\ i[A] \in Int /\ h[A] \in Int /\ i[B] \in Int /\ h[B] \in Int
    BY <2>1
  <2> HIDE DEF t
  <2>6. t = s \ {x}
    BY DEF t
  <2> HIDE DEF x
  <2>7. One(A, s) + Two(s) = One(A, t) + Two(t) + (i[x] - h[x])
    <3>1. CASE x = A
      BY <2>1, <2>5, <2>6, <3>1
    <3>2. CASE x = B
      BY <2>1, <2>5, <2>6, <3>2
    <3>3. CASE x \notin {A, B}
      BY <2>1, <2>5, <2>6, <3>3
    <3> QED
      BY <3>1, <3>2, <3>3
  <2>8. One(A, t) \in Int /\ Two(t) \in Int
    BY <2>5
  <2> HIDE DEF One, Two
  <2> QED
    BY <2>3, <2>4, <2>5, <2>7, <2>8
<1>4. G = Nat
  <2> HIDE DEF G
  <2>1. G \in SUBSET Nat
    BY DEF G
  <2> QED
    BY <1>2, <1>3, <2>1, Induction
<1>5. Fits(S)
  BY <1>1, <1>4
<1> QED
  BY <1>5 DEF Change

-----------------------------------------------------------------------------
\* Remainders.

\* Quotient and remainder.
LEMMA DivMod ==
  ASSUME NEW d \in Nat \ {0}, NEW n \in Int
  PROVE  \E q \in Int, r \in 0..d-1 : r = n % d /\ n = d * q + r
<1>1. n \div d \in Int /\ n % d \in 0..d-1 /\ n = d * (n \div d) + (n % d)
  OBVIOUS
<1> QED
  BY <1>1

\* A multiple leaves none.
LEMMA MultipleMod ==
  ASSUME NEW d \in Nat \ {0}, NEW q \in Int
  PROVE  (d * q) % d = 0
<1>1. d * q \in Int
  OBVIOUS
<1> DEFINE n == d * q
<1> HIDE DEF n
<1>2. PICK p \in Int, r \in 0..d-1 : r = n % d /\ n = d * p + r
  BY <1>1, DivMod DEF n
<1>3. r = d * (q - p)
  BY <1>2 DEF n
<1>4. \A k \in Int : k >= 1 => d * k >= d
  OBVIOUS
<1>5. \A k \in Int : k <= -1 => d * k <= -d
  OBVIOUS
<1>6. q - p = 0
  <2>1. q - p \in Int /\ r >= 0 /\ r < d
    OBVIOUS
  <2> QED
    BY <1>3, <1>4, <1>5, <2>1
<1> QED
  BY <1>2, <1>3, <1>6 DEF n

\* Wrapping adds or removes whole ranges of an int.
LEMMA WrapMod ==
  ASSUME NEW n \in Int
  PROVE  \E q \in Int : Wrap(n) = n + (2 * HalfRange) * q
<1> DEFINE d == 2 * HalfRange
           m == n + HalfRange
<1>1. d \in Nat \ {0} /\ m \in Int
  BY HalfRangeAssumption
<1>2. PICK q \in Int, r \in 0..d-1 : r = m % d /\ m = d * q + r
  <2> HIDE DEF d, m
  <2> QED
    BY <1>1, DivMod
<1>3. Wrap(n) = r - HalfRange
  BY <1>2 DEF Wrap
<1> HIDE DEF d
<1>4. d * (-q) = -(d * q) /\ d * q \in Int /\ -q \in Int
  BY <1>1
<1>5. Wrap(n) = n + d * (-q)
  <2>1. r = m - d * q
    <3> HIDE DEF m
    <3> QED
      BY <1>1, <1>2, <1>4
  <2> DEFINE e == d * q
  <2> HIDE DEF e
  <2>2. e \in Int /\ d * (-q) = -e
    BY ONLY <1>4 DEF e
  <2>3. r = m - e
    BY ONLY <2>1 DEF e
  <2> QED
    BY <1>3, <2>2, <2>3, HalfRangeAssumption
<1> QED
  BY <1>4, <1>5 DEF d

\* What a debit and a credit of one amount come to.
LEMMA TransferMod ==
  ASSUME NEW a \in Int, NEW b \in Int, NEW x \in Int
  PROVE  ((Wrap(a - x) - a) + (Wrap(b + x) - b)) % (2 * HalfRange) = 0
<1> DEFINE d == 2 * HalfRange
<1>1. d \in Nat \ {0}
  BY HalfRangeAssumption
<1>2. a - x \in Int /\ b + x \in Int
  OBVIOUS
<1>3. PICK p \in Int : Wrap(a - x) = (a - x) + d * p
  BY <1>2, WrapMod
<1>4. PICK q \in Int : Wrap(b + x) = (b + x) + d * q
  BY <1>2, WrapMod
<1> HIDE DEF d
<1>5. d * p + d * q = d * (p + q) /\ d * p \in Int /\ d * q \in Int /\ p + q \in Int
  BY <1>1
<1>6. (Wrap(a - x) - a) + (Wrap(b + x) - b) = d * (p + q)
  BY <1>3, <1>4, <1>5
<1> QED
  BY <1>1, <1>5, <1>6, MultipleMod DEF d

\* The sum of a state's balances, as a sum over the names.
LEMMA TotalIsSum ==
  ASSUME IsFiniteSet(Names), NEW s, NEW h, h = [k \in Names |-> Balance(s, k)]
  PROVE  \E g : IsSum(g, h, Names) /\ Total(s) = g[Names]
<1> DEFINE Step(g, u) == IF u = {} THEN 0
                         ELSE Balance(s, CHOOSE x \in u : TRUE) + g[u \ {CHOOSE x \in u : TRUE}]
           it == CHOOSE g : g = [u \in SUBSET Names |-> Step(g, u)]
<1>1. \A g : IsSum(g, h, Names) <=> g = [u \in SUBSET Names |-> Step(g, u)]
  <2> SUFFICES ASSUME NEW g, NEW u \in SUBSET Names, u # {}
               PROVE  h[Pick(u)] = Balance(s, CHOOSE x \in u : TRUE)
    BY DEF IsSum, Pick
  <2> QED
    BY DEF Pick
<1>2. it = [u \in SUBSET Names |-> Step(it, u)]
  <2> HIDE DEF Step
  <2>1. \E g : g = [u \in SUBSET Names |-> Step(g, u)]
    BY <1>1, SumExists
  <2> QED
    BY <2>1, Zenon
<1>3. Total(s) = it[Names]
  BY DEF Total, MapThenSumSet, MapThenFoldSet
<1> QED
  BY <1>1, <1>2, <1>3

\* A total of finitely many balances is a number.
LEMMA TotalType ==
  ASSUME IsFiniteSet(Names), NEW s
  PROVE  Total(s) \in Int
<1> DEFINE h == [k \in Names |-> Balance(s, k)]
<1>1. PICK g : IsSum(g, h, Names) /\ Total(s) = g[Names]
  BY TotalIsSum
<1>2. h \in [Names -> Int]
  <2>1. \A v : Atoi(v) \in Int
    BY AtoiType, HalfRangeAssumption DEF GoInts, MinInt, MaxInt
  <2> QED
    BY <2>1 DEF Balance
<1>3. CASE Names = {}
  <2>1. g[Names] = 0
    BY <1>1, <1>3 DEF IsSum
  <2> QED
    BY <1>1, <2>1
<1>4. CASE Names # {}
  <2>1. PICK A \in Names : TRUE
    BY <1>4
  <2> HIDE DEF h
  <2>2. Near(h, h, A, A, Names)
    BY <1>2 DEF Near
  <2>3. g[Names] \in Int
    BY <1>1, <2>2, SumsDiffer
  <2> QED
    BY <1>1, <2>3
<1> QED
  BY <1>3, <1>4

\* What a payment leaves of the total.
LEMMA PaymentMakes ==
  ASSUME IsFiniteSet(Names), NEW s \in States, NEW A \in Names, NEW B \in Names, NEW x \in Int,
         NEW w, w = PutBoth(A, Wrap(Atoi(s[A]) - x), B, Wrap(Atoi(s[B]) + x))
  PROVE  ((Total(Write(s, w)) - Total(s)) - (IF A = B THEN x ELSE 0)) % (2 * HalfRange) = 0
<1> DEFINE t == Write(s, w)
           h == [k \in Names |-> Balance(s, k)]
           i == [k \in Names |-> Balance(t, k)]
           a == Atoi(s[A])
           b == Atoi(s[B])
<1>1. \A v : Atoi(v) \in GoInts /\ Atoi(v) \in Int
  BY AtoiType, HalfRangeAssumption DEF GoInts, MinInt, MaxInt
<1>2. h \in [Names -> Int] /\ i \in [Names -> Int]
  BY <1>1 DEF Balance
<1>3. /\ A # B => t[A] = Itoa(Wrap(a - x))
      /\ t[B] = Itoa(Wrap(b + x))
      /\ \A k \in Names \ {A, B} : t[k] = s[k]
  BY DEF Write, PutBoth
<1>4. /\ h[A] = a /\ h[B] = b
      /\ A # B => i[A] = Wrap(a - x)
      /\ i[B] = Wrap(b + x)
      /\ \A k \in Names \ {A, B} : i[k] = h[k]
  <2>1. a - x \in Int /\ b + x \in Int
    BY <1>1
  <2>2. Atoi(Itoa(Wrap(a - x))) = Wrap(a - x) /\ Atoi(Itoa(Wrap(b + x))) = Wrap(b + x)
    BY <2>1, WrapType, ItoaCanonical
  <2> HIDE DEF t
  <2> QED
    BY <1>3, <2>2 DEF Balance
<1>5. PICK g : IsSum(g, h, Names) /\ Total(s) = g[Names]
  BY TotalIsSum
<1>6. PICK f : IsSum(f, i, Names) /\ Total(t) = f[Names]
  BY TotalIsSum
<1> HIDE DEF h, i
<1>7. Total(t) - Total(s) = Change(h, i, A, B)
  <2>1. f[Names] - g[Names] = Change(h, i, A, B)
    <3>1. IsSum(g, h, Names) /\ IsSum(f, i, Names)
      BY <1>5, <1>6
    <3>2. Near(h, i, A, B, Names)
      BY <1>2, <1>4 DEF Near
    <3> QED
      BY <3>1, <3>2, SumsDiffer
  <2> HIDE DEF t
  <2> QED
    BY <1>5, <1>6, <2>1
<1>8. a \in Int /\ b \in Int
  BY <1>1
<1>9. A = B => a = b
  OBVIOUS
<1> DEFINE made == IF A = B THEN x ELSE 0
           change == Total(t) - Total(s)
<1> HIDE DEF t, a, b, made, change
<1>10. CASE A # B
  <2>1. change = (Wrap(a - x) - a) + (Wrap(b + x) - b)
    BY <1>4, <1>7, <1>10 DEF change, Change
  <2>2. change \in Int
    <3>1. Wrap(a - x) \in Int /\ Wrap(b + x) \in Int
      BY <1>8, WrapType DEF GoInts
    <3> QED
      BY <1>8, <2>1, <3>1
  <2>3. made = 0
    BY <1>10 DEF made
  <2>4. change - made = change
    BY <2>2, <2>3
  <2> QED
    BY <1>8, <2>1, <2>4, TransferMod DEF t, change, made
<1>11. CASE A = B
  <2>1. change = Wrap(a + x) - a
    <3>1. Wrap(b + x) \in Int
      BY <1>8, WrapType DEF GoInts
    <3> QED
      BY <1>4, <1>7, <1>8, <1>9, <1>11, <3>1 DEF change, Change
  <2>2. PICK q \in Int : Wrap(a + x) = (a + x) + (2 * HalfRange) * q
    BY <1>8, WrapMod
  <2> DEFINE d == 2 * HalfRange
  <2>3. d \in Nat \ {0} /\ d * q \in Int
    BY HalfRangeAssumption
  <2>4. change - x = d * q
    <3> DEFINE e == d * q
    <3>1. Wrap(a + x) = (a + x) + e
      BY <2>2
    <3>2. e \in Int
      BY <2>3
    <3> HIDE DEF d, e
    <3>3. change - x = e
      BY <1>8, <2>1, <3>1, <3>2
    <3> QED
      BY <3>3 DEF e
  <2>5. (d * q) % d = 0
    <3> HIDE DEF d
    <3> QED
      BY <2>3, MultipleMod
  <2>6. made = x
    BY <1>11 DEF made
  <2> QED
    BY <2>4, <2>5, <2>6 DEF t, change, made
<1> QED
  BY <1>10, <1>11

\* A successful invoke is a payment run.
LEMMA PaymentShape ==
  ASSUME NEW s \in States, NEW call, IsCall(call), Execute(s, call).status = 200, IsPayment(call)
  PROVE  IsPaymentRun(s, call, Execute(s, call))
<1> DEFINE r == Execute(s, call)
<1>1. \/ IsInitRun(call, r) \/ IsPaymentRun(s, call, r)
      \/ IsDeleteRun(call, r) \/ IsQueryRun(s, call, r)
  BY ExecuteShape
<1>2. call.kind # "deploy" /\ call.fn # "delete" /\ call.fn # "query"
  BY DEF IsPayment
<1> HIDE DEF r
<1>3. IsPaymentRun(s, call, r)
  BY <1>1, <1>2 DEF IsInitRun, IsDeleteRun, IsQueryRun
<1> QED
  BY <1>3 DEF r

\* What invoke does to the money there is (chaincode_example02.go, lines
\* 102-158): the sum of all balances changes by exactly what the payment makes,
\* for any ledger of finitely many accounts; an infinite one has no sum.
THEOREM MoneyAlwaysMade ==
  ASSUME IsFiniteSet(Names)
  PROVE  Spec => []MoneyMade
<1>1. IndInv => MoneyMade
  <2> SUFFICES ASSUME IndInv, NEW p \in Peers, NEW n \in 1..Height(p),
                      flags[p][n] = "VALID", IsPayment(txOf[chain[n]].call)
               PROVE  ((Total(StateOf(hist[n + 1])) - Total(StateOf(hist[n])))
                        - Made(txOf[chain[n]].call)) % (2 * HalfRange) = 0
    BY DEF MoneyMade
  <2> DEFINE tx   == txOf[chain[n]]
             call == tx.call
             s    == StateOf(hist[n])
             A    == call.args[1]
             B    == call.args[2]
             x    == Atoi(call.args[3])
  <2>1. n \in 1..Len(chain) /\ n \in 1..Len(hist) /\ chain[n] \in Sent
    BY HistType DEF IndInv, PeersOnHistory, HistoryOfChain, TypeOK, Height
  <2>2. Valid(hist[n], tx)
    BY DEF IndInv, PeersOnHistory, Verdict
  <2>3. /\ Execute(s, call) = tx.result /\ tx.result.status = 200
        /\ IsCall(call) /\ s \in States
    BY <2>1, <2>2, ValidRunsTheSame
  <2>4. StateOf(hist[n + 1]) = Write(s, tx.result.writes)
    BY SerialHistory DEF Serializable
  <2>5. IsPaymentRun(s, call, Execute(s, call))
    BY <2>3, PaymentShape
  <2>6. /\ A \in Names /\ B \in Names
        /\ tx.result.writes = PutBoth(A, Wrap(Atoi(s[A]) - x), B, Wrap(Atoi(s[B]) + x))
    <3> HIDE DEF s
    <3> QED
      BY <2>3, <2>5 DEF IsPaymentRun
  <2>7. x \in Int
    BY AtoiType, HalfRangeAssumption DEF GoInts, MinInt, MaxInt
  <2> DEFINE w == tx.result.writes
  <2>8. s \in States /\ w = PutBoth(A, Wrap(Atoi(s[A]) - x), B, Wrap(Atoi(s[B]) + x))
    BY <2>3, <2>6
  <2>9. Made(call) = IF A = B THEN x ELSE 0
    BY DEF Made
  <2> HIDE DEF s, x, A, B, tx, w
  <2>10. ((Total(Write(s, w)) - Total(s)) - (IF A = B THEN x ELSE 0)) % (2 * HalfRange) = 0
    BY <2>6, <2>7, <2>8, PaymentMakes
  <2> QED
    BY <2>4, <2>9, <2>10 DEF s, w, tx
<1> QED
  BY <1>1, NetworkInvariant, PTL

\* Where nobody pays himself, invoke makes no money and loses none: lines 142
\* and 143 of chaincode_example02.go take from one balance what they add to the
\* other, though either may overflow.
THEOREM TotalAlwaysKept ==
  ASSUME IsFiniteSet(Names), NoSelfPayment
  PROVE  Spec => []PaymentsKeepTotal
<1>1. IndInv /\ MoneyMade => PaymentsKeepTotal
  <2> SUFFICES ASSUME IndInv, MoneyMade, NEW p \in Peers, NEW n \in 1..Height(p),
                      flags[p][n] = "VALID", IsPayment(txOf[chain[n]].call)
               PROVE  (Total(StateOf(hist[n + 1])) - Total(StateOf(hist[n]))) % (2 * HalfRange) = 0
    BY DEF PaymentsKeepTotal
  <2> DEFINE tx   == txOf[chain[n]]
             call == tx.call
             s    == StateOf(hist[n])
             t    == StateOf(hist[n + 1])
  <2>1. n \in 1..Len(chain) /\ n \in 1..Len(hist) /\ chain[n] \in Sent
    BY HistType DEF IndInv, PeersOnHistory, HistoryOfChain, TypeOK, Height
  <2>2. Valid(hist[n], tx)
    BY DEF IndInv, PeersOnHistory, Verdict
  <2>3. Execute(s, call) = tx.result /\ tx.result.status = 200 /\ IsCall(call) /\ s \in States
    BY <2>1, <2>2, ValidRunsTheSame
  <2>4. Len(call.args) = 3
    <3>1. IsPaymentRun(s, call, Execute(s, call))
      BY <2>3, PaymentShape
    <3> QED
      BY <3>1 DEF IsPaymentRun, InvokeRefuses
  <2>5. call \in Calls
    BY <2>1 DEF IndInv, TypeOK, IsTx
  <2>6. Made(call) = 0
    BY <2>4, <2>5 DEF NoSelfPayment, Made
  <2>7. Total(s) \in Int /\ Total(t) \in Int
    BY TotalType
  <2>8. ((Total(t) - Total(s)) - Made(call)) % (2 * HalfRange) = 0
    BY DEF MoneyMade
  <2>9. (Total(t) - Total(s)) - Made(call) = Total(t) - Total(s)
    <3> HIDE DEF s, t, call
    <3> QED
      BY <2>6, <2>7
  <2> QED
    BY <2>8, <2>9
<1> QED
  BY <1>1, MoneyAlwaysMade, NetworkInvariant, PTL
=============================================================================
