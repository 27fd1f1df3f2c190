------------------------------ MODULE MockStub ------------------------------
(***************************************************************************)
(* The in-memory stub of mockstub.go that chaincodes are unit-tested with. *)
(*                                                                         *)
(* One goroutine runs everything: the test calls a stub, the stub runs its *)
(* chaincode, the chaincode calls back into the stub or, through it,       *)
(* another stub.  The chaincodes are left open: whoever is running makes   *)
(* any call next.  The stack says who that is.                             *)
(*                                                                         *)
(* Keys are numbers in the order strings.Compare gives the strings; Lowest *)
(* is the empty string.                                                    *)
(***************************************************************************)
EXTENDS Integers, SequencesExt

CONSTANTS Stubs,       \* the stubs of a test
          Links,       \* pairs <<s, t>>: MockPeerChaincode registered t with s
          Keys,        \* the non-empty keys
          Values,      \* the non-empty values
          Nil,         \* no value, no transaction, no iterator, no element
          TxIds,       \* the uuids that tests pass in
          EventSlots,  \* capacity of the event channel
          MaxDepth     \* bound on nested chaincode calls

ASSUME KeysAssumption == Keys \subseteq Nat \ {0}
ASSUME NilAssumption ==
  /\ Nil \notin Values /\ Nil \notin TxIds /\ Nil \notin Keys
  /\ Nil \notin [key : Keys, linked : BOOLEAN]
ASSUME BoundsAssumption == EventSlots \in Nat /\ MaxDepth \in Nat

Lowest == 0

VARIABLES
  State,   \* per stub, the value of every key, or Nil
  KeyList, \* per stub, the list Keys: what iterators walk
  TxID,    \* per stub, the transaction it is in, or Nil for ""
  events,  \* per stub, how many events wait in its channel
  stack,   \* the chaincode calls in progress: their stub and uuid
  lost,    \* history: the calls in it whose stub, called again, has returned
  iter,    \* the range iterator in use, or Nil
  seen,    \* history: the keys it has returned
  owed,    \* history: the keys in its range since it was opened
  run      \* "running", or why the goroutine is not

vars == <<State, KeyList, TxID, events, stack, lost, iter, seen, owed, run>>

data == <<State, KeyList>>
scan == <<iter, seen, owed>>
control == <<TxID, stack, lost>>

-----------------------------------------------------------------------------
Present(s) == {k \in Keys : State[s][k] # Nil}
Listed(s)  == {KeyList[s][i] : i \in DOMAIN KeyList[s]}

\* An iterator's Current is an element of the list: its key, and whether it
\* is still linked.  container/list unlinks an element it removes, so a
\* removed element keeps its key and has no next one.
Element(k)      == [key |-> k, linked |-> TRUE]
FirstElement(s) == IF KeyList[s] = <<>> THEN Nil ELSE Element(KeyList[s][1])

NextElement(s, e) ==
  LET i == SelectInSeq(KeyList[s], LAMBDA k : k = e.key)
  IN  IF e.linked /\ i < Len(KeyList[s]) THEN Element(KeyList[s][i + 1]) ELSE Nil

\* The key is between the iterator's bounds; two empty bounds mean all keys.
InRange(it, k) ==
  \/ it.StartKey = Lowest /\ it.EndKey = Lowest
  \/ it.StartKey <= k /\ k < it.EndKey

\* Faulty variant: the list is walked from its second element on.
InsertKeyAfterFront(list, key) ==
  LET i == SelectInSubSeq(list, 2, Len(list), LAMBDA k : key <= k)
  IN  IF i = 0 THEN Append(list, key)
      ELSE IF list[i] = key THEN list ELSE InsertAt(list, i, key)

\* PutState's walk: stop at the first element the key is not greater than.
InsertKey(list, key) ==
  LET i == SelectInSeq(list, LAMBDA k : key <= k)
  IN  IF i = 0 THEN Append(list, key)
      ELSE IF list[i] = key THEN list ELSE InsertAt(list, i, key)

\* DelState's walk ends at the element it removes: that one has no next.
RemoveKey(list, key) == RemoveFirst(list, key)

-----------------------------------------------------------------------------
\* Whoever runs may call a stub: the test any of them, a chaincode its own.
Running(s) == run = "running" /\ (stack # <<>> => Last(stack).stub = s)

Init ==
  /\ State = [s \in Stubs |-> [k \in Keys |-> Nil]]
  /\ KeyList = [s \in Stubs |-> <<>>]
  /\ TxID = [s \in Stubs |-> Nil]
  /\ events = [s \in Stubs |-> 0]
  /\ stack = <<>>
  /\ lost = {}
  /\ iter = Nil
  /\ seen = <<>>
  /\ owed = {}
  /\ run = "running"

\* MockTransactionStart and MockTransactionEnd, called by the test itself.
TestStart(s, tx) ==
  /\ run = "running" /\ stack = <<>>
  /\ TxID' = [TxID EXCEPT ![s] = tx]
  /\ UNCHANGED <<data, events, stack, lost, scan, run>>

TestEnd(s) ==
  /\ run = "running" /\ stack = <<>>
  /\ TxID' = [TxID EXCEPT ![s] = Nil]
  /\ UNCHANGED <<data, events, stack, lost, scan, run>>

\* MockInit or MockInvoke up to the call of the chaincode.
Enter(s, tx) ==
  /\ TxID' = [TxID EXCEPT ![s] = tx]
  /\ stack' = Append(stack, [stub |-> s, uuid |-> tx])
  /\ UNCHANGED <<data, lost, events, scan, run>>

MockInvoke(s, tx) ==
  /\ run = "running" /\ stack = <<>>
  /\ Enter(s, tx)

\* Faulty variant: the called stub's TxID is used, not the caller's.
InvokeChaincodeOwnTx(s, t) ==
  /\ run = "running" /\ stack # <<>> /\ Last(stack).stub = s
  /\ Len(stack) < MaxDepth
  /\ <<s, t>> \in Links
  /\ Enter(t, TxID[t])

\* InvokeChaincode hands the caller's TxID on to the stub registered under
\* the name.  For a name nobody registered it dereferences a nil stub.
InvokeChaincode(s, t) ==
  /\ run = "running" /\ stack # <<>> /\ Last(stack).stub = s
  /\ Len(stack) < MaxDepth
  /\ <<s, t>> \in Links
  /\ Enter(t, TxID[s])

InvokeUnregistered(s) ==
  /\ run = "running" /\ stack # <<>> /\ Last(stack).stub = s
  /\ run' = "panicked"
  /\ UNCHANGED <<data, control, events, scan>>

\* The chaincode returns and MockTransactionEnd clears the stub's TxID, which
\* an earlier call of the same stub that is still in progress loses with it.
ReturnFromChaincode ==
  /\ run = "running" /\ stack # <<>>
  /\ TxID' = [TxID EXCEPT ![Last(stack).stub] = Nil]
  /\ stack' = Front(stack)
  /\ lost' = {i \in 1..Len(stack)-1 : i \in lost \/ stack[i].stub = Last(stack).stub}
  /\ UNCHANGED <<data, events, scan, run>>

-----------------------------------------------------------------------------
\* The iterator after stub s unlinks the element of a key.
Unlinked(s, key) ==
  IF iter # Nil /\ iter.Stub = s /\ iter.Current # Nil /\ iter.Current.key = key
  THEN [iter EXCEPT !.Current.linked = FALSE]
  ELSE iter

\* A deletion: the map entry, the list element, and what an iterator there is
\* left with.  A scan whose next element goes owes nothing from then on.
Delete(s, key) ==
  /\ State' = [State EXCEPT ![s][key] = Nil]
  /\ KeyList' = [KeyList EXCEPT ![s] = RemoveKey(@, key)]
  /\ iter' = Unlinked(s, key)
  /\ owed' = IF iter' # iter THEN {}
             ELSE IF iter # Nil /\ iter.Stub = s THEN owed \ {key} ELSE owed
  /\ UNCHANGED <<control, events, seen, run>>

\* DelState asks for no transaction.
DelState(s, key) == Running(s) /\ Delete(s, key)

\* PutState of an empty value is a deletion, inside a transaction.
PutEmpty(s, key) == Running(s) /\ TxID[s] # Nil /\ Delete(s, key)

PutState(s, key, value) ==
  /\ Running(s)
  /\ TxID[s] # Nil
  /\ State' = [State EXCEPT ![s][key] = value]
  /\ KeyList' = [KeyList EXCEPT ![s] = InsertKey(@, key)]
  /\ UNCHANGED <<control, events, scan, run>>

\* Faulty variant: a channel that never fills up.
SetEventUnbounded(s) ==
  /\ Running(s)
  /\ events[s] <= EventSlots
  /\ events' = [events EXCEPT ![s] = @ + 1]
  /\ UNCHANGED <<data, control, scan, run>>

\* SetEvent sends on a channel that nobody but the test receives from; on a
\* full one the only goroutine waits for itself.
SetEvent(s) ==
  /\ Running(s)
  /\ IF events[s] < EventSlots
     THEN events' = [events EXCEPT ![s] = @ + 1] /\ UNCHANGED run
     ELSE run' = "blocked" /\ UNCHANGED events
  /\ UNCHANGED <<data, control, scan>>

ReceiveEvent(s) ==
  /\ run = "running" /\ stack = <<>>
  /\ events[s] > 0
  /\ events' = [events EXCEPT ![s] = @ - 1]
  /\ UNCHANGED <<data, control, scan, run>>

-----------------------------------------------------------------------------
\* Range iterators.  GetStateByRange takes simple keys as bounds,
\* GetStateByPartialCompositeKey makes its bounds of a prefix; the iterator is
\* the same and starts at the front of the whole list.  A composite key as a
\* bound of the former is refused (validateSimpleKeys) and changes nothing.
GetStateByRange(s, from, to) ==
  /\ Running(s)
  /\ iter' = [Stub |-> s, StartKey |-> from, EndKey |-> to,
              Current |-> FirstElement(s), Closed |-> FALSE]
  /\ seen' = <<>>
  /\ owed' = {k \in Present(s) : InRange(iter', k)}
  /\ UNCHANGED <<data, control, events, run>>

\* The keys of the elements an iterator can reach.
Reach(it) ==
  IF it.Current = Nil THEN <<>>
  ELSE IF it.Current.linked
       THEN LET list == KeyList[it.Stub]
            IN  SubSeq(list, SelectInSeq(list, LAMBDA k : k = it.Current.key), Len(list))
       ELSE <<it.Current.key>>

\* Only the first element not below StartKey is looked at.
HasNext(it) ==
  LET reach == Reach(it)
      i == SelectInSeq(reach, LAMBDA k : it.StartKey <= k)
  IN  ~it.Closed /\ i # 0 /\ InRange(it, reach[i])

\* The key that the next call of Next returns.
NextKey(it) ==
  LET reach == Reach(it) IN reach[SelectInSeq(reach, LAMBDA k : InRange(it, k))]

\* Faulty variant: Current is moved on before its key is read.
NextSkipping ==
  /\ iter # Nil /\ Running(iter.Stub) /\ HasNext(iter)
  /\ seen' = Append(seen, NextKey(iter))
  /\ iter' = LET e == NextElement(iter.Stub, [iter.Current EXCEPT !.key = NextKey(iter)])
             IN  [iter EXCEPT !.Current = IF e = Nil THEN Nil ELSE NextElement(iter.Stub, e)]
  /\ UNCHANGED <<data, control, events, owed, run>>

\* Faulty variant: Current stays where it is when a key is returned.
NextStaying ==
  /\ iter # Nil /\ Running(iter.Stub) /\ HasNext(iter)
  /\ Len(seen) < 3
  /\ seen' = Append(seen, NextKey(iter))
  /\ UNCHANGED <<data, control, events, iter, owed, run>>

\* Next returns the key and the value the map has for it now, and moves on to
\* the element after it.
IterNext ==
  /\ iter # Nil /\ Running(iter.Stub) /\ HasNext(iter)
  /\ seen' = Append(seen, NextKey(iter))
  /\ iter' = [iter EXCEPT !.Current =
                NextElement(iter.Stub, [@ EXCEPT !.key = NextKey(iter)])]
  /\ UNCHANGED <<data, control, events, owed, run>>

Close ==
  /\ iter # Nil /\ Running(iter.Stub) /\ ~iter.Closed
  /\ iter' = [iter EXCEPT !.Closed = TRUE]
  /\ owed' = {}
  /\ UNCHANGED <<data, control, events, seen, run>>

-----------------------------------------------------------------------------
Next ==
  \/ \E s \in Stubs, tx \in TxIds : TestStart(s, tx) \/ MockInvoke(s, tx)
  \/ \E s \in Stubs : TestEnd(s) \/ InvokeUnregistered(s) \/ SetEvent(s) \/ ReceiveEvent(s)
  \/ \E s, t \in Stubs : InvokeChaincode(s, t)
  \/ ReturnFromChaincode
  \/ \E s \in Stubs, k \in Keys : DelState(s, k) \/ PutEmpty(s, k)
  \/ \E s \in Stubs, k \in Keys, v \in Values : PutState(s, k, v)
  \/ \E s \in Stubs : \E from, to \in Keys \cup {Lowest} : GetStateByRange(s, from, to)
  \/ IterNext
  \/ Close

Spec == Init /\ [][Next]_vars

-----------------------------------------------------------------------------
Bound == Keys \cup {Lowest}

TypeOK ==
  /\ State \in [Stubs -> [Keys -> Values \cup {Nil}]]
  /\ KeyList \in [Stubs -> Seq(Keys)]
  /\ TxID \in [Stubs -> TxIds \cup {Nil}]
  /\ events \in [Stubs -> 0..EventSlots]
  /\ stack \in Seq([stub : Stubs, uuid : TxIds \cup {Nil}])
  /\ lost \subseteq Nat
  /\ iter # Nil => iter \in [Stub : Stubs, StartKey : Bound, EndKey : Bound, Closed : BOOLEAN,
                            Current : {Nil} \cup [key : Keys, linked : BOOLEAN]]
  /\ seen \in Seq(Keys)
  /\ owed \subseteq Keys
  /\ run \in {"running", "blocked", "panicked"}

\* Two structures, one content: after any calls the list holds exactly the
\* keys that have a value, each once, in order, although PutState and DelState
\* each update map and list on their own (mockstub.go, lines 223-254, 262-268).
ListMatchesMap ==
  \A s \in Stubs :
    /\ \A i, j \in DOMAIN KeyList[s] : i < j => KeyList[s][i] < KeyList[s][j]
    /\ Listed(s) = Present(s)

\* A scan that runs while keys come and go under it still returns every key
\* that was there from its opening on, unless the very element it would look
\* at next was deleted.
ScanComplete ==
  iter # Nil => owed \subseteq {seen[i] : i \in DOMAIN seen} \cup
                              {Reach(iter)[i] : i \in DOMAIN Reach(iter)}

\* And it returns keys in ascending order, so none twice, all in its range,
\* and below all it can still reach.
ScanAscends ==
  iter # Nil =>
    /\ \A i \in DOMAIN seen : InRange(iter, seen[i])
    /\ LET all == seen \o Reach(iter) IN \A i, j \in DOMAIN all : i < j => all[i] < all[j]

\* "HasNext returns true if the range query iterator contains additional keys
\* and values" (mockstub.go, lines 464-465): what it announces has a value.
\* False when the element it stands on was deleted.
NextHasValue ==
  iter # Nil /\ HasNext(iter) => State[iter.Stub][NextKey(iter)] # Nil

\* TxID is "used to indicate to a chaincode that it is part of a transaction",
\* "important when chaincodes invoke each other" (mockstub.go, lines 107-108),
\* and "if a chaincode uses recursion this may need to be a stack of TxIDs"
\* (lines 51-52).  Whatever chaincodes call each other, the one that runs is in
\* the transaction the test started, handed down through every call, as long
\* as no call in progress was called back into.  One that was runs on outside
\* any transaction: the inner call's end (lines 117-120) cleared its TxID, it
\* can no longer write, and no later call gives it one back.
InTransaction ==
  stack # <<>> =>
    /\ lost = {} => stack[1].uuid # Nil /\ TxID[Last(stack).stub] = stack[1].uuid
    /\ Len(stack) \in lost => TxID[Last(stack).stub] = Nil
=============================================================================
