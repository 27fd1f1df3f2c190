--------------------------- MODULE GlobalCounter ---------------------------
(***************************************************************************)
(* chaincode/test/global_variable: a chaincode that counts its calls in a  *)
(* Go variable.  "A global variable is kept on the peer the chaincode runs *)
(* on, but it is not shared with other peers", says its header.            *)
(*                                                                         *)
(* The variable lives as long as its process: one container for each peer  *)
(* and version of the chaincode, a new one after a restart.  The shim runs *)
(* every call in a goroutine of its own and nothing here locks, so that    *)
(* Count = Count + 1 is a load and a store with other calls in between,    *)
(* and what strconv.Itoa(Count) reads is the variable again or the value   *)
(* the compiler still has.  Peers, containers and the shim are external.   *)
(* Count is a Nat: an int overflows after 2^63 calls.                      *)
(***************************************************************************)
EXTENDS Naturals

CONSTANTS Containers, Calls

VARIABLES
  alive,      \* the containers that run
  count,      \* Count, per container
  begun,      \* history: the calls that have begun in it
  overlapped, \* history: has one begun while another was on its way?
  on,         \* the container each call is sent to
  at,         \* how far it is
  loaded,     \* the Count it has read
  ticket,     \* history: it was the how-manieth call of its container
  answer      \* what it returned

vars == <<alive, count, begun, overlapped, on, at, loaded, ticket, answer>>

\* A process starts with Count = 0.
Init ==
  /\ alive = {}
  /\ count = [k \in Containers |-> 0]
  /\ begun = [k \in Containers |-> 0]
  /\ overlapped = [k \in Containers |-> FALSE]
  /\ on \in [Calls -> Containers]
  /\ at = [c \in Calls |-> "new"]
  /\ loaded = [c \in Calls |-> 0]
  /\ ticket = [c \in Calls |-> 0]
  /\ answer = [c \in Calls |-> 0]

Launch(k) ==
  /\ k \notin alive /\ begun[k] = 0
  /\ alive' = alive \cup {k}
  /\ UNCHANGED <<count, begun, overlapped, on, at, loaded, ticket, answer>>

\* Init runs in a new container, and only on the peer that endorses the
\* deployment: before the first call, or never.
InitCount(k) ==
  /\ k \in alive /\ begun[k] = 0
  /\ count' = [count EXCEPT ![k] = 0]
  /\ UNCHANGED <<alive, begun, overlapped, on, at, loaded, ticket, answer>>

Exit(k) ==
  /\ k \in alive
  /\ alive' = alive \ {k}
  /\ UNCHANGED <<count, begun, overlapped, on, at, loaded, ticket, answer>>

Underway(c, k) == on[c] = k /\ at[c] \in {"loaded", "stored"}

\* Invoke dispatches to count, which reads Count.
Load(c) ==
  LET k == on[c] IN
  /\ k \in alive /\ at[c] = "new"
  /\ at' = [at EXCEPT ![c] = "loaded"]
  /\ loaded' = [loaded EXCEPT ![c] = count[k]]
  /\ begun' = [begun EXCEPT ![k] = @ + 1]
  /\ ticket' = [ticket EXCEPT ![c] = begun[k] + 1]
  /\ overlapped' = [overlapped EXCEPT ![k] = @ \/ \E d \in Calls : Underway(d, k)]
  /\ UNCHANGED <<alive, count, on, answer>>

Store(c) ==
  /\ on[c] \in alive /\ at[c] = "loaded"
  /\ at' = [at EXCEPT ![c] = "stored"]
  /\ count' = [count EXCEPT ![on[c]] = loaded[c] + 1]
  /\ UNCHANGED <<alive, begun, overlapped, on, loaded, ticket, answer>>

Return(c) ==
  /\ on[c] \in alive /\ at[c] = "stored"
  /\ at' = [at EXCEPT ![c] = "done"]
  /\ \E n \in {count[on[c]], loaded[c] + 1} : answer' = [answer EXCEPT ![c] = n]
  /\ UNCHANGED <<alive, count, begun, overlapped, on, loaded, ticket>>

Next ==
  \/ \E k \in Containers : Launch(k) \/ InitCount(k) \/ Exit(k)
  \/ \E c \in Calls : Load(c) \/ Store(c) \/ Return(c)

Spec == Init /\ [][Next]_vars

-----------------------------------------------------------------------------
TypeOK ==
  /\ alive \in SUBSET Containers
  /\ count \in [Containers -> Nat]
  /\ begun \in [Containers -> Nat]
  /\ overlapped \in [Containers -> BOOLEAN]
  /\ on \in [Calls -> Containers]
  /\ at \in [Calls -> {"new", "loaded", "stored", "done"}]
  /\ loaded \in [Calls -> Nat]
  /\ ticket \in [Calls -> Nat]
  /\ answer \in [Calls -> Nat]

\* What a call returns counts calls of its own container and no others: at
\* least itself, at most those that have begun there.  Calls that run side by
\* side can be lost, those of other peers never show (header, lines 4-5, and
\* count, lines 45-50).
CountsOwnCalls == \A c \in Calls : at[c] = "done" => answer[c] \in 1..begun[on[c]]

\* As long as no two calls of a container run side by side, each returns
\* exactly its number there (lines 45-50).
ExactWhenSerial ==
  \A c \in Calls : at[c] = "done" /\ ~overlapped[on[c]] => answer[c] = ticket[c]

=============================================================================
