------------------------ MODULE GlobalCounterProofs ------------------------
(***************************************************************************)
(* Proofs about GlobalCounter, for any number of containers and calls.     *)
(***************************************************************************)
EXTENDS GlobalCounter, TLAPS

\* No value of Count is ahead of the calls begun, in the variable or in hand.
NotAhead ==
  /\ \A k \in Containers : count[k] <= begun[k]
  /\ \A c \in Calls : at[c] = "loaded" => loaded[c] < begun[on[c]]
  /\ \A c \in Calls : at[c] = "stored" =>
       /\ loaded[c] < begun[on[c]]
       /\ count[on[c]] >= 1

\* Without overlap, the one call that is underway is the last that began, and
\* Count is one short until it stores.
Serial ==
  \A k \in Containers : ~overlapped[k] =>
    /\ \A c \in Calls : Underway(c, k) =>
         /\ ticket[c] = begun[k] /\ loaded[c] + 1 = ticket[c]
         /\ at[c] = "stored" => count[k] = begun[k]
         /\ \A d \in Calls : Underway(d, k) => d = c
    /\ (\A c \in Calls : on[c] = k => at[c] # "loaded") => count[k] = begun[k]

IndInv == TypeOK /\ NotAhead /\ Serial /\ CountsOwnCalls /\ ExactWhenSerial

-----------------------------------------------------------------------------
LEMMA InitEstablishes == Init => IndInv
  BY DEF Init, IndInv, TypeOK, NotAhead, Serial, CountsOwnCalls, ExactWhenSerial, Underway

LEMMA TypePreserved == TypeOK /\ [Next]_vars => TypeOK'
<1> SUFFICES ASSUME TypeOK, [Next]_vars PROVE TypeOK'
  OBVIOUS
<1> USE DEF TypeOK
<1>1. ASSUME NEW k \in Containers, Launch(k) \/ InitCount(k) \/ Exit(k) PROVE TypeOK'
  BY <1>1 DEF Launch, InitCount, Exit
<1>2. ASSUME NEW c \in Calls, Load(c) PROVE TypeOK'
  BY <1>2 DEF Load
<1>3. ASSUME NEW c \in Calls, Store(c) PROVE TypeOK'
  BY <1>3 DEF Store
<1>4. ASSUME NEW c \in Calls, Return(c) PROVE TypeOK'
  BY <1>4 DEF Return
<1>5. CASE UNCHANGED vars
  BY <1>5 DEF vars
<1> QED
  BY <1>1, <1>2, <1>3, <1>4, <1>5 DEF Next

LEMMA NotAheadPreserved == TypeOK /\ NotAhead /\ [Next]_vars => NotAhead'
<1> SUFFICES ASSUME TypeOK, NotAhead, [Next]_vars PROVE NotAhead'
  OBVIOUS
<1> USE DEF TypeOK, NotAhead
<1>1. ASSUME NEW k \in Containers, Launch(k) \/ InitCount(k) \/ Exit(k) PROVE NotAhead'
  BY <1>1 DEF Launch, InitCount, Exit
<1>2. ASSUME NEW c \in Calls, Load(c) PROVE NotAhead'
  BY <1>2 DEF Load
<1>3. ASSUME NEW c \in Calls, Store(c) PROVE NotAhead'
  BY <1>3 DEF Store
<1>4. ASSUME NEW c \in Calls, Return(c) PROVE NotAhead'
  BY <1>4 DEF Return
<1>5. CASE UNCHANGED vars
  BY <1>5 DEF vars
<1> QED
  BY <1>1, <1>2, <1>3, <1>4, <1>5 DEF Next

LEMMA SerialPreserved == TypeOK /\ NotAhead /\ Serial /\ [Next]_vars => Serial'
<1> SUFFICES ASSUME TypeOK, NotAhead, Serial, [Next]_vars PROVE Serial'
  OBVIOUS
<1> USE DEF TypeOK, Serial, Underway
<1>1. ASSUME NEW k \in Containers, Launch(k) \/ Exit(k) PROVE Serial'
  BY <1>1 DEF Launch, Exit
<1>2. ASSUME NEW k \in Containers, InitCount(k) PROVE Serial'
  BY <1>2 DEF InitCount, NotAhead
<1>3. ASSUME NEW c \in Calls, Load(c) PROVE Serial'
  <2> DEFINE j == on[c]
  <2>1. j \in Containers /\ on' = on /\ count' = count
    BY <1>3 DEF Load
  <2>2. ASSUME NEW k \in Containers, k # j
        PROVE /\ overlapped'[k] = overlapped[k] /\ begun'[k] = begun[k]
              /\ \A d \in Calls : on[d] = k =>
                   at'[d] = at[d] /\ ticket'[d] = ticket[d] /\ loaded'[d] = loaded[d]
    BY <1>3, <2>2 DEF Load
  <2>3. overlapped'[j] = (overlapped[j] \/ \E d \in Calls : Underway(d, j))
    BY <1>3 DEF Load
  <2>4. at'[c] = "loaded" /\ loaded'[c] = count[j] /\ ticket'[c] = begun[j] + 1
        /\ begun'[j] = begun[j] + 1 /\ \A d \in Calls \ {c} : at'[d] = at[d]
    BY <1>3 DEF Load
  <2>5. ASSUME ~overlapped'[j]
        PROVE /\ \A d \in Calls : on[d] = j => at[d] \notin {"loaded", "stored"}
              /\ count[j] = begun[j]
    BY <2>1, <2>3, <2>5
  <2>6. ASSUME NEW k \in Containers, ~overlapped'[k], k = j
        PROVE /\ \A d \in Calls : Underway(d, k)' => d = c
              /\ at'[c] = "loaded" /\ on[c] = k
              /\ ticket'[c] = begun'[k] /\ loaded'[c] + 1 = ticket'[c]
    BY <2>1, <2>4, <2>5, <2>6
  <2> HIDE DEF j
  <2>7. ASSUME NEW k \in Containers, ~overlapped'[k], k # j
        PROVE /\ \A d \in Calls : Underway(d, k)' =>
                   /\ ticket'[d] = begun'[k] /\ loaded'[d] + 1 = ticket'[d]
                   /\ at'[d] = "stored" => count'[k] = begun'[k]
                   /\ \A e \in Calls : Underway(e, k)' => e = d
              /\ (\A d \in Calls : on'[d] = k => at'[d] # "loaded") => count'[k] = begun'[k]
    BY <2>1, <2>2, <2>7
  <2> QED
    BY <2>1, <2>6, <2>7
<1>4. ASSUME NEW c \in Calls, Store(c) PROVE Serial'
  BY <1>4 DEF Store
<1>5. ASSUME NEW c \in Calls, Return(c) PROVE Serial'
  BY <1>5 DEF Return
<1>6. CASE UNCHANGED vars
  BY <1>6 DEF vars
<1> QED
  BY <1>1, <1>2, <1>3, <1>4, <1>5, <1>6 DEF Next

LEMMA AnswersPreserved ==
  IndInv /\ [Next]_vars => CountsOwnCalls' /\ ExactWhenSerial'
<1> SUFFICES ASSUME IndInv, [Next]_vars PROVE CountsOwnCalls' /\ ExactWhenSerial'
  OBVIOUS
<1> USE DEF IndInv, TypeOK, CountsOwnCalls, ExactWhenSerial
<1>1. ASSUME NEW k \in Containers, Launch(k) \/ InitCount(k) \/ Exit(k)
      PROVE CountsOwnCalls' /\ ExactWhenSerial'
  BY <1>1 DEF Launch, InitCount, Exit
<1>2. ASSUME NEW c \in Calls, Load(c) PROVE CountsOwnCalls' /\ ExactWhenSerial'
  BY <1>2 DEF Load
<1>3. ASSUME NEW c \in Calls, Store(c) PROVE CountsOwnCalls' /\ ExactWhenSerial'
  BY <1>3 DEF Store
<1>4. ASSUME NEW c \in Calls, Return(c) PROVE CountsOwnCalls' /\ ExactWhenSerial'
  <2>1. PICK n \in {count[on[c]], loaded[c] + 1} : answer' = [answer EXCEPT ![c] = n]
    BY <1>4 DEF Return
  <2>2. n \in 1..begun[on[c]]
    BY <1>4 DEF Return, NotAhead
  <2>3. ~overlapped[on[c]] => n = ticket[c]
    BY <1>4 DEF Return, Serial, Underway
  <2> QED
    BY <1>4, <2>1, <2>2, <2>3 DEF Return
<1>5. CASE UNCHANGED vars
  BY <1>5 DEF vars
<1> QED
  BY <1>1, <1>2, <1>3, <1>4, <1>5 DEF Next

LEMMA Inductive == Spec => []IndInv
<1>1. IndInv /\ [Next]_vars => IndInv'
  BY TypePreserved, NotAheadPreserved, SerialPreserved, AnswersPreserved DEF IndInv
<1> QED
  BY InitEstablishes, <1>1, PTL DEF Spec

\* No call counts calls of another container, however calls overlap (count,
\* lines 45-50; header, lines 4-5).
THEOREM CountsOwn == Spec => []CountsOwnCalls
<1>1. IndInv => CountsOwnCalls
  BY DEF IndInv
<1> QED
  BY Inductive, <1>1, PTL

\* One call at a time, the counter is exact (count, lines 45-50).
THEOREM SerialIsExact == Spec => []ExactWhenSerial
<1>1. IndInv => ExactWhenSerial
  BY DEF IndInv
<1> QED
  BY Inductive, <1>1, PTL
=============================================================================
