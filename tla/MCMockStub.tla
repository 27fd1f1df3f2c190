----------------------------- MODULE MCMockStub -----------------------------
(***************************************************************************)
(* MockStub for TLC: a diamond of stubs, the last of which calls back into *)
(* the first and one of which calls itself, and scans of one of them.  The *)
(* stubs' data does not depend on who calls whom, so the runs explore      *)
(* nested calls over empty stubs, and data and scans in s1 while the other *)
(* stubs are idle.                                                         *)
(***************************************************************************)
EXTENDS MockStub, TLC

CONSTANTS s1, s2, s3, s4

NoLinks == {}
Diamond == {<<s1, s2>>, <<s1, s3>>, <<s2, s4>>, <<s3, s4>>}
Cycles  == Diamond \cup {<<s4, s1>>, <<s2, s2>>}

Scanning == iter # Nil \/ \E s \in Stubs : KeyList[s] # <<>>

\* A bound of the runs, as a CONSTRAINT.
OneAtATime ==
  Scanning =>
    /\ Len(stack) <= 1
    /\ iter # Nil => iter.Stub = s1
    /\ \A s \in Stubs \ {s1} : TxID[s] = Nil /\ events[s] = 0 /\ KeyList[s] = <<>>
=============================================================================
