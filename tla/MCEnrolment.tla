---------------------------- MODULE MCEnrolment ----------------------------
(***************************************************************************)
(* Enrolment for TLC: the dapps chaincode_example02 (user1 everywhere) and *)
(* fabcar (user2, but user1 in event.js).                                  *)
(***************************************************************************)
EXTENDS Enrolment, TLC

CONSTANTS example02, fabcar, user1, user2

Users     == example02 :> user1 @@ fabcar :> user2
Listeners == example02 :> user1 @@ fabcar :> user1

\* Two wallets for one user, as two checkouts of the example02 dapp have.
SameUser  == example02 :> user1 @@ fabcar :> user1

Symmetry == Permutations(Processes)
=============================================================================
