----------------------------- MODULE MCAddOrg3 -----------------------------
(***************************************************************************)
(* AddOrg3 for TLC: two generations of crypto material for each            *)
(* organisation.                                                           *)
(***************************************************************************)
EXTENDS AddOrg3

Building == task3 \in OrgPlaces \ (OrgRest \cup {"fetch0", "join", "install", "query"})

\* While org3 builds or removes its network, the host is between two scripts:
\* their commands touch different files and machines, so that every order of
\* them comes to the same.  join-channel.sh runs beside every script.
SideBySide == Building => pc \in Rest /\ task \in HostRest
=============================================================================
