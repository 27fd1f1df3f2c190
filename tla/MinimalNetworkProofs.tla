------------------------ MODULE MinimalNetworkProofs ------------------------
(***************************************************************************)
(* Proofs about MinimalNetwork, for any number of runs of its scripts.     *)
(***************************************************************************)
EXTENDS MinimalNetwork, TLAPS

\* Where the script is, the files it has made so far are those of this run.
Prepared ==
  /\ pc \in {"channelTx", "anchorTx", "rmProduction", "down", "env", "up"} =>
       made["genesis"] \in {0, crypto}
  /\ pc \in {"down", "env", "up"} => production = 0
  /\ pc = "up" /\ crypto # 0 => keyfile = crypto

IndInv == TypeOK /\ Prepared /\ LedgerFits /\ KeyfileFits

LEMMA InitEstablishes == Init => IndInv
  BY DEF Init, IndInv, TypeOK, Prepared, LedgerFits, KeyfileFits, Artefacts, Places, NoFabric, NoCa

LEMMA TypePreserved == TypeOK /\ [Next]_vars => TypeOK'
<1> SUFFICES ASSUME TypeOK, [Next]_vars PROVE TypeOK'
  OBVIOUS
<1> USE DEF TypeOK, Run, Places, Artefacts, files, containers
<1>1. ASSUME Start \/ RemoveCrypto \/ RemoveProduction \/ WriteEnv \/ Cleanup \/ Kill
      PROVE TypeOK'
  BY <1>1 DEF Start, RemoveCrypto, RemoveProduction, WriteEnv, Cleanup, Kill
<1>2. ASSUME NEW works \in BOOLEAN, Cryptogen(works) PROVE TypeOK'
  BY <1>2 DEF Cryptogen
<1>3. ASSUME NEW works \in BOOLEAN, Down(works) PROVE TypeOK'
  BY <1>3 DEF Down, NoFabric, NoCa
<1>4. ASSUME NEW works \in BOOLEAN, Up(works) PROVE TypeOK'
  BY <1>4 DEF Up
<1>5. ASSUME NEW works \in BOOLEAN, NEW f \in Artefacts, Make(f, works) PROVE TypeOK'
  BY <1>5 DEF Make
<1>6. CASE UNCHANGED vars
  BY <1>6 DEF vars
<1> QED
  BY <1>1, <1>2, <1>3, <1>4, <1>5, <1>6 DEF Next

LEMMA PreparedPreserved == TypeOK /\ Prepared /\ [Next]_vars => Prepared'
<1> SUFFICES ASSUME TypeOK, Prepared, [Next]_vars PROVE Prepared'
  OBVIOUS
<1> USE DEF TypeOK, Prepared, Run, Artefacts, files, containers
<1>1. ASSUME Start \/ RemoveCrypto \/ RemoveProduction \/ WriteEnv \/ Cleanup \/ Kill
      PROVE Prepared'
  BY <1>1 DEF Start, RemoveCrypto, RemoveProduction, WriteEnv, Cleanup, Kill
<1>2. ASSUME NEW works \in BOOLEAN, Cryptogen(works) PROVE Prepared'
  BY <1>2 DEF Cryptogen
<1>3. ASSUME NEW works \in BOOLEAN, Down(works) PROVE Prepared'
  BY <1>3 DEF Down
<1>4. ASSUME NEW works \in BOOLEAN, Up(works) PROVE Prepared'
  BY <1>4 DEF Up
<1>5. ASSUME NEW works \in BOOLEAN, NEW f \in Artefacts, Make(f, works) PROVE Prepared'
  BY <1>5 DEF Make
<1>6. CASE UNCHANGED vars
  BY <1>6 DEF vars
<1> QED
  BY <1>1, <1>2, <1>3, <1>4, <1>5, <1>6 DEF Next

LEMMA FitPreserved == IndInv /\ [Next]_vars => LedgerFits' /\ KeyfileFits'
<1> SUFFICES ASSUME IndInv, [Next]_vars PROVE LedgerFits' /\ KeyfileFits'
  OBVIOUS
<1> USE DEF IndInv, LedgerFits, KeyfileFits, Run, files, containers
<1>1. ASSUME Start \/ RemoveCrypto \/ RemoveProduction \/ WriteEnv \/ Cleanup \/ Kill
      PROVE LedgerFits' /\ KeyfileFits'
  BY <1>1 DEF Start, RemoveCrypto, RemoveProduction, WriteEnv, Cleanup, Kill
<1>2. ASSUME NEW works \in BOOLEAN,
             Cryptogen(works) \/ \E f \in Artefacts : Make(f, works)
      PROVE LedgerFits' /\ KeyfileFits'
  BY <1>2 DEF Cryptogen, Make
<1>3. ASSUME NEW works \in BOOLEAN, Down(works) PROVE LedgerFits' /\ KeyfileFits'
  BY <1>3 DEF Down, NoFabric, NoCa
<1>4. ASSUME NEW works \in BOOLEAN, Up(works) PROVE LedgerFits' /\ KeyfileFits'
  <2>1. made["genesis"] \in {0, crypto} /\ production = 0 /\ (crypto # 0 => keyfile = crypto)
    BY <1>4 DEF Up, Prepared
  <2>2. LedgerFits'
    BY <1>4, <2>1 DEF Up
  <2>3. KeyfileFits'
    BY <1>4, <2>1 DEF Up
  <2> QED
    BY <2>2, <2>3
<1>5. CASE UNCHANGED vars
  BY <1>5 DEF vars
<1> QED
  BY <1>1, <1>2, <1>3, <1>4, <1>5 DEF Next

LEMMA Inductive == Spec => []IndInv
<1>1. IndInv /\ [Next]_vars => IndInv'
  BY TypePreserved, PreparedPreserved, FitPreserved DEF IndInv
<1> QED
  BY InitEstablishes, <1>1, PTL DEF Spec

\* No orderer or peer ever runs on the ledger of another network, however
\* often the scripts fail and are killed (bootstrap.sh, lines 26-99).
THEOREM LedgerAlwaysFits == Spec => []LedgerFits
<1>1. IndInv => LedgerFits
  BY DEF IndInv
<1> QED
  BY Inductive, <1>1, PTL

\* The CA is always told a key that it has (bootstrap.sh, lines 92 and 99).
THEOREM KeyfileAlwaysFits == Spec => []KeyfileFits
<1>1. IndInv => KeyfileFits
  BY DEF IndInv
<1> QED
  BY Inductive, <1>1, PTL
=============================================================================
