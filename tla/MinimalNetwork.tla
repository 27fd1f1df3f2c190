--------------------------- MODULE MinimalNetwork ---------------------------
(***************************************************************************)
(* network/minimal: bootstrap.sh, cleanup.sh and the containers they start *)
(* and stop, with the ledger that outlives the containers in ./production. *)
(*                                                                         *)
(* Without set -e a command that fails is passed over; a script can be     *)
(* killed between two commands and either can be run next.  cryptogen,     *)
(* configtxgen and docker are external.  Files and containers are known by *)
(* the generation of the crypto material they come from, 0 for none.       *)
(***************************************************************************)
EXTENDS Naturals

VARIABLES
  gen,        \* runs of cryptogen so far
  crypto,     \* ./crypto
  made,       \* what configtxgen has made
  production, \* the ledger in ./production, by its genesis block
  keyfile,    \* the key that FABRIC_CA_SERVER_CA_KEYFILE of .env names
  fabric,     \* the containers of orderer and peers
  ca,         \* the container of the CA
  pc          \* the next command

files      == <<gen, crypto, made, production, keyfile>>
containers == <<fabric, ca>>
vars       == <<files, containers, pc>>

Artefacts == {"genesis", "channelTx", "anchorTx"}

NoFabric == [up |-> FALSE, crypto |-> 0, ledger |-> 0]
NoCa     == [up |-> FALSE, crypto |-> 0, keyfile |-> 0]

Run(s, t) == pc = s /\ pc' = t

-----------------------------------------------------------------------------
\* The key named by the .env of the repository is not in it.
Init ==
  /\ gen = 0 /\ crypto = 0 /\ production = 0 /\ keyfile = 0
  /\ made = [f \in Artefacts |-> 0]
  /\ fabric = NoFabric /\ ca = NoCa
  /\ pc = "idle"

Start ==
  /\ pc = "idle" /\ pc' \in {"rmCrypto", "clean"}
  /\ UNCHANGED <<files, containers>>

RemoveCrypto ==
  /\ Run("rmCrypto", "cryptogen")
  /\ crypto' = 0
  /\ UNCHANGED <<gen, made, production, keyfile, containers>>

Cryptogen(works) ==
  /\ Run("cryptogen", "genesis")
  /\ IF works THEN gen' = gen + 1 /\ crypto' = gen + 1 ELSE UNCHANGED <<gen, crypto>>
  /\ UNCHANGED <<made, production, keyfile, containers>>

\* The old artefact is removed, configtxgen makes a new one of ./crypto.
Make(f, works) ==
  /\ \/ f = "genesis"   /\ Run(f, "channelTx")
     \/ f = "channelTx" /\ Run(f, "anchorTx")
     \/ f = "anchorTx"  /\ Run(f, "rmProduction")
  /\ made' = [made EXCEPT ![f] = IF works THEN crypto ELSE 0]
  /\ UNCHANGED <<gen, crypto, production, keyfile, containers>>

\* The ledger goes before the containers that write it.
RemoveProduction ==
  /\ Run("rmProduction", "down")
  /\ production' = 0
  /\ UNCHANGED <<gen, crypto, made, keyfile, containers>>

\* docker-compose down, or docker stop and docker rm of cleanup.sh.
Down(works) ==
  /\ Run("down", "env") \/ Run("stop", "idle")
  /\ IF works THEN fabric' = NoFabric /\ ca' = NoCa ELSE UNCHANGED containers
  /\ UNCHANGED files

\* sed replaces the line by what tree finds; if it finds nothing, xargs runs
\* no sed and the old line stays.
WriteEnv ==
  /\ Run("env", "up")
  /\ keyfile' = IF crypto = 0 THEN keyfile ELSE crypto
  /\ UNCHANGED <<gen, crypto, made, production, containers>>

\* docker-compose up -d creates the containers that are missing, and those
\* whose environment has changed again: only the CA's has the key in it.  An
\* orderer that finds a ledger takes it, otherwise the genesis block.
Up(works) ==
  LET ledger == IF production = 0 THEN made["genesis"] ELSE production IN
  /\ Run("up", "idle")
  /\ IF works /\ ~fabric.up
     THEN /\ fabric' = [up |-> TRUE, crypto |-> crypto, ledger |-> ledger]
          /\ production' = ledger
     ELSE UNCHANGED <<fabric, production>>
  /\ ca' = IF works /\ (ca.up => ca.keyfile # keyfile)
           THEN [up |-> TRUE, crypto |-> crypto, keyfile |-> keyfile] ELSE ca
  /\ UNCHANGED <<gen, crypto, made, keyfile>>

\* The files of cleanup.sh; .env keeps its key.
Cleanup ==
  /\ Run("clean", "stop")
  /\ crypto' = 0 /\ production' = 0 /\ made' = [f \in Artefacts |-> 0]
  /\ UNCHANGED <<gen, keyfile, containers>>

Kill == pc' = "idle" /\ UNCHANGED <<files, containers>>

Next ==
  \/ Start \/ RemoveCrypto \/ RemoveProduction \/ WriteEnv \/ Cleanup \/ Kill
  \/ \E works \in BOOLEAN :
       Cryptogen(works) \/ Down(works) \/ Up(works) \/ \E f \in Artefacts : Make(f, works)

Spec == Init /\ [][Next]_vars

-----------------------------------------------------------------------------
Places == Artefacts \cup
  {"idle", "rmCrypto", "cryptogen", "rmProduction", "down", "env", "up", "clean", "stop"}

TypeOK ==
  /\ gen \in Nat /\ crypto \in Nat /\ production \in Nat /\ keyfile \in Nat
  /\ made \in [Artefacts -> Nat]
  /\ fabric.crypto \in Nat /\ fabric.ledger \in Nat
  /\ ca.crypto \in Nat /\ ca.keyfile \in Nat
  /\ pc \in Places

\* The orderer and the peers run on a ledger whose genesis block was made of
\* the certificates they have, whatever failed, was killed or was run before;
\* in particular they never find the ledger of an earlier network
\* (bootstrap.sh, lines 26-39, 62-65 and 99).
LedgerFits ==
  fabric.crypto # 0 /\ fabric.ledger # 0 => fabric.ledger = fabric.crypto

\* The CA is told the key that lies in its crypto material, also where
\* docker-compose renews it beside containers that could not be stopped
\* (bootstrap.sh, lines 65, 92 and 99).
KeyfileFits == ca.crypto # 0 => ca.keyfile = ca.crypto
=============================================================================
