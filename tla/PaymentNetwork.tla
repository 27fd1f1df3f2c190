--------------------------- MODULE PaymentNetwork ---------------------------
(***************************************************************************)
(* The payment chaincode on a channel of the playground's network: client  *)
(* processes (invoke.js, `peer chaincode invoke`, `instantiate` and        *)
(* `upgrade`) have a peer run the chaincode on the peer's own ledger, the  *)
(* orderer puts the endorsed transactions in one order, and every peer     *)
(* validates and applies that order at its own pace.                       *)
(*                                                                         *)
(* The chaincode is module Example02.  Peers, orderer and SDK are not in   *)
(* the repository: they are modelled by what its scripts, clients and      *)
(* chaincode rely on.  A block holds one transaction; a longer block is a  *)
(* run of Commit steps with no endorsement between them.                   *)
(***************************************************************************)
EXTENDS Example02, FiniteSetsExt

CONSTANTS Peers,    \* the peers that join the channel
          Clients,  \* runs of a client process; running it again is another
          Calls     \* what a client may ask for

ASSUME NilAssumption == Nil \notin GoInts

ASSUME CallsAssumption == \A call \in Calls : IsCall(call)

VARIABLES
  chain,   \* the clients whose transactions the orderer put in order
  flags,   \* per peer, its verdicts on the blocks it has committed
  ledger,  \* per peer, its world state
  status,  \* per client, what its user has been told so far
  txOf,    \* the endorsed transactions of the clients that sent one
  hist     \* history variable: the ledger after 0, 1, 2, ... blocks

vars == <<chain, flags, ledger, status, txOf, hist>>

-----------------------------------------------------------------------------
\* A ledger holds for each name a value and its version, the number of the
\* block that wrote it (0: no value), and the version of the deployment.

Cells   == [val : Values, ver : Nat]
Ledgers == [cell : [Names -> Cells], deployed : Nat]

Genesis == [cell |-> [k \in Names |-> [val |-> Nil, ver |-> 0]], deployed |-> 0]

StateOf(l) == [k \in Names |-> l.cell[k].val]

\* A transaction: the call, the version of the deployment it ran under, the
\* versions of the keys it read, and what the run left.
IsTx(t) ==
  /\ t \in [call : Calls, deployed : Nat, versions : {t.versions}, result : {t.result}]
  /\ IsPartial(t.versions, Names, Nat)
  /\ IsResult(t.result)

\* What a peer whose ledger is l endorses for a call.
Endorsement(l, call) ==
  LET result == Execute(StateOf(l), call)
  IN  [call     |-> call,
       deployed |-> l.deployed,
       versions |-> [k \in result.reads |-> l.cell[k].ver],
       result   |-> result]

\* Nothing runs before the chaincode is deployed.
Endorsable(l, call) ==
  /\ call.kind = "deploy" \/ l.deployed # 0
  /\ Execute(StateOf(l), call).status = 200

\* Faulty variant: what was read must still exist, not be the same version.
ValidIfPresent(l, tx) ==
  /\ tx.deployed = l.deployed
  /\ \A k \in DOMAIN tx.versions : l.cell[k].ver # 0

\* A transaction is valid on l if what it read is still what l holds.
Valid(l, tx) ==
  /\ tx.deployed = l.deployed
  /\ \A k \in DOMAIN tx.versions : tx.versions[k] = l.cell[k].ver

Verdict(l, tx) == IF Valid(l, tx) THEN "VALID" ELSE "INVALID"

\* Faulty variant: a deleted name keeps a version.
WrittenTombstone(v, n) == [val |-> v, ver |-> n]

\* The cell that block n leaves when it writes v.
Written(v, n) == [val |-> v, ver |-> IF v = Nil THEN 0 ELSE n]

Apply(l, tx, n) ==
  [cell     |-> [k \in Names |-> IF k \in DOMAIN tx.result.writes
                                 THEN Written(tx.result.writes[k], n)
                                 ELSE l.cell[k]],
   deployed |-> IF tx.call.kind = "deploy" THEN n ELSE l.deployed]

\* The ledger after block n, which holds tx, is committed on l.
After(l, tx, n) == IF Valid(l, tx) THEN Apply(l, tx, n) ELSE l

-----------------------------------------------------------------------------
Sent      == DOMAIN txOf
Ordered   == {chain[i] : i \in DOMAIN chain}
Height(p) == Len(flags[p])
Newest    == hist[Len(hist)]

Init ==
  /\ chain = <<>>
  /\ flags = [p \in Peers |-> <<>>]
  /\ ledger = [p \in Peers |-> Genesis]
  /\ status = [c \in Clients |-> "idle"]
  /\ txOf = [c \in {} |-> Nil]
  /\ hist = <<Genesis>>

\* submitTransaction reaches a peer, the chaincode answers success and the
\* client sends the endorsed transaction off.
Endorse(c, p, call) ==
  /\ status[c] = "idle"
  /\ Endorsable(ledger[p], call)
  /\ status' = [status EXCEPT ![c] = "waiting"]
  /\ txOf' = [d \in Sent \cup {c} |-> IF d = c THEN Endorsement(ledger[p], call)
                                             ELSE txOf[d]]
  /\ UNCHANGED <<chain, flags, ledger, hist>>

\* The peer has no such chaincode or the chaincode answers an error:
\* submitTransaction throws and nothing is sent.  (`peer chaincode instantiate`
\* and `upgrade`, which send the deploys, do the same with messages of their
\* own, here and at a Timeout.)
Refuse(c, p, call) ==
  /\ status[c] = "idle"
  /\ ~Endorsable(ledger[p], call)
  /\ status' = [status EXCEPT ![c] = "failed"]
  /\ UNCHANGED <<chain, flags, ledger, txOf, hist>>

\* The orderer puts a transaction it has received into the next block.
Order(c) ==
  /\ c \in Sent
  /\ c \notin Ordered
  /\ chain' = Append(chain, c)
  /\ hist' = Append(hist, After(Newest, txOf[c], Len(hist)))
  /\ UNCHANGED <<flags, ledger, status, txOf>>

\* The transaction never gets to the orderer and the client is told.
Drop(c) ==
  /\ status[c] = "waiting"
  /\ c \notin Ordered
  /\ status' = [status EXCEPT ![c] = "failed"]
  /\ txOf' = [d \in Sent \ {c} |-> txOf[d]]
  /\ UNCHANGED <<chain, flags, ledger, hist>>

\* Faulty variant: versions are numbered by the chain's length at the time.
CommitAtTip(p) ==
  /\ Height(p) < Len(chain)
  /\ LET tx == txOf[chain[Height(p) + 1]]
     IN  /\ flags' = [flags EXCEPT ![p] = Append(@, Verdict(ledger[p], tx))]
         /\ ledger' = [ledger EXCEPT ![p] = After(@, tx, Len(chain))]
  /\ UNCHANGED <<chain, status, txOf, hist>>

\* Faulty variant: a peer halts at a block it finds invalid.
CommitHalting(p) ==
  /\ Height(p) < Len(chain)
  /\ LET n  == Height(p) + 1
         tx == txOf[chain[n]]
     IN  /\ Valid(ledger[p], tx)
         /\ flags' = [flags EXCEPT ![p] = Append(@, "VALID")]
         /\ ledger' = [ledger EXCEPT ![p] = Apply(@, tx, n)]
  /\ UNCHANGED <<chain, status, txOf, hist>>

\* A peer receives its next block, validates it against its own ledger and
\* applies it there.
Commit(p) ==
  /\ Height(p) < Len(chain)
  /\ LET n  == Height(p) + 1
         tx == txOf[chain[n]]
     IN  /\ flags' = [flags EXCEPT ![p] = Append(@, Verdict(ledger[p], tx))]
         /\ ledger' = [ledger EXCEPT ![p] = After(@, tx, n)]
  /\ UNCHANGED <<chain, status, txOf, hist>>

\* Faulty variant: the block event counts as success whatever the verdict.
NotifyAnyway(c, p) ==
  /\ status[c] = "waiting"
  /\ \E n \in 1..Height(p) : chain[n] = c
  /\ status' = [status EXCEPT ![c] = "submitted"]
  /\ UNCHANGED <<chain, flags, ledger, txOf, hist>>

\* Faulty variant: nothing is sent for an invalid transaction.
NotifyValidOnly(c, p) ==
  /\ status[c] = "waiting"
  /\ \E n \in 1..Height(p) : chain[n] = c /\ flags[p][n] = "VALID"
  /\ status' = [status EXCEPT ![c] = "submitted"]
  /\ UNCHANGED <<chain, flags, ledger, txOf, hist>>

\* Faulty variant: the validation code itself is shown to the user.
NotifyCode(c, p) ==
  /\ status[c] = "waiting"
  /\ \E n \in 1..Height(p) :
       /\ chain[n] = c
       /\ status' = [status EXCEPT ![c] = flags[p][n]]
  /\ UNCHANGED <<chain, flags, ledger, txOf, hist>>

\* A peer's event for the client's transaction: submitTransaction returns for
\* a valid one and throws for an invalid one.
Notify(c, p) ==
  /\ status[c] = "waiting"
  /\ \E n \in 1..Height(p) :
       /\ chain[n] = c
       /\ status' = [status EXCEPT ![c] = IF flags[p][n] = "VALID"
                                           THEN "submitted" ELSE "failed"]
  /\ UNCHANGED <<chain, flags, ledger, txOf, hist>>

\* No event came in time: submitTransaction throws, but the transaction is on
\* its way or even committed.
Timeout(c) ==
  /\ status[c] = "waiting"
  /\ status' = [status EXCEPT ![c] = "failed"]
  /\ UNCHANGED <<chain, flags, ledger, txOf, hist>>

Next ==
  \/ \E c \in Clients, p \in Peers, call \in Calls : Endorse(c, p, call) \/ Refuse(c, p, call)
  \/ \E c \in Clients : Order(c) \/ Drop(c) \/ Timeout(c)
  \/ \E p \in Peers : Commit(p)
  \/ \E c \in Clients, p \in Peers : Notify(c, p)

Spec == Init /\ [][Next]_vars

\* The orderer cuts a block at the latest one BatchTimeout after a
\* transaction, peers pull blocks as long as there are any, and a connected
\* event hub delivers.  Nobody has to submit, to lose a message or to be late.
Fairness ==
  /\ \A c \in Clients : WF_vars(Order(c))
  /\ \A p \in Peers : WF_vars(Commit(p))
  /\ \A c \in Clients, p \in Peers : WF_vars(Notify(c, p))

FairSpec == Spec /\ Fairness

-----------------------------------------------------------------------------
TypeOK ==
  /\ chain \in Seq(Clients)
  /\ flags \in [Peers -> Seq({"VALID", "INVALID"})]
  /\ ledger \in [Peers -> Ledgers]
  /\ status \in [Clients -> {"idle", "waiting", "submitted", "failed"}]
  /\ Sent \subseteq Clients
  /\ \A c \in Sent : IsTx(txOf[c])
  /\ hist \in Seq(Ledgers)

\* Peers do not diverge: two peers that have committed as many blocks, at
\* whatever times and next to whatever endorsements, reached the same verdicts
\* and hold the same world state.  (README of network/minimal: a peer that
\* joins late gets the blocks and answers queries like the first.)
NoFork ==
  \A p, q \in Peers :
    Height(p) = Height(q) => flags[p] = flags[q] /\ ledger[p] = ledger[q]

\* Transactions take effect as if each had run alone, in the order of the
\* chain, although each ran earlier on some peer's older ledger: where a peer
\* finds block n valid, running the call on the state left by the blocks
\* before it answers the same, and the state after it is that run's; an
\* invalid block changes nothing.  (chaincode_example02.go reads two balances
\* and writes two back with nothing of its own against a lost update.)
Serializable ==
  \A p \in Peers : \A n \in 1..Height(p) :
    LET tx == txOf[chain[n]]
        s  == StateOf(hist[n])
    IN  IF flags[p][n] = "VALID"
        THEN /\ Execute(s, tx.call) = tx.result
             /\ StateOf(hist[n + 1]) = Write(s, tx.result.writes)
        ELSE hist[n + 1] = hist[n]

\* No account is spent from twice on the strength of one balance: of the valid
\* transactions that read a name and write it, no two read the same version.
NoDoubleSpend ==
  \A p \in Peers : \A m, n \in 1..Height(p) :
    LET t == txOf[chain[m]]
        u == txOf[chain[n]]
    IN  m # n /\ flags[p][m] = "VALID" /\ flags[p][n] = "VALID" =>
          \A k \in DOMAIN t.versions \cap DOMAIN t.result.writes
                   \cap DOMAIN u.versions \cap DOMAIN u.result.writes :
            t.versions[k] # u.versions[k]

\* Every stored balance is a string Itoa wrote for an int, so the errors that
\* invoke drops when it converts stored balances (chaincode_example02.go,
\* lines 126 and 135) never occur and no balance is read as something else.
BalancesParse ==
  \A p \in Peers, k \in Names :
    LET v == ledger[p].cell[k].val IN v # Nil => Canonical(v)

\* "Transaction has been submitted" (invoke.js, line 43) is printed only for a
\* transaction that some peer has committed as valid, and then no peer finds
\* it invalid, now or when it catches up.
SubmittedIsCommitted ==
  \A c \in Clients : status[c] = "submitted" =>
    \E n \in DOMAIN chain :
      /\ chain[n] = c
      /\ \E p \in Peers : n <= Height(p)
      /\ \A p \in Peers : n <= Height(p) => flags[p][n] = "VALID"

\* The call that invoke.js submits; a deploy is the peer command's.
IsPayment(call) == call.kind = "submit" /\ call.fn = "invoke"

\* "Failed to submit transaction" (invoke.js, line 49): no peer's ledger holds
\* the payment of a client that was told so.  False: see Timeout.
FailedHasNoEffect ==
  \A c \in Clients, p \in Peers : \A n \in 1..Height(p) :
    status[c] = "failed" /\ chain[n] = c /\ IsPayment(txOf[c].call) => flags[p][n] # "VALID"

\* The sum of all balances, and what a payment adds to it: the amount, if it
\* goes from an account to itself, because the credit is computed from the
\* balance before the debit and written over it; otherwise nothing.
Balance(s, k) == Atoi(s[k])
Total(s) == MapThenSumSet(LAMBDA k : Balance(s, k), Names)
Made(call) == IF call.args[1] = call.args[2] THEN Atoi(call.args[3]) ELSE 0

\* A valid invoke changes the sum of all balances, modulo the range of an int,
\* by what the payment makes, whatever ran between its endorsement and its
\* block (chaincode_example02.go, lines 142-155).
MoneyMade ==
  \A p \in Peers : \A n \in 1..Height(p) :
    LET call == txOf[chain[n]].call
    IN  flags[p][n] = "VALID" /\ IsPayment(call) =>
          ((Total(StateOf(hist[n + 1])) - Total(StateOf(hist[n]))) - Made(call)) % (2 * HalfRange) = 0

\* A payment moves money and makes none: a valid invoke leaves the sum of all
\* balances as it was, modulo the range of an int.  (True where nobody pays
\* himself.)
PaymentsKeepTotal ==
  \A p \in Peers : \A n \in 1..Height(p) :
    flags[p][n] = "VALID" /\ IsPayment(txOf[chain[n]].call) =>
      (Total(StateOf(hist[n + 1])) - Total(StateOf(hist[n]))) % (2 * HalfRange) = 0

-----------------------------------------------------------------------------
\* Why they hold: the parts of the inductive invariant of the proofs.

\* The history is the chain, validated and applied block by block.
HistoryOfChain ==
  /\ Len(hist) = Len(chain) + 1
  /\ hist[1] = Genesis
  /\ \A n \in 1..Len(chain) :
       chain[n] \in Sent /\ hist[n + 1] = After(hist[n], txOf[chain[n]], n)

\* A version says all there is to say about a cell: it is the number of the
\* block that left the cell with its value, so equal versions mean equal cells.
VersionsName ==
  \A i \in 1..Len(hist), k \in Names :
    LET cell == hist[i].cell[k]
    IN  /\ cell.ver < i
        /\ cell.ver = 0 <=> cell.val = Nil
        /\ cell.ver # 0 => hist[cell.ver + 1].cell[k] = cell

\* A cell that has changed never gets an old version again.
VersionsAge ==
  \A k \in Names : \A j \in 1..Len(hist) : \A i \in 1..j :
    \/ hist[j].cell[k].ver \in {0, hist[i].cell[k].ver}
    \/ hist[j].cell[k].ver >= i

\* All that is ever stored is canonical.
HistoryParses ==
  \A i \in 1..Len(hist), k \in Names :
    hist[i].cell[k].val # Nil => Canonical(hist[i].cell[k].val)

\* Every transaction was endorsed on some past ledger of the channel.
EndorsedOnHistory ==
  \A c \in Sent : \E i \in 1..Len(hist) :
    /\ Endorsable(hist[i], txOf[c].call)
    /\ txOf[c] = Endorsement(hist[i], txOf[c].call)

\* A peer is somewhere along the history, with the history's verdicts.
PeersOnHistory ==
  \A p \in Peers :
    /\ Height(p) <= Len(chain)
    /\ ledger[p] = hist[Height(p) + 1]
    /\ \A n \in 1..Height(p) : flags[p][n] = Verdict(hist[n], txOf[chain[n]])

\* A client process sends at most one transaction, and its success message
\* comes from a peer's event.
ClientsInOrder ==
  /\ \A c \in Clients : status[c] = "idle" => c \notin Sent
  /\ \A m, n \in 1..Len(chain) : chain[m] = chain[n] => m = n
  /\ \A c \in Clients : status[c] = "submitted" =>
       \E p \in Peers : \E n \in 1..Height(p) : chain[n] = c /\ flags[p][n] = "VALID"

IndInv ==
  /\ TypeOK
  /\ HistoryOfChain
  /\ VersionsName
  /\ VersionsAge
  /\ HistoryParses
  /\ EndorsedOnHistory
  /\ PeersOnHistory
  /\ ClientsInOrder

-----------------------------------------------------------------------------
\* No call pays from an account to itself.  (Such a payment makes money: the
\* credit is computed from the balance before the debit and written last.)
NoSelfPayment ==
  \A call \in Calls :
    IsPayment(call) /\ Len(call.args) = 3 => call.args[1] # call.args[2]

\* The network implements the bank.  An order is carried out when the orderer
\* gives its transaction a place where it is valid.

BalanceOf(v)  == IF v = Nil THEN Nil ELSE Atoi(v)
AccountsOf(l) == [k \in Names |-> BalanceOf(l.cell[k].val)]
Accounts      == AccountsOf(Newest)

Done == {chain[n] : n \in {m \in DOMAIN chain : Valid(hist[m], txOf[chain[m]])}}
Told == {c \in Clients : status[c] = "submitted"}

\* What a call orders, in the bank's words.
OrderOf(call) ==
  IF call.kind = "deploy"
  THEN <<"open", call.args[1], Atoi(call.args[2]), call.args[3], Atoi(call.args[4])>>
  ELSE IF call.fn = "invoke"
       THEN <<"pay", call.args[1], call.args[2], Atoi(call.args[3])>>
       ELSE <<IF call.fn = "delete" THEN "close" ELSE "look", call.args[1]>>

Asked == [c \in Sent |-> OrderOf(txOf[c].call)]

TheBank == INSTANCE Bank WITH Closed <- Nil, Customers <- Clients,
                              accounts <- Accounts, asked <- Asked, done <- Done,
                              told <- Told

\* The whole network of clients, lagging peers, late and lost messages is, to
\* its users, one bank that carries out what they asked for, one order at a
\* time and each at most once, and confirms only what it did.
ImplementsBank == TheBank!Spec

-----------------------------------------------------------------------------
\* A client whose transaction is not lost is answered.
Answered == \A c \in Clients : status[c] = "waiting" ~> status[c] # "waiting"

\* Every transaction sent gets into every peer's ledger: from some time on all
\* peers hold the newest ledger.
Converge == <>[](\A p \in Peers : ledger[p] = Newest /\ Height(p) = Len(chain))
=============================================================================
