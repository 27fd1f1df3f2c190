# fabric-playground in TLA+

Specifications, model-checking runs and proofs for the code of this
repository: chaincodes, client applications, a mock of the chaincode stub and
the scripts that set up and extend Hyperledger Fabric networks.

## The system

| part | state it keeps | operations | interacts with |
|---|---|---|---|
| payment chaincode (`chaincode/chaincode_example02`, four copies under `aws/`) | account balances in the world state | `Init`, `invoke`, `delete`, `query` | the stub: `GetState`, `PutState`, `DelState`, `SetEvent` |
| payment channel (`network/minimal`, `dapps/chaincode_example02/invoke.js`, `query.js`) | chain of blocks, a ledger per peer, what each client was told | endorse, order, commit, notify, time out | clients call peers, peers run chaincode, orderer feeds peers, event hubs answer clients |
| MockStub (`chaincode/example02_pdc/mockstub.go`) | map, sorted key list, transaction ID, event channel, private data, transient map | stub API, `MockInit`, `MockInvoke`, range iterators | one goroutine: test, chaincode, other stubs |
| private-data payments (`chaincode/example02_pdc/go`) | balances in one collection | `init`, `transfer`, `delete`, `query`, inputs in the transient map | MockStub |
| fabcar (`chaincode/fabcar/go`, `node`) | cars by key | `initLedger`, `createCar`, `queryCar`, `queryAllCars`, `changeCarOwner` | stub, range scans |
| global variable chaincode (`chaincode/test/global_variable`) | a Go variable per chaincode process | `Init`, `count` | peer |
| enrolment (`enrollAdmin.js`, `registerUser.js` of both dapps) | wallet files; identities at the CA | enrol admin, register and enrol user | CA, wallet |
| listeners (`blockEventListener.js`, `chaincodeEventListener.js`, `dapps/fabcar/event.js`) | a promise per event hub | register, connect, wait | event hubs |
| network scripts (`network/minimal/*.sh`, `aws/*/*.sh`, `cli-tools/*.sh`) | generated crypto material, genesis block, `.env`, edited terraform source | bootstrap, cleanup, create channel, install, add org3, join | each other, through files |
| gateway, greeter, compose files, monitoring, terraform | configuration | none of their own | third-party services |

What is hard to get right, and to test:

* a payment reads balances on one peer and its writes are applied later, on
  every peer, after whatever the orderer put in between;
* peers are at different heights, one of them joins late, and they must agree;
* an upgrade runs `Init` again under payments that are in flight;
* a client process hears of its transaction by an event, or by a timeout that
  says nothing about the transaction;
* Go ints wrap, and conversion errors of stored strings are dropped;
* the scripts and the enrolment programs are sequences of effects on files and
  services that can stop anywhere and be run again.

`PROJECT.json` lists each hazard at its line, with the properties for it, or,
where the code does go wrong and nothing promises otherwise, a note that says so.

## Modules

| module | models | uses |
|---|---|---|
| `GoInt` | Go ints of any width, `strconv.Itoa` and `Atoi` | |
| `Example02` | the payment chaincode: handlers as operators from state and arguments to response, reads, writes, payload, events | `GoInt` |
| `Bank` | the abstract specification: customers ask, the bank carries out orders one at a time and tells them | |
| `PaymentNetwork` | clients, peers and orderer of one channel running `Example02` | `Example02`, `Bank` (refinement) |
| `PaymentNetworkProofs` | theorems about the handlers and the channel | `PaymentNetwork` |
| `MCPaymentNetwork` | values for the constants and the sets of calls of the runs | `PaymentNetwork` |
| `MockStub` | the in-memory stub for chaincode tests, under chaincodes that make any calls | |
| `MCMockStub` | one stub for scans, four stubs with cyclic links for calls | `MockStub` |
| `MockStubProofs` | theorems about it | `MockStub` |
| `Enrolment` | the enrolling scripts and the identity lookup of clients, wallets, the CA, `clean.sh` | |
| `MCEnrolment` | the dapps and their users | `Enrolment` |
| `EnrolmentProofs` | theorems about it | `Enrolment` |
| `AwsNetwork` | `bootstrap.sh` and `cleanup.sh` of `aws/first-network`: generated files, terraform sources, the network on AWS | |
| `AddOrg3` | a third organisation joins: the `cli-tools` scripts of both sides, `aws/add-org3`, the channel and its blocks | `AwsNetwork` |
| `MCAddOrg3` | the constraint of its run | `AddOrg3` |
| `AwsProofs` | theorems about the host's scripts, and about both organisations | `AddOrg3` |
| `Pdc` | the private-data chaincode in a unit test on the stub, and on a peer beside it | `GoInt`, `Example02` |
| `MCPdc` | the transient maps of the tests | `Pdc` |
| `PdcProofs` | theorems about it | `Pdc` |
| `FabCar` | the Go and the Node fabcar chaincode under the same calls | |
| `MCFabCar` | cars, owners and calls | `FabCar` |
| `FabCarProofs` | theorems about it | `FabCar` |
| `GlobalCounter` | the counting chaincode: containers, goroutines, one Go variable each | |
| `GlobalCounterProofs` | theorems about it | `GlobalCounter` |
| `MinimalNetwork` | `bootstrap.sh` and `cleanup.sh` of `network/minimal`, containers, the ledger on disk | |
| `MinimalNetworkProofs` | theorems about it | `MinimalNetwork` |

### How state and actions correspond to the code

A handler of the chaincode reads through the stub, returns early on errors and
writes at its end; it never reads a key after writing it. One run is therefore
a function of the state and the arguments: `InitHandler`, `invoke`, `delete`,
`query`, dispatched by `InvokeHandler`. What a run leaves in the stub is a
record: status, keys read, writes, payload, events. Errors of the state calls
themselves (lines 66, 71, 120, 129, 148, 153, 171, 192), such as for an empty
key, are left out: the shim answers an error there and nothing is endorsed.
`invoke` computes both
balances before either write and writes B last, which decides what happens
when A and B are one account (`PutBoth`).

Strings are names (nothing `Atoi` accepts) or decimals; a decimal knows its
number and whether it is spelled the way `Itoa` spells it. Ints are
`-HalfRange .. HalfRange-1` and wrap; `HalfRange` is 2^63 in the deployed build.

In `PaymentNetwork` a client is one run of `invoke.js` (or of a `peer
chaincode` command). `Endorse` is the call reaching a peer that answers
success; `Refuse` is the error answer; `Order`, `Commit`, `Notify`, `Drop` and
`Timeout` are the ways on from there. The script prints "Transaction has been
submitted" (`status = "submitted"`) or "Failed to submit transaction"
(`"failed"`), the latter also on timeout (`invoke.js` 48-51); the `peer` command,
which sends the deploys, has messages of its own, so what is said of these lines
is said of payments (`FailedHasNoEffect`). The peer side is
code outside the repository and is modelled by what the code here relies on:
versions of the keys read and of the deployment are compared at commit, and a
deleted key has no version. A block holds one transaction; with longer blocks
the same commits happen with fewer states in between. Each endorsement is by
one peer: the scripts deploy with an `OR` policy (`network/minimal/README.md`
119, `install_chaincode.sh` 25).

`Bank` is what a user may rely on: an order is asked for, it may be withdrawn,
it is carried out on the accounts as they are at that moment, and the customer
may be told of it afterwards. `PaymentNetwork` maps to it by the balances of
the last ledger (`hist`), the calls that are in flight or committed
(`OrderOf`), and the clients that printed success; `ImplementsBank` is both a
run and a theorem.

`hist` is a history variable: the ledger after each block. It exists for the
properties and the proofs; no guard of a peer or client reads it.

`MockStub` runs on one goroutine, so its interleaving is that of a call stack:
the test calls a stub (`TestStart`, `MockInvoke`), the chaincode that is
running makes any next call, and `InvokeChaincode` / `ReturnFromChaincode` push
and pop. A stub has one `TxID`, which the return from any of its calls clears;
`lost` is history: the calls in progress whose stub was called again inside them
and has returned. (What a second call does to the `args` and the signed proposal
of the first is left out, as nothing here is said of them.) An iterator holds a
list element, as `container/list` does: one that
is removed keeps its key and has no successor (`NextElement`, `Unlinked`).
`State` and `KeyList` are two variables because the code keeps a map and a list
and updates them apart; `seen` and `owed` are history.

In `Enrolment` a process is one run of a script; each action is the stretch
between two awaits. The import is a step of its own after the success message,
because `wallet.import` is not awaited (`registerUser.js` 50-51). The CA gives a
name one registration; who holds its secret may enrol. `Rebootstrap` gives the
network a new CA and leaves the wallets, `Clean` removes the wallets that
`scripts/clean.sh` names.

In `AwsNetwork` each action is one command of a script, with a parameter
`works`: without `set -e` a command that fails is passed over, and the next one
runs on what is there. `dir` has, per copy of the crypto material, the
generations whose keys lie in it, because key files are named after their keys
and pile up, while certificates overwrite each other (`Cert`). Two machines have
provisioners of their own (`ec2-private-fabric.tf` 29-60 and 62-93): `vm0` with
peer0 and the CA, `vm1` with peer1 and the orderer. Terraform is taken at its
word about them: a provisioner runs when its machine is not provisioned, copies
all files over what is there, and needs the public route. `ApplyPartly` is an
apply that fails or is interrupted: any machines may be done by then, others
have files and count as not provisioned, and the route may have changed or not.
`DestroyPartly` is the same for `terraform destroy`. That some of a machine's files
are copied and some are not, the gateways, and a terraform that dies before it
has noted what it did, are left out. Neighbouring `rm` commands with nothing but
other removals between them in `cleanup.sh` are one step. `tidy` and `whole` are
history: has this run of `bootstrap.sh` started tidy and had no failure, and are
all machines of one run?

`AddOrg3` extends `AwsNetwork`. The host's `bootstrap.sh` and `cleanup.sh` run
in it undisturbed (`HostScript` is `Undisturbed` of `AwsNetwork`; failures of
these scripts have a run of their own). Machines that come or go take the channel
with them; no command of org3 that is running notices, and its peer keeps the
ledger it has (`"old"`), or joins with a `.block` that nothing is added to any
more (`"stale"`). Of the commands, those that are new can fail (`outside`, `works`) or
be killed, up to `MaxFaults` times. `chain` is the channel as a sequence of its
states, one per block: the generation of org3's certificates in the
configuration, and the deployed version. A command that fails because of what
is there (a version installed already, a peer that has the ledger, a
configuration that does not differ) is not a fault. The orderer takes a
configuration update that starts from the present configuration and adds an
organisation; to replace one it wants its signature, which `add-org3.sh` never
has. Whoever the channel has as a member gets its blocks (`Deliver`), in the
`sleep 10` of `join-channel.sh` or after it. `Apply3` is short of the
applies of `AwsNetwork`: the state of terraform and the edited subnet file are the
same there and are left out here, and so are org3's second machine and a failing
destroy.

`Pdc` takes the results of the handlers (status, reads, writes, events) and the
payment from `Example02`. Each call goes to a stub and to a peer; they differ in
four places, all of which are in the model: the stub keeps the transient map of
the last call, stores under the empty key, has no `DelPrivateData`, and keeps
the writes of a call that fails. `strayed` remembers whether one of the first
three has mattered; the fourth must never matter, and that is `StubLikePeer`.

`FabCar` runs one call on two ledgers, as `Endorse` (the chaincode runs) and
`Commit` (versions are compared, writes applied), with other calls in between.
Cars are numbers, ordered as their keys are ordered as strings (`Before`);
`queryAllCars` reads all keys of its range, each of which has a version from the
start, so that a car that appears in the range makes it conflict, as a peer's
check for phantoms does. `fabcar.js` calls any property of its object that has
the function's name (line 27), `Init` or `toString` too; the model answers such a
call with an error, and like it, they write nothing.

`GlobalCounter` splits `Count = Count + 1` into `Load` and `Store`, because the
shim runs each call in a goroutine of its own; `Return` answers the variable
read again or the sum still at hand, the outcomes the race allows. A container
starts at zero; `InitCount` runs in it before the first call, or never.

`MinimalNetwork` is to `network/minimal` what `AwsNetwork` is to
`aws/first-network`, with containers instead of machines and a ledger in
`./production` that outlives them. `docker-compose up -d` leaves containers
alone unless their environment has changed, and only the CA's has the key in it.

## Runs

| run | question | bounds | result |
|---|---|---|---|
| `payment_safety` | do peers agree, are stale payments harmless, are success messages true, is every change of the total accounted for? | 2 peers, 4 clients, 16 calls, 4-bit ints | holds |
| `payment_bank` | is the network, to its users, one bank; is every client answered, do peers catch up, do payments between two accounts keep the total, and does the invariant of the proofs (`IndInv`) hold? | 2 peers, 3 clients, 5 calls that succeed, with fairness | holds |
| `self_payment` | does a payment keep the total when A = B? | 2 clients | violated: money is made |
| `failed_submit` | does "Failed to submit transaction" mean that the payment had no effect? | 2 clients, a deploy and a payment | violated: the timeout |
| `mock` | do list and map agree, are scans complete and ordered, and which chaincode of a nested call runs in the test's transaction? | 4 stubs in a diamond that closes to cycles, depth 4; 4 keys in one of them | holds |
| `mock_phantom` | does `HasNext` announce only values? | 1 stub, 2 keys | violated: a deleted key is announced |
| `pdc` | does the unit test show what a peer does, when does it hang, and is a transfer a payment? | 5 calls, 8 transient maps, 3-bit ints, 3 event slots | holds |
| `fabcar` | do the two chaincodes keep the same cars, are listings complete, do stale calls do harm? | 4 clients, 15 calls, 7 cars | holds |
| `enrolment` | is every identity backed by one registration, and one success per name? | 4 processes, 2 wallets, 2 networks | holds |
| `unawaited_import` | does the success message mean the identity is in the wallet? | 1 process | violated: the import is not awaited |
| `aws_scripts` | does what runs on AWS fit together, whatever failed before? | 2 runs of `cryptogen`, 2 machines | holds |
| `org3` | can `add-org3.sh` be run again, does a member stay one, is what the last query shows the newest state? | 2 + 2 runs of `cryptogen`, 1 failure or kill | holds |

Every client sends at most one transaction, so the number of clients is also
the length of the chain. Four are what the worst case needs: open the
accounts, endorse a payment, close and open again, then order the payment,
which must be found stale though the balances are equal. Two peers give one
that is ahead and one that lags. The calls contain a payment that overflows a
4-bit int, padded decimals, and one call for each early return of the
chaincode; those of `payment_safety` a payment from an account to itself as
well. Peers and clients are interchangeable, so symmetry is used in the
runs without liveness properties.

Fairness (`payment_bank`): the orderer cuts a block one `BatchTimeout` after a
transaction at the latest (`configtx.yaml` 32-44), a peer pulls blocks while
there are any, and a connected event hub delivers. Nothing makes a client
submit, a message be lost, or a timeout fire. `payment_bank` has only calls that
can succeed, because a refused one never leaves its peer; refusals and the
fourth client are in `payment_safety`.

In `mock` nested calls run over empty stubs, and data and scans are those of
one stub while the others are idle (`OneAtATime` of `MCMockStub`): the data of a
stub does not depend on who called it. Depth four is once round the cycle, so
that the first stub is called back into while it runs; when that has happened, it
can go on and call the others again, three deep.

Five calls in `pdc` fill three event slots, overrun them, and leave one for a
map that is forgotten. Three-bit ints overflow on the third payment. In `fabcar`
the cars are both ends of the scan, its neighbours outside, and numbers of four
digits that sort inside; `initLedger` makes two cars instead of ten. Four
clients are a creation, two changes of one car, and what crosses them.

Two generations of the host and of org3 in `org3` let either rebuild its network
once under the other. One fault is enough to leave each command of the add and
the join undone or each file stale, and keeps the run at 2.4 million states. While
org3 builds or removes its network, the host is between two scripts
(`SideBySide`): in that time org3's commands touch its own files and machines
only, and the carrying of files needs both sides at rest, so every order of them
comes to the same. `join-channel.sh` runs beside every script of the host.

Four keys let a scan have a key before, at, after and beyond the position of
its iterator while others come and go. Four processes are two that race for one
name, one that enrols the admin and one that comes later; two networks make
everything in a wallet stale once. Two generations in `aws_scripts` allow a run
that is interrupted or half provisions and another on top of it; the theorems are
for any number.

Only `aws_scripts` checks for deadlock. In the others the system may stop:
clients and enrolling processes are single runs of a script, a test of a stub
ends when its goroutine blocks on a full event channel, and in `org3` the
generations run out.

## Findings

* `chaincode_example02` pays from an account to itself by writing the credit
  over the debit: the payer gains (`self_payment`).
* `invoke.js` prints "Failed to submit transaction" also when the transaction
  of a payment that is committed, when only the answer was late (`failed_submit`).
* `HasNext` of the stub's iterator is true for a key that has been deleted
  (`mock_phantom`).
* `enrollAdmin.js`, and `registerUser.js` like it, reports an import that may
  never happen (`unawaited_import`).

Met while modelling, without a run of their own: a registration whose answer is
lost uses up the name for good, because the secret is gone and the CA refuses
to register it again; the fabcar listener needs `user1` while the
`registerUser.js` beside it makes `user2`; `scripts/clean.sh` removes the
wallet of `dapps/example02`, a directory that does not exist; a second
`bootstrap.sh` overwrites the backup of `n-private-subnet.tf` with the edited
file; an interrupted one can leave two CA keys, both named in `.env`, or one
machine provisioned and the other left to a later run with newer files;
`cleanup.sh` forgets machines that `terraform destroy` could not remove; the
101st `SetEvent` of a test that receives none blocks it; a chaincode of the stub
that is called back into can no longer write (`mockstub.go` 51-52 says as much in
a TODO).

In `aws`: `bootstrap.sh` run again on a network that is up makes a
`tlsca.ordererorg-cert.pem` the running orderer does not use; an org3 that makes
new crypto material after it was added can never enter again, because replacing
it needs its own old signature; after the host has rebuilt its network, org3 has
to clean up before it can join, since its peer refuses a second ledger of the
same name; a `join-channel.sh` whose fetch fails joins with the `.block` of an
earlier run, and reports the failure only at its end, in the query; when the
host's machines go before that query, org3's peer answers it from the ledger it
has, and no command fails;
`channel-artifact.json` may be empty and pass the test for existence of
`add-org3.sh`; `FABRIC_CA_SERVER_CA_KEYFILE` of add-org3 is empty, because its
path does not exist.

In the chaincodes: the Go fabcar stores `colour` where the Node one stores
`color` and a `docType` (the model has one value for what a car is like); the
Go fabcar stores a car of an owner only when the owner of a car that does not
exist is changed; `delete` of the private-data chaincode cannot be tested,
because `DelPrivateData` of the stub is not implemented; `Init` of the counting
chaincode sets to zero what is zero already.

## Proofs

Every action property and every invariant that a passing run checks is a
theorem too, for all values of the constants; only liveness is left to TLC. A run
shows it on a small instance, the theorem for any
number of peers, clients, keys, generations, failures and kills, and for ints
of any width. `PROJECT.json` lists the theorems with their properties. Each
module of proofs begins with lemmas about the model's operators, then has the
inductive invariant, one step per action, and the theorems at its end.

### Payments (`PaymentNetworkProofs`)

`PaymentNetwork` satisfies `TypeOK`, `NoFork`, `Serializable`, `NoDoubleSpend`,
`BalancesParse` and `SubmittedIsCommitted`, and, if no call pays from an account
to itself, implements `Bank`. If there are finitely many names, it satisfies
`MoneyMade`, and with both hypotheses `PaymentsKeepTotal`.

None of these is inductive. The inductive invariant `IndInv` says why they
hold: `hist` is the chain replayed (`HistoryOfChain`), every peer is a prefix
of it (`PeersOnHistory`), every transaction in flight is what *some* past
ledger endorses (`EndorsedOnHistory`), a version names one content of a cell
(`VersionsName`) and an old version never comes back (`VersionsAge`). The step
from there to serial execution is `ExecuteLocal`: a handler's result depends
only on the cells it reads, so if their versions are unchanged it would answer
the same again.

`MoneyMade` needs more arithmetic than induction over steps. By serial execution a
valid `invoke` is a run on the state before its block, so two balances change at
most (`PaymentMakes`). What a sum over all names makes of that is `SumsDiffer`,
by induction over the size of a set of names. The library's induction theorems
take an operator as a parameter, which the provers cannot instantiate;
`Induction` is therefore stated for a *set* of numbers, and proved from the
smallest number outside it (`WFMin`, `NatLessThanWellFounded`). `SumExists`
shows by the same means that the recursive function behind `MapThenSumSet`
exists, without which nothing could be said of the `CHOOSE` in it, and
`TotalIsSum` that the total of a state is one of these sums. `WrapMod` and
`TransferMod` say what overflow does to a debit and a credit: it adds and
removes whole ranges of an int, so the sum is kept modulo one. A payment from
an account to itself has no debit that lasts, and `Made` is its amount; no
hypothesis rules it out. `TotalAlwaysKept` is the case in which nobody makes
such a payment.

### Fabcar (`FabCarProofs`)

`SameCars` speaks of the ledgers; what is endorsed and not yet committed decides
what they become. `TxInv` says of an endorsed call what is known of its two
results: a creation or `initLedger` has read nothing and writes the same cars on
both sides; a change of owner has seen versions that are not ahead of the ledgers,
matches on Go's ledger exactly when it does on Node's, and if it does, writes the
car that is there, with the new owner, or a ghost on Go's side alone
(`ChangeInv`). `CommitsAsIfRun` is the same argument for one step: where the
versions match, what was endorsed is what would be endorsed now.

`ListingOf` is about any ledger: the list `queryAllCars` returns has each car of
its range once and nothing else, in the order of the keys. `BeforeOrders` proves
that the order of the strings is a strict total order of the numbers; so no two
cars have as many cars before them (`RankGrows`), and as many places as cars are
then all taken (`RankPlaces`). With `AllInRange`, that "CAR0" to "CAR998" lie in
the range of strings, this is `ListsAll`.

### The stub (`MockStubProofs`)

`ListsInOrder`: each list ascends and its elements are the keys that have a
value. The lemmas on insertion and removal prove that of any position in a list
of any length. `ScanKnown` is about the scan in use: what it has returned lies
below everything its element can still reach (`Ahead`), and what it owes has
been returned or can be reached. `ScanComplete` and `ScanAscends` follow, for
lists and scans of any length under any interleaved calls.

`AlwaysInTransaction` is about any links, cycles included, and calls of any depth.
When a stub is called again while it runs, the inner call's `MockTransactionEnd`
clears the `TxID` that the outer call still needs (`mockstub.go` 117-120), and
`PutState` fails there. `CallsKnown` says of each call in progress: its stub has
the transaction of the test, or some call up to it is lost, or a later call of
the same stub covers it; and a lost call has none unless it is covered. The call
that runs is the last, which nothing covers, and that is `InTransaction`.

### Private data (`PdcProofs`)

The invariant adds to the properties that there are never more events than
calls. What has to be proved of the handlers is `Fine`: a refused call
has written nothing, a successful one writes strings of ints. `TransferIsInvoke`
compares the two chaincodes case by case, with a payment from an account to
itself and overflow among them.

### Enrolment (`EnrolmentProofs`)

Two facts beyond the properties: nothing is certified by a CA that is yet to
come (`CertsPast`); and a process that reports success is past its enrolment and
owns the registration of its name, as long as the CA that certified it is in
operation (`Successes`). Two successes for one name would be two owners of one
registration.

### Scripts (`AwsProofs`, `MinimalNetworkProofs`)

`Prepared`, in both modules, says what each command can rely on when its turn
comes, whatever failed before it: after `cryptogen`, a genesis block is of the
same material or nothing; before `terraform apply`, `.env` names the keys that
lie beside it; in `network/minimal`, there is no ledger on disk from its removal
to `up`. `Machines` says of each machine, half provisioned or not, that what it
has is no newer than the directory, so that files copied over it carry their own
certificate and its key along: `KeyfileNamesKey` holds also where two runs
provisioned one machine. `OneRun` says of the machines of one run that they have
the same material and genesis block, in the time between the first apply and the
second as well. `TidyRun` is the chain of what a tidy bootstrap without failures
has achieved at each command. With these, `AwsProofs` proves the four invariants
of `AwsNetwork`. That all machines on AWS fit together is not among them and is not
so: one may be provisioned by one run and the other by the next.

`HostUndisturbed` proves `JointSpec => Spec`: in `AddOrg3` each step is a step
of the host's scripts or leaves their variables alone, so what holds of
`AwsNetwork` holds beside org3. `Follows` says where a joined peer of org3 stands
on the channel; `CalmRun` says how far `add-org3.sh` has got while nothing failed
from outside; `Answers` says that a query that shows something has seen both org3
and the upgrade, after which no state of the channel can come. From these follow
`MemberStays`, `RerunCompletes` and `AnswerIsNewest`.

`MinimalNetworkProofs` proves, for runs of the two scripts of any length, that
the containers never run on a ledger of other certificates (`LedgerAlwaysFits`)
and that the CA is told the key it has (`KeyfileAlwaysFits`).

### The counter (`GlobalCounterProofs`)

For any number of containers and calls, what `count` answers lies between 1 and
the calls begun in its container (`CountsOwn`), and is exact while no two of
them overlap (`SerialIsExact`). The variable never runs ahead of the calls begun
(`NotAhead`), and without overlap it is the number of the call that is under way
or was last (`Serial`).

`GlobalCounter` and `MinimalNetwork` have no run: their properties are proved
for all constants and all lengths, which no instance adds to.

### Assumptions

The named `ASSUME`s of the modules, which TLC evaluates in the runs. They are of
three kinds: the bounds are numbers and the sets of participants are not empty
where a script needs one (`MaxGenAssumption`, `DappsAssumption`, ...); the
values that stand for "nothing" are none of the things they are told from
(`NilAssumption`, `NoCarAssumption`, `StringsAssumption`); and inputs have the
form a string argument has (`CallsAssumption`, `MapsAssumption`): in
`PaymentNetwork` they are names or decimals, in `FabCar` a call with the right
number of arguments is about a car, a spec and an owner. `NoSelfPayment` and
`IsFiniteSet(Names)` are hypotheses of the theorems that need them: the first
rules out what `self_payment` shows to go wrong, the second a ledger of
infinitely many accounts, whose balances have no sum.

### Only model-checked

* `Answered` and `Converge`: liveness under fairness.
* The properties of the violation runs, which do not hold.

## Not modelled, and the plan

* The three listeners: each registers one callback, connects, logs and ends. It
  keeps no state and nothing else reads what it does; the delivery of events is
  in `PaymentNetwork` (`Notify`), the lookup of its user in `Enrolment`.
* What the fabcar clients are told: the same SDK calls as in the payment dapp,
  where it is modelled.
* Endorsement policies and decorations of `MockStub`: maps that are written and
  never read.
* Terraform resources without behaviour, compose files, the gateway's routing
  table, monitoring, logging, the greeter and its generated code: configuration
  or third-party behaviour.

Worth having next: the total of `Bank`, from which that of the network follows
by the refinement; and a theorem that what the stub shows of the payment
chaincode is what one peer shows, as `TestShowsThePeer` does for private data.
