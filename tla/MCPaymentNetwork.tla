-------------------------- MODULE MCPaymentNetwork --------------------------
(***************************************************************************)
(* PaymentNetwork for TLC: the channel ch1 with the peers of org1, the     *)
(* accounts a and b, and the calls of the README, invoke.js, chaincode     *)
(* test and add-org3.sh with amounts scaled down to 4-bit ints.            *)
(***************************************************************************)
EXTENDS PaymentNetwork, TLC

CONSTANTS a, b, nobody

Plain(n)  == [n |-> n, spelling |-> "plain"]
Padded(n) == [n |-> n, spelling |-> "padded"]

Deploy(args)  == [kind |-> "deploy", fn |-> "init", args |-> args]
Call(f, args) == [kind |-> "submit", fn |-> f, args |-> args]

\* Calls that can succeed: openings, payments both ways (one that overflows
\* the receiver), a closing and a query.
Successes ==
  {Deploy(<<a, Plain(5), b, Padded(2)>>),
   Call("invoke", <<a, b, Plain(3)>>),
   Call("invoke", <<b, a, Padded(7)>>),
   Call("delete", <<b>>),
   Call("query", <<a>>)}

\* Calls the chaincode refuses, one for each of its other early returns.
Refusals ==
  {Deploy(<<a, Plain(5)>>),
   Deploy(<<a, nobody, b, Plain(2)>>),
   Deploy(<<a, Plain(5), b, Plain(HalfRange)>>),
   Call("invoke", <<a, b>>),
   Call("invoke", <<nobody, b, Plain(1)>>),
   Call("invoke", <<a, nobody, Plain(1)>>),
   Call("invoke", <<a, b, nobody>>),
   Call("delete", <<>>),
   Call("query", <<>>),
   Call("query", <<nobody>>),
   Call("transfer", <<a>>)}

\* A payment from an account to itself.
SelfPayment == Call("invoke", <<a, a, Plain(1)>>)

CoreCalls == (Successes \ {Call("query", <<a>>)}) \cup Refusals \cup {SelfPayment}
SelfCalls == {Deploy(<<a, Plain(5), b, Plain(2)>>), SelfPayment}
FewCalls  == {Deploy(<<a, Plain(5), b, Plain(2)>>), Call("invoke", <<a, b, Plain(3)>>)}

Symmetry == Permutations(Peers) \cup Permutations(Clients)
=============================================================================
