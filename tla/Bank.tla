-------------------------------- MODULE Bank --------------------------------
(***************************************************************************)
(* What the payment chaincode promises its users, with no peers, orderer,  *)
(* endorsements or strings: customers place orders, the orders are carried *)
(* out one at a time on one table of int balances, each at most once, and  *)
(* customers are told so only when it is true.                             *)
(***************************************************************************)
EXTENDS GoInt

CONSTANTS Names, Closed, Customers

VARIABLES
  accounts,  \* the balance of each account, or Closed
  asked,     \* the orders placed: a function on the customers who have one
  done,      \* the customers whose order has been carried out
  told       \* the customers who have been told so

Init ==
  /\ accounts = [k \in Names |-> Closed]
  /\ asked = [c \in {} |-> Closed]
  /\ done = {}
  /\ told = {}

Orders ==
  ({"open"} \X Names \X GoInts \X Names \X GoInts)
    \cup ({"pay"} \X Names \X Names \X GoInts)
    \cup ({"close", "look"} \X Names)

\* What each order does.

\* For one name given twice the second balance counts.
Open(A, v, B, w) ==
  accounts' = [k \in Names |-> IF k = B THEN w ELSE IF k = A THEN v ELSE accounts[k]]

Pay(A, B, X) ==
  /\ A # B
  /\ accounts[A] # Closed
  /\ accounts[B] # Closed
  /\ accounts' = [accounts EXCEPT ![A] = Wrap(@ - X), ![B] = Wrap(@ + X)]

Close(A) ==
  accounts' = [accounts EXCEPT ![A] = Closed]

Look(A) ==
  /\ accounts[A] # Closed
  /\ UNCHANGED accounts

Effect(order) ==
  \/ order[1] = "open"  /\ Open(order[2], order[3], order[4], order[5])
  \/ order[1] = "pay"   /\ Pay(order[2], order[3], order[4])
  \/ order[1] = "close" /\ Close(order[2])
  \/ order[1] = "look"  /\ Look(order[2])

\* A customer places an order, of any kind.
Ask(c) ==
  /\ c \notin DOMAIN asked
  /\ c \in DOMAIN asked'
  /\ asked'[c] \in Orders
  /\ asked' = [d \in DOMAIN asked \cup {c} |-> IF d = c THEN asked'[c] ELSE asked[d]]
  /\ UNCHANGED <<accounts, done, told>>

\* An order that has not been carried out is given up.
Withdraw(c) ==
  /\ c \in DOMAIN asked \ done
  /\ asked' = [d \in DOMAIN asked \ {c} |-> asked[d]]
  /\ UNCHANGED <<accounts, done, told>>

CarryOut(c) ==
  /\ c \in DOMAIN asked \ done
  /\ Effect(asked[c])
  /\ done' = done \cup {c}
  /\ UNCHANGED <<asked, told>>

Tell(c) ==
  /\ c \in done
  /\ told' = told \cup {c}
  /\ UNCHANGED <<accounts, asked, done>>

Next == \E c \in Customers : Ask(c) \/ Withdraw(c) \/ CarryOut(c) \/ Tell(c)

Spec == Init /\ [][Next]_<<accounts, asked, done, told>>
=============================================================================
