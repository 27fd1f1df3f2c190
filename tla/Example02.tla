----------------------------- MODULE Example02 -----------------------------
(***************************************************************************)
(* The chaincode of chaincode_example02.go: each handler as an operator    *)
(* from the world state it reads and the arguments it is called with to    *)
(* what the shim collects from one run of it: the response status, the     *)
(* keys read, the writes, the payload and the SetEvent calls in order.     *)
(*                                                                         *)
(* A string is a Name, which is no decimal, or a decimal.  The handlers    *)
(* return errors for their arguments and for what the state holds, all     *)
(* before they write, so a failed run has no writes; and no handler reads  *)
(* a key after writing it.  Errors of the state calls themselves (lines    *)
(* 66, 71, 120, 129, 148, 153, 171 and 192), such as for an empty key,     *)
(* are left out: there the shim answers an error and nothing is endorsed.  *)
(***************************************************************************)
EXTENDS GoInt, Sequences

CONSTANTS Names,   \* account names, and any other string Atoi refuses
          Nil      \* what GetState returns for a key that has no value

ASSUME StringsAssumption ==
  /\ \A k \in Names : k \notin Decimals
  /\ Nil \notin Names
  /\ Nil \notin Decimals

Strings == Names \cup Decimals
Values  == Decimals \cup {Nil}
States  == [Names -> Values]

\* f maps some elements of S into T.
IsPartial(f, S, T) == DOMAIN f \subseteq S /\ f \in [DOMAIN f -> T]

-----------------------------------------------------------------------------
\* What one run of a handler leaves in the stub.

EventNames == {"Invoke1", "Invoke2", "Invoke3", "Invoke4", "invoke", "delete", "query"}

IsResult(r) ==
  /\ r \in [status : {200, 500}, reads : SUBSET Names, writes : {r.writes},
            payload : Values, events : Seq(EventNames)]
  /\ IsPartial(r.writes, Names, Values)

Failure(events) ==
  [status |-> 500, reads |-> {}, writes |-> [k \in {} |-> Nil],
   payload |-> Nil, events |-> events]

Success(reads, writes, payload, events) ==
  [status |-> 200, reads |-> reads, writes |-> writes,
   payload |-> payload, events |-> events]

\* The state with a run's writes carried out; writing Nil is DelState.
Write(state, writes) ==
  [k \in Names |-> IF k \in DOMAIN writes THEN writes[k] ELSE state[k]]

\* PutState(first, v) followed by PutState(second, w): for one key given
\* twice the later write is the one that stays.
PutBoth(first, v, second, w) ==
  [k \in {first, second} |-> IF k = second THEN Itoa(w) ELSE Itoa(v)]

-----------------------------------------------------------------------------
\* Init: two accounts and their opening balances, whatever was there before.

InitRefuses(args) ==
  \/ Len(args) # 4
  \/ ~Parses(args[2])
  \/ ~Parses(args[4])

\* Faulty variant: the strings are checked but stored as they came.
InitStoringArgs(args) ==
  IF InitRefuses(args)
  THEN Failure(<<>>)
  ELSE Success({}, [k \in {args[1], args[3]} |-> IF k = args[3] THEN args[4] ELSE args[2]],
               Nil, <<>>)

InitHandler(args) ==
  IF InitRefuses(args)
  THEN Failure(<<>>)
  ELSE Success({}, PutBoth(args[1], Atoi(args[2]), args[3], Atoi(args[4])),
               Nil, <<>>)

\* invoke: X units from A to B.  Atoi's error is checked for the amount and
\* dropped for the two stored balances.

InvokeRefuses(state, args) ==
  \/ Len(args) # 3
  \/ state[args[1]] = Nil
  \/ state[args[2]] = Nil
  \/ ~Parses(args[3])

\* Faulty variant: arithmetic that stops at the largest and smallest int.
invokeSaturating(state, args) ==
  LET A == args[1]
      B == args[2]
      X == Atoi(args[3])
  IN  IF InvokeRefuses(state, args)
      THEN Failure(<<"invoke">>)
      ELSE Success({A, B}, PutBoth(A, Clamp(Atoi(state[A]) - X), B, Clamp(Atoi(state[B]) + X)),
                   Nil, <<"invoke">>)

invoke(state, args) ==
  LET A    == args[1]
      B    == args[2]
      Aval == Atoi(state[A])
      Bval == Atoi(state[B])
      X    == Atoi(args[3])
  IN  IF InvokeRefuses(state, args)
      THEN Failure(<<"invoke">>)
      ELSE Success({A, B}, PutBoth(A, Wrap(Aval - X), B, Wrap(Bval + X)),
                   Nil, <<"invoke">>)

\* delete: an account that does not exist is deleted just the same.

delete(args) ==
  IF Len(args) # 1
  THEN Failure(<<>>)
  ELSE Success({}, [k \in {args[1]} |-> Nil], Nil, <<"delete">>)

\* query: the stored string itself.

query(state, args) ==
  IF Len(args) # 1
  THEN Failure(<<>>)
  ELSE IF state[args[1]] = Nil
       THEN Failure(<<"query">>)
       ELSE Success({args[1]}, [k \in {} |-> Nil], state[args[1]], <<"query">>)

-----------------------------------------------------------------------------
\* Invoke: dispatch on the function name, announcing the branch taken.

Announcement == [invoke |-> "Invoke2", delete |-> "Invoke3", query |-> "Invoke4"]

InvokeHandler(state, fn, args) ==
  IF fn \notin DOMAIN Announcement
  THEN Failure(<<"Invoke1">>)
  ELSE LET r == IF fn = "invoke" THEN invoke(state, args)
                ELSE IF fn = "delete" THEN delete(args) ELSE query(state, args)
       IN  [r EXCEPT !.events = <<"Invoke1", Announcement[fn]>> \o @]

-----------------------------------------------------------------------------
\* A call as the peer hands it to the chaincode: deployment (instantiate or
\* upgrade) runs Init, everything else runs Invoke.

KeyPositions(call) ==
  IF call.kind = "deploy" THEN {1, 3} ELSE IF call.fn = "invoke" THEN {1, 2} ELSE {1}

\* The calls the model covers: where the code uses an argument as a key, the
\* argument is a Name.
IsCall(call) ==
  /\ call \in [kind : {"deploy", "submit"}, fn : STRING, args : Seq(Strings)]
  /\ \A i \in KeyPositions(call) \cap DOMAIN call.args : call.args[i] \in Names

Execute(state, call) ==
  IF call.kind = "deploy" THEN InitHandler(call.args)
                 ELSE InvokeHandler(state, call.fn, call.args)
=============================================================================
