------------------------------- MODULE MCPdc -------------------------------
(***************************************************************************)
(* Pdc for TLC: the inputs of example02_pdc_test.go and of examples/pdc,   *)
(* scaled down to 3-bit ints, and the inputs the chaincode refuses.        *)
(***************************************************************************)
EXTENDS Pdc, TLC

CONSTANTS a, b

InitData(x, n, y, m)  == "initData" :> [a_name |-> x, a_val |-> n, b_name |-> y, b_val |-> m]
TransferData(x, y, n) == "transferData" :> [sender |-> x, receiver |-> y, val |-> n]

\* The two openings, one of them without b_name; payments both ways (one that
\* overflows the receiver), to oneself, to nobody and from nobody; a map for
\* two calls; and inputs that are missing or do not decode.
TestMaps ==
  {InitData(a, 2, b, 1) @@ TransferData(a, b, 2),
   InitData(a, 3, Unnamed, 0),
   TransferData(b, a, 3),
   TransferData(a, a, 1),
   TransferData(a, Unnamed, 1),
   TransferData(Unnamed, b, 1),
   "initData" :> Nil @@ "transferData" :> Nil,
   NoMap}
=============================================================================
