------------------------------ MODULE MCFabCar ------------------------------
(***************************************************************************)
(* FabCar for TLC: a ledger of two cars instead of ten, cars at both ends  *)
(* of the scan and beyond, and the calls of dapps/fabcar.                  *)
(***************************************************************************)
EXTENDS FabCar, TLC

CONSTANTS Prius, Accord, Tomoko, Brad, Tom, Dave

TwoCars == <<[spec |-> Prius, owner |-> Tomoko], [spec |-> Prius, owner |-> Brad]>>

Call(f, args) == [fn |-> f, args |-> args]

SomeCalls ==
  {Call("initLedger", <<>>),
   Call("createCar", <<0, Accord, Tom>>),
   Call("createCar", <<12, Accord, Tom>>),
   Call("createCar", <<998, Accord, Tom>>),
   Call("createCar", <<999, Accord, Tom>>),
   Call("createCar", <<1000, Accord, Tom>>),
   Call("createCar", <<9990, Accord, Tom>>),
   Call("createCar", <<12>>),
   Call("changeCarOwner", <<0, Dave>>),
   Call("changeCarOwner", <<12, Dave>>),
   Call("changeCarOwner", <<12>>),
   Call("queryCar", <<12>>),
   Call("queryCar", <<>>),
   Call("queryAllCars", <<>>),
   Call("deleteCar", <<0>>)}

Symmetry == Permutations(Clients)
=============================================================================
