SPECIFICATION Spec
CONSTANTS
  HalfRange = 8
  a = a
  b = b
  nobody = nobody
  Names = {a, b, nobody}
  Nil = Nil
  Peers = {p1, p2}
  Clients = {c1, c2, c3, c4}
  Calls <- CoreCalls
SYMMETRY Symmetry
INVARIANTS
  TypeOK
  NoFork
  Serializable
  NoDoubleSpend
  BalancesParse
  SubmittedIsCommitted
  MoneyMade
CHECK_DEADLOCK FALSE
