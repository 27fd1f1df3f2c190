SPECIFICATION FairSpec
CONSTANTS
  HalfRange = 8
  a = a
  b = b
  nobody = nobody
  Names = {a, b, nobody}
  Nil = Nil
  Peers = {p1, p2}
  Clients = {c1, c2, c3}
  Calls <- Successes
INVARIANTS
  IndInv
  PaymentsKeepTotal
PROPERTIES
  ImplementsBank
  Answered
  Converge
CHECK_DEADLOCK FALSE
