SPECIFICATION Spec
CONSTANTS
  HalfRange = 8
  a = a
  b = b
  nobody = nobody
  Names = {a, b, nobody}
  Nil = Nil
  Peers = {p1, p2}
  Clients = {c1, c2}
  Calls <- FewCalls
INVARIANT
  FailedHasNoEffect
CHECK_DEADLOCK FALSE
