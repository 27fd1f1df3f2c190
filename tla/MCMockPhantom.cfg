SPECIFICATION Spec
CONSTANTS
  s1 = s1
  s2 = s2
  s3 = s3
  s4 = s4
  Stubs = {s1}
  Links <- NoLinks
  Keys = {1, 2}
  Values = {v}
  Nil = Nil
  TxIds = {tx1}
  EventSlots = 1
  MaxDepth = 1
INVARIANTS
  NextHasValue
CHECK_DEADLOCK FALSE
