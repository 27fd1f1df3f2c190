SPECIFICATION Spec
CONSTANTS
  s1 = s1
  s2 = s2
  s3 = s3
  s4 = s4
  Stubs = {s1, s2, s3, s4}
  Links <- Cycles
  Keys = {1, 2, 3, 4}
  Values = {v}
  Nil = Nil
  TxIds = {tx1, tx2}
  EventSlots = 1
  MaxDepth = 4
CONSTRAINT OneAtATime
INVARIANTS
  TypeOK
  ListMatchesMap
  ScanComplete
  ScanAscends
  InTransaction
CHECK_DEADLOCK FALSE
