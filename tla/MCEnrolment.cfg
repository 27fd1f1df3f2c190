SPECIFICATION Spec
CONSTANTS
  example02 = example02
  fabcar = fabcar
  user1 = user1
  user2 = user2
  Admin = admin
  Dapps = {example02, fabcar}
  UserOf <- SameUser
  ListenerOf <- Listeners
  Cleaned = {fabcar}
  Processes = {r1, r2, r3, r4}
  MaxEpoch = 2
SYMMETRY Symmetry
INVARIANTS
  TypeOK
  IdentityBacked
  OneSuccess
CHECK_DEADLOCK FALSE
