SPECIFICATION Spec
CONSTANTS
  example02 = example02
  fabcar = fabcar
  user1 = user1
  user2 = user2
  Admin = admin
  Dapps = {example02}
  UserOf <- Users
  ListenerOf <- Listeners
  Cleaned = {}
  Processes = {r1}
  MaxEpoch = 1
PROPERTY
  SuccessIsImported
CHECK_DEADLOCK FALSE
