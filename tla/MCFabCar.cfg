SPECIFICATION Spec
CONSTANTS
  Prius = Prius
  Accord = Accord
  Tomoko = Tomoko
  Brad = Brad
  Tom = Tom
  Dave = Dave
  NoSpec = NoSpec
  NoCar = NoCar
  Specs = {Prius, Accord}
  Owners = {Tomoko, Brad, Tom, Dave}
  Numbers = {0, 1, 12, 998, 999, 1000, 9990}
  InitCars <- TwoCars
  Clients = {c1, c2, c3, c4}
  Calls <- SomeCalls
SYMMETRY Symmetry
INVARIANTS
  TypeOK
  SameCars
  ListsAll
PROPERTY
  AsIfRunAtCommit
CHECK_DEADLOCK FALSE
