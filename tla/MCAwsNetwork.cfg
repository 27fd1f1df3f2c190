SPECIFICATION Spec
CONSTANTS
  MaxGen = 2
INVARIANTS
  TypeOK
  OneNetwork
  KeyfileNamesKey
  TidyBootstrap
