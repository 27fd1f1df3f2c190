SPECIFICATION Spec
CONSTANTS
  HalfRange = 4
  a = a
  b = b
  Unnamed = Unnamed
  Names = {a, b, Unnamed}
  Nil = Nil
  Maps <- TestMaps
  EventSlots = 3
  MaxCalls = 5
INVARIANTS
  TypeOK
  StubLikePeer
  HangsOnlyWhenFull
PROPERTY
  MatchesExample02
CHECK_DEADLOCK FALSE
