SPECIFICATION JointSpec
CONSTANTS
  MaxGen = 2
  MaxOrg3 = 2
  MaxFaults = 1
CONSTRAINT SideBySide
INVARIANTS
  JointTypeOK
  MemberStays
  RerunCompletes
  
CHECK_DEADLOCK FALSE
