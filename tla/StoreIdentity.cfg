SPECIFICATION FairSpec
CONSTANTS
  p = p q = q
  Proc = {p, q}
  Script <- SmallScript
  MaxFaults = 3
INVARIANTS TypeOK StampedIsWhole OkIsCurrent
PROPERTIES StrangersUntouched MigrationCompletes
CHECK_DEADLOCK FALSE
