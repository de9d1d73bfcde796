SPECIFICATION FairSpec
CONSTANTS
  r1 = r1 os1 = os1 os2 = os2
  Run = {r1}
  Limit = 2
  Tree = {os1, os2}
  MaxCrashes = 3
  MaxRebinds = 2
  MaxMoves = 2
INVARIANTS TypeOK SourceStaysWhole
PROPERTIES NeverBlocksItself RetriesDeliver
CHECK_DEADLOCK FALSE
