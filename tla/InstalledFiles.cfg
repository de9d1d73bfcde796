SPECIFICATION Spec
CONSTANTS
  p = p q = q os1 = os1 os2 = os2 none = none gateway = gateway
  NoRoot = NoRoot
  Proc = {p, q}
  Root = {os1}
  Target = {none}
  NoTarget = none
  Commands = {"setup", "attach"}
  WriteFaults = TRUE
  Strangers = FALSE
  HandEdits = FALSE
  LegacyMoves = FALSE
  MaxEdits = 0
  MaxMishaps = 1
INVARIANTS InstalledHasFiles
CHECK_DEADLOCK FALSE
SYMMETRY CommandSymmetry
