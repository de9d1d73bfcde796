SPECIFICATION FairSpec
CONSTANTS
  p = p q = q os1 = os1 os2 = os2 none = none gateway = gateway
  NoRoot = NoRoot
  Proc = {p}
  Root = {os1}
  Target = {none}
  NoTarget = none
  Commands = {"setup", "set_enabled", "update", "uninstall", "attach", "configure"}
  WriteFaults = TRUE
  Strangers = TRUE
  HandEdits = TRUE
  LegacyMoves = TRUE
  MaxEdits = 1
  MaxMishaps = 3
INVARIANTS AloneFailureRestores
PROPERTIES AttachHeals
CHECK_DEADLOCK FALSE
