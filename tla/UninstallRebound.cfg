SPECIFICATION Spec
CONSTANTS
  p = p q = q os1 = os1 os2 = os2 none = none gateway = gateway
  NoRoot = NoRoot
  Proc = {p}
  Root = {os1, os2}
  Target = {none}
  NoTarget = none
  Commands = {"setup", "uninstall", "attach"}
  WriteFaults = FALSE
  Strangers = FALSE
  HandEdits = FALSE
  LegacyMoves = FALSE
  MaxEdits = 0
  MaxMishaps = 0
INVARIANTS UninstallDetaches
CHECK_DEADLOCK FALSE
