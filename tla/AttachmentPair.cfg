SPECIFICATION Spec
CONSTANTS
  p = p q = q os1 = os1 os2 = os2 none = none gateway = gateway
  NoRoot = NoRoot
  Proc = {p, q}
  Root = {os1}
  Target = {none, gateway}
  NoTarget = none
  Commands = {"setup", "uninstall", "attach", "configure"}
  WriteFaults = FALSE
  Strangers = FALSE
  HandEdits = FALSE
  LegacyMoves = FALSE
  MaxEdits = 1
  MaxMishaps = 1
INVARIANTS HolderWorksAlone EntryHasItsFiles AloneDelivers
PROPERTIES OthersAreKept
CHECK_DEADLOCK FALSE
SYMMETRY CommandSymmetry
