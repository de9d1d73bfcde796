SPECIFICATION Spec
CONSTANTS
  MinuteHigh = 2
  HourHigh = 3
  Offset <- MCOffset
  Civil <- MCCivil
  Expr <- MCExpr
  Horizon = 40
  ScanLimit = 48
INVARIANTS NextIsTheFirstMatch FailsOnlyWithoutMatch
CHECK_DEADLOCK FALSE
