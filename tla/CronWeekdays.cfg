SPECIFICATION Spec
CONSTANTS
  MinuteHigh = 2
  HourHigh = 3
  Offset <- MCOffset
  Civil <- MCCivil
  Expr <- MCWeekdays
  Horizon = 40
  ScanLimit = 48
INVARIANTS WeekdaysAreStandard
CHECK_DEADLOCK FALSE
