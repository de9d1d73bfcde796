SPECIFICATION WatchSpec
CONSTANTS
  p1 = p1 p2 = p2 p3 = p3
  s1 = s1 i1 = i1 i2 = i2 c2 = c2 s3 = s3
  a1 = a1 once = once hook = hook e1 = e1
  Proc = {p1, p2}
  Worker = {s1, i1, c2}
  ProcOf <- MCProcOf
  Role <- MCRole
  Run = {r1, r2}
  r1 = r1 r2 = r2
  Automation = {a1}
  Trigger = {once, hook}
  AutomationOf <- MCAutomationOf
  Kind <- MCKind
  Event = {e1}
  MaxAttempts <- MCMaxAttempts
  MaxVersion = 2
  MaxEdited = 0
  Concurrent = FALSE
  StoreFaults = TRUE
  Nobody = Nobody NoRun = NoRun NoKey = NoKey
INVARIANTS ClaimsAreOwned OneExecutorPerRun ThreadAgreesWithRow
PROPERTIES UnknownWaitsForOperator ImplementsContract SettledIsFinal ClosedGateHolds
CHECK_DEADLOCK FALSE
SYMMETRY RunSymmetry
