SPECIFICATION Spec
CONSTANTS
  p1 = p1 p2 = p2 p3 = p3
  s1 = s1 i1 = i1 i2 = i2 c2 = c2 s3 = s3
  a1 = a1 once = once hook = hook e1 = e1
  Proc = {p1}
  Worker = {s1, i1}
  ProcOf <- MCProcOf
  Role <- MCRole
  Run = {r1}
  r1 = r1 r2 = r2
  Automation = {a1}
  Trigger = {once, hook}
  AutomationOf <- MCAutomationOf
  Kind <- MCKind
  Event = {e1}
  MaxAttempts <- MCMaxAttempts
  MaxVersion = 2
  MaxEdited = 1
  Concurrent = FALSE
  StoreFaults = FALSE
  Nobody = Nobody NoRun = NoRun NoKey = NoKey
PROPERTIES DeliveringUnderFence
CHECK_DEADLOCK FALSE
