SPECIFICATION Spec
CONSTANTS
  a1 = a1 timed = timed hook = hook
  w1 = w1 w2 = w2 e1 = e1 d1 = d1 d2 = d2 k1 = k1 k2 = k2
  Automation = {a1}
  Trigger = {timed}
  AutomationOf <- MCAutomationOf
  Keyed = {timed}
  SpecsOf <- MCSpecsOf
  Wake = {w1, w2}
  Event = {e1}
  Digest = {d1, d2}
  Ticker = {k1}
  Horizon = 6
  BusyWait = 1
  MaxVersion = 2
  Asleep = Asleep
  Nothing = Nothing
INVARIANTS ExactRetryReturns
CHECK_DEADLOCK FALSE
