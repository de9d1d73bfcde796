SPECIFICATION FairSpec
CONSTANTS
  e1 = e1 w1 = w1 w2 = w2 r1 = r1 r2 = r2
  Event = {e1}
  Run = {r1, r2}
  Worker = {w1, w2}
  Skew = 1
  Offsets <- MCAhead
  NoEvent = NoEvent NoRun = NoRun
INVARIANTS AcceptedOnce
PROPERTIES SenderIsAnswered
CHECK_DEADLOCK FALSE
