SPECIFICATION BoundedSpec
CONSTANTS
  Threads = {t1, t2, t3}
  Pages = {p1, p2}
  NumFrames = 1
  Values = {v1}
  Failures = {"read", "write"}
  NoPage = NoPage
  NoFrame = NoFrame
  NoThread = NoThread
  MaxCalls = 2
INVARIANTS PinnedStays PinsCounted
PROPERTIES CallReturns
CHECK_DEADLOCK FALSE
