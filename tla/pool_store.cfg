SPECIFICATION PoolSpec
CONSTANTS
  Threads = {t1, t2, t3}
  Pages = {p1, p2}
  NumFrames = 2
  Values = {v1, v2}
  Failures = {"read"}
  NoPage = NoPage
  NoFrame = NoFrame
  NoThread = NoThread
  MaxCalls = 0
SYMMETRY ThreadPageSymmetry
INVARIANTS OneFramePerPage
PROPERTIES ImplementsPageStore
