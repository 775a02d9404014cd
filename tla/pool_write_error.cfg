SPECIFICATION PoolSpec
CONSTANTS
  Threads = {t1, t2}
  Pages = {p1, p2}
  NumFrames = 1
  Values = {v1, v2}
  Failures = {"write"}
  NoPage = NoPage
  NoFrame = NoFrame
  NoThread = NoThread
  MaxCalls = 0
PROPERTIES DirtyWrittenBack
