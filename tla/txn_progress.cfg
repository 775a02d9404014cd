SPECIFICATION BoundedSpec
CONSTANTS
  Txns = {t1, t2, t3}
  Tags = {a, b}
  Modes = {"S", "IX"}
  NoRequest = NoRequest
  MaxCalls = 2
INVARIANTS HeldLocksExact AllReleased
PROPERTIES RequestAnswered
