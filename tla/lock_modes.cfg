SPECIFICATION Spec
CONSTANTS
  Txns = {t1, t2, t3}
  Tags = {a, b, c}
  Modes = {"S", "X", "IX", "SIX"}
  NoRequest = NoRequest
SYMMETRY TxnTagSymmetry
INVARIANTS GrantedCompatible QueueIsPending NoUndetectedDeadlock SleeperHasHolder
