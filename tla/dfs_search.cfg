SPECIFICATION SearchSpec
CONSTANTS
  Txns = {t1, t2, t3, t4}
  Tags = {a, b, c}
  Modes = {"S", "X"}
  NoRequest = NoRequest
  NoCall = NoCall
SYMMETRY TxnTagSymmetry
PROPERTIES ImplementsLockManager
