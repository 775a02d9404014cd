SPECIFICATION TxnSpec
CONSTANTS
  Txns = {t1, t2}
  Tags = {a}
  Modes = {"S", "X"}
  NoRequest = NoRequest
PROPERTIES LocksAccumulate
