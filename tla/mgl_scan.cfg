SPECIFICATION HierarchicalSpec
CONSTANTS
  Txns = {t1, t2, t3}
  Tags = {table, r1, r2}
  Table = table
  Modes = {"S", "X", "IS", "IX", "SIX"}
  NoRequest = NoRequest
SYMMETRY TxnTupleSymmetry
INVARIANTS ScanIsolation
