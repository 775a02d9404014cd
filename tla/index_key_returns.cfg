SPECIFICATION IndexSpec
CONSTANTS
  Keys = {1, 2, 3}
  Rids = {1, 2}
  MaxStatements = 3
  Free = Free
  Deleted = Deleted
INVARIANT CommitKeepsEntries
CHECK_DEADLOCK FALSE
