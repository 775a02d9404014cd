SPECIFICATION HeapSpec
CONSTANTS
  Threads = {t1, t2}
  Values = {v1}
  MaxPages = 2
  NumSlots = 2
  NumFrames = 2
  MaxCalls = 3
  MaxRestarts = 1
  Operations = {"insert", "read", "delete", "update", "vacuum", "scan", "insert_select"}
  Torn = Torn
  NoThread = NoThread
INVARIANTS ScanComplete NothingHeldWhenIdle
PROPERTIES RowsReadWhole RowsStay StatementsEnd
CHECK_DEADLOCK FALSE
