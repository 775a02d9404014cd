SPECIFICATION Spec
CONSTANTS
  Threads = {t1, t2}
  Keys = {1, 2, 3}
  Rids = {1, 2}
  MaxStatements = 3
  Free = Free
  Deleted = Deleted
  Buckets = {b1, b2, b3}
  NoBucket = NoBucket
  NoThread = NoThread
  MaxPages = 3
  NoHandle = NoHandle
  Names = {"t", "s"}
  Columns = {"a", "b"}
  IndexTypes = {"hash", "rtree"}
  MaxId = 3
  NoFile = NoFile
  NoTable = NoTable
  TxnId = 7
  EndTypes = {"commit"}
  Capacity = 9
  MaxRecords = 3
  Sizes = {1, 2}
  MaxBytes = 5
  WordBits = 3
  PageBytes = 64
  WordBytes = 4
  HeaderBytes = 5
  MapBits = 7
  StringLength = 3
  MaxByte = 2
INVARIANTS IndexesAgree   PagesGiven  RecordsKept FlushedIsDurable FreeSlotFound PageLayout StringBounds
PROPERTIES AbortRestores IndexIsASet SomeCallReturns LSNsGrow
CHECK_DEADLOCK FALSE
