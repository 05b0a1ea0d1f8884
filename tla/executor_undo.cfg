CONSTANTS
  a1 = a1
  a2 = a2
  x1 = x1
  b1 = b1
  b2 = b2
  Ids = {a1, a2}
  ExtIds = {}
  Bodies = {b1, b2}
  Absent = Absent
  NoTx = NoTx
  NoReq = NoReq
  Requests <- ChangeRequests
  MaxTime = 0
  MaxRuns = 2
  MaxTx = 3
  MaxFaults = 1
  MaxCrashes = 1
  MaxEdits = 0
  FaultPoints = {"write", "journal", "history", "reload", "category", "meta", "expire_meta", "clear", "undo_write", "undo_meta"}
  EditPoints = {}
  HandWritten = TRUE
  HistoryLimit = 2
SPECIFICATION Spec
 
PROPERTIES CatalogPromise
