CONSTANTS
  a1 = a1
  a2 = a2
  x1 = x1
  b1 = b1
  b2 = b2
  Ids = {a1}
  ExtIds = {}
  Bodies = {b1, b2}
  Absent = Absent
  NoTx = NoTx
  NoReq = NoReq
  Requests <- UndoRequests
  MaxTime = 0
  MaxRuns = 2
  MaxTx = 2
  MaxFaults = 0
  MaxCrashes = 1
  MaxEdits = 0
  FaultPoints = {}
  EditPoints = {}
  HandWritten = FALSE
  HistoryLimit = 2
SPECIFICATION Spec
INVARIANTS StoresAgree
