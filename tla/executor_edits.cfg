CONSTANTS
  a1 = a1
  a2 = a2
  x1 = x1
  b1 = b1
  b2 = b2
  Ids = {a1, a2}
  ExtIds = {x1}
  Bodies = {b1, b2}
  Absent = Absent
  NoTx = NoTx
  NoReq = NoReq
  Requests <- EditedRequests
  MaxTime = 0
  MaxRuns = 2
  MaxTx = 2
  MaxFaults = 1
  MaxCrashes = 1
  MaxEdits = 2
  FaultPoints = {"reload", "history", "meta"}
  EditPoints <- GuardedPhases
  HandWritten = TRUE
  HistoryLimit = 2
SPECIFICATION Spec
INVARIANTS EditsSurvive
