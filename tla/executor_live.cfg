CONSTANTS
  a1 = a1
  a2 = a2
  x1 = x1
  b1 = b1
  b2 = b2
  Ids = {a1, a2}
  ExtIds = {}
  Bodies = {b1, b2}
  Absent = Absent
  NoTx = NoTx
  NoReq = NoReq
  Requests <- GuardedRequests
  MaxTime = 2
  MaxRuns = 3
  MaxTx = 2
  MaxFaults = 1
  MaxCrashes = 1
  MaxEdits = 0
  FaultPoints = {"write", "history", "reload", "category", "meta"}
  EditPoints = {}
  HandWritten = FALSE
  HistoryLimit = 2
SPECIFICATION FairSpec
PROPERTIES JournalDrains StartupCompletes FailureLeavesNoTrace
