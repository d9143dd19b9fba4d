SPECIFICATION FairStoreSpec
CONSTANTS
  Events <- OneOrLoss
  ReplayKeys <- MCReplays
  Prints = {"a", "b"}
  Lanes = {"lane"}
  NoLane = "none"
  Fields = {}
  GapIds = {"g1"}
  SequenceGaps = {}
  GapCharge <- MCGapCharge
  EventQueue = 3
  CriticalReserve = 1
  QueuedByteLimit = 40
  CoalesceCharge = 1
  DiagReserve = 1
  MaxGaps = 3
  DebtLimit = 2
  CountCeiling = 100
  MaxCalls = 1
  Horizon = 2
  BatchLatency = 1
  Skew = 0
  Deadlines = {2}
  Callers = {"c1"}
  Impatient = {"c1"}
  NoCaller = "nobody"
  Pinners = {"p1"}
  Outcomes = {"ok", "fatal"}
  MayStop = TRUE
PROPERTIES CallersReturn WorkGetsDone
CHECK_DEADLOCK FALSE
