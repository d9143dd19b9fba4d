SPECIFICATION StoreSpec
CONSTANTS
  Events <- Colliding
  ReplayKeys <- MCReplays
  Prints = {"a", "b"}
  Lanes = {"lane"}
  NoLane = "none"
  Fields = {}
  GapIds = {"g1"}
  SequenceGaps = {}
  GapCharge <- MCGapCharge
  EventQueue = 3
  CriticalReserve = 1
  QueuedByteLimit = 40
  CoalesceCharge = 1
  DiagReserve = 1
  MaxGaps = 3
  DebtLimit = 2
  CountCeiling = 100
  MaxCalls = 2
  Horizon = 2
  BatchLatency = 1
  Skew = 1
  Deadlines = {2}
  Callers = {"c1"}
  Impatient = {}
  NoCaller = "nobody"
  Pinners = {"p1"}
  Outcomes = {"ok", "admission", "fatal"}
  MayStop = FALSE
INVARIANTS SchedulerInOrder GenerationsAgree 
PROPERTIES  VisibilityHonest
CHECK_DEADLOCK FALSE
