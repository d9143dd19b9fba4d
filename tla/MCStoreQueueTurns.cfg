SPECIFICATION TurnsSpec
CONSTANTS
  Events <- QueueEvents
  ReplayKeys <- MCReplays
  Prints = {"a", "b"}
  Lanes = {"lane"}
  NoLane = "none"
  Fields = {"rate"}
  GapIds = {"g1", "g2", "seq"}
  SequenceGaps = {"seq"}
  GapCharge <- MCGapCharge
  EventQueue = 4
  CriticalReserve = 2
  QueuedByteLimit = 12
  CoalesceCharge = 1
  DiagReserve = 1
  MaxGaps = 4
  DebtLimit = 1
  CountCeiling = 2
  MaxCalls = 4
INVARIANTS QueueBooks LaneOwnership ReserveIntact NormalWaitBounded
PROPERTY LossLogged
CHECK_DEADLOCK FALSE
