SPECIFICATION Spec

CONSTANTS
  Sources <- MCSources
  Ids <- MCIds
  PollIds = {"poll"}
  StateValidity = 1
  MaxValidity = 3
  A = A
  B = B
  C = C
  Actors = {A, B, C}
  Incs = {1, 2}
  Relations = {"r1", "r2"}
  EdgeKeys <- TopologyEdges
  Digests = {1, 2}
  Events <- TopologyEvents
  HookFreshness = 2
  SuccessGhostTTL = 1
  FailureGhostTTL = 2
  MessageWindow = 1
  TransitionLimit = 1
  MaxNodes = 3
  MaxEdges = 3
  MaxGaps = 5
  HistoryLimit = 20
  Pins = {A}
  Delay = 0
  MaxEvents = 6
  Horizon = 2

CHECK_DEADLOCK FALSE

INVARIANTS
  EdgesInOrder
  RankAcyclic
  TerminalGhosts
  PartialExact

PROPERTIES
  RetiredStayRetired
