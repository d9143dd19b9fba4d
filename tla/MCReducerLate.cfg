SPECIFICATION Spec

CONSTANTS
  Sources <- MCSources
  Ids <- MCIds
  PollIds = {"poll"}
  StateValidity = 1
  MaxValidity = 3
  A = A
  B = B
  C = C
  Actors = {A}
  Incs = {1, 2}
  Relations = {"r1", "r2"}
  EdgeKeys <- NoEdges
  Digests = {}
  Events <- EvidenceEvents
  HookFreshness = 2
  SuccessGhostTTL = 2
  FailureGhostTTL = 3
  MessageWindow = 2
  TransitionLimit = 1
  MaxNodes = 1
  MaxEdges = 1
  MaxGaps = 3
  HistoryLimit = 7
  Pins = {A}
  Delay = 1
  MaxEvents = 4
  Horizon = 4

CHECK_DEADLOCK FALSE

INVARIANTS
  TransitionsInOrder
