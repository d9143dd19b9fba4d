SPECIFICATION BoardSpec
CONSTANTS
  Rows <- MCRows
  Class <- MCClass
  ParentOf <- MCParentOf
  ForkOf <- MCForkOf
  NameRank <- MCNameRank
  Matches <- MCMatches
  Snapshots <- MCSnapshots
  Sizes <- MCSizes
  Folded = {}
  Prompts = {"message"}
  MaxTuned = 2
  Nobody = "nobody"
INVARIANTS CursorInOrder  
PROPERTY CursorKept
CHECK_DEADLOCK FALSE
