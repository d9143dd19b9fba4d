SPECIFICATION LanesSpec
CONSTANTS
  Events <- Crossing
  Keys = {1, 2, 3, 4, 5, 6, 7, 8, 9, 10}
  Prints = {"a", "b"}
  NoPrint = "none"
  Lanes = {"x", "y", "z"}
  Sources = {"s"}
  SourceOf <- Same
  Actors = {"ax", "ay", "az"}
  ActorOf <- Own
  Fallible <- Skips
  Tight = TRUE
  MaxSeq = 5
  HistoryLimit = 6
  ReorderWindow = 1
  CountCeiling = 3
  Horizon = 3
INVARIANTS LanesInOrder GapTellsMissing
PROPERTIES AdvanceHonest NoneDropped DeliversInOrder
CHECK_DEADLOCK FALSE
