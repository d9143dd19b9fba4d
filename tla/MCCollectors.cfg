SPECIFICATION CollectorsSpec
CONSTANTS
  Sessions = {"root", "agent", "other"}
  Lanes <- TwoLanes
  Home <- HomeOf
  Bindable = {"root", "other"}
  Spawns <- RootAgent
  PollEvery = 2
  BindWindow = 3
  ExitWindow = 2
  Horizon = 5
  OnceOnly = {"other"}
  MaxSeconds = 5
  MaxFaults = 1
  MaxChanges = 2
INVARIANTS SightingsInOrder NeverInvisible OneShotComplete
CHECK_DEADLOCK FALSE
