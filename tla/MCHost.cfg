SPECIFICATION FairHostSpec
CONSTANTS
  Sources = {"native", "bare"}
  CapsOf <- CapsOfMenu
  NoCap = "all"
INVARIANTS HostInOrder GapsTold
PROPERTY EverythingStops
CHECK_DEADLOCK FALSE
