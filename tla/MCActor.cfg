SPECIFICATION ActorSpec
CONSTANTS
  Intents = {"fork", "merge", "kill", "launch", "call"}
  OpOf <- OpOfMenu
  KeyOf <- KeyOfMenu
  Bound = 2
  MaxInFlight = 2
  Ports = {1}
  Wedged = {"merge"}
  MaxAsked = 3
  Nobody = "nobody"
INVARIANTS WorkersBounded IntentBooks 
PROPERTY EverythingEnds
CHECK_DEADLOCK FALSE
