SPECIFICATION FairSpec
CONSTANTS
  Pins = {8, 9}
  RisePins = {8, 9}
  FallPins = {8}
  QueueCap = 1
  HandlerCap = 3
  MaxTroubles = 1
  Troubles = {"fast", "glitch", "stale", "mute", "reset"}
INVARIANTS
  TypeOK
  EdgesAreKept
  HostKnowsLevels
PROPERTIES
  NothingInvented
  HostLearnsLevels
