SPECIFICATION Spec
CONSTANTS
  UintRange = 16
  Pins = {8, 9, 10}
  TaskSettings <- MixedTrains
  NumTTLIOs = 3
  StartTimes = {13}
INVARIANTS
  TypeOK
  HeapOrdered
  SettingsTakeEffect
PROPERTIES
  EarliestTogether
  EventsAdvance
