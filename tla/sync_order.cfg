SPECIFICATION Spec
CONSTANTS
  UintRange = 16
  Pins = {8, 9}
  TaskSettings <- ShiftedTrains
  NumTTLIOs = 2
  StartTimes = {0}
PROPERTIES
  EventsAdvanceAlways
