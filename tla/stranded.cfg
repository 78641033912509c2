SPECIFICATION FairSpec
CONSTANTS
  UintRange = 8
  Pins = {8}
  TaskSettings <- OnePulse
  NumTTLIOs = 3
  KeepsUp = FALSE
  MayStop = FALSE
PROPERTIES
  CountedScheduleEnds
