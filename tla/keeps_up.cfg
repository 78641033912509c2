SPECIFICATION FairSpec
CONSTANTS
  UintRange = 16
  Pins = {8, 9}
  TaskSettings <- MixedTrains
  NumTTLIOs = 2
  KeepsUp = TRUE
  MayStop = FALSE
INVARIANTS
  AlarmExclusion
  EventsInOrder
  FinishedMeansDone
  NoFalseAlarm
PROPERTIES
  PortFollowsTasks
  CountedScheduleEnds
