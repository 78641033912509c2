SPECIFICATION Spec
CONSTANTS
  UintRange = 16
  Pins = {8}
  TaskSettings <- TwoPulses
  NumTTLIOs = 2
  KeepsUp = TRUE
  MayStop = TRUE
INVARIANTS
  StoppedIsQuiet
