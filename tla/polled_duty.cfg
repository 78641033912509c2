SPECIFICATION Spec
CONSTANTS
  UintRange = 32
  Pins = {8}
  TaskSettings <- MixedSettings
  Horizon = 24
INVARIANTS
  WaveformAsDocumented
