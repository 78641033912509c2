SPECIFICATION Spec
CONSTANTS
  Pins = {8, 9}
  SettingsCap = 1
  HostSettings <- SomeSettings
  MaxTroubles = 1
  Troubles = {"overlap"}
INVARIANTS
  TaskPinsAreOutputs
