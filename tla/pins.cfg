SPECIFICATION Spec
CONSTANTS
  Pins = {8, 9}
  SettingsCap = 1
  HostSettings <- SomeSettings
  MaxTroubles = 1
  Troubles = {"overlap", "dir", "meddle", "flip", "full", "failed", "reset",
              "caught", "latched"}
INVARIANTS
  TypeOK
  PutsTakeEffect
  DirectionsAgree
  OutputsWereAskedFor
  PolarityAsSet
  StoppedIsLow
