SPECIFICATION FairSpec
CONSTANTS
  Pins = {p1}
  Configs = {c1, c2}
  CtrlCap = 2
  AnswerCap = 2
  SettingsCap = 2
  Faults = {"failure", "reset", "late"}
  p1 = p1
  c1 = c1
  c2 = c2
INVARIANTS
  TypeOK
  RunsWhatWasAccepted
  NoMessageDropped
  AnswersMatch
  AcksAreHonestUnlessReset
  IdleMeansStopped
  BusyMeansRunningOnceReady
  StartsSomething
PROPERTIES
  EndIsReported
  FailureIsCleared
