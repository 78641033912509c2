SPECIFICATION FairSpec
CONSTANTS
  UintRange = 8
  Pins = {8}
  TaskSettings <- TwoPulses
  NumTTLIOs = 2
  KeepsUp = FALSE
  MayStop = TRUE
\* Every property but TypeOK is about behaviours that stay inside: nothing they
\* speak of is cut off.
CONSTRAINT CancelSafe
INVARIANTS
  TypeOK
PROPERTIES
  ExclusionUnlessRaced
  QuietUnlessRaced
  PopsUnlessRaced
  EndsUnlessStranded
