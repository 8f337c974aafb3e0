SPECIFICATION Spec
CONSTANTS
  MaxProgram = 3
  MaxResources = 2
  Cap = 22
  Texts <- MCTexts
  Overrides <- MCOverrides
  MaxCuts = 1
  MaxLoads = 2
INVARIANT
  BootsWhatWasSaved
PROPERTY
  OnlyOwnPads
