SPECIFICATION Spec
CONSTANTS
  hdr = hdr
  badhdr = badhdr
  junk = junk
  Missions <- MCMissions
  Instructions <- MCInstructions
  Overrides <- MCOverrides
  GoodHeaders = {hdr}
  BadHeaders = {badhdr}
  JunkLines = {junk}
  Checks <- MCChecks
  MaxProgram = 2
  StoreSize = 0
  MaxText = 3
  StepsPerTick = 2
  ValueStackSize = 1
  CallStackSize = 2
INVARIANTS
  TypeOK
  ParkedIsQuiet
  ReturnsToCallSites
