SPECIFICATION FairSpec
CONSTANTS
  hdr = hdr
  badhdr = badhdr
  junk = junk
  Missions <- MCMissions
  Instructions <- BootInstructions
  Overrides <- BootOverrides
  GoodHeaders = {hdr}
  BadHeaders = {badhdr}
  JunkLines = {junk}
  Checks <- MCChecks
  MaxProgram = 2
  StoreSize = 3
  MaxText = 3
  StepsPerTick = 2
  ValueStackSize = 1
  CallStackSize = 2
INVARIANTS
  OnlyCheckedKept
  LoadingIsFresh
  AutorunReplaysSaved
PROPERTIES
  TickEnds
  LostMissionEnds
