SPECIFICATION FairSpec
CONSTANTS
  Wrap = 14
  PassMs = 2
  BlinkMs = 2
  Lamps = {"g", "y", "r"}
  Buttons = {"b"}
  Calls <- MCCalls
  NoPins = NoPins
  BuiltWith <- MCBuiltWith
  MaxCalls = 2
INVARIANT
  BeepOnlyOnRed
PROPERTIES
  GreenKept
  CrossingServed
  NoteOnTime
