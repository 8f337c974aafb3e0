SPECIFICATION Spec
CONSTANTS
  Wrap = 12
  Chunk = 2
  PassMs = 1
  Slack = 1
  Waits <- MCWaits
INVARIANTS
  WaitNotLate
  CommandServedSoon
  DeafOnce
PROPERTY
  WaitNotEarly
