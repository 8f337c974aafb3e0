SPECIFICATION FairSpec
CONSTANTS
  nl = nl
  cr = cr
  x = x
  NL = nl
  CR = cr
  Bytes = {nl, cr, x}
  RingSize = 3
  MaxLine = 2
  MaxSent = 7
INVARIANTS
  TypeOK
  LinesAsSent
PROPERTY
  RingIsAPipe
  EveryByteTaken
