\* A bad line, late answers, and failing transfers.
SPECIFICATION FairSpec
CONSTANTS
  Files <- TwoFiles
  MaxTries = 5
  Block <- SohBlock
  Junk = {4, 6, 21, 26, 67, 117}
  MaxLost = 2
  MaxDamaged = 1
  MaxLate = 2
  XferFaults = TRUE
  PeerTsync = TRUE
 
PROPERTIES SentMeansHeard BothEnd
CHECK_DEADLOCK FALSE
