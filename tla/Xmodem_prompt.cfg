\* A noisy line, failing disks and BREAK keys, but no late answer.
SPECIFICATION Spec
CONSTANTS
  N = 4
  BlkMod = 4
  MaxNaks = 4
  CNaks = 1
  InitTries = 2
  FirstRead = 2
  MaxBlocks = 3
  RecvCrc = TRUE
  Prompt = TRUE
  LineFaults = TRUE
  Forged = {"CAN"}
  DiskFaults = TRUE
  Aborts = TRUE
INVARIANTS TypeOK ToldTruth
PROPERTIES ImplementsTransfer
CHECK_DEADLOCK FALSE
