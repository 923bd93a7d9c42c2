\* Replies may come later than the other end's timer, on a noisy line.
SPECIFICATION MCSpec
CONSTANTS
  N = 7
  BlkMod = 4
  MaxNaks = 4
  CNaks = 1
  InitTries = 1
  FirstRead = 1
  MaxBlocks = 4
  RecvCrc = TRUE
  Prompt = FALSE
  LineFaults = TRUE
  Forged = {"EOT"}
  DiskFaults = FALSE
  Aborts = TRUE
INVARIANTS InOrder LeadBounded
PROPERTIES BothEnd Delivered
CHECK_DEADLOCK FALSE
