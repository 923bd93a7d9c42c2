\* The caller hangs up, and memory may run out.
SPECIFICATION FairSpec
CONSTANTS
  Programs <- MCPrograms
  Answer = "answer"
  Exitsys = "exitsys"
  Size <- MCSize
  HasDiscon = {"answer", "shell"}
  NPages = 6
  Resident = {2}
  NumResident = 129
  MaxDepth = 3
  Versions = {"v0", "v1"}
  Loaded = "v0"
  StartErrors = FALSE
  DropSignals = TRUE
INVARIANT MemorySound
PROPERTIES ImplementsStack LoggedOff
CHECK_DEADLOCK FALSE
