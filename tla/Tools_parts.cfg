SPECIFICATION FairSpec
CONSTANTS
  Arrivals <- MCArrivals
  Queued <- MCQueued
  Members <- MCMembers
  MaxUnarcErrors = 1
  MaxFailures = 1
  MaxQuiet = 0
  MaxAnkhCrashes = 1
  Tables <- MCTables
  StartTimes <- MCStartTimes
  Steps <- MCSteps
  MaxTicks = 2
  MaxReboots = 1
  MAX_FILES = 5
  HeapBlocks = 4
  FileNames = {f}
  Lines <- MCLines
  MaxSize = 4
  ItemSize = 2
  MaxCount = 3
  MaxItems = 2
  MaxOffset = 1
  MaxCalls = 4
  Files <- MCFiles
  END = 4
  Byte = 5
  BLKSIZE = 16
  MailUsers = {7, 8}
  MAXMSGS = 2
  NBlocks = 6
  FirstRoom = 1
  Room = 2
  Lengths = {0, 1, 3}
  Items <- MCItems
  MaxSent = 3
  Again = FALSE
  Projects <- MCProjects
  MaxEdits = 1
  MaxRuns = 2
  RecursionLimit = 9
  SourceTexts <- MCSources
  IncludeFiles <- MCIncludes
  Identifiers = {"A", "B", "a", "b", "c", "d", "e", "x"}
  MaxMacros = 3
INVARIANTS StreamsSound PackedRight MailKept MailboxSound BuiltRight ReadRight 
PROPERTIES QueueKept RunOnTime  RunEnds
CHECK_DEADLOCK FALSE
