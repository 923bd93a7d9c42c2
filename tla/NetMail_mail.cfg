SPECIFICATION FairSpec
CONSTANTS
  NumSectors = 4
  Letters <- MCLetters
  NoticeSize = 2
  MaxFaults = 1
  MaxCrashes = 1
  Content <- MCContent
  Scenes <- MCScenes
INVARIANTS BasesSound NothingDropped NothingTwice
PROPERTY SeenTo
