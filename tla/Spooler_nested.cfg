\* Files are queued while others are printed and the handler interrupts itself.
SPECIFICATION FairSpec
CONSTANTS
  Files = {"f1", "f2", "f3"}
  Size <- MCSize
  Missing = {"f3"}
  Drive <- MCDrive
  Drives = {0, 1}
  MaxQueue = 2
  MaxArgs = 2
  MaxSpooled = 3
  MaxNested = 2
INVARIANTS TypeOK DosNotReentered FilesInOrder PrintedRight
PROPERTY AllPrinted
