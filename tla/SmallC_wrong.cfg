SPECIFICATION SmallCSpec
CONSTANTS
  Identifiers <- MCIdentifiers
  Numbers = {0, 1, 2, 3, 4, 5, 6, 7, 8, 9, 10}
  Strings <- MCStrings
  OPTIMIZE = TRUE
  optimize = FALSE
  SecondWord = "pp1"
  STAGELIMIT = 50
  NUMLOCS = 6
  MaxLoops = 4
  MaxCases = 4
  NullType = 0
  Programs <- WrongPrograms
  Compiler <- compile
  InC <- Meaning
  DATA = 1000
  STACK = 3000
  StackSize = 100
INVARIANT RunsAsMeant
CHECK_DEADLOCK FALSE
