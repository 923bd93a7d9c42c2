SPECIFICATION Spec
CONSTANTS
  Names <- MCNames
  Hash <- MCHash
  Numbers <- MCNumbers
  Literals <- MCLiterals
  Sources <- MCSources
  MaxGoals = 50
  LoadStores = FALSE
  MaxData = 80
  Texts <- MCTexts
  Letters = {"a"}
  Digits = {"1"}
  MaxDigits = 2
  LineSize = 7
INVARIANT RunsAsMeant
CHECK_DEADLOCK FALSE
