SPECIFICATION FairSpec
CONSTANTS
  Names <- MCNames
  Hash <- MCHash
  Numbers <- MCNumbers
  Literals <- MCLiterals
  Sources <- MCSources
  MaxGoals = 50
  LoadStores = TRUE
  MaxData = 80
  Texts <- MCTexts
  Letters = {"a"}
  Digits = {"1"}
  MaxDigits = 2
  LineSize = 7
INVARIANTS StagesSound RunsAsMeant 
 
CHECK_DEADLOCK FALSE
