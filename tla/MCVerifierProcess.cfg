CONSTANTS
  NoValue = NoValue
  Nothing = Nothing
  Asset <- MCAsset
  Cycle <- MCCycle
  Environment <- MCEnvironment
  File <- MCFile
  Answer <- MCAnswer
  MaxAnswers = 1
SPECIFICATION ProcessSpec
INVARIANTS
  FailsFast
  YesIsWarranted
CHECK_DEADLOCK FALSE
