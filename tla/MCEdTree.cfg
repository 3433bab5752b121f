CONSTANTS
  Depth = 3
  CharRange = 4
  HeaderSkip = 8
  SizeofSsize = 7
  Alphabet <- MCAlphabet
SPECIFICATION Spec
INVARIANTS TypeOK ColumnsExact AnswerExact NeverTooFar
PROPERTIES ScoresOnlyDrop
CHECK_DEADLOCK FALSE
