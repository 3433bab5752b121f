CONSTANTS
  Keys <- MCKeys
  KeyHash <- MCKeyHash
  HASHTBL_CAPACITY = 2
  Options <- MCOptions
  Words <- MCKeys
  Atoll <- MCAtoll
  NULL = NULL
  MaxWords = 4
SPECIFICATION Spec
INVARIANT CompulsoryGiven
CHECK_DEADLOCK FALSE
