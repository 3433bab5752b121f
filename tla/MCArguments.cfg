CONSTANTS
  Keys <- MCKeys
  KeyHash <- MCKeyHash
  HASHTBL_CAPACITY = 2
  Options <- MCOptions
  Words <- MCKeys
  Atoll <- MCAtoll
  NULL = NULL
  MaxWords = 4
SPECIFICATION Spec
INVARIANTS TypeOK TableIsRegistry ParsedAsGiven VerdictIsRight
CHECK_DEADLOCK FALSE
