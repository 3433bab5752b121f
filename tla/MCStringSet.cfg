CONSTANTS
  HashRange = 16777216
  Strings <- MCStrings
  Hash <- MCHash
  FreshNext <- AnyNext
  Capacities = {0, 1, 2, 3}
SPECIFICATION Spec
INVARIANTS TypeOK SizeCountsCodes AnswerIsFirstWithCode CodesAreThoseAdded
PROPERTIES MembersAreKept ImplementsHashSet
CHECK_DEADLOCK FALSE
