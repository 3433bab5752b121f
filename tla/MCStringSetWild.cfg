CONSTANTS
  HashRange = 16777216
  Strings <- MCStringsApart
  Hash <- MCHashApart
  FreshNext <- AnyNext
  Capacities = {3}
SPECIFICATION Spec
INVARIANT StaysDefined
CHECK_DEADLOCK FALSE
