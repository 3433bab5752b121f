CONSTANTS
  HashRange = 16777216
  Strings <- MCStrings
  Hash <- MCHash
  FreshNext <- AnyNext
  Depth = 1
  CharRange = 2
  HeaderSkip = 8
  SizeofSsize = 8
  Alphabet <- MCAlphabet
  VersionRange = 2
  Capacities = {0, 2}
  MaxNames = 2
  VersionArgs = {5}
  StrayFiles <- MCStrayFiles
SPECIFICATION Spec
INVARIANTS TypeOK SetFollowsNames
PROPERTIES LoadsExactlyReadable ImplementsThreats
CHECK_DEADLOCK FALSE
