CONSTANTS
  HashRange = 16777216
  Strings <- MCStrings
  Hash <- MCHash
  FreshNext <- CleanNext
  Depth = 1
  CharRange = 2
  HeaderSkip = 8
  SizeofSsize = 8
  Alphabet <- MCAlphabet
  VersionRange = 2
  Capacities = {2}
  MaxNames = 2
  VersionArgs = {5}
  StrayFiles <- MCStrayFiles
SPECIFICATION Spec
INVARIANT CompleteFileLoads
CHECK_DEADLOCK FALSE
