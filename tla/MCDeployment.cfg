CONSTANTS
  HashRange = 16777216
  Strings <- MCStrings
  Hash <- MCHash
  FreshNext <- AnyNext
  Depth = 2
  CharRange = 2
  HeaderSkip = 8
  SizeofSsize = 8
  Alphabet <- MCAlphabet
  VersionRange = 2
  MaxNames = 2
  CapacityArgs <- MCCapacityArgs
  CapacityRange = 16
  Files <- MCFiles
  Digest <- MCDigest
  StrayFiles <- MCStrayFiles
SPECIFICATION DeploymentSpec
INVARIANTS TypeOK AckedIsKept NothingInvented
PROPERTIES LoadFailsForAReason
CHECK_DEADLOCK FALSE
