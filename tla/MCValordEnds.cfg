CONSTANTS
  HashRange = 16777216
  Strings <- MCStrings
  Hash <- MCHash
  FreshNext <- CleanNext
  Depth = 2
  CharRange = 2
  HeaderSkip = 8
  SizeofSsize = 8
  Alphabet <- MCAlphabet
  VersionRange = 2
  Pids = {1, 2}
  Self = 2
  Protected = {}
  Images <- MCImages
  CommMax = 2
  Newline = 10
  Digest <- MCDigest
  LoadedDatabases <- CleanDatabases
  MATCH_THRESHOLD = 1
  MaxProcesses = 3
SPECIFICATION Spec
PROPERTY ThreatsEnd
CHECK_DEADLOCK FALSE
