CONSTANTS
  HashRange = 16777216
  Strings <- MCStrings
  Hash <- MCHash
  FreshNext <- CleanNext
  Depth = 2
  CharRange = 2
  HeaderSkip = 8
  SizeofSsize = 8
  Alphabet <- MCAlphabet
  VersionRange = 2
  Pids = {1, 2, 3}
  Self = 2
  Protected = {3}
  Images <- MCImages
  CommMax = 2
  Newline = 10
  Digest <- MCDigest
  LoadedDatabases <- AnyDatabases
  MATCH_THRESHOLD = 1
  MaxProcesses = 3
SPECIFICATION Spec
INVARIANTS TypeOK ScanMissesNoThreat
PROPERTIES InnocentKilledOnlyByReuse
CHECK_DEADLOCK FALSE
