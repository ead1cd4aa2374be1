SPECIFICATION Spec
CONSTANTS
  Token <- MCToken
  Lower <- MCLower
  Number <- MCNumber
  Tcp = {"tcp-client"}
  Comments = {"#"}
  LongLine <- MCLongLine
  Missing <- MCMissing
  Files <- MCFiles
INVARIANTS TypeOK ReturnsWhatTheFileMeans
CHECK_DEADLOCK FALSE
