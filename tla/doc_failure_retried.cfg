SPECIFICATION BridgeSpec
CONSTANTS
  m = m
  b = b
  x = x
  short = short
  long = long
  empty = empty
  hashShort = hashShort
  hashLong = hashLong
  NoHash = NoHash
  NoPost = NoPost
  Platforms = {m, b, x}
  Routes <- MCRoutes3
  Texts = {short}
  Hash <- MCHash
  Fit <- MCFit
  Attempts = 2
  SinkBuffer = 1
  Budgets <- MCRefused
  Pollers = {m, x}
  Streams = {b}
  PageSize <- MCPageSize
  Backfill = TRUE
  IncludeReplies <- MCReplies
  FlushInterval = 2
PROPERTIES DetectedFailureRetried
CHECK_DEADLOCK FALSE
