SPECIFICATION BridgeSpec
CONSTANTS
  m = m
  b = b
  x = x
  short = short
  long = long
  empty = empty
  hashShort = hashShort
  hashLong = hashLong
  NoHash = NoHash
  NoPost = NoPost
  Platforms = {m, b}
  Routes <- MCRoutes2
  Texts = {empty, short}
  Hash <- MCHash
  Fit <- MCFit
  Attempts = 2
  SinkBuffer = 2
  Budgets <- MCBridgeBudgets
  Pollers = {m}
  Streams = {b}
  PageSize <- MCPageSize
  Backfill = TRUE
  IncludeReplies <- MCReplies
  FlushInterval = 2
INVARIANTS BridgeTypeOK CopiedInOrder ThreadsStayThreads ReadMeansHandled
PROPERTIES Spec MirrorsPosts
CONSTRAINTS ThreeAreFollowed WordsAreFew
CHECK_DEADLOCK FALSE
