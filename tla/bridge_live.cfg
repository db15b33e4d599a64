SPECIFICATION FairSpec
CONSTANTS
  m = m
  b = b
  x = x
  short = short
  long = long
  empty = empty
  hashShort = hashShort
  hashLong = hashLong
  NoHash = NoHash
  NoPost = NoPost
  Platforms = {m, b}
  Routes <- MCRoutes2
  Texts = {empty}
  Hash <- MCHash
  Fit <- MCFit
  Attempts = 2
  SinkBuffer = 1
  Budgets <- MCLiveBudgets
  Pollers = {m}
  Streams = {b}
  PageSize <- MCPageSize
  Backfill = TRUE
  IncludeReplies <- MCNoReplies
  FlushInterval = 2
PROPERTIES EveryPostSettled StopsWhenAsked
CHECK_DEADLOCK FALSE
