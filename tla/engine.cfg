SPECIFICATION Spec
CONSTANTS
  m = m
  b = b
  x = x
  short = short
  long = long
  empty = empty
  hashShort = hashShort
  hashLong = hashLong
  NoHash = NoHash
  NoPost = NoPost
  Platforms = {m, b, x}
  Routes <- MCRoutes3
  Texts = {short, long}
  Hash <- MCHash
  Fit <- MCFit
  Attempts = 2
  SinkBuffer = 1
  Budgets <- MCEngineBudgets
INVARIANTS TypeOK NoSecondCopy OwnPostNeverCopied RecordedCopyExists RepliesThreadedRight OnlyUserPostsCopied SameTextCopiedOnce PendingIsBeingWorkedOn
PROPERTIES FinishedRowsKept
