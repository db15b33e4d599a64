CONSTANTS
  Interval = 2
  BackoffBase = 1
  BackoffMax = 4
  HumanPause = 5
  DayLimit = 6
  Margin = 1
  Window = 4
  Allowance = 3
  MaxSkew = 1
  MaxSlips = 2
  RefreshInterval = 3
  Lifetime = 11
  RequestTime = 1
SPECIFICATION Spec
INVARIANTS
  ScheduleTypeOK
  SessionTypeOK
  KeepsAllowance
  RefusalRests
  OutageSurvived
PROPERTIES
  PollsAgain
  SessionComesBack
