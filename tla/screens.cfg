SPECIFICATION FairSpec
CONSTANTS
  MaxScreens = 2
  MaxPolls = 3
  MaxCalls = 2
  MaxStack = 4
  MaxFaults = 1
INVARIANTS TypeOK OneReportPerScreen CompletedHasPdf
PROPERTY LoadingEnds
CHECK_DEADLOCK FALSE
