SPECIFICATION FairSpec
CONSTANTS
  Docs = {d1, d2}
  Slots = {s1, s2}
  Interval = 1
  PollTimeout = 1
  Lookback <- MCLookback
  PageSize = 1
  IndexDelay = 1
  Failures = 1
  Horizon = 8
INVARIANTS PollsNeverOverlap NothingOverlooked UsersFindResourcesOpen
PROPERTIES ShutdownEnds
