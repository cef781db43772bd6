SPECIFICATION FairSpec
CONSTANTS
  MaxRetries = 2
  HttpTimeout = 4
  BaseBackoff = 1
  MaxBackoff = 3
  Deadline = 10
  Latencies <- MCLatencies
  Responses <- MCResponses
  MaxRetry = 1
  Stops = 1
INVARIANTS TypeOK GivesUpWhenSpent CostIsBounded
PROPERTIES VerdictIsFinal LeavesAlone TaskSettles
