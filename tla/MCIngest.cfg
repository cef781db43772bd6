SPECIFICATION Spec
CONSTANTS
  Errors = {e1, e2, e3}
  Retries = {}
  Readers = {g1}
  Fingerprints = {f1}
  MaxRetry = 0
  WorkerConcurrency = 2
  FaultBudget <- MCFaultBudget
  Db = 1
  Redis = 1
  Reply = 1
  GitLabReply = 0
  Deadline = 0
  Crashes = 1
  Stops = 0
INVARIANTS FixedIsBacked OneTaskPerFingerprint DetailShowsFix
