SPECIFICATION Spec
CONSTANTS
  Errors = {e1}
  Retries = {r1}
  Readers = {}
  Fingerprints = {f1}
  MaxRetry = 1
  WorkerConcurrency = 1
  FaultBudget <- MCFaultBudget
  Db = 1
  Redis = 0
  Reply = 0
  GitLabReply = 0
  Deadline = 0
  Crashes = 0
  Stops = 0
INVARIANT ConflictMeansWorking
