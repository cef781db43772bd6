SPECIFICATION Spec
CONSTANTS
  Errors = {e1}
  Retries = {}
  Readers = {}
  Fingerprints = {f1}
  MaxRetry = 0
  WorkerConcurrency = 1
  FaultBudget <- MCFaultBudget
  Db = 0
  Redis = 0
  Reply = 0
  GitLabReply = 0
  Deadline = 0
  Crashes = 0
  Stops = 1
INVARIANT InFlightTasksFinish
