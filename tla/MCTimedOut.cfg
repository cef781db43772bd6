SPECIFICATION Spec
CONSTANTS
  Errors = {e1}
  Retries = {}
  Readers = {}
  Fingerprints = {f1}
  MaxRetry = 1
  WorkerConcurrency = 1
  FaultBudget <- MCFaultBudget
  Db = 0
  Redis = 0
  Reply = 0
  GitLabReply = 0
  Deadline = 1
  Crashes = 0
  Stops = 0
INVARIANT TimedOutStageIsRecorded
