SPECIFICATION Spec
CONSTANTS
  Errors = {e1}
  Retries = {r1}
  Readers = {}
  Fingerprints = {f1}
  MaxRetry = 1
  WorkerConcurrency = 2
  FaultBudget <- MCFaultBudget
  Db = 0
  Redis = 1
  Reply = 0
  GitLabReply = 0
  Deadline = 1
  Crashes = 0
  Stops = 0
INVARIANTS NeverStranded StatusTellsRetries JobsClosed
