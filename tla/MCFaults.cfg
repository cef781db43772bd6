SPECIFICATION FairSpec
CONSTANTS
  Errors = {e1}
  Retries = {}
  Readers = {}
  Fingerprints = {f1}
  MaxRetry = 1
  WorkerConcurrency = 1
  FaultBudget <- MCFaultBudget
  Db = 0
  Redis = 0
  Reply = 0
  GitLabReply = 1
  Deadline = 1
  Crashes = 1
  Stops = 1
INVARIANTS TypeOK FixedIsBacked RecordsMatchGitLab ExtraMRsCostFaults AttemptNumbersRun
PROPERTIES EveryTaskEnds
