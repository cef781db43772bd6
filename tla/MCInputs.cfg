SPECIFICATION Spec
CONSTANTS
  Pushes = 1
  RequiredKeys = {"LLM_API_KEY", "GITLAB_URL"}
  Environments <- MCEnvironments
  StackTraceField <- MCStackTraceField
  Hits <- MCHits
  Errors <- MCErrors
  Replies <- MCReplies
  Paths <- MCPaths
  Files <- MCFiles
  Trees <- MCTrees
INVARIANTS StableFileIsFound FixesAFileOfTheTrace ConfigurationIsUsable TraceIsFound FingerprintTellsErrors ObjectIsUnwrapped
