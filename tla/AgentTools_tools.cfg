SPECIFICATION ToolsSpec
CONSTANTS
  None = None
  Characters <- MCCharacters
  Absent = None
  Paths <- MCPaths
  NameOf <- MCNameOf
  FirstDisks <- MCDisks
  FileCommands <- MCFileCommands
  Policies <- MCPolicies
  CallbackOutcomes = {"none", "format", "raise"}
  MaxViewLines = 3
  MaxText = 8
  MaxEdits = 3
  MemSessions = {"s1", "s2"}
  MemFiles <- MCMemFiles
  TagNames = {"t", "u"}
  MemCommands <- MCMemCommands
  RemindAfter = 2
  SnoozeAmount = 1
  MaxLlmCalls = 3
  MaxWrites = 3
  CommandLines <- MCCommandLines
  AllowedCommands <- MCAllowed
  DisallowedCommands <- MCDisallowed
  PathTokens = {"/x"}
  FormOf <- MCFormOf
  OptionsWithArgs <- MCOptionsWithArgs
  DisallowedOptions <- MCDisallowedOptions
  MaxFiles <- MCMaxFiles
INVARIANTS LockedFilesKept FoldersHoldFiles WrittenIsRead OnlyAllowedRun
PROPERTIES UndoRestoresOwnName ReplaceKeepsRest
CHECK_DEADLOCK FALSE
