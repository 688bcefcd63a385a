CONSTANTS
  Files = {"a", "b"}
  Projects = {"A", "B"}
  ProjectOf <- MCProjectOf
  Source = {"A"}
  Hyphened = {}
  Configurations <- BothProjects
  FirstConfig = {"A"}
  Failing = {}
  Versions <- MCVersions
  Batches <- OneBatch
  HasFunctions = {1}
  Calls <- MCCalls
  Workers = 2
  MaxChanges = 1
  MaxOutages = 0
SPECIFICATION Spec
PROPERTY ReconcileSparesFiles
