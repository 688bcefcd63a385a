CONSTANTS
  Files = {"a", "b"}
  Projects = {"A", "B"}
  ProjectOf <- MCProjectOf
  Source = {"A"}
  Hyphened = {}
  Configurations <- EitherProject
  FirstConfig = {"B"}
  Failing = {"qdrant", "embedding", "memgraph"}
  Versions <- MCVersions
  Batches <- MCBatches
  HasFunctions = {2}
  Calls <- OnlyA
  Workers = 2
  MaxChanges = 1
  MaxOutages = 1
SPECIFICATION Spec
PROPERTY IndexCatchesUp
