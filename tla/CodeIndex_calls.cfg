CONSTANTS
  Files = {"a", "aa"}
  Projects = {"A", "B"}
  ProjectOf <- MCProjectOf
  Source = {"A"}
  Hyphened = {}
  Configurations <- EitherProject
  FirstConfig = {"A"}
  Failing = {}
  Versions <- MCVersions
  Batches <- OneBatch
  HasFunctions <- MCVersions
  Calls <- MCCalls
  Workers = 2
  MaxChanges = 1
  MaxOutages = 0
SPECIFICATION Spec
INVARIANT CallsRecreated
