CONSTANTS
  Routes <- MCRoutes
  FastFailures = 2
  HintErrors = 2
  StopErrors = 3
  StallRepeats = 2
  ResearchDepth = 3
  ResearchCycles = 2
  Chunk = 2
  AbsoluteMax = 5
  BumpBelow = 4
  BumpTo = 5
  EnableAllAfter = 2
  EnoughSearches = 2
SPECIFICATION FairSpec
INVARIANTS LoopBounded ErrorsAnswered SpokenIsAnswered
PROPERTIES GoingOnCosts Terminates
CHECK_DEADLOCK FALSE
