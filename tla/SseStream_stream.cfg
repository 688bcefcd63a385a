CONSTANT MaxChunks = 3
SPECIFICATION FairSpec
INVARIANTS NothingLost CompleteAtEnd
PROPERTIES StreamEnds CancelStopsAgent
CHECK_DEADLOCK FALSE
