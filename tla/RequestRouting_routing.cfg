CONSTANTS
  Messages <- MCMessages
  Steps <- MCSteps
  Fallbacks <- MCFallbacks
  Asks <- MCAsks
  MaxEscalations = 4
SPECIFICATION Spec
INVARIANTS
  AnsweredOnlyWithoutWork
  CoderToolsInReach
PROPERTIES
  RequestIsHandled
CHECK_DEADLOCK FALSE
