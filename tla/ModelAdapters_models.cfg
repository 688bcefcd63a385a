SPECIFICATION ConversationSpec
CONSTANTS
  None = None
  Adapters = {"chat", "responses", "gemini", "claude"}
  Settings <- MCSettings
  SchemaOf <- MCSchemaOf
  GoogleSchemas <- MCGoogleSchemas
  Depth = 12
  Inputs <- MCInputs
  Answers <- MCAnswers
  ServiceErrors <- MCServiceErrors
  ToolOutcomes <- MCToolOutcomes
  ProgressTool = "progress"
  CallIds <- MCCallIds
  Retries = 1
  MaxTurns = 2
  PlanFrom = 9
INVARIANTS
  ConversationKept
  CallsAnswered
  SchemasClosed
CHECK_DEADLOCK FALSE
