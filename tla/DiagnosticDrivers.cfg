SPECIFICATION DiagSpec
CONSTANTS
    Requests = 2
    Tokens = 2
    Threads = {t1, t2}
    Vocabulary = {5, 6}
    MaxCalls = 2
    PromptTokens = 3
    Chunk = 2
    MaxPreempts = 1
    StepTimes <- TimesModel
    PlanLists <- MCPlanLists
    Predict <- PredictModel
    MaxChunk = 3
    MaxReplayPreempts = 2
    TraceLimit = 6
    Calls = 3
INVARIANTS
  CaptureIsExact
  TelemetryIsExact
  ReplayIsExact
  CallsDoNotLeak
  EvidenceIsWhole
PROPERTIES
  CallsReturn
CHECK_DEADLOCK FALSE
