\* The services with a promise about what eventually happens.
SPECIFICATION ServicesFairSpec
CONSTANTS
  Explored = {"background", "jobs", "team", "account", "mcp"}
  Tenants = {"t1", "t2"}
  Callers = {"p1", "p2"}
  MaxResident = 1
  MaxOps = 3
  Chats = {"c1"}
  Directs = {}
  Messages = {"m1", "m2"}
  MaxQueue = 1
  MaxCancels = 1
  Runs = {"r1", "r2"}
  MaxEvents = 2
  MaxMarkers = 2
  MaxAppends = 4
  Calls = {"c1", "c2", "c3"}
  InferenceRuns = {"r1", "r2"}
  RunOf <- MCRunOf
  Routers = {"q1", "q2"}
  RouterOf <- MCRouterOf
  Reports = {1, 4}
  Estimates = {2}
  MaxRunTokens <- MCMaxRunTokens
  DailyTokens = 8
  ResponseReserve = 1
  JobTokens = 4
  Tasks = {"t1", "t2"}
  Depends <- MCDepends
  TeamLimit = 4
  MaxJobs = 3
  MaxWorkers = 1
  MaxCollabFaults = 2
  Workers = {"w1", "w2"}
  MaxCycles = 2
  MaxPurgeFaults = 2
  TokenWidth = 2
  SecretNames = {"a", "b"}
  SecretValues = {1, 2}
  BatchLimit = 1
  MaxWrites = 4
  MaxVersions = 3
  MaxSends = 2
  MaxFailures = 2
  MaxCodes = 3
  ToolCalls = {"c1", "c2"}
  MaxRetries = 2
  Threshold = 1
  Writers = {"w1", "w2"}
  Members = {"w1", "w2"}
  Parts = {"f1", "f2", "g1"}
  FileOf <- MCFileOf
  AcceptCalls = {"q1"}
  MaxFileEdits = 2
  MaxRounds = 3
  RepeatLimit = 2
  MaxReflections = 1
  MaxLlmRetries = 1
  ContextLimit = 6
  Steers = {"s1"}
  Prints = {"a", "b"}
  MaxBatch = 2
  MaxChunks = 1
  MaxResumes = 1
  MaxProducers = 2
  MaxCloseFaults = 1
  CaptureLimit = 1
  MaxChunksOut = 2
  MaxInterrupts = 2
  MaxStreamCalls = 2
  MaxTexts = 2
  MaxStoreFaults = 1
PROPERTIES
  MessagesSettle CancelReachesChild DueIsPurged CallsReturn
CHECK_DEADLOCK FALSE
