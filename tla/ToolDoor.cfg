\* Two lines, two runs, one token of the orchestrator, one fault.
CONSTANTS
  Runs = {"bridge", "other"}
  BridgeRun = "bridge"
  NoCall = NoCall
  NoToken = NoToken
  Forged = Forged
  Tools <- MCTools
  Registered <- MCRegistered
  Grants <- MCGrants
  Tracked <- MCTracked
  TTL = 0
  MaxTime = 1
  MaxCalls = 2
  MaxTokens = 1
  MaxFaults = 1
SPECIFICATION Spec
INVARIANTS  FinishedRunsStayQuiet AnswersTellEffects
  EvidenceLossNeedsFault
CHECK_DEADLOCK FALSE
