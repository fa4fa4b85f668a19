\* Up to two runs, on one Pipeline object or on new ones, for two features.
CONSTANTS
  Features = {"F1", "F2"}
  IdeaIds <- MCIdeaIds
  RiskSets <- MCRiskSets
  NoDoc = NoDoc
  Torn = Torn
  MaxRuns = 2
SPECIFICATION Spec
INVARIANTS LinksResolve  ChainIsTraceable VerdictMatchesThreats
CHECK_DEADLOCK FALSE
