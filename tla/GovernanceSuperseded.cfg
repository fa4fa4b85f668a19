\* One plan; no waiver is needed.
CONSTANTS
  Artifacts = {"PLAN"}
  ArtifactType <- MCPlanType
  Risks = {"R1"}
  Authors <- MCAuthors
  Reported = {"high", "medium", "low"}
  MaxTime = 0
  MaxWaivers = 0
  Candidates <- MCCandidates
  NotACandidate = NotACandidate
  Nothing = Nothing
  Torn = Torn
  MaxFaults = 0
SPECIFICATION MCSpec
PROPERTY OnlyListedTransitions
