\* A task and a review, one risk, one waiver; release candidates of ten kinds.
CONSTANTS
  Artifacts = {"TASK", "REVIEW"}
  ArtifactType <- MCArtifactType
  Risks = {"R1"}
  Authors <- MCAuthors
  Reported = {"high", "medium", "low"}
  MaxTime = 2
  MaxWaivers = 1
  Candidates <- MCCandidates
  NotACandidate = NotACandidate
  Nothing = Nothing
  Torn = Torn
  MaxFaults = 2
SPECIFICATION MCSpec
INVARIANTS WaiverJudgesAgree AllowsWereGiven PairsMatch ItemsDecide
PROPERTIES  EndsAreFinal ZeroIsBacked
