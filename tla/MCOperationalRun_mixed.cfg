SPECIFICATION FairSpec
CONSTANTS
  Runs = {r1, r2}
  plain = plain
  masked = masked
  strict = strict
  Absent = Absent
  Legacy = Legacy
  Workers = 2
  Members <- MCMembers
  Steps <- MCSteps
  Modes <- MCModes
  ProbabilityModes <- MCProbabilityModes
  Signature <- MCSignature
  Requests <- MixedRequests
VIEW MixedView
INVARIANTS
  OutputsFollowContract
  MarkersDisagreeOnlyInAbort
PROPERTIES
  OnlyHolderPublishes
  EveryRunEnds
