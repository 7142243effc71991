SPECIFICATION Spec
CONSTANTS
  Runs = {r1, r2}
  plain = plain
  masked = masked
  strict = strict
  Absent = Absent
  Legacy = Legacy
  Workers = 2
  Members <- MCMembers
  Steps <- MCSteps
  Modes <- MCModes
  ProbabilityModes <- MCProbabilityModes
  Signature <- MCSignature
  Requests <- StrictRequests
VIEW PromiseView
SYMMETRY RunSymmetry
INVARIANTS
  DoneIsComplete
  DoneMatchesReports
PROPERTIES
  NoHourLost
  KeepsPromise
