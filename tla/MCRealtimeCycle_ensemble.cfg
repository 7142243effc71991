SPECIFICATION RealtimeFairSpec
CONSTANTS
  Runs = {r1, r2}
  Orchestrators = {r1, r2}
  Fallible = {r1}
  firdewsa = firdewsa
  icon = icon
  Absent = Absent
  Legacy = Legacy
  Workers = 2
  Horizon = 2
  Limits <- NoLimits
  Members <- TwoMembers
  Steps <- MCSteps
  Modes <- MCModes
  ProbabilityModes <- MCModes
  Signature <- MCSignature
  Requests <- EitherRequests
ACTION_CONSTRAINT ArrivalsAtProbe
VIEW WhatMatters
INVARIANTS
  NeverAheadOfInput
  OneOrchestrator
  CycleFollowsContract
PROPERTY UndisturbedCallCompletes
