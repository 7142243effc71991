SPECIFICATION RealtimeSpec
CONSTANTS
  Runs = {r1, r2, r3, r4}
  Orchestrators = {r1, r2, r3, r4}
  Fallible = {r1, r2, r3, r4}
  firdewsa = firdewsa
  icon = icon
  Absent = Absent
  Legacy = Legacy
  Workers = 1
  Horizon = 3
  Limits <- MCLimits
  Members <- OneMember
  Steps <- MCSteps
  Modes <- MCModes
  ProbabilityModes <- MCModes
  Signature <- MCSignature
  Requests <- ForwardRequests
ACTION_CONSTRAINT ArrivalsAtProbe
VIEW WhatMatters
SYMMETRY MCRunSymmetry
INVARIANTS
  CoveredByIncrements
PROPERTIES
  ClaimsWhatIsPublished
