SPECIFICATION Spec
CONSTANTS
  firdewsa = firdewsa
  icon = icon
  Temperature = Temperature
  Rain = Rain
  YearOf <- MCYearOf
  MonthOf <- MCMonthOf
  FieldsOf <- MCFieldsOf
  Requests <- MCRequests
  Archives <- MCArchives
  Retries = 1
  MessagesPerCycle = 24
  MaxPlans = 3
  MaxFaults = 3
  MaxChanges = 1
  Absent = Absent
  Broken = Broken
INVARIANTS
  PlanIsSound
  PlanCountsItsAttempts
  NoCheckpointMeansPublished
CHECK_DEADLOCK FALSE
