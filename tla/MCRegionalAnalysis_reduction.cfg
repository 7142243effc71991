SPECIFICATION RegionalSpec
CONSTANTS
  a = a
  b = b
  dry = dry
  freezingRain = freezingRain
  glaze = glaze
  drizzle = drizzle
  Cells <- MCCells
  Codes <- MCCodes
  Dry = dry
  HighImpact <- MCHighImpact
  FreezingDrizzle = drizzle
  Region <- MCRegion
  Garbled <- MCGarbled
  StepsPerCycle = 2
  MonthOf <- MCMonthOf
  Plans <- MCPlans
  Weathers <- MCWeathers
  CountLimit = 7
  MaxRuns = 2
  MaxDamages = 1
  MaxTasks = 1
  Absent = Absent
INVARIANTS
  FrequenciesMatchHours
  EventsAreMaximalRuns
  AcceptedIsOneReduction
  RegionalEventsAreMaximalRuns
  RegionalEventsAreWithinDomain
CHECK_DEADLOCK FALSE
