SPECIFICATION Spec
CONSTANTS
  TotalPrecip = TotalPrecip
  rain = rain
  Temperature = Temperature
  Microphysics <- MCMicrophysics
  Params <- MCParams
  FullLevels = 2
  LastStep = 3
  Archives <- MCArchives
  Calls <- MCCalls
  MaxCalls = 2
  Retries = 1
  MaxFaults = 3
  Absent = Absent
  Lost = Lost
INVARIANTS
  OutputsAreReference
  RetriesAreCounted
  ClampsAreCounted
  PrefetchIsContained
PROPERTIES
  CallEnds
  KeepsMemberPromise
CHECK_DEADLOCK FALSE
