SPECIFICATION FairSpec
CONSTANTS
  Months <- TwoMonths
  Versions <- OneVersion
  Size <- OneSize
  Tasks = {t1}
  Promoters = {q1, q2}
  DryRuns = {q1}
  Fallible = {t1, q1}
  Replaceable = {}
  Absent = Absent
  Critical = Critical
PROPERTY RetirementAlwaysContinues
