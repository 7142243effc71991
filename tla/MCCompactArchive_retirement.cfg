SPECIFICATION FairSpec
CONSTANTS
  Months <- TwoMonths
  Versions <- ThreeVersions
  Size <- TwoSizes
  Tasks = {t1, t2}
  Promoters = {q1, q2}
  DryRuns = {}
  Fallible = {t1, q1}
  Replaceable = {1}
  Absent = Absent
  Critical = Critical
CONSTRAINT TasksOnReplaceable
ACTION_CONSTRAINT PromotionsInTurn
VIEW WhatMatters
INVARIANTS
  RetiredMeansGone
PROPERTIES
  CompactOutlivesSource
  RetirementContinues
