SPECIFICATION FairSpec
CONSTANTS
  own = own
  other = other
  a1 = a1
  a2 = a2
  a3 = a3
  b1 = b1
  Campaigns = {own, other}
  Tasks = {a1, a2, a3, b1}
  Fallible = {a1, a2, b1}
  Absent = Absent
  Days <- TwoDays
  Manifest <- TwoManifests
  CampaignOf <- AttemptsAndForeigner
ACTION_CONSTRAINT CampaignsTakeTurns
VIEW WhatMatters
INVARIANTS
  ArchiveFollowsContract
PROPERTIES
  PublishedStays
  ReceiptsAreTrue
  UndisturbedTaskCompletes
