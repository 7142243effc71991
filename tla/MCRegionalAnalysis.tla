--------------------------- MODULE MCRegionalAnalysis ---------------------------
(***************************************************************************)
(* Instances of RegionalAnalysis, and with it AnalysisReduction, for TLC.  *)
(***************************************************************************)
EXTENDS RegionalAnalysis

CONSTANTS a, b, dry, freezingRain, glaze, drizzle

MCCells == {a, b}
MCCodes == {dry, freezingRain, glaze, drizzle}
MCHighImpact == {freezingRain, glaze}
MCRegion == {a}

\* Two days of December and one each of January, February and March; month 11
\* is a December.
MCMonthOf == <<11, 11, 12, 13, 14>>

\* All days; a missing day; a missing month; a late first day.
MCPlans ==
  {<<<<1, 2>>, <<3>>, <<4>>>>, <<<<1>>, <<3>>, <<4>>>>, <<<<1, 2>>, <<4>>>>, <<<<2>>, <<3>>>>}

Over(inA, inB) == [c \in MCCells |-> IF c = a THEN inA ELSE inB]
MCGarbled == Over(glaze, dry)
Calm == Over(dry, dry)
Kinds == {Calm, Over(freezingRain, dry), Over(drizzle, glaze)}

\* The hours around the ends of months and cycles vary, the others are fixed.
MCWeathers ==
  {<<Over(freezingRain, glaze), Over(freezingRain, dry), k[1], k[2], Over(drizzle, glaze), Calm, k[3],
     IF k[3] = Calm THEN Over(freezingRain, dry) ELSE Calm>> :
     k \in {f \in [1..3 -> Kinds] : f[3] # Over(drizzle, glaze)}}
=============================================================================
