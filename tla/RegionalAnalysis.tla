--------------------------- MODULE RegionalAnalysis ---------------------------
(***************************************************************************)
(* A regional campaign over the compact archive of a reduced analysis      *)
(* campaign (regional_analysis.py): a task per archive month decodes the   *)
(* compact archive a second time, compares it with what the canonical      *)
(* receipt sealed and counts the cells of a region; the reduction puts the *)
(* months together and publishes three event catalogues.  A compact        *)
(* archive may be damaged at any time.                                     *)
(*                                                                         *)
(* Tasks of different months share no file: here they run one at a time,   *)
(* as the calls of the reduction do.                                       *)
(***************************************************************************)
EXTENDS AnalysisReduction

CONSTANTS
  Region,          \* region_mask
  FreezingDrizzle, \* code 12
  Garbled,         \* what a damaged archive decodes to
  MaxDamages,      \* bound on damages
  MaxTasks         \* bound on the calls that fail or are killed

\* A row of a regional catalogue.
RegionalEvents ==
  [start : Int, end : Int, peak : Int, duration : Int, largest : Int, cellHours : Int, wettest : Int]

ASSUME RegionalAssumption ==
  /\ Region \subseteq Cells /\ Region # {} /\ Region # Cells
  /\ FreezingDrizzle \in Codes \ ({Dry} \union HighImpact)
  /\ Garbled \in [Cells -> Codes]
  /\ Absent \notin {"whole", "damaged"} /\ Absent \notin RegionalEvents

VARIABLES
  compact,     \* compact archives: "whole" as sealed, or "damaged"
  range,       \* archive months of the regional manifest
  shards,      \* regional rows of each month
  receipts,    \* regional receipts: the archive they vouch for, or "critical"
  task,        \* the month whose task is running, its stage and what it read
  reducing,    \* where the regional reduction is
  rows,        \* the rows it has put together
  catalogues,  \* the regional products on disk
  sealed,      \* the evidence in REGIONAL_REDUCTION.json
  damages, failures

regional == <<compact, range, shards, receipts, task, reducing, rows, catalogues, sealed, damages, failures>>
canonical == <<plan, weather, monthly, phase, next, merged, scan, product, reduction, runs>>

EventDefinitions ==
  [high_impact |-> HighImpact, freezing_drizzle |-> {FreezingDrizzle},
   icy_liquid |-> HighImpact \union {FreezingDrizzle}]
Catalogues == DOMAIN EventDefinitions

-----------------------------------------------------------------------------
Field(p, h) == IF compact[p] = "whole" THEN weather[h] ELSE Garbled

Row(h, field) == [hour |-> h, counts |-> [k \in Codes |-> Cardinality({c \in Region : field[c] = k})]]
RowsOf(p) == [i \in DOMAIN monthly[p].hours |-> Row(monthly[p].hours[i], Field(p, monthly[p].hours[i]))]

AffectedBy(row, codes) == SumFunctionOnSet(row.counts, codes)
Wet(row) == AffectedBy(row, Codes \ {Dry})

\* The latest of equally high hours becomes the peak.
ProlongedLate(e, row, n) ==
  [e EXCEPT !.end = row.hour, !.duration = @ + 1, !.cellHours = @ + n,
            !.peak = IF n >= e.largest THEN row.hour ELSE @,
            !.largest = Larger(@, n), !.wettest = Larger(@, Wet(row))]

Prolonged(e, row, n) ==
  [e EXCEPT !.end = row.hour, !.duration = @ + 1, !.cellHours = @ + n,
            !.peak = IF n > e.largest THEN row.hour ELSE @,
            !.largest = Larger(@, n), !.wettest = Larger(@, Wet(row))]

Started(row, n) ==
  [start |-> row.hour, end |-> row.hour, peak |-> row.hour, duration |-> 1,
   largest |-> n, cellHours |-> n, wettest |-> Wet(row)]

CatalogueStep(s, row, codes) ==
  LET n == AffectedBy(row, codes) IN
    IF n = 0 THEN Closed(s)
    ELSE IF s.event # Absent /\ s.event.end = row.hour - 1
    THEN [s EXCEPT !.event = Prolonged(@, row, n)]
    ELSE [Closed(s) EXCEPT !.event = Started(row, n)]

\* _event_catalogues for one definition.
Catalogue(codes) ==
  LET after[i \in 0..Len(rows)] ==
        IF i = 0 THEN [event |-> Absent, events |-> <<>>]
        ELSE CatalogueStep(after[i - 1], rows[i], codes)
  IN  Closed(after[Len(rows)]).events

-----------------------------------------------------------------------------
RegionalInit ==
  /\ Init
  /\ compact = [p \in DOMAIN plan |-> "whole"]
  /\ range = {}
  /\ shards = [p \in DOMAIN plan |-> Absent]
  /\ receipts = [p \in DOMAIN plan |-> Absent]
  /\ task = Absent
  /\ reducing = "idle" /\ rows = <<>>
  /\ catalogues = [d \in Catalogues |-> Absent]
  /\ sealed = Absent
  /\ damages = 0 /\ failures = 0

\* The cheap status of the canonical campaign must be complete.
PlanRegion ==
  /\ range = {} /\ phase \in Ended /\ StatusComplete
  /\ \E first \in DOMAIN plan : \E last \in first..Len(plan) : range' = first..last
  /\ UNCHANGED <<canonical, compact, shards, receipts, task, reducing, rows, catalogues, sealed, damages, failures>>

\* Every byte and every decoded value is compared with the receipt.
MatchesSealUnchecked(p) == p \in range

MatchesSeal(p) == compact[p] = "whole"

\* Output and archive are compared with the month's own receipt.
RegionalReceiptComplete(p) == receipts[p] \in {"whole", "damaged"} /\ compact[p] = receipts[p] /\ shards[p] # Absent

\* A complete receipt is returned as it is; otherwise the archive is read.
StartTask(p) ==
  /\ p \in range /\ task = Absent /\ reducing \in {"idle", "killed", "raised", "complete"}
  /\ ~RegionalReceiptComplete(p)
  /\ IF MatchesSeal(p)
     THEN /\ task' = [month |-> p, at |-> "shard", read |-> compact[p], rows |-> RowsOf(p)]
          /\ UNCHANGED <<receipts, failures>>
     ELSE /\ failures < MaxTasks /\ failures' = failures + 1
          /\ receipts' = [receipts EXCEPT ![p] = "critical"]
          /\ UNCHANGED task
  /\ UNCHANGED <<canonical, compact, range, shards, reducing, rows, catalogues, sealed, damages>>

PublishShard ==
  /\ task # Absent /\ task.at = "shard"
  /\ shards' = [shards EXCEPT ![task.month] = task.rows]
  /\ task' = [task EXCEPT !.at = "receipt"]
  /\ UNCHANGED <<canonical, compact, range, receipts, reducing, rows, catalogues, sealed, damages, failures>>

PublishReceipt ==
  /\ task # Absent /\ task.at = "receipt"
  /\ receipts' = [receipts EXCEPT ![task.month] = task.read]
  /\ task' = Absent
  /\ UNCHANGED <<canonical, compact, range, shards, reducing, rows, catalogues, sealed, damages, failures>>

KillTask ==
  /\ task # Absent /\ failures < MaxTasks
  /\ task' = Absent /\ failures' = failures + 1
  /\ UNCHANGED <<canonical, compact, range, shards, receipts, reducing, rows, catalogues, sealed, damages>>

\* regional_status without verification: a month is complete while sizes agree.
RegionalTasksComplete == range # {} /\ \A p \in range : receipts[p] \in {"whole", "damaged"}

RegionalEnded == {"idle", "killed", "raised", "complete"}

\* The months are read and put together in order.
MergedRows ==
  LET after[p \in 0..Len(plan)] ==
        IF p = 0 THEN <<>> ELSE IF p \in range THEN after[p - 1] \o shards[p] ELSE after[p - 1]
  IN  after[Len(plan)]

\* The hourly product has the same rows.
MergeShards ==
  /\ reducing \in RegionalEnded /\ sealed = Absent /\ task = Absent
  /\ RegionalTasksComplete
  /\ rows' = MergedRows
  /\ reducing' = "high_impact"
  /\ UNCHANGED <<canonical, compact, range, shards, receipts, task, catalogues, sealed, damages, failures>>

After(d) ==
  CASE d = "high_impact" -> "freezing_drizzle"
    [] d = "freezing_drizzle" -> "icy_liquid"
    [] d = "icy_liquid" -> "report"

PublishCatalogue ==
  /\ reducing \in Catalogues
  /\ catalogues' = [catalogues EXCEPT ![reducing] = Catalogue(EventDefinitions[reducing])]
  /\ reducing' = After(reducing)
  /\ UNCHANGED <<canonical, compact, range, shards, receipts, task, rows, sealed, damages, failures>>

RegionalGaps == Cardinality({i \in 2..Len(rows) : rows[i].hour # rows[i - 1].hour + 1})

Counted == FoldFunction(LAMBDA row, n : AffectedBy(row, Codes) + n, 0, rows)

\* Hours without a gap, and as many values as there are cells and hours; the
\* third count, of receipts without canonical_receipt_match, is 0, because a
\* task that finds no match writes a critical receipt.
JudgeRegion ==
  /\ reducing = "report"
  /\ IF RegionalGaps = 0 /\ Counted = Len(rows) * Cardinality(Region)
     THEN reducing' = "complete" /\ sealed' = catalogues
     ELSE reducing' = "raised" /\ UNCHANGED sealed
  /\ rows' = <<>>
  /\ UNCHANGED <<canonical, compact, range, shards, receipts, task, catalogues, damages, failures>>

KillRegionalReduction ==
  /\ reducing \notin RegionalEnded /\ failures < MaxTasks
  /\ reducing' = "killed" /\ rows' = <<>> /\ failures' = failures + 1
  /\ UNCHANGED <<canonical, compact, range, shards, receipts, task, catalogues, sealed, damages>>

\* The files are damaged, or brought back.
Damage(p) ==
  /\ p \in range /\ damages < MaxDamages
  /\ compact' = [compact EXCEPT ![p] = IF @ = "whole" THEN "damaged" ELSE "whole"]
  /\ damages' = damages + 1
  /\ UNCHANGED <<canonical, range, shards, receipts, task, reducing, rows, catalogues, sealed, failures>>

\* The canonical campaign is left alone once a region is planned.
RegionalNext ==
  \/ range = {} /\ Next /\ UNCHANGED regional
  \/ PlanRegion
  \/ \E p \in DOMAIN plan : StartTask(p) \/ Damage(p)
  \/ PublishShard \/ PublishReceipt \/ KillTask
  \/ MergeShards \/ PublishCatalogue \/ JudgeRegion \/ KillRegionalReduction

RegionalSpec == RegionalInit /\ [][RegionalNext]_<<canonical, regional>>
-----------------------------------------------------------------------------
(* Properties.                                                             *)

HoursOf(months) == UNION {PlannedHours(plan[p]) : p \in months}
RegionalCount(h, codes) == Cardinality({c \in Region : weather[h][c] \in codes})

(* Whatever was damaged, failed or killed on the way, a published          *)
(* catalogue holds the maximal runs of hours of the selected months with   *)
(* an affected cell of the region, each with its extent and its earliest   *)
(* peak.                                                                   *)
RegionalEventsAreMaximalRuns ==
  \A d \in Catalogues : catalogues[d] # Absent =>
    LET events == catalogues[d]
        count(h) == RegionalCount(h, EventDefinitions[d])
        hit(h) == h \in HoursOf(range) /\ count(h) > 0
    IN  /\ \A h \in HoursOf(range) : hit(h) => \E i \in DOMAIN events : h \in events[i].start..events[i].end
        /\ \A i \in DOMAIN events :
             LET e == events[i]
                 hours == e.start..e.end
             IN  /\ Maximal(e.start, e.end, hit)
                 /\ i > 1 => events[i - 1].end < e.start
                 /\ e.peak \in hours /\ count(e.peak) = e.largest
                 /\ \A h \in hours : count(h) <= e.largest /\ (h < e.peak => count(h) < e.largest)
                 /\ e.duration = Cardinality(hours)
                 /\ e.cellHours = Cardinality({p \in hours \X Region : weather[p[1]][p[2]] \in EventDefinitions[d]})
                 /\ \E h \in hours : RegionalCount(h, Codes \ {Dry}) = e.wettest
                 /\ \A h \in hours : RegionalCount(h, Codes \ {Dry}) <= e.wettest

Within(e, f) == f.start <= e.start /\ e.end <= f.end /\ e.largest <= f.largest

(* The regional catalogues and those of the whole domain, published by two *)
(* campaigns from two formats of the archive, agree: a regional event lies *)
(* within one of the domain, and combined icy liquid covers its parts.     *)
RegionalEventsAreWithinDomain ==
  sealed # Absent =>
    /\ \A i \in DOMAIN sealed["high_impact"] :
         \E j \in DOMAIN product["events"].content :
           Within(sealed["high_impact"][i], product["events"].content[j])
    /\ \A d \in Catalogues : \A i \in DOMAIN sealed[d] :
         \E j \in DOMAIN sealed["icy_liquid"] : Within(sealed[d][i], sealed["icy_liquid"][j])

-----------------------------------------------------------------------------
(* The inductive strengthening.                                            *)

\* What an undamaged archive says of a month.
TrueRows(p) ==
  LET hours == ExpectedHours(plan[p]) IN [i \in DOMAIN hours |-> Row(hours[i], weather[hours[i]])]

\* The rows of the hours D, in order.
RowsFound(r, D) ==
  /\ r \in Seq({Row(h, weather[h]) : h \in D})
  /\ \A h \in D : \E i \in DOMAIN r : r[i].hour = h
  /\ \A i, j \in DOMAIN r : i < j => r[i].hour < r[j].hour

RegionalHits(codes) == {h \in HoursOf(range) : RegionalCount(h, codes) > 0}

RegionalExtent(e, codes) ==
  LET hours == e.start..e.end
      count(h) == RegionalCount(h, codes)
  IN  /\ e.peak \in hours /\ count(e.peak) = e.largest
      /\ \A h \in hours : count(h) <= e.largest /\ (h < e.peak => count(h) < e.largest)
      /\ e.duration = Cardinality(hours)
      /\ e.cellHours = Cardinality({p \in hours \X Region : weather[p[1]][p[2]] \in codes})
      /\ \E h \in hours : RegionalCount(h, Codes \ {Dry}) = e.wettest
      /\ \A h \in hours : RegionalCount(h, Codes \ {Dry}) <= e.wettest

RegionalComplete(events, codes) ==
  /\ AllCut(events, RegionalHits(codes))
  /\ \A i \in DOMAIN events : events[i] \in RegionalEvents /\ RegionalExtent(events[i], codes)

TaskInv ==
  /\ task # Absent =>
       /\ task = [month |-> task.month, at |-> task.at, read |-> task.read, rows |-> task.rows]
       /\ task.month \in DOMAIN plan /\ task.rows = TrueRows(task.month)
       /\ task.at = "receipt" => shards[task.month] = TrueRows(task.month)
  /\ \A p \in DOMAIN plan : receipts[p] \in {"whole", "damaged"} => shards[p] = TrueRows(p)

\* The catalogues the reduction has been through.
Finished ==
  [high_impact |-> {}, freezing_drizzle |-> {"high_impact"},
   icy_liquid |-> {"high_impact", "freezing_drizzle"}, report |-> Catalogues]

CatalogueInv ==
  /\ reducing \notin RegionalEnded => reducing \in DOMAIN Finished /\ RowsFound(rows, HoursOf(range))
  /\ \A d \in Catalogues :
       catalogues[d] # Absent \/ (reducing \in DOMAIN Finished /\ d \in Finished[reducing]) =>
         RegionalComplete(catalogues[d], EventDefinitions[d])
  /\ sealed # Absent => \A d \in Catalogues : RegionalComplete(sealed[d], EventDefinitions[d])

RegionInv ==
  /\ range \subseteq DOMAIN plan
  /\ range # {} => TasksComplete /\ reduction.ok
  /\ range = {} => /\ task = Absent /\ reducing = "idle" /\ sealed = Absent
                   /\ \A p \in DOMAIN plan : receipts[p] = Absent
                   /\ \A d \in Catalogues : catalogues[d] = Absent
  /\ DOMAIN shards = DOMAIN plan /\ DOMAIN receipts = DOMAIN plan /\ DOMAIN catalogues = Catalogues

RegionalInv == RegionInv /\ TaskInv /\ CatalogueInv
=============================================================================
