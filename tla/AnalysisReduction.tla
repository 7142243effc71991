--------------------------- MODULE AnalysisReduction ---------------------------
(***************************************************************************)
(* From the monthly outputs of an analysis campaign to its final products  *)
(* (reduce_analysis and analysis_status in analysis.py).  An archive month *)
(* is named after its cycles, and the last step of a cycle is valid at     *)
(* midnight of the next day: statistics and hours are kept by valid time   *)
(* and have to be put together again across archive months, years and      *)
(* missing days.  The products are replaced one by one and REDUCTION.json  *)
(* comes last; a call may be killed anywhere and made again.               *)
(*                                                                         *)
(* Time is counted in hours since the first cycle; only one reduction of a *)
(* campaign runs at a time.  How a monthly task publishes its outputs is   *)
(* CompactArchive's subject: here it succeeds in one step.                 *)
(***************************************************************************)
EXTENDS Integers, Sequences, FiniteSets, Functions

CONSTANTS
  Cells,
  Codes,          \* CATEGORY_CODES
  Dry,            \* code 0
  HighImpact,     \* HIGH_IMPACT_CODES
  StepsPerCycle,  \* 24
  MonthOf,        \* the month of each day; month 0 is a January
  Plans,          \* manifests: the cycle days of each archive month, in order
  Weathers,       \* the code of every cell at every hour
  CountLimit,     \* 2^16
  MaxRuns,        \* bound on the calls of reduce_analysis
  Absent

Days == DOMAIN MonthOf
Hours == 1..(StepsPerCycle * (Cardinality(Days) - 1))

\* A row of the event catalogue.
Events == [start : Int, end : Int, duration : Int, largest : Int, cellHours : Int, most : [HighImpact -> Int]]

\* What a monthly task hands to the reduction of one valid month.
Counts == [Cells -> [Codes -> Nat]]
Parts == [month : Nat, hours : Nat, counts : Counts]

\* The days of a manifest are sorted, and so are its months (_monthly_periods
\* in backfill.py).
InOrder(days) ==
  \A p, q \in DOMAIN days : \A i \in DOMAIN days[p], j \in DOMAIN days[q] :
    p < q \/ (p = q /\ i < j) => days[p][i] < days[q][j]

ASSUME ReductionAssumption ==
  /\ StepsPerCycle \in Nat \ {0} /\ CountLimit \in Nat \ {0} /\ MaxRuns \in Nat
  /\ IsFiniteSet(Cells) /\ IsFiniteSet(Codes)
  /\ Dry \in Codes \ HighImpact /\ HighImpact \subseteq Codes
  /\ MonthOf \in Seq(Nat)
  /\ \A w \in Weathers : w \in [Hours -> [Cells -> Codes]]
  /\ \A days \in Plans : days \in Seq(Seq(Days)) /\ InOrder(days)
  /\ Absent \notin Int /\ Absent \notin Events /\ Absent \notin Parts

\* Months follow each other.  A manifest has a day, and the calendar goes one
\* day beyond it; a year has fewer hours (8784) than 16 bits hold.
ASSUME CalendarAssumption ==
  /\ \A d, e \in Days : d <= e => MonthOf[d] <= MonthOf[e]
  /\ \A days \in Plans :
       /\ \E p \in DOMAIN days : days[p] # <<>>
       /\ \A p \in DOMAIN days : \A i \in DOMAIN days[p] : days[p][i] + 1 \in Days
  /\ \A d \in Days :
       StepsPerCycle * Cardinality({e \in Days : MonthOf[e] \div 12 = MonthOf[d] \div 12}) < CountLimit

VARIABLES
  plan,       \* "periods" of the manifest
  weather,    \* the source archive
  monthly,    \* statistics and hours of each archive month, behind a complete receipt
  phase,      \* where the reduction is
  next,       \* the next archive month of its loops
  merged,     \* the valid month being put together, and the tally of those before it
  scan,       \* gap count and events of the loop over the hours
  product,    \* the final products on disk, each with the call that made it
  reduction,  \* the evidence in REDUCTION.json
  runs

vars == <<plan, weather, monthly, phase, next, merged, scan, product, reduction, runs>>

Products == {"frequency", "hourly", "events", "map", "report"}
Ended == {"idle", "killed", "raised", "complete"}

-----------------------------------------------------------------------------
(* What a monthly task leaves for the reduction.                           *)

Day(h) == h \div StepsPerCycle + 1

ValidMonth(h) == MonthOf[Day(h)]

ValidTime(day, step) == (day - 1) * StepsPerCycle + step

\* _expected_messages: every step of every cycle, in order.
ExpectedHours(days) ==
  [i \in 1..(StepsPerCycle * Len(days)) |->
     ValidTime(days[(i - 1) \div StepsPerCycle + 1], ((i - 1) % StepsPerCycle) + 1)]

PlannedHours(days) == {ExpectedHours(days)[i] : i \in 1..(StepsPerCycle * Len(days))}

NoCounts == [c \in Cells |-> [k \in Codes |-> 0]]
Plus(a, b) == [c \in Cells |-> [k \in Codes |-> (a[c][k] + b[c][k]) % CountLimit]]
CountsOf(hours) ==
  [c \in Cells |-> [k \in Codes |-> Cardinality({h \in hours : weather[h][c] = k}) % CountLimit]]

\* _monthly_contributions of archive month p: one per valid month, in order.
Contributions(p) ==
  LET hours == PlannedHours(plan[p])
      of(m) == {h \in hours : ValidMonth(h) = m}
      months == {ValidMonth(h) : h \in hours}
      nth(i) == CHOOSE m \in months : Cardinality({n \in months : n < m}) = i - 1
  IN  [i \in 1..Cardinality(months) |->
         [month |-> nth(i), hours |-> Cardinality(of(nth(i))), counts |-> CountsOf(of(nth(i)))]]

Affected(h) == Cardinality({c \in Cells : weather[h][c] \in HighImpact})
CellsWith(h, k) == Cardinality({c \in Cells : weather[h][c] = k})

-----------------------------------------------------------------------------
(* Accumulators.                                                           *)

MonthOfYear(m) == m % 12
Year(m) == m \div 12
Season(m) == ((m + 1) % 12) \div 3
Planned == UNION {PlannedHours(plan[p]) : p \in DOMAIN plan}

NoTally ==
  LET months == {ValidMonth(h) : h \in Planned}
      none(S) == [i \in S |-> NoCounts]
      zero(S) == [i \in S |-> 0]
  IN  [year |-> Absent, current |-> NoCounts, full |-> NoCounts,
       annual |-> none({Year(m) : m \in months}), annualHours |-> zero({Year(m) : m \in months}),
       month |-> none({MonthOfYear(m) : m \in months}), monthHours |-> zero({MonthOfYear(m) : m \in months}),
       season |-> none({Season(m) : m \in months}), seasonHours |-> zero({Season(m) : m \in months})]

\* REDUCTION.json: its verdict and its evidence of the products.
NoReduction == [ok |-> FALSE, products |-> [f \in Products |-> Absent]]

NoScan == [prior |-> Absent, gaps |-> 0, event |-> Absent, events |-> <<>>]

\* The counts of a year are written when the next year begins, or at the end.
YearWritten(t) == [t EXCEPT !.annual[t.year] = t.current, !.current = NoCounts]

\* finalize_valid_month; the full period is counted in 32 bits.
Finalize(t, c) ==
  LET m == c.month
      turned == IF t.year \notin {Absent, Year(m)} THEN YearWritten(t) ELSE t
  IN  [turned EXCEPT
         !.year = Year(m),
         !.current = Plus(@, c.counts),
         !.annualHours[Year(m)] = (@ + c.hours) % CountLimit,
         !.month[MonthOfYear(m)] = Plus(@, c.counts),
         !.monthHours[MonthOfYear(m)] = @ + c.hours,
         !.season[Season(m)] = Plus(@, c.counts),
         !.seasonHours[Season(m)] = @ + c.hours,
         !.full = [cell \in Cells |-> [k \in Codes |-> @[cell][k] + c.counts[cell][k]]]]

\* Without the last valid month, or the last year.
FlushForgotten(t, last) == YearWritten(t)

Flush(t, last) == YearWritten(Finalize(t, last))

\* Adjacent contributions to one valid month are added, any other closes it.
MergeOne(a, c) ==
  IF a.pending # Absent /\ a.pending.month = c.month
  THEN [a EXCEPT !.pending.hours = @ + c.hours, !.pending.counts = Plus(@, c.counts)]
  ELSE [pending |-> c, tally |-> IF a.pending = Absent THEN a.tally ELSE Finalize(a.tally, a.pending)]

\* The loop over the contributions of one archive month.
Merged(a, parts) ==
  LET after[i \in 0..Len(parts)] == IF i = 0 THEN a ELSE MergeOne(after[i - 1], parts[i])
  IN  after[Len(parts)]

\* _finalize_event and the first and the following hours of an event.
Closed(s) == [s EXCEPT !.events = IF s.event = Absent THEN @ ELSE Append(@, s.event), !.event = Absent]
NewEvent(h) ==
  [start |-> h, end |-> h, duration |-> 1, largest |-> Affected(h), cellHours |-> Affected(h),
   most |-> [k \in HighImpact |-> CellsWith(h, k)]]
Larger(a, b) == IF a < b THEN b ELSE a
Longer(e, h) ==
  [e EXCEPT !.end = h, !.duration = @ + 1,
            !.largest = Larger(@, Affected(h)), !.cellHours = @ + Affected(h),
            !.most = [k \in HighImpact |-> Larger(@[k], CellsWith(h, k))]]

\* Every affected hour prolongs the event, whatever lies between.
EventAfterUnbroken(s, h) ==
  IF Affected(h) = 0 THEN Closed(s)
  ELSE IF s.event # Absent THEN [s EXCEPT !.event = Longer(@, h)]
  ELSE [Closed(s) EXCEPT !.event = NewEvent(h)]

EventAfter(s, h) ==
  IF Affected(h) = 0 THEN Closed(s)
  ELSE IF s.event # Absent /\ s.event.end = h - 1 THEN [s EXCEPT !.event = Longer(@, h)]
  ELSE [Closed(s) EXCEPT !.event = NewEvent(h)]

ScanHour(s, h) ==
  [EventAfter(s, h) EXCEPT !.prior = h,
                           !.gaps = IF s.prior \in {Absent, h - 1} THEN @ ELSE @ + 1]

\* The loop over the rows of one month.
Scanned(s, hours) ==
  LET after[i \in 0..Len(hours)] == IF i = 0 THEN s ELSE ScanHour(after[i - 1], hours[i])
  IN  after[Len(hours)]

-----------------------------------------------------------------------------
Init ==
  /\ plan \in Plans /\ weather \in Weathers
  /\ monthly = [p \in DOMAIN plan |-> Absent]
  /\ phase = "idle" /\ next = 0
  /\ merged = Absent /\ scan = Absent
  /\ product = [f \in Products |-> Absent]
  /\ reduction = NoReduction /\ runs = 0

data == <<plan, weather, monthly>>
memory == <<next, merged, scan>>

\* What the call had in memory is gone.
Leave(how) == phase' = how /\ next' = 0 /\ merged' = Absent /\ scan' = Absent

\* run_analysis_task of one archive month.
AnalyseMonth(p) ==
  /\ monthly[p] = Absent
  /\ monthly' = [monthly EXCEPT ![p] = [contributions |-> Contributions(p),
                                        hours |-> ExpectedHours(plan[p])]]
  /\ UNCHANGED <<plan, weather, phase, next, merged, scan, product, reduction, runs>>

TasksComplete == \A p \in DOMAIN plan : monthly[p] # Absent

Begin ==
  /\ phase \in Ended /\ runs < MaxRuns
  /\ TasksComplete
  /\ phase' = "merge" /\ next' = 1 /\ runs' = runs + 1
  /\ merged' = [pending |-> Absent, tally |-> NoTally] /\ scan' = NoScan
  /\ UNCHANGED <<data, product, reduction>>

Merge ==
  /\ phase = "merge" /\ next <= Len(plan)
  /\ merged' = Merged(merged, monthly[next].contributions)
  /\ next' = next + 1
  /\ UNCHANGED <<data, phase, scan, product, reduction, runs>>

Publish(f, content) == product' = [product EXCEPT ![f] = [by |-> runs, content |-> content]]

FullHours(t) == SumFunction(t.annualHours)

PublishFrequency ==
  /\ phase = "merge" /\ next > Len(plan)
  /\ merged' = [pending |-> Absent, tally |-> Flush(merged.tally, merged.pending)]
  /\ Publish("frequency", [tally |-> merged'.tally, fullHours |-> FullHours(merged'.tally)])
  /\ phase' = "scan" /\ next' = 1
  /\ UNCHANGED <<data, scan, reduction, runs>>

Scan ==
  /\ phase = "scan" /\ next <= Len(plan)
  /\ scan' = Scanned(scan, monthly[next].hours)
  /\ next' = next + 1
  /\ UNCHANGED <<data, phase, merged, product, reduction, runs>>

\* The last event is still open.
PublishHourly ==
  /\ phase = "scan" /\ next > Len(plan)
  /\ scan' = Closed(scan)
  /\ Publish("hourly", [p \in DOMAIN plan |-> monthly[p].hours])
  /\ phase' = "events"
  /\ UNCHANGED <<data, next, merged, reduction, runs>>

PublishEvents ==
  /\ phase = "events"
  /\ Publish("events", scan.events)
  /\ phase' = "map"
  /\ UNCHANGED <<data, next, merged, scan, reduction, runs>>

\* Hours with a high-impact code, and with any precipitation.
PublishMap ==
  /\ phase = "map"
  /\ Publish("map",
       [c \in Cells |->
          [combined |-> SumFunctionOnSet(merged.tally.full[c], HighImpact),
           precip |-> FullHours(merged.tally) - merged.tally.full[c][Dry]]])
  /\ phase' = "report"
  /\ UNCHANGED <<data, next, merged, scan, reduction, runs>>

\* The verdict comes when all products are already replaced.  The report is
\* two files, JSON and markdown, written one after the other.
PublishReport ==
  /\ phase = "report"
  /\ Publish("report", IF scan.gaps = 0 THEN "pass" ELSE "critical")
  /\ IF scan.gaps = 0 THEN phase' = "seal" /\ UNCHANGED memory ELSE Leave("raised")
  /\ UNCHANGED <<data, reduction, runs>>

\* REDUCTION.json: size and hash of the products as they are now.
Seal ==
  /\ phase = "seal"
  /\ reduction' = [ok |-> TRUE, products |-> product]
  /\ Leave("complete")
  /\ UNCHANGED <<data, product, runs>>

\* Whatever ends a call between two products: a kill, a write that fails, a
\* source receipt that _source_data_quality cannot read.
Kill ==
  /\ phase \notin Ended
  /\ Leave("killed")
  /\ UNCHANGED <<data, product, reduction, runs>>

Reduce == Merge \/ PublishFrequency \/ Scan \/ PublishHourly \/ PublishEvents
            \/ PublishMap \/ PublishReport \/ Seal

Next == (\E p \in DOMAIN plan : AnalyseMonth(p)) \/ Begin \/ Reduce \/ Kill

-----------------------------------------------------------------------------
(* analysis_status: complete, as the cheap check and the verifying one say. *)

StatusComplete == TasksComplete /\ reduction.ok

\* Sizes alone tell nothing here.
VerifiedByPresence == StatusComplete /\ \A f \in Products : product[f] # Absent

\* The code compares size and hash, so it also accepts a product of another
\* call that has the same bytes.
Verified == StatusComplete /\ \A f \in Products : product[f] = reduction.products[f]

-----------------------------------------------------------------------------
(* Properties.                                                             *)

Contiguous == \A h \in Planned : h + 1 \in Planned \/ \A g \in Planned : g <= h

\* The hours of a month: from its first midnight to the one before the next.
HoursOfMonth(m) ==
  {h \in Planned : \E d \in Days : MonthOf[d] = m /\ (d - 1) * StepsPerCycle <= h /\ h < d * StepsPerCycle}
MonthsOfPlan == {MonthOf[d] : d \in Days}
Tallied(counts, hours) ==
  \A c \in Cells : \A k \in Codes : counts[c][k] = Cardinality({h \in hours : weather[h][c] = k})

(* Months, seasons and years are counted exactly, however their hours are  *)
(* spread over archive months, as long as 16 bits hold them; the full      *)
(* period and the maps always are.                                         *)
FrequenciesMatchHours ==
  /\ product["frequency"] # Absent =>
       LET t == product["frequency"].content.tally
           exact(counts, hours, of(_)) ==
             \A i \in DOMAIN counts :
               LET mine == UNION {HoursOfMonth(m) : m \in {n \in MonthsOfPlan : of(n) = i}}
               IN  /\ hours[i] = Cardinality(mine)
                   /\ Cardinality(mine) < CountLimit => Tallied(counts[i], mine)
       IN  /\ exact(t.month, t.monthHours, MonthOfYear)
           /\ exact(t.season, t.seasonHours, Season)
           /\ exact(t.annual, t.annualHours, Year)
           /\ Tallied(t.full, Planned) /\ product["frequency"].content.fullHours = Cardinality(Planned)
  /\ product["map"] # Absent =>
       \A c \in Cells : product["map"].content[c] =
         [combined |-> Cardinality({h \in Planned : weather[h][c] \in HighImpact}),
          precip |-> Cardinality({h \in Planned : weather[h][c] # Dry})]

Maximal(start, end, hit(_)) ==
  /\ \A h \in start..end : h \in Planned /\ hit(h)
  /\ ~(start - 1 \in Planned /\ hit(start - 1))
  /\ ~(end + 1 \in Planned /\ hit(end + 1))

(* The events are the maximal runs of consecutive affected hours, in       *)
(* order, cut at missing hours and nowhere else, with their extent.        *)
EventsAreMaximalRuns ==
  product["events"] # Absent =>
    LET events == product["events"].content
        hit(h) == Affected(h) > 0
    IN  /\ \A h \in Planned : hit(h) => \E i \in DOMAIN events : h \in events[i].start..events[i].end
        /\ \A i \in DOMAIN events :
             LET e == events[i]
                 hours == e.start..e.end
             IN  /\ Maximal(e.start, e.end, hit)
                 /\ i > 1 => events[i - 1].end < e.start
                 /\ e.duration = Cardinality(hours)
                 /\ \E h \in hours : Affected(h) = e.largest
                 /\ \A h \in hours : Affected(h) <= e.largest
                 /\ e.cellHours = Cardinality({p \in hours \X Cells : weather[p[1]][p[2]] \in HighImpact})

(* What verification accepts are the products of one reduction that found  *)
(* every hour in place: neither a later call that was killed or ended      *)
(* critical, nor one that is under way, goes unnoticed.                    *)
AcceptedIsOneReduction ==
  /\ Verified => /\ \A f \in Products : product[f].by = product["report"].by
                 /\ product["report"].content = "pass" /\ Contiguous
  /\ phase = "complete" => Verified
  /\ phase = "raised" => ~Contiguous

-----------------------------------------------------------------------------
(* The inductive strengthening: what the loop over the hours has found     *)
(* when it has been through the hours D.                                   *)

Scans == [prior : Int \union {Absent}, gaps : Nat, event : Events \union {Absent}, events : Seq(Events)]

\* Every hour but the last one is followed by another exactly when no gap was
\* counted.
GapsFound(s, D) ==
  /\ IF D = {} THEN s.prior = Absent ELSE s.prior \in D /\ \A h \in D : h <= s.prior
  /\ s.gaps = 0 <=> \A h \in D : h + 1 \in D \/ h = s.prior

\* A run of affected hours, of which A are those gone through.
RunOf(e, A) ==
  /\ e.start <= e.end
  /\ e.start..e.end \subseteq A
  /\ e.start - 1 \notin A

Ordered(events) == \A i \in DOMAIN events : i > 1 => events[i - 1].end < events[i].start
Covered(h, events) == \E i \in DOMAIN events : h \in events[i].start..events[i].end

\* What the loop has cut out of the hours D, of which A are affected: closed
\* events, and the open one, which has the last hour.
Cut(s, D, A) ==
  /\ s.event # Absent =>
       /\ RunOf(s.event, A)
       /\ \A h \in D : h <= s.event.end
       /\ \A i \in DOMAIN s.events : s.events[i].end < s.event.start
  /\ \A i \in DOMAIN s.events :
       LET e == s.events[i] IN RunOf(e, A) /\ e.end + 1 \notin A /\ \E h \in D : e.end < h
  /\ Ordered(s.events)
  /\ \A h \in A : Covered(h, s.events) \/ (s.event # Absent /\ h \in s.event.start..s.event.end)

\* Closed for good, when all hours have been gone through.
AllCut(events, A) ==
  /\ Ordered(events)
  /\ \A h \in A : Covered(h, events)
  /\ \A i \in DOMAIN events : RunOf(events[i], A) /\ events[i].end + 1 \notin A

Extent(e) ==
  LET hours == e.start..e.end IN
    /\ e.duration = Cardinality(hours)
    /\ \E h \in hours : Affected(h) = e.largest
    /\ \A h \in hours : Affected(h) <= e.largest
    /\ e.cellHours = Cardinality({p \in hours \X Cells : weather[p[1]][p[2]] \in HighImpact})

Hits(D) == {h \in D : Affected(h) > 0}

EventsFound(s, D) ==
  /\ Cut(s, D, Hits(D))
  /\ s.event # Absent => Extent(s.event)
  /\ \A i \in DOMAIN s.events : Extent(s.events[i])

EventsComplete(events) ==
  /\ AllCut(events, Hits(Planned))
  /\ \A i \in DOMAIN events : events[i] \in Events /\ Extent(events[i])

HoursBefore(n) == UNION {PlannedHours(plan[p]) : p \in 1..(n - 1)}

ScanInv ==
  /\ DOMAIN monthly = DOMAIN plan
  /\ \A p \in DOMAIN plan : monthly[p] # Absent => monthly[p].hours = ExpectedHours(plan[p])
  /\ phase = "merge" => next \in Nat \ {0} /\ scan = NoScan
  /\ phase = "scan" =>
       /\ next \in 1..(Len(plan) + 1) /\ scan \in Scans
       /\ GapsFound(scan, HoursBefore(next)) /\ EventsFound(scan, HoursBefore(next))
  /\ phase \in {"events", "map", "report", "seal"} =>
       /\ scan.gaps = 0 <=> Contiguous
       /\ EventsComplete(scan.events)

\* The products of one call, in the order in which it publishes them.
Stage == [merge |-> 0, scan |-> 1, events |-> 2, map |-> 3, report |-> 4, seal |-> 5]
Published == [frequency |-> 1, hourly |-> 2, events |-> 3, map |-> 4, report |-> 5]

CallInv ==
  /\ DOMAIN product = Products
  /\ phase \notin Ended => TasksComplete /\ phase \in DOMAIN Stage
  /\ phase \in DOMAIN Stage => \A f \in Products : Published[f] <= Stage[phase] => product[f].by = runs
  /\ phase = "seal" => product["report"].content = "pass" /\ Contiguous
  /\ reduction.ok =>
       /\ \A f \in Products : reduction.products[f].by = reduction.products["report"].by
       /\ reduction.products["report"].content = "pass" /\ Contiguous
  /\ phase = "complete" => TasksComplete /\ reduction = [ok |-> TRUE, products |-> product]
  /\ phase = "raised" => ~Contiguous

ReductionInv ==
  /\ plan \in Plans /\ ScanInv /\ CallInv
  /\ product["events"] # Absent \/ reduction.ok \/ phase \in {"map", "report", "seal"} =>
       EventsComplete(product["events"].content)

-----------------------------------------------------------------------------
(* The strengthening for the tallies: what each counter has counted when   *)
(* the merge has been through the hours D.                                 *)

\* Where an hour is counted.
ByMonth == [h \in Planned |-> MonthOfYear(ValidMonth(h))]
BySeason == [h \in Planned |-> Season(ValidMonth(h))]
ByYear == [h \in Planned |-> Year(ValidMonth(h))]
Class(key, i, D) == {h \in D : key[h] = i}
Keys(key) == {key[h] : h \in Planned}

Tallies ==
  [year : Int \union {Absent}, current : Counts, full : Counts,
   annual : [Keys(ByYear) -> Counts], annualHours : [Keys(ByYear) -> Nat],
   month : [Keys(ByMonth) -> Counts], monthHours : [Keys(ByMonth) -> Nat],
   season : [Keys(BySeason) -> Counts], seasonHours : [Keys(BySeason) -> Nat]]

Accumulated(counts, hours, key, D) ==
  \A i \in Keys(key) : /\ counts[i] = CountsOf(Class(key, i, D))
                       /\ hours[i] = Cardinality(Class(key, i, D))

\* The years before the current one are written.
YearsFound(t, D) ==
  /\ \A y \in Keys(ByYear) : t.annualHours[y] = Cardinality(Class(ByYear, y, D)) % CountLimit
  /\ \A y \in Keys(ByYear) \ {t.year} : t.annual[y] = CountsOf(Class(ByYear, y, D))
  /\ IF t.year = Absent THEN D = {} /\ t.current = NoCounts
     ELSE /\ t.current = CountsOf(Class(ByYear, t.year, D))
          /\ \E h \in D : ByYear[h] = t.year
          /\ \A h \in D : ByYear[h] <= t.year

TallyFound(t, D) ==
  /\ t \in Tallies
  /\ Accumulated(t.month, t.monthHours, ByMonth, D)
  /\ Accumulated(t.season, t.seasonHours, BySeason, D)
  /\ YearsFound(t, D)
  /\ Tallied(t.full, D)

\* The latest valid month is pending.
PartOf(m, E) == [month |-> m, hours |-> Cardinality(E), counts |-> CountsOf(E)]
OfMonth(m, D) == {h \in D : ValidMonth(h) = m}
MergeFound(a, D) ==
  /\ a = [pending |-> a.pending, tally |-> a.tally]
  /\ IF a.pending = Absent THEN D = {} /\ TallyFound(a.tally, {})
     ELSE \E m \in Nat :
            /\ OfMonth(m, D) # {} /\ a.pending = PartOf(m, OfMonth(m, D))
            /\ \A h \in D : ValidMonth(h) <= m
            /\ TallyFound(a.tally, D \ OfMonth(m, D))

\* All hours, in the end.
AllTallied(t) ==
  /\ t \in Tallies
  /\ Accumulated(t.month, t.monthHours, ByMonth, Planned)
  /\ Accumulated(t.season, t.seasonHours, BySeason, Planned)
  /\ Accumulated(t.annual, t.annualHours, ByYear, Planned)
  /\ Tallied(t.full, Planned)

FrequencyFound(f) == AllTallied(f.tally) /\ f.fullHours = Cardinality(Planned)

MapFound(map) ==
  \A c \in Cells :
    map[c] = [combined |-> Cardinality({h \in Planned : weather[h][c] \in HighImpact}),
              precip |-> Cardinality({h \in Planned : weather[h][c] # Dry})]

CountInv ==
  /\ \A p \in DOMAIN plan : monthly[p] # Absent => monthly[p].contributions = Contributions(p)
  /\ phase = "merge" => next \in 1..(Len(plan) + 1) /\ MergeFound(merged, HoursBefore(next))
  /\ phase \in {"scan", "events", "map"} => AllTallied(merged.tally)
  /\ product["frequency"] # Absent => FrequencyFound(product["frequency"].content)
  /\ product["map"] # Absent => MapFound(product["map"].content)
=============================================================================
