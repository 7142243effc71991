------------------------ MODULE RegionalAnalysis_proofs ------------------------
(***************************************************************************)
(* Theorems about AnalysisReduction and RegionalAnalysis, for all          *)
(* manifests, weathers, cells and regions: what the two loops over the     *)
(* hours find, what the counters have counted, what the verifying status   *)
(* accepts, and what a regional campaign makes of an archive that may be   *)
(* damaged at any time.                                                    *)
(***************************************************************************)
EXTENDS RegionalAnalysis, WellOrder, FunctionTheorems, FiniteSetTheorems, TLAPS

-----------------------------------------------------------------------------
(* Hours.                                                                  *)

Hit(h) == Affected(h) > 0

\* Hour number i of a month belongs to a day of it, and to a step of that day.
LEMMA HourOfDay ==
  ASSUME NEW n \in Nat, NEW i \in 1..(StepsPerCycle * n)
  PROVE  LET q == (i - 1) \div StepsPerCycle + 1
             r == ((i - 1) % StepsPerCycle) + 1
         IN  q \in 1..n /\ r \in 1..StepsPerCycle /\ i = (q - 1) * StepsPerCycle + r
<1> DEFINE K == StepsPerCycle
           q == (i - 1) \div K
           r == (i - 1) % K
<1>1. K \in Nat \ {0} /\ K * n \in Nat
  BY ReductionAssumption
<1>2. q \in Int /\ r \in Int /\ i - 1 = K * q + r /\ 0 <= r /\ r < K
  BY <1>1
<1>3. q >= 0
  <2> SUFFICES ASSUME q <= -1 PROVE FALSE
    BY <1>2
  <2>1. K * q <= -K
    BY <1>1, <1>2
  <2>2. QED
    BY <2>1, <1>1, <1>2
<1>4. q < n
  <2> SUFFICES ASSUME q >= n PROVE FALSE
    BY <1>2
  <2>1. K * q >= K * n
    BY <1>1, <1>2
  <2>2. QED
    BY <2>1, <1>1, <1>2
<1>5. K * q = q * K /\ ((q + 1) - 1) * K = q * K
  BY <1>1, <1>2
<1> HIDE DEF K, q, r
<1>6. q + 1 \in 1..n /\ r + 1 \in 1..K /\ i = ((q + 1) - 1) * K + (r + 1)
  BY <1>1, <1>2, <1>3, <1>4, <1>5
<1>7. QED
  BY <1>6 DEF K, q, r

\* The hours of a day come before those of any later day.
LEMMA HoursOfDays ==
  ASSUME NEW d \in Int, NEW e \in Int, NEW r \in 1..StepsPerCycle, NEW t \in 1..StepsPerCycle
  PROVE  /\ ValidTime(d, r) \in Int
         /\ d < e => ValidTime(d, r) < ValidTime(e, t)
         /\ d = e /\ r < t => ValidTime(d, r) < ValidTime(e, t)
<1>1. StepsPerCycle \in Nat
  BY ReductionAssumption
<1>2. (d - 1) * StepsPerCycle \in Int /\ (e - 1) * StepsPerCycle \in Int
  BY <1>1
<1>3. d < e => (d - 1) * StepsPerCycle + StepsPerCycle <= (e - 1) * StepsPerCycle
  <2> SUFFICES ASSUME d < e PROVE (d - 1) * StepsPerCycle + StepsPerCycle <= (e - 1) * StepsPerCycle
    OBVIOUS
  <2>1. d * StepsPerCycle <= (e - 1) * StepsPerCycle
    BY <1>1
  <2>2. (d - 1) * StepsPerCycle + StepsPerCycle = d * StepsPerCycle
    BY <1>1
  <2>3. QED
    BY <2>1, <2>2
<1>4. QED
  BY <1>1, <1>2, <1>3 DEF ValidTime

\* A month's hours are in order, and all months' are.
LEMMA HourOfMonth ==
  ASSUME NEW days \in Seq(Days)
  PROVE  /\ StepsPerCycle * Len(days) \in Nat /\ ExpectedHours(days) \in Seq(Int)
         /\ DOMAIN ExpectedHours(days) = 1..(StepsPerCycle * Len(days))
         /\ Len(ExpectedHours(days)) = StepsPerCycle * Len(days)
         /\ \A i \in 1..(StepsPerCycle * Len(days)) :
              \E k \in DOMAIN days, r \in 1..StepsPerCycle :
                /\ i = ValidTime(k, r) /\ days[k] \in Int /\ k \in Int
                /\ ExpectedHours(days)[i] = ValidTime(days[k], r)
<1> DEFINE N == StepsPerCycle * Len(days)
           q(i) == (i - 1) \div StepsPerCycle + 1
           r(i) == ((i - 1) % StepsPerCycle) + 1
<1>1. Len(days) \in Nat /\ DOMAIN days = 1..Len(days) /\ StepsPerCycle \in Nat /\ N \in Nat
  BY ReductionAssumption
<1>2. Days \subseteq Int
  BY ReductionAssumption DEF Days
<1>3. ASSUME NEW i \in 1..N
      PROVE  /\ q(i) \in DOMAIN days /\ r(i) \in 1..StepsPerCycle
             /\ i = ValidTime(q(i), r(i))
             /\ ExpectedHours(days)[i] = ValidTime(days[q(i)], r(i))
  <2>1. q(i) \in 1..Len(days) /\ r(i) \in 1..StepsPerCycle
        /\ i = ValidTime(q(i), r(i))
    BY <1>1, HourOfDay DEF ValidTime
  <2>2. ExpectedHours(days)[i] = ValidTime(days[q(i)], r(i))
    BY DEF ExpectedHours
  <2>3. QED
    BY <1>1, <2>1, <2>2
<1> HIDE DEF q, r
<1>4. ASSUME NEW i \in 1..N
      PROVE  /\ days[q(i)] \in Int /\ q(i) \in Int
             /\ ExpectedHours(days)[i] \in Int
  <2>1. q(i) \in 1..Len(days)
    BY <1>1, <1>3
  <2>2. days[q(i)] \in Days
    BY <2>1
  <2>3. /\ days[q(i)] \in Int
        /\ q(i) \in Int
    <3>1. q(i) \in Int
      BY <1>1, <2>1
    <3>2. days[q(i)] \in Int
      BY <1>2, <2>2
    <3>3. QED
      BY <3>1, <3>2
  <2>4. ValidTime(days[q(i)], r(i)) \in Int
    BY <1>3, <2>3, HoursOfDays
  <2>5. QED
    BY <1>3, <2>3, <2>4
<1>5. DOMAIN ExpectedHours(days) = 1..N /\ ExpectedHours(days) \in [1..N -> Int]
  BY <1>4 DEF ExpectedHours
<1>6. ExpectedHours(days) \in Seq(Int) /\ Len(ExpectedHours(days)) = N
  BY <1>1, <1>5
<1>7. QED
  BY <1>1, <1>3, <1>4, <1>5, <1>6

LEMMA HoursInOrder ==
  ASSUME NEW days \in Seq(Seq(Days)), InOrder(days),
         NEW p \in DOMAIN days, NEW q \in DOMAIN days,
         NEW i \in 1..(StepsPerCycle * Len(days[p])), NEW j \in 1..(StepsPerCycle * Len(days[q])),
         p < q \/ (p = q /\ i < j)
  PROVE  ExpectedHours(days[p])[i] < ExpectedHours(days[q])[j]
<1>1. days[p] \in Seq(Days) /\ days[q] \in Seq(Days) /\ p \in Int /\ q \in Int
  OBVIOUS
<1>2. PICK k \in DOMAIN days[p], r \in 1..StepsPerCycle :
        /\ i = ValidTime(k, r) /\ days[p][k] \in Int /\ k \in Int
        /\ ExpectedHours(days[p])[i] = ValidTime(days[p][k], r)
  BY <1>1, HourOfMonth
<1>3. PICK l \in DOMAIN days[q], t \in 1..StepsPerCycle :
        /\ j = ValidTime(l, t) /\ days[q][l] \in Int /\ l \in Int
        /\ ExpectedHours(days[q])[j] = ValidTime(days[q][l], t)
  BY <1>1, HourOfMonth
<1>4. r \in Int /\ t \in Int /\ i \in Int /\ j \in Int
  BY <1>2, <1>3, HoursOfDays
<1>5. CASE p < q \/ (p = q /\ k < l)
  <2>1. days[p][k] < days[q][l]
    BY <1>5 DEF InOrder
  <2>2. QED
    BY <2>1, <1>2, <1>3, HoursOfDays
<1>6. CASE p = q /\ k = l
  <2>1. i < j /\ ~(j < i) /\ i # j
    BY <1>1, <1>4, <1>6
  <2>2. ~(t < r)
    BY <2>1, <1>2, <1>3, <1>6, HoursOfDays
  <2>3. t # r
    BY <2>1, <1>2, <1>3, <1>6
  <2>4. r < t
    BY <2>2, <2>3, <1>4
  <2>5. QED
    BY <2>4, <1>2, <1>3, <1>6, HoursOfDays
<1>7. CASE p = q /\ l < k
  <2>1. j < i
    BY <1>2, <1>3, <1>7, HoursOfDays
  <2>2. QED
    BY <2>1, <1>1, <1>4, <1>7
<1>8. QED
  BY <1>1, <1>2, <1>3, <1>5, <1>6, <1>7

-----------------------------------------------------------------------------
(* The hours, one by one.                                                  *)

\* The loop of one month goes through its hours one after the other.
LEMMA ScannedHourByHour ==
  ASSUME NEW s, NEW hours \in Seq(Int)
  PROVE  \E f : /\ f[0] = s /\ f[Len(hours)] = Scanned(s, hours)
                /\ \A i \in 1..Len(hours) : f[i] = ScanHour(f[i - 1], hours[i])
<1> DEFINE Goes(f, n) ==
             f = [i \in 0..n |-> IF i = 0 THEN s ELSE ScanHour(f[i - 1], hours[i])]
           S == {n \in Nat : \E f : Goes(f, n)}
<1>1. 0 \in S
  <2>1. Goes([i \in 0..0 |-> s], 0)
    OBVIOUS
  <2>2. QED
    BY <2>1
<1>2. ASSUME NEW n \in Nat, n \in S
      PROVE  n + 1 \in S
  <2>1. PICK f : Goes(f, n)
    BY <1>2
  <2> DEFINE g == [i \in 0..(n + 1) |-> IF i = n + 1 THEN ScanHour(f[n], hours[n + 1]) ELSE f[i]]
  <2>2. ASSUME NEW i \in 0..(n + 1)
        PROVE  g[i] = IF i = 0 THEN s ELSE ScanHour(g[i - 1], hours[i])
    <3>1. CASE i = n + 1
      <4>1. g[i - 1] = f[n] /\ i - 1 = n
        BY <3>1
      <4>2. QED
        BY <3>1, <4>1
    <3>2. CASE i \in 1..n
      <4>1. i - 1 \in 0..n /\ g[i - 1] = f[i - 1] /\ g[i] = f[i]
        BY <3>2
      <4>2. f[i] = ScanHour(f[i - 1], hours[i])
        BY <2>1, <3>2
      <4>3. QED
        BY <3>2, <4>1, <4>2
    <3>3. CASE i = 0
      BY <2>1, <3>3
    <3>4. QED
      BY <3>1, <3>2, <3>3
  <2>3. Goes(g, n + 1)
    <3>1. DOMAIN g = 0..(n + 1) /\ g = [i \in 0..(n + 1) |-> g[i]]
      OBVIOUS
    <3> HIDE DEF g
    <3>2. QED
      BY <3>1, <2>2
  <2> HIDE DEF g, Goes
  <2>4. QED
    BY <2>3
<1> HIDE DEF S
<1>3. Nat \subseteq S
  BY <1>1, <1>2, NatSetInduction
<1>4. Len(hours) \in S
  BY <1>3
<1>5. \E f : Goes(f, Len(hours))
  BY <1>4 DEF S
<1> DEFINE after == CHOOSE f : Goes(f, Len(hours))
<1>6. Goes(after, Len(hours))
  BY <1>5
<1>7. Scanned(s, hours) = after[Len(hours)]
  BY DEF Scanned
<1> HIDE DEF after
<1>8. \A i \in 0..Len(hours) :
        after[i] = IF i = 0 THEN s ELSE ScanHour(after[i - 1], hours[i])
  BY <1>6
<1>9. Len(hours) \in Nat
  OBVIOUS
<1>10. QED
  BY <1>7, <1>8, <1>9

\* Counts of cells are numbers.
LEMMA CellCounts ==
  ASSUME NEW h
  PROVE  Affected(h) \in Nat /\ \A k : CellsWith(h, k) \in Nat
<1>1. IsFiniteSet(Cells)
  BY ReductionAssumption
<1>2. IsFiniteSet({c \in Cells : weather[h][c] \in HighImpact})
  BY <1>1, FS_Subset
<1>3. \A k : IsFiniteSet({c \in Cells : weather[h][c] = k})
  BY <1>1, FS_Subset
<1>4. QED
  BY <1>2, <1>3, FS_CardinalityType DEF Affected, CellsWith

\* What an event becomes with another hour.
LEMMA LongerEvent ==
  ASSUME NEW e \in Events, NEW h \in Int
  PROVE  /\ Longer(e, h) \in Events
         /\ Longer(e, h).start = e.start /\ Longer(e, h).end = h
         /\ Longer(e, h).duration = e.duration + 1
         /\ Longer(e, h).largest = Larger(e.largest, Affected(h))
         /\ Longer(e, h).cellHours = e.cellHours + Affected(h)
<1> DEFINE most == [k \in HighImpact |-> Larger(e.most[k], CellsWith(h, k))]
<1>1. Affected(h) \in Int /\ \A k : CellsWith(h, k) \in Int
  BY CellCounts
<1>2. e.largest \in Int /\ e.duration \in Int /\ e.cellHours \in Int /\ e.most \in [HighImpact -> Int]
  BY DEF Events
<1>3. ASSUME NEW k \in HighImpact
      PROVE  Larger(e.most[k], CellsWith(h, k)) \in Int
  <2>1. e.most[k] \in Int
    BY <1>2
  <2>2. QED
    BY <1>1, <2>1 DEF Larger
<1>4. most \in [HighImpact -> Int]
  BY <1>3
<1>5. Longer(e, h) =
        [e EXCEPT !.end = h, !.duration = e.duration + 1,
                  !.largest = Larger(e.largest, Affected(h)), !.cellHours = e.cellHours + Affected(h),
                  !.most = most]
  BY DEF Longer
<1>6. /\ e.duration + 1 \in Int /\ e.cellHours + Affected(h) \in Int
      /\ Larger(e.largest, Affected(h)) \in Int
  BY <1>1, <1>2 DEF Larger
<1> HIDE DEF most
<1>7. QED
  BY <1>4, <1>5, <1>6 DEF Events

\* The events before and after an hour, case by case.
LEMMA HourOutcome ==
  ASSUME NEW s \in Scans, NEW h \in Int
  PROVE  LET t == ScanHour(s, h)
             closed == IF s.event = Absent THEN s.events ELSE Append(s.events, s.event)
         IN  /\ t \in Scans /\ t.prior = h
             /\ t.gaps = IF s.prior \in {Absent, h - 1} THEN s.gaps ELSE s.gaps + 1
             /\ ~Hit(h) => t.event = Absent /\ t.events = closed
             /\ Hit(h) /\ s.event # Absent /\ s.event.end = h - 1 =>
                  t.event = Longer(s.event, h) /\ t.events = s.events
             /\ Hit(h) /\ ~(s.event # Absent /\ s.event.end = h - 1) =>
                  t.event = NewEvent(h) /\ t.events = closed
<1> DEFINE t == ScanHour(s, h)
           closed == IF s.event = Absent THEN s.events ELSE Append(s.events, s.event)
<1>1. Affected(h) \in Nat /\ \A k \in HighImpact : CellsWith(h, k) \in Nat
  BY CellCounts
<1>2. NewEvent(h) \in Events
  BY <1>1 DEF NewEvent, Events
<1>4. s.event # Absent => Longer(s.event, h) \in Events
  BY LongerEvent DEF Scans
<1>5. closed \in Seq(Events)
  BY DEF Scans
<1>6. Closed(s) = [s EXCEPT !.events = closed, !.event = Absent]
  BY DEF Closed
<1> HIDE DEF closed
<1>7. Closed(s) \in Scans /\ Closed(s).event = Absent /\ Closed(s).events = closed
      /\ Closed(s).prior = s.prior /\ Closed(s).gaps = s.gaps
  BY <1>5, <1>6 DEF Scans
<1> DEFINE e == EventAfter(s, h)
<1>8. Hit(h) <=> Affected(h) # 0
  BY <1>1 DEF Hit
<1>9. /\ e \in Scans /\ e.prior = s.prior /\ e.gaps = s.gaps
      /\ ~Hit(h) => e.event = Absent /\ e.events = closed
      /\ Hit(h) /\ s.event # Absent /\ s.event.end = h - 1 =>
           e.event = Longer(s.event, h) /\ e.events = s.events
      /\ Hit(h) /\ ~(s.event # Absent /\ s.event.end = h - 1) =>
           e.event = NewEvent(h) /\ e.events = closed
  <2>1. CASE ~Hit(h)
    BY <2>1, <1>7, <1>8 DEF EventAfter
  <2>2. CASE Hit(h) /\ s.event # Absent /\ s.event.end = h - 1
    <3>1. e = [s EXCEPT !.event = Longer(s.event, h)]
      BY <2>2, <1>8 DEF EventAfter
    <3>2. QED
      BY <3>1, <2>2, <1>4 DEF Scans
  <2>3. CASE Hit(h) /\ ~(s.event # Absent /\ s.event.end = h - 1)
    <3>1. e = [Closed(s) EXCEPT !.event = NewEvent(h)]
      BY <2>3, <1>8 DEF EventAfter
    <3>2. QED
      BY <3>1, <2>3, <1>2, <1>7 DEF Scans
  <2>4. QED
    BY <2>1, <2>2, <2>3
<1> DEFINE n == IF s.prior \in {Absent, h - 1} THEN s.gaps ELSE s.gaps + 1
<1>10. n \in Nat
  BY DEF Scans
<1>11. t = [e EXCEPT !.prior = h, !.gaps = n]
  BY <1>9 DEF ScanHour
<1> HIDE DEF e, t, n
<1>12. t \in Scans /\ t.prior = h /\ t.event = e.event /\ t.events = e.events /\ t.gaps = n
  BY <1>9, <1>10, <1>11 DEF Scans
<1>13. QED
  BY <1>9, <1>12 DEF t, closed, n

\* A gap is counted exactly when an hour does not follow the one before it.
LEMMA GapStep ==
  ASSUME NEW s \in Scans, NEW D, D \subseteq Int, NEW h \in Int, \A g \in D : g < h,
         GapsFound(s, D)
  PROVE  GapsFound(ScanHour(s, h), D \union {h})
<1> DEFINE t == ScanHour(s, h)
<1>1. t.prior = h /\ t.gaps = IF s.prior \in {Absent, h - 1} THEN s.gaps ELSE s.gaps + 1
  BY HourOutcome
<1>2. s.gaps \in Nat /\ Absent \notin Int
  BY ReductionAssumption DEF Scans
<1> HIDE DEF t
<1>3. CASE D = {}
  <2>1. s.prior = Absent /\ s.gaps = 0
    BY <1>3 DEF GapsFound
  <2>2. t.prior = h /\ t.gaps = 0
    BY <1>1, <2>1
  <2>3. QED
    BY <1>3, <2>2 DEF GapsFound, t
<1>4. CASE D # {}
  <2>1. s.prior \in D /\ s.prior \in Int /\ s.prior < h /\ \A g \in D : g <= s.prior
    BY <1>4 DEF GapsFound
  <2>2. s.gaps = 0 <=> \A g \in D : g + 1 \in D \/ g = s.prior
    BY DEF GapsFound
  <2>3. CASE s.prior = h - 1
    <3>1. t.gaps = s.gaps
      BY <1>1, <2>3
    <3>2. s.prior + 1 = h
      BY <2>1, <2>3
    <3>3. \A g \in D : g + 1 \in D \union {h} <=> g + 1 \in D \/ g = s.prior
      BY <2>1, <3>2
    <3>4. (\A g \in D : g + 1 \in D \/ g = s.prior)
          <=> \A g \in D \union {h} : g + 1 \in D \union {h} \/ g = h
      BY <3>3, <2>1
    <3>5. QED
      BY <3>1, <3>4, <2>2, <2>1, <1>1 DEF GapsFound, t
  <2>4. CASE s.prior # h - 1
    <3>1. t.gaps # 0
      BY <1>1, <1>2, <2>1, <2>4
    <3>2. s.prior + 1 \notin D \union {h} /\ s.prior # h
      BY <2>1, <2>4
    <3>3. QED
      BY <3>1, <3>2, <2>1, <1>1 DEF GapsFound, t
  <2>5. QED
    BY <2>3, <2>4
<1>5. QED
  BY <1>3, <1>4

\* The cells with one of some codes, of all hours from start to end.
CellHours(start, end, cells, codes) == {p \in (start..end) \X cells : weather[p[1]][p[2]] \in codes}

LEMMA CellHoursAdd ==
  ASSUME NEW start \in Int, NEW h \in Int, start <= h, NEW grid, IsFiniteSet(grid), NEW codes
  PROVE  /\ IsFiniteSet(CellHours(start, h - 1, grid, codes))
         /\ Cardinality(CellHours(start, h, grid, codes)) =
              Cardinality(CellHours(start, h - 1, grid, codes)) + Cardinality({c \in grid : weather[h][c] \in codes})
<1> DEFINE cells == {c \in grid : weather[h][c] \in codes}
           slice == {p \in {h} \X grid : weather[p[1]][p[2]] \in codes}
           pair == [c \in cells |-> <<h, c>>]
           old == CellHours(start, h - 1, grid, codes)
<1>1. IsFiniteSet(grid) /\ IsFiniteSet(cells)
  BY FS_Subset
<1>2. IsFiniteSet(old)
  <2>1. IsFiniteSet((start..(h - 1)) \X grid)
    <3>1. h - 1 \in Int
      OBVIOUS
    <3>2. IsFiniteSet(start..(h - 1))
      BY <3>1, FS_Interval
    <3>3. QED
      BY <1>1, <3>2, FS_Product
  <2>2. old \subseteq (start..(h - 1)) \X grid
    BY DEF CellHours
  <2>3. QED
    BY <2>1, <2>2, FS_Subset
<1>3. pair \in Bijection(cells, slice)
  <2>1. pair \in [cells -> slice]
    <3>1. \A c \in cells : <<h, c>> \in slice
      OBVIOUS
    <3>2. QED
      BY <3>1
  <2>2. \A c, d \in cells : pair[c] = pair[d] => c = d
    OBVIOUS
  <2>3. \A p \in slice : \E c \in cells : pair[c] = p
    <3>1. ASSUME NEW p \in slice
          PROVE  \E c \in cells : pair[c] = p
      <4>1. p = <<h, p[2]>> /\ p[2] \in cells
        OBVIOUS
      <4>2. QED
        BY <4>1
    <3>2. QED
      BY <3>1
  <2> HIDE DEF pair, cells, slice
  <2>4. QED
    BY <2>1, <2>2, <2>3, Fun_IsBij
<1>4. IsFiniteSet(slice) /\ Cardinality(slice) = Cardinality(cells)
  <2>1. ExistsBijection(cells, slice)
    BY <1>3 DEF ExistsBijection
  <2> HIDE DEF cells, slice
  <2>2. QED
    BY <2>1, <1>1, FS_Bijection
<1>5. CellHours(start, h, grid, codes) = old \union slice
  <2>1. start..h = (start..(h - 1)) \union {h}
    OBVIOUS
  <2>2. QED
    BY <2>1 DEF CellHours
<1>6. old \intersect slice = {}
  <2>1. h \notin start..(h - 1)
    OBVIOUS
  <2>2. QED
    BY <2>1 DEF CellHours
<1> HIDE DEF old, slice
<1>7. /\ Cardinality(CellHours(start, h, grid, codes)) = Cardinality(old) + Cardinality(slice) - Cardinality({})
      /\ Cardinality(old) \in Nat /\ Cardinality({}) = 0
  <2> HIDE DEF cells
  <2>1. Cardinality(old \union slice) = Cardinality(old) + Cardinality(slice) - Cardinality(old \intersect slice)
    BY <1>2, <1>4, FS_Union
  <2>2. Cardinality(old) \in Nat /\ Cardinality({}) = 0
    BY <1>2, FS_EmptySet, FS_CardinalityType
  <2>3. QED
    BY <2>1, <2>2, <1>5, <1>6
<1>8. Cardinality(cells) \in Nat
  BY <1>1, FS_CardinalityType
<1>9. QED
  BY <1>2, <1>4, <1>7, <1>8 DEF old

\* A new event has the extent of its hour.
LEMMA NewExtent ==
  ASSUME NEW h \in Int
  PROVE  /\ Extent(NewEvent(h)) /\ NewEvent(h) \in Events
         /\ NewEvent(h).start = h /\ NewEvent(h).end = h
<1>1. Affected(h) \in Nat /\ \A k \in HighImpact : CellsWith(h, k) \in Nat
  BY CellCounts
<1>2. /\ NewEvent(h).start = h /\ NewEvent(h).end = h /\ NewEvent(h).duration = 1
      /\ NewEvent(h).largest = Affected(h) /\ NewEvent(h).cellHours = Affected(h)
      /\ NewEvent(h) \in Events
  BY <1>1 DEF NewEvent, Events
<1>3. h..h = {h} /\ Cardinality(h..h) = 1
  <2>1. h..h = {h}
    OBVIOUS
  <2>2. QED
    BY <2>1, FS_Singleton
<1>4. Cardinality(CellHours(h, h, Cells, HighImpact)) = Affected(h)
  <2>1. CellHours(h, h - 1, Cells, HighImpact) = {}
    BY DEF CellHours
  <2>2. Cardinality(CellHours(h, h, Cells, HighImpact)) = 0 + Affected(h)
    <3>1. IsFiniteSet(Cells) /\ h <= h
      BY ReductionAssumption
    <3>2. Cardinality(CellHours(h, h, Cells, HighImpact)) =
            Cardinality(CellHours(h, h - 1, Cells, HighImpact)) + Cardinality({c \in Cells : weather[h][c] \in HighImpact})
      BY <3>1, CellHoursAdd
    <3>3. QED
      BY <3>2, <2>1, FS_EmptySet DEF Affected
  <2>3. QED
    BY <2>2, <1>1
<1>5. QED
  BY <1>1, <1>2, <1>3, <1>4 DEF Extent, CellHours

\* An event and the hour after it have the extent of both.
LEMMA LongerExtent ==
  ASSUME NEW e \in Events, NEW h \in Int, Extent(e), e.start <= e.end, e.end = h - 1
  PROVE  Extent(Longer(e, h))
<1> DEFINE f == Longer(e, h)
           n == Affected(h)
<1>1. /\ f \in Events /\ f.start = e.start /\ f.end = h /\ f.duration = e.duration + 1
      /\ f.largest = Larger(e.largest, n) /\ f.cellHours = e.cellHours + n
  BY LongerEvent
<1>2. n \in Int /\ e.start \in Int /\ e.largest \in Int /\ e.duration \in Int /\ e.start <= h - 1
  BY CellCounts DEF Events
<1>3. e.start..h = (e.start..(h - 1)) \union {h}
  BY <1>2
<1>4. /\ e.duration = Cardinality(e.start..(h - 1))
      /\ \E g \in e.start..(h - 1) : Affected(g) = e.largest
      /\ \A g \in e.start..(h - 1) : Affected(g) <= e.largest
      /\ e.cellHours = Cardinality(CellHours(e.start, h - 1, Cells, HighImpact))
  BY DEF Extent, CellHours
<1> HIDE DEF f
<1>5. f.duration = Cardinality(e.start..h)
  <2>1. h - 1 \in Int /\ ~(e.start > h - 1) /\ ~(e.start > h)
    BY <1>2
  <2>2. Cardinality(e.start..(h - 1)) = (h - 1) - e.start + 1
    BY <1>2, <2>1, FS_Interval
  <2>3. Cardinality(e.start..h) = h - e.start + 1
    BY <1>2, <2>1, FS_Interval
  <2>4. QED
    BY <2>2, <2>3, <1>1, <1>2, <1>4
<1>6. f.largest = IF e.largest < n THEN n ELSE e.largest
  BY <1>1 DEF Larger
<1>7. \E g \in e.start..h : Affected(g) = f.largest
  BY <1>3, <1>4, <1>6
<1>8. \A g \in e.start..h : Affected(g) <= f.largest
  <2>1. \A g : Affected(g) \in Int
    BY CellCounts
  <2>2. e.largest <= f.largest /\ n <= f.largest /\ f.largest \in Int
    BY <1>2, <1>6
  <2>3. QED
    BY <2>1, <2>2, <1>2, <1>3, <1>4
<1>9. f.cellHours = Cardinality(CellHours(e.start, h, Cells, HighImpact))
  <2>1. e.start <= h
    BY <1>2
  <2>2. Cardinality(CellHours(e.start, h, Cells, HighImpact)) = Cardinality(CellHours(e.start, h - 1, Cells, HighImpact)) + n
    BY <1>2, <2>1, ReductionAssumption, CellHoursAdd DEF Affected
  <2>3. QED
    BY <2>2, <1>1, <1>4
<1>10. QED
  BY <1>1, <1>5, <1>7, <1>8, <1>9 DEF Extent, CellHours, f

-----------------------------------------------------------------------------
(* Cutting runs.  E is any set of events with a start and an end.          *)

ClosedEvents(s) == IF s.event = Absent THEN s.events ELSE Append(s.events, s.event)

\* What the loop goes on from.
Cutting(s, D, A, E) ==
  /\ \A e \in E : e.start \in Int /\ e.end \in Int
  /\ Absent \notin E /\ s.event \in E \union {Absent} /\ s.events \in Seq(E)
  /\ D \subseteq Int /\ A \subseteq D /\ Cut(s, D, A)

\* A run stays one when a later hour is added.
LEMMA RunStays ==
  ASSUME NEW e, NEW A, A \subseteq Int, NEW h \in Int, \A g \in A : g < h,
         e.start \in Int, e.end \in Int, RunOf(e, A)
  PROVE  RunOf(e, A \union {h}) /\ e.start \in A /\ e.end \in A /\ e.start < h /\ e.end < h
<1>1. e.start \in e.start..e.end /\ e.end \in e.start..e.end
  BY DEF RunOf
<1>2. e.start \in A /\ e.end \in A
  BY <1>1 DEF RunOf
<1>3. e.start - 1 # h
  BY <1>2
<1>4. QED
  BY <1>2, <1>3 DEF RunOf

\* With the open event the closed ones are all that there is.
LEMMA CutClosed ==
  ASSUME NEW s, NEW D, NEW A, NEW E, Cutting(s, D, A, E)
  PROVE  LET c == ClosedEvents(s)
         IN  /\ c \in Seq(E) /\ AllCut(c, A)
             /\ \A i \in DOMAIN c : (\E g \in D : c[i].end < g) \/ (s.event # Absent /\ c[i] = s.event)
<1> DEFINE c == ClosedEvents(s)
           n == Len(s.events)
<1>1. /\ s.events \in Seq(E) /\ n \in Nat /\ DOMAIN s.events = 1..n
      /\ \A e \in E : e.start \in Int /\ e.end \in Int
  BY DEF Cutting
<1>2. \A i \in 1..n : LET e == s.events[i] IN RunOf(e, A) /\ e.end + 1 \notin A /\ \E g \in D : e.end < g
  BY <1>1 DEF Cutting, Cut
<1>3. CASE s.event = Absent
  <2>1. c = s.events
    BY <1>3 DEF ClosedEvents
  <2>2. Ordered(c) /\ \A g \in A : Covered(g, c)
    BY <1>3, <2>1 DEF Cutting, Cut
  <2> HIDE DEF c
  <2>3. QED
    BY <1>1, <1>2, <2>1, <2>2 DEF c, AllCut
<1>4. CASE s.event # Absent
  <2> DEFINE e == s.event
  <2>1. /\ e \in E /\ RunOf(e, A) /\ \A g \in D : g <= e.end
        /\ \A i \in 1..n : s.events[i].end < e.start
    BY <1>1, <1>4 DEF Cutting, Cut
  <2>2. e.end + 1 \notin A
    <3>1. e.end \in Int /\ A \subseteq D
      BY <1>1, <2>1 DEF Cutting
    <3>2. QED
      BY <2>1, <3>1
  <2>3. /\ c \in Seq(E) /\ DOMAIN c = 1..(n + 1) /\ c[n + 1] = e
        /\ \A i \in 1..n : c[i] = s.events[i]
    <3>1. c = Append(s.events, e)
      BY <1>4 DEF ClosedEvents
    <3> HIDE DEF c, e
    <3>2. QED
      BY <3>1, <1>1, <2>1
  <2>4. ASSUME NEW i \in 1..(n + 1)
        PROVE  /\ RunOf(c[i], A) /\ c[i].end + 1 \notin A
               /\ (\E g \in D : c[i].end < g) \/ c[i] = e
    <3>1. CASE i = n + 1
      BY <3>1, <2>1, <2>2, <2>3
    <3>2. CASE i # n + 1
      <4>1. i \in 1..n /\ c[i] = s.events[i]
        BY <3>2, <1>1, <2>3
      <4>2. QED
        BY <4>1, <1>2
    <3>3. QED
      BY <3>1, <3>2
  <2>5. Ordered(c)
    <3>1. ASSUME NEW i \in 1..(n + 1), i > 1
          PROVE  c[i - 1].end < c[i].start
      <4>1. i - 1 \in 1..n /\ c[i - 1] = s.events[i - 1]
        <5>1. i - 1 \in 1..n
          BY <3>1, <1>1
        <5>2. QED
          BY <5>1, <2>3
      <4>2. CASE i = n + 1
        BY <4>1, <4>2, <2>1, <2>3
      <4>3. CASE i # n + 1
        <5>1. i \in 1..n /\ c[i] = s.events[i]
          BY <4>3, <1>1, <2>3
        <5>2. s.events[i - 1].end < s.events[i].start
          <6>1. Ordered(s.events)
            BY DEF Cutting, Cut
          <6>2. QED
            BY <6>1, <5>1, <3>1, <1>1 DEF Ordered
        <5>3. QED
          BY <4>1, <5>1, <5>2
      <4>4. QED
        BY <4>2, <4>3
    <3>2. QED
      BY <3>1, <2>3 DEF Ordered
  <2>6. ASSUME NEW g \in A
        PROVE  Covered(g, c)
    <3>1. (\E i \in 1..n : g \in s.events[i].start..s.events[i].end) \/ g \in e.start..e.end
      BY <1>1 DEF Cutting, Cut, Covered
    <3>2. 1..n \subseteq DOMAIN c /\ n + 1 \in DOMAIN c
      BY <1>1, <2>3
    <3> HIDE DEF c, e
    <3>3. QED
      BY <3>1, <3>2, <2>3 DEF Covered
  <2> HIDE DEF c
  <2>7. QED
    BY <1>4, <2>3, <2>4, <2>5, <2>6 DEF c, AllCut
<1>5. QED
  BY <1>3, <1>4

\* An hour that is not affected.
LEMMA CutEnded ==
  ASSUME NEW s, NEW D, NEW A, NEW E, Cutting(s, D, A, E), NEW h \in Int, \A g \in D : g < h,
         NEW t, t.event = Absent, t.events = ClosedEvents(s)
  PROVE  Cut(t, D \union {h}, A)
<1> DEFINE c == ClosedEvents(s)
<1>1. c \in Seq(E) /\ AllCut(c, A)
  BY CutClosed
<1> HIDE DEF c
<1>2. ASSUME NEW i \in DOMAIN c
      PROVE  c[i].end < h
  <2>1. c[i] \in E
    BY <1>1
  <2>2. c[i].start \in Int /\ c[i].end \in Int /\ A \subseteq Int /\ \A g \in A : g < h
    BY <2>1 DEF Cutting
  <2>3. RunOf(c[i], A)
    BY <1>1 DEF AllCut
  <2>4. QED
    BY <2>2, <2>3, RunStays
<1>3. QED
  BY <1>1, <1>2 DEF Cut, AllCut, c

\* An hour that prolongs the open event.
LEMMA CutProlonged ==
  ASSUME NEW s, NEW D, NEW A, NEW E, Cutting(s, D, A, E), NEW h \in Int, \A g \in D : g < h,
         s.event # Absent, s.event.end = h - 1,
         NEW t, t.event # Absent, t.event.start = s.event.start, t.event.end = h, t.events = s.events
  PROVE  Cut(t, D \union {h}, A \union {h})
<1> DEFINE e == s.event
           f == t.event
<1>1. /\ e \in E /\ RunOf(e, A) /\ e.start \in Int /\ e.start <= e.end /\ e.end = h - 1
      /\ \A i \in DOMAIN s.events : s.events[i].end < e.start
      /\ A \subseteq Int /\ \A g \in A : g < h
  BY DEF Cutting, Cut, RunOf
<1>2. f.start = e.start /\ f.end = h /\ f # Absent
  OBVIOUS
<1>3. e.start..h = (e.start..(h - 1)) \union {h}
  BY <1>1
<1> HIDE DEF e, f
<1>4. RunOf(f, A \union {h})
  <2>1. e.start..h \subseteq A \union {h}
    BY <1>1, <1>3 DEF RunOf
  <2>2. e.start - 1 \notin A \union {h} /\ e.start <= h
    BY <1>1 DEF RunOf
  <2>3. QED
    BY <1>2, <2>1, <2>2 DEF RunOf
<1>5. \A g \in D \union {h} : g <= h
  BY DEF Cutting
<1>6. ASSUME NEW i \in DOMAIN s.events
      PROVE  LET k == s.events[i] IN
               RunOf(k, A \union {h}) /\ k.end + 1 \notin A \union {h} /\ \E g \in D \union {h} : k.end < g
  <2> DEFINE k == s.events[i]
  <2>1. k \in E
    BY DEF Cutting
  <2>2. k.start \in Int /\ k.end \in Int
    BY <2>1 DEF Cutting
  <2>3. RunOf(k, A) /\ k.end + 1 \notin A
    BY DEF Cutting, Cut
  <2>4. PICK g \in D : k.end < g
    BY DEF Cutting, Cut
  <2> HIDE DEF k
  <2>5. g \in Int /\ g < h
    BY <2>4 DEF Cutting
  <2>6. k.end + 1 # h
    BY <2>2, <2>4, <2>5
  <2>7. RunOf(k, A \union {h})
    BY <1>1, <2>2, <2>3, RunStays
  <2>8. QED
    BY <2>3, <2>4, <2>6, <2>7 DEF k
<1>7. \A g \in A \union {h} : Covered(g, s.events) \/ g \in f.start..f.end
  <2>1. \A g \in A : Covered(g, s.events) \/ g \in e.start..e.end
    BY DEF Cutting, Cut, e
  <2>2. e.start..e.end \subseteq e.start..h /\ h \in e.start..h
    BY <1>1
  <2>3. QED
    BY <1>2, <2>1, <2>2
<1>8. Ordered(s.events)
  BY DEF Cutting, Cut
<1>9. QED
  BY <1>1, <1>2, <1>4, <1>5, <1>6, <1>7, <1>8 DEF Cut, f

\* An affected hour after one that is not, or after none.
LEMMA CutBegun ==
  ASSUME NEW s, NEW D, NEW A, NEW E, Cutting(s, D, A, E), NEW h \in Int, \A g \in D : g < h,
         ~(s.event # Absent /\ s.event.end = h - 1),
         NEW t, t.event # Absent, t.event.start = h, t.event.end = h, t.events = ClosedEvents(s)
  PROVE  Cut(t, D \union {h}, A \union {h})
<1> DEFINE c == ClosedEvents(s)
           f == t.event
<1>1. /\ c \in Seq(E) /\ AllCut(c, A)
      /\ \A i \in DOMAIN c : (\E g \in D : c[i].end < g) \/ (s.event # Absent /\ c[i] = s.event)
  BY CutClosed
<1>2. f.start = h /\ f.end = h /\ f # Absent /\ t.events = c
  OBVIOUS
<1>3. D \subseteq Int /\ A \subseteq D /\ \A e \in E : e.start \in Int /\ e.end \in Int
  BY DEF Cutting
<1> HIDE DEF c, f
<1>4. ASSUME NEW i \in DOMAIN c
      PROVE  /\ RunOf(c[i], A \union {h}) /\ c[i].end + 1 \notin A \union {h}
             /\ c[i].end < h - 1
  <2>1. c[i].start \in Int /\ c[i].end \in Int
    BY <1>1, <1>3
  <2>2. RunOf(c[i], A) /\ c[i].end + 1 \notin A
    BY <1>1 DEF AllCut
  <2>3. RunOf(c[i], A \union {h}) /\ c[i].end < h
    BY <1>3, <2>1, <2>2, RunStays
  <2>4. c[i].end # h - 1
    <3>1. CASE \E g \in D : c[i].end < g
      BY <3>1, <1>3, <2>1
    <3>2. CASE s.event # Absent /\ c[i] = s.event
      BY <3>2
    <3>3. QED
      BY <1>1, <3>1, <3>2
  <2>5. c[i].end + 1 # h
    BY <2>1, <2>4
  <2>6. QED
    BY <2>1, <2>2, <2>3, <2>4, <2>5
<1>5. h - 1 \notin A
  <2> SUFFICES ASSUME h - 1 \in A PROVE FALSE
    OBVIOUS
  <2>1. PICK i \in DOMAIN c : h - 1 \in c[i].start..c[i].end
    BY <1>1 DEF AllCut, Covered
  <2>2. c[i].end \in Int /\ c[i].start \in Int /\ c[i].end < h - 1
    BY <1>1, <1>3, <1>4
  <2>3. QED
    BY <2>1, <2>2
<1>6. RunOf(f, A \union {h})
  <2>1. h..h = {h}
    OBVIOUS
  <2>2. QED
    BY <2>1, <1>2, <1>5 DEF RunOf
<1>7. \A g \in D \union {h} : g <= h
  BY <1>3
<1>8. \A i \in DOMAIN c : c[i].end < h
  BY <1>1, <1>3, <1>4
<1>9. \A g \in A \union {h} : Covered(g, c) \/ g \in f.start..f.end
  <2>1. h \in f.start..f.end
    BY <1>2
  <2>2. QED
    BY <2>1, <1>1 DEF AllCut
<1>10. QED
  BY <1>1, <1>2, <1>4, <1>6, <1>7, <1>8, <1>9 DEF Cut, AllCut, f

-----------------------------------------------------------------------------
(* The loop over the hours.                                                *)

\* An hour keeps what the loop has found.
LEMMA EventStep ==
  ASSUME NEW s \in Scans, NEW D, D \subseteq Int, EventsFound(s, D), NEW h \in Int, \A g \in D : g < h
  PROVE  EventsFound(ScanHour(s, h), D \union {h})
<1> DEFINE t == ScanHour(s, h)
           c == ClosedEvents(s)
           A == Hits(D)
<1>1. /\ t \in Scans
      /\ ~Hit(h) => t.event = Absent /\ t.events = c
      /\ Hit(h) /\ s.event # Absent /\ s.event.end = h - 1 =>
           t.event = Longer(s.event, h) /\ t.events = s.events
      /\ Hit(h) /\ ~(s.event # Absent /\ s.event.end = h - 1) =>
           t.event = NewEvent(h) /\ t.events = c
  BY HourOutcome DEF ClosedEvents
<1>2. Cutting(s, D, A, Events)
  <2>1. s.event \in Events \union {Absent} /\ s.events \in Seq(Events) /\ Absent \notin Events
    BY ReductionAssumption DEF Scans
  <2>2. \A e \in Events : e.start \in Int /\ e.end \in Int
    BY DEF Events
  <2>3. A \subseteq D /\ Cut(s, D, A)
    BY DEF EventsFound, Hits
  <2> HIDE DEF A
  <2>4. QED
    BY <2>1, <2>2, <2>3 DEF Cutting
<1>3. Hits(D \union {h}) = IF Hit(h) THEN A \union {h} ELSE A
  BY DEF Hits, Hit
<1>4. \A i \in DOMAIN c : c[i] \in Events /\ Extent(c[i])
  <2>1. \A i \in DOMAIN s.events : s.events[i] \in Events /\ Extent(s.events[i])
    BY DEF Scans, EventsFound
  <2>2. s.event # Absent => s.event \in Events /\ Extent(s.event)
    BY DEF Scans, EventsFound
  <2>3. s.events \in Seq(Events)
    BY DEF Scans
  <2>4. QED
    BY <2>1, <2>2, <2>3 DEF ClosedEvents
<1> HIDE DEF t, c, A
<1>5. CASE ~Hit(h)
  <2>1. t.event = Absent /\ t.events = c
    BY <1>1, <1>5
  <2>2. Cut(t, D \union {h}, A)
    BY <1>2, <2>1, CutEnded DEF c
  <2>3. QED
    BY <1>3, <1>4, <1>5, <2>1, <2>2 DEF EventsFound, t
<1>6. CASE Hit(h) /\ s.event # Absent /\ s.event.end = h - 1
  <2>1. s.event \in Events /\ Extent(s.event) /\ s.event.start <= s.event.end
    BY <1>6 DEF Scans, EventsFound, Cut, RunOf
  <2>2. t.event = Longer(s.event, h) /\ t.events = s.events
    BY <1>1, <1>6
  <2>3. t.event \in Events /\ t.event.start = s.event.start /\ t.event.end = h
    BY <2>1, <2>2, LongerEvent
  <2>4. t.event # Absent
    BY <2>3, ReductionAssumption
  <2>5. Extent(t.event)
    BY <1>6, <2>1, <2>2, LongerExtent
  <2>6. Cut(t, D \union {h}, A \union {h})
    BY <1>2, <1>6, <2>2, <2>3, <2>4, CutProlonged
  <2>7. \A i \in DOMAIN s.events : Extent(s.events[i])
    BY DEF EventsFound
  <2>8. QED
    BY <1>3, <1>6, <2>2, <2>5, <2>6, <2>7 DEF EventsFound, t
<1>7. CASE Hit(h) /\ ~(s.event # Absent /\ s.event.end = h - 1)
  <2>1. t.event = NewEvent(h) /\ t.events = c
    BY <1>1, <1>7
  <2>2. t.event \in Events /\ t.event.start = h /\ t.event.end = h /\ Extent(t.event)
    BY <2>1, NewExtent
  <2>3. t.event # Absent
    BY <2>2, ReductionAssumption
  <2>4. Cut(t, D \union {h}, A \union {h})
    BY <1>2, <1>7, <2>1, <2>2, <2>3, CutBegun DEF c
  <2>5. QED
    BY <1>3, <1>4, <1>7, <2>1, <2>2, <2>4 DEF EventsFound, t
<1>8. QED
  BY <1>5, <1>6, <1>7

Found(s, D) == s \in Scans /\ D \subseteq Int /\ GapsFound(s, D) /\ EventsFound(s, D)

\* The loop over the hours of a month finds what there is in them.
LEMMA MonthScanned ==
  ASSUME NEW s, NEW D, Found(s, D), NEW hours \in Seq(Int),
         \A g \in D : \A i \in DOMAIN hours : g < hours[i],
         \A i, j \in DOMAIN hours : i < j => hours[i] < hours[j]
  PROVE  Found(Scanned(s, hours), D \union {hours[i] : i \in DOMAIN hours})
<1>1. PICK f : /\ f[0] = s /\ f[Len(hours)] = Scanned(s, hours)
               /\ \A i \in 1..Len(hours) : f[i] = ScanHour(f[i - 1], hours[i])
  BY ScannedHourByHour
<1> DEFINE N == Len(hours)
           Part(n) == D \union {hours[i] : i \in 1..n}
           S == {n \in Nat : n <= N => Found(f[n], Part(n))}
<1>2. N \in Nat /\ DOMAIN hours = 1..N /\ \A i \in 1..N : hours[i] \in Int
  OBVIOUS
<1>3. 0 \in S
  <2>1. Part(0) = D
    OBVIOUS
  <2>2. QED
    BY <1>1, <2>1
<1>4. ASSUME NEW n \in Nat, n \in S
      PROVE  n + 1 \in S
  <2> SUFFICES ASSUME n + 1 <= N PROVE Found(f[n + 1], Part(n + 1))
    OBVIOUS
  <2> DEFINE h == hours[n + 1]
  <2>1. n + 1 \in 1..N /\ h \in Int /\ f[n + 1] = ScanHour(f[n], h)
    BY <1>1, <1>2
  <2>2. Found(f[n], Part(n))
    <3> HIDE DEF Part, h
    <3>1. n <= N
      BY <1>2
    <3>2. QED
      BY <1>4, <3>1
  <2>3. Part(n + 1) = Part(n) \union {h}
    <3>1. 1..(n + 1) = (1..n) \union {n + 1}
      OBVIOUS
    <3>2. QED
      BY <3>1
  <2>4. \A g \in Part(n) : g < h
    <3>1. \A i \in 1..n : i \in DOMAIN hours /\ i < n + 1
      BY <1>2, <2>1
    <3>2. \A i \in 1..n : hours[i] < h
      BY <3>1, <2>1, <1>2
    <3>3. \A g \in D : g < h
      BY <2>1, <1>2
    <3>4. QED
      BY <3>2, <3>3
  <2> HIDE DEF h, Part, S
  <2>6. EventsFound(f[n + 1], Part(n) \union {h})
    BY <2>1, <2>2, <2>4, EventStep DEF Found
  <2>7. GapsFound(f[n + 1], Part(n) \union {h})
    BY <2>1, <2>2, <2>4, GapStep DEF Found
  <2>8. f[n + 1] \in Scans /\ Part(n) \union {h} \subseteq Int
    <3>1. f[n] \in Scans /\ Part(n) \subseteq Int
      BY <2>2 DEF Found
    <3>2. f[n + 1] \in Scans
      BY <2>1, <3>1, HourOutcome
    <3>3. QED
      BY <2>1, <3>1, <3>2
  <2>9. QED
    BY <2>3, <2>6, <2>7, <2>8 DEF Found
<1> HIDE DEF S, Part
<1>5. N \in S
  BY <1>2, <1>3, <1>4, NatSetInduction
<1>6. Found(f[N], Part(N))
  BY <1>2, <1>5 DEF S
<1>7. Part(N) = D \union {hours[i] : i \in DOMAIN hours}
  BY <1>2 DEF Part
<1>8. QED
  BY <1>1, <1>6, <1>7

\* When the open event is closed, too, the list has all that there is.
LEMMA ScanEnds ==
  ASSUME NEW s, Found(s, Planned)
  PROVE  EventsComplete(ClosedEvents(s))
<1> DEFINE c == ClosedEvents(s)
           A == Hits(Planned)
<1>1. Cutting(s, Planned, A, Events)
  <2>1. s.event \in Events \union {Absent} /\ s.events \in Seq(Events) /\ Absent \notin Events
    BY ReductionAssumption DEF Found, Scans
  <2>2. \A e \in Events : e.start \in Int /\ e.end \in Int
    BY DEF Events
  <2>3. Planned \subseteq Int /\ A \subseteq Planned /\ Cut(s, Planned, A)
    BY DEF Found, EventsFound, Hits
  <2> HIDE DEF A
  <2>4. QED
    BY <2>1, <2>2, <2>3 DEF Cutting
<1>2. c \in Seq(Events) /\ AllCut(c, A)
  BY <1>1, CutClosed
<1>3. \A i \in DOMAIN c : Extent(c[i])
  <2>1. s.events \in Seq(Events) /\ \A i \in DOMAIN s.events : Extent(s.events[i])
    BY DEF Found, Scans, EventsFound
  <2>2. s.event # Absent => s.event \in Events /\ Extent(s.event)
    BY DEF Found, Scans, EventsFound
  <2>3. QED
    BY <2>1, <2>2 DEF ClosedEvents
<1> HIDE DEF c, A
<1>4. QED
  BY <1>2, <1>3 DEF EventsComplete, c, A

\* No gap was counted when every hour but the last is followed by another.
LEMMA GapsTold ==
  ASSUME NEW s, Found(s, Planned)
  PROVE  s.gaps = 0 <=> Contiguous
<1>1. ASSUME NEW h \in Planned
      PROVE  h = s.prior <=> \A g \in Planned : g <= h
  <2>1. s.prior \in Planned /\ \A g \in Planned : g <= s.prior
    BY DEF Found, GapsFound
  <2>2. h \in Int /\ s.prior \in Int /\ h <= s.prior
    BY <2>1 DEF Found
  <2>3. (\A g \in Planned : g <= h) => h = s.prior
    BY <2>1, <2>2
  <2>4. QED
    BY <2>1, <2>3
<1>2. QED
  BY <1>1 DEF Found, GapsFound, Contiguous

-----------------------------------------------------------------------------
(* The reduction.                                                          *)

\* The hours of the months gone through, month by month.
LEMMA MonthByMonth ==
  ASSUME plan \in Plans
  PROVE  /\ Len(plan) \in Nat /\ DOMAIN plan = 1..Len(plan)
         /\ HoursBefore(1) = {} /\ HoursBefore(Len(plan) + 1) = Planned
         /\ \A n \in 1..Len(plan) :
              LET hours == ExpectedHours(plan[n]) IN
                /\ hours \in Seq(Int)
                /\ HoursBefore(n + 1) = HoursBefore(n) \union {hours[i] : i \in DOMAIN hours}
                /\ \A g \in HoursBefore(n) : \A i \in DOMAIN hours : g < hours[i]
                /\ \A i, j \in DOMAIN hours : i < j => hours[i] < hours[j]
<1>1. plan \in Seq(Seq(Days)) /\ InOrder(plan)
  BY ReductionAssumption
<1>2. Len(plan) \in Nat /\ DOMAIN plan = 1..Len(plan)
  BY <1>1
<1>3. HoursBefore(1) = {} /\ HoursBefore(Len(plan) + 1) = Planned
  <2>1. 1..(1 - 1) = {} /\ 1..((Len(plan) + 1) - 1) = DOMAIN plan
    BY <1>2
  <2>2. QED
    BY <2>1 DEF HoursBefore, Planned
<1>4. ASSUME NEW n \in 1..Len(plan)
      PROVE  LET hours == ExpectedHours(plan[n]) IN
               /\ hours \in Seq(Int)
               /\ HoursBefore(n + 1) = HoursBefore(n) \union {hours[i] : i \in DOMAIN hours}
               /\ \A g \in HoursBefore(n) : \A i \in DOMAIN hours : g < hours[i]
               /\ \A i, j \in DOMAIN hours : i < j => hours[i] < hours[j]
  <2> DEFINE hours == ExpectedHours(plan[n])
  <2>1. n \in DOMAIN plan /\ plan[n] \in Seq(Days)
    BY <1>1, <1>2
  <2>2. hours \in Seq(Int) /\ DOMAIN hours = 1..(StepsPerCycle * Len(plan[n]))
    BY <2>1, HourOfMonth
  <2>3. HoursBefore(n + 1) = HoursBefore(n) \union {hours[i] : i \in DOMAIN hours}
    <3>1. 1..((n + 1) - 1) = (1..(n - 1)) \union {n}
      BY <1>2
    <3>2. PlannedHours(plan[n]) = {hours[i] : i \in DOMAIN hours}
      BY <2>2 DEF PlannedHours
    <3> HIDE DEF hours
    <3>3. QED
      BY <3>1, <3>2 DEF HoursBefore
  <2>4. ASSUME NEW g \in HoursBefore(n), NEW i \in DOMAIN hours
        PROVE  g < hours[i]
    <3>1. PICK p \in 1..(n - 1) : g \in PlannedHours(plan[p])
      BY DEF HoursBefore
    <3>2. p \in DOMAIN plan /\ p < n
      BY <1>2
    <3>3. PICK j \in 1..(StepsPerCycle * Len(plan[p])) : g = ExpectedHours(plan[p])[j]
      BY <3>1 DEF PlannedHours
    <3>4. i \in 1..(StepsPerCycle * Len(plan[n]))
      BY <2>2
    <3>5. QED
      BY <1>1, <2>1, <3>2, <3>3, <3>4, HoursInOrder
  <2>5. ASSUME NEW i \in DOMAIN hours, NEW j \in DOMAIN hours, i < j
        PROVE  hours[i] < hours[j]
    <3>1. i \in 1..(StepsPerCycle * Len(plan[n])) /\ j \in 1..(StepsPerCycle * Len(plan[n]))
      BY <2>2
    <3>2. QED
      BY <1>1, <2>1, <2>5, <3>1, HoursInOrder
  <2> HIDE DEF hours
  <2>6. QED
    BY <2>2, <2>3, <2>4, <2>5 DEF hours
<1>5. QED
  BY <1>2, <1>3, <1>4

\* What the hours are does not change.
LEMMA DataFrame ==
  ASSUME UNCHANGED <<plan, weather>>
  PROVE  /\ Planned' = Planned /\ Contiguous' = Contiguous
         /\ \A n : HoursBefore(n)' = HoursBefore(n)
         /\ \A s, D : EventsFound(s, D)' = EventsFound(s, D)
         /\ \A s : EventsComplete(s)' = EventsComplete(s)
<1>1. Planned' = Planned /\ \A n : HoursBefore(n)' = HoursBefore(n)
  BY DEF Planned, HoursBefore
<1>2. \A h : Affected(h)' = Affected(h)
  BY DEF Affected
<1>3. \A D : Hits(D)' = Hits(D)
  BY <1>2 DEF Hits
<1>4. \A e : Extent(e)' = Extent(e)
  BY <1>2 DEF Extent
<1>5. Hits(Planned)' = Hits(Planned)
  BY <1>1, <1>2 DEF Hits
<1>6. \A s, D : EventsFound(s, D)' = EventsFound(s, D)
  BY <1>3, <1>4 DEF EventsFound
<1>7. \A s : EventsComplete(s)' = EventsComplete(s)
  BY <1>4, <1>5 DEF EventsComplete
<1>8. Contiguous' = Contiguous
  BY <1>1 DEF Contiguous
<1>9. QED
  BY <1>1, <1>6, <1>7, <1>8

\* Before the first hour.
LEMMA NothingFound ==
  /\ NoScan \in Scans /\ GapsFound(NoScan, {}) /\ EventsFound(NoScan, {})
<1>1. NoScan \in Scans
  <2>1. << >> \in Seq(Events) /\ 0 \in Nat
    OBVIOUS
  <2>2. QED
    BY <2>1 DEF NoScan, Scans
<1>2. GapsFound(NoScan, {})
  BY DEF NoScan, GapsFound
<1>3. EventsFound(NoScan, {})
  BY DEF NoScan, EventsFound, Cut, Hits, Ordered
<1>4. QED
  BY <1>1, <1>2, <1>3

LEMMA ReductionInitially ==
  Init => ReductionInv
<1> SUFFICES ASSUME Init PROVE ReductionInv
  OBVIOUS
<1>1. ScanInv
  BY DEF Init, ScanInv
<1>2. CallInv
  BY DEF Init, CallInv, Ended, Stage, NoReduction
<1>3. product["events"] = Absent /\ ~reduction.ok /\ phase = "idle"
  BY DEF Init, Products, NoReduction
<1>4. QED
  BY <1>1, <1>2, <1>3 DEF ReductionInv, Init

\* A month's task gives what the manifest lists, and no reduction is under way.
LEMMA AnalyseMonthStep ==
  ASSUME ReductionInv, NEW p \in DOMAIN plan, AnalyseMonth(p)
  PROVE  ReductionInv'
<1>1. UNCHANGED <<plan, weather, phase, next, merged, scan, product, reduction, runs>>
  BY DEF AnalyseMonth
<1>2. ~TasksComplete
  BY DEF AnalyseMonth, TasksComplete
<1>3. phase \in Ended /\ phase # "complete"
  BY <1>2 DEF ReductionInv, CallInv
<1>4. ScanInv'
  <2>1. DOMAIN monthly' = DOMAIN plan'
    BY <1>1 DEF AnalyseMonth, ReductionInv, ScanInv
  <2>2. ASSUME NEW q \in DOMAIN plan, monthly'[q] # Absent
        PROVE  monthly'[q].hours = ExpectedHours(plan[q])
    <3>1. CASE q = p
      <4>1. monthly'[p] = [contributions |-> Contributions(p), hours |-> ExpectedHours(plan[p])]
        BY DEF AnalyseMonth, ReductionInv, ScanInv
      <4>2. QED
        BY <3>1, <4>1
    <3>2. CASE q # p
      <4>1. monthly'[q] = monthly[q]
        BY <3>2 DEF AnalyseMonth, ReductionInv, ScanInv
      <4>2. QED
        BY <2>2, <4>1 DEF ReductionInv, ScanInv
    <3>3. QED
      BY <3>1, <3>2
  <2>3. phase' \notin {"merge", "scan", "events", "map", "report", "seal"}
    BY <1>1, <1>3 DEF Ended
  <2>4. QED
    BY <1>1, <2>1, <2>2, <2>3 DEF ScanInv
<1>5. CallInv'
  <2>1. Contiguous' = Contiguous
    BY <1>1, DataFrame
  <2>2. phase' \in Ended /\ phase' # "complete" /\ phase' \notin DOMAIN Stage
    BY <1>1, <1>3 DEF Ended, Stage
  <2>3. QED
    BY <1>1, <2>1, <2>2 DEF ReductionInv, CallInv, Ended
<1>6. QED
  BY <1>1, <1>4, <1>5, DataFrame DEF ReductionInv

LEMMA HoursBeforeAreHours ==
  ASSUME plan \in Plans, NEW n \in 1..(Len(plan) + 1)
  PROVE  HoursBefore(n) \subseteq Int
<1> SUFFICES ASSUME NEW p \in 1..(n - 1) PROVE PlannedHours(plan[p]) \subseteq Int
  BY DEF HoursBefore
<1>1. p \in 1..Len(plan) /\ ExpectedHours(plan[p]) \in Seq(Int)
  BY MonthByMonth
<1>2. plan[p] \in Seq(Days)
  BY <1>1, ReductionAssumption
<1>3. QED
  BY <1>1, <1>2, HourOfMonth DEF PlannedHours

LEMMA BeginStep ==
  ASSUME ReductionInv, Begin
  PROVE  ReductionInv'
<1>1. UNCHANGED <<plan, weather, monthly, product, reduction>> /\ phase' = "merge" /\ next' = 1
      /\ scan' = NoScan /\ TasksComplete
  BY DEF Begin, data
<1>2. ScanInv'
  BY <1>1 DEF ReductionInv, ScanInv
<1>3. CallInv'
  <2>1. Contiguous' = Contiguous /\ TasksComplete'
    BY <1>1, DataFrame DEF TasksComplete
  <2>2. \A f \in Products : ~(Published[f] <= Stage["merge"])
    BY DEF Products, Published, Stage
  <2>3. QED
    BY <1>1, <2>1, <2>2 DEF ReductionInv, CallInv, Ended, Stage
<1>4. QED
  BY <1>1, <1>2, <1>3, DataFrame DEF ReductionInv

LEMMA MergeStep ==
  ASSUME ReductionInv, Merge
  PROVE  ReductionInv'
<1>1. UNCHANGED <<plan, weather, monthly, phase, scan, product, reduction, runs>> /\ next' = next + 1
      /\ phase = "merge"
  BY DEF Merge, data
<1>2. ScanInv'
  BY <1>1 DEF ReductionInv, ScanInv
<1>3. CallInv'
  BY <1>1, DataFrame DEF ReductionInv, CallInv, TasksComplete
<1>4. QED
  BY <1>1, <1>2, <1>3, DataFrame DEF ReductionInv

\* A product that is published is this call's.
LEMMA PublishedByCall ==
  ASSUME CallInv, NEW f \in Products, NEW content, Publish(f, content), UNCHANGED <<plan, weather, monthly, reduction, runs>>,
         phase \in DOMAIN Stage, phase' \in DOMAIN Stage, Stage[phase'] <= Published[f],
         Published[f] = Stage[phase] + 1
  PROVE  /\ product'[f] = [by |-> runs, content |-> content]
         /\ \A g \in Products \ {f} : product'[g] = product[g]
         /\ phase' # "seal" => CallInv'
<1>1. /\ DOMAIN product' = Products
      /\ product'[f] = [by |-> runs, content |-> content]
      /\ \A g \in Products \ {f} : product'[g] = product[g]
  BY DEF CallInv, Publish
<1>2. TasksComplete' /\ Contiguous' = Contiguous
  <2>1. phase \notin Ended
    BY DEF Stage, Ended
  <2>2. TasksComplete
    BY <2>1 DEF CallInv
  <2>3. QED
    BY <2>2, DataFrame DEF TasksComplete
<1>3. \A g \in Products : Published[g] <= Stage[phase'] => product'[g].by = runs'
  <2> SUFFICES ASSUME NEW g \in Products, Published[g] <= Stage[phase'] PROVE product'[g].by = runs
    OBVIOUS
  <2>1. CASE g = f
    BY <2>1, <1>1
  <2>2. CASE g # f
    <3>1. Published[g] <= Published[f] /\ Published[g] # Published[f]
      BY <2>2 DEF Published, Stage, Products
    <3>2. Published[g] <= Stage[phase]
      BY <3>1 DEF Published, Stage, Products
    <3>3. QED
      BY <2>2, <3>2, <1>1 DEF CallInv
  <2>3. QED
    BY <2>1, <2>2
<1>4. phase' \notin Ended
  BY DEF Stage, Ended
<1>5. QED
  BY <1>1, <1>2, <1>3, <1>4 DEF CallInv, Ended

LEMMA PublishFrequencyStep ==
  ASSUME ReductionInv, PublishFrequency
  PROVE  ReductionInv'
<1>1. /\ UNCHANGED <<plan, weather, monthly, scan, reduction, runs>>
      /\ phase = "merge" /\ phase' = "scan" /\ next' = 1
      /\ \E content : Publish("frequency", content)
  BY DEF PublishFrequency, data
<1>2. ScanInv'
  <2>1. scan' = NoScan /\ Len(plan) \in Nat /\ HoursBefore(1) = {}
    BY <1>1, MonthByMonth DEF ReductionInv, ScanInv
  <2>2. next' \in 1..(Len(plan') + 1)
    BY <1>1, <2>1
  <2>3. HoursBefore(next)' = {}
    BY <1>1, <2>1, DataFrame DEF HoursBefore
  <2>4. (scan \in Scans /\ GapsFound(scan, HoursBefore(next)) /\ EventsFound(scan, HoursBefore(next)))'
    BY <1>1, <2>1, <2>3, NothingFound, DataFrame DEF GapsFound
  <2>5. QED
    BY <1>1, <2>2, <2>4 DEF ReductionInv, ScanInv
<1>3. CallInv' /\ product'["events"] = product["events"]
  <2>1. PICK content : Publish("frequency", content)
    BY <1>1
  <2>2. CallInv /\ "frequency" \in Products /\ "events" \in Products \ {"frequency"}
    BY DEF ReductionInv, Products
  <2>3. /\ phase \in DOMAIN Stage /\ phase' \in DOMAIN Stage /\ phase' # "seal"
        /\ Stage[phase'] <= Published["frequency"] /\ Published["frequency"] = Stage[phase] + 1
    BY <1>1 DEF Stage, Published
  <2>4. QED
    BY <1>1, <2>1, <2>2, <2>3, PublishedByCall
<1>4. QED
  BY <1>1, <1>2, <1>3, DataFrame DEF ReductionInv

\* One month further.
LEMMA ScanStep ==
  ASSUME ReductionInv, Scan
  PROVE  ReductionInv'
<1>1. /\ UNCHANGED <<plan, weather, monthly, phase, product, reduction, runs>>
      /\ phase = "scan" /\ next' = next + 1 /\ next <= Len(plan)
      /\ scan' = Scanned(scan, monthly[next].hours)
  BY DEF Scan, data
<1>2. ScanInv'
  <2> DEFINE hours == ExpectedHours(plan[next])
             D == HoursBefore(next)
  <2>1. Len(plan) \in Nat /\ DOMAIN plan = 1..Len(plan) /\ next \in 1..(Len(plan) + 1)
    BY <1>1, MonthByMonth DEF ReductionInv, ScanInv
  <2>2. next \in 1..Len(plan) /\ next' \in 1..(Len(plan) + 1)
    BY <1>1, <2>1
  <2>3. monthly[next].hours = hours
    BY <1>1, <2>1, <2>2 DEF ReductionInv, ScanInv, CallInv, TasksComplete, Ended
  <2>4. /\ hours \in Seq(Int)
        /\ HoursBefore(next + 1) = D \union {hours[i] : i \in DOMAIN hours}
        /\ \A g \in D : \A i \in DOMAIN hours : g < hours[i]
        /\ \A i, j \in DOMAIN hours : i < j => hours[i] < hours[j]
    BY <2>2, MonthByMonth DEF ReductionInv
  <2>5. Found(scan, D)
    <3>1. D \subseteq Int
      BY HoursBeforeAreHours, <2>1 DEF ReductionInv
    <3>2. QED
      BY <1>1, <3>1 DEF ReductionInv, ScanInv, Found
  <2> HIDE DEF hours, D
  <2>6. Found(Scanned(scan, hours), D \union {hours[i] : i \in DOMAIN hours})
    BY <2>4, <2>5, MonthScanned
  <2>7. Found(scan', HoursBefore(next'))
    BY <1>1, <2>3, <2>4, <2>6
  <2>8. (scan \in Scans /\ GapsFound(scan, HoursBefore(next)) /\ EventsFound(scan, HoursBefore(next)))'
    BY <1>1, <2>7, DataFrame DEF Found, GapsFound
  <2>9. QED
    BY <1>1, <2>2, <2>8 DEF ReductionInv, ScanInv
<1>3. CallInv'
  BY <1>1, DataFrame DEF ReductionInv, CallInv, TasksComplete
<1>4. QED
  BY <1>1, <1>2, <1>3, DataFrame DEF ReductionInv

LEMMA PublishHourlyStep ==
  ASSUME ReductionInv, PublishHourly
  PROVE  ReductionInv'
<1>1. /\ UNCHANGED <<plan, weather, monthly, next, reduction, runs>>
      /\ phase = "scan" /\ phase' = "events" /\ next > Len(plan)
      /\ scan' = Closed(scan)
      /\ Publish("hourly", [p \in DOMAIN plan |-> monthly[p].hours])
  BY DEF PublishHourly, data
<1>2. ScanInv'
  <2>1. next = Len(plan) + 1 /\ HoursBefore(next) = Planned
    BY <1>1, MonthByMonth DEF ReductionInv, ScanInv
  <2>2. Found(scan, Planned)
    <3>1. Planned \subseteq Int
      BY <2>1, HoursBeforeAreHours, MonthByMonth DEF ReductionInv
    <3>2. QED
      BY <1>1, <2>1, <3>1 DEF ReductionInv, ScanInv, Found
  <2>3. /\ scan'.gaps = scan.gaps
        /\ scan'.events = IF scan.event = Absent THEN scan.events ELSE Append(scan.events, scan.event)
    BY <1>1, <2>2 DEF Closed, Found, Scans
  <2>4. EventsComplete(scan'.events) /\ (scan'.gaps = 0 <=> Contiguous)
    BY <2>2, <2>3, ScanEnds, GapsTold DEF ClosedEvents
  <2>5. (scan.gaps = 0 <=> Contiguous)' /\ EventsComplete(scan.events)'
    BY <1>1, <2>4, DataFrame
  <2>6. QED
    BY <1>1, <2>5 DEF ReductionInv, ScanInv
<1>3. CallInv' /\ product'["events"] = product["events"]
  <2>1. CallInv /\ "hourly" \in Products /\ "events" \in Products \ {"hourly"}
    BY DEF ReductionInv, Products
  <2>2. /\ phase \in DOMAIN Stage /\ phase' \in DOMAIN Stage /\ phase' # "seal"
        /\ Stage[phase'] <= Published["hourly"] /\ Published["hourly"] = Stage[phase] + 1
    BY <1>1 DEF Stage, Published
  <2>3. QED
    BY <1>1, <2>1, <2>2, PublishedByCall
<1>4. QED
  BY <1>1, <1>2, <1>3, DataFrame DEF ReductionInv

LEMMA PublishEventsStep ==
  ASSUME ReductionInv, PublishEvents
  PROVE  ReductionInv'
<1>1. /\ UNCHANGED <<plan, weather, monthly, next, merged, scan, reduction, runs>>
      /\ phase = "events" /\ phase' = "map" /\ Publish("events", scan.events)
  BY DEF PublishEvents, data
<1>2. ScanInv'
  BY <1>1, DataFrame DEF ReductionInv, ScanInv
<1>3. CallInv' /\ product'["events"] = [by |-> runs, content |-> scan.events]
  <2>1. CallInv /\ "events" \in Products
    BY DEF ReductionInv, Products
  <2>2. /\ phase \in DOMAIN Stage /\ phase' \in DOMAIN Stage /\ phase' # "seal"
        /\ Stage[phase'] <= Published["events"] /\ Published["events"] = Stage[phase] + 1
    BY <1>1 DEF Stage, Published
  <2>3. QED
    BY <1>1, <2>1, <2>2, PublishedByCall
<1>4. EventsComplete(scan.events)
  BY <1>1 DEF ReductionInv, ScanInv
<1>5. QED
  BY <1>1, <1>2, <1>3, <1>4, DataFrame DEF ReductionInv

LEMMA PublishMapStep ==
  ASSUME ReductionInv, PublishMap
  PROVE  ReductionInv'
<1>1. /\ UNCHANGED <<plan, weather, monthly, next, merged, scan, reduction, runs>>
      /\ phase = "map" /\ phase' = "report" /\ \E content : Publish("map", content)
  BY DEF PublishMap, data
<1>2. ScanInv'
  BY <1>1, DataFrame DEF ReductionInv, ScanInv
<1>3. CallInv' /\ product'["events"] = product["events"]
  <2>1. PICK content : Publish("map", content)
    BY <1>1
  <2>2. CallInv /\ "map" \in Products /\ "events" \in Products \ {"map"}
    BY DEF ReductionInv, Products
  <2>3. /\ phase \in DOMAIN Stage /\ phase' \in DOMAIN Stage /\ phase' # "seal"
        /\ Stage[phase'] <= Published["map"] /\ Published["map"] = Stage[phase] + 1
    BY <1>1 DEF Stage, Published
  <2>4. QED
    BY <1>1, <2>1, <2>2, <2>3, PublishedByCall
<1>4. QED
  BY <1>1, <1>2, <1>3, DataFrame DEF ReductionInv

\* The report passes a call exactly when no hour is missing.
LEMMA PublishReportStep ==
  ASSUME ReductionInv, PublishReport
  PROVE  ReductionInv'
<1>1. /\ UNCHANGED <<plan, weather, monthly, reduction, runs>> /\ phase = "report"
      /\ Publish("report", IF scan.gaps = 0 THEN "pass" ELSE "critical")
      /\ scan.gaps = 0 => phase' = "seal" /\ UNCHANGED scan
      /\ scan.gaps # 0 => phase' = "raised"
  BY DEF PublishReport, Leave, data, memory
<1>2. (scan.gaps = 0 <=> Contiguous) /\ EventsComplete(scan.events)
  BY <1>1 DEF ReductionInv, ScanInv
<1>3. /\ DOMAIN product' = Products
      /\ product'["report"] = [by |-> runs, content |-> IF scan.gaps = 0 THEN "pass" ELSE "critical"]
      /\ \A g \in Products \ {"report"} : product'[g] = product[g]
      /\ product'["events"] = product["events"]
  BY <1>1 DEF ReductionInv, CallInv, Publish, Products
<1>4. Contiguous' = Contiguous /\ TasksComplete'
  <2>1. phase \notin Ended
    BY <1>1 DEF Ended
  <2>2. QED
    BY <1>1, <2>1, DataFrame DEF ReductionInv, CallInv, TasksComplete
<1>5. CASE scan.gaps = 0
  <2>1. ScanInv'
    BY <1>1, <1>2, <1>5, DataFrame DEF ReductionInv, ScanInv
  <2>2. \A g \in Products : product'[g].by = runs'
    <3>1. \A g \in Products \ {"report"} : Published[g] <= Stage["report"]
      BY DEF Published, Stage, Products
    <3>2. \A g \in Products \ {"report"} : product[g].by = runs
      BY <1>1, <3>1 DEF ReductionInv, CallInv, Stage
    <3>3. QED
      BY <1>1, <1>3, <3>2
  <2>3. CallInv'
    BY <1>1, <1>2, <1>3, <1>4, <1>5, <2>2 DEF ReductionInv, CallInv, Stage, Ended
  <2>4. QED
    BY <1>1, <1>3, <2>1, <2>3, DataFrame DEF ReductionInv
<1>6. CASE scan.gaps # 0
  <2>1. phase' = "raised" /\ ~Contiguous'
    BY <1>1, <1>2, <1>4, <1>6
  <2>2. ScanInv'
    BY <1>1, <2>1 DEF ReductionInv, ScanInv
  <2>3. CallInv'
    BY <1>1, <1>3, <1>4, <2>1 DEF ReductionInv, CallInv, Stage, Ended
  <2>4. QED
    BY <1>1, <1>3, <2>2, <2>3, DataFrame DEF ReductionInv
<1>7. QED
  BY <1>5, <1>6

\* The evidence is of products that are all this call's.
LEMMA SealStep ==
  ASSUME ReductionInv, Seal
  PROVE  ReductionInv'
<1>1. /\ UNCHANGED <<plan, weather, monthly, product, runs>> /\ phase = "seal" /\ phase' = "complete"
      /\ reduction' = [ok |-> TRUE, products |-> product]
  BY DEF Seal, Leave, data
<1>2. ScanInv'
  BY <1>1 DEF ReductionInv, ScanInv
<1>3. Contiguous' = Contiguous /\ TasksComplete'
  <2>1. phase \notin Ended
    BY <1>1 DEF Ended
  <2>2. QED
    BY <1>1, <2>1, DataFrame DEF ReductionInv, CallInv, TasksComplete
<1>4. \A f \in Products : product[f].by = runs
  <2>1. \A f \in Products : Published[f] <= Stage["seal"]
    BY DEF Products, Published, Stage
  <2>2. QED
    BY <1>1, <2>1 DEF ReductionInv, CallInv, Stage
<1>5. CallInv'
  <2>1. "report" \in Products
    BY DEF Products
  <2>2. phase' \notin DOMAIN Stage /\ phase' \in Ended
    BY <1>1 DEF Stage, Ended
  <2>3. product["report"].content = "pass" /\ Contiguous
    BY <1>1 DEF ReductionInv, CallInv
  <2>4. reduction'.products = product
    BY <1>1
  <2>5. QED
    BY <1>1, <1>3, <1>4, <2>1, <2>2, <2>3, <2>4 DEF ReductionInv, CallInv, Ended
<1>6. QED
  BY <1>1, <1>2, <1>5, DataFrame DEF ReductionInv

LEMMA KillStep ==
  ASSUME ReductionInv, Kill
  PROVE  ReductionInv'
<1>1. UNCHANGED <<plan, weather, monthly, product, reduction, runs>> /\ phase' = "killed"
  BY DEF Kill, Leave, data
<1>2. ScanInv'
  BY <1>1 DEF ReductionInv, ScanInv
<1>3. CallInv'
  BY <1>1, DataFrame DEF ReductionInv, CallInv, Ended, Stage
<1>4. QED
  BY <1>1, <1>2, <1>3, DataFrame DEF ReductionInv

LEMMA ReductionStutters ==
  ASSUME ReductionInv, UNCHANGED vars
  PROVE  ReductionInv'
<1>1. UNCHANGED <<plan, weather, monthly, phase, next, merged, scan, product, reduction, runs>>
  BY DEF vars
<1>2. ScanInv'
  BY <1>1, DataFrame DEF ReductionInv, ScanInv, GapsFound
<1>3. CallInv'
  BY <1>1, DataFrame DEF ReductionInv, CallInv, TasksComplete
<1>4. QED
  BY <1>1, <1>2, <1>3, DataFrame DEF ReductionInv

LEMMA ReductionInvInductive ==
  ReductionInv /\ [Next]_vars => ReductionInv'
<1> SUFFICES ASSUME ReductionInv, [Next]_vars PROVE ReductionInv'
  OBVIOUS
<1>1. CASE \E p \in DOMAIN plan : AnalyseMonth(p)
  BY <1>1, AnalyseMonthStep
<1>2. CASE Begin
  BY <1>2, BeginStep
<1>3. CASE Merge \/ PublishFrequency \/ Scan
  BY <1>3, MergeStep, PublishFrequencyStep, ScanStep
<1>4. CASE PublishHourly \/ PublishEvents \/ PublishMap
  BY <1>4, PublishHourlyStep, PublishEventsStep, PublishMapStep
<1>5. CASE PublishReport \/ Seal
  BY <1>5, PublishReportStep, SealStep
<1>6. CASE Kill
  BY <1>6, KillStep
<1>7. CASE UNCHANGED vars
  BY <1>7, ReductionStutters
<1>8. QED
  BY <1>1, <1>2, <1>3, <1>4, <1>5, <1>6, <1>7 DEF Next, Reduce

-----------------------------------------------------------------------------
(* What the invariant says of the products.                                *)

LEMMA VerifiedIsOneCall ==
  ReductionInv => AcceptedIsOneReduction
<1> SUFFICES ASSUME ReductionInv PROVE AcceptedIsOneReduction
  OBVIOUS
<1>1. "report" \in Products
  BY DEF Products
<1>2. ASSUME Verified
      PROVE  /\ \A f \in Products : product[f].by = product["report"].by
             /\ product["report"].content = "pass" /\ Contiguous
  BY <1>1, <1>2 DEF Verified, StatusComplete, ReductionInv, CallInv
<1>3. phase = "complete" => Verified
  BY DEF Verified, StatusComplete, ReductionInv, CallInv
<1>4. phase = "raised" => ~Contiguous
  BY DEF ReductionInv, CallInv
<1>5. QED
  BY <1>2, <1>3, <1>4 DEF AcceptedIsOneReduction

LEMMA CompleteEventsAreMaximal ==
  ReductionInv => EventsAreMaximalRuns
<1> SUFFICES ASSUME ReductionInv, product["events"] # Absent
             PROVE  EventsAreMaximalRuns
  BY DEF EventsAreMaximalRuns
<1> DEFINE events == product["events"].content
           hit(h) == Affected(h) > 0
<1>1. EventsComplete(events)
  BY DEF ReductionInv
<1>2. ASSUME NEW h \in Planned, hit(h)
      PROVE  \E i \in DOMAIN events : h \in events[i].start..events[i].end
  BY <1>1, <1>2 DEF EventsComplete, AllCut, Covered, Hits
<1>3. ASSUME NEW i \in DOMAIN events
      PROVE  LET e == events[i]
                 hours == e.start..e.end
             IN  /\ Maximal(e.start, e.end, hit)
                 /\ i > 1 => events[i - 1].end < e.start
                 /\ e.duration = Cardinality(hours)
                 /\ \E h \in hours : Affected(h) = e.largest
                 /\ \A h \in hours : Affected(h) <= e.largest
                 /\ e.cellHours = Cardinality({p \in hours \X Cells : weather[p[1]][p[2]] \in HighImpact})
  <2> DEFINE e == events[i]
  <2>1. /\ RunOf(e, Hits(Planned)) /\ e.end + 1 \notin Hits(Planned)
        /\ i > 1 => events[i - 1].end < e.start
    BY <1>1 DEF EventsComplete, AllCut, Ordered
  <2>2. Maximal(e.start, e.end, hit)
    BY <2>1 DEF RunOf, Maximal, Hits
  <2>3. Extent(e)
    BY <1>1 DEF EventsComplete
  <2> HIDE DEF e
  <2>4. /\ e.duration = Cardinality(e.start..e.end)
        /\ \E h \in e.start..e.end : Affected(h) = e.largest
        /\ \A h \in e.start..e.end : Affected(h) <= e.largest
        /\ e.cellHours = Cardinality({p \in (e.start..e.end) \X Cells : weather[p[1]][p[2]] \in HighImpact})
    BY <2>3 DEF Extent
  <2>5. QED
    BY <2>1, <2>2, <2>4 DEF e
<1>4. QED
  BY <1>2, <1>3 DEF EventsAreMaximalRuns

-----------------------------------------------------------------------------
(* The calendar.                                                           *)

\* The last hour of a day is midnight, and belongs to the next one.
LEMMA DayOfHour ==
  ASSUME NEW d \in Int, NEW r \in 1..StepsPerCycle
  PROVE  /\ ValidTime(d, r) \in Int
         /\ Day(ValidTime(d, r)) = IF r = StepsPerCycle THEN d + 1 ELSE d
<1> DEFINE K == StepsPerCycle
<1>1. K \in Nat \ {0} /\ r \in Int
  BY ReductionAssumption
<1>2. ValidTime(d, r) = K * (d - 1) + r /\ K * (d - 1) \in Int
  BY <1>1 DEF ValidTime
<1>3. CASE r = K
  <2>1. ValidTime(d, r) = K * d + 0 /\ 0 \in 0..(K - 1)
    BY <1>1, <1>2, <1>3
  <2>2. (K * d + 0) \div K = d
    BY <1>1, <2>1, DivisionUnique
  <2>3. QED
    BY <1>2, <1>1, <1>3, <2>1, <2>2 DEF Day
<1>4. CASE r # K
  <2>1. r \in 0..(K - 1)
    BY <1>1, <1>4
  <2>2. (K * (d - 1) + r) \div K = d - 1
    BY <1>1, <2>1, DivisionUnique
  <2>3. QED
    BY <1>2, <1>1, <1>4, <2>2 DEF Day
<1>5. QED
  BY <1>3, <1>4

LEMMA PlannedHour ==
  ASSUME plan \in Plans, NEW h \in Planned
  PROVE  /\ h \in Nat /\ h <= StepsPerCycle * Len(MonthOf)
         /\ Day(h) \in Days /\ ValidMonth(h) \in Nat
<1>1. PICK p \in DOMAIN plan : h \in PlannedHours(plan[p])
  BY DEF Planned
<1>2. plan \in Seq(Seq(Days)) /\ plan[p] \in Seq(Days)
  BY ReductionAssumption
<1>3. PICK i \in 1..(StepsPerCycle * Len(plan[p])) : h = ExpectedHours(plan[p])[i]
  BY <1>1 DEF PlannedHours
<1>4. PICK k \in DOMAIN plan[p], r \in 1..StepsPerCycle : h = ValidTime(plan[p][k], r)
  BY <1>2, <1>3, HourOfMonth
<1> DEFINE d == plan[p][k]
<1>5. d \in Days /\ d + 1 \in Days
  BY <1>2, CalendarAssumption
<1>6. Days = 1..Len(MonthOf) /\ Len(MonthOf) \in Nat /\ MonthOf \in Seq(Nat)
  BY ReductionAssumption DEF Days
<1>7. StepsPerCycle \in Nat /\ r \in 1..StepsPerCycle /\ d \in Int
  BY <1>5, <1>6, ReductionAssumption
<1> HIDE DEF d
<1>8. Day(h) \in Days
  BY <1>4, <1>5, <1>7, DayOfHour DEF d
<1>9. h \in Nat /\ h <= StepsPerCycle * Len(MonthOf)
  <2>1. h = (d - 1) * StepsPerCycle + r
    BY <1>4 DEF ValidTime, d
  <2>2. PICK e \in Nat : e = d - 1 /\ e + 1 <= Len(MonthOf)
    BY <1>5, <1>6
  <2>3. e * StepsPerCycle \in Nat /\ (e + 1) * StepsPerCycle <= Len(MonthOf) * StepsPerCycle
        /\ (e + 1) * StepsPerCycle = e * StepsPerCycle + StepsPerCycle
        /\ Len(MonthOf) * StepsPerCycle = StepsPerCycle * Len(MonthOf)
        /\ StepsPerCycle * Len(MonthOf) \in Nat
    BY <1>6, <1>7, <2>2
  <2>4. QED
    BY <1>7, <2>1, <2>2, <2>3
<1>10. ValidMonth(h) \in Nat
  BY <1>6, <1>8 DEF ValidMonth
<1>11. QED
  BY <1>8, <1>9, <1>10

LEMMA PlannedFinite ==
  ASSUME plan \in Plans
  PROVE  IsFiniteSet(Planned) /\ \A D \in SUBSET Planned : IsFiniteSet(D) /\ Cardinality(D) \in Nat
<1>1. Planned \in SUBSET Nat /\ \A h \in Planned : h <= StepsPerCycle * Len(MonthOf)
  BY PlannedHour
<1>2. StepsPerCycle * Len(MonthOf) \in Nat
  BY ReductionAssumption
<1>3. IsFiniteSet(Planned)
  BY <1>1, <1>2, FS_BoundedSetOfNaturals
<1>4. QED
  BY <1>3, FS_Subset, FS_CardinalityType

\* Later hours are in later months.
LEMMA MonthsFollowHours ==
  ASSUME plan \in Plans, NEW g \in Planned, NEW h \in Planned, g <= h
  PROVE  ValidMonth(g) <= ValidMonth(h)
<1>1. /\ g \in Nat /\ h \in Nat /\ StepsPerCycle \in Nat \ {0}
      /\ Day(g) \in Days /\ Day(h) \in Days
  BY PlannedHour, ReductionAssumption
<1> DEFINE K == StepsPerCycle
<1>2. PICK a \in Int, s \in Int : g = K * a + s /\ 0 <= s /\ s < K /\ Day(g) = a + 1
  BY <1>1 DEF Day
<1>3. PICK b \in Int, t \in Int : h = K * b + t /\ 0 <= t /\ t < K /\ Day(h) = b + 1
  BY <1>1 DEF Day
<1>4. ASSUME b < a PROVE FALSE
  <2>1. K * (b + 1) <= K * a /\ K * (b + 1) = K * b + K /\ K * a \in Int /\ K * b \in Int
    BY <1>1, <1>4
  <2>2. QED
    BY <1>1, <1>2, <1>3, <2>1
<1>5. Day(g) <= Day(h)
  BY <1>2, <1>3, <1>4
<1>6. QED
  BY <1>1, <1>5, CalendarAssumption DEF ValidMonth

LEMMA YearsFollowMonths ==
  ASSUME NEW m \in Nat, NEW n \in Nat, m <= n
  PROVE  Year(m) \in Nat /\ Year(m) <= Year(n)
BY DEF Year

-----------------------------------------------------------------------------
(* Counts.                                                                 *)

With(D, c, k) == {h \in D : weather[h][c] = k}

LEMMA CountsTyped ==
  ASSUME NEW D, IsFiniteSet(D)
  PROVE  /\ CountsOf(D) \in Counts
         /\ \A c \in Cells, k \in Codes :
              /\ IsFiniteSet(With(D, c, k)) /\ Cardinality(With(D, c, k)) \in Nat
              /\ Cardinality(With(D, c, k)) <= Cardinality(D)
              /\ CountsOf(D)[c][k] = Cardinality(With(D, c, k)) % CountLimit
<1>1. ASSUME NEW c \in Cells, NEW k \in Codes
      PROVE  /\ IsFiniteSet(With(D, c, k)) /\ Cardinality(With(D, c, k)) \in Nat
             /\ Cardinality(With(D, c, k)) <= Cardinality(D)
             /\ CountsOf(D)[c][k] = Cardinality(With(D, c, k)) % CountLimit
  <2>1. IsFiniteSet(With(D, c, k)) /\ Cardinality(With(D, c, k)) <= Cardinality(D)
    BY FS_Subset, With(D, c, k) \in SUBSET D DEF With
  <2>2. CountsOf(D)[c][k] = Cardinality(With(D, c, k)) % CountLimit
    BY DEF CountsOf, With
  <2>3. QED
    BY <2>1, <2>2, FS_CardinalityType
<1>2. \A x \in Nat : x % CountLimit \in Nat
  BY ReductionAssumption
<1>3. CountsOf(D) = [c \in Cells |-> [k \in Codes |-> Cardinality(With(D, c, k)) % CountLimit]]
  BY DEF CountsOf, With
<1>4. CountsOf(D) \in Counts
  BY <1>1, <1>2, <1>3 DEF Counts
<1>5. QED
  BY <1>1, <1>4

LEMMA WithAdds ==
  ASSUME NEW D, NEW E, IsFiniteSet(D), IsFiniteSet(E), D \intersect E = {},
         NEW c \in Cells, NEW k \in Codes
  PROVE  Cardinality(With(D \union E, c, k)) = Cardinality(With(D, c, k)) + Cardinality(With(E, c, k))
<1> DEFINE d == Cardinality(With(D, c, k))
           e == Cardinality(With(E, c, k))
<1>1. d \in Nat /\ e \in Nat /\ IsFiniteSet(With(D, c, k)) /\ IsFiniteSet(With(E, c, k))
  BY CountsTyped
<1>2. With(D \union E, c, k) = With(D, c, k) \union With(E, c, k)
      /\ With(D, c, k) \intersect With(E, c, k) = {}
  BY DEF With
<1>3. Cardinality(With(D, c, k) \union With(E, c, k))
        = d + e - Cardinality(With(D, c, k) \intersect With(E, c, k))
  BY <1>1, FS_Union
<1>4. Cardinality(With(D \union E, c, k)) = d + e - Cardinality({}) /\ Cardinality({}) = 0
  BY <1>2, <1>3, FS_EmptySet
<1> HIDE DEF d, e
<1>5. Cardinality(With(D \union E, c, k)) = d + e
  BY <1>1, <1>4
<1>6. QED
  BY <1>5 DEF d, e

\* Counters of disjoint sets of hours add up to those of both, whatever wraps.
LEMMA CountsAdd ==
  ASSUME NEW D, NEW E, IsFiniteSet(D), IsFiniteSet(E), D \intersect E = {}
  PROVE  Plus(CountsOf(D), CountsOf(E)) = CountsOf(D \union E)
<1>1. ASSUME NEW c \in Cells, NEW k \in Codes
      PROVE  (CountsOf(D)[c][k] + CountsOf(E)[c][k]) % CountLimit
               = Cardinality(With(D \union E, c, k)) % CountLimit
  <2> DEFINE d == Cardinality(With(D, c, k))
             e == Cardinality(With(E, c, k))
  <2>1. /\ d \in Nat /\ e \in Nat
        /\ CountsOf(D)[c][k] = d % CountLimit /\ CountsOf(E)[c][k] = e % CountLimit
    BY CountsTyped
  <2>2. CountLimit \in Nat \ {0}
    BY ReductionAssumption
  <2>3. Cardinality(With(D \union E, c, k)) = d + e
    BY WithAdds
  <2> HIDE DEF d, e
  <2>4. ((d % CountLimit) + (e % CountLimit)) % CountLimit = (d + e) % CountLimit
    BY <2>1, <2>2, ReducedSum
  <2>5. QED
    BY <2>1, <2>3, <2>4
<1>2. CountsOf(D \union E)
        = [c \in Cells |-> [k \in Codes |-> Cardinality(With(D \union E, c, k)) % CountLimit]]
  BY DEF CountsOf, With
<1>3. Plus(CountsOf(D), CountsOf(E))
        = [c \in Cells |-> [k \in Codes |-> (CountsOf(D)[c][k] + CountsOf(E)[c][k]) % CountLimit]]
  BY DEF Plus
<1>4. QED
  BY <1>1, <1>2, <1>3

LEMMA NothingCounted ==
  CountsOf({}) = NoCounts /\ NoCounts \in Counts
<1>1. \A c, k : With({}, c, k) = {}
  BY DEF With
<1>2. Cardinality({}) = 0 /\ IsFiniteSet({}) /\ 0 % CountLimit = 0
  BY FS_EmptySet, ReductionAssumption
<1>3. CountsOf({}) = [c \in Cells |-> [k \in Codes |-> Cardinality(With({}, c, k)) % CountLimit]]
  BY DEF CountsOf, With
<1>4. CountsOf({}) = NoCounts
  BY <1>1, <1>2, <1>3 DEF NoCounts
<1>5. QED
  BY <1>2, <1>4, CountsTyped

\* Counters that do not wrap are exact.
LEMMA CountsExact ==
  ASSUME NEW D, IsFiniteSet(D), Cardinality(D) < CountLimit
  PROVE  Tallied(CountsOf(D), D)
<1> SUFFICES ASSUME NEW c \in Cells, NEW k \in Codes
             PROVE  CountsOf(D)[c][k] = Cardinality(With(D, c, k))
  BY DEF Tallied, With
<1>1. /\ Cardinality(With(D, c, k)) \in Nat /\ Cardinality(With(D, c, k)) <= Cardinality(D)
      /\ CountsOf(D)[c][k] = Cardinality(With(D, c, k)) % CountLimit
      /\ Cardinality(D) \in Nat /\ CountLimit \in Nat \ {0}
  BY CountsTyped, FS_CardinalityType, ReductionAssumption
<1>2. \A x \in Nat : x < CountLimit => x % CountLimit = x
  <2> SUFFICES ASSUME NEW x \in Nat, x < CountLimit PROVE x % CountLimit = x
    OBVIOUS
  <2>1. (CountLimit * 0 + x) % CountLimit = x
    BY <1>1, DivisionUnique
  <2>2. QED
    BY <2>1, <1>1
<1>3. QED
  BY <1>1, <1>2

-----------------------------------------------------------------------------
(* Classes of hours.                                                       *)

\* The hours of a year are fewer than 16 bits hold.
LEMMA YearFits ==
  ASSUME plan \in Plans, NEW D \in SUBSET Planned, NEW y, \A h \in D : Year(ValidMonth(h)) = y
  PROVE  Cardinality(D) < CountLimit
<1> DEFINE K == StepsPerCycle
           days == {e \in Days : MonthOf[e] \div 12 = y}
           hour == [x \in days \X (0..(K - 1)) |-> K * (x[1] - 1) + x[2]]
           pairs == {x \in days \X (0..(K - 1)) : hour[x] \in D}
<1>1. K \in Nat \ {0} /\ Days = 1..Len(MonthOf) /\ Len(MonthOf) \in Nat /\ CountLimit \in Nat \ {0}
  BY ReductionAssumption DEF Days
<1>2. IsFiniteSet(D) /\ Cardinality(D) \in Nat
  BY PlannedFinite
<1>3. CASE D = {}
  BY <1>1, <1>3, FS_EmptySet
<1>4. CASE D # {}
  <2>1. PICK d \in Days : MonthOf[d] \div 12 = y
    <3>1. PICK h \in D : Year(ValidMonth(h)) = y
      BY <1>4
    <3>2. Day(h) \in Days
      BY PlannedHour
    <3>3. QED
      BY <3>1, <3>2 DEF Year, ValidMonth
  <2>2. K * Cardinality(days) < CountLimit
    <3>1. days = {e \in Days : MonthOf[e] \div 12 = MonthOf[d] \div 12}
      BY <2>1
    <3>2. K * Cardinality({e \in Days : MonthOf[e] \div 12 = MonthOf[d] \div 12}) < CountLimit
      BY CalendarAssumption
    <3> HIDE DEF days, K
    <3>3. QED
      BY <3>1, <3>2
  <2>3. IsFiniteSet(days) /\ Cardinality(days) \in Nat
    <3>1. IsFiniteSet(Days)
      BY <1>1, FS_Interval
    <3>2. QED
      BY <3>1, FS_Subset, FS_CardinalityType, days \in SUBSET Days
  <2>4. IsFiniteSet(0..(K - 1)) /\ Cardinality(0..(K - 1)) = K
    <3>1. PICK n \in Int : n = K - 1 /\ n >= 0
      BY <1>1
    <3>2. IsFiniteSet(0..n) /\ Cardinality(0..n) = IF 0 > n THEN 0 ELSE n - 0 + 1
      BY FS_Interval
    <3>3. QED
      BY <1>1, <3>1, <3>2
  <2> HIDE DEF days
  <2>5. /\ IsFiniteSet(days \X (0..(K - 1)))
        /\ Cardinality(days \X (0..(K - 1))) = Cardinality(days) * K
    BY <2>3, <2>4, FS_Product
  <2>6. IsFiniteSet(pairs) /\ Cardinality(pairs) <= Cardinality(days) * K /\ Cardinality(pairs) \in Nat
    <3>1. pairs \in SUBSET (days \X (0..(K - 1)))
      OBVIOUS
    <3> HIDE DEF pairs
    <3>2. QED
      BY <2>5, <3>1, FS_Subset, FS_CardinalityType
  <2>7. ASSUME NEW h \in D
        PROVE  \E x \in pairs : hour[x] = h
    <3>1. h \in Nat /\ Day(h) \in Days /\ Year(ValidMonth(h)) = y
      BY PlannedHour
    <3>2. PICK q \in Int, r \in 0..(K - 1) : h = K * q + r /\ Day(h) = q + 1
      BY <1>1, <3>1 DEF Day
    <3>3. q + 1 \in days
      BY <3>1, <3>2 DEF days, Year, ValidMonth
    <3>4. <<q + 1, r>> \in days \X (0..(K - 1)) /\ (q + 1) - 1 = q
      BY <3>3
    <3>5. hour[<<q + 1, r>>] = K * q + r
      BY <3>4
    <3>6. QED
      BY <3>2, <3>4, <3>5
  <2> DEFINE f == [x \in pairs |-> hour[x]]
  <2>8. f \in Surjection(pairs, D)
    <3>1. f \in [pairs -> D]
      OBVIOUS
    <3>2. \A h \in D : \E x \in pairs : f[x] = h
      BY <2>7
    <3> HIDE DEF f, pairs
    <3>3. QED
      BY <3>1, <3>2 DEF Surjection
  <2> HIDE DEF f, pairs
  <2>9. Cardinality(D) <= Cardinality(pairs)
    BY <2>6, <2>8, FS_Surjection
  <2>10. Cardinality(days) * K = K * Cardinality(days) /\ Cardinality(days) * K \in Nat
    BY <1>1, <2>3
  <2>11. QED
    BY <1>1, <1>2, <2>2, <2>6, <2>9, <2>10
<1>5. QED
  BY <1>3, <1>4

\* A class grows by the hours that belong to it.
LEMMA ClassGrows ==
  ASSUME plan \in Plans, NEW D \in SUBSET Planned, NEW E \in SUBSET Planned, D \intersect E = {},
         NEW key, NEW j \in Keys(key), Class(key, j, E) = E, NEW i
  PROVE  /\ i # j => Class(key, i, D \union E) = Class(key, i, D)
         /\ i = j => /\ CountsOf(Class(key, i, D \union E)) = Plus(CountsOf(Class(key, i, D)), CountsOf(E))
                     /\ Cardinality(Class(key, i, D \union E)) = Cardinality(Class(key, i, D)) + Cardinality(E)
<1>1. CASE i # j
  BY <1>1 DEF Class
<1>2. CASE i = j
  <2> DEFINE mine == Class(key, i, D)
  <2>1. Class(key, i, D \union E) = mine \union E /\ mine \intersect E = {} /\ mine \in SUBSET Planned
    BY <1>2 DEF Class
  <2> HIDE DEF mine
  <2>2. IsFiniteSet(mine) /\ IsFiniteSet(E) /\ Cardinality(mine) \in Nat /\ Cardinality(E) \in Nat
    BY <2>1, PlannedFinite
  <2>3. Plus(CountsOf(mine), CountsOf(E)) = CountsOf(mine \union E)
    BY <2>1, <2>2, CountsAdd
  <2>4. Cardinality(mine \union E) = Cardinality(mine) + Cardinality(E) - Cardinality(mine \intersect E)
    BY <2>2, FS_Union
  <2>5. Cardinality(mine \intersect E) = 0
    BY <2>1, FS_EmptySet
  <2>6. Cardinality(mine \union E) = Cardinality(mine) + Cardinality(E)
    BY <2>2, <2>4, <2>5
  <2>7. QED
    BY <1>2, <2>1, <2>3, <2>6 DEF mine
<1>3. QED
  BY <1>1, <1>2

\* The counters of one kind take a contribution.
LEMMA AccumulatedMore ==
  ASSUME plan \in Plans, NEW key, NEW D \in SUBSET Planned, NEW E \in SUBSET Planned,
         D \intersect E = {}, NEW j \in Keys(key), Class(key, j, E) = E,
         NEW counts \in [Keys(key) -> Counts], NEW hours \in [Keys(key) -> Nat],
         Accumulated(counts, hours, key, D)
  PROVE  LET more == [counts EXCEPT ![j] = Plus(counts[j], CountsOf(E))]
             longer == [hours EXCEPT ![j] = hours[j] + Cardinality(E)]
         IN  /\ more \in [Keys(key) -> Counts] /\ longer \in [Keys(key) -> Nat]
             /\ Accumulated(more, longer, key, D \union E)
<1> DEFINE more == [counts EXCEPT ![j] = Plus(counts[j], CountsOf(E))]
           longer == [hours EXCEPT ![j] = hours[j] + Cardinality(E)]
<1>0. ASSUME NEW i
      PROVE  /\ i # j => Class(key, i, D \union E) = Class(key, i, D)
             /\ i = j => /\ CountsOf(Class(key, i, D \union E)) = Plus(CountsOf(Class(key, i, D)), CountsOf(E))
                         /\ Cardinality(Class(key, i, D \union E)) = Cardinality(Class(key, i, D)) + Cardinality(E)
  <2> HIDE DEF more, longer
  <2>1. QED
    BY ClassGrows
<1>1. ASSUME NEW i \in Keys(key)
      PROVE  /\ CountsOf(Class(key, i, D \union E)) \in Counts
             /\ Cardinality(Class(key, i, D \union E)) \in Nat
  <2>1. Class(key, i, D \union E) \in SUBSET Planned
    BY DEF Class
  <2>2. QED
    BY <2>1, PlannedFinite, CountsTyped
<1>2. ASSUME NEW i \in Keys(key)
      PROVE  /\ more[i] = CountsOf(Class(key, i, D \union E))
             /\ longer[i] = Cardinality(Class(key, i, D \union E))
  <2>1. counts[i] = CountsOf(Class(key, i, D)) /\ hours[i] = Cardinality(Class(key, i, D))
    BY DEF Accumulated
  <2>2. CASE i # j
    <3>1. more[i] = counts[i] /\ longer[i] = hours[i]
      BY <2>2
    <3>2. Class(key, i, D \union E) = Class(key, i, D)
      BY <2>2, <1>0
    <3> HIDE DEF more, longer
    <3>3. QED
      BY <2>1, <3>1, <3>2
  <2>3. CASE i = j
    <3>1. more[i] = Plus(counts[i], CountsOf(E)) /\ longer[i] = hours[i] + Cardinality(E)
      BY <2>3
    <3>2. /\ CountsOf(Class(key, i, D \union E)) = Plus(CountsOf(Class(key, i, D)), CountsOf(E))
          /\ Cardinality(Class(key, i, D \union E)) = Cardinality(Class(key, i, D)) + Cardinality(E)
      BY <2>3, <1>0
    <3> HIDE DEF more, longer
    <3>3. QED
      BY <2>1, <3>1, <3>2
  <2>4. QED
    BY <2>2, <2>3
<1>3. DOMAIN more = Keys(key) /\ DOMAIN longer = Keys(key)
      /\ more = [i \in Keys(key) |-> more[i]] /\ longer = [i \in Keys(key) |-> longer[i]]
  OBVIOUS
<1> HIDE DEF more, longer
<1>4. more \in [Keys(key) -> Counts] /\ longer \in [Keys(key) -> Nat]
  BY <1>1, <1>2, <1>3
<1>5. Accumulated(more, longer, key, D \union E)
  BY <1>2 DEF Accumulated
<1>6. QED
  BY <1>4, <1>5 DEF more, longer

-----------------------------------------------------------------------------
(* A valid month is finalized.                                             *)

\* The tally when the year y has begun.
Turned(t, y) == IF t.year \notin {Absent, y} THEN YearWritten(t) ELSE t

LEMMA YearWrittenFields ==
  ASSUME NEW t \in Tallies, t.year \in Keys(ByYear)
  PROVE  /\ YearWritten(t) \in Tallies
         /\ YearWritten(t).annual = [t.annual EXCEPT ![t.year] = t.current]
         /\ YearWritten(t).current = NoCounts /\ YearWritten(t).year = t.year
         /\ YearWritten(t).month = t.month /\ YearWritten(t).monthHours = t.monthHours
         /\ YearWritten(t).season = t.season /\ YearWritten(t).seasonHours = t.seasonHours
         /\ YearWritten(t).annualHours = t.annualHours /\ YearWritten(t).full = t.full
<1> DEFINE written == [t.annual EXCEPT ![t.year] = t.current]
<1>1. YearWritten(t) = [t EXCEPT !.annual = written, !.current = NoCounts]
  BY DEF YearWritten, Tallies
<1>2. written \in [Keys(ByYear) -> Counts]
  BY DEF Tallies
<1>3. NoCounts \in Counts
  BY NothingCounted
<1> HIDE DEF written
<1>4. QED
  BY <1>1, <1>2, <1>3 DEF Tallies, written

\* The hours D are in the year y or in earlier ones.
UpToYear(D, y) == \A h \in D : ByYear[h] <= y

\* u has the counters of t, those of the year y apart.
YearBegun(u, t, y, D) ==
  /\ u \in Tallies
  /\ u.month = t.month /\ u.monthHours = t.monthHours
  /\ u.season = t.season /\ u.seasonHours = t.seasonHours
  /\ u.annualHours = t.annualHours /\ u.full = t.full
  /\ u.current = CountsOf(Class(ByYear, y, D))
  /\ \A z \in Keys(ByYear) \ {y} : u.annual[z] = CountsOf(Class(ByYear, z, D))

LEMMA YearTurned ==
  ASSUME plan \in Plans, NEW D \in SUBSET Planned, NEW t, TallyFound(t, D),
         NEW y \in Int, UpToYear(D, y)
  PROVE  YearBegun(Turned(t, y), t, y, D)
<1>1. t \in Tallies /\ YearsFound(t, D)
  BY DEF TallyFound
<1>2. Absent \notin Int
  BY ReductionAssumption
<1>3. CASE t.year = Absent
  <2>1. Turned(t, y) = t /\ D = {} /\ t.current = NoCounts
    BY <1>1, <1>3 DEF Turned, YearsFound
  <2>2. Class(ByYear, y, D) = {}
    BY <2>1 DEF Class
  <2>3. t.current = CountsOf(Class(ByYear, y, D))
    BY <2>1, <2>2, NothingCounted
  <2>4. \A z \in Keys(ByYear) : z # Absent
    <3>1. ASSUME NEW z \in Keys(ByYear) PROVE z \in Int
      <4>1. PICK h \in Planned : z = Year(ValidMonth(h))
        BY DEF Keys, ByYear
      <4>2. ValidMonth(h) \in Nat
        BY PlannedHour
      <4>3. QED
        BY <4>1, <4>2 DEF Year
    <3>2. QED
      BY <3>1, <1>2
  <2>5. \A z \in Keys(ByYear) : t.annual[z] = CountsOf(Class(ByYear, z, D))
    BY <1>1, <1>3, <2>4 DEF YearsFound
  <2>6. QED
    BY <1>1, <2>1, <2>3, <2>5 DEF YearBegun
<1>4. CASE t.year = y
  <2>1. Turned(t, y) = t /\ t.year # Absent
    BY <1>2, <1>4 DEF Turned
  <2>2. t.current = CountsOf(Class(ByYear, y, D))
    BY <1>1, <1>4, <2>1 DEF YearsFound
  <2>3. \A z \in Keys(ByYear) \ {y} : t.annual[z] = CountsOf(Class(ByYear, z, D))
    BY <1>1, <1>4 DEF YearsFound
  <2>4. QED
    BY <1>1, <2>1, <2>2, <2>3 DEF YearBegun
<1>5. CASE t.year \notin {Absent, y}
  <2>1. Turned(t, y) = YearWritten(t)
    BY <1>5 DEF Turned
  <2>2. /\ t.current = CountsOf(Class(ByYear, t.year, D)) /\ t.year \in Int
        /\ \A h \in D : ByYear[h] <= t.year
    BY <1>1, <1>5 DEF YearsFound, Tallies
  <2>3. PICK g \in D : ByYear[g] = t.year
    BY <1>1, <1>5 DEF YearsFound
  <2>4. t.year \in Keys(ByYear) /\ t.year < y
    BY <1>5, <2>2, <2>3 DEF Keys, UpToYear
  <2>5. Class(ByYear, y, D) = {}
    <3>1. \A h \in D : ByYear[h] # y
      BY <2>2, <2>4
    <3>2. QED
      BY <3>1 DEF Class
  <2>6. /\ YearWritten(t) \in Tallies
        /\ YearWritten(t).annual = [t.annual EXCEPT ![t.year] = t.current]
        /\ YearWritten(t).current = NoCounts
        /\ YearWritten(t).month = t.month /\ YearWritten(t).monthHours = t.monthHours
        /\ YearWritten(t).season = t.season /\ YearWritten(t).seasonHours = t.seasonHours
        /\ YearWritten(t).annualHours = t.annualHours /\ YearWritten(t).full = t.full
    BY <1>1, <2>4, YearWrittenFields
  <2>7. NoCounts = CountsOf(Class(ByYear, y, D))
    BY <2>5, NothingCounted
  <2>8. ASSUME NEW z \in Keys(ByYear)
        PROVE  YearWritten(t).annual[z] = CountsOf(Class(ByYear, z, D))
    <3>1. CASE z = t.year
      <4>1. YearWritten(t).annual[z] = t.current
        BY <1>1, <2>6, <3>1 DEF Tallies
      <4>2. QED
        BY <2>2, <3>1, <4>1
    <3>2. CASE z # t.year
      <4>1. YearWritten(t).annual[z] = t.annual[z]
        BY <1>1, <2>6, <3>2 DEF Tallies
      <4>2. QED
        BY <1>1, <3>2, <4>1 DEF YearsFound
    <3>3. QED
      BY <3>1, <3>2
  <2>9. QED
    BY <2>1, <2>6, <2>7, <2>8 DEF YearBegun
<1>6. QED
  BY <1>3, <1>4, <1>5

\* What the counters become, one by one.
LEMMA FinalizeFields ==
  ASSUME NEW t, NEW m \in Nat, NEW n, NEW counts,
         NEW u, u = Turned(t, Year(m)), u \in Tallies
  PROVE  Finalize(t, [month |-> m, hours |-> n, counts |-> counts]) =
           [year |-> Year(m), current |-> Plus(u.current, counts),
            full |-> [c \in Cells |-> [k \in Codes |-> u.full[c][k] + counts[c][k]]],
            annual |-> u.annual,
            annualHours |-> [u.annualHours EXCEPT ![Year(m)] = (u.annualHours[Year(m)] + n) % CountLimit],
            month |-> [u.month EXCEPT ![MonthOfYear(m)] = Plus(u.month[MonthOfYear(m)], counts)],
            monthHours |-> [u.monthHours EXCEPT ![MonthOfYear(m)] = u.monthHours[MonthOfYear(m)] + n],
            season |-> [u.season EXCEPT ![Season(m)] = Plus(u.season[Season(m)], counts)],
            seasonHours |-> [u.seasonHours EXCEPT ![Season(m)] = u.seasonHours[Season(m)] + n]]
<1> DEFINE part == [month |-> m, hours |-> n, counts |-> counts]
<1>1. part.month = m /\ part.hours = n /\ part.counts = counts
  OBVIOUS
<1>2. Finalize(t, part) =
        [u EXCEPT
           !.year = Year(m),
           !.current = Plus(u.current, counts),
           !.annualHours = [u.annualHours EXCEPT ![Year(m)] = (u.annualHours[Year(m)] + n) % CountLimit],
           !.month = [u.month EXCEPT ![MonthOfYear(m)] = Plus(u.month[MonthOfYear(m)], counts)],
           !.monthHours = [u.monthHours EXCEPT ![MonthOfYear(m)] = u.monthHours[MonthOfYear(m)] + n],
           !.season = [u.season EXCEPT ![Season(m)] = Plus(u.season[Season(m)], counts)],
           !.seasonHours = [u.seasonHours EXCEPT ![Season(m)] = u.seasonHours[Season(m)] + n],
           !.full = [c \in Cells |-> [k \in Codes |-> u.full[c][k] + counts[c][k]]]]
  <2> HIDE DEF part
  <2>1. QED
    BY <1>1 DEF Finalize, Turned
<1>3. QED
  BY <1>2 DEF Tallies

\* The hours of a month, and those before it.
InMonth(E, m) == E # {} /\ \A h \in E : ValidMonth(h) = m
BeforeMonth(D, m) == \A h \in D : ValidMonth(h) < m

\* Where the hours of a month are counted.
LEMMA MonthKeys ==
  ASSUME plan \in Plans, NEW m \in Nat, NEW E \in SUBSET Planned, InMonth(E, m)
  PROVE  /\ MonthOfYear(m) \in Keys(ByMonth) /\ Class(ByMonth, MonthOfYear(m), E) = E
         /\ Season(m) \in Keys(BySeason) /\ Class(BySeason, Season(m), E) = E
         /\ Year(m) \in Keys(ByYear) /\ Class(ByYear, Year(m), E) = E
<1>1. PICK g \in E : ValidMonth(g) = m
  BY DEF InMonth
<1>2. \A h \in E : ByMonth[h] = MonthOfYear(m) /\ BySeason[h] = Season(m) /\ ByYear[h] = Year(m)
  BY DEF InMonth, ByMonth, BySeason, ByYear
<1>3. QED
  BY <1>1, <1>2 DEF Keys, Class

\* A tally takes a month that is later than all it has.
LEMMA FinalizeStep ==
  ASSUME plan \in Plans, NEW t, NEW D \in SUBSET Planned, TallyFound(t, D),
         NEW m \in Nat, NEW E \in SUBSET Planned,
         InMonth(E, m), BeforeMonth(D, m)
  PROVE  TallyFound(Finalize(t, PartOf(m, E)), D \union E)
<1> DEFINE f == Finalize(t, PartOf(m, E))
           u == Turned(t, Year(m))
           y == Year(m)
           F == D \union E
<1>0. E # {} /\ (\A h \in E : ValidMonth(h) = m) /\ \A h \in D : ValidMonth(h) < m
  BY DEF InMonth, BeforeMonth
<1>1. /\ MonthOfYear(m) \in Keys(ByMonth) /\ Class(ByMonth, MonthOfYear(m), E) = E
      /\ Season(m) \in Keys(BySeason) /\ Class(BySeason, Season(m), E) = E
      /\ y \in Keys(ByYear) /\ Class(ByYear, y, E) = E
  BY MonthKeys
<1>2. /\ D \intersect E = {} /\ F \in SUBSET Planned
      /\ IsFiniteSet(D) /\ IsFiniteSet(E) /\ Cardinality(E) \in Nat
  <2>1. \A h \in D : h \notin E
    <3>1. \A h \in D : ValidMonth(h) # m
      BY <1>0, PlannedHour
    <3>2. QED
      BY <1>0, <3>1
  <2>2. QED
    BY <2>1, PlannedFinite
<1>3. y \in Int /\ UpToYear(D, y)
  <2>1. y \in Int
    BY DEF Year
  <2>2. ASSUME NEW h \in D PROVE ByYear[h] <= y
    <3>1. ValidMonth(h) \in Nat /\ ValidMonth(h) <= m /\ h \in Planned
      BY <1>0, PlannedHour
    <3>2. Year(ValidMonth(h)) <= Year(m)
      BY <3>1, YearsFollowMonths
    <3>3. QED
      BY <3>1, <3>2 DEF ByYear
  <2>3. QED
    BY <2>1, <2>2 DEF UpToYear
<1>4. /\ u \in Tallies
      /\ u.month = t.month /\ u.monthHours = t.monthHours
      /\ u.season = t.season /\ u.seasonHours = t.seasonHours
      /\ u.annualHours = t.annualHours /\ u.full = t.full
      /\ u.current = CountsOf(Class(ByYear, y, D))
      /\ \A z \in Keys(ByYear) \ {y} : u.annual[z] = CountsOf(Class(ByYear, z, D))
  <2> HIDE DEF u, y
  <2>1. YearBegun(Turned(t, y), t, y, D)
    BY <1>3, YearTurned
  <2>2. u = Turned(t, y)
    BY DEF u, y
  <2>3. QED
    BY <2>1, <2>2 DEF YearBegun
<1>5. f = [year |-> y, current |-> Plus(u.current, CountsOf(E)),
           full |-> [c \in Cells |-> [k \in Codes |-> u.full[c][k] + CountsOf(E)[c][k]]],
           annual |-> u.annual,
           annualHours |-> [u.annualHours EXCEPT ![y] = (u.annualHours[y] + Cardinality(E)) % CountLimit],
           month |-> [u.month EXCEPT ![MonthOfYear(m)] = Plus(u.month[MonthOfYear(m)], CountsOf(E))],
           monthHours |-> [u.monthHours EXCEPT ![MonthOfYear(m)] = u.monthHours[MonthOfYear(m)] + Cardinality(E)],
           season |-> [u.season EXCEPT ![Season(m)] = Plus(u.season[Season(m)], CountsOf(E))],
           seasonHours |-> [u.seasonHours EXCEPT ![Season(m)] = u.seasonHours[Season(m)] + Cardinality(E)]]
  BY <1>4, FinalizeFields DEF PartOf
<1> HIDE DEF f, u, y, F
<1>6. /\ f.month \in [Keys(ByMonth) -> Counts] /\ f.monthHours \in [Keys(ByMonth) -> Nat]
      /\ Accumulated(f.month, f.monthHours, ByMonth, F)
  <2> DEFINE j == MonthOfYear(m)
  <2>1. /\ u.month \in [Keys(ByMonth) -> Counts] /\ u.monthHours \in [Keys(ByMonth) -> Nat]
        /\ Accumulated(u.month, u.monthHours, ByMonth, D)
    BY <1>4 DEF TallyFound, Tallies
  <2>2. /\ f.month = [u.month EXCEPT ![j] = Plus(u.month[j], CountsOf(E))]
        /\ f.monthHours = [u.monthHours EXCEPT ![j] = u.monthHours[j] + Cardinality(E)]
    BY <1>5
  <2> HIDE DEF j
  <2>3. j \in Keys(ByMonth) /\ Class(ByMonth, j, E) = E
    BY <1>1 DEF j
  <2>4. QED
    <3> DEFINE more == [u.month EXCEPT ![j] = Plus(u.month[j], CountsOf(E))]
               longer == [u.monthHours EXCEPT ![j] = u.monthHours[j] + Cardinality(E)]
    <3>1. /\ more \in [Keys(ByMonth) -> Counts] /\ longer \in [Keys(ByMonth) -> Nat]
          /\ Accumulated(more, longer, ByMonth, D \union E)
      BY <1>2, <2>1, <2>3, AccumulatedMore
    <3> HIDE DEF more, longer
    <3>2. f.month = more /\ f.monthHours = longer /\ F = D \union E
      BY <2>2 DEF more, longer, F
    <3>3. QED
      BY <3>1, <3>2
<1>7. /\ f.season \in [Keys(BySeason) -> Counts] /\ f.seasonHours \in [Keys(BySeason) -> Nat]
      /\ Accumulated(f.season, f.seasonHours, BySeason, F)
  <2> DEFINE j == Season(m)
  <2>1. /\ u.season \in [Keys(BySeason) -> Counts] /\ u.seasonHours \in [Keys(BySeason) -> Nat]
        /\ Accumulated(u.season, u.seasonHours, BySeason, D)
    BY <1>4 DEF TallyFound, Tallies
  <2>2. /\ f.season = [u.season EXCEPT ![j] = Plus(u.season[j], CountsOf(E))]
        /\ f.seasonHours = [u.seasonHours EXCEPT ![j] = u.seasonHours[j] + Cardinality(E)]
    BY <1>5
  <2> HIDE DEF j
  <2>3. j \in Keys(BySeason) /\ Class(BySeason, j, E) = E
    BY <1>1 DEF j
  <2>4. QED
    <3> DEFINE more == [u.season EXCEPT ![j] = Plus(u.season[j], CountsOf(E))]
               longer == [u.seasonHours EXCEPT ![j] = u.seasonHours[j] + Cardinality(E)]
    <3>1. /\ more \in [Keys(BySeason) -> Counts] /\ longer \in [Keys(BySeason) -> Nat]
          /\ Accumulated(more, longer, BySeason, D \union E)
      BY <1>2, <2>1, <2>3, AccumulatedMore
    <3> HIDE DEF more, longer
    <3>2. f.season = more /\ f.seasonHours = longer /\ F = D \union E
      BY <2>2 DEF more, longer, F
    <3>3. QED
      BY <3>1, <3>2
<1>8. ASSUME NEW z
      PROVE  /\ z # y => Class(ByYear, z, F) = Class(ByYear, z, D)
             /\ z = y => /\ CountsOf(Class(ByYear, z, F)) = Plus(CountsOf(Class(ByYear, z, D)), CountsOf(E))
                         /\ Cardinality(Class(ByYear, z, F)) = Cardinality(Class(ByYear, z, D)) + Cardinality(E)
  <2>1. F = D \union E
    BY DEF F
  <2>2. /\ z # y => Class(ByYear, z, D \union E) = Class(ByYear, z, D)
        /\ z = y => /\ CountsOf(Class(ByYear, z, D \union E)) = Plus(CountsOf(Class(ByYear, z, D)), CountsOf(E))
                    /\ Cardinality(Class(ByYear, z, D \union E)) = Cardinality(Class(ByYear, z, D)) + Cardinality(E)
    <3>1. D \intersect E = {} /\ y \in Keys(ByYear) /\ Class(ByYear, y, E) = E
      BY <1>1, <1>2
    <3>2. D \in SUBSET Planned /\ E \in SUBSET Planned
      OBVIOUS
    <3> HIDE DEF u, f, F, y
    <3>3. CASE z = y
      BY <3>1, <3>2, <3>3, ClassGrows
    <3>4. CASE z # y
      BY <3>1, <3>2, <3>4, ClassGrows
    <3>5. QED
      BY <3>3, <3>4
  <2>3. QED
    BY <2>1, <2>2
<1>9. /\ f.annualHours \in [Keys(ByYear) -> Nat]
      /\ \A z \in Keys(ByYear) : f.annualHours[z] = Cardinality(Class(ByYear, z, F)) % CountLimit
  <2>1. /\ t.annualHours \in [Keys(ByYear) -> Nat]
        /\ \A z \in Keys(ByYear) : t.annualHours[z] = Cardinality(Class(ByYear, z, D)) % CountLimit
    BY DEF TallyFound, YearsFound, Tallies
  <2> DEFINE x == Cardinality(Class(ByYear, y, D))
  <2>2. x \in Nat
    <3>1. Class(ByYear, y, D) \in SUBSET Planned
      BY DEF Class
    <3>2. QED
      BY <3>1, PlannedFinite
  <2>3. CountLimit \in Nat \ {0} /\ \A i \in Nat : i % CountLimit \in Nat
    BY ReductionAssumption
  <2> HIDE DEF x
  <2>4. ((x % CountLimit) + Cardinality(E)) % CountLimit = (x + Cardinality(E)) % CountLimit
    BY <1>2, <2>2, <2>3, ReducedSum
  <2>5. (x + Cardinality(E)) % CountLimit \in Nat
    BY <1>2, <2>2, <2>3
  <2>6. t.annualHours[y] = x % CountLimit /\ x + Cardinality(E) = Cardinality(Class(ByYear, y, F))
    BY <1>1, <1>8, <2>1 DEF x
  <2>7. f.annualHours = [t.annualHours EXCEPT ![y] = Cardinality(Class(ByYear, y, F)) % CountLimit]
    BY <1>4, <1>5, <2>4, <2>6
  <2>8. QED
    BY <1>8, <2>1, <2>5, <2>6, <2>7
<1>10. /\ f.year = y /\ f.current = CountsOf(Class(ByYear, y, F)) /\ f.annual = u.annual
       /\ f.current \in Counts
  <2>1. Class(ByYear, y, F) \in SUBSET Planned
    BY <1>2 DEF Class
  <2>2. CountsOf(Class(ByYear, y, F)) \in Counts
    BY <2>1, PlannedFinite, CountsTyped
  <2>3. QED
    BY <1>4, <1>5, <1>8, <2>2
<1>11. YearsFound(f, F)
  <2>1. f.year # Absent
    BY <1>3, <1>10, ReductionAssumption
  <2>2. \A z \in Keys(ByYear) \ {y} : f.annual[z] = CountsOf(Class(ByYear, z, F))
    BY <1>4, <1>8, <1>10
  <2>3. (\E h \in F : ByYear[h] = y) /\ \A h \in F : ByYear[h] <= y
    <3>1. \A h \in E : ByYear[h] = y
      BY <1>1 DEF Class
    <3>2. QED
      BY <1>0, <1>3, <3>1 DEF F, UpToYear
  <2>4. QED
    BY <1>9, <1>10, <2>1, <2>2, <2>3 DEF YearsFound
<1>12. f.full \in Counts /\ Tallied(f.full, F)
  <2>1. Tallied(t.full, D) /\ Tallied(CountsOf(E), E)
    <3>1. \A h \in E : Year(ValidMonth(h)) = y
      BY <1>0 DEF y
    <3>2. Cardinality(E) < CountLimit
      BY <3>1, YearFits
    <3>3. QED
      BY <1>2, <3>2, CountsExact DEF TallyFound
  <2>2. ASSUME NEW c \in Cells, NEW k \in Codes
        PROVE  /\ t.full[c][k] + CountsOf(E)[c][k] = Cardinality(With(F, c, k))
               /\ Cardinality(With(F, c, k)) \in Nat
    <3>1. t.full[c][k] = Cardinality(With(D, c, k)) /\ CountsOf(E)[c][k] = Cardinality(With(E, c, k))
      BY <2>1 DEF Tallied, With
    <3>2. Cardinality(With(F, c, k)) = Cardinality(With(D, c, k)) + Cardinality(With(E, c, k))
      BY <1>2, WithAdds DEF F
    <3>3. IsFiniteSet(F)
      BY <1>2, PlannedFinite
    <3>4. QED
      BY <3>1, <3>2, <3>3, CountsTyped
  <2>3. f.full = [c \in Cells |-> [k \in Codes |-> t.full[c][k] + CountsOf(E)[c][k]]]
    BY <1>4, <1>5
  <2>4. f.full = [c \in Cells |-> [k \in Codes |-> Cardinality(With(F, c, k))]]
    BY <2>2, <2>3
  <2>5. f.full \in Counts
    BY <2>2, <2>4 DEF Counts
  <2>6. Tallied(f.full, F)
    BY <2>4 DEF Tallied, With
  <2>7. QED
    BY <2>5, <2>6
<1>13. f \in Tallies
  <2>1. u.annual \in [Keys(ByYear) -> Counts]
    BY <1>4 DEF Tallies
  <2>2. QED
    BY <1>3, <1>5, <1>6, <1>7, <1>9, <1>10, <1>12, <2>1 DEF Tallies
<1>14. QED
  BY <1>6, <1>7, <1>11, <1>12, <1>13 DEF TallyFound, f, F

-----------------------------------------------------------------------------
(* Contributions are merged one by one.                                    *)

UpToMonth(D, m) == \A h \in D : ValidMonth(h) <= m

LEMMA PartTyped ==
  ASSUME plan \in Plans, NEW m \in Nat, NEW D \in SUBSET Planned
  PROVE  PartOf(m, OfMonth(m, D)) \in Parts /\ PartOf(m, OfMonth(m, D)) # Absent
<1> DEFINE E == OfMonth(m, D)
<1>1. E \in SUBSET Planned
  BY DEF OfMonth
<1> HIDE DEF E
<1>2. IsFiniteSet(E) /\ Cardinality(E) \in Nat
  BY <1>1, PlannedFinite
<1>3. CountsOf(E) \in Counts
  BY <1>2, CountsTyped
<1>4. PartOf(m, E) \in Parts
  BY <1>2, <1>3 DEF PartOf, Parts
<1>5. QED
  BY <1>4, ReductionAssumption DEF E

\* The latest valid month of the hours D is pending, the others are tallied.
LEMMA MergeFoundPending ==
  ASSUME NEW m \in Nat, NEW D, NEW t, OfMonth(m, D) # {}, PartOf(m, OfMonth(m, D)) # Absent,
         UpToMonth(D, m), TallyFound(t, D \ OfMonth(m, D))
  PROVE  MergeFound([pending |-> PartOf(m, OfMonth(m, D)), tally |-> t], D)
BY DEF MergeFound, UpToMonth

\* A contribution is merged.
LEMMA MergeOneStep ==
  ASSUME plan \in Plans, NEW a, NEW D \in SUBSET Planned, MergeFound(a, D),
         NEW m \in Nat, NEW E \in SUBSET Planned,
         InMonth(E, m), UpToMonth(D, m), D \intersect E = {}
  PROVE  MergeFound(MergeOne(a, PartOf(m, E)), D \union E)
<1> DEFINE F == D \union E
           b == MergeOne(a, PartOf(m, E))
<1>1. /\ PartOf(m, E).month = m /\ PartOf(m, E).hours = Cardinality(E) /\ PartOf(m, E).counts = CountsOf(E)
      /\ E # {} /\ (\A h \in E : ValidMonth(h) = m) /\ \A h \in D : ValidMonth(h) <= m
  BY DEF PartOf, InMonth, UpToMonth
<1>2. OfMonth(m, F) = OfMonth(m, D) \union E /\ OfMonth(m, F) # {} /\ \A h \in F : ValidMonth(h) <= m
  <2>1. \A h \in E : ValidMonth(h) <= m
    BY <1>1
  <2>2. QED
    BY <1>1, <2>1 DEF OfMonth
<1>3. F \ OfMonth(m, F) = D \ OfMonth(m, D)
  BY <1>1 DEF OfMonth
<1>4. CASE a.pending = Absent
  <2>1. D = {} /\ TallyFound(a.tally, {})
    BY <1>4 DEF MergeFound
  <2>2. b = [pending |-> PartOf(m, E), tally |-> a.tally]
    BY <1>4 DEF MergeOne
  <2>3. OfMonth(m, F) = E /\ F \ OfMonth(m, F) = {}
    BY <1>2, <2>1 DEF OfMonth
  <2>4. F \in SUBSET Planned
    OBVIOUS
  <2> HIDE DEF F, b
  <2>5. PartOf(m, OfMonth(m, F)) # Absent
    BY <2>4, PartTyped
  <2>6. TallyFound(a.tally, F \ OfMonth(m, F))
    BY <2>1, <2>3
  <2>7. MergeFound([pending |-> PartOf(m, OfMonth(m, F)), tally |-> a.tally], F)
    BY <1>2, <2>5, <2>6, MergeFoundPending DEF UpToMonth
  <2>8. b = [pending |-> PartOf(m, OfMonth(m, F)), tally |-> a.tally]
    BY <2>2, <2>3
  <2>9. MergeFound(b, F)
    BY <2>7, <2>8
  <2>10. QED
    BY <2>9 DEF b, F
<1> DEFINE n == a.pending.month
           mine == OfMonth(n, D)
<1>5. ASSUME a.pending # Absent
      PROVE  /\ n \in Nat /\ mine # {} /\ a.pending = PartOf(n, mine) /\ TallyFound(a.tally, D \ mine)
             /\ a = [pending |-> a.pending, tally |-> a.tally] /\ \A h \in D : ValidMonth(h) <= n
  <2>1. PICK k \in Nat : /\ OfMonth(k, D) # {} /\ a.pending = PartOf(k, OfMonth(k, D))
                         /\ \A h \in D : ValidMonth(h) <= k
                         /\ TallyFound(a.tally, D \ OfMonth(k, D))
    BY <1>5 DEF MergeFound
  <2>2. a.pending.month = k
    BY <2>1 DEF PartOf
  <2>3. QED
    BY <2>1, <2>2 DEF MergeFound
<1>6. CASE a.pending # Absent /\ a.pending.month = m
  <2>1. /\ mine # {} /\ a.pending = PartOf(m, mine) /\ TallyFound(a.tally, D \ mine) /\ n = m
        /\ a = [pending |-> a.pending, tally |-> a.tally]
    BY <1>5, <1>6
  <2>2. /\ mine \in SUBSET Planned /\ IsFiniteSet(mine) /\ IsFiniteSet(E) /\ mine \intersect E = {}
        /\ Cardinality(mine) \in Nat /\ Cardinality(E) \in Nat
    <3>1. mine \in SUBSET D
      BY DEF OfMonth
    <3> HIDE DEF mine
    <3>2. QED
      BY <3>1, PlannedFinite
  <2> HIDE DEF mine
  <2>3. Plus(CountsOf(mine), CountsOf(E)) = CountsOf(mine \union E)
    BY <2>2, CountsAdd
  <2>4. Cardinality(mine \union E) = Cardinality(mine) + Cardinality(E)
    <3>1. Cardinality(mine \union E) = Cardinality(mine) + Cardinality(E) - Cardinality(mine \intersect E)
      BY <2>2, FS_Union
    <3>2. Cardinality(mine \intersect E) = 0
      BY <2>2, FS_EmptySet
    <3>3. QED
      BY <2>2, <3>1, <3>2
  <2>5. b = [pending |-> [month |-> m, hours |-> a.pending.hours + Cardinality(E),
                          counts |-> Plus(a.pending.counts, CountsOf(E))], tally |-> a.tally]
    <3>1. b = [a EXCEPT !.pending.hours = @ + Cardinality(E), !.pending.counts = Plus(@, CountsOf(E))]
      BY <1>1, <1>6 DEF MergeOne
    <3>2. a.pending = [month |-> m, hours |-> a.pending.hours, counts |-> a.pending.counts]
      BY <2>1 DEF PartOf
    <3> HIDE DEF b
    <3>3. QED
      BY <2>1, <3>1, <3>2
  <2>6. a.pending.hours = Cardinality(mine) /\ a.pending.counts = CountsOf(mine)
    BY <2>1 DEF PartOf
  <2>7. b = [pending |-> PartOf(m, mine \union E), tally |-> a.tally]
    BY <2>3, <2>4, <2>5, <2>6 DEF PartOf
  <2>8. OfMonth(m, F) = mine \union E /\ F \ OfMonth(m, F) = D \ mine
    BY <1>2, <1>3, <2>1 DEF mine
  <2>9. PartOf(m, OfMonth(m, F)) # Absent
    <3>1. F \in SUBSET Planned
      OBVIOUS
    <3>2. QED
      BY <3>1, PartTyped
  <2> HIDE DEF F, b
  <2>10. MergeFound([pending |-> PartOf(m, OfMonth(m, F)), tally |-> a.tally], F)
    BY <1>2, <2>1, <2>8, <2>9, MergeFoundPending DEF UpToMonth
  <2>11. b = [pending |-> PartOf(m, OfMonth(m, F)), tally |-> a.tally]
    BY <2>7, <2>8
  <2>12. MergeFound(b, F)
    BY <2>10, <2>11
  <2>13. QED
    BY <2>12 DEF b, F
<1>7. CASE a.pending # Absent /\ a.pending.month # m
  <2>1. /\ n \in Nat /\ mine # {} /\ a.pending = PartOf(n, mine) /\ TallyFound(a.tally, D \ mine)
        /\ n # m /\ \A h \in D : ValidMonth(h) <= n
    BY <1>5, <1>7
  <2> DEFINE T == D \ mine
             t == Finalize(a.tally, PartOf(n, mine))
  <2>2. mine \in SUBSET Planned /\ T \in SUBSET Planned /\ T \union mine = D
    BY DEF OfMonth
  <2>3. InMonth(mine, n)
    BY <2>1 DEF InMonth, OfMonth
  <2>4. BeforeMonth(T, n)
    <3>1. ASSUME NEW h \in T PROVE ValidMonth(h) < n
      <4>1. h \in Planned /\ h \in D /\ ValidMonth(h) # n
        BY DEF OfMonth
      <4>2. ValidMonth(h) \in Nat /\ ValidMonth(h) <= n
        BY <2>1, <4>1, PlannedHour
      <4>3. QED
        BY <2>1, <4>1, <4>2
    <3>2. QED
      BY <3>1 DEF BeforeMonth
  <2>5. OfMonth(m, D) = {}
    <3>1. PICK h \in D : ValidMonth(h) = n
      BY <2>1 DEF OfMonth
    <3>2. n <= m
      BY <1>1, <3>1
    <3>3. n < m
      BY <2>1, <3>2
    <3>4. ASSUME NEW g \in D PROVE ValidMonth(g) # m
      <4>1. ValidMonth(g) \in Nat /\ ValidMonth(g) <= n
        BY <2>1, PlannedHour
      <4>2. QED
        BY <2>1, <3>3, <4>1
    <3>5. QED
      BY <3>4 DEF OfMonth
  <2>6. OfMonth(m, F) = E /\ F \ OfMonth(m, F) = D
    BY <1>2, <1>3, <2>5
  <2>7. b = [pending |-> PartOf(m, E), tally |-> t]
    <3>1. ~(a.pending # Absent /\ a.pending.month = PartOf(m, E).month) /\ a.pending = PartOf(n, mine)
      BY <1>1, <1>7, <2>1
    <3> HIDE DEF n, mine
    <3>2. QED
      BY <1>7, <3>1 DEF MergeOne
  <2> HIDE DEF n, mine, T
  <2>8. TallyFound(t, T \union mine)
    BY <2>1, <2>2, <2>3, <2>4, FinalizeStep DEF T
  <2>9. PartOf(m, OfMonth(m, F)) # Absent
    <3>1. F \in SUBSET Planned
      OBVIOUS
    <3>2. QED
      BY <3>1, PartTyped
  <2> HIDE DEF F, b, t
  <2>10. TallyFound(t, F \ OfMonth(m, F))
    BY <2>2, <2>6, <2>8
  <2>11. MergeFound([pending |-> PartOf(m, OfMonth(m, F)), tally |-> t], F)
    BY <1>2, <2>9, <2>10, MergeFoundPending DEF UpToMonth
  <2>12. b = [pending |-> PartOf(m, OfMonth(m, F)), tally |-> t]
    BY <2>6, <2>7
  <2>13. MergeFound(b, F)
    BY <2>11, <2>12
  <2>14. QED
    BY <2>13 DEF b, F
<1>8. QED
  BY <1>4, <1>6, <1>7

\* Contributions with the hours H, one for each valid month, in order.
MonthlyParts(parts, H) ==
  /\ Len(parts) \in Nat /\ DOMAIN parts = 1..Len(parts)
  /\ \A i \in DOMAIN parts :
       LET m == parts[i].month
       IN  m \in Nat /\ OfMonth(m, H) # {} /\ parts[i] = PartOf(m, OfMonth(m, H))
  /\ \A i, j \in DOMAIN parts : i < j => parts[i].month < parts[j].month
  /\ \A h \in H : \E i \in DOMAIN parts : ValidMonth(h) = parts[i].month

\* What a monthly task leaves.
LEMMA ContributionsInOrder ==
  ASSUME plan \in Plans, NEW p \in DOMAIN plan
  PROVE  MonthlyParts(Contributions(p), PlannedHours(plan[p]))
<1> DEFINE H == PlannedHours(plan[p])
           months == {ValidMonth(h) : h \in H}
           nth(i) == CHOOSE m \in months : Rank(months, m) = i - 1
           N == Cardinality(months)
           parts == Contributions(p)
<1>1. H \in SUBSET Planned
  BY DEF Planned
<1> HIDE DEF H
<1>2. \A h \in H : ValidMonth(h) \in Nat
  BY <1>1, PlannedHour
<1>3. months \in SUBSET Nat /\ IsFiniteSet(months) /\ N \in Nat
  <2> DEFINE f == [h \in H |-> ValidMonth(h)]
  <2>1. f \in Surjection(H, months)
    BY DEF Surjection
  <2>2. IsFiniteSet(H)
    BY <1>1, PlannedFinite
  <2>3. months \in SUBSET Nat
    BY <1>2
  <2> HIDE DEF f, months
  <2>4. QED
    BY <2>1, <2>2, <2>3, FS_Surjection, FS_CardinalityType
<1>4. parts = [i \in 1..N |-> PartOf(nth(i), OfMonth(nth(i), H))]
  <2>1. \A i : Cardinality({n \in months : n < i}) = Rank(months, i)
    BY DEF Rank
  <2>2. QED
    BY <2>1 DEF Contributions, H, PartOf, OfMonth, Rank
<1> HIDE DEF parts, N
<1>5. ASSUME NEW i \in 1..N
      PROVE  /\ nth(i) \in months /\ Rank(months, nth(i)) = i - 1 /\ nth(i) \in Nat
  <2>1. \E m \in months : Rank(months, m) = i - 1
    <3> HIDE DEF months
    <3>1. QED
      BY <1>3, NthExists DEF N
  <2> HIDE DEF months
  <2>2. nth(i) \in months /\ Rank(months, nth(i)) = i - 1
    BY <2>1
  <2> HIDE DEF nth
  <2>3. QED
    BY <1>3, <2>2
<1> HIDE DEF nth
<1>6. ASSUME NEW i \in 1..N
      PROVE  /\ parts[i].month = nth(i) /\ parts[i] = PartOf(nth(i), OfMonth(nth(i), H))
             /\ OfMonth(nth(i), H) # {}
  <2>1. parts[i] = PartOf(nth(i), OfMonth(nth(i), H))
    BY <1>4
  <2>2. parts[i].month = nth(i)
    BY <2>1 DEF PartOf
  <2>3. OfMonth(nth(i), H) # {}
    BY <1>5 DEF OfMonth
  <2>4. QED
    BY <2>1, <2>2, <2>3
<1>7. /\ Len(parts) = N /\ DOMAIN parts = 1..N
  BY <1>3, <1>4
<1> HIDE DEF months
<1>8. ASSUME NEW i \in 1..N, NEW j \in 1..N, i < j
      PROVE  nth(i) < nth(j)
  <2>1. /\ nth(i) \in months /\ Rank(months, nth(i)) = i - 1 /\ nth(i) \in Nat
        /\ nth(j) \in months /\ Rank(months, nth(j)) = j - 1 /\ nth(j) \in Nat
    BY <1>5
  <2>2. CASE nth(j) < nth(i)
    <3>1. Rank(months, nth(j)) < Rank(months, nth(i))
      BY <1>3, <2>1, <2>2, RankGrows
    <3>2. QED
      BY <1>8, <2>1, <3>1
  <2>3. CASE nth(j) = nth(i)
    BY <1>8, <2>1, <2>3
  <2>4. QED
    BY <2>1, <2>2, <2>3
<1>9. ASSUME NEW h \in H
      PROVE  \E i \in 1..N : ValidMonth(h) = nth(i)
  <2> DEFINE m == ValidMonth(h)
  <2>1. m \in months
    BY DEF months
  <2> HIDE DEF m
  <2>2. PICK r \in 0..(N - 1) : Rank(months, m) = r
    BY <1>3, <2>1, RankType DEF N
  <2>3. r + 1 \in 1..N /\ (r + 1) - 1 = r
    BY <1>3
  <2>4. nth(r + 1) \in months /\ Rank(months, nth(r + 1)) = r /\ nth(r + 1) \in Nat /\ m \in Nat
    BY <1>3, <1>5, <2>1, <2>3
  <2>5. ~(m < nth(r + 1)) /\ ~(nth(r + 1) < m)
    <3>1. ASSUME m < nth(r + 1) PROVE FALSE
      <4>1. Rank(months, m) < Rank(months, nth(r + 1))
        BY <1>3, <2>1, <2>4, <3>1, RankGrows
      <4>2. QED
        BY <2>2, <2>4, <4>1
    <3>2. ASSUME nth(r + 1) < m PROVE FALSE
      <4>1. Rank(months, nth(r + 1)) < Rank(months, m)
        BY <1>3, <2>1, <2>4, <3>2, RankGrows
      <4>2. QED
        BY <2>2, <2>4, <4>1
    <3>3. QED
      BY <3>1, <3>2
  <2>6. m = nth(r + 1)
    BY <2>4, <2>5
  <2>7. QED
    BY <2>3, <2>6 DEF m
<1>10. ASSUME NEW i \in DOMAIN parts
       PROVE  LET m == parts[i].month
              IN  m \in Nat /\ OfMonth(m, H) # {} /\ parts[i] = PartOf(m, OfMonth(m, H))
  BY <1>5, <1>6, <1>7
<1>11. \A i, j \in DOMAIN parts : i < j => parts[i].month < parts[j].month
  BY <1>6, <1>7, <1>8
<1>12. \A h \in H : \E i \in DOMAIN parts : ValidMonth(h) = parts[i].month
  BY <1>6, <1>7, <1>9
<1>13. MonthlyParts(parts, H)
  BY <1>3, <1>7, <1>10, <1>11, <1>12 DEF MonthlyParts
<1>14. QED
  BY <1>13 DEF parts, H

\* The loop over the contributions takes them one by one.
LEMMA MergedOneByOne ==
  ASSUME NEW a, NEW parts, Len(parts) \in Nat
  PROVE  \E f : /\ f[0] = a /\ f[Len(parts)] = Merged(a, parts)
                /\ \A i \in 1..Len(parts) : f[i] = MergeOne(f[i - 1], parts[i])
<1> DEFINE Goes(f, n) ==
             f = [i \in 0..n |-> IF i = 0 THEN a ELSE MergeOne(f[i - 1], parts[i])]
           S == {n \in Nat : \E f : Goes(f, n)}
<1>1. 0 \in S
  <2>1. Goes([i \in 0..0 |-> a], 0)
    OBVIOUS
  <2>2. QED
    BY <2>1
<1>2. ASSUME NEW n \in Nat, n \in S
      PROVE  n + 1 \in S
  <2>1. PICK f : Goes(f, n)
    BY <1>2
  <2> DEFINE g == [i \in 0..(n + 1) |-> IF i = n + 1 THEN MergeOne(f[n], parts[n + 1]) ELSE f[i]]
  <2>2. ASSUME NEW i \in 0..(n + 1)
        PROVE  g[i] = IF i = 0 THEN a ELSE MergeOne(g[i - 1], parts[i])
    <3>1. CASE i = n + 1
      <4>1. g[i - 1] = f[n] /\ i - 1 = n
        BY <3>1
      <4>2. QED
        BY <3>1, <4>1
    <3>2. CASE i \in 1..n
      <4>1. i - 1 \in 0..n /\ g[i - 1] = f[i - 1] /\ g[i] = f[i]
        BY <3>2
      <4>2. f[i] = MergeOne(f[i - 1], parts[i])
        BY <2>1, <3>2
      <4>3. QED
        BY <3>2, <4>1, <4>2
    <3>3. CASE i = 0
      BY <2>1, <3>3
    <3>4. QED
      BY <3>1, <3>2, <3>3
  <2>3. Goes(g, n + 1)
    <3>1. DOMAIN g = 0..(n + 1) /\ g = [i \in 0..(n + 1) |-> g[i]]
      OBVIOUS
    <3> HIDE DEF g
    <3>2. QED
      BY <3>1, <2>2
  <2> HIDE DEF g, Goes
  <2>4. QED
    BY <2>3
<1> HIDE DEF S
<1>3. Nat \subseteq S
  BY <1>1, <1>2, NatSetInduction
<1>4. Len(parts) \in S
  BY <1>3
<1>5. \E f : Goes(f, Len(parts))
  BY <1>4 DEF S
<1> DEFINE after == CHOOSE f : Goes(f, Len(parts))
<1>6. Goes(after, Len(parts))
  BY <1>5
<1>7. Merged(a, parts) = after[Len(parts)]
  BY DEF Merged
<1> HIDE DEF after
<1>8. \A i \in 0..Len(parts) :
        after[i] = IF i = 0 THEN a ELSE MergeOne(after[i - 1], parts[i])
  BY <1>6
<1>9. QED
  BY <1>7, <1>8

\* The hours H are in the last valid month of the hours D or in later ones.
Follow(H, D) == \A g \in D : \A h \in H : ValidMonth(g) <= ValidMonth(h)

\* The contributions of an archive month are merged.
LEMMA PartsMerged ==
  ASSUME plan \in Plans, NEW a, NEW D \in SUBSET Planned, MergeFound(a, D),
         NEW H \in SUBSET Planned, NEW parts, MonthlyParts(parts, H),
         D \intersect H = {}, Follow(H, D)
  PROVE  MergeFound(Merged(a, parts), D \union H)
<1> DEFINE N == Len(parts)
           UpTo(n) == {h \in H : \E i \in 1..n : ValidMonth(h) = parts[i].month}
<1>1. /\ N \in Nat /\ DOMAIN parts = 1..N
      /\ \A i \in 1..N : LET m == parts[i].month
                         IN  m \in Nat /\ OfMonth(m, H) # {} /\ parts[i] = PartOf(m, OfMonth(m, H))
      /\ \A i, j \in 1..N : i < j => parts[i].month < parts[j].month
      /\ \A h \in H : \E i \in 1..N : ValidMonth(h) = parts[i].month
  BY DEF MonthlyParts
<1>2. PICK f : /\ f[0] = a /\ f[N] = Merged(a, parts)
               /\ \A i \in 1..N : f[i] = MergeOne(f[i - 1], parts[i])
  BY <1>1, MergedOneByOne
<1> DEFINE S == {n \in Nat : n <= N => MergeFound(f[n], D \union UpTo(n))}
<1>3. 0 \in S
  <2>1. D \union UpTo(0) = D
    OBVIOUS
  <2>2. QED
    BY <1>2, <2>1
<1> HIDE DEF N
<1>4. ASSUME NEW n \in Nat, n \in S
      PROVE  n + 1 \in S
  <2> SUFFICES ASSUME n + 1 <= N PROVE MergeFound(f[n + 1], D \union UpTo(n + 1))
    OBVIOUS
  <2> DEFINE m == parts[n + 1].month
             E == OfMonth(m, H)
             F == D \union UpTo(n)
  <2>1. n + 1 \in 1..N /\ n <= N /\ (n + 1) - 1 = n
    BY <1>1
  <2>2. m \in Nat /\ E # {} /\ parts[n + 1] = PartOf(m, E) /\ f[n + 1] = MergeOne(f[n], PartOf(m, E))
    BY <1>1, <1>2, <2>1
  <2>3. F \in SUBSET Planned /\ E \in SUBSET Planned /\ MergeFound(f[n], F)
    BY <1>4, <2>1 DEF OfMonth
  <2>4. \A i \in 1..n : parts[i].month < m /\ parts[i].month \in Nat
    BY <1>1, <2>1
  <2>5. \A h \in UpTo(n) : ValidMonth(h) \in Nat /\ ValidMonth(h) < m
    BY <2>4
  <2>6. InMonth(E, m)
    BY <2>2 DEF InMonth, OfMonth
  <2>7. UpTo(n + 1) = UpTo(n) \union E
    <3>1. 1..(n + 1) = (1..n) \union {n + 1}
      OBVIOUS
    <3>2. QED
      BY <3>1 DEF OfMonth
  <2>8. F \intersect E = {}
    <3>1. \A h \in UpTo(n) : h \notin E
      BY <2>2, <2>5 DEF OfMonth
    <3>2. E \in SUBSET H
      BY DEF OfMonth
    <3> HIDE DEF E, UpTo
    <3>3. QED
      BY <3>1, <3>2
  <2>9. UpToMonth(F, m)
    <3>1. PICK e \in E : e \in H /\ ValidMonth(e) = m
      BY <2>2 DEF OfMonth
    <3>2. \A g \in D : ValidMonth(g) <= m
      BY <3>1 DEF Follow
    <3>3. \A g \in UpTo(n) : ValidMonth(g) <= m
      BY <2>2, <2>5
    <3> HIDE DEF UpTo, m, E
    <3>4. QED
      BY <3>2, <3>3 DEF UpToMonth
  <2> HIDE DEF m, E, F
  <2>10. MergeFound(MergeOne(f[n], PartOf(m, E)), F \union E)
    BY <2>2, <2>3, <2>6, <2>8, <2>9, MergeOneStep
  <2>11. F \union E = D \union UpTo(n + 1)
    BY <2>7 DEF F
  <2> HIDE DEF UpTo
  <2>12. QED
    BY <2>2, <2>10, <2>11
<1> HIDE DEF S
<1>5. Nat \subseteq S
  BY <1>3, <1>4, NatSetInduction
<1>6. N \in S /\ N <= N
  BY <1>1, <1>5
<1>7. UpTo(N) = H
  BY <1>1
<1>8. MergeFound(f[N], D \union UpTo(N))
  BY <1>6 DEF S
<1> HIDE DEF UpTo
<1>9. QED
  BY <1>2, <1>7, <1>8

\* An archive month follows those before it.
LEMMA MonthFollows ==
  ASSUME plan \in Plans, NEW n \in 1..Len(plan)
  PROVE  LET H == PlannedHours(plan[n])
             D == HoursBefore(n)
         IN  /\ D \in SUBSET Planned /\ H \in SUBSET Planned /\ n \in DOMAIN plan
             /\ D \intersect H = {} /\ Follow(H, D) /\ HoursBefore(n + 1) = D \union H
<1> DEFINE H == PlannedHours(plan[n])
           D == HoursBefore(n)
           hours == ExpectedHours(plan[n])
<1>1. /\ n \in DOMAIN plan /\ DOMAIN plan = 1..Len(plan) /\ hours \in Seq(Int)
      /\ HoursBefore(n + 1) = D \union {hours[i] : i \in DOMAIN hours}
      /\ \A g \in D : \A i \in DOMAIN hours : g < hours[i]
  BY MonthByMonth
<1>2. H = {hours[i] : i \in DOMAIN hours}
  <2>1. plan[n] \in Seq(Days)
    BY <1>1, ReductionAssumption
  <2>2. DOMAIN hours = 1..(StepsPerCycle * Len(plan[n]))
    BY <2>1, HourOfMonth
  <2>3. QED
    BY <2>2 DEF PlannedHours
<1>3. H \in SUBSET Planned
  BY <1>1 DEF Planned
<1>4. D \in SUBSET Planned
  <2>1. \A p \in 1..(n - 1) : p \in DOMAIN plan
    BY <1>1, MonthByMonth
  <2>2. QED
    BY <2>1 DEF HoursBefore, Planned
<1> HIDE DEF hours
<1>5. \A g \in D : \A h \in H : g < h
  BY <1>1, <1>2
<1> HIDE DEF H, D
<1>6. \A g \in D : \A h \in H : g \in Nat /\ h \in Nat /\ g <= h /\ g # h
  <2>1. \A g \in Planned : g \in Nat
    BY PlannedHour
  <2>2. QED
    BY <1>3, <1>4, <1>5, <2>1
<1>7. Follow(H, D)
  BY <1>3, <1>4, <1>6, MonthsFollowHours DEF Follow
<1>8. D \intersect H = {}
  BY <1>6
<1>9. QED
  BY <1>1, <1>2, <1>3, <1>4, <1>7, <1>8 DEF H, D

LEMMA SomethingPlanned ==
  ASSUME plan \in Plans
  PROVE  Planned # {}
<1>1. PICK p \in DOMAIN plan : plan[p] # <<>>
  BY CalendarAssumption
<1>2. plan[p] \in Seq(Days) /\ StepsPerCycle \in Nat \ {0}
  BY ReductionAssumption
<1>3. Len(plan[p]) \in Nat \ {0}
  BY <1>1, <1>2
<1>4. StepsPerCycle * Len(plan[p]) \in Nat \ {0}
  BY <1>2, <1>3
<1>5. ExpectedHours(plan[p])[1] \in PlannedHours(plan[p])
  BY <1>4 DEF PlannedHours
<1>6. QED
  BY <1>5 DEF Planned

\* When all contributions have been merged, the last month and the last year
\* are flushed.
LEMMA FlushedAll ==
  ASSUME plan \in Plans, NEW a, MergeFound(a, Planned)
  PROVE  AllTallied(Flush(a.tally, a.pending))
<1>1. PICK m \in Nat : /\ OfMonth(m, Planned) # {} /\ a.pending = PartOf(m, OfMonth(m, Planned))
                       /\ \A h \in Planned : ValidMonth(h) <= m
                       /\ TallyFound(a.tally, Planned \ OfMonth(m, Planned))
  BY SomethingPlanned DEF MergeFound
<1> DEFINE E == OfMonth(m, Planned)
           D == Planned \ E
           t == Finalize(a.tally, PartOf(m, E))
           u == YearWritten(t)
<1>2. E \in SUBSET Planned /\ D \in SUBSET Planned /\ D \union E = Planned
  BY DEF OfMonth
<1>3. InMonth(E, m)
  BY <1>1 DEF InMonth, OfMonth
<1>4. BeforeMonth(D, m)
  <2>1. ASSUME NEW h \in D PROVE ValidMonth(h) < m
    <3>1. ValidMonth(h) # m /\ ValidMonth(h) <= m
      BY <1>1 DEF OfMonth
    <3>2. ValidMonth(h) \in Nat
      BY PlannedHour
    <3>3. QED
      BY <3>1, <3>2
  <2>2. QED
    BY <2>1 DEF BeforeMonth
<1>5. TallyFound(a.tally, D)
  BY <1>1
<1>6. u = Flush(a.tally, a.pending)
  BY <1>1 DEF Flush
<1> HIDE DEF E, D
<1>7. TallyFound(t, Planned)
  <2>1. TallyFound(t, D \union E)
    BY <1>2, <1>3, <1>4, <1>5, FinalizeStep
  <2> HIDE DEF t
  <2>2. QED
    BY <1>2, <2>1
<1> HIDE DEF t
<1>8. /\ t \in Tallies /\ YearsFound(t, Planned)
      /\ Accumulated(t.month, t.monthHours, ByMonth, Planned)
      /\ Accumulated(t.season, t.seasonHours, BySeason, Planned)
      /\ Tallied(t.full, Planned)
  BY <1>7 DEF TallyFound
<1>9. /\ t.year # Absent /\ t.current = CountsOf(Class(ByYear, t.year, Planned))
      /\ \E h \in Planned : ByYear[h] = t.year
  BY <1>8, SomethingPlanned DEF YearsFound
<1>10. t.year \in Keys(ByYear)
  BY <1>9 DEF Keys
<1>11. /\ u \in Tallies
       /\ u.annual = [t.annual EXCEPT ![t.year] = t.current]
       /\ u.month = t.month /\ u.monthHours = t.monthHours
       /\ u.season = t.season /\ u.seasonHours = t.seasonHours
       /\ u.annualHours = t.annualHours /\ u.full = t.full
  BY <1>8, <1>10, YearWrittenFields
<1> HIDE DEF u
<1>12. ASSUME NEW y \in Keys(ByYear)
       PROVE  /\ u.annual[y] = CountsOf(Class(ByYear, y, Planned))
              /\ u.annualHours[y] = Cardinality(Class(ByYear, y, Planned))
  <2>1. u.annual[y] = CountsOf(Class(ByYear, y, Planned))
    <3>1. CASE y = t.year
      BY <1>8, <1>9, <1>11, <3>1 DEF Tallies
    <3>2. CASE y # t.year
      <4>1. u.annual[y] = t.annual[y]
        BY <1>8, <1>11, <3>2 DEF Tallies
      <4>2. QED
        BY <1>8, <3>2, <4>1 DEF YearsFound
    <3>3. QED
      BY <3>1, <3>2
  <2> DEFINE mine == Class(ByYear, y, Planned)
  <2>2. mine \in SUBSET Planned /\ \A h \in mine : Year(ValidMonth(h)) = y
    BY DEF Class, ByYear
  <2>3. u.annualHours[y] = Cardinality(mine) % CountLimit
    BY <1>8, <1>11 DEF YearsFound
  <2> HIDE DEF mine
  <2>4. Cardinality(mine) \in Nat /\ Cardinality(mine) < CountLimit
    BY <2>2, PlannedFinite, YearFits
  <2>5. Cardinality(mine) % CountLimit = Cardinality(mine)
    BY <2>4, SmallResidue, ReductionAssumption
  <2>6. QED
    BY <2>1, <2>3, <2>5 DEF mine
<1>13. Accumulated(u.annual, u.annualHours, ByYear, Planned)
  BY <1>12 DEF Accumulated
<1>14. AllTallied(u)
  BY <1>8, <1>11, <1>13 DEF AllTallied
<1>15. QED
  BY <1>6, <1>14

-----------------------------------------------------------------------------
(* The sums of the products.                                               *)

LEMMA YearsAreFinite ==
  ASSUME plan \in Plans
  PROVE  IsFiniteSet(Keys(ByYear))
<1>1. ByYear \in Surjection(Planned, Keys(ByYear))
  BY DEF Surjection, ByYear, Keys
<1>2. QED
  BY <1>1, PlannedFinite, FS_Surjection

\* The hours of the full period.
LEMMA FullHoursExact ==
  ASSUME plan \in Plans, NEW t, AllTallied(t)
  PROVE  FullHours(t) = Cardinality(Planned)
<1>1. t.annualHours \in [Keys(ByYear) -> Nat] /\ Accumulated(t.annual, t.annualHours, ByYear, Planned)
  BY DEF AllTallied, Tallies
<1>2. CountedBy(t.annualHours, ByYear, Planned, Keys(ByYear))
  BY <1>1 DEF CountedBy, Accumulated, Class
<1>3. SumFunctionOnSet(t.annualHours, Keys(ByYear))
        = Cardinality({h \in Planned : ByYear[h] \in Keys(ByYear)})
  BY <1>2, YearsAreFinite, PlannedFinite, SumOfCounts
<1>4. {h \in Planned : ByYear[h] \in Keys(ByYear)} = Planned
  BY DEF Keys
<1>5. FullHours(t) = SumFunctionOnSet(t.annualHours, Keys(ByYear))
  <2>1. DOMAIN t.annualHours = Keys(ByYear)
    BY <1>1
  <2>2. FullHours(t) = SumFunctionOnSet(t.annualHours, DOMAIN t.annualHours)
    BY DEF FullHours, SumFunction
  <2>3. QED
    BY <2>1, <2>2
<1>6. QED
  BY <1>3, <1>4, <1>5

\* The two fields of the map.
LEMMA MapExact ==
  ASSUME plan \in Plans, NEW t, AllTallied(t)
  PROVE  MapFound([c \in Cells |->
                     [combined |-> SumFunctionOnSet(t.full[c], HighImpact),
                      precip |-> FullHours(t) - t.full[c][Dry]]])
<1> SUFFICES ASSUME NEW c \in Cells
             PROVE  /\ SumFunctionOnSet(t.full[c], HighImpact)
                         = Cardinality({h \in Planned : weather[h][c] \in HighImpact})
                    /\ FullHours(t) - t.full[c][Dry] = Cardinality({h \in Planned : weather[h][c] # Dry})
  BY DEF MapFound
<1> DEFINE g == [h \in Planned |-> weather[h][c]]
<1>1. /\ Tallied(t.full, Planned) /\ IsFiniteSet(HighImpact) /\ HighImpact \subseteq Codes
      /\ Dry \in Codes /\ IsFiniteSet(Planned)
  BY ReductionAssumption, PlannedFinite, FS_Subset DEF AllTallied
<1>2. CountedBy(t.full[c], g, Planned, HighImpact)
  <2>1. ASSUME NEW k \in HighImpact PROVE t.full[c][k] = Cardinality({h \in Planned : g[h] = k})
    <3>1. {h \in Planned : g[h] = k} = {h \in Planned : weather[h][c] = k}
      OBVIOUS
    <3>2. QED
      BY <1>1, <3>1 DEF Tallied
  <2> HIDE DEF g
  <2>2. QED
    BY <2>1 DEF CountedBy
<1>3. {h \in Planned : g[h] \in HighImpact} = {h \in Planned : weather[h][c] \in HighImpact}
  OBVIOUS
<1> HIDE DEF g
<1>4. SumFunctionOnSet(t.full[c], HighImpact) = Cardinality({h \in Planned : weather[h][c] \in HighImpact})
  <2>1. SumFunctionOnSet(t.full[c], HighImpact) = Cardinality({h \in Planned : g[h] \in HighImpact})
    BY <1>1, <1>2, SumOfCounts
  <2>2. QED
    BY <1>3, <2>1
<1> DEFINE dry == With(Planned, c, Dry)
           wet == {h \in Planned : weather[h][c] # Dry}
<1>5. t.full[c][Dry] = Cardinality(dry)
  BY <1>1 DEF Tallied, With
<1>6. dry \union wet = Planned /\ dry \intersect wet = {} /\ dry \in SUBSET Planned /\ wet \in SUBSET Planned
  BY DEF With
<1> HIDE DEF dry
<1>7. FullHours(t) - Cardinality(dry) = Cardinality(wet)
  <2> HIDE DEF wet
  <2>1. /\ IsFiniteSet(dry) /\ Cardinality(dry) \in Nat
        /\ IsFiniteSet(wet) /\ Cardinality(wet) \in Nat
    BY <1>6, PlannedFinite
  <2>2. Cardinality(dry \union wet) = Cardinality(dry) + Cardinality(wet) - Cardinality(dry \intersect wet)
    BY <2>1, FS_Union
  <2>3. Cardinality(dry \intersect wet) = 0
    BY <1>6, FS_EmptySet
  <2>4. FullHours(t) = Cardinality(Planned)
    BY FullHoursExact
  <2>5. Cardinality(Planned) = Cardinality(dry) + Cardinality(wet)
    <3>1. Cardinality(Planned) = Cardinality(dry \union wet)
      BY <1>6, Zenon
    <3>2. QED
      BY <2>1, <2>2, <2>3, <3>1
  <2>6. (Cardinality(dry) + Cardinality(wet)) - Cardinality(dry) = Cardinality(wet)
    BY <2>1
  <2>7. QED
    BY <2>4, <2>5, <2>6
<1>8. QED
  BY <1>4, <1>5, <1>7

-----------------------------------------------------------------------------
(* The counters, step by step.                                             *)

\* A call starts with empty counters.
LEMMA NothingMerged ==
  ASSUME plan \in Plans
  PROVE  MergeFound([pending |-> Absent, tally |-> NoTally], {})
<1> DEFINE t == NoTally
<1>1. t = [year |-> Absent, current |-> NoCounts, full |-> NoCounts,
           annual |-> [i \in Keys(ByYear) |-> NoCounts], annualHours |-> [i \in Keys(ByYear) |-> 0],
           month |-> [i \in Keys(ByMonth) |-> NoCounts], monthHours |-> [i \in Keys(ByMonth) |-> 0],
           season |-> [i \in Keys(BySeason) |-> NoCounts], seasonHours |-> [i \in Keys(BySeason) |-> 0]]
  <2> DEFINE months == {ValidMonth(h) : h \in Planned}
  <2>1. /\ {Year(m) : m \in months} = Keys(ByYear)
        /\ {MonthOfYear(m) : m \in months} = Keys(ByMonth)
        /\ {Season(m) : m \in months} = Keys(BySeason)
    BY DEF Keys, ByYear, ByMonth, BySeason
  <2>2. QED
    BY <2>1 DEF NoTally
<1> HIDE DEF t
<1>2. NoCounts \in Counts /\ CountsOf({}) = NoCounts /\ Cardinality({}) = 0
  BY NothingCounted, FS_EmptySet
<1>3. \A key, i : Class(key, i, {}) = {}
  BY DEF Class
<1>4. t \in Tallies
  BY <1>1, <1>2 DEF Tallies
<1>5. Accumulated(t.month, t.monthHours, ByMonth, {}) /\ Accumulated(t.season, t.seasonHours, BySeason, {})
  BY <1>1, <1>2, <1>3 DEF Accumulated
<1>6. YearsFound(t, {})
  <2>1. 0 % CountLimit = 0
    BY ReductionAssumption
  <2>2. QED
    BY <1>1, <1>2, <1>3, <2>1 DEF YearsFound
<1>7. Tallied(t.full, {})
  <2>1. \A c, k : {h \in {} : weather[h][c] = k} = {}
    OBVIOUS
  <2>2. QED
    BY <1>1, <1>2, <2>1 DEF Tallied, NoCounts
<1>8. TallyFound(t, {})
  BY <1>4, <1>5, <1>6, <1>7 DEF TallyFound
<1>9. QED
  BY <1>8 DEF MergeFound, t

\* What is counted does not change.
LEMMA CountFrame ==
  ASSUME UNCHANGED <<plan, weather>>
  PROVE  /\ \A p : Contributions(p)' = Contributions(p)
         /\ \A t : AllTallied(t)' = AllTallied(t)
         /\ \A f : FrequencyFound(f)' = FrequencyFound(f)
         /\ \A m : MapFound(m)' = MapFound(m)
         /\ \A a, D : MergeFound(a, D)' = MergeFound(a, D)
<1>1. Planned' = Planned
  BY DataFrame
<1>2. \A D : CountsOf(D)' = CountsOf(D)
  BY DEF CountsOf
<1>3. ByMonth' = ByMonth /\ BySeason' = BySeason /\ ByYear' = ByYear
  BY <1>1 DEF ByMonth, BySeason, ByYear
<1>4. Keys(ByMonth)' = Keys(ByMonth) /\ Keys(BySeason)' = Keys(BySeason) /\ Keys(ByYear)' = Keys(ByYear)
  BY <1>1, <1>3 DEF Keys
<1>5. Tallies' = Tallies
  BY <1>4 DEF Tallies
<1>6. /\ \A c, h, D : Accumulated(c, h, ByMonth, D)' = Accumulated(c, h, ByMonth, D)
      /\ \A c, h, D : Accumulated(c, h, BySeason, D)' = Accumulated(c, h, BySeason, D)
      /\ \A c, h, D : Accumulated(c, h, ByYear, D)' = Accumulated(c, h, ByYear, D)
  BY <1>2, <1>3, <1>4 DEF Accumulated, Class
<1>7. \A c, D : Tallied(c, D)' = Tallied(c, D)
  BY DEF Tallied
<1>8. \A t, D : YearsFound(t, D)' = YearsFound(t, D)
  BY <1>2, <1>3, <1>4 DEF YearsFound, Class
<1>9. \A t, D : TallyFound(t, D)' = TallyFound(t, D)
  BY <1>5, <1>6, <1>7, <1>8 DEF TallyFound
<1>10. \A a, D : MergeFound(a, D)' = MergeFound(a, D)
  <2>1. \A m, D : PartOf(m, D)' = PartOf(m, D)
    BY <1>2 DEF PartOf
  <2>2. QED
    BY <1>9, <2>1 DEF MergeFound
<1>11. \A t : AllTallied(t)' = AllTallied(t)
  <2>1. \A c : Tallied(c, Planned)' = Tallied(c, Planned)
    BY <1>1 DEF Tallied
  <2>2. /\ \A c, h : Accumulated(c, h, ByMonth, Planned)' = Accumulated(c, h, ByMonth, Planned)
        /\ \A c, h : Accumulated(c, h, BySeason, Planned)' = Accumulated(c, h, BySeason, Planned)
        /\ \A c, h : Accumulated(c, h, ByYear, Planned)' = Accumulated(c, h, ByYear, Planned)
    BY <1>1, <1>2, <1>3, <1>4 DEF Accumulated, Class
  <2>3. QED
    BY <1>5, <2>1, <2>2 DEF AllTallied
<1>12. \A f : FrequencyFound(f)' = FrequencyFound(f)
  BY <1>1, <1>11 DEF FrequencyFound
<1>13. \A m : MapFound(m)' = MapFound(m)
  BY <1>1 DEF MapFound
<1>14. \A p : Contributions(p)' = Contributions(p)
  BY <1>2 DEF Contributions
<1>15. QED
  BY <1>10, <1>11, <1>12, <1>13, <1>14

LEMMA CountsInitially ==
  Init => CountInv
<1> SUFFICES ASSUME Init PROVE CountInv
  OBVIOUS
<1>1. \A p \in DOMAIN plan : monthly[p] = Absent
  BY DEF Init
<1>2. product["frequency"] = Absent /\ product["map"] = Absent
  BY DEF Init, Products
<1>3. phase = "idle"
  BY DEF Init
<1>4. QED
  BY <1>1, <1>2, <1>3 DEF CountInv

\* What a step of a call owes to the counts.
LEMMA CountsKept ==
  ASSUME CountInv, UNCHANGED <<plan, weather, monthly>>,
         phase' = "merge" => next' \in 1..(Len(plan) + 1) /\ MergeFound(merged', HoursBefore(next')),
         phase' \in {"scan", "events", "map"} => AllTallied(merged'.tally),
         product'["frequency"] # Absent => FrequencyFound(product'["frequency"].content),
         product'["map"] # Absent => MapFound(product'["map"].content)
  PROVE  CountInv'
<1>1. \A n : HoursBefore(n)' = HoursBefore(n)
  BY DataFrame
<1>2. (\A p \in DOMAIN plan : monthly[p] # Absent => monthly[p].contributions = Contributions(p))'
  BY CountFrame DEF CountInv
<1>3. (phase = "merge" => next \in 1..(Len(plan) + 1) /\ MergeFound(merged, HoursBefore(next)))'
  <2> SUFFICES ASSUME phase' = "merge"
               PROVE  (next \in 1..(Len(plan) + 1) /\ MergeFound(merged, HoursBefore(next)))'
    OBVIOUS
  <2>1. next' \in 1..(Len(plan) + 1) /\ MergeFound(merged', HoursBefore(next'))
    OBVIOUS
  <2>2. HoursBefore(next)' = HoursBefore(next')
    BY DEF HoursBefore
  <2>3. MergeFound(merged, HoursBefore(next))'
    BY <2>1, <2>2, CountFrame
  <2>4. QED
    BY <2>1, <2>3
<1>4. (phase \in {"scan", "events", "map"} => AllTallied(merged.tally))'
  BY CountFrame
<1>5. (product["frequency"] # Absent => FrequencyFound(product["frequency"].content))'
  BY CountFrame
<1>6. (product["map"] # Absent => MapFound(product["map"].content))'
  BY CountFrame
<1>7. QED
  BY <1>2, <1>3, <1>4, <1>5, <1>6 DEF CountInv

LEMMA CountsOfMonth ==
  ASSUME ReductionInv, CountInv, NEW p \in DOMAIN plan, AnalyseMonth(p)
  PROVE  CountInv'
<1>1. UNCHANGED <<plan, weather, phase, next, merged, scan, product, reduction, runs>>
  BY DEF AnalyseMonth
<1>2. ~TasksComplete
  BY DEF AnalyseMonth, TasksComplete
<1>3. phase' \notin {"merge", "scan", "events", "map"}
  BY <1>1, <1>2 DEF ReductionInv, CallInv, Ended
<1>4. ASSUME NEW q \in DOMAIN plan, monthly'[q] # Absent
      PROVE  monthly'[q].contributions = Contributions(q)
  <2>1. CASE q = p
    <3>1. monthly'[p] = [contributions |-> Contributions(p), hours |-> ExpectedHours(plan[p])]
      BY DEF AnalyseMonth, ReductionInv, ScanInv
    <3>2. QED
      BY <2>1, <3>1
  <2>2. CASE q # p
    <3>1. monthly'[q] = monthly[q]
      BY <2>2 DEF AnalyseMonth, ReductionInv, ScanInv
    <3>2. QED
      BY <1>4, <3>1 DEF CountInv
  <2>3. QED
    BY <2>1, <2>2
<1>5. (\A q \in DOMAIN plan : monthly[q] # Absent => monthly[q].contributions = Contributions(q))'
  BY <1>1, <1>4, CountFrame
<1>6. (product["frequency"] # Absent => FrequencyFound(product["frequency"].content))'
  BY <1>1, CountFrame DEF CountInv
<1>7. (product["map"] # Absent => MapFound(product["map"].content))'
  BY <1>1, CountFrame DEF CountInv
<1>8. QED
  BY <1>3, <1>5, <1>6, <1>7 DEF CountInv

LEMMA CountsOfBegin ==
  ASSUME ReductionInv, CountInv, Begin
  PROVE  CountInv'
<1>1. /\ UNCHANGED <<plan, weather, monthly, product>> /\ phase' = "merge" /\ next' = 1
      /\ merged' = [pending |-> Absent, tally |-> NoTally]
  BY DEF Begin, data
<1>2. HoursBefore(1) = {} /\ Len(plan) \in Nat /\ plan \in Plans
  BY MonthByMonth DEF ReductionInv
<1>3. MergeFound(merged', HoursBefore(next'))
  BY <1>1, <1>2, NothingMerged
<1>4. next' \in 1..(Len(plan) + 1)
  BY <1>1, <1>2
<1>5. /\ product'["frequency"] # Absent => FrequencyFound(product'["frequency"].content)
      /\ product'["map"] # Absent => MapFound(product'["map"].content)
  BY <1>1 DEF CountInv
<1>6. QED
  BY <1>1, <1>3, <1>4, <1>5, CountsKept

LEMMA CountsOfMerge ==
  ASSUME ReductionInv, CountInv, Merge
  PROVE  CountInv'
<1>1. /\ UNCHANGED <<plan, weather, monthly, phase, product>> /\ phase = "merge"
      /\ next <= Len(plan) /\ next' = next + 1
      /\ merged' = Merged(merged, monthly[next].contributions)
  BY DEF Merge, data
<1>2. /\ next \in 1..(Len(plan) + 1) /\ MergeFound(merged, HoursBefore(next)) /\ plan \in Plans
      /\ Len(plan) \in Nat /\ DOMAIN plan = 1..Len(plan)
  BY <1>1, MonthByMonth DEF CountInv, ReductionInv
<1>3. next \in 1..Len(plan) /\ next' \in 1..(Len(plan) + 1)
  BY <1>1, <1>2
<1> DEFINE H == PlannedHours(plan[next])
           D == HoursBefore(next)
           parts == Contributions(next)
<1>4. monthly[next].contributions = parts
  BY <1>1, <1>2, <1>3 DEF CountInv, ReductionInv, CallInv, TasksComplete, Ended
<1>5. MonthlyParts(parts, H)
  BY <1>2, <1>3, ContributionsInOrder
<1>6. /\ D \in SUBSET Planned /\ H \in SUBSET Planned
      /\ D \intersect H = {} /\ Follow(H, D) /\ HoursBefore(next + 1) = D \union H
  BY <1>2, <1>3, MonthFollows
<1>7. MergeFound(merged, D)
  BY <1>2
<1> HIDE DEF H, D, parts
<1>8. MergeFound(Merged(merged, parts), D \union H)
  BY <1>2, <1>5, <1>6, <1>7, PartsMerged
<1>9. MergeFound(merged', HoursBefore(next'))
  BY <1>1, <1>4, <1>6, <1>8
<1>10. /\ product'["frequency"] # Absent => FrequencyFound(product'["frequency"].content)
       /\ product'["map"] # Absent => MapFound(product'["map"].content)
  BY <1>1 DEF CountInv
<1>11. QED
  BY <1>1, <1>3, <1>9, <1>10, CountsKept

\* The frequencies are published when everything has been counted.
LEMMA CountsOfFrequency ==
  ASSUME ReductionInv, CountInv, PublishFrequency
  PROVE  CountInv'
<1> DEFINE tally == Flush(merged.tally, merged.pending)
           content == [tally |-> tally, fullHours |-> FullHours(tally)]
<1>1. /\ UNCHANGED <<plan, weather, monthly>> /\ phase = "merge" /\ phase' = "scan"
      /\ next > Len(plan) /\ merged' = [pending |-> Absent, tally |-> tally]
      /\ product' = [product EXCEPT !["frequency"] = [by |-> runs, content |-> content]]
  BY DEF PublishFrequency, Publish, data
<1> HIDE DEF tally
<1>2. /\ next = Len(plan) + 1 /\ plan \in Plans /\ HoursBefore(Len(plan) + 1) = Planned
      /\ MergeFound(merged, HoursBefore(next))
  <2>1. next \in 1..(Len(plan) + 1) /\ Len(plan) \in Nat /\ plan \in Plans
        /\ HoursBefore(Len(plan) + 1) = Planned /\ MergeFound(merged, HoursBefore(next))
    BY <1>1, MonthByMonth DEF CountInv, ReductionInv
  <2>2. next = Len(plan) + 1
    BY <1>1, <2>1
  <2>3. QED
    BY <2>1, <2>2
<1>3. MergeFound(merged, Planned)
  BY <1>2
<1>4. AllTallied(tally)
  BY <1>2, <1>3, FlushedAll DEF tally
<1>5. FullHours(tally) = Cardinality(Planned)
  BY <1>2, <1>4, FullHoursExact
<1>6. FrequencyFound(content)
  BY <1>4, <1>5 DEF FrequencyFound
<1>7. "frequency" \in DOMAIN product /\ "map" \in DOMAIN product
  BY DEF ReductionInv, CallInv, Products
<1> HIDE DEF content
<1>8. product'["frequency"].content = content /\ product'["map"] = product["map"]
  BY <1>1, <1>7
<1>9. merged'.tally = tally
  BY <1>1
<1>10. product'["map"] # Absent => MapFound(product'["map"].content)
  BY <1>8 DEF CountInv
<1>11. QED
  BY <1>1, <1>4, <1>6, <1>8, <1>9, <1>10, CountsKept

LEMMA CountsOfMap ==
  ASSUME ReductionInv, CountInv, PublishMap
  PROVE  CountInv'
<1> DEFINE t == merged.tally
           content == [c \in Cells |->
                         [combined |-> SumFunctionOnSet(t.full[c], HighImpact),
                          precip |-> FullHours(t) - t.full[c][Dry]]]
<1>1. /\ UNCHANGED <<plan, weather, monthly>> /\ phase = "map" /\ phase' = "report"
      /\ product' = [product EXCEPT !["map"] = [by |-> runs, content |-> content]]
  BY DEF PublishMap, Publish, data
<1>2. AllTallied(t) /\ plan \in Plans
  BY <1>1 DEF CountInv, ReductionInv
<1> HIDE DEF t
<1>3. MapFound(content)
  BY <1>2, MapExact
<1>4. "frequency" \in DOMAIN product /\ "map" \in DOMAIN product
  BY DEF ReductionInv, CallInv, Products
<1> HIDE DEF content
<1>5. product'["map"].content = content /\ product'["frequency"] = product["frequency"]
  BY <1>1, <1>4
<1>6. product'["frequency"] # Absent => FrequencyFound(product'["frequency"].content)
  BY <1>5 DEF CountInv
<1>7. QED
  BY <1>1, <1>3, <1>5, <1>6, CountsKept

\* The other products leave the counts alone.
LEMMA CountsOfOther ==
  ASSUME ReductionInv, CountInv, NEW f \in Products \ {"frequency", "map"}, NEW content,
         Publish(f, content), UNCHANGED <<plan, weather, monthly>>,
         phase' # "merge", phase' \in {"scan", "events", "map"} => phase \in {"scan", "events", "map"} /\ merged' = merged
  PROVE  CountInv'
<1>1. product'["frequency"] = product["frequency"] /\ product'["map"] = product["map"]
  BY DEF Publish, ReductionInv, CallInv, Products
<1>2. /\ product'["frequency"] # Absent => FrequencyFound(product'["frequency"].content)
      /\ product'["map"] # Absent => MapFound(product'["map"].content)
  BY <1>1 DEF CountInv
<1>3. phase' \in {"scan", "events", "map"} => AllTallied(merged'.tally)
  BY DEF CountInv
<1>4. QED
  BY <1>2, <1>3, CountsKept

LEMMA CountsOfQuietStep ==
  ASSUME CountInv, UNCHANGED <<plan, weather, monthly, product>>,
         phase' # "merge" \/ (phase' = phase /\ next' = next /\ merged' = merged),
         phase' \in {"scan", "events", "map"} => phase' = phase /\ merged' = merged
  PROVE  CountInv'
<1>1. /\ product'["frequency"] # Absent => FrequencyFound(product'["frequency"].content)
      /\ product'["map"] # Absent => MapFound(product'["map"].content)
  BY DEF CountInv
<1>2. phase' \in {"scan", "events", "map"} => AllTallied(merged'.tally)
  BY DEF CountInv
<1>3. phase' = "merge" => next' \in 1..(Len(plan) + 1) /\ MergeFound(merged', HoursBefore(next'))
  BY DEF CountInv
<1>4. QED
  BY <1>1, <1>2, <1>3, CountsKept

LEMMA CountInvInductive ==
  ReductionInv /\ CountInv /\ [Next]_vars => CountInv'
<1> SUFFICES ASSUME ReductionInv, CountInv, [Next]_vars PROVE CountInv'
  OBVIOUS
<1>1. CASE \E p \in DOMAIN plan : AnalyseMonth(p)
  BY <1>1, CountsOfMonth
<1>2. CASE Begin
  BY <1>2, CountsOfBegin
<1>3. CASE Merge
  BY <1>3, CountsOfMerge
<1>4. CASE PublishFrequency
  BY <1>4, CountsOfFrequency
<1>5. CASE Scan
  <2>1. UNCHANGED <<plan, weather, monthly, product>> /\ phase' = phase /\ phase = "scan" /\ merged' = merged
    BY <1>5 DEF Scan, data
  <2>2. QED
    BY <2>1, CountsOfQuietStep
<1>6. CASE PublishHourly
  <2>1. /\ UNCHANGED <<plan, weather, monthly>> /\ phase = "scan" /\ phase' = "events" /\ merged' = merged
        /\ \E content : Publish("hourly", content)
    BY <1>6 DEF PublishHourly, data
  <2>2. QED
    BY <2>1, CountsOfOther DEF Products
<1>7. CASE PublishEvents
  <2>1. /\ UNCHANGED <<plan, weather, monthly>> /\ phase = "events" /\ phase' = "map" /\ merged' = merged
        /\ \E content : Publish("events", content)
    BY <1>7 DEF PublishEvents, data
  <2>2. QED
    BY <2>1, CountsOfOther DEF Products
<1>8. CASE PublishMap
  BY <1>8, CountsOfMap
<1>9. CASE PublishReport
  <2>1. /\ UNCHANGED <<plan, weather, monthly>> /\ phase' \in {"seal", "raised"}
        /\ \E content : Publish("report", content)
    BY <1>9 DEF PublishReport, Leave, data
  <2>2. QED
    BY <2>1, CountsOfOther DEF Products
<1>10. CASE Seal \/ Kill
  <2>1. UNCHANGED <<plan, weather, monthly, product>> /\ phase' \in {"complete", "killed"}
    BY <1>10 DEF Seal, Kill, Leave, data
  <2>2. QED
    BY <2>1, CountsOfQuietStep
<1>11. CASE UNCHANGED vars
  <2>1. UNCHANGED <<plan, weather, monthly, product, phase, next, merged>>
    BY <1>11 DEF vars
  <2>2. QED
    BY <2>1, CountsOfQuietStep
<1>12. QED
  BY <1>1, <1>2, <1>3, <1>4, <1>5, <1>6, <1>7, <1>8, <1>9, <1>10, <1>11 DEF Next, Reduce

-----------------------------------------------------------------------------
(* What the counters say of the frequencies.                               *)

\* The hours of a month, from midnight to midnight, are those counted for it.
LEMMA MidnightToMidnight ==
  ASSUME plan \in Plans, NEW m
  PROVE  HoursOfMonth(m) = OfMonth(m, Planned)
<1> DEFINE K == StepsPerCycle
<1>1. K \in Nat \ {0} /\ Days \subseteq Nat
  BY ReductionAssumption DEF Days
<1>2. ASSUME NEW h \in Planned, NEW d \in Days
      PROVE  (d - 1) * K <= h /\ h < d * K <=> Day(h) = d
  <2>1. h \in Nat /\ d \in Int
    BY <1>1, PlannedHour
  <2>2. (d - 1) * K = K * (d - 1) /\ d * K = K * (d - 1) + K /\ K * (d - 1) \in Int
    BY <1>1, <2>1
  <2>3. ASSUME (d - 1) * K <= h, h < d * K PROVE Day(h) = d
    <3>1. PICK r \in 0..(K - 1) : h = K * (d - 1) + r
      <4>1. PICK k \in Int : k = K * (d - 1)
        BY <2>2
      <4>2. k <= h /\ h < k + K
        BY <2>2, <2>3, <4>1
      <4>3. h - k \in 0..(K - 1) /\ h = k + (h - k)
        BY <1>1, <2>1, <4>2
      <4>4. QED
        BY <4>1, <4>3
    <3>2. (K * (d - 1) + r) \div K = d - 1
      <4>1. PICK q \in Int : q = d - 1
        BY <2>1
      <4>2. (K * q + r) \div K = q
        BY <1>1, DivisionUnique
      <4>3. QED
        BY <4>1, <4>2
    <3>3. h \div K = d - 1
      BY <3>1, <3>2
    <3>4. QED
      BY <2>1, <3>3 DEF Day
  <2>4. ASSUME Day(h) = d PROVE (d - 1) * K <= h /\ h < d * K
    <3>1. PICK q \in Int, r \in Int : h = K * q + r /\ 0 <= r /\ r < K /\ Day(h) = q + 1
      BY <1>1, <2>1 DEF Day
    <3>2. q = d - 1
      BY <2>1, <2>4, <3>1
    <3>3. QED
      BY <1>1, <2>1, <2>2, <3>1, <3>2
  <2>5. QED
    BY <2>3, <2>4
<1>3. ASSUME NEW h \in Planned
      PROVE  (\E d \in Days : MonthOf[d] = m /\ (d - 1) * K <= h /\ h < d * K) <=> ValidMonth(h) = m
  <2>1. Day(h) \in Days
    BY PlannedHour
  <2>2. QED
    BY <1>2, <2>1 DEF ValidMonth
<1>4. QED
  BY <1>3 DEF HoursOfMonth, OfMonth

LEMMA MonthsArePlanned ==
  ASSUME plan \in Plans
  PROVE  \A h \in Planned : ValidMonth(h) \in MonthsOfPlan
<1>1. \A h \in Planned : Day(h) \in Days
  BY PlannedHour
<1>2. QED
  BY <1>1 DEF ValidMonth, MonthsOfPlan

\* A counter is exact when 16 bits hold its hours.
LEMMA ClassExact ==
  ASSUME plan \in Plans, NEW counts, NEW hours, NEW key, Accumulated(counts, hours, key, Planned),
         NEW i \in Keys(key)
  PROVE  LET mine == Class(key, i, Planned)
         IN  /\ hours[i] = Cardinality(mine)
             /\ Cardinality(mine) < CountLimit => Tallied(counts[i], mine)
<1> DEFINE mine == Class(key, i, Planned)
<1>1. counts[i] = CountsOf(mine) /\ hours[i] = Cardinality(mine)
  BY DEF Accumulated
<1>2. mine \in SUBSET Planned
  BY DEF Class
<1> HIDE DEF mine
<1>3. IsFiniteSet(mine)
  BY <1>2, PlannedFinite
<1>4. Cardinality(mine) < CountLimit => Tallied(counts[i], mine)
  BY <1>1, <1>3, CountsExact
<1>5. QED
  BY <1>1, <1>4 DEF mine

LEMMA CountsAreFrequencies ==
  ReductionInv /\ CountInv => FrequenciesMatchHours
<1> SUFFICES ASSUME ReductionInv, CountInv PROVE FrequenciesMatchHours
  OBVIOUS
<1>1. plan \in Plans
  BY DEF ReductionInv
<1>2. ASSUME product["map"] # Absent, NEW c \in Cells
      PROVE  product["map"].content[c] =
               [combined |-> Cardinality({h \in Planned : weather[h][c] \in HighImpact}),
                precip |-> Cardinality({h \in Planned : weather[h][c] # Dry})]
  BY <1>2 DEF CountInv, MapFound
<1> DEFINE f == product["frequency"].content
           t == f.tally
<1>3. /\ \A m : HoursOfMonth(m) = {h \in Planned : ValidMonth(h) = m}
       /\ \A h \in Planned : ValidMonth(h) \in MonthsOfPlan
  BY <1>1, MidnightToMidnight, MonthsArePlanned DEF OfMonth
<1>4. ASSUME product["frequency"] # Absent
      PROVE  /\ t \in Tallies
             /\ Accumulated(t.month, t.monthHours, ByMonth, Planned)
             /\ Accumulated(t.season, t.seasonHours, BySeason, Planned)
             /\ Accumulated(t.annual, t.annualHours, ByYear, Planned)
             /\ Tallied(t.full, Planned) /\ f.fullHours = Cardinality(Planned)
  BY <1>4 DEF CountInv, FrequencyFound, AllTallied
<1> HIDE DEF t, f
<1>5. ASSUME product["frequency"] # Absent, NEW i \in DOMAIN t.month
      PROVE  LET mine == UNION {HoursOfMonth(m) : m \in {n \in MonthsOfPlan : MonthOfYear(n) = i}}
             IN  /\ t.monthHours[i] = Cardinality(mine)
                 /\ Cardinality(mine) < CountLimit => Tallied(t.month[i], mine)
  <2> DEFINE mine == UNION {HoursOfMonth(m) : m \in {n \in MonthsOfPlan : MonthOfYear(n) = i}}
  <2>1. i \in Keys(ByMonth)
    BY <1>4, <1>5 DEF Tallies
  <2>2. mine = Class(ByMonth, i, Planned)
    BY <1>3 DEF Class, ByMonth
  <2> HIDE DEF mine
  <2>3. /\ t.monthHours[i] = Cardinality(Class(ByMonth, i, Planned))
        /\ Cardinality(Class(ByMonth, i, Planned)) < CountLimit => Tallied(t.month[i], Class(ByMonth, i, Planned))
    BY <1>1, <1>4, <1>5, <2>1, ClassExact
  <2>4. QED
    BY <2>2, <2>3 DEF mine
<1>6. ASSUME product["frequency"] # Absent, NEW i \in DOMAIN t.season
      PROVE  LET mine == UNION {HoursOfMonth(m) : m \in {n \in MonthsOfPlan : Season(n) = i}}
             IN  /\ t.seasonHours[i] = Cardinality(mine)
                 /\ Cardinality(mine) < CountLimit => Tallied(t.season[i], mine)
  <2> DEFINE mine == UNION {HoursOfMonth(m) : m \in {n \in MonthsOfPlan : Season(n) = i}}
  <2>1. i \in Keys(BySeason)
    BY <1>4, <1>6 DEF Tallies
  <2>2. mine = Class(BySeason, i, Planned)
    BY <1>3 DEF Class, BySeason
  <2> HIDE DEF mine
  <2>3. /\ t.seasonHours[i] = Cardinality(Class(BySeason, i, Planned))
        /\ Cardinality(Class(BySeason, i, Planned)) < CountLimit => Tallied(t.season[i], Class(BySeason, i, Planned))
    BY <1>1, <1>4, <1>6, <2>1, ClassExact
  <2>4. QED
    BY <2>2, <2>3 DEF mine
<1>7. ASSUME product["frequency"] # Absent, NEW i \in DOMAIN t.annual
      PROVE  LET mine == UNION {HoursOfMonth(m) : m \in {n \in MonthsOfPlan : Year(n) = i}}
             IN  /\ t.annualHours[i] = Cardinality(mine)
                 /\ Cardinality(mine) < CountLimit => Tallied(t.annual[i], mine)
  <2> DEFINE mine == UNION {HoursOfMonth(m) : m \in {n \in MonthsOfPlan : Year(n) = i}}
  <2>1. i \in Keys(ByYear)
    BY <1>4, <1>7 DEF Tallies
  <2>2. mine = Class(ByYear, i, Planned)
    BY <1>3 DEF Class, ByYear
  <2> HIDE DEF mine
  <2>3. /\ t.annualHours[i] = Cardinality(Class(ByYear, i, Planned))
        /\ Cardinality(Class(ByYear, i, Planned)) < CountLimit => Tallied(t.annual[i], Class(ByYear, i, Planned))
    BY <1>1, <1>4, <1>7, <2>1, ClassExact
  <2>4. QED
    BY <2>2, <2>3 DEF mine
<1>8. QED
  BY <1>2, <1>4, <1>5, <1>6, <1>7 DEF FrequenciesMatchHours, t, f

-----------------------------------------------------------------------------
(* The reduction, as part of a regional campaign.                          *)

\* A regional campaign leaves the canonical one alone.
LEMMA CampaignLeavesReduction ==
  RegionalNext => [Next]_vars
<1>1. PlanRegion \/ PublishShard \/ PublishReceipt \/ KillTask => UNCHANGED vars
  BY DEF PlanRegion, PublishShard, PublishReceipt, KillTask, canonical, vars
<1>2. (\E p \in DOMAIN plan : StartTask(p) \/ Damage(p)) => UNCHANGED vars
  BY DEF StartTask, Damage, canonical, vars
<1>3. MergeShards \/ PublishCatalogue \/ JudgeRegion \/ KillRegionalReduction => UNCHANGED vars
  BY DEF MergeShards, PublishCatalogue, JudgeRegion, KillRegionalReduction, canonical, vars
<1>4. QED
  BY <1>1, <1>2, <1>3 DEF RegionalNext

\* The invariant of the reduction, in every campaign over any archive.
THEOREM ReductionIsSound == RegionalSpec => []ReductionInv
<1>1. RegionalInit => ReductionInv
  BY ReductionInitially DEF RegionalInit
<1>2. ReductionInv /\ [RegionalNext]_<<canonical, regional>> => ReductionInv'
  <2>1. UNCHANGED <<canonical, regional>> => UNCHANGED vars
    BY DEF canonical, vars
  <2>2. QED
    BY <2>1, CampaignLeavesReduction, ReductionInvInductive
<1>3. QED
  BY <1>1, <1>2, PTL DEF RegionalSpec

\* Whatever was killed, ended critical or was called again, what
\* analysis_status accepts when it verifies are the products of one reduction
\* that found no hour missing; a call that completes is accepted, and one that
\* raises had an hour missing.
THEOREM AcceptedReductionIsWhole == RegionalSpec => []AcceptedIsOneReduction
BY ReductionIsSound, VerifiedIsOneCall, PTL

\* For every manifest, weather and set of cells, the event catalogue on disk
\* holds the maximal runs of consecutive affected hours, in order, across
\* archive months and cut at missing hours, each with its extent.
THEOREM EventsAreRuns == RegionalSpec => []EventsAreMaximalRuns
BY ReductionIsSound, CompleteEventsAreMaximal, PTL

\* What the counters hold, at every step of the merge.
THEOREM CountsAreKept == RegionalSpec => []CountInv
<1>1. RegionalInit => CountInv
  BY CountsInitially DEF RegionalInit
<1>2. ReductionInv /\ CountInv /\ [RegionalNext]_<<canonical, regional>> => CountInv'
  <2>1. UNCHANGED <<canonical, regional>> => UNCHANGED vars
    BY DEF canonical, vars
  <2>2. QED
    BY <2>1, CampaignLeavesReduction, CountInvInductive
<1>3. QED
  BY <1>1, <1>2, ReductionIsSound, PTL DEF RegionalSpec

\* For every manifest and weather, the frequencies on disk are the exact counts
\* of each month of the year, season and year whose hours 16 bits hold, however
\* the hours of a valid month are spread over archive months, and the counts of
\* the full period and the maps always are.
THEOREM FrequenciesAreExact == RegionalSpec => []FrequenciesMatchHours
BY ReductionIsSound, CountsAreKept, CountsAreFrequencies, PTL

-----------------------------------------------------------------------------
(* Regional rows.                                                          *)

CellsOf(h, codes) == {c \in Region : weather[h][c] \in codes}

LEMMA RegionalCounts ==
  ASSUME NEW h, NEW codes
  PROVE  /\ IsFiniteSet(CellsOf(h, codes)) /\ RegionalCount(h, codes) = Cardinality(CellsOf(h, codes))
         /\ RegionalCount(h, codes) \in Nat
<1>1. IsFiniteSet(Region)
  BY ReductionAssumption, RegionalAssumption, FS_Subset
<1>2. IsFiniteSet(CellsOf(h, codes))
  BY <1>1, FS_Subset DEF CellsOf
<1>3. QED
  BY <1>2, FS_CardinalityType DEF RegionalCount, CellsOf

\* What the reduction adds up from a row is a number of cells.
LEMMA RowCounts ==
  ASSUME NEW h, NEW codes \in SUBSET Codes
  PROVE  AffectedBy(Row(h, weather[h]), codes) = RegionalCount(h, codes)
<1> DEFINE counts == Row(h, weather[h]).counts
           at == weather[h]
<1>1. IsFiniteSet(Region) /\ IsFiniteSet(codes)
  BY ReductionAssumption, RegionalAssumption, FS_Subset
<1>2. \A x \in codes : counts[x] = Cardinality({c \in Region : at[c] = x})
  BY DEF Row
<1>3. RegionalCount(h, codes) = Cardinality({c \in Region : at[c] \in codes})
  BY DEF RegionalCount
<1>4. AffectedBy(Row(h, weather[h]), codes) = SumFunctionOnSet(counts, codes)
  BY DEF AffectedBy
<1> HIDE DEF counts, at
<1>5. CountedBy(counts, at, Region, codes)
  BY <1>2 DEF CountedBy
<1>6. SumFunctionOnSet(counts, codes) = Cardinality({c \in Region : at[c] \in codes})
  BY <1>1, <1>5, SumOfCounts
<1>7. QED
  BY <1>3, <1>4, <1>6

\* An event of a regional catalogue and the hour after it.
LEMMA ProlongedEvent ==
  ASSUME NEW e \in RegionalEvents, NEW row, row.hour \in Int, NEW n \in Int, Wet(row) \in Int
  PROVE  LET f == Prolonged(e, row, n)
         IN  /\ f \in RegionalEvents
             /\ f.start = e.start /\ f.end = row.hour /\ f.duration = e.duration + 1
             /\ f.cellHours = e.cellHours + n
             /\ f.peak = IF n > e.largest THEN row.hour ELSE e.peak
             /\ f.largest = Larger(e.largest, n) /\ f.wettest = Larger(e.wettest, Wet(row))
<1>1. /\ e.start \in Int /\ e.end \in Int /\ e.peak \in Int /\ e.duration \in Int /\ e.largest \in Int
      /\ e.cellHours \in Int /\ e.wettest \in Int
  BY DEF RegionalEvents
<1> DEFINE w == Wet(row)
<1>2. Prolonged(e, row, n) =
        [start |-> e.start, end |-> row.hour, peak |-> IF n > e.largest THEN row.hour ELSE e.peak,
         duration |-> e.duration + 1, largest |-> Larger(e.largest, n),
         cellHours |-> e.cellHours + n, wettest |-> Larger(e.wettest, w)]
  <2> HIDE DEF w
  <2>1. e = [start |-> e.start, end |-> e.end, peak |-> e.peak, duration |-> e.duration,
             largest |-> e.largest, cellHours |-> e.cellHours, wettest |-> e.wettest]
    BY DEF RegionalEvents
  <2>2. Prolonged(e, row, n) =
          [e EXCEPT !.end = row.hour, !.duration = e.duration + 1, !.cellHours = e.cellHours + n,
                    !.peak = IF n > e.largest THEN row.hour ELSE e.peak,
                    !.largest = Larger(e.largest, n), !.wettest = Larger(e.wettest, w)]
    BY DEF Prolonged, w
  <2> DEFINE peak == IF n > e.largest THEN row.hour ELSE e.peak
  <2> HIDE DEF peak
  <2>3. Prolonged(e, row, n) =
          [e EXCEPT !.end = row.hour, !.duration = e.duration + 1, !.cellHours = e.cellHours + n,
                    !.peak = peak, !.largest = Larger(e.largest, n), !.wettest = Larger(e.wettest, w)]
    BY <2>2 DEF peak
  <2>4. QED
    BY <2>1, <2>3 DEF peak
<1>3. Larger(e.largest, n) \in Int /\ Larger(e.wettest, w) \in Int
  BY <1>1 DEF Larger
<1> HIDE DEF w
<1>4. QED
  BY <1>1, <1>2, <1>3 DEF RegionalEvents, w

\* The row of an hour.
LEMMA RowOfHour ==
  ASSUME NEW h \in Int, NEW codes \in SUBSET Codes
  PROVE  LET row == Row(h, weather[h])
         IN  /\ row.hour = h
             /\ AffectedBy(row, codes) = RegionalCount(h, codes) /\ RegionalCount(h, codes) \in Nat
             /\ Wet(row) = RegionalCount(h, Codes \ {Dry}) /\ Wet(row) \in Nat
<1>1. Row(h, weather[h]).hour = h
  BY DEF Row
<1>2. AffectedBy(Row(h, weather[h]), codes) = RegionalCount(h, codes)
  BY RowCounts
<1>3. Codes \ {Dry} \in SUBSET Codes
  OBVIOUS
<1>4. Wet(Row(h, weather[h])) = RegionalCount(h, Codes \ {Dry})
  BY <1>3, RowCounts DEF Wet
<1>5. QED
  BY <1>1, <1>2, <1>4, RegionalCounts

\* A new event has the extent of its hour.
LEMMA StartedExtent ==
  ASSUME NEW h \in Int, NEW codes \in SUBSET Codes
  PROVE  LET f == Started(Row(h, weather[h]), RegionalCount(h, codes))
         IN  f \in RegionalEvents /\ f.start = h /\ f.end = h /\ RegionalExtent(f, codes)
<1> DEFINE n == RegionalCount(h, codes)
           w == RegionalCount(h, Codes \ {Dry})
           f == Started(Row(h, weather[h]), n)
<1>1. n \in Nat /\ w \in Nat /\ Row(h, weather[h]).hour = h /\ Wet(Row(h, weather[h])) = w
  BY RowOfHour
<1>2. f = [start |-> h, end |-> h, peak |-> h, duration |-> 1, largest |-> n, cellHours |-> n, wettest |-> w]
  BY <1>1 DEF Started
<1>3. h..h = {h} /\ Cardinality(h..h) = 1
  <2>1. h..h = {h}
    OBVIOUS
  <2>2. QED
    BY <2>1, FS_Singleton
<1>4. Cardinality(CellHours(h, h, Region, codes)) = n
  <2>1. CellHours(h, h - 1, Region, codes) = {}
    BY DEF CellHours
  <2>2. IsFiniteSet(Region)
    BY ReductionAssumption, RegionalAssumption, FS_Subset
  <2>3. Cardinality(CellHours(h, h, Region, codes)) = 0 + n
    BY <2>1, <2>2, CellHoursAdd, FS_EmptySet DEF RegionalCount
  <2>4. QED
    BY <2>3, <1>1
<1> HIDE DEF f, w
<1>5. RegionalExtent(f, codes)
  <2>1. f.peak \in f.start..f.end /\ RegionalCount(f.peak, codes) = f.largest
    BY <1>2, <1>3
  <2>2. \A g \in f.start..f.end : RegionalCount(g, codes) <= f.largest /\ ~(g < f.peak)
    BY <1>1, <1>2, <1>3
  <2>3. f.duration = Cardinality(f.start..f.end)
    BY <1>2, <1>3
  <2>4. f.cellHours = Cardinality(CellHours(f.start, f.end, Region, codes))
    BY <1>2, <1>4
  <2>5. /\ \E g \in f.start..f.end : RegionalCount(g, Codes \ {Dry}) = f.wettest
        /\ \A g \in f.start..f.end : RegionalCount(g, Codes \ {Dry}) <= f.wettest
    BY <1>1, <1>2, <1>3 DEF w
  <2>6. QED
    BY <2>1, <2>2, <2>3, <2>4, <2>5 DEF RegionalExtent, CellHours
<1>6. f \in RegionalEvents
  BY <1>1, <1>2 DEF RegionalEvents
<1>7. QED
  BY <1>2, <1>5, <1>6 DEF f

\* An event and the hour after it have the extent of both; the peak moves only
\* to a higher hour.
LEMMA ProlongedExtent ==
  ASSUME NEW e \in RegionalEvents, NEW h \in Int, NEW codes \in SUBSET Codes,
         RegionalExtent(e, codes), e.start <= e.end, e.end = h - 1
  PROVE  LET f == Prolonged(e, Row(h, weather[h]), RegionalCount(h, codes))
         IN  f \in RegionalEvents /\ f.start = e.start /\ f.end = h /\ RegionalExtent(f, codes)
<1> DEFINE n == RegionalCount(h, codes)
           w == RegionalCount(h, Codes \ {Dry})
           f == Prolonged(e, Row(h, weather[h]), n)
<1>1. n \in Nat /\ w \in Nat /\ Row(h, weather[h]).hour = h /\ Wet(Row(h, weather[h])) = w
  BY RowOfHour
<1>2. /\ f \in RegionalEvents /\ f.start = e.start /\ f.end = h /\ f.duration = e.duration + 1
      /\ f.cellHours = e.cellHours + n
      /\ f.peak = IF n > e.largest THEN h ELSE e.peak
      /\ f.largest = Larger(e.largest, n) /\ f.wettest = Larger(e.wettest, w)
  <2> DEFINE row == Row(h, weather[h])
  <2>1. row.hour = h /\ row.hour \in Int /\ n \in Int /\ Wet(row) = w /\ Wet(row) \in Int
    BY <1>1
  <2> HIDE DEF row, n, w
  <2>2. LET g == Prolonged(e, row, n)
        IN  /\ g \in RegionalEvents
            /\ g.start = e.start /\ g.end = row.hour /\ g.duration = e.duration + 1
            /\ g.cellHours = e.cellHours + n
            /\ g.peak = IF n > e.largest THEN row.hour ELSE e.peak
            /\ g.largest = Larger(e.largest, n) /\ g.wettest = Larger(e.wettest, Wet(row))
    BY <2>1, ProlongedEvent
  <2>3. f = Prolonged(e, row, n)
    BY DEF row
  <2> HIDE DEF f
  <2>4. QED
    BY <2>1, <2>2, <2>3
<1>3. /\ e.start \in Int /\ e.start <= h - 1 /\ e.largest \in Int /\ e.duration \in Int
      /\ e.wettest \in Int /\ e.peak \in Int
  BY DEF RegionalEvents
<1>4. e.start..h = (e.start..(h - 1)) \union {h} /\ h \notin e.start..(h - 1)
  BY <1>3
<1>5. /\ e.peak \in e.start..(h - 1) /\ RegionalCount(e.peak, codes) = e.largest
      /\ \A g \in e.start..(h - 1) : /\ RegionalCount(g, codes) <= e.largest
                                     /\ g < e.peak => RegionalCount(g, codes) < e.largest
      /\ e.duration = Cardinality(e.start..(h - 1))
      /\ e.cellHours = Cardinality(CellHours(e.start, h - 1, Region, codes))
      /\ \E g \in e.start..(h - 1) : RegionalCount(g, Codes \ {Dry}) = e.wettest
      /\ \A g \in e.start..(h - 1) : RegionalCount(g, Codes \ {Dry}) <= e.wettest
  BY DEF RegionalExtent, CellHours
<1>6. \A g : RegionalCount(g, codes) \in Int /\ RegionalCount(g, Codes \ {Dry}) \in Int
  BY RegionalCounts
<1> HIDE DEF f
<1>7. f.duration = Cardinality(e.start..h)
  <2>1. h - 1 \in Int /\ ~(e.start > h - 1) /\ ~(e.start > h)
    BY <1>3
  <2>2. Cardinality(e.start..(h - 1)) = (h - 1) - e.start + 1
    BY <1>3, <2>1, FS_Interval
  <2>3. Cardinality(e.start..h) = h - e.start + 1
    BY <1>3, <2>1, FS_Interval
  <2>4. QED
    BY <2>2, <2>3, <1>2, <1>3, <1>5
<1>8. f.cellHours = Cardinality(CellHours(e.start, h, Region, codes))
  <2>1. e.start <= h /\ IsFiniteSet(Region)
    BY <1>3, ReductionAssumption, RegionalAssumption, FS_Subset
  <2>2. Cardinality(CellHours(e.start, h, Region, codes)) = Cardinality(CellHours(e.start, h - 1, Region, codes)) + n
    BY <1>3, <2>1, CellHoursAdd DEF RegionalCount
  <2>3. QED
    BY <2>2, <1>2, <1>5
<1>9. f.largest = IF e.largest < n THEN n ELSE e.largest
  BY <1>2 DEF Larger
<1>10. f.peak \in e.start..h /\ RegionalCount(f.peak, codes) = f.largest
  <2>1. CASE n > e.largest
    <3>1. f.peak = h /\ f.largest = n
      BY <1>1, <1>2, <1>3, <1>9, <2>1
    <3>2. QED
      BY <3>1, <1>4
  <2>2. CASE ~(n > e.largest)
    <3>1. f.peak = e.peak /\ f.largest = e.largest
      BY <1>1, <1>2, <1>3, <1>9, <2>2
    <3>2. QED
      BY <3>1, <1>4, <1>5
  <2>3. QED
    BY <2>1, <2>2
<1>11. ASSUME NEW g \in e.start..h
       PROVE  RegionalCount(g, codes) <= f.largest /\ (g < f.peak => RegionalCount(g, codes) < f.largest)
  <2>1. CASE g = h
    <3>1. ~(h < f.peak)
      BY <1>2, <1>3, <1>4, <1>5
    <3>2. n <= f.largest
      BY <1>1, <1>3, <1>9
    <3>3. QED
      BY <2>1, <3>1, <3>2
  <2>2. CASE g # h
    <3>1. /\ RegionalCount(g, codes) <= e.largest
          /\ g < e.peak => RegionalCount(g, codes) < e.largest
      BY <2>2, <1>4, <1>5
    <3>2. RegionalCount(g, codes) \in Int
      BY <1>6
    <3>3. CASE n > e.largest
      <4>1. f.largest = n
        BY <3>3, <1>1, <1>3, <1>9
      <4>2. QED
        BY <4>1, <3>1, <3>2, <3>3, <1>1, <1>3
    <3>4. CASE ~(n > e.largest)
      <4>1. f.largest = e.largest /\ f.peak = e.peak
        BY <3>4, <1>1, <1>2, <1>3, <1>9
      <4>2. QED
        BY <4>1, <3>1
    <3>5. QED
      BY <3>3, <3>4
  <2>3. QED
    BY <2>1, <2>2
<1>12. f.wettest = IF e.wettest < w THEN w ELSE e.wettest
  BY <1>2 DEF Larger
<1>13. \E g \in e.start..h : RegionalCount(g, Codes \ {Dry}) = f.wettest
  BY <1>4, <1>5, <1>12
<1>14. \A g \in e.start..h : RegionalCount(g, Codes \ {Dry}) <= f.wettest
  <2>1. e.wettest <= f.wettest /\ w <= f.wettest /\ f.wettest \in Int
    BY <1>1, <1>3, <1>12
  <2> SUFFICES ASSUME NEW g \in e.start..h PROVE RegionalCount(g, Codes \ {Dry}) <= f.wettest
    OBVIOUS
  <2>2. CASE g = h
    BY <2>1, <2>2
  <2>3. CASE g # h
    <3>1. RegionalCount(g, Codes \ {Dry}) <= e.wettest /\ RegionalCount(g, Codes \ {Dry}) \in Int
      BY <2>3, <1>4, <1>5, <1>6
    <3>2. QED
      BY <3>1, <2>1, <1>3
  <2>4. QED
    BY <2>2, <2>3
<1>15. RegionalExtent(f, codes)
  BY <1>2, <1>7, <1>8, <1>10, <1>11, <1>13, <1>14 DEF RegionalExtent, CellHours
<1>16. QED
  BY <1>2, <1>15 DEF f

-----------------------------------------------------------------------------
(* A catalogue, row by row.                                                *)

HitsIn(D, codes) == {h \in D : RegionalCount(h, codes) > 0}

RegionalFound(s, D, codes) ==
  /\ s = [event |-> s.event, events |-> s.events]
  /\ Cutting(s, D, HitsIn(D, codes), RegionalEvents)
  /\ s.event # Absent => RegionalExtent(s.event, codes)
  /\ \A i \in DOMAIN s.events : RegionalExtent(s.events[i], codes)

LEMMA RowStep ==
  ASSUME NEW codes \in SUBSET Codes, NEW s, NEW D, RegionalFound(s, D, codes),
         NEW h \in Int, \A g \in D : g < h
  PROVE  RegionalFound(CatalogueStep(s, Row(h, weather[h]), codes), D \union {h}, codes)
<1> DEFINE row == Row(h, weather[h])
           n == RegionalCount(h, codes)
           t == CatalogueStep(s, row, codes)
           c == ClosedEvents(s)
           A == HitsIn(D, codes)
           B == HitsIn(D \union {h}, codes)
<1>1. row.hour = h /\ AffectedBy(row, codes) = n /\ n \in Nat
  BY RowOfHour
<1>2. B = IF n = 0 THEN A ELSE A \union {h}
  BY <1>1 DEF HitsIn
<1>3. Cutting(s, D, A, RegionalEvents) /\ s = [event |-> s.event, events |-> s.events]
  BY DEF RegionalFound
<1>4. /\ s.event \in RegionalEvents \union {Absent} /\ s.events \in Seq(RegionalEvents) /\ D \subseteq Int
      /\ \A e \in RegionalEvents : e.start \in Int /\ e.end \in Int
      /\ Absent \notin RegionalEvents
  BY <1>3 DEF Cutting
<1>5. c \in Seq(RegionalEvents) /\ \A i \in DOMAIN c : RegionalExtent(c[i], codes)
  <2>1. \A i \in DOMAIN s.events : RegionalExtent(s.events[i], codes)
    BY DEF RegionalFound
  <2>2. s.event # Absent => RegionalExtent(s.event, codes)
    BY DEF RegionalFound
  <2>3. QED
    BY <1>4, <2>1, <2>2 DEF ClosedEvents
<1>6. Closed(s) = [event |-> Absent, events |-> c]
  <2>1. Closed(s) = [s EXCEPT !.events = c, !.event = Absent]
    BY DEF Closed, ClosedEvents
  <2> HIDE DEF c
  <2>2. QED
    BY <1>3, <2>1
<1>7. B \subseteq D \union {h} /\ D \union {h} \subseteq Int
  BY <1>4 DEF HitsIn
<1> HIDE DEF row, n, c, A, B
<1>8. CASE n = 0
  <2>1. t = [event |-> Absent, events |-> c]
    BY <1>1, <1>6, <1>8 DEF CatalogueStep
  <2> HIDE DEF t
  <2>2. Cut(t, D \union {h}, B)
    BY <1>2, <1>3, <1>8, <2>1, CutEnded DEF c
  <2>3. Cutting(t, D \union {h}, B, RegionalEvents)
    BY <1>4, <1>5, <1>7, <2>1, <2>2 DEF Cutting
  <2>4. QED
    BY <1>5, <2>1, <2>3 DEF RegionalFound, t, row, B
<1>9. CASE n # 0 /\ s.event # Absent /\ s.event.end = h - 1
  <2> DEFINE f == Prolonged(s.event, row, n)
  <2>1. s.event \in RegionalEvents /\ RegionalExtent(s.event, codes) /\ s.event.start <= s.event.end
    BY <1>3, <1>4, <1>9 DEF RegionalFound, Cutting, Cut, RunOf
  <2>2. f \in RegionalEvents /\ f.start = s.event.start /\ f.end = h /\ RegionalExtent(f, codes)
    BY <1>9, <2>1, ProlongedExtent DEF row, n
  <2> HIDE DEF f
  <2>3. t = [event |-> f, events |-> s.events]
    <3>1. t = [s EXCEPT !.event = f]
      BY <1>1, <1>9 DEF CatalogueStep, f
    <3> HIDE DEF t
    <3>2. QED
      BY <1>3, <3>1
  <2>4. f # Absent
    BY <1>4, <2>2
  <2> HIDE DEF t
  <2>5. Cut(t, D \union {h}, B)
    BY <1>2, <1>3, <1>9, <2>2, <2>3, <2>4, CutProlonged
  <2>6. Cutting(t, D \union {h}, B, RegionalEvents)
    BY <1>4, <1>7, <2>2, <2>3, <2>5 DEF Cutting
  <2>7. \A i \in DOMAIN s.events : RegionalExtent(s.events[i], codes)
    BY DEF RegionalFound
  <2>8. QED
    BY <2>2, <2>3, <2>6, <2>7 DEF RegionalFound, t, row, B
<1>10. CASE n # 0 /\ ~(s.event # Absent /\ s.event.end = h - 1)
  <2> DEFINE f == Started(row, n)
  <2>1. f \in RegionalEvents /\ f.start = h /\ f.end = h /\ RegionalExtent(f, codes)
    BY StartedExtent DEF row, n
  <2> HIDE DEF f
  <2>2. t = [event |-> f, events |-> c]
    <3>1. t = [Closed(s) EXCEPT !.event = f]
      BY <1>1, <1>10 DEF CatalogueStep, f
    <3> HIDE DEF t
    <3>2. QED
      BY <1>6, <3>1
  <2>3. f # Absent
    BY <1>4, <2>1
  <2> HIDE DEF t
  <2>4. Cut(t, D \union {h}, B)
    BY <1>2, <1>3, <1>10, <2>1, <2>2, <2>3, CutBegun DEF c
  <2>5. Cutting(t, D \union {h}, B, RegionalEvents)
    BY <1>4, <1>5, <1>7, <2>1, <2>2, <2>4 DEF Cutting
  <2>6. QED
    BY <1>5, <2>1, <2>2, <2>5 DEF RegionalFound, t, row, B
<1>11. QED
  BY <1>8, <1>9, <1>10

NoEvents == [event |-> Absent, events |-> <<>>]

\* The function that the definition of Catalogue chooses exists.
LEMMA CatalogueRowByRow ==
  ASSUME NEW codes, Len(rows) \in Nat
  PROVE  \E f : /\ f[0] = NoEvents /\ Closed(f[Len(rows)]).events = Catalogue(codes)
                /\ \A i \in 1..Len(rows) : f[i] = CatalogueStep(f[i - 1], rows[i], codes)
<1> DEFINE Goes(f, n) ==
             f = [i \in 0..n |-> IF i = 0 THEN NoEvents ELSE CatalogueStep(f[i - 1], rows[i], codes)]
           S == {n \in Nat : \E f : Goes(f, n)}
<1>1. 0 \in S
  <2>1. Goes([i \in 0..0 |-> NoEvents], 0)
    OBVIOUS
  <2>2. QED
    BY <2>1
<1>2. ASSUME NEW n \in Nat, n \in S
      PROVE  n + 1 \in S
  <2>1. PICK f : Goes(f, n)
    BY <1>2
  <2> DEFINE g == [i \in 0..(n + 1) |-> IF i = n + 1 THEN CatalogueStep(f[n], rows[n + 1], codes) ELSE f[i]]
  <2>2. ASSUME NEW i \in 0..(n + 1)
        PROVE  g[i] = IF i = 0 THEN NoEvents ELSE CatalogueStep(g[i - 1], rows[i], codes)
    <3>1. CASE i = n + 1
      <4>1. g[i - 1] = f[n] /\ i - 1 = n
        BY <3>1
      <4>2. QED
        BY <3>1, <4>1
    <3>2. CASE i \in 1..n
      <4>1. i - 1 \in 0..n /\ g[i - 1] = f[i - 1] /\ g[i] = f[i]
        BY <3>2
      <4>2. f[i] = CatalogueStep(f[i - 1], rows[i], codes)
        BY <2>1, <3>2
      <4>3. QED
        BY <3>2, <4>1, <4>2
    <3>3. CASE i = 0
      BY <2>1, <3>3
    <3>4. QED
      BY <3>1, <3>2, <3>3
  <2>3. Goes(g, n + 1)
    <3>1. DOMAIN g = 0..(n + 1) /\ g = [i \in 0..(n + 1) |-> g[i]]
      OBVIOUS
    <3> HIDE DEF g
    <3>2. QED
      BY <3>1, <2>2
  <2> HIDE DEF g, Goes
  <2>4. QED
    BY <2>3
<1> HIDE DEF S
<1>3. Nat \subseteq S
  BY <1>1, <1>2, NatSetInduction
<1>4. \E f : Goes(f, Len(rows))
  BY <1>3 DEF S
<1> DEFINE after == CHOOSE f : Goes(f, Len(rows))
<1>5. Goes(after, Len(rows))
  BY <1>4
<1>6. Catalogue(codes) = Closed(after[Len(rows)]).events
  BY DEF Catalogue, NoEvents
<1> HIDE DEF after
<1>7. \A i \in 0..Len(rows) :
        after[i] = IF i = 0 THEN NoEvents ELSE CatalogueStep(after[i - 1], rows[i], codes)
  BY <1>5
<1>8. QED
  BY <1>6, <1>7

\* A catalogue of all rows has every event of the region.
LEMMA CatalogueComplete ==
  ASSUME NEW codes \in SUBSET Codes, HoursOf(range) \subseteq Int, RowsFound(rows, HoursOf(range))
  PROVE  RegionalComplete(Catalogue(codes), codes)
<1> DEFINE N == Len(rows)
           Part(n) == {rows[i].hour : i \in 1..n}
<1>1. N \in Nat /\ DOMAIN rows = 1..N
  BY DEF RowsFound
<1>2. ASSUME NEW i \in 1..N
      PROVE  rows[i].hour \in HoursOf(range) /\ rows[i] = Row(rows[i].hour, weather[rows[i].hour])
  <2>1. rows[i] \in {Row(h, weather[h]) : h \in HoursOf(range)}
    BY <1>1 DEF RowsFound
  <2>2. PICK h \in HoursOf(range) : rows[i] = Row(h, weather[h])
    BY <2>1
  <2>3. rows[i].hour = h
    BY <2>2 DEF Row
  <2>4. QED
    BY <2>2, <2>3
<1>3. PICK f : /\ f[0] = NoEvents /\ Closed(f[N]).events = Catalogue(codes)
               /\ \A i \in 1..N : f[i] = CatalogueStep(f[i - 1], rows[i], codes)
  BY <1>1, CatalogueRowByRow
<1> DEFINE S == {n \in Nat : n <= N => RegionalFound(f[n], Part(n), codes)}
<1>4. 0 \in S
  <2>1. Part(0) = {}
    OBVIOUS
  <2>2. Cutting(NoEvents, {}, HitsIn({}, codes), RegionalEvents)
    <3>1. << >> \in Seq(RegionalEvents) /\ HitsIn({}, codes) = {} /\ Absent \notin RegionalEvents
      BY RegionalAssumption DEF HitsIn
    <3>2. \A e \in RegionalEvents : e.start \in Int /\ e.end \in Int
      BY DEF RegionalEvents
    <3>3. Cut(NoEvents, {}, {})
      BY DEF Cut, NoEvents, Ordered
    <3>4. QED
      BY <3>1, <3>2, <3>3 DEF Cutting, NoEvents
  <2>3. RegionalFound(NoEvents, {}, codes)
    BY <2>2 DEF RegionalFound, NoEvents
  <2> HIDE DEF Part
  <2>4. QED
    BY <1>3, <2>1, <2>3
<1>5. ASSUME NEW n \in Nat, n \in S
      PROVE  n + 1 \in S
  <2> SUFFICES ASSUME n + 1 <= N PROVE RegionalFound(f[n + 1], Part(n + 1), codes)
    OBVIOUS
  <2> DEFINE h == rows[n + 1].hour
  <2>1. n + 1 \in 1..N
    BY <1>1
  <2>2. h \in Int /\ f[n + 1] = CatalogueStep(f[n], Row(h, weather[h]), codes)
    <3>1. f[n + 1] = CatalogueStep(f[n], rows[n + 1], codes)
      BY <2>1, <1>3
    <3>2. QED
      BY <2>1, <1>2, <3>1
  <2>3. RegionalFound(f[n], Part(n), codes)
    <3> HIDE DEF Part, h
    <3>1. n <= N
      BY <1>1
    <3>2. QED
      BY <1>5, <3>1
  <2>4. Part(n + 1) = Part(n) \union {h}
    <3>1. 1..(n + 1) = (1..n) \union {n + 1}
      OBVIOUS
    <3>2. QED
      BY <3>1
  <2>5. \A g \in Part(n) : g < h
    <3>1. \A i \in 1..n : i \in DOMAIN rows /\ n + 1 \in DOMAIN rows /\ i < n + 1
      BY <1>1, <2>1
    <3>2. \A i \in 1..n : rows[i].hour < h
      BY <3>1 DEF RowsFound
    <3>3. QED
      BY <3>2
  <2> HIDE DEF h, Part, S
  <2>6. QED
    BY <2>2, <2>3, <2>4, <2>5, RowStep
<1> HIDE DEF S
<1>6. N \in S
  BY <1>1, <1>4, <1>5, NatSetInduction
<1>7. RegionalFound(f[N], Part(N), codes)
  BY <1>1, <1>6 DEF S
<1>8. Part(N) = HoursOf(range)
  <2>1. \A h \in HoursOf(range) : \E i \in 1..N : rows[i].hour = h
    BY <1>1 DEF RowsFound
  <2>2. QED
    BY <2>1, <1>2
<1> HIDE DEF Part
<1> DEFINE s == f[N]
           c == ClosedEvents(s)
<1>9. Cutting(s, HoursOf(range), RegionalHits(codes), RegionalEvents)
  BY <1>7, <1>8 DEF RegionalFound, HitsIn, RegionalHits
<1>10. c \in Seq(RegionalEvents) /\ AllCut(c, RegionalHits(codes))
  BY <1>9, CutClosed
<1>11. Catalogue(codes) = c
  <2>1. s = [event |-> s.event, events |-> s.events]
    BY <1>7 DEF RegionalFound
  <2>2. QED
    BY <1>3, <2>1 DEF Closed, ClosedEvents
<1>12. \A i \in DOMAIN c : RegionalExtent(c[i], codes)
  <2>1. s.events \in Seq(RegionalEvents) /\ \A i \in DOMAIN s.events : RegionalExtent(s.events[i], codes)
    BY <1>7 DEF RegionalFound, Cutting
  <2>2. s.event # Absent => s.event \in RegionalEvents /\ RegionalExtent(s.event, codes)
    BY <1>7 DEF RegionalFound, Cutting
  <2> HIDE DEF s
  <2>3. QED
    BY <2>1, <2>2 DEF ClosedEvents
<1> HIDE DEF c
<1>13. QED
  BY <1>10, <1>11, <1>12 DEF RegionalComplete

-----------------------------------------------------------------------------
(* The rows of the reduction.                                              *)

\* The hours of a month come before those of any later month.
LEMMA MonthsInOrder ==
  ASSUME plan \in Plans, NEW p \in DOMAIN plan, NEW q \in DOMAIN plan, p < q,
         NEW g \in PlannedHours(plan[p]), NEW h \in PlannedHours(plan[q])
  PROVE  g < h
<1>1. plan \in Seq(Seq(Days)) /\ InOrder(plan)
  BY ReductionAssumption
<1>2. PICK i \in 1..(StepsPerCycle * Len(plan[p])) : g = ExpectedHours(plan[p])[i]
  BY DEF PlannedHours
<1>3. PICK j \in 1..(StepsPerCycle * Len(plan[q])) : h = ExpectedHours(plan[q])[j]
  BY DEF PlannedHours
<1>4. QED
  BY <1>1, <1>2, <1>3, HoursInOrder

LEMMA MonthRows ==
  ASSUME plan \in Plans, NEW p \in DOMAIN plan
  PROVE  RowsFound(TrueRows(p), PlannedHours(plan[p])) /\ PlannedHours(plan[p]) \subseteq Int
<1> DEFINE hours == ExpectedHours(plan[p])
           D == PlannedHours(plan[p])
           r == TrueRows(p)
<1>1. plan[p] \in Seq(Days) /\ p \in 1..Len(plan)
  BY ReductionAssumption
<1>2. hours \in Seq(Int) /\ \A i, j \in DOMAIN hours : i < j => hours[i] < hours[j]
  BY <1>1, MonthByMonth
<1>3. D = {hours[i] : i \in DOMAIN hours}
  BY <1>1, HourOfMonth DEF PlannedHours
<1>4. r = [i \in DOMAIN hours |-> Row(hours[i], weather[hours[i]])]
  BY DEF TrueRows
<1> HIDE DEF hours, D, r
<1>5. D \subseteq Int
  BY <1>2, <1>3
<1>6. r \in Seq({Row(h, weather[h]) : h \in D})
  <2>1. \A i \in DOMAIN hours : Row(hours[i], weather[hours[i]]) \in {Row(h, weather[h]) : h \in D}
    BY <1>3
  <2>2. QED
    BY <1>2, <1>4, <2>1
<1>7. DOMAIN r = DOMAIN hours /\ \A i \in DOMAIN hours : r[i].hour = hours[i]
  BY <1>4 DEF Row
<1>8. QED
  BY <1>2, <1>3, <1>5, <1>6, <1>7 DEF RowsFound, D, r

\* Rows and those of later hours.
LEMMA RowsJoined ==
  ASSUME NEW a, NEW D, RowsFound(a, D), NEW b, NEW E, RowsFound(b, E),
         \A g \in D : \A h \in E : g < h
  PROVE  RowsFound(a \o b, D \union E)
<1> DEFINE Rows(H) == {Row(h, weather[h]) : h \in H}
           n == Len(a)
           m == Len(b)
           c == a \o b
<1>1. a \in Seq(Rows(D)) /\ b \in Seq(Rows(E)) /\ Rows(D) \subseteq Rows(D \union E) /\ Rows(E) \subseteq Rows(D \union E)
  BY DEF RowsFound
<1>2. /\ \A i \in DOMAIN a : a[i].hour \in D
      /\ \A i \in DOMAIN b : b[i].hour \in E
  <2>1. \A H : \A row \in Rows(H) : row.hour \in H
    BY DEF Row
  <2> HIDE DEF Rows
  <2>2. QED
    BY <1>1, <2>1
<1>3. a \in Seq(Rows(D \union E)) /\ b \in Seq(Rows(D \union E))
  <2>1. \A s, S, T : s \in Seq(S) /\ S \subseteq T => s \in Seq(T)
    OBVIOUS
  <2> HIDE DEF Rows
  <2>2. a \in Seq(Rows(D)) /\ Rows(D) \subseteq Rows(D \union E)
    BY <1>1
  <2>3. b \in Seq(Rows(E)) /\ Rows(E) \subseteq Rows(D \union E)
    BY <1>1
  <2>4. a \in Seq(Rows(D \union E))
    BY <2>1, <2>2
  <2>5. b \in Seq(Rows(D \union E))
    BY <2>1, <2>3
  <2>6. QED
    BY <2>4, <2>5
<1> HIDE DEF Rows
<1>4. /\ n \in Nat /\ m \in Nat /\ DOMAIN a = 1..n /\ DOMAIN b = 1..m
      /\ c \in Seq(Rows(D \union E)) /\ DOMAIN c = 1..(n + m)
      /\ \A i \in 1..(n + m) : c[i] = IF i <= n THEN a[i] ELSE b[i - n]
  <2> DEFINE T == Rows(D \union E)
  <2>1. a \in Seq(T) /\ b \in Seq(T)
    BY <1>3
  <2> HIDE DEF T
  <2>2. n \in Nat /\ m \in Nat /\ DOMAIN a = 1..n /\ DOMAIN b = 1..m
    BY <2>1
  <2>3. c \in Seq(T) /\ Len(c) = n + m
    BY <2>1
  <2>4. DOMAIN c = 1..(n + m)
    BY <2>3
  <2>5. \A i \in 1..(n + m) : c[i] = IF i <= n THEN a[i] ELSE b[i - n]
    BY <2>1
  <2> HIDE DEF c, n, m
  <2>6. QED
    BY <2>2, <2>3, <2>4, <2>5 DEF T
<1> HIDE DEF c, n, m
<1>5. ASSUME NEW h \in D \union E
      PROVE  \E i \in DOMAIN c : c[i].hour = h
  <2>1. CASE h \in D
    <3>1. PICK i \in 1..n : a[i].hour = h
      BY <2>1, <1>4 DEF RowsFound
    <3>2. i \in 1..(n + m) /\ c[i] = a[i]
      BY <1>4
    <3>3. QED
      BY <1>4, <3>1, <3>2
  <2>2. CASE h \in E
    <3>1. PICK i \in 1..m : b[i].hour = h
      BY <2>2, <1>4 DEF RowsFound
    <3>2. n + i \in 1..(n + m) /\ ~(n + i <= n) /\ (n + i) - n = i
      BY <1>4
    <3>3. c[n + i] = b[i]
      BY <1>4, <3>2
    <3>4. QED
      BY <1>4, <3>1, <3>2, <3>3
  <2>3. QED
    BY <2>1, <2>2
<1>6. ASSUME NEW i \in 1..(n + m), NEW j \in 1..(n + m), i < j
      PROVE  c[i].hour < c[j].hour
  <2>1. CASE j <= n
    <3>1. i \in 1..n /\ j \in 1..n /\ c[i] = a[i] /\ c[j] = a[j]
      BY <2>1, <1>4, <1>6
    <3>2. QED
      BY <3>1, <1>4, <1>6 DEF RowsFound
  <2>2. CASE i <= n /\ ~(j <= n)
    <3>1. i \in 1..n /\ j - n \in 1..m /\ c[i] = a[i] /\ c[j] = b[j - n]
      BY <2>2, <1>4, <1>6
    <3>2. QED
      BY <3>1, <1>2, <1>4
  <2>3. CASE ~(i <= n)
    <3>1. ~(j <= n) /\ i - n \in 1..m /\ j - n \in 1..m /\ i - n < j - n
      BY <2>3, <1>4, <1>6
    <3>2. c[i] = b[i - n] /\ c[j] = b[j - n]
      BY <3>1, <2>3, <1>4
    <3>3. QED
      BY <3>1, <3>2, <1>4 DEF RowsFound
  <2>4. QED
    BY <2>1, <2>2, <2>3, <1>4
<1>7. QED
  BY <1>4, <1>5, <1>6 DEF RowsFound, Rows, c

\* The function that the definition of MergedRows chooses exists.
LEMMA MergedMonthByMonth ==
  ASSUME Len(plan) \in Nat
  PROVE  \E f : /\ f[0] = <<>> /\ f[Len(plan)] = MergedRows
                /\ \A p \in 1..Len(plan) : f[p] = IF p \in range THEN f[p - 1] \o shards[p] ELSE f[p - 1]
<1> DEFINE Then(f, i) == IF i \in range THEN f[i - 1] \o shards[i] ELSE f[i - 1]
           Goes(f, n) == f = [i \in 0..n |-> IF i = 0 THEN <<>> ELSE Then(f, i)]
           S == {n \in Nat : \E f : Goes(f, n)}
<1>1. 0 \in S
  <2>1. Goes([i \in 0..0 |-> <<>>], 0)
    OBVIOUS
  <2>2. QED
    BY <2>1
<1>2. ASSUME NEW n \in Nat, n \in S
      PROVE  n + 1 \in S
  <2>1. PICK f : Goes(f, n)
    BY <1>2
  <2> DEFINE last == IF n + 1 \in range THEN f[n] \o shards[n + 1] ELSE f[n]
             g == [i \in 0..(n + 1) |-> IF i = n + 1 THEN last ELSE f[i]]
  <2>2. ASSUME NEW i \in 0..(n + 1)
        PROVE  g[i] = IF i = 0 THEN <<>> ELSE Then(g, i)
    <3>1. CASE i = n + 1
      <4>1. g[i - 1] = f[n] /\ i - 1 = n /\ g[i] = last /\ i # 0
        BY <3>1
      <4> HIDE DEF g
      <4>2. QED
        BY <3>1, <4>1
    <3>2. CASE i \in 1..n
      <4>1. i - 1 \in 0..n /\ g[i - 1] = f[i - 1] /\ g[i] = f[i]
        BY <3>2
      <4>2. f[i] = Then(f, i)
        BY <2>1, <3>2
      <4> HIDE DEF g
      <4>3. QED
        BY <3>2, <4>1, <4>2
    <3>3. CASE i = 0
      BY <2>1, <3>3
    <3>4. QED
      BY <3>1, <3>2, <3>3
  <2>3. Goes(g, n + 1)
    <3>1. DOMAIN g = 0..(n + 1) /\ g = [i \in 0..(n + 1) |-> g[i]]
      OBVIOUS
    <3> HIDE DEF g
    <3>2. QED
      BY <3>1, <2>2
  <2> HIDE DEF g, Goes
  <2>4. QED
    BY <2>3
<1> HIDE DEF S
<1>3. Nat \subseteq S
  BY <1>1, <1>2, NatSetInduction
<1>4. \E f : Goes(f, Len(plan))
  BY <1>3 DEF S
<1> DEFINE after == CHOOSE f : Goes(f, Len(plan))
<1>5. Goes(after, Len(plan))
  BY <1>4
<1>6. MergedRows = after[Len(plan)]
  BY DEF MergedRows
<1> HIDE DEF after
<1>7. \A i \in 0..Len(plan) : after[i] = IF i = 0 THEN <<>> ELSE Then(after, i)
  BY <1>5
<1>8. QED
  BY <1>6, <1>7

\* The shards put together are the rows of all selected hours.
LEMMA ShardsMerged ==
  ASSUME plan \in Plans, \A p \in range : p \in DOMAIN plan /\ shards[p] = TrueRows(p)
  PROVE  RowsFound(MergedRows, HoursOf(range)) /\ HoursOf(range) \subseteq Int
<1> DEFINE N == Len(plan)
           Part(n) == HoursOf(range \intersect 1..n)
<1>1. N \in Nat /\ DOMAIN plan = 1..N
  BY MonthByMonth
<1>2. PICK f : /\ f[0] = <<>> /\ f[N] = MergedRows
               /\ \A p \in 1..N : f[p] = IF p \in range THEN f[p - 1] \o shards[p] ELSE f[p - 1]
  BY <1>1, MergedMonthByMonth
<1> DEFINE S == {n \in Nat : n <= N => RowsFound(f[n], Part(n))}
<1>3. 0 \in S
  <2>1. Part(0) = {}
    BY DEF HoursOf
  <2>2. RowsFound(<<>>, {})
    BY DEF RowsFound
  <2> HIDE DEF Part
  <2>3. QED
    BY <1>2, <2>1, <2>2
<1>4. ASSUME NEW n \in Nat, n \in S
      PROVE  n + 1 \in S
  <2> SUFFICES ASSUME n + 1 <= N PROVE RowsFound(f[n + 1], Part(n + 1))
    OBVIOUS
  <2> DEFINE p == n + 1
  <2>1. p \in 1..N /\ p - 1 = n
    BY <1>1
  <2>2. RowsFound(f[n], Part(n))
    <3> HIDE DEF Part
    <3>1. n <= N
      BY <1>1
    <3>2. QED
      BY <1>4, <3>1
  <2>3. 1..p = (1..n) \union {p}
    OBVIOUS
  <2>4. CASE p \notin range
    <3>1. range \intersect 1..p = range \intersect 1..n
      BY <2>3, <2>4
    <3>2. f[p] = f[n]
      BY <1>2, <2>1, <2>4
    <3>3. QED
      BY <2>2, <3>1, <3>2
  <2>5. CASE p \in range
    <3>1. Part(p) = Part(n) \union PlannedHours(plan[p])
      BY <2>3, <2>5 DEF HoursOf
    <3>2. f[p] = f[n] \o TrueRows(p)
      BY <1>2, <2>1, <2>5
    <3>3. RowsFound(TrueRows(p), PlannedHours(plan[p]))
      BY <1>1, <2>1, MonthRows
    <3>4. \A g \in Part(n) : \A h \in PlannedHours(plan[p]) : g < h
      <4> SUFFICES ASSUME NEW q \in 1..n, NEW g \in PlannedHours(plan[q]), NEW h \in PlannedHours(plan[p])
                   PROVE  g < h
        BY DEF HoursOf
      <4>1. q \in DOMAIN plan /\ p \in DOMAIN plan /\ q < p
        BY <1>1, <2>1
      <4>2. QED
        BY <4>1, MonthsInOrder
    <3> HIDE DEF Part
    <3>5. QED
      BY <2>2, <3>1, <3>2, <3>3, <3>4, RowsJoined
  <2>6. QED
    BY <2>4, <2>5
<1> HIDE DEF S, Part
<1>5. N \in S
  BY <1>1, <1>3, <1>4, NatSetInduction
<1>6. RowsFound(f[N], Part(N))
  BY <1>1, <1>5 DEF S
<1>7. Part(N) = HoursOf(range)
  <2>1. range \intersect 1..N = range
    BY <1>1
  <2>2. QED
    BY <2>1 DEF Part
<1>8. HoursOf(range) \subseteq Int
  BY MonthRows DEF HoursOf
<1>9. QED
  BY <1>2, <1>6, <1>7, <1>8

-----------------------------------------------------------------------------
(* The regional invariant.                                                 *)

\* What the rows and the events of the selected hours are does not change.
LEMMA RegionFrame ==
  ASSUME UNCHANGED <<plan, weather, range>>
  PROVE  /\ \A p : TrueRows(p)' = TrueRows(p)
         /\ HoursOf(range)' = HoursOf(range)
         /\ \A r, D : RowsFound(r, D)' = RowsFound(r, D)
         /\ \A e, codes : RegionalComplete(e, codes)' = RegionalComplete(e, codes)
<1>1. \A p : TrueRows(p)' = TrueRows(p)
  BY DEF TrueRows
<1>2. HoursOf(range)' = HoursOf(range)
  BY DEF HoursOf
<1>3. \A r, D : RowsFound(r, D)' = RowsFound(r, D)
  BY DEF RowsFound
<1>4. \A h, codes : RegionalCount(h, codes)' = RegionalCount(h, codes)
  BY DEF RegionalCount
<1>5. \A codes : RegionalHits(codes)' = RegionalHits(codes)
  BY <1>2, <1>4 DEF RegionalHits
<1>6. ASSUME NEW e, NEW codes
      PROVE  RegionalExtent(e, codes)' = RegionalExtent(e, codes)
  <2>1. {p \in (e.start..e.end) \X Region : weather'[p[1]][p[2]] \in codes}
          = {p \in (e.start..e.end) \X Region : weather[p[1]][p[2]] \in codes}
    OBVIOUS
  <2>2. \A h : RegionalCount(h, codes)' = RegionalCount(h, codes)
    BY <1>4
  <2>3. \A h : RegionalCount(h, Codes \ {Dry})' = RegionalCount(h, Codes \ {Dry})
    BY <1>4
  <2>4. QED
    BY <2>1, <2>2, <2>3 DEF RegionalExtent
<1>7. \A e, codes : RegionalComplete(e, codes)' = RegionalComplete(e, codes)
  BY <1>5, <1>6 DEF RegionalComplete
<1>8. QED
  BY <1>1, <1>2, <1>3, <1>7

LEMMA CanonicalFrame ==
  ASSUME UNCHANGED canonical
  PROVE  /\ UNCHANGED <<plan, weather, monthly, reduction>>
         /\ TasksComplete' = TasksComplete
BY DEF canonical, TasksComplete

LEMMA RegionallyInitially ==
  RegionalInit => RegionalInv
<1> SUFFICES ASSUME RegionalInit PROVE RegionalInv
  OBVIOUS
<1>1. RegionInv
  BY DEF RegionalInit, RegionInv
<1>2. TaskInv
  BY RegionalAssumption DEF RegionalInit, TaskInv
<1>3. CatalogueInv
  BY DEF RegionalInit, CatalogueInv, RegionalEnded, Finished
<1>4. QED
  BY <1>1, <1>2, <1>3 DEF RegionalInv

\* The reduction never touches the manifest or the weather.
LEMMA ReductionKeepsData ==
  Next => UNCHANGED <<plan, weather>>
<1>1. (\E p \in DOMAIN plan : AnalyseMonth(p)) \/ Begin \/ Merge \/ PublishFrequency => UNCHANGED <<plan, weather>>
  BY DEF AnalyseMonth, Begin, Merge, PublishFrequency, data
<1>2. Scan \/ PublishHourly \/ PublishEvents \/ PublishMap => UNCHANGED <<plan, weather>>
  BY DEF Scan, PublishHourly, PublishEvents, PublishMap, data
<1>3. PublishReport \/ Seal \/ Kill => UNCHANGED <<plan, weather>>
  BY DEF PublishReport, Seal, Kill, data
<1>4. QED
  BY <1>1, <1>2, <1>3 DEF Next, Reduce

\* Before a region is planned its campaign has nothing.
LEMMA UnplannedStep ==
  ASSUME RegionalInv, range = {}, Next, UNCHANGED regional
  PROVE  RegionalInv'
<1>1. /\ UNCHANGED <<plan, weather>>
      /\ UNCHANGED <<range, shards, receipts, task, reducing, rows, catalogues, sealed>>
  BY ReductionKeepsData DEF regional
<1>2. RegionInv'
  BY <1>1 DEF RegionalInv, RegionInv
<1>3. TaskInv'
  BY <1>1, RegionFrame DEF RegionalInv, TaskInv
<1>4. CatalogueInv'
  BY <1>1, RegionFrame DEF RegionalInv, CatalogueInv
<1>5. QED
  BY <1>2, <1>3, <1>4 DEF RegionalInv

LEMMA PlanRegionStep ==
  ASSUME RegionalInv, ReductionInv, PlanRegion
  PROVE  RegionalInv'
<1>1. /\ UNCHANGED <<plan, weather, monthly, reduction>> /\ TasksComplete' = TasksComplete
      /\ UNCHANGED <<shards, receipts, task, reducing, catalogues, sealed>>
  BY CanonicalFrame DEF PlanRegion
<1>2. range = {} /\ TasksComplete /\ reduction.ok
  BY DEF PlanRegion, StatusComplete
<1>3. /\ task = Absent /\ reducing = "idle" /\ sealed = Absent
      /\ \A p \in DOMAIN plan : receipts[p] = Absent
      /\ \A d \in Catalogues : catalogues[d] = Absent
  BY <1>2 DEF RegionalInv, RegionInv
<1>4. range' \subseteq DOMAIN plan
  <2>1. Len(plan) \in Nat /\ DOMAIN plan = 1..Len(plan)
    BY MonthByMonth DEF ReductionInv
  <2>2. PICK first \in DOMAIN plan : \E last \in first..Len(plan) : range' = first..last
    BY DEF PlanRegion
  <2>3. PICK last \in first..Len(plan) : range' = first..last
    BY <2>2
  <2>4. QED
    BY <2>1, <2>3
<1>5. RegionInv'
  BY <1>1, <1>2, <1>3, <1>4 DEF RegionalInv, RegionInv
<1>6. TaskInv'
  BY <1>1, <1>3, RegionalAssumption DEF TaskInv
<1>7. CatalogueInv'
  BY <1>1, <1>3 DEF CatalogueInv, RegionalEnded, Finished
<1>8. QED
  BY <1>5, <1>6, <1>7 DEF RegionalInv

\* Only what the receipt sealed is read.
LEMMA StartTaskStep ==
  ASSUME RegionalInv, ReductionInv, NEW p \in DOMAIN plan, StartTask(p)
  PROVE  RegionalInv'
<1>1. /\ UNCHANGED <<plan, weather, monthly, reduction>> /\ TasksComplete' = TasksComplete
      /\ UNCHANGED <<range, shards, reducing, rows, catalogues, sealed>>
  BY CanonicalFrame DEF StartTask
<1>2. p \in range
  BY DEF StartTask
<1>3. /\ DOMAIN receipts' = DOMAIN receipts
      /\ \A q \in DOMAIN plan : receipts'[q] \in {receipts[q], "critical"}
  BY DEF StartTask, RegionalInv, RegionInv
<1>4. RegionInv'
  BY <1>1, <1>2, <1>3 DEF RegionalInv, RegionInv
<1>5. TaskInv'
  <2>1. \A q \in DOMAIN plan : receipts'[q] \in {"whole", "damaged"} => shards[q] = TrueRows(q)
    BY <1>3 DEF RegionalInv, TaskInv
  <2>2. CASE MatchesSeal(p)
    <3>1. monthly[p].hours = ExpectedHours(plan[p])
      BY <1>2 DEF RegionalInv, RegionInv, TasksComplete, ReductionInv, ScanInv
    <3>2. RowsOf(p) = TrueRows(p)
      BY <2>2, <3>1 DEF RowsOf, TrueRows, Field, MatchesSeal
    <3>3. task' = [month |-> p, at |-> "shard", read |-> compact[p], rows |-> TrueRows(p)]
      BY <2>2, <3>2 DEF StartTask
    <3>4. QED
      BY <1>1, <2>1, <3>3, RegionFrame DEF TaskInv
  <2>3. CASE ~MatchesSeal(p)
    <3>1. task' = task
      BY <2>3 DEF StartTask
    <3>2. QED
      BY <1>1, <2>1, <3>1, RegionFrame DEF RegionalInv, TaskInv
  <2>4. QED
    BY <2>2, <2>3
<1>6. CatalogueInv'
  BY <1>1, RegionFrame DEF RegionalInv, CatalogueInv
<1>7. QED
  BY <1>4, <1>5, <1>6 DEF RegionalInv

LEMMA PublishShardStep ==
  ASSUME RegionalInv, PublishShard
  PROVE  RegionalInv'
<1> DEFINE m == task.month
<1>1. /\ UNCHANGED <<plan, weather, monthly, reduction>> /\ TasksComplete' = TasksComplete
      /\ UNCHANGED <<range, receipts, reducing, rows, catalogues, sealed>>
  BY CanonicalFrame DEF PublishShard
<1>2. /\ m \in DOMAIN plan /\ task.rows = TrueRows(m) /\ task # Absent
      /\ task = [month |-> task.month, at |-> task.at, read |-> task.read, rows |-> task.rows]
  BY DEF PublishShard, RegionalInv, TaskInv
<1>3. shards' = [shards EXCEPT ![m] = TrueRows(m)] /\ DOMAIN shards = DOMAIN plan
  BY <1>2 DEF PublishShard, RegionalInv, RegionInv
<1>4. task' = [month |-> m, at |-> "receipt", read |-> task.read, rows |-> task.rows]
  BY <1>2 DEF PublishShard
<1>5. RegionInv'
  BY <1>1, <1>2, <1>3 DEF RegionalInv, RegionInv
<1>6. TaskInv'
  <2>1. task'.month = m /\ task'.rows = TrueRows(m)
    BY <1>2, <1>4
  <2>2. shards'[m] = TrueRows(m) /\ \A p \in DOMAIN plan : p # m => shards'[p] = shards[p]
    BY <1>2, <1>3
  <2>3. \A p \in DOMAIN plan : receipts[p] \in {"whole", "damaged"} => shards'[p] = TrueRows(p)
    BY <2>2 DEF RegionalInv, TaskInv
  <2> HIDE DEF m
  <2>4. QED
    BY <1>1, <1>2, <1>4, <2>1, <2>2, <2>3, RegionFrame DEF TaskInv
<1>7. CatalogueInv'
  BY <1>1, RegionFrame DEF RegionalInv, CatalogueInv
<1>8. QED
  BY <1>5, <1>6, <1>7 DEF RegionalInv

LEMMA PublishReceiptStep ==
  ASSUME RegionalInv, PublishReceipt
  PROVE  RegionalInv'
<1> DEFINE m == task.month
<1>1. /\ UNCHANGED <<plan, weather, monthly, reduction>> /\ TasksComplete' = TasksComplete
      /\ UNCHANGED <<range, shards, reducing, rows, catalogues, sealed>> /\ task' = Absent
  BY CanonicalFrame DEF PublishReceipt
<1>2. /\ m \in DOMAIN plan /\ shards[m] = TrueRows(m) /\ task # Absent
      /\ receipts' = [receipts EXCEPT ![m] = task.read]
  BY DEF PublishReceipt, RegionalInv, TaskInv
<1>3. RegionInv'
  BY <1>1, <1>2 DEF RegionalInv, RegionInv
<1>4. TaskInv'
  <2>1. \A p \in DOMAIN plan : p # m => receipts'[p] = receipts[p]
    BY <1>2 DEF RegionalInv, RegionInv
  <2>2. \A p \in DOMAIN plan : receipts'[p] \in {"whole", "damaged"} => shards[p] = TrueRows(p)
    BY <1>2, <2>1 DEF RegionalInv, TaskInv
  <2>3. QED
    BY <1>1, <2>2, RegionFrame DEF TaskInv
<1>5. CatalogueInv'
  BY <1>1, RegionFrame DEF RegionalInv, CatalogueInv
<1>6. QED
  BY <1>3, <1>4, <1>5 DEF RegionalInv

\* A killed task, a damaged archive, and a step that changes nothing.
LEMMA RegionalLossStep ==
  ASSUME RegionalInv, UNCHANGED <<canonical, range, shards, receipts, reducing, rows, catalogues, sealed>>,
         task' \in {task, Absent}
  PROVE  RegionalInv'
<1>1. /\ UNCHANGED <<plan, weather, monthly, reduction>> /\ TasksComplete' = TasksComplete
      /\ UNCHANGED <<range, shards, receipts, reducing, rows, catalogues, sealed>>
  BY CanonicalFrame
<1>2. RegionInv'
  BY <1>1 DEF RegionalInv, RegionInv
<1>3. TaskInv'
  BY <1>1, RegionFrame DEF RegionalInv, TaskInv
<1>4. CatalogueInv'
  BY <1>1, RegionFrame DEF RegionalInv, CatalogueInv
<1>5. QED
  BY <1>2, <1>3, <1>4 DEF RegionalInv

\* Every month has a receipt, and none vouches for anything but the archive.
LEMMA MergeShardsStep ==
  ASSUME RegionalInv, ReductionInv, MergeShards
  PROVE  RegionalInv'
<1>1. /\ UNCHANGED <<plan, weather, monthly, reduction>> /\ TasksComplete' = TasksComplete
      /\ UNCHANGED <<range, shards, receipts, task, catalogues, sealed>>
      /\ rows' = MergedRows /\ reducing' = "high_impact" /\ range # {}
  BY CanonicalFrame DEF MergeShards, RegionalTasksComplete
<1>2. \A p \in range : p \in DOMAIN plan /\ shards[p] = TrueRows(p)
  BY DEF MergeShards, RegionalTasksComplete, RegionalInv, RegionInv, TaskInv
<1>3. RowsFound(rows', HoursOf(range))
  BY <1>1, <1>2, ShardsMerged, RegionFrame DEF ReductionInv
<1>4. RegionInv'
  BY <1>1 DEF RegionalInv, RegionInv
<1>5. TaskInv'
  BY <1>1, RegionFrame DEF RegionalInv, TaskInv
<1>6. CatalogueInv'
  BY <1>1, <1>3, RegionFrame DEF RegionalInv, CatalogueInv, Finished
<1>7. QED
  BY <1>4, <1>5, <1>6 DEF RegionalInv

LEMMA PublishCatalogueStep ==
  ASSUME RegionalInv, ReductionInv, PublishCatalogue
  PROVE  RegionalInv'
<1> DEFINE codes == EventDefinitions[reducing]
           events == Catalogue(codes)
<1>1. /\ UNCHANGED <<plan, weather, monthly, reduction>> /\ TasksComplete' = TasksComplete
      /\ UNCHANGED <<range, shards, receipts, task, rows, sealed>>
      /\ catalogues' = [catalogues EXCEPT ![reducing] = events]
      /\ reducing' = After(reducing) /\ reducing \in Catalogues
  BY CanonicalFrame DEF PublishCatalogue
<1>2. /\ reducing \in {"high_impact", "freezing_drizzle", "icy_liquid"} /\ reducing \notin RegionalEnded
      /\ reducing' \in DOMAIN Finished /\ reducing' \notin RegionalEnded
      /\ Finished[reducing'] = Finished[reducing] \union {reducing}
  BY <1>1 DEF Catalogues, EventDefinitions, RegionalEnded, Finished, After
<1>3. range # {} /\ range \subseteq DOMAIN plan /\ RowsFound(rows, HoursOf(range)) /\ reducing \in DOMAIN Finished
  BY <1>2 DEF RegionalInv, RegionInv, CatalogueInv, RegionalEnded
<1>4. HoursOf(range) \subseteq Int
  BY <1>3, MonthRows DEF ReductionInv, HoursOf
<1>5. codes \in SUBSET Codes
  BY <1>2, ReductionAssumption, RegionalAssumption DEF EventDefinitions
<1> HIDE DEF codes
<1>6. RegionalComplete(events, codes)
  BY <1>3, <1>4, <1>5, CatalogueComplete
<1> HIDE DEF events
<1>7. /\ DOMAIN catalogues = Catalogues /\ DOMAIN catalogues' = Catalogues
      /\ catalogues'[reducing] = events
      /\ \A d \in Catalogues : d # reducing => catalogues'[d] = catalogues[d]
  BY <1>1 DEF RegionalInv, RegionInv
<1>8. RegionInv'
  BY <1>1, <1>3, <1>7 DEF RegionalInv, RegionInv
<1>9. TaskInv'
  BY <1>1, RegionFrame DEF RegionalInv, TaskInv
<1>10. CatalogueInv'
  <2>1. ASSUME NEW d \in Catalogues, catalogues'[d] # Absent \/ d \in Finished[reducing']
        PROVE  RegionalComplete(catalogues'[d], EventDefinitions[d])
    <3>1. CASE d = reducing
      BY <3>1, <1>6, <1>7 DEF codes
    <3>2. CASE d # reducing
      BY <2>1, <3>2, <1>2, <1>3, <1>7 DEF RegionalInv, CatalogueInv
    <3>3. QED
      BY <3>1, <3>2
  <2>2. \A d \in Catalogues : catalogues'[d] # Absent \/ d \in Finished[reducing'] =>
          RegionalComplete(catalogues[d], EventDefinitions[d])'
    BY <1>1, <2>1, RegionFrame
  <2>3. /\ \A r, D : RowsFound(r, D)' = RowsFound(r, D)
        /\ HoursOf(range)' = HoursOf(range)
        /\ \A e, c : RegionalComplete(e, c)' = RegionalComplete(e, c)
    BY <1>1, RegionFrame
  <2>4. RowsFound(rows, HoursOf(range))'
    BY <1>1, <1>3, <2>3
  <2>5. sealed' # Absent => \A d \in Catalogues : RegionalComplete(sealed[d], EventDefinitions[d])'
    BY <1>1, <2>3 DEF RegionalInv, CatalogueInv
  <2>6. QED
    BY <1>2, <2>2, <2>4, <2>5 DEF CatalogueInv
<1>11. QED
  BY <1>8, <1>9, <1>10 DEF RegionalInv

LEMMA JudgeRegionStep ==
  ASSUME RegionalInv, JudgeRegion
  PROVE  RegionalInv'
<1>1. /\ UNCHANGED <<plan, weather, monthly, reduction>> /\ TasksComplete' = TasksComplete
      /\ UNCHANGED <<range, shards, receipts, task, catalogues>>
      /\ reducing' \in {"complete", "raised"} /\ sealed' \in {sealed, catalogues} /\ reducing = "report"
  BY CanonicalFrame DEF JudgeRegion
<1>2. range # {}
  BY <1>1 DEF RegionalInv, RegionInv
<1>3. \A d \in Catalogues : RegionalComplete(catalogues[d], EventDefinitions[d])
  BY <1>1 DEF RegionalInv, CatalogueInv, Finished
<1>4. RegionInv'
  BY <1>1, <1>2 DEF RegionalInv, RegionInv
<1>5. TaskInv'
  BY <1>1, RegionFrame DEF RegionalInv, TaskInv
<1>6. CatalogueInv'
  BY <1>1, <1>3, RegionFrame DEF RegionalInv, CatalogueInv, RegionalEnded
<1>7. QED
  BY <1>4, <1>5, <1>6 DEF RegionalInv

LEMMA KillRegionalReductionStep ==
  ASSUME RegionalInv, KillRegionalReduction
  PROVE  RegionalInv'
<1>1. /\ UNCHANGED <<plan, weather, monthly, reduction>> /\ TasksComplete' = TasksComplete
      /\ UNCHANGED <<range, shards, receipts, task, catalogues, sealed>>
      /\ reducing' = "killed" /\ reducing # "idle"
  BY CanonicalFrame DEF KillRegionalReduction, RegionalEnded
<1>2. RegionInv'
  BY <1>1 DEF RegionalInv, RegionInv
<1>3. TaskInv'
  BY <1>1, RegionFrame DEF RegionalInv, TaskInv
<1>4. CatalogueInv'
  BY <1>1, RegionFrame DEF RegionalInv, CatalogueInv, RegionalEnded, Finished
<1>5. QED
  BY <1>2, <1>3, <1>4 DEF RegionalInv

LEMMA RegionalInvInductive ==
  RegionalInv /\ ReductionInv /\ [RegionalNext]_<<canonical, regional>> => RegionalInv'
<1> SUFFICES ASSUME RegionalInv, ReductionInv, [RegionalNext]_<<canonical, regional>> PROVE RegionalInv'
  OBVIOUS
<1>1. CASE range = {} /\ Next /\ UNCHANGED regional
  BY <1>1, UnplannedStep
<1>2. CASE PlanRegion
  BY <1>2, PlanRegionStep
<1>3. CASE \E p \in DOMAIN plan : StartTask(p)
  BY <1>3, StartTaskStep
<1>4. CASE PublishShard \/ PublishReceipt
  BY <1>4, PublishShardStep, PublishReceiptStep
<1>5. CASE KillTask \/ \E p \in DOMAIN plan : Damage(p)
  BY <1>5, RegionalLossStep DEF KillTask, Damage
<1>6. CASE MergeShards \/ PublishCatalogue
  BY <1>6, MergeShardsStep, PublishCatalogueStep
<1>7. CASE JudgeRegion \/ KillRegionalReduction
  BY <1>7, JudgeRegionStep, KillRegionalReductionStep
<1>8. CASE UNCHANGED <<canonical, regional>>
  BY <1>8, RegionalLossStep DEF regional
<1>9. QED
  BY <1>1, <1>2, <1>3, <1>4, <1>5, <1>6, <1>7, <1>8 DEF RegionalNext

-----------------------------------------------------------------------------
(* What the invariant says of the regional catalogues.                     *)

LEMMA SelectedHours ==
  ASSUME RegionalInv, ReductionInv
  PROVE  HoursOf(range) \subseteq Planned /\ Planned \subseteq Int
<1>1. range \subseteq DOMAIN plan
  BY DEF RegionalInv, RegionInv
<1>2. HoursOf(range) \subseteq Planned
  BY <1>1 DEF HoursOf, Planned
<1>3. Planned \subseteq Int
  BY MonthRows DEF ReductionInv, Planned
<1>4. QED
  BY <1>2, <1>3

LEMMA CataloguesAreMaximal ==
  RegionalInv /\ ReductionInv => RegionalEventsAreMaximalRuns
<1> SUFFICES ASSUME RegionalInv, ReductionInv, NEW d \in Catalogues, catalogues[d] # Absent
             PROVE  LET events == catalogues[d]
                        count(h) == RegionalCount(h, EventDefinitions[d])
                        hit(h) == h \in HoursOf(range) /\ count(h) > 0
                    IN  /\ \A h \in HoursOf(range) : hit(h) => \E i \in DOMAIN events : h \in events[i].start..events[i].end
                        /\ \A i \in DOMAIN events :
                             LET e == events[i]
                                 hours == e.start..e.end
                             IN  /\ Maximal(e.start, e.end, hit)
                                 /\ i > 1 => events[i - 1].end < e.start
                                 /\ e.peak \in hours /\ count(e.peak) = e.largest
                                 /\ \A h \in hours : count(h) <= e.largest /\ (h < e.peak => count(h) < e.largest)
                                 /\ e.duration = Cardinality(hours)
                                 /\ e.cellHours = Cardinality({p \in hours \X Region : weather[p[1]][p[2]] \in EventDefinitions[d]})
                                 /\ \E h \in hours : RegionalCount(h, Codes \ {Dry}) = e.wettest
                                 /\ \A h \in hours : RegionalCount(h, Codes \ {Dry}) <= e.wettest
  BY DEF RegionalEventsAreMaximalRuns
<1> DEFINE events == catalogues[d]
           codes == EventDefinitions[d]
           hit(h) == h \in HoursOf(range) /\ RegionalCount(h, codes) > 0
<1>1. RegionalComplete(events, codes)
  BY DEF RegionalInv, CatalogueInv
<1>2. HoursOf(range) \subseteq Planned
  BY SelectedHours
<1> HIDE DEF events, codes
<1>3. \A h \in HoursOf(range) : hit(h) => \E i \in DOMAIN events : h \in events[i].start..events[i].end
  BY <1>1 DEF RegionalComplete, AllCut, Covered, RegionalHits
<1>4. ASSUME NEW i \in DOMAIN events
      PROVE  LET e == events[i]
                 hours == e.start..e.end
             IN  /\ Maximal(e.start, e.end, hit)
                 /\ i > 1 => events[i - 1].end < e.start
                 /\ RegionalExtent(e, codes)
  <2> DEFINE e == events[i]
  <2>1. /\ RunOf(e, RegionalHits(codes)) /\ e.end + 1 \notin RegionalHits(codes)
        /\ i > 1 => events[i - 1].end < e.start
        /\ RegionalExtent(e, codes)
    BY <1>1 DEF RegionalComplete, AllCut, Ordered
  <2> HIDE DEF e
  <2>2. Maximal(e.start, e.end, hit)
    BY <1>2, <2>1 DEF RunOf, Maximal, RegionalHits
  <2>3. QED
    BY <2>1, <2>2 DEF e
<1>5. ASSUME NEW i \in DOMAIN events
      PROVE  LET e == events[i]
                 hours == e.start..e.end
             IN  /\ Maximal(e.start, e.end, hit)
                 /\ i > 1 => events[i - 1].end < e.start
                 /\ e.peak \in hours /\ RegionalCount(e.peak, codes) = e.largest
                 /\ \A h \in hours : RegionalCount(h, codes) <= e.largest
                                     /\ (h < e.peak => RegionalCount(h, codes) < e.largest)
                 /\ e.duration = Cardinality(hours)
                 /\ e.cellHours = Cardinality({p \in hours \X Region : weather[p[1]][p[2]] \in codes})
                 /\ \E h \in hours : RegionalCount(h, Codes \ {Dry}) = e.wettest
                 /\ \A h \in hours : RegionalCount(h, Codes \ {Dry}) <= e.wettest
  <2> DEFINE e == events[i]
             M == Maximal(e.start, e.end, hit)
  <2>1. M /\ (i > 1 => events[i - 1].end < e.start) /\ RegionalExtent(e, codes)
    BY <1>4
  <2> HIDE DEF M, e
  <2>2. /\ e.peak \in e.start..e.end /\ RegionalCount(e.peak, codes) = e.largest
        /\ \A h \in e.start..e.end : RegionalCount(h, codes) <= e.largest
                                     /\ (h < e.peak => RegionalCount(h, codes) < e.largest)
        /\ e.duration = Cardinality(e.start..e.end)
        /\ e.cellHours = Cardinality({p \in (e.start..e.end) \X Region : weather[p[1]][p[2]] \in codes})
        /\ \E h \in e.start..e.end : RegionalCount(h, Codes \ {Dry}) = e.wettest
        /\ \A h \in e.start..e.end : RegionalCount(h, Codes \ {Dry}) <= e.wettest
    BY <2>1 DEF RegionalExtent
  <2>3. QED
    BY <2>1, <2>2 DEF M, e
<1>6. QED
  BY <1>3, <1>5 DEF events, codes

\* A run of some hours lies in a maximal run of more hours.
LEMMA RunWithin ==
  ASSUME NEW A, A \subseteq Int, NEW B, B \subseteq A, NEW e, RunOf(e, B), e.start \in Int, e.end \in Int,
         NEW events, AllCut(events, A), \A i \in DOMAIN events : events[i].start \in Int /\ events[i].end \in Int
  PROVE  \E j \in DOMAIN events :
           /\ events[j].start <= e.start /\ e.end <= events[j].end
           /\ \A h \in e.start..e.end : h \in events[j].start..events[j].end
<1>1. e.start..e.end \subseteq A /\ e.start \in e.start..e.end
  BY DEF RunOf
<1>2. PICK j \in DOMAIN events : e.start \in events[j].start..events[j].end
  BY <1>1 DEF AllCut, Covered
<1> DEFINE f == events[j]
<1>3. f.start \in Int /\ f.end \in Int /\ f.end + 1 \notin A /\ f.start <= e.start /\ e.start <= f.end
  BY <1>2 DEF AllCut
<1> HIDE DEF f
<1>4. e.end <= f.end
  <2> SUFFICES ASSUME ~(e.end <= f.end) PROVE FALSE
    OBVIOUS
  <2>1. f.end + 1 \in e.start..e.end
    BY <1>3
  <2>2. QED
    BY <1>1, <1>3, <2>1
<1>5. \A h \in e.start..e.end : h \in f.start..f.end
  BY <1>3, <1>4
<1>6. QED
  BY <1>3, <1>4, <1>5 DEF f

\* Fewer codes, and fewer cells.
LEMMA FewerCells ==
  ASSUME NEW h, NEW codes, NEW more, codes \subseteq more
  PROVE  /\ RegionalCount(h, codes) <= RegionalCount(h, more)
         /\ RegionalCount(h, HighImpact) <= Affected(h)
         /\ Affected(h) \in Nat
<1>1. CellsOf(h, codes) \subseteq CellsOf(h, more)
  BY DEF CellsOf
<1>2. IsFiniteSet(CellsOf(h, more)) /\ IsFiniteSet(CellsOf(h, codes))
  BY RegionalCounts
<1>3. RegionalCount(h, codes) <= RegionalCount(h, more)
  BY <1>1, <1>2, FS_Subset, RegionalCounts
<1> DEFINE hit == {c \in Cells : weather[h][c] \in HighImpact}
<1>4. IsFiniteSet(hit) /\ CellsOf(h, HighImpact) \subseteq hit
  BY ReductionAssumption, RegionalAssumption, FS_Subset DEF CellsOf
<1>5. Affected(h) = Cardinality(hit) /\ Affected(h) \in Nat
  BY <1>4, FS_CardinalityType DEF Affected
<1> HIDE DEF hit
<1>6. RegionalCount(h, HighImpact) <= Affected(h)
  BY <1>4, <1>5, FS_Subset, RegionalCounts
<1>7. QED
  BY <1>3, <1>5, <1>6

LEMMA CataloguesAgree ==
  RegionalInv /\ ReductionInv => RegionalEventsAreWithinDomain
<1> SUFFICES ASSUME RegionalInv, ReductionInv, sealed # Absent
             PROVE  /\ \A i \in DOMAIN sealed["high_impact"] :
                         \E j \in DOMAIN product["events"].content :
                           Within(sealed["high_impact"][i], product["events"].content[j])
                    /\ \A d \in Catalogues : \A i \in DOMAIN sealed[d] :
                         \E j \in DOMAIN sealed["icy_liquid"] : Within(sealed[d][i], sealed["icy_liquid"][j])
  BY DEF RegionalEventsAreWithinDomain
<1> DEFINE icy == EventDefinitions["icy_liquid"]
<1>1. \A d \in Catalogues : RegionalComplete(sealed[d], EventDefinitions[d])
  BY DEF RegionalInv, CatalogueInv
<1>2. EventsComplete(product["events"].content)
  <2>1. range # {}
    BY DEF RegionalInv, RegionInv
  <2>2. reduction.ok
    BY <2>1 DEF RegionalInv, RegionInv
  <2>3. QED
    BY <2>2 DEF ReductionInv
<1>3. /\ {"high_impact", "icy_liquid"} \subseteq Catalogues /\ EventDefinitions["high_impact"] = HighImpact
      /\ \A d \in Catalogues : EventDefinitions[d] \subseteq icy
  BY DEF Catalogues, EventDefinitions
<1> HIDE DEF icy
<1>4. HoursOf(range) \subseteq Planned /\ Planned \subseteq Int
  BY SelectedHours
<1>5. ASSUME NEW d \in Catalogues, NEW i \in DOMAIN sealed[d]
      PROVE  LET e == sealed[d][i] IN
               /\ RunOf(e, RegionalHits(EventDefinitions[d])) /\ e.start \in Int /\ e.end \in Int
               /\ e.peak \in e.start..e.end /\ RegionalCount(e.peak, EventDefinitions[d]) = e.largest
               /\ \A h \in e.start..e.end : RegionalCount(h, EventDefinitions[d]) <= e.largest
  <2> DEFINE e == sealed[d][i]
  <2>1. /\ RunOf(e, RegionalHits(EventDefinitions[d])) /\ e \in RegionalEvents
        /\ RegionalExtent(e, EventDefinitions[d])
    BY <1>1 DEF RegionalComplete, AllCut
  <2>2. e.start \in Int /\ e.end \in Int
    BY <2>1 DEF RegionalEvents
  <2> HIDE DEF e
  <2>3. /\ e.peak \in e.start..e.end /\ RegionalCount(e.peak, EventDefinitions[d]) = e.largest
        /\ \A h \in e.start..e.end : RegionalCount(h, EventDefinitions[d]) <= e.largest
    BY <2>1 DEF RegionalExtent
  <2>4. QED
    BY <2>1, <2>2, <2>3 DEF e
<1>6. ASSUME NEW i \in DOMAIN sealed["high_impact"]
      PROVE  \E j \in DOMAIN product["events"].content :
               Within(sealed["high_impact"][i], product["events"].content[j])
  <2> DEFINE e == sealed["high_impact"][i]
             events == product["events"].content
  <2>1. /\ RunOf(e, RegionalHits(HighImpact)) /\ e.start \in Int /\ e.end \in Int
        /\ e.peak \in e.start..e.end /\ RegionalCount(e.peak, HighImpact) = e.largest
    BY <1>3, <1>5
  <2>2. /\ AllCut(events, Hits(Planned))
        /\ \A j \in DOMAIN events : events[j] \in Events /\ Extent(events[j])
    BY <1>2 DEF EventsComplete
  <2> HIDE DEF e, events
  <2>3. \A j \in DOMAIN events :
          /\ events[j].start \in Int /\ events[j].end \in Int /\ events[j].largest \in Int
          /\ \A h \in events[j].start..events[j].end : Affected(h) <= events[j].largest
    BY <2>2 DEF Events, Extent
  <2>4. RegionalHits(HighImpact) \subseteq Hits(Planned) /\ Hits(Planned) \subseteq Int
    <3>1. \A h : RegionalCount(h, HighImpact) <= Affected(h) /\ RegionalCount(h, HighImpact) \in Nat /\ Affected(h) \in Nat
      BY FewerCells, RegionalCounts
    <3>2. \A h : RegionalCount(h, HighImpact) > 0 => Affected(h) > 0
      BY <3>1
    <3>3. QED
      BY <3>2, <1>4 DEF RegionalHits, Hits
  <2>5. PICK j \in DOMAIN events :
          /\ events[j].start <= e.start /\ e.end <= events[j].end
          /\ \A h \in e.start..e.end : h \in events[j].start..events[j].end
    BY <2>1, <2>2, <2>3, <2>4, RunWithin
  <2>6. e.largest <= events[j].largest
    <3>1. Affected(e.peak) <= events[j].largest /\ events[j].largest \in Int
      BY <2>1, <2>3, <2>5
    <3>2. e.largest <= Affected(e.peak) /\ e.largest \in Nat /\ Affected(e.peak) \in Nat
      BY <2>1, FewerCells, RegionalCounts
    <3>3. QED
      BY <3>1, <3>2
  <2>7. QED
    BY <2>5, <2>6 DEF Within, e, events
<1>7. ASSUME NEW d \in Catalogues, NEW i \in DOMAIN sealed[d]
      PROVE  \E j \in DOMAIN sealed["icy_liquid"] : Within(sealed[d][i], sealed["icy_liquid"][j])
  <2> DEFINE e == sealed[d][i]
             codes == EventDefinitions[d]
             events == sealed["icy_liquid"]
  <2>1. /\ RunOf(e, RegionalHits(codes)) /\ e.start \in Int /\ e.end \in Int
        /\ e.peak \in e.start..e.end /\ RegionalCount(e.peak, codes) = e.largest
    BY <1>5
  <2>2. AllCut(events, RegionalHits(icy))
    BY <1>1, <1>3 DEF RegionalComplete, icy
  <2>3. \A j \in DOMAIN events :
          /\ events[j] \in RegionalEvents
          /\ \A h \in events[j].start..events[j].end : RegionalCount(h, icy) <= events[j].largest
    BY <1>1, <1>3, <1>5 DEF RegionalComplete, icy
  <2>4. codes \subseteq icy
    BY <1>3
  <2> HIDE DEF e, events, codes
  <2>5. \A j \in DOMAIN events : events[j].start \in Int /\ events[j].end \in Int /\ events[j].largest \in Int
    BY <2>3 DEF RegionalEvents
  <2>6. RegionalHits(codes) \subseteq RegionalHits(icy) /\ RegionalHits(icy) \subseteq Int
    <3>1. \A h : RegionalCount(h, codes) <= RegionalCount(h, icy) /\ RegionalCount(h, codes) \in Nat
                 /\ RegionalCount(h, icy) \in Nat
      BY <2>4, FewerCells, RegionalCounts
    <3>2. \A h : RegionalCount(h, codes) > 0 => RegionalCount(h, icy) > 0
      BY <3>1
    <3>3. QED
      BY <3>2, <1>4 DEF RegionalHits
  <2>7. PICK j \in DOMAIN events :
          /\ events[j].start <= e.start /\ e.end <= events[j].end
          /\ \A h \in e.start..e.end : h \in events[j].start..events[j].end
    BY <2>1, <2>2, <2>5, <2>6, RunWithin
  <2>8. e.largest <= events[j].largest
    <3>1. RegionalCount(e.peak, icy) <= events[j].largest /\ events[j].largest \in Int
      BY <2>1, <2>3, <2>5, <2>7
    <3>2. e.largest <= RegionalCount(e.peak, icy) /\ e.largest \in Nat /\ RegionalCount(e.peak, icy) \in Nat
      BY <2>1, <2>4, FewerCells, RegionalCounts
    <3>3. QED
      BY <3>1, <3>2
  <2>9. QED
    BY <2>7, <2>8 DEF Within, e, events
<1>8. QED
  BY <1>6, <1>7

-----------------------------------------------------------------------------
(* Theorems about the regional campaign.                                   *)

\* The invariant of a regional campaign: the shards behind its receipts hold
\* what the undamaged archive says, whatever was damaged in the meantime.
THEOREM RegionalCampaignIsSound == RegionalSpec => []RegionalInv
<1>1. RegionalInit => RegionalInv
  BY RegionallyInitially
<1>2. RegionalInv /\ ReductionInv /\ [RegionalNext]_<<canonical, regional>> => RegionalInv'
  BY RegionalInvInductive
<1>3. QED
  BY <1>1, <1>2, ReductionIsSound, PTL DEF RegionalSpec

\* For every region, manifest and weather, and whatever was damaged, failed or
\* killed on the way, a published regional catalogue (_event_catalogues) holds
\* the maximal runs of affected hours of the selected months, each with its
\* extent and its earliest peak.
THEOREM RegionalEventsAreRuns == RegionalSpec => []RegionalEventsAreMaximalRuns
BY RegionalCampaignIsSound, ReductionIsSound, CataloguesAreMaximal, PTL

\* The sealed regional catalogues agree with the canonical one and with each
\* other: every event lies within one of the whole domain, and combined icy
\* liquid covers its parts, with at least as many cells at the peak.
THEOREM RegionalEventsStayWithin == RegionalSpec => []RegionalEventsAreWithinDomain
BY RegionalCampaignIsSound, ReductionIsSound, CataloguesAgree, PTL
=============================================================================
