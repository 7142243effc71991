---------------------------- MODULE Inventory_proofs ----------------------------
(***************************************************************************)
(* Proofs about the planner of a backfill, for all days, requests, fields  *)
(* and faults.  A campaign without checkpoint is published as a whole: a   *)
(* plan has at least one year, and a year that is gone through, resumed or *)
(* queried, leaves the checkpoint behind, which stands until the script is *)
(* written.  And a plan is sound and counts its attempts: a year is only   *)
(* queried when nobody keeps an entry of it, so the entries a plan is made *)
(* of stay those of the last query of their year.                          *)
(***************************************************************************)
EXTENDS Inventory, WellOrder, FiniteSetTheorems, TLAPS

-----------------------------------------------------------------------------
(* A plan has a year, and its years are those of the archive's days.       *)
LEMMA PlanHasYears ==
  ASSUME NEW r \in Requests
  PROVE  YearsOf(r) # {} /\ YearsOf(r) \subseteq Years
<1>1. r.first \in Int /\ r.last \in Int /\ r.first <= r.last
  <2>1. Dates \subseteq Nat
    BY InventoryAssumption
  <2>2. {r.first, r.last} \subseteq Dates /\ r.first <= r.last
    BY InventoryAssumption
  <2>3. r.first \in Nat /\ r.last \in Nat
    BY <2>1, <2>2, Zenon
  <2>4. QED
    BY <2>2, <2>3
<1>2. Requested(r) \subseteq Dates
  BY InventoryAssumption DEF InventoryAssumption, Requested
<1>3. r.first \in Requested(r)
  BY <1>1 DEF Requested
<1>4. QED
  BY <1>2, <1>3 DEF YearsOf, Years

(* A new planner knows nothing, and there is no file.                      *)
LEMMA PublishedInitially == Init => PublishedInv
BY DEF Init, PublishedInv, CallInv, CheckpointInv, ScriptInv, NoCheckpointMeansPublished,
       Idle, Ended, Working, NoYears, NoFile

(* A call that ends leaves checkpoint, manifest and script in order.       *)
LEMMA EndKeeps ==
  ASSUME NEW how \in Ended, End(how), NoCheckpointMeansPublished'
  PROVE  PublishedInv'
BY DEF End, PublishedInv, CallInv, CheckpointInv, ScriptInv, Idle, Ended, Working, NoYears

(* Every step of the planner and of the archive keeps the invariant.       *)
LEMMA PublishedStep == PublishedInv /\ [Next]_vars => PublishedInv'
<1> SUFFICES ASSUME PublishedInv, [Next]_vars
             PROVE  PublishedInv'
  OBVIOUS
<1> USE DEF PublishedInv
<1>1. ASSUME NEW r \in Requests, Start(r)
      PROVE  PublishedInv'
  <2>1. CASE checkpoint.exists /\ ~SameContract(checkpoint.contract, r)
    BY <1>1, <2>1, EndKeeps DEF Start, files, NoCheckpointMeansPublished, Ended
  <2>2. CASE ~(checkpoint.exists /\ ~SameContract(checkpoint.contract, r))
    <3>1. /\ call' = [request |-> r, at |-> "years", year |-> Absent]
          /\ known' = IF checkpoint.exists THEN checkpoint.years ELSE NoYears
          /\ left' = YearsOf(r)
          /\ UNCHANGED files
      BY <1>1, <2>2 DEF Start
    <3>2. CheckpointInv'
      BY <3>1 DEF CheckpointInv, files, NoYears
    <3>3. QED
      BY <1>1, <3>1, <3>2 DEF CallInv, ScriptInv, NoCheckpointMeansPublished, files, Working
  <2>3. QED
    BY <2>1, <2>2
<1>2. ASSUME NEW y \in Years, ResumeYear(y)
      PROVE  PublishedInv'
  BY <1>2 DEF ResumeYear, Following, files, CallInv, CheckpointInv, ScriptInv, NoCheckpointMeansPublished
<1>3. ASSUME NEW y \in Years, QueryYear(y)
      PROVE  PublishedInv'
  BY <1>3 DEF QueryYear, Following, files, CallInv, CheckpointInv, ScriptInv,
     NoCheckpointMeansPublished, Working
<1>4. CASE EndYear
  <2>1. CASE End("raised") /\ UNCHANGED checkpoint
    BY <1>4, <2>1, EndKeeps DEF EndYear, NoCheckpointMeansPublished, Ended
  <2>2. CASE checkpoint'.exists /\ call' = [call EXCEPT !.at = "years", !.year = Absent]
    BY <1>4, <2>2 DEF EndYear, CallInv, CheckpointInv, ScriptInv, NoCheckpointMeansPublished, Working
  <2>3. QED
    BY <1>4, <2>1, <2>2 DEF EndYear
<1>5. CASE WriteManifest
  <2>1. checkpoint.exists
    <3>1. call.request \in Requests
      BY <1>5 DEF WriteManifest, CallInv, Working
    <3>2. QED
      BY <1>5, <3>1, PlanHasYears DEF WriteManifest, CheckpointInv
  <2>2. CASE End("raised") /\ UNCHANGED manifest
    BY <1>5, <2>2, EndKeeps DEF WriteManifest, NoCheckpointMeansPublished, Ended
  <2>3. CASE manifest'.exists /\ call' = [call EXCEPT !.at = "script"] /\ UNCHANGED memory
    BY <1>5, <2>1, <2>3 DEF WriteManifest, memory, CallInv, CheckpointInv, ScriptInv,
       NoCheckpointMeansPublished, Working
  <2>4. QED
    BY <1>5, <2>2, <2>3 DEF WriteManifest
<1>6. CASE WriteScript
  BY <1>6 DEF WriteScript, memory, CallInv, CheckpointInv, ScriptInv, NoCheckpointMeansPublished, Working
<1>7. CASE RemoveCheckpoint
  <2>1. NoCheckpointMeansPublished'
    BY <1>7 DEF RemoveCheckpoint, CheckpointInv, ScriptInv, NoCheckpointMeansPublished
  <2>2. QED
    BY <1>7, <2>1, EndKeeps DEF RemoveCheckpoint, Ended
<1>8. CASE \E f \in Fields : Answer(f) \/ FailAttempt(f) \/ Garble(f)
  BY <1>8 DEF Answer, FailAttempt, Garble, files, CallInv, CheckpointInv, ScriptInv, NoCheckpointMeansPublished
<1>9. CASE \E f \in Fields, d \in Dates : Change(f, d)
  BY <1>9 DEF Change, files, memory, CallInv, CheckpointInv, ScriptInv, NoCheckpointMeansPublished
<1>10. CASE Kill
  <2>1. NoCheckpointMeansPublished'
    BY <1>10 DEF Kill, CheckpointInv, NoCheckpointMeansPublished
  <2>2. QED
    BY <1>10, <2>1, EndKeeps DEF Kill, Ended
<1>11. CASE UNCHANGED vars
  BY <1>11 DEF vars, memory, CallInv, CheckpointInv, ScriptInv, NoCheckpointMeansPublished
<1>12. QED
  BY <1>1, <1>2, <1>3, <1>4, <1>5, <1>6, <1>7, <1>8, <1>9, <1>10, <1>11 DEF Next

(* A campaign without checkpoint has a job script with one task for each   *)
(* month of its manifest, however often the planner was killed or refused. *)
THEOREM PlannedAsAWhole == Spec => []NoCheckpointMeansPublished
<1>1. PublishedInv => NoCheckpointMeansPublished
  BY DEF PublishedInv
<1>2. QED
  BY <1>1, PublishedInitially, PublishedStep, PTL DEF Spec

-----------------------------------------------------------------------------
(* The months of a plan, in order.                                         *)

\* The months of days of the archive are finitely many.
LEMMA MonthsAreFinite ==
  ASSUME NEW r \in Requests, NEW dates \in SUBSET Requested(r)
  PROVE  /\ {MonthOf[d] : d \in dates} \in SUBSET Nat
         /\ IsFiniteSet({MonthOf[d] : d \in dates})
<1>1. /\ r.first \in Dates /\ r.last \in Dates /\ r.first..r.last \subseteq Dates
      /\ Dates \subseteq Nat
  BY InventoryAssumption
<1>2. \A d \in dates : d \in Dates /\ d <= r.last
  BY <1>1 DEF Requested
<1>3. \A d \in dates : MonthOf[d] \in Nat /\ MonthOf[d] <= MonthOf[r.last]
  <2>1. \A d \in Dates : MonthOf[d] \in Nat
    BY InventoryAssumption
  <2>2. ASSUME NEW d \in dates
        PROVE  MonthOf[d] <= MonthOf[r.last]
    <3>1. CASE d < r.last
      BY <1>1, <1>2, <3>1, InventoryAssumption
    <3>2. CASE d = r.last
      <4>1. MonthOf[d] \in Nat /\ MonthOf[d] = MonthOf[r.last]
        BY <1>1, <2>1, <3>2
      <4>2. QED
        BY <4>1
    <3>3. d \in Nat /\ r.last \in Nat /\ d <= r.last
      BY <1>1, <1>2
    <3>4. QED
      BY <3>1, <3>2, <3>3
  <2>3. QED
    BY <1>2, <2>1, <2>2
<1>4. MonthOf[r.last] \in Nat
  BY <1>1, InventoryAssumption
<1> DEFINE months == {MonthOf[d] : d \in dates}
<1>5. months \in SUBSET Nat /\ \A m \in months : m <= MonthOf[r.last]
  BY <1>3
<1>6. IsFiniteSet(months)
  BY <1>4, <1>5, FS_BoundedSetOfNaturals
<1>7. QED
  BY <1>5, <1>6

\* The periods of a plan with days can be loaded, and hold just those days.
LEMMA PeriodsCoverPlan ==
  ASSUME NEW r \in Requests, NEW dates \in SUBSET Requested(r), dates # {}
  PROVE  LET periods == MonthlyPeriods(dates)
         IN  /\ Loadable(periods)
             /\ UNION {periods[i].dates : i \in DOMAIN periods} = dates
<1> DEFINE months == {MonthOf[d] : d \in dates}
           nth(i) == CHOOSE m \in months : Cardinality({n \in months : n < m}) = i - 1
           of(m) == {d \in dates : MonthOf[d] = m}
           periods == MonthlyPeriods(dates)
<1>1. months \in SUBSET Nat /\ IsFiniteSet(months)
  BY MonthsAreFinite
<1>2. Cardinality(months) \in Nat /\ Cardinality(months) # 0
  <2>1. months # {}
    OBVIOUS
  <2> HIDE DEF months
  <2>2. QED
    BY <1>1, <2>1, FS_CardinalityType, FS_EmptySet
<1>3. /\ DOMAIN periods = 1..Cardinality(months)
      /\ \A i \in 1..Cardinality(months) :
           periods[i] = [period |-> nth(i), dates |-> of(nth(i)),
                         messages |-> Cardinality(of(nth(i))) * MessagesPerCycle]
  BY DEF MonthlyPeriods
<1>4. \A i \in 1..Cardinality(months) : nth(i) \in months /\ Rank(months, nth(i)) = i - 1
  BY <1>1, NthExists DEF Rank
<1>0. \A d \in dates : MonthOf[d] \in months
  OBVIOUS
<1>6. \A m \in months : of(m) # {}
  OBVIOUS
<1> HIDE DEF months, nth, periods
<1>5. \A m \in months : \E i \in 1..Cardinality(months) : nth(i) = m
  <2> SUFFICES ASSUME NEW m \in months
               PROVE  \E i \in 1..Cardinality(months) : nth(i) = m
    OBVIOUS
  <2>1. Rank(months, m) \in 0..(Cardinality(months) - 1)
    BY <1>1, RankType
  <2>2. PICK i \in 1..Cardinality(months) : i - 1 = Rank(months, m)
    BY <1>2, <2>1
  <2>3. nth(i) \in months /\ Rank(months, nth(i)) = Rank(months, m)
    BY <1>4, <2>2
  <2>4. Rank(months, m) \in Int /\ m \in Int /\ nth(i) \in Int
    <3>1. \A k \in months : k \in Int
      BY <1>1
    <3>2. QED
      BY <1>2, <2>1, <2>3, <3>1
  <2>5. ~(nth(i) < m)
    BY <1>1, <2>3, <2>4, RankGrows
  <2>6. ~(m < nth(i))
    BY <1>1, <2>3, <2>4, RankGrows
  <2>7. QED
    BY <2>4, <2>5, <2>6
<1>7. Loadable(periods)
  <2>1. 1 \in DOMAIN periods
    BY <1>2, <1>3
  <2>2. periods # <<>>
    BY <2>1
  <2>3. ASSUME NEW i \in DOMAIN periods
        PROVE  /\ periods[i].dates # {}
               /\ \A d \in periods[i].dates : MonthOf[d] = periods[i].period
               /\ periods[i].messages = Cardinality(periods[i].dates) * MessagesPerCycle
    <3>1. /\ nth(i) \in months /\ periods[i].period = nth(i) /\ periods[i].dates = of(nth(i))
          /\ periods[i].messages = Cardinality(of(nth(i))) * MessagesPerCycle
      BY <1>3, <1>4
    <3>2. QED
      BY <1>6, <3>1
  <2>4. QED
    BY <2>2, <2>3 DEF Loadable
<1>8. ASSUME NEW i \in 1..Cardinality(months)
      PROVE  periods[i].dates = of(nth(i))
  <2>1. periods[i] = [period |-> nth(i), dates |-> of(nth(i)),
                      messages |-> Cardinality(of(nth(i))) * MessagesPerCycle]
    BY <1>3
  <2>2. QED
    BY <2>1
<1>9. UNION {periods[i].dates : i \in DOMAIN periods} = dates
  <2>1. ASSUME NEW d \in dates
        PROVE  \E i \in DOMAIN periods : d \in periods[i].dates
    <3>1. PICK i \in 1..Cardinality(months) : nth(i) = MonthOf[d]
      BY <1>0, <1>5
    <3>2. d \in of(nth(i))
      BY <3>1
    <3>3. QED
      BY <1>3, <1>8, <3>2
  <2>2. \A i \in DOMAIN periods : periods[i].dates \subseteq dates
    BY <1>3, <1>8
  <2>3. QED
    BY <2>1, <2>2
<1>10. QED
  BY <1>7, <1>9 DEF periods

-----------------------------------------------------------------------------
(* The days of a plan.                                                     *)

LEMMA AskedAreFields ==
  ASSUME NEW r \in Requests
  PROVE  FieldsOf[r.algorithm] # {} /\ FieldsOf[r.algorithm] \subseteq Fields
BY InventoryAssumption DEF Fields

LEMMA EndIsTyped ==
  ASSUME NEW how, End(how)
  PROVE  /\ query' \in [Fields -> [attempts : Nat, dates : Answers]]
         /\ known' = [y \in Years |-> known'[y]]
         /\ plan' = [dates |-> plan'.dates, attempts |-> plan'.attempts]
         /\ call'.at = how
<1>1. query' = Unasked /\ known' = NoYears /\ plan' = NoPlan /\ call' = Idle(how)
  BY DEF End
<1>2. Unasked \in [Fields -> [attempts : Nat, dates : Answers]]
  BY DEF Unasked, Answers
<1>3. QED
  BY <1>1, <1>2 DEF NoYears, NoPlan, Idle

\* A query is one try older, and the rest is as it was.
LEMMA TriedFrame ==
  ASSUME PlannerTypeOK, NEW f \in Fields, NEW answer \in Answers,
         call.year \in Years, window[call.year] \in Windows, Tried(f, answer)
  PROVE  /\ query' \in [Fields -> [attempts : Nat, dates : Answers]]
         /\ window' \in [Years -> Windows \union {Absent}]
         /\ query'[f].dates = answer /\ \A g \in Fields \ {f} : query'[g] = query[g]
         /\ \A y \in Years \ {call.year} : window'[y] = window[y]
         /\ window'[call.year] \in Windows
         /\ window'[call.year].always = window[call.year].always
         /\ window'[call.year].once = window[call.year].once
<1> DEFINE y == call.year
           entry == [window[y] EXCEPT !.attempts = @ + 1]
<1>1. entry \in Windows /\ entry.always = window[y].always /\ entry.once = window[y].once
  BY DEF Windows
<1>2. window' = [window EXCEPT ![y] = entry]
  BY DEF Tried
<1>3. query' = [query EXCEPT ![f] = [attempts |-> query[f].attempts + 1, dates |-> answer]]
      /\ query[f].attempts + 1 \in Nat
  BY DEF Tried, PlannerTypeOK
<1> HIDE DEF entry
<1>4. QED
  BY <1>1, <1>2, <1>3 DEF PlannerTypeOK

\* A change of the archive widens the window of the year that is queried.
LEMMA ChangeFrame ==
  ASSUME PlannerTypeOK, NEW f \in Fields, NEW d \in Dates, Change(f, d),
         call.at = "query" => call.year \in Years /\ window[call.year] \in Windows
  PROVE  /\ fdb' \in [Fields -> SUBSET Dates] /\ \A g \in Fields \ {f} : fdb'[g] = fdb[g]
         /\ window' \in [Years -> Windows \union {Absent}]
         /\ call.at # "query" => window' = window
         /\ call.at = "query" =>
              /\ \A y \in Years \ {call.year} : window'[y] = window[y]
              /\ window'[call.year] \in Windows
              /\ \A g \in Fields \ {f} :
                   /\ window'[call.year].always[g] = window[call.year].always[g]
                   /\ window'[call.year].once[g] = window[call.year].once[g]
              /\ window'[call.year].always[f] = window[call.year].always[f] \intersect fdb'[f]
              /\ window'[call.year].once[f] = window[call.year].once[f] \union fdb'[f]
<1>1. fdb' \in [Fields -> SUBSET Dates] /\ \A g \in Fields \ {f} : fdb'[g] = fdb[g]
  BY DEF Change, PlannerTypeOK
<1>2. CASE call.at # "query"
  BY <1>1, <1>2 DEF Change, PlannerTypeOK
<1>3. CASE call.at = "query"
  <2> DEFINE y == call.year
             always == [window[y].always EXCEPT ![f] = @ \intersect fdb'[f]]
             once == [window[y].once EXCEPT ![f] = @ \union fdb'[f]]
             entry == Widened(window[y], f, fdb'[f])
  <2>1. y \in Years /\ window[y] \in Windows
    BY <1>3
  <2>2. window[y].always \in [Fields -> SUBSET Dates] /\ window[y].once \in [Fields -> SUBSET Dates]
    BY <2>1 DEF Windows
  <2>3. always \in [Fields -> SUBSET Dates] /\ once \in [Fields -> SUBSET Dates]
    BY <1>1, <2>2
  <2>4. entry \in Windows /\ entry.always = always /\ entry.once = once
    BY <2>1, <2>3 DEF Windows, Widened
  <2>5. window' = [window EXCEPT ![y] = entry]
    BY <1>3 DEF Change
  <2>6. /\ \A g \in Fields \ {f} : always[g] = window[y].always[g] /\ once[g] = window[y].once[g]
        /\ always[f] = window[y].always[f] \intersect fdb'[f]
        /\ once[f] = window[y].once[f] \union fdb'[f]
    BY <2>2
  <2> HIDE DEF entry, always, once
  <2>7. /\ window'[y] = entry /\ window' \in [Years -> Windows \union {Absent}]
        /\ \A z \in Years \ {y} : window'[z] = window[z]
    BY <2>1, <2>4, <2>5 DEF PlannerTypeOK
  <2>8. window'[y].always = always /\ window'[y].once = once /\ window'[y] \in Windows
    BY <2>4, <2>7
  <2>9. \A g \in Fields \ {f} : /\ window'[y].always[g] = window[y].always[g]
                                /\ window'[y].once[g] = window[y].once[g]
    BY <2>6, <2>8
  <2>10. /\ window'[y].always[f] = window[y].always[f] \intersect fdb'[f]
         /\ window'[y].once[f] = window[y].once[f] \union fdb'[f]
    BY <2>6, <2>8
  <2>11. /\ \A z \in Years \ {y} : window'[z] = window[z]
         /\ window'[y] \in Windows
    BY <2>7, <2>8
  <2>12. QED
    BY <1>1, <1>3, <2>7, <2>9, <2>10, <2>11
<1>4. QED
  BY <1>2, <1>3

\* The year that is queried is one of the years.
LEMMA QueriedYear ==
  ASSUME PublishedInv, PlanInv, call.at = "query"
  PROVE  /\ call.request \in Requests /\ call.year \in Years /\ window[call.year] \in Windows
         /\ call.year \in left /\ left \subseteq YearsOf(call.request)
         /\ FieldsOf[call.request.algorithm] \subseteq Fields
<1>1. call.request \in Requests
  BY DEF PublishedInv, CallInv, Working
<1>2. call.year \in left /\ window[call.year] \in Windows /\ left \subseteq YearsOf(call.request)
  BY DEF PlanInv, QueryInv, KnownInv
<1>3. QED
  BY <1>1, <1>2, PlanHasYears, AskedAreFields
\* A checkpoint of the same contract is as good for the new request.
LEMMA SoundForRequest ==
  ASSUME NEW r, NEW w, NEW y, NEW entry
  PROVE  EntrySound(w, Contract(r), y, entry) <=> EntrySound(w, r, y, entry)
BY DEF EntrySound, Contract, Period, Requested

\* The answers to all queries of a year give the days of that year.
LEMMA AnsweredYearIsSound ==
  ASSUME PublishedInv, PlanInv, call.at = "query", NEW entry,
         \A f \in FieldsOf[call.request.algorithm] : query[f].dates \notin {Absent, Broken},
         entry.dates = DaysOfAll({query[f].dates : f \in FieldsOf[call.request.algorithm]})
  PROVE  EntrySound(window[call.year], call.request, call.year, entry)
<1> DEFINE r == call.request
           y == call.year
           asked == FieldsOf[r.algorithm]
<1>1. asked # {}
  BY QueriedYear, AskedAreFields
<1>2. \A f \in asked : /\ query[f].dates \subseteq Period(r, y) \intersect window[y].once[f]
                       /\ window[y].always[f] \intersect Period(r, y) \subseteq query[f].dates
  BY DEF PlanInv, QueryInv
<1>3. \A d : d \in entry.dates <=> \A f \in asked : d \in query[f].dates
  BY <1>1 DEF DaysOfAll
<1> HIDE DEF r, y, asked
<1>4. EntrySound(window[y], r, y, entry)
  <2>1. \A d \in entry.dates : d \in Period(r, y) /\ \A f \in asked : d \in window[y].once[f]
    BY <1>1, <1>2, <1>3
  <2>2. \A d \in Period(r, y) \ entry.dates : \E f \in asked : d \notin window[y].always[f]
    BY <1>2, <1>3
  <2>3. QED
    BY <2>1, <2>2 DEF EntrySound, asked
<1>5. QED
  BY <1>4 DEF r, y

\* A call that ends leaves the days of the checkpoint as they were.
LEMMA EndKeepsPlan ==
  ASSUME PlanInv, NEW how \in Ended, End(how), UNCHANGED <<fdb, window>>,
         UNCHANGED checkpoint \/ checkpoint' = NoFile
  PROVE  PlanInv'
<1>1. PlannerTypeOK'
  BY EndIsTyped DEF PlanInv, PlannerTypeOK
<1>2. CheckpointSound'
  BY DEF PlanInv, CheckpointSound, NoFile
<1>3. call'.at \notin {"years", "query", "script"}
  BY EndIsTyped DEF Ended
<1>4. KnownInv' /\ QueryInv' /\ PlanIsSound'
  BY <1>3 DEF KnownInv, QueryInv, PlanIsSound
<1>5. QED
  BY <1>1, <1>2, <1>4 DEF PlanInv

\* A new call takes over the sound years of a checkpoint of the same contract.
LEMMA StartKeepsPlan ==
  ASSUME PublishedInv, PlanInv, NEW r \in Requests, Start(r)
  PROVE  PlanInv'
<1>1. CASE checkpoint.exists /\ ~SameContract(checkpoint.contract, r)
  BY <1>1, EndKeepsPlan DEF Start, files, Ended
<1>2. CASE ~(checkpoint.exists /\ ~SameContract(checkpoint.contract, r))
  <2>1. /\ call' = [request |-> r, at |-> "years", year |-> Absent]
        /\ known' = IF checkpoint.exists THEN checkpoint.years ELSE NoYears
        /\ left' = YearsOf(r) /\ plan' = NoPlan
        /\ UNCHANGED <<query, fdb, checkpoint, manifest, script, window>>
    BY <1>2 DEF Start, files
  <2>2. known' = [y \in Years |-> known'[y]]
    BY <2>1 DEF NoYears, PlanInv, CheckpointSound
  <2>3. PlannerTypeOK'
    BY <2>1, <2>2 DEF PlanInv, PlannerTypeOK, NoPlan
  <2>4. CheckpointSound'
    BY <2>1 DEF PlanInv, CheckpointSound
  <2>5. checkpoint.exists => checkpoint.contract = Contract(r)
    BY <1>2 DEF SameContract
  <2>6. YearsOf(r) \ left' = {} /\ plan'.dates = {}
    BY <2>1 DEF NoPlan
  <2>7. KnownInv'
    BY <2>1, <2>5, <2>6 DEF KnownInv
  <2>8. QueryInv' /\ PlanIsSound'
    BY <2>1 DEF QueryInv, PlanIsSound
  <2>9. QED
    BY <2>3, <2>4, <2>7, <2>8 DEF PlanInv
<1>3. QED
  BY <1>1, <1>2

\* A year of the checkpoint is as sound as it was.
LEMMA ResumeKeepsPlan ==
  ASSUME PublishedInv, PlanInv, NEW y \in Years, ResumeYear(y)
  PROVE  PlanInv'
<1> DEFINE r == call.request
<1>1. /\ call.at = "years" /\ y \in left /\ known[y] # Absent
      /\ plan' = Added(plan, known[y]) /\ left' = left \ {y}
      /\ UNCHANGED <<fdb, checkpoint, manifest, script, call, known, query, window>>
  BY DEF ResumeYear, Following, files
<1>2. checkpoint.exists /\ checkpoint.contract = Contract(r) /\ checkpoint.years = known
  BY <1>1 DEF PublishedInv, CheckpointInv, PlanInv, KnownInv
<1>3. EntrySound(window[y], r, y, known[y])
  BY <1>1, <1>2, SoundForRequest DEF PlanInv, CheckpointSound
<1>4. plan' = [dates |-> plan.dates \union known[y].dates,
               attempts |-> plan.attempts + known[y].attempts]
  BY <1>1 DEF PlanInv, PlannerTypeOK, Added
<1>5. /\ left \subseteq YearsOf(r)
      /\ \A z \in YearsOf(r) \ left : EntrySound(window[z], r, z, known[z])
      /\ plan.dates = UNION {known[z].dates : z \in YearsOf(r) \ left}
  BY <1>1 DEF PlanInv, KnownInv
<1>6. /\ YearsOf(r) \ left' = (YearsOf(r) \ left) \union {y}
      /\ plan'.dates = UNION {known[z].dates : z \in YearsOf(r) \ left'}
  BY <1>1, <1>4, <1>5
<1>7. KnownInv'
  <2>1. \A z \in YearsOf(r) \ left' : EntrySound(window[z], r, z, known[z])
    BY <1>3, <1>5, <1>6
  <2>2. left' \subseteq YearsOf(r)
    BY <1>1, <1>5
  <2>3. QED
    BY <1>1, <1>2, <1>6, <2>1, <2>2 DEF KnownInv
<1>8. PlannerTypeOK'
  BY <1>1, <1>4 DEF PlanInv, PlannerTypeOK
<1>9. CheckpointSound' /\ QueryInv' /\ PlanIsSound'
  BY <1>1 DEF PlanInv, CheckpointSound, QueryInv, PlanIsSound
<1>10. QED
  BY <1>7, <1>8, <1>9 DEF PlanInv

\* A query begins with the archive as it is, and only of a year nobody keeps.
LEMMA QueryKeepsPlan ==
  ASSUME PublishedInv, PlanInv, NEW y \in Years, QueryYear(y)
  PROVE  PlanInv'
<1> DEFINE r == call.request
           entry == [always |-> fdb, once |-> fdb, attempts |-> 0]
<1>1. /\ call.at = "years" /\ y \in left /\ known[y] = Absent
      /\ call' = [call EXCEPT !.at = "query", !.year = y] /\ query' = Unasked
      /\ window' = [window EXCEPT ![y] = entry]
      /\ UNCHANGED <<fdb, checkpoint, manifest, script, known, plan, left>>
  BY DEF QueryYear, Following, files
<1>2. call' = [request |-> r, at |-> "query", year |-> y]
  BY <1>1 DEF PublishedInv, CallInv
<1>3. entry \in Windows /\ entry.always = fdb /\ entry.once = fdb
  BY DEF PlanInv, PlannerTypeOK, Windows
<1> HIDE DEF entry
<1>4. /\ window' \in [Years -> Windows \union {Absent}] /\ window'[y] = entry
      /\ \A z \in Years \ {y} : window'[z] = window[z]
  BY <1>1, <1>3 DEF PlanInv, PlannerTypeOK
<1>5. query' \in [Fields -> [attempts : Nat, dates : Answers]]
      /\ \A f \in Fields : query'[f].dates = Absent
  BY <1>1 DEF Unasked, Answers
<1>6. PlannerTypeOK'
  BY <1>1, <1>4, <1>5 DEF PlanInv, PlannerTypeOK
<1>7. r \in Requests
  BY <1>1 DEF PublishedInv, CallInv, Working
<1>8. FieldsOf[r.algorithm] \subseteq Fields /\ YearsOf(r) \subseteq Years
  BY <1>7, AskedAreFields, PlanHasYears
<1>9. /\ IF checkpoint.exists THEN checkpoint.contract = Contract(r) /\ checkpoint.years = known
         ELSE known = NoYears
      /\ left \subseteq YearsOf(r)
      /\ \A z \in YearsOf(r) \ left : EntrySound(window[z], r, z, known[z])
      /\ plan.dates = UNION {known[z].dates : z \in YearsOf(r) \ left}
  BY <1>1 DEF PlanInv, KnownInv
<1>10. CheckpointSound'
  <2>1. CASE checkpoint.exists
    <3>1. \A z \in Years : checkpoint.years[z] # Absent => window'[z] = window[z]
      BY <1>1, <1>4, <1>9, <2>1
    <3>2. QED
      BY <1>1, <2>1, <3>1 DEF PlanInv, CheckpointSound
  <2>2. CASE ~checkpoint.exists
    BY <1>1, <2>2 DEF CheckpointSound
  <2>3. QED
    BY <2>1, <2>2
<1>11. KnownInv'
  <2>1. \A z \in YearsOf(r) \ left : EntrySound(window'[z], r, z, known[z])
    BY <1>1, <1>4, <1>8, <1>9
  <2>2. QED
    BY <1>1, <1>2, <1>9, <2>1 DEF KnownInv
<1>12. QueryInv'
  <2>1. y \in left' /\ known'[y] = Absent /\ window'[y] \in Windows
    BY <1>1, <1>3, <1>4
  <2>2. \A f \in Fields : window'[y].always[f] = fdb'[f] /\ fdb'[f] = window'[y].once[f]
    BY <1>1, <1>3, <1>4
  <2>3. QED
    BY <1>2, <1>5, <1>8, <2>1, <2>2 DEF QueryInv
<1>13. PlanIsSound'
  BY <1>2 DEF PlanIsSound
<1>14. QED
  BY <1>6, <1>10, <1>11, <1>12, <1>13 DEF PlanInv

\* An answer between what was there all the time and at some time, or none.
LEMMA TriedKeepsPlan ==
  ASSUME PublishedInv, PlanInv, NEW f \in Fields, NEW answer \in Answers,
         Pending(f), Tried(f, answer),
         answer \in {Absent, Broken} \/ answer = fdb[f] \intersect Period(call.request, call.year),
         UNCHANGED <<fdb, files, call, known, plan, left>>
  PROVE  PlanInv'
<1> DEFINE r == call.request
           y == call.year
<1>1. call.at = "query"
  BY DEF Pending
<1>2. r \in Requests /\ y \in Years /\ window[y] \in Windows /\ FieldsOf[r.algorithm] \subseteq Fields
  BY <1>1, QueriedYear
<1>3. UNCHANGED <<fdb, checkpoint, manifest, script, call, known, plan, left>>
  BY DEF files
<1>4. /\ query' \in [Fields -> [attempts : Nat, dates : Answers]]
      /\ window' \in [Years -> Windows \union {Absent}]
      /\ query'[f].dates = answer /\ \A g \in Fields \ {f} : query'[g] = query[g]
      /\ \A z \in Years \ {y} : window'[z] = window[z]
      /\ window'[y] \in Windows
      /\ window'[y].always = window[y].always /\ window'[y].once = window[y].once
  BY <1>2, TriedFrame DEF PlanInv
<1>5. \A z \in Years : /\ window'[z].always = window[z].always
                       /\ window'[z].once = window[z].once
  BY <1>4
<1>6. ASSUME NEW z \in Years, NEW c, NEW entry, EntrySound(window[z], c, z, entry)
      PROVE  EntrySound(window'[z], c, z, entry)
  BY <1>5, <1>6 DEF EntrySound
<1>7. PlannerTypeOK'
  BY <1>3, <1>4 DEF PlanInv, PlannerTypeOK
<1>8. CheckpointSound'
  BY <1>3, <1>6 DEF PlanInv, CheckpointSound
<1>9. KnownInv'
  <2>1. YearsOf(r) \subseteq Years
    BY <1>2, PlanHasYears
  <2>2. /\ IF checkpoint.exists THEN checkpoint.contract = Contract(r) /\ checkpoint.years = known
           ELSE known = NoYears
        /\ left \subseteq YearsOf(r)
        /\ \A z \in YearsOf(r) \ left : EntrySound(window[z], r, z, known[z])
        /\ plan.dates = UNION {known[z].dates : z \in YearsOf(r) \ left}
    BY <1>1 DEF PlanInv, KnownInv
  <2>3. \A z \in YearsOf(r) \ left : EntrySound(window'[z], r, z, known[z])
    BY <1>6, <2>1, <2>2
  <2>4. QED
    BY <1>3, <2>2, <2>3 DEF KnownInv
<1>10. QueryInv'
  <2>1. /\ y \in left /\ known[y] = Absent
        /\ \A g \in Fields : window[y].always[g] \subseteq fdb[g] /\ fdb[g] \subseteq window[y].once[g]
        /\ \A g \in FieldsOf[r.algorithm] : query[g].dates \notin {Absent, Broken} =>
             /\ query[g].dates \subseteq Period(r, y) \intersect window[y].once[g]
             /\ window[y].always[g] \intersect Period(r, y) \subseteq query[g].dates
    BY <1>1 DEF PlanInv, QueryInv
  <2>2. ASSUME NEW g \in FieldsOf[r.algorithm], query'[g].dates \notin {Absent, Broken}
        PROVE  /\ query'[g].dates \subseteq Period(r, y) \intersect window'[y].once[g]
               /\ window'[y].always[g] \intersect Period(r, y) \subseteq query'[g].dates
    <3>1. CASE g = f
      BY <1>2, <1>4, <2>1, <2>2, <3>1
    <3>2. CASE g # f
      <4>1. query'[g] = query[g]
        BY <1>2, <1>4, <3>2
      <4>2. QED
        BY <1>4, <2>1, <2>2, <4>1
    <3>3. QED
      BY <3>1, <3>2
  <2>3. \A g \in Fields : window'[y].always[g] \subseteq fdb[g] /\ fdb[g] \subseteq window'[y].once[g]
    BY <1>4, <2>1
  <2>4. QED
    BY <1>3, <1>4, <2>1, <2>2, <2>3 DEF QueryInv
<1>11. PlanIsSound'
  BY <1>1, <1>3 DEF PlanIsSound
<1>12. QED
  BY <1>7, <1>8, <1>9, <1>10, <1>11 DEF PlanInv

\* A year whose queries all answered is sound, and is kept.
LEMMA EndYearKeepsPlan ==
  ASSUME PublishedInv, PlanInv, EndYear
  PROVE  PlanInv'
<1> DEFINE r == call.request
           y == call.year
           asked == FieldsOf[r.algorithm]
<1>1. call.at = "query" /\ \A f \in asked : query[f].dates # Absent
  BY DEF EndYear
<1>2. CASE \E f \in asked : query[f].dates = Broken
  BY <1>2, EndKeepsPlan DEF EndYear, Ended
<1>3. CASE \A f \in asked : query[f].dates # Broken
  <2>1. PICK entry :
          /\ entry.dates = DaysOfAll({query[f].dates : f \in asked})
          /\ known' = [known EXCEPT ![y] = entry]
          /\ checkpoint' = [exists |-> TRUE, contract |-> Contract(r), years |-> known']
          /\ plan' = Added(plan, entry) /\ left' = left \ {y}
          /\ call' = [call EXCEPT !.at = "years", !.year = Absent]
          /\ query' = Unasked
    BY <1>3 DEF EndYear
  <2>2. EntrySound(window[y], r, y, entry)
    BY <1>1, <1>3, <2>1, AnsweredYearIsSound
  <2>3. UNCHANGED <<fdb, manifest, script, window>>
    BY DEF EndYear
  <2>4. y \in Years /\ y \in left /\ left \subseteq YearsOf(r) /\ YearsOf(r) \subseteq Years
    BY <1>1, QueriedYear, PlanHasYears
  <2>5. call' = [request |-> r, at |-> "years", year |-> Absent]
    BY <2>1 DEF PublishedInv, CallInv
  <2>6. /\ known' = [z \in Years |-> known'[z]] /\ known'[y] = entry
        /\ \A z \in Years \ {y} : known'[z] = known[z]
    BY <2>1, <2>4 DEF PlanInv, PlannerTypeOK
  <2>7. plan' = [dates |-> plan.dates \union entry.dates, attempts |-> plan.attempts + entry.attempts]
    BY <2>1 DEF PlanInv, PlannerTypeOK, Added
  <2>8. /\ IF checkpoint.exists THEN checkpoint.contract = Contract(r) /\ checkpoint.years = known
           ELSE known = NoYears
        /\ \A z \in YearsOf(r) \ left : EntrySound(window[z], r, z, known[z])
        /\ plan.dates = UNION {known[z].dates : z \in YearsOf(r) \ left}
    BY <1>1 DEF PlanInv, KnownInv
  <2>9. PlannerTypeOK'
    <3>1. query' \in [Fields -> [attempts : Nat, dates : Answers]]
      BY <2>1 DEF Unasked, Answers
    <3>2. QED
      BY <2>3, <2>6, <2>7, <3>1 DEF PlanInv, PlannerTypeOK
  <2>10. CheckpointSound'
    <3>1. \A z \in Years \ {y} : known[z] # Absent => EntrySound(window[z], r, z, known[z])
      <4>1. CASE checkpoint.exists
        BY <2>8, <4>1, SoundForRequest DEF PlanInv, CheckpointSound
      <4>2. CASE ~checkpoint.exists
        BY <2>8, <4>2 DEF NoYears
      <4>3. QED
        BY <4>1, <4>2
    <3>2. \A z \in Years : known'[z] # Absent => EntrySound(window[z], Contract(r), z, known'[z])
      BY <2>2, <2>6, <3>1, SoundForRequest
    <3>3. QED
      BY <2>1, <2>3, <2>6, <3>2 DEF CheckpointSound
  <2>11. KnownInv'
    <3>1. left' \subseteq YearsOf(r) /\ YearsOf(r) \ left' = (YearsOf(r) \ left) \union {y}
      BY <2>1, <2>4
    <3>2. \A z \in YearsOf(r) \ left : known'[z] = known[z]
      BY <2>4, <2>6
    <3>3. \A z \in YearsOf(r) \ left' : EntrySound(window[z], r, z, known'[z])
      BY <2>2, <2>6, <2>8, <3>1, <3>2
    <3>4. plan'.dates = UNION {known'[z].dates : z \in YearsOf(r) \ left'}
      <4>1. UNION {known'[z].dates : z \in YearsOf(r) \ left} = plan.dates
        BY <2>8, <3>2
      <4>2. UNION {known'[z].dates : z \in (YearsOf(r) \ left) \union {y}}
            = plan.dates \union known'[y].dates
        BY <4>1
      <4>3. QED
        BY <2>6, <2>7, <3>1, <4>2
    <3>5. QED
      BY <2>1, <2>3, <2>5, <3>1, <3>3, <3>4 DEF KnownInv
  <2>12. QueryInv' /\ PlanIsSound'
    BY <2>5 DEF QueryInv, PlanIsSound
  <2>13. QED
    BY <2>9, <2>10, <2>11, <2>12 DEF PlanInv
<1>4. QED
  BY <1>2, <1>3

\* A manifest is written of the years gone through, all of them sound.
LEMMA ManifestKeepsPlan ==
  ASSUME PublishedInv, PlanInv, WriteManifest
  PROVE  PlanInv'
<1> DEFINE r == call.request
           planned == Requested(r) \intersect plan.dates
<1>1. call.at = "years" /\ left = {} /\ UNCHANGED <<fdb, checkpoint, script, window>>
  BY DEF WriteManifest
<1>2. CASE Refuses(r)
  BY <1>1, <1>2, EndKeepsPlan DEF WriteManifest, Ended
<1>3. CASE ~Refuses(r)
  <2>1. /\ manifest' = [exists |-> TRUE, request |-> r, missing |-> Requested(r) \ plan.dates,
                        periods |-> MonthlyPeriods(planned), attempts |-> plan.attempts]
        /\ call' = [call EXCEPT !.at = "script"]
        /\ UNCHANGED <<known, query, plan, left>>
    BY <1>3 DEF WriteManifest, memory
  <2>2. call' = [request |-> r, at |-> "script", year |-> call.year]
    BY <2>1 DEF PublishedInv, CallInv
  <2>3. r \in Requests
    BY <1>1 DEF PublishedInv, CallInv, Working
  <2>4. planned # {} /\ (Requested(r) \ plan.dates # {} => r.missing)
    BY <1>3 DEF Refuses
  <2>5. /\ Loadable(manifest'.periods)
        /\ UNION {manifest'.periods[i].dates : i \in DOMAIN manifest'.periods} = planned
    <3>1. planned \in SUBSET Requested(r) /\ manifest'.periods = MonthlyPeriods(planned)
      BY <2>1
    <3> HIDE DEF planned, r
    <3>2. /\ Loadable(MonthlyPeriods(planned))
          /\ UNION {MonthlyPeriods(planned)[i].dates : i \in DOMAIN MonthlyPeriods(planned)} = planned
      BY <2>3, <2>4, <3>1, PeriodsCoverPlan
    <3>3. QED
      BY <3>1, <3>2
  <2>6. /\ \A y \in YearsOf(r) : EntrySound(window[y], r, y, known[y])
        /\ plan.dates = UNION {known[y].dates : y \in YearsOf(r)}
    BY <1>1 DEF PlanInv, KnownInv
  <2>7. ASSUME NEW d \in planned, NEW f \in FieldsOf[r.algorithm]
        PROVE  d \in window[YearOf[d]].once[f]
    <3>1. PICK y \in YearsOf(r) : d \in known[y].dates
      BY <2>6
    <3>2. YearOf[d] = y
      BY <2>6, <3>1 DEF EntrySound, Period
    <3>3. QED
      BY <2>6, <3>1, <3>2 DEF EntrySound
  <2>8. ASSUME NEW d \in Requested(r) \ plan.dates
        PROVE  \E f \in FieldsOf[r.algorithm] : d \notin window[YearOf[d]].always[f]
    <3>1. YearOf[d] \in YearsOf(r) /\ d \in Period(r, YearOf[d])
      BY DEF YearsOf, Period
    <3>2. d \notin known[YearOf[d]].dates
      BY <2>6, <3>1
    <3>3. QED
      BY <2>6, <3>1, <3>2 DEF EntrySound
  <2>9. PlanIsSound'
    <3>1. manifest'.missing = Requested(r) \ plan.dates
      BY <2>1
    <3>2. call'.request = r /\ window' = window
      BY <1>1, <2>2
    <3>3. planned \union manifest'.missing = Requested(r) /\ planned \intersect manifest'.missing = {}
      BY <3>1
    <3> HIDE DEF planned
    <3>4. QED
      BY <2>4, <2>5, <2>7, <2>8, <3>1, <3>2, <3>3 DEF PlanIsSound
  <2>10. PlannerTypeOK' /\ CheckpointSound'
    BY <1>1, <2>1 DEF PlanInv, PlannerTypeOK, CheckpointSound
  <2>11. KnownInv' /\ QueryInv'
    BY <2>2 DEF KnownInv, QueryInv
  <2>12. QED
    BY <2>9, <2>10, <2>11 DEF PlanInv
<1>4. QED
  BY <1>2, <1>3

\* What the archive gains or loses is in the window of the year that is queried,
\* which no entry is about yet.
LEMMA ChangeKeepsPlan ==
  ASSUME PublishedInv, PlanInv, NEW f \in Fields, NEW d \in Dates, Change(f, d)
  PROVE  PlanInv'
<1> DEFINE r == call.request
           y == call.year
<1>1. UNCHANGED <<checkpoint, manifest, script, call, known, query, plan, left>>
  BY DEF Change, files, memory
<1>2. call.at = "query" => y \in Years /\ window[y] \in Windows
  BY QueriedYear
<1>3. /\ fdb' \in [Fields -> SUBSET Dates] /\ \A g \in Fields \ {f} : fdb'[g] = fdb[g]
      /\ window' \in [Years -> Windows \union {Absent}]
  BY <1>2, ChangeFrame DEF PlanInv
<1>4. PlannerTypeOK'
  BY <1>1, <1>3 DEF PlanInv, PlannerTypeOK
<1>5. CASE call.at # "query"
  <2>1. window' = window
    BY <1>2, <1>5, ChangeFrame DEF PlanInv
  <2>2. CheckpointSound' /\ KnownInv' /\ QueryInv' /\ PlanIsSound'
    BY <1>1, <1>5, <2>1 DEF PlanInv, CheckpointSound, KnownInv, QueryInv, PlanIsSound
  <2>3. QED
    BY <1>4, <2>2 DEF PlanInv
<1>6. CASE call.at = "query"
  <2>1. /\ \A z \in Years \ {y} : window'[z] = window[z]
        /\ window'[y] \in Windows
        /\ \A g \in Fields \ {f} : /\ window'[y].always[g] = window[y].always[g]
                                   /\ window'[y].once[g] = window[y].once[g]
        /\ window'[y].always[f] = window[y].always[f] \intersect fdb'[f]
        /\ window'[y].once[f] = window[y].once[f] \union fdb'[f]
    BY <1>2, <1>6, ChangeFrame DEF PlanInv
  <2>2. /\ r \in Requests /\ y \in left /\ left \subseteq YearsOf(r)
        /\ YearsOf(r) \subseteq Years /\ FieldsOf[r.algorithm] \subseteq Fields
    BY <1>6, QueriedYear, PlanHasYears
  <2>3. /\ known[y] = Absent
        /\ \A g \in Fields : window[y].always[g] \subseteq fdb[g] /\ fdb[g] \subseteq window[y].once[g]
        /\ \A g \in FieldsOf[r.algorithm] : query[g].dates \notin {Absent, Broken} =>
             /\ query[g].dates \subseteq Period(r, y) \intersect window[y].once[g]
             /\ window[y].always[g] \intersect Period(r, y) \subseteq query[g].dates
    BY <1>6 DEF PlanInv, QueryInv
  <2>4. /\ IF checkpoint.exists THEN checkpoint.contract = Contract(r) /\ checkpoint.years = known
           ELSE known = NoYears
        /\ \A z \in YearsOf(r) \ left : EntrySound(window[z], r, z, known[z])
        /\ plan.dates = UNION {known[z].dates : z \in YearsOf(r) \ left}
    BY <1>6 DEF PlanInv, KnownInv
  <2>5. \A g \in Fields : /\ window'[y].always[g] \subseteq window[y].always[g]
                          /\ window[y].once[g] \subseteq window'[y].once[g]
                          /\ window'[y].always[g] \subseteq fdb'[g]
                          /\ fdb'[g] \subseteq window'[y].once[g]
    <3>1. ASSUME NEW g \in Fields
          PROVE  /\ window'[y].always[g] \subseteq window[y].always[g]
                 /\ window[y].once[g] \subseteq window'[y].once[g]
                 /\ window'[y].always[g] \subseteq fdb'[g]
                 /\ fdb'[g] \subseteq window'[y].once[g]
      <4>1. CASE g = f
        BY <2>1, <4>1
      <4>2. CASE g # f
        BY <1>3, <2>1, <2>3, <4>2
      <4>3. QED
        BY <4>1, <4>2
    <3>2. QED
      BY <3>1
  <2>6. CheckpointSound'
    <3>1. \A z \in Years : checkpoint.exists /\ checkpoint.years[z] # Absent => window'[z] = window[z]
      BY <2>1, <2>3, <2>4
    <3>2. QED
      BY <1>1, <3>1 DEF PlanInv, CheckpointSound
  <2>7. KnownInv'
    <3>1. \A z \in YearsOf(r) \ left : EntrySound(window'[z], r, z, known[z])
      BY <2>1, <2>2, <2>4
    <3>2. QED
      BY <1>1, <2>2, <2>4, <3>1 DEF KnownInv
  <2>8. QueryInv'
    <3>1. \A g \in FieldsOf[r.algorithm] : query[g].dates \notin {Absent, Broken} =>
            /\ query[g].dates \subseteq Period(r, y) \intersect window'[y].once[g]
            /\ window'[y].always[g] \intersect Period(r, y) \subseteq query[g].dates
      BY <2>2, <2>3, <2>5
    <3>2. QED
      BY <1>1, <2>1, <2>2, <2>3, <2>5, <3>1 DEF QueryInv
  <2>9. PlanIsSound'
    BY <1>1, <1>6 DEF PlanIsSound
  <2>10. QED
    BY <1>4, <2>6, <2>7, <2>8, <2>9 DEF PlanInv
<1>7. QED
  BY <1>5, <1>6

\* A planner that knows nothing has nothing to be wrong about.
LEMMA PlanInitially == Init => PlanInv
<1> SUFFICES ASSUME Init
             PROVE  PlanInv
  OBVIOUS
<1>1. fdb \in [Fields -> SUBSET Dates]
  BY InventoryAssumption DEF Init
<1>2. PlannerTypeOK
  BY <1>1 DEF Init, PlannerTypeOK, Unasked, Answers, NoYears, NoPlan
<1>3. CheckpointSound /\ KnownInv /\ QueryInv /\ PlanIsSound
  BY DEF Init, CheckpointSound, KnownInv, QueryInv, PlanIsSound, NoFile, Idle
<1>4. QED
  BY <1>2, <1>3 DEF PlanInv

\* Every step of the planner and of the archive keeps the plan sound.
LEMMA PlanStep == PublishedInv /\ PlanInv /\ [Next]_vars => PlanInv'
<1> SUFFICES ASSUME PublishedInv, PlanInv, [Next]_vars
             PROVE  PlanInv'
  OBVIOUS
<1>1. CASE \E r \in Requests : Start(r)
  BY <1>1, StartKeepsPlan
<1>2. CASE \E y \in Years : ResumeYear(y) \/ QueryYear(y)
  BY <1>2, ResumeKeepsPlan, QueryKeepsPlan
<1>3. CASE EndYear
  BY <1>3, EndYearKeepsPlan
<1>4. CASE WriteManifest
  BY <1>4, ManifestKeepsPlan
<1>5. CASE WriteScript
  <2>1. call'.at = "clean"
    BY <1>5 DEF WriteScript, PublishedInv, CallInv
  <2>2. UNCHANGED <<fdb, checkpoint, known, query, plan, left, window>>
    BY <1>5 DEF WriteScript, memory
  <2>3. PlannerTypeOK' /\ CheckpointSound'
    BY <2>2 DEF PlanInv, PlannerTypeOK, CheckpointSound
  <2>4. KnownInv' /\ QueryInv' /\ PlanIsSound'
    BY <2>1 DEF KnownInv, QueryInv, PlanIsSound
  <2>5. QED
    BY <2>3, <2>4 DEF PlanInv
<1>6. CASE RemoveCheckpoint
  BY <1>6, EndKeepsPlan DEF RemoveCheckpoint, Ended
<1>7. CASE \E f \in Fields : Answer(f) \/ FailAttempt(f) \/ Garble(f)
  <2>0. PICK f \in Fields : Answer(f) \/ FailAttempt(f) \/ Garble(f)
    BY <1>7
  <2>1. CASE Answer(f)
    <3>1. fdb[f] \intersect Period(call.request, call.year) \in Answers
      BY DEF PlanInv, PlannerTypeOK, Answers
    <3>2. QED
      BY <2>1, <3>1, TriedKeepsPlan DEF Answer
  <2>2. CASE FailAttempt(f)
    <3>1. PICK answer \in {Absent, Broken} : Tried(f, answer)
      BY <2>2 DEF FailAttempt
    <3>2. answer \in Answers
      BY DEF Answers
    <3>3. QED
      BY <2>2, <3>1, <3>2, TriedKeepsPlan DEF FailAttempt
  <2>3. CASE Garble(f)
    <3>1. Broken \in Answers
      BY DEF Answers
    <3>2. QED
      BY <2>3, <3>1, TriedKeepsPlan DEF Garble
  <2>4. QED
    BY <2>0, <2>1, <2>2, <2>3
<1>8. CASE \E f \in Fields, d \in Dates : Change(f, d)
  BY <1>8, ChangeKeepsPlan
<1>9. CASE Kill
  BY <1>9, EndKeepsPlan DEF Kill, Ended
<1>10. CASE UNCHANGED vars
  <2>1. UNCHANGED <<fdb, checkpoint, manifest, call, known, query, plan, left, window>>
    BY <1>10 DEF vars, memory
  <2>2. PlannerTypeOK' /\ CheckpointSound'
    BY <2>1 DEF PlanInv, PlannerTypeOK, CheckpointSound
  <2>3. KnownInv' /\ QueryInv' /\ PlanIsSound'
    BY <2>1 DEF PlanInv, KnownInv, QueryInv, PlanIsSound
  <2>4. QED
    BY <2>2, <2>3 DEF PlanInv
<1>11. QED
  BY <1>1, <1>2, <1>3, <1>4, <1>5, <1>6, <1>7, <1>8, <1>9, <1>10 DEF Next

(* A new manifest can be loaded, its months hold each requested day that   *)
(* is not missing, and its days are those the archive had while they were  *)
(* asked for, however calls were killed and resumed and however the        *)
(* archive changed between and during the queries.                         *)
THEOREM PlansAreSound == Spec => []PlanIsSound
<1>1. Init => PublishedInv /\ PlanInv
  BY PublishedInitially, PlanInitially
<1>2. PublishedInv /\ PlanInv /\ [Next]_vars => (PublishedInv /\ PlanInv)'
  BY PublishedStep, PlanStep
<1>3. PlanInv => PlanIsSound
  BY DEF PlanInv
<1>4. QED
  BY <1>1, <1>2, <1>3, PTL DEF Spec

-----------------------------------------------------------------------------
(* Sums of attempts.                                                       *)

\* F[s] is the sum over s, for the subsets s of U.
Sums(F, of, U) ==
  F = [s \in SUBSET U |-> IF s = {} THEN 0
                          ELSE LET x == CHOOSE y \in s : TRUE IN of[x].attempts + F[s \ {x}]]

SumsFor(of, U) == CHOOSE F : Sums(F, of, U)

LEMMA AttemptsAreSums ==
  ASSUME NEW of, NEW U
  PROVE  Attempts(of, U) = SumsFor(of, U)[U]
BY DEF Attempts, MapThenSumSet, MapThenFoldSet, SumsFor, Sums

LEMMA ChosenOne ==
  ASSUME NEW s, s # {}
  PROVE  (CHOOSE y \in s : TRUE) \in s
OBVIOUS

\* One element less.
LEMMA OneLess ==
  ASSUME NEW n \in Nat, NEW s, IsFiniteSet(s), Cardinality(s) = n + 1, NEW x \in s
  PROVE  IsFiniteSet(s \ {x}) /\ Cardinality(s \ {x}) = n
<1>1. IsFiniteSet(s \ {x}) /\ Cardinality(s \ {x}) = Cardinality(s) - 1
  BY FS_RemoveElement
<1>2. QED
  BY <1>1

\* The sums over the subsets of a finite set exist: those of at most n
\* elements, for each n.
LEMMA SumsExist ==
  ASSUME NEW of, NEW U, IsFiniteSet(U)
  PROVE  Sums(SumsFor(of, U), of, U)
<1> DEFINE Step(F, s) == LET x == CHOOSE y \in s : TRUE IN of[x].attempts + F[s \ {x}]
           Small(n) == {s \in SUBSET U : Cardinality(s) <= n}
           Goes(F, n) == \A s \in Small(n) : F[s] = IF s = {} THEN 0 ELSE Step(F, s)
           S == {n \in Nat : \E F : Goes(F, n)}
<1>1. \A s \in SUBSET U : IsFiniteSet(s) /\ Cardinality(s) \in Nat /\ (Cardinality(s) = 0 <=> s = {})
  BY FS_Subset, FS_CardinalityType, FS_EmptySet
<1>2. 0 \in S
  <2>1. \A s \in Small(0) : s = {}
    BY <1>1
  <2>2. Goes([s \in SUBSET U |-> 0], 0)
    BY <2>1
  <2>3. QED
    BY <2>2
<1>3. ASSUME NEW n \in Nat, n \in S
      PROVE  n + 1 \in S
  <2>1. PICK F : Goes(F, n)
    BY <1>3
  <2> DEFINE G == [s \in SUBSET U |-> IF Cardinality(s) <= n THEN F[s] ELSE Step(F, s)]
  <2>2. ASSUME NEW s \in Small(n + 1)
        PROVE  G[s] = IF s = {} THEN 0 ELSE Step(G, s)
    <3> DEFINE x == CHOOSE y \in s : TRUE
               t == s \ {x}
    <3>1. s \in SUBSET U /\ t \in SUBSET U /\ IsFiniteSet(s) /\ Cardinality(s) \in Nat /\ Cardinality(s) <= n + 1
      BY <1>1
    <3>2. CASE s = {}
      <4>1. Cardinality(s) <= n
        BY <3>1, <3>2, <1>1
      <4>2. G[s] = F[s] /\ s \in Small(n)
        BY <3>1, <4>1
      <4>3. F[s] = 0
        BY <2>1, <3>2, <4>2
      <4> HIDE DEF G
      <4>4. QED
        BY <3>2, <4>2, <4>3
    <3>3. CASE s # {}
      <4>1. x \in s
        BY <3>3, ChosenOne
      <4>2. Cardinality(t) = Cardinality(s) - 1 /\ Cardinality(t) \in Nat
        BY <1>1, <3>1, <4>1, FS_RemoveElement
      <4>3. Cardinality(t) <= n
        BY <3>1, <4>2
      <4>4. G[t] = F[t]
        BY <3>1, <4>3
      <4>5. G[s] = Step(F, s)
        <5>1. CASE Cardinality(s) <= n
          <6>1. G[s] = F[s] /\ s \in Small(n)
            BY <3>1, <5>1
          <6>2. F[s] = Step(F, s)
            BY <2>1, <3>3, <6>1
          <6> HIDE DEF G, Step
          <6>3. QED
            BY <6>1, <6>2
        <5>2. CASE ~(Cardinality(s) <= n)
          BY <3>1, <5>2
        <5>3. QED
          BY <5>1, <5>2
      <4>6. Step(F, s) = of[x].attempts + F[t] /\ Step(G, s) = of[x].attempts + G[t]
        OBVIOUS
      <4> HIDE DEF G, Step, t, x
      <4>7. QED
        BY <3>3, <4>4, <4>5, <4>6
    <3>4. QED
      BY <3>2, <3>3
  <2> HIDE DEF G
  <2>3. Goes(G, n + 1)
    BY <2>2
  <2> HIDE DEF Goes
  <2>4. QED
    BY <2>3
<1> HIDE DEF S
<1>4. Nat \subseteq S
  BY <1>2, <1>3, NatSetInduction
<1>5. PICK F : Goes(F, Cardinality(U))
  <2>1. Cardinality(U) \in S
    BY <1>1, <1>4
  <2> HIDE DEF Goes
  <2>2. QED
    BY <2>1 DEF S
<1> DEFINE G == [s \in SUBSET U |-> F[s]]
<1>6. ASSUME NEW s \in SUBSET U
      PROVE  G[s] = IF s = {} THEN 0 ELSE Step(G, s)
  <2>1. s \in Small(Cardinality(U))
    BY FS_Subset
  <2>2. F[s] = IF s = {} THEN 0 ELSE Step(F, s)
    BY <1>5, <2>1
  <2> DEFINE x == CHOOSE y \in s : TRUE
             t == s \ {x}
  <2>3. G[s] = F[s] /\ G[t] = F[t]
    OBVIOUS
  <2>4. Step(F, s) = of[x].attempts + F[t] /\ Step(G, s) = of[x].attempts + G[t]
    OBVIOUS
  <2> HIDE DEF G, Step, t, x
  <2>5. QED
    BY <2>2, <2>3, <2>4
<1>7. Sums(G, of, U)
  <2>1. G = [s \in SUBSET U |-> G[s]]
    OBVIOUS
  <2> HIDE DEF G
  <2>2. [s \in SUBSET U |-> G[s]] = [s \in SUBSET U |-> IF s = {} THEN 0 ELSE Step(G, s)]
    BY <1>6
  <2>3. QED
    BY <2>1, <2>2 DEF Sums
<1>8. QED
  BY <1>7 DEF SumsFor

\* What a sum is does not depend on the larger set.
LEMMA SumsAgree ==
  ASSUME NEW of, NEW U, IsFiniteSet(U), NEW V \in SUBSET U
  PROVE  SumsFor(of, U)[V] = Attempts(of, V)
<1> DEFINE F == SumsFor(of, U)
           G == SumsFor(of, V)
           S == {n \in Nat : \A s \in SUBSET V : Cardinality(s) = n => F[s] = G[s]}
<1>1. /\ \A s \in SUBSET U :
           F[s] = IF s = {} THEN 0 ELSE LET x == CHOOSE y \in s : TRUE IN of[x].attempts + F[s \ {x}]
      /\ \A s \in SUBSET V :
           G[s] = IF s = {} THEN 0 ELSE LET x == CHOOSE y \in s : TRUE IN of[x].attempts + G[s \ {x}]
  <2>1. Sums(F, of, U) /\ Sums(G, of, V)
    BY SumsExist, FS_Subset
  <2> HIDE DEF F, G
  <2>2. QED
    BY <2>1 DEF Sums
<1>2. \A s \in SUBSET V : s \in SUBSET U /\ IsFiniteSet(s) /\ Cardinality(s) \in Nat /\ (Cardinality(s) = 0 <=> s = {})
  BY FS_Subset, FS_CardinalityType, FS_EmptySet
<1> HIDE DEF F, G
<1>3. 0 \in S
  BY <1>1, <1>2
<1>4. ASSUME NEW n \in Nat, n \in S
      PROVE  n + 1 \in S
  <2> SUFFICES ASSUME NEW s \in SUBSET V, Cardinality(s) = n + 1 PROVE F[s] = G[s]
    OBVIOUS
  <2> DEFINE x == CHOOSE y \in s : TRUE
             t == s \ {x}
  <2>1. s # {} /\ s \in SUBSET U /\ IsFiniteSet(s)
    BY <1>2
  <2>2. x \in s
    BY <2>1, ChosenOne
  <2>3. F[s] = of[x].attempts + F[t] /\ G[s] = of[x].attempts + G[t]
    BY <1>1, <2>1
  <2> HIDE DEF x
  <2>4. t \in SUBSET V /\ Cardinality(t) = n
    BY <2>1, <2>2, OneLess
  <2> HIDE DEF t
  <2>5. F[t] = G[t]
    BY <1>4, <2>4
  <2>6. QED
    BY <2>3, <2>5
<1> HIDE DEF S
<1>5. Nat \subseteq S
  BY <1>3, <1>4, NatSetInduction
<1>6. F[V] = G[V]
  BY <1>2, <1>5 DEF S
<1>7. QED
  BY <1>6, AttemptsAreSums DEF F, G

\* The sum begins with whichever element is chosen.
LEMMA AttemptsBegin ==
  ASSUME NEW of, NEW U, IsFiniteSet(U)
  PROVE  Attempts(of, U) = IF U = {} THEN 0
                           ELSE LET x == CHOOSE y \in U : TRUE IN of[x].attempts + Attempts(of, U \ {x})
<1> DEFINE F == SumsFor(of, U)
           x == CHOOSE y \in U : TRUE
<1>1. Sums(F, of, U)
  BY SumsExist
<1>2. F[U \ {x}] = Attempts(of, U \ {x}) /\ F[U] = Attempts(of, U)
  BY SumsAgree
<1> HIDE DEF F
<1>3. F[U] = IF U = {} THEN 0 ELSE of[x].attempts + F[U \ {x}]
  BY <1>1 DEF Sums
<1> HIDE DEF x
<1>4. Attempts(of, U) = IF U = {} THEN 0 ELSE of[x].attempts + Attempts(of, U \ {x})
  BY <1>2, <1>3
<1>5. QED
  BY <1>4 DEF x

\* It might as well begin with any other.
LEMMA AttemptsLess ==
  ASSUME NEW of, NEW U, IsFiniteSet(U), \A x \in U : of[x].attempts \in Int
  PROVE  /\ Attempts(of, {}) = 0
         /\ Attempts(of, U) \in Int
         /\ \A x \in U : Attempts(of, U) = of[x].attempts + Attempts(of, U \ {x})
<1> DEFINE Total(s) == Attempts(of, s)
           S == {n \in Nat : \A s \in SUBSET U : Cardinality(s) <= n =>
                   Total(s) \in Int /\ \A x \in s : Total(s) = of[x].attempts + Total(s \ {x})}
<1>1. \A s \in SUBSET U : IsFiniteSet(s) /\ Cardinality(s) \in Nat /\ (Cardinality(s) = 0 <=> s = {})
  BY FS_Subset, FS_CardinalityType, FS_EmptySet
<1>2. Total({}) = 0
  BY <1>1, AttemptsBegin
<1>3. ASSUME NEW s \in SUBSET U, s # {}
      PROVE  \E x \in s : Total(s) = of[x].attempts + Total(s \ {x})
  <2> DEFINE x == CHOOSE y \in s : TRUE
  <2>1. x \in s
    BY <1>3, ChosenOne
  <2>2. Total(s) = of[x].attempts + Total(s \ {x})
    BY <1>1, <1>3, AttemptsBegin
  <2> HIDE DEF x, Total
  <2>3. QED
    BY <2>1, <2>2
<1> HIDE DEF Total
<1>4. 0 \in S
  BY <1>1, <1>2
<1>5. ASSUME NEW n \in Nat, n \in S
      PROVE  n + 1 \in S
  <2>0. \A s \in SUBSET U : Cardinality(s) <= n + 1 => Cardinality(s) <= n \/ Cardinality(s) = n + 1
    BY <1>1
  <2> SUFFICES ASSUME NEW s \in SUBSET U, Cardinality(s) = n + 1
               PROVE  Total(s) \in Int /\ \A x \in s : Total(s) = of[x].attempts + Total(s \ {x})
    BY <1>5, <2>0
  <2>1. s # {} /\ IsFiniteSet(s)
    BY <1>1
  <2>2. PICK x \in s : Total(s) = of[x].attempts + Total(s \ {x})
    BY <1>3, <2>1
  <2>3. \A y \in s : /\ s \ {y} \in SUBSET U /\ Cardinality(s \ {y}) = n
                     /\ of[y].attempts \in Int
    BY <2>1, OneLess
  <2>4. \A y \in s : /\ Total(s \ {y}) \in Int
                     /\ \A z \in s \ {y} : Total(s \ {y}) = of[z].attempts + Total((s \ {y}) \ {z})
    BY <1>5, <2>3
  <2>5. Total(s) \in Int
    BY <2>2, <2>3, <2>4
  <2>6. ASSUME NEW y \in s, y # x
        PROVE  Total(s) = of[y].attempts + Total(s \ {y})
    <3> DEFINE t == (s \ {x}) \ {y}
    <3>1. (s \ {y}) \ {x} = t /\ x \in s \ {y} /\ y \in s \ {x}
      BY <2>6
    <3>2. Total(s \ {x}) = of[y].attempts + Total(t) /\ Total(s \ {y}) = of[x].attempts + Total(t)
      BY <2>4, <3>1
    <3>3. t \in SUBSET U /\ Cardinality(t) <= n
      <4>1. Cardinality(s \ {x}) = n /\ IsFiniteSet(s \ {x}) /\ t \in SUBSET U
        BY <2>1, <2>2, OneLess
      <4>2. Cardinality(t) = n - 1
        BY <3>1, <4>1, FS_RemoveElement
      <4>3. QED
        BY <4>1, <4>2
    <3>4. Total(t) \in Int
      BY <1>5, <3>3
    <3> HIDE DEF t
    <3>5. QED
      BY <2>2, <2>3, <3>2, <3>4
  <2>7. QED
    BY <2>2, <2>5, <2>6
<1> HIDE DEF S
<1>6. Nat \subseteq S
  BY <1>4, <1>5, NatSetInduction
<1>7. Total(U) \in Int /\ \A x \in U : Total(U) = of[x].attempts + Total(U \ {x})
  BY <1>1, <1>6 DEF S
<1>8. QED
  BY <1>2, <1>7 DEF Total

\* One element more.
LEMMA AttemptsMore ==
  ASSUME NEW of, NEW U, IsFiniteSet(U), NEW x, x \notin U,
         \A z \in U \union {x} : of[z].attempts \in Int
  PROVE  Attempts(of, U \union {x}) = Attempts(of, U) + of[x].attempts
<1> DEFINE V == U \union {x}
<1>1. IsFiniteSet(V) /\ x \in V /\ V \ {x} = U
  BY FS_AddElement
<1>2. /\ Attempts(of, U) \in Int /\ of[x].attempts \in Int
      /\ Attempts(of, V) = of[x].attempts + Attempts(of, V \ {x})
  BY <1>1, AttemptsLess
<1>3. Attempts(of, V) = Attempts(of, U) + of[x].attempts
  <2> HIDE DEF V
  <2>1. Attempts(of, V \ {x}) = Attempts(of, U)
    BY <1>1
  <2>2. QED
    BY <1>2, <2>1
<1>4. QED
  BY <1>3 DEF V

LEMMA SameAttempts ==
  ASSUME NEW of, NEW to, NEW U, IsFiniteSet(U), \A x \in U : of[x].attempts = to[x].attempts
  PROVE  Attempts(of, U) = Attempts(to, U)
<1> DEFINE S == {n \in Nat : \A s \in SUBSET U : Cardinality(s) = n => Attempts(of, s) = Attempts(to, s)}
<1>1. \A s \in SUBSET U : IsFiniteSet(s) /\ Cardinality(s) \in Nat /\ (Cardinality(s) = 0 <=> s = {})
  BY FS_Subset, FS_CardinalityType, FS_EmptySet
<1>2. 0 \in S
  <2>1. Attempts(of, {}) = 0 /\ Attempts(to, {}) = 0
    BY FS_EmptySet, AttemptsBegin
  <2>2. QED
    BY <1>1, <2>1
<1>3. ASSUME NEW n \in Nat, n \in S
      PROVE  n + 1 \in S
  <2> SUFFICES ASSUME NEW s \in SUBSET U, Cardinality(s) = n + 1
               PROVE  Attempts(of, s) = Attempts(to, s)
    OBVIOUS
  <2> DEFINE x == CHOOSE y \in s : TRUE
  <2>1. s # {} /\ IsFiniteSet(s)
    BY <1>1
  <2>2. x \in s
    BY <2>1, ChosenOne
  <2>3. /\ Attempts(of, s) = of[x].attempts + Attempts(of, s \ {x})
        /\ Attempts(to, s) = to[x].attempts + Attempts(to, s \ {x})
    BY <2>1, AttemptsBegin
  <2> HIDE DEF x
  <2>4. s \ {x} \in SUBSET U /\ Cardinality(s \ {x}) = n
    BY <2>1, <2>2, OneLess
  <2>5. Attempts(of, s \ {x}) = Attempts(to, s \ {x}) /\ of[x].attempts = to[x].attempts
    BY <1>3, <2>2, <2>4
  <2>6. QED
    BY <2>3, <2>5
<1> HIDE DEF S
<1>4. Nat \subseteq S
  BY <1>2, <1>3, NatSetInduction
<1>5. QED
  BY <1>1, <1>4 DEF S

\* One attempt more at one of the queries.
LEMMA AttemptCounts ==
  ASSUME NEW of, NEW to, NEW U, IsFiniteSet(U), NEW f \in U,
         \A x \in U : of[x].attempts \in Int,
         \A x \in U \ {f} : to[x].attempts = of[x].attempts,
         to[f].attempts = of[f].attempts + 1
  PROVE  Attempts(to, U) = Attempts(of, U) + 1
<1> DEFINE V == U \ {f}
<1>1. IsFiniteSet(V)
  BY FS_Subset
<1>2. \A x \in U : to[x].attempts \in Int
  OBVIOUS
<1>3. Attempts(to, V) = Attempts(of, V)
  BY <1>1, SameAttempts
<1>4. /\ Attempts(of, U) = of[f].attempts + Attempts(of, V)
      /\ Attempts(to, U) = to[f].attempts + Attempts(to, V)
      /\ Attempts(of, V) \in Int
  BY <1>1, <1>2, AttemptsLess
<1> HIDE DEF V
<1>5. QED
  BY <1>3, <1>4

LEMMA NoAttempts ==
  ASSUME NEW of, NEW U, IsFiniteSet(U), \A x \in U : of[x].attempts = 0
  PROVE  Attempts(of, U) = 0
<1> DEFINE S == {n \in Nat : \A s \in SUBSET U : Cardinality(s) = n => Attempts(of, s) = 0}
<1>1. \A s \in SUBSET U : IsFiniteSet(s) /\ Cardinality(s) \in Nat /\ (Cardinality(s) = 0 <=> s = {})
  BY FS_Subset, FS_CardinalityType, FS_EmptySet
<1>2. 0 \in S
  <2>1. Attempts(of, {}) = 0
    BY FS_EmptySet, AttemptsBegin
  <2>2. QED
    BY <1>1, <2>1
<1>3. ASSUME NEW n \in Nat, n \in S
      PROVE  n + 1 \in S
  <2> SUFFICES ASSUME NEW s \in SUBSET U, Cardinality(s) = n + 1
               PROVE  Attempts(of, s) = 0
    OBVIOUS
  <2> DEFINE x == CHOOSE y \in s : TRUE
  <2>1. s # {} /\ IsFiniteSet(s)
    BY <1>1
  <2>2. x \in s
    BY <2>1, ChosenOne
  <2>3. Attempts(of, s) = of[x].attempts + Attempts(of, s \ {x})
    BY <2>1, AttemptsBegin
  <2> HIDE DEF x
  <2>4. s \ {x} \in SUBSET U /\ Cardinality(s \ {x}) = n
    BY <2>1, <2>2, OneLess
  <2>5. Attempts(of, s \ {x}) = 0 /\ of[x].attempts = 0
    BY <1>3, <2>2, <2>4
  <2>6. QED
    BY <2>3, <2>5
<1> HIDE DEF S
<1>4. Nat \subseteq S
  BY <1>2, <1>3, NatSetInduction
<1>5. QED
  BY <1>1, <1>4 DEF S

-----------------------------------------------------------------------------
(* The attempts of a plan.                                                 *)

LEMMA FiniteYears ==
  ASSUME NEW r \in Requests
  PROVE  IsFiniteSet(YearsOf(r)) /\ IsFiniteSet(FieldsOf[r.algorithm])
<1>1. r.first \in Dates /\ r.last \in Dates /\ r.first..r.last \subseteq Dates /\ Dates \subseteq Nat
  BY InventoryAssumption
<1>2. \A d \in Dates : YearOf[d] \in Nat
  BY InventoryAssumption
<1>3. ASSUME NEW d \in Requested(r)
      PROVE  YearOf[d] <= YearOf[r.last]
  <2>1. d \in Dates /\ (d < r.last \/ d = r.last)
    <3>1. r.first \in Nat /\ r.last \in Nat /\ d \in r.first..r.last
      BY <1>1 DEF Requested
    <3>2. d < r.last \/ d = r.last
      BY <3>1
    <3>3. QED
      BY <1>1, <3>1, <3>2
  <2>2. CASE d < r.last
    <3>1. \A a, b \in Dates : a < b => YearOf[a] <= YearOf[b]
      BY InventoryAssumption
    <3>2. QED
      BY <1>1, <2>1, <2>2, <3>1
  <2>3. CASE d = r.last
    <3>1. YearOf[d] = YearOf[r.last] /\ YearOf[d] \in Nat
      BY <1>2, <2>1, <2>3
    <3>2. QED
      BY <3>1
  <2>4. QED
    BY <2>1, <2>2, <2>3
<1>4. \A y \in YearsOf(r) : y \in Nat /\ y <= YearOf[r.last]
  BY <1>1, <1>2, <1>3 DEF YearsOf, Requested
<1>5. YearOf[r.last] \in Nat /\ YearsOf(r) \in SUBSET Nat
  BY <1>1, <1>2, <1>4
<1>6. IsFiniteSet(YearsOf(r))
  BY <1>4, <1>5, FS_BoundedSetOfNaturals
<1>7. QED
  BY <1>6, InventoryAssumption

LEMMA WindowAttempts ==
  ASSUME NEW w \in Windows
  PROVE  w.attempts \in Int
BY DEF Windows

\* A call that ends leaves the attempts of the checkpoint as they were.
LEMMA EndKeepsAttempts ==
  ASSUME AttemptsInv, NEW how \in Ended, End(how), UNCHANGED window,
         UNCHANGED checkpoint \/ checkpoint' = NoFile
  PROVE  AttemptsInv'
<1>1. call'.at \notin {"years", "query", "script"}
  BY EndIsTyped DEF Ended
<1>2. checkpoint'.exists => UNCHANGED checkpoint
  BY DEF NoFile
<1>3. QED
  BY <1>1, <1>2 DEF AttemptsInv, PlanCountsItsAttempts

LEMMA StartKeepsAttempts ==
  ASSUME AttemptsInv, NEW r \in Requests, Start(r)
  PROVE  AttemptsInv'
<1>1. CASE checkpoint.exists /\ ~SameContract(checkpoint.contract, r)
  BY <1>1, EndKeepsAttempts DEF Start, files, Ended
<1>2. CASE ~(checkpoint.exists /\ ~SameContract(checkpoint.contract, r))
  <2>1. /\ call' = [request |-> r, at |-> "years", year |-> Absent]
        /\ left' = YearsOf(r) /\ plan' = NoPlan
        /\ UNCHANGED <<checkpoint, window>>
    BY <1>2 DEF Start, files
  <2>2. Attempts(window, {}) = 0
    BY FS_EmptySet, AttemptsBegin
  <2>3. YearsOf(r) \ left' = {} /\ plan'.attempts = 0
    BY <2>1 DEF NoPlan
  <2>4. QED
    BY <2>1, <2>2, <2>3 DEF AttemptsInv, PlanCountsItsAttempts
<1>3. QED
  BY <1>1, <1>2

\* A year of the checkpoint brings the attempts of its last query.
LEMMA ResumeKeepsAttempts ==
  ASSUME PublishedInv, PlanInv, AttemptsInv, NEW y \in Years, ResumeYear(y)
  PROVE  AttemptsInv'
<1> DEFINE r == call.request
           gone == YearsOf(r) \ left
<1>1. /\ call.at = "years" /\ y \in left /\ known[y] # Absent
      /\ plan' = Added(plan, known[y]) /\ left' = left \ {y}
      /\ UNCHANGED <<fdb, checkpoint, manifest, script, call, known, query, window>>
  BY DEF ResumeYear, Following, files
<1>2. checkpoint.exists /\ checkpoint.years = known /\ left \subseteq YearsOf(r)
  BY <1>1 DEF PublishedInv, CheckpointInv, PlanInv, KnownInv
<1>3. window[y] \in Windows /\ known[y].attempts = window[y].attempts
  BY <1>1, <1>2 DEF AttemptsInv
<1>4. plan'.attempts = plan.attempts + window[y].attempts
  <2>1. plan' = [dates |-> plan.dates \union known[y].dates, attempts |-> plan.attempts + known[y].attempts]
    BY <1>1 DEF PlanInv, PlannerTypeOK, Added
  <2>2. QED
    BY <1>3, <2>1
<1>5. YearsOf(r) \ left' = gone \union {y} /\ y \notin gone
  BY <1>1, <1>2
<1>6. plan.attempts = Attempts(window, gone) /\ \A z \in gone \union {y} : window[z] \in Windows
  BY <1>1, <1>3 DEF AttemptsInv
<1>7. IsFiniteSet(gone)
  <2>1. r \in Requests
    BY <1>1 DEF PublishedInv, CallInv, Working
  <2>2. QED
    BY <2>1, FiniteYears, FS_Subset
<1>8. plan'.attempts = Attempts(window, YearsOf(r) \ left')
  <2>1. \A z \in gone \union {y} : window[z].attempts \in Int
    BY <1>6, WindowAttempts
  <2> HIDE DEF gone
  <2>2. Attempts(window, gone \union {y}) = Attempts(window, gone) + window[y].attempts
    BY <1>5, <1>7, <2>1, AttemptsMore
  <2>3. QED
    BY <1>4, <1>5, <1>6, <2>2
<1>9. QED
  BY <1>1, <1>5, <1>6, <1>8 DEF AttemptsInv, PlanCountsItsAttempts

\* Nothing has been tried yet.
LEMMA QueryKeepsAttempts ==
  ASSUME PublishedInv, PlanInv, AttemptsInv, NEW y \in Years, QueryYear(y)
  PROVE  AttemptsInv'
<1> DEFINE r == call.request
           gone == YearsOf(r) \ left
           entry == [always |-> fdb, once |-> fdb, attempts |-> 0]
<1>1. /\ call.at = "years" /\ y \in left /\ known[y] = Absent
      /\ call' = [call EXCEPT !.at = "query", !.year = y] /\ query' = Unasked
      /\ window' = [window EXCEPT ![y] = entry]
      /\ UNCHANGED <<fdb, checkpoint, manifest, script, known, plan, left>>
  BY DEF QueryYear, Following, files
<1>2. call' = [request |-> r, at |-> "query", year |-> y] /\ r \in Requests
  BY <1>1 DEF PublishedInv, CallInv, Working
<1>3. entry.attempts = 0
  OBVIOUS
<1> HIDE DEF entry
<1>4. window'[y] = entry /\ \A z \in Years \ {y} : window'[z] = window[z]
  BY <1>1 DEF PlanInv, PlannerTypeOK
<1>5. YearsOf(r) \subseteq Years /\ FieldsOf[r.algorithm] \subseteq Fields
  BY <1>2, PlanHasYears, AskedAreFields
<1>6. IF checkpoint.exists THEN checkpoint.years = known ELSE known = NoYears
  BY <1>1 DEF PlanInv, KnownInv
<1>7. \A z \in gone : window'[z] = window[z]
  BY <1>1, <1>4, <1>5
<1>8. IsFiniteSet(gone) /\ IsFiniteSet(FieldsOf[r.algorithm])
  BY <1>2, FiniteYears, FS_Subset
<1>9. plan.attempts = Attempts(window, gone) /\ \A z \in gone : window[z] \in Windows
  BY <1>1 DEF AttemptsInv
<1>10. Attempts(window', gone) = Attempts(window, gone)
  BY <1>7, <1>8, SameAttempts
<1>11. window'[y].attempts = Attempts(query', FieldsOf[r.algorithm])
  <2>1. \A f \in FieldsOf[r.algorithm] : Unasked[f].attempts = 0
    BY <1>5 DEF Unasked
  <2>2. Attempts(Unasked, FieldsOf[r.algorithm]) = 0
    BY <1>8, <2>1, NoAttempts
  <2>3. QED
    BY <1>1, <1>3, <1>4, <2>2
<1>12. checkpoint'.exists => \A z \in Years : checkpoint'.years[z] # Absent =>
         window'[z] \in Windows /\ checkpoint'.years[z].attempts = window'[z].attempts
  BY <1>1, <1>4, <1>6 DEF AttemptsInv
<1>13. \A z \in gone : window'[z] \in Windows
  BY <1>7, <1>9
<1>14. QED
  BY <1>1, <1>2, <1>9, <1>10, <1>11, <1>12, <1>13 DEF AttemptsInv, PlanCountsItsAttempts

\* An attempt counts once for its query and once for its year.
LEMMA TriedKeepsAttempts ==
  ASSUME PublishedInv, PlanInv, AttemptsInv, NEW f \in Fields, NEW answer \in Answers,
         Pending(f), Tried(f, answer), UNCHANGED <<files, call, known, plan, left>>
  PROVE  AttemptsInv'
<1> DEFINE r == call.request
           y == call.year
           gone == YearsOf(r) \ left
           asked == FieldsOf[r.algorithm]
<1>1. call.at = "query" /\ f \in asked
  BY DEF Pending
<1>2. /\ r \in Requests /\ y \in Years /\ window[y] \in Windows /\ asked \subseteq Fields
      /\ y \in left /\ known[y] = Absent
  BY <1>1, QueriedYear DEF PlanInv, QueryInv
<1>3. UNCHANGED <<checkpoint, manifest, script, call, known, plan, left>>
  BY DEF files
<1>4. /\ \A g \in Fields \ {f} : query'[g] = query[g]
      /\ \A z \in Years \ {y} : window'[z] = window[z]
      /\ window'[y] \in Windows
  BY <1>2, TriedFrame DEF PlanInv
<1>5. query[f].attempts \in Nat /\ query'[f].attempts = query[f].attempts + 1
  <2>1. query' = [query EXCEPT ![f] = [attempts |-> query[f].attempts + 1, dates |-> answer]]
    BY DEF Tried
  <2>2. QED
    BY <2>1 DEF PlanInv, PlannerTypeOK
<1>6. window'[y].attempts = window[y].attempts + 1
  <2> DEFINE entry == [window[y] EXCEPT !.attempts = @ + 1]
  <2>1. entry.attempts = window[y].attempts + 1
    BY <1>2 DEF Windows
  <2>2. window' = [window EXCEPT ![y] = entry]
    BY DEF Tried
  <2> HIDE DEF entry
  <2>3. QED
    BY <1>2, <2>1, <2>2 DEF PlanInv, PlannerTypeOK
<1>7. IsFiniteSet(gone) /\ IsFiniteSet(asked)
  BY <1>2, FiniteYears, FS_Subset
<1>8. YearsOf(r) \subseteq Years
  BY <1>2, PlanHasYears
<1>9. \A z \in gone : window'[z] = window[z]
  BY <1>2, <1>4, <1>8
<1>10. Attempts(window', gone) = Attempts(window, gone)
  BY <1>7, <1>9, SameAttempts
<1>11. \A g \in asked : query[g].attempts \in Int
  BY <1>2 DEF PlanInv, PlannerTypeOK
<1>12. Attempts(query', asked) = Attempts(query, asked) + 1
  <2>1. \A g \in asked \ {f} : query'[g].attempts = query[g].attempts
    BY <1>2, <1>4
  <2> HIDE DEF asked
  <2>2. QED
    BY <1>1, <1>5, <1>7, <1>11, <2>1, AttemptCounts
<1>13. checkpoint.exists => \A z \in Years : checkpoint.years[z] # Absent =>
         window'[z] \in Windows /\ checkpoint.years[z].attempts = window'[z].attempts
  <2>1. checkpoint.exists => checkpoint.years[y] = Absent
    BY <1>1, <1>2 DEF PlanInv, KnownInv
  <2>2. QED
    BY <1>4, <2>1 DEF AttemptsInv
<1>14. plan.attempts = Attempts(window', gone) /\ \A z \in gone : window'[z] \in Windows
  BY <1>1, <1>9, <1>10 DEF AttemptsInv
<1>15. window'[y].attempts = Attempts(query', asked)
  BY <1>1, <1>6, <1>12 DEF AttemptsInv
<1>16. QED
  BY <1>1, <1>3, <1>13, <1>14, <1>15 DEF AttemptsInv, PlanCountsItsAttempts

\* The entry of a year has the attempts of all its queries.
LEMMA EndYearKeepsAttempts ==
  ASSUME PublishedInv, PlanInv, AttemptsInv, EndYear
  PROVE  AttemptsInv'
<1> DEFINE r == call.request
           y == call.year
           gone == YearsOf(r) \ left
           asked == FieldsOf[r.algorithm]
<1>1. call.at = "query" /\ UNCHANGED window
  BY DEF EndYear
<1>2. CASE \E f \in asked : query[f].dates = Broken
  BY <1>1, <1>2, EndKeepsAttempts DEF EndYear, Ended
<1>3. CASE \A f \in asked : query[f].dates # Broken
  <2>1. PICK entry :
          /\ entry.attempts = Attempts(query, asked)
          /\ known' = [known EXCEPT ![y] = entry]
          /\ checkpoint' = [exists |-> TRUE, contract |-> Contract(r), years |-> known']
          /\ plan' = Added(plan, entry) /\ left' = left \ {y}
          /\ call' = [call EXCEPT !.at = "years", !.year = Absent]
    BY <1>3 DEF EndYear
  <2>2. /\ r \in Requests /\ y \in Years /\ y \in left /\ left \subseteq YearsOf(r) /\ window[y] \in Windows
    BY <1>1, QueriedYear
  <2>3. call' = [request |-> r, at |-> "years", year |-> Absent]
    BY <2>1 DEF PublishedInv, CallInv
  <2>4. known'[y] = entry /\ \A z \in Years \ {y} : known'[z] = known[z]
    BY <2>1, <2>2 DEF PlanInv, PlannerTypeOK
  <2>5. entry.attempts = window[y].attempts
    BY <1>1, <2>1 DEF AttemptsInv
  <2>6. plan'.attempts = plan.attempts + window[y].attempts
    <3>1. plan' = [dates |-> plan.dates \union entry.dates, attempts |-> plan.attempts + entry.attempts]
      BY <2>1 DEF PlanInv, PlannerTypeOK, Added
    <3>2. QED
      BY <2>5, <3>1
  <2>7. \A z \in Years : known'[z] # Absent => window[z] \in Windows /\ known'[z].attempts = window[z].attempts
    <3>1. IF checkpoint.exists THEN checkpoint.years = known ELSE known = NoYears
      BY <1>1 DEF PlanInv, KnownInv
    <3>2. \A z \in Years : known[z] # Absent => window[z] \in Windows /\ known[z].attempts = window[z].attempts
      BY <3>1 DEF AttemptsInv, NoYears
    <3>3. QED
      BY <2>2, <2>4, <2>5, <3>2
  <2>8. YearsOf(r) \ left' = gone \union {y} /\ y \notin gone
    BY <2>1, <2>2
  <2>9. plan.attempts = Attempts(window, gone) /\ \A z \in gone \union {y} : window[z] \in Windows
    BY <1>1, <2>2 DEF AttemptsInv
  <2>10. IsFiniteSet(gone)
    BY <2>2, FiniteYears, FS_Subset
  <2>11. plan'.attempts = Attempts(window, YearsOf(r) \ left')
    <3>1. \A z \in gone \union {y} : window[z].attempts \in Int
      BY <2>9, WindowAttempts
    <3> HIDE DEF gone
    <3>2. Attempts(window, gone \union {y}) = Attempts(window, gone) + window[y].attempts
      BY <2>8, <2>10, <3>1, AttemptsMore
    <3>3. QED
      BY <2>6, <2>8, <2>9, <3>2
  <2>12. checkpoint'.exists => \A z \in Years : checkpoint'.years[z] # Absent =>
           window[z] \in Windows /\ checkpoint'.years[z].attempts = window[z].attempts
    BY <2>1, <2>7
  <2> HIDE DEF gone
  <2>13. QED
    BY <1>1, <2>3, <2>8, <2>9, <2>11, <2>12 DEF AttemptsInv, PlanCountsItsAttempts
<1>4. QED
  BY <1>2, <1>3

LEMMA ManifestKeepsAttempts ==
  ASSUME PublishedInv, PlanInv, AttemptsInv, WriteManifest
  PROVE  AttemptsInv'
<1> DEFINE r == call.request
<1>1. call.at = "years" /\ left = {} /\ UNCHANGED <<checkpoint, window>>
  BY DEF WriteManifest
<1>2. CASE Refuses(r)
  BY <1>1, <1>2, EndKeepsAttempts DEF WriteManifest, Ended
<1>3. CASE ~Refuses(r)
  <2>1. manifest'.attempts = plan.attempts /\ call' = [call EXCEPT !.at = "script"]
    BY <1>3 DEF WriteManifest
  <2>2. call'.at = "script" /\ call'.request = r
    BY <2>1 DEF PublishedInv, CallInv
  <2>3. YearsOf(r) \ left = YearsOf(r)
    BY <1>1
  <2>4. plan.attempts = Attempts(window, YearsOf(r))
    BY <1>1, <2>3 DEF AttemptsInv
  <2>5. QED
    BY <1>1, <2>1, <2>2, <2>4 DEF AttemptsInv, PlanCountsItsAttempts
<1>4. QED
  BY <1>2, <1>3

\* The archive may change, the attempts do not.
LEMMA ChangeKeepsAttempts ==
  ASSUME PublishedInv, PlanInv, AttemptsInv, NEW f \in Fields, NEW d \in Dates, Change(f, d)
  PROVE  AttemptsInv'
<1>1. UNCHANGED <<checkpoint, manifest, script, call, known, query, plan, left>>
  BY DEF Change, files, memory
<1>2. CASE call.at # "query"
  <2>1. window' = window
    BY <1>2 DEF Change
  <2>2. QED
    BY <1>1, <1>2, <2>1 DEF AttemptsInv, PlanCountsItsAttempts
<1>3. CASE call.at = "query"
  <2> DEFINE r == call.request
             y == call.year
             gone == YearsOf(r) \ left
  <2>1. r \in Requests /\ y \in Years /\ window[y] \in Windows /\ y \in left
    BY <1>3, QueriedYear
  <2>2. /\ \A z \in Years \ {y} : window'[z] = window[z]
        /\ window'[y] \in Windows
    BY <1>3, <2>1, ChangeFrame DEF PlanInv
  <2>3. window'[y].attempts = window[y].attempts
    <3> DEFINE entry == Widened(window[y], f, fdb'[f])
    <3>1. entry.attempts = window[y].attempts
      BY <2>1 DEF Windows, Widened
    <3>2. window' = [window EXCEPT ![y] = entry]
      BY <1>3 DEF Change
    <3> HIDE DEF entry
    <3>3. QED
      BY <2>1, <3>1, <3>2 DEF PlanInv, PlannerTypeOK
  <2>4. YearsOf(r) \subseteq Years /\ IsFiniteSet(gone)
    BY <2>1, PlanHasYears, FiniteYears, FS_Subset
  <2>5. \A z \in gone : window'[z] = window[z]
    BY <2>1, <2>2, <2>4
  <2>6. Attempts(window', gone) = Attempts(window, gone)
    BY <2>4, <2>5, SameAttempts
  <2>7. checkpoint.exists => \A z \in Years : checkpoint.years[z] # Absent =>
          window'[z] \in Windows /\ checkpoint.years[z].attempts = window'[z].attempts
    BY <2>2, <2>3 DEF AttemptsInv
  <2>8. plan.attempts = Attempts(window', gone) /\ \A z \in gone : window'[z] \in Windows
    BY <1>3, <2>5, <2>6 DEF AttemptsInv
  <2>9. window'[y].attempts = Attempts(query, FieldsOf[r.algorithm])
    BY <1>3, <2>3 DEF AttemptsInv
  <2>10. QED
    BY <1>1, <1>3, <2>7, <2>8, <2>9 DEF AttemptsInv, PlanCountsItsAttempts
<1>4. QED
  BY <1>2, <1>3

LEMMA AttemptsInitially == Init => AttemptsInv
BY DEF Init, AttemptsInv, PlanCountsItsAttempts, NoFile, Idle

LEMMA AttemptsStep == PublishedInv /\ PlanInv /\ AttemptsInv /\ [Next]_vars => AttemptsInv'
<1> SUFFICES ASSUME PublishedInv, PlanInv, AttemptsInv, [Next]_vars
             PROVE  AttemptsInv'
  OBVIOUS
<1>1. CASE \E r \in Requests : Start(r)
  BY <1>1, StartKeepsAttempts
<1>2. CASE \E y \in Years : ResumeYear(y) \/ QueryYear(y)
  BY <1>2, ResumeKeepsAttempts, QueryKeepsAttempts
<1>3. CASE EndYear \/ WriteManifest
  BY <1>3, EndYearKeepsAttempts, ManifestKeepsAttempts
<1>4. CASE WriteScript
  <2>1. call'.at = "clean"
    BY <1>4 DEF WriteScript, PublishedInv, CallInv
  <2>2. UNCHANGED <<checkpoint, window>>
    BY <1>4 DEF WriteScript
  <2>3. QED
    BY <2>1, <2>2 DEF AttemptsInv, PlanCountsItsAttempts
<1>5. CASE RemoveCheckpoint
  BY <1>5, EndKeepsAttempts DEF RemoveCheckpoint, Ended
<1>6. CASE \E f \in Fields : Answer(f) \/ FailAttempt(f) \/ Garble(f)
  <2>0. PICK f \in Fields : Answer(f) \/ FailAttempt(f) \/ Garble(f)
    BY <1>6
  <2>1. \E answer \in Answers : Tried(f, answer)
    <3>1. fdb[f] \intersect Period(call.request, call.year) \in Answers /\ {Absent, Broken} \subseteq Answers
      BY DEF PlanInv, PlannerTypeOK, Answers
    <3>2. QED
      BY <2>0, <3>1 DEF Answer, FailAttempt, Garble
  <2>2. Pending(f) /\ UNCHANGED <<files, call, known, plan, left>>
    BY <2>0 DEF Answer, FailAttempt, Garble
  <2>3. QED
    BY <2>1, <2>2, TriedKeepsAttempts
<1>7. CASE \E f \in Fields, d \in Dates : Change(f, d)
  BY <1>7, ChangeKeepsAttempts
<1>8. CASE Kill
  BY <1>8, EndKeepsAttempts DEF Kill, Ended
<1>9. CASE UNCHANGED vars
  BY <1>9 DEF vars, memory, AttemptsInv, PlanCountsItsAttempts
<1>10. QED
  BY <1>1, <1>2, <1>3, <1>4, <1>5, <1>6, <1>7, <1>8, <1>9 DEF Next

(* The retry statistics of every new manifest count every attempt of the   *)
(* queries its days come from, those of interrupted calls included, for    *)
(* any number of retries, failed queries and kills.                        *)
THEOREM PlansCountAttempts == Spec => []PlanCountsItsAttempts
<1>1. Init => PublishedInv /\ PlanInv /\ AttemptsInv
  BY PublishedInitially, PlanInitially, AttemptsInitially
<1>2. PublishedInv /\ PlanInv /\ AttemptsInv /\ [Next]_vars => (PublishedInv /\ PlanInv /\ AttemptsInv)'
  BY PublishedStep, PlanStep, AttemptsStep
<1>3. AttemptsInv => PlanCountsItsAttempts
  BY DEF AttemptsInv
<1>4. QED
  BY <1>1, <1>2, <1>3, PTL DEF Spec
=============================================================================
