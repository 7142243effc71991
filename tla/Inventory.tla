------------------------------- MODULE Inventory -------------------------------
(***************************************************************************)
(* The planner of a reanalysis backfill (backfill.py): it asks the archive *)
(* year by year, one query per required field, which cycles there are,     *)
(* keeps each finished year in a checkpoint that a later call resumes,     *)
(* writes the manifest and the job script, and removes the checkpoint.     *)
(*                                                                         *)
(* Only one planner of a campaign runs at a time, and nobody removes the   *)
(* checkpoint by hand.  The archive gains and loses fields meanwhile.      *)
(* The pool has a worker per field, so answers come in any order.          *)
(***************************************************************************)
EXTENDS Integers, Sequences, FiniteSets, FiniteSetsExt

CONSTANTS
  YearOf, MonthOf,  \* the year and the month of each day
  FieldsOf,         \* the required fields of each diagnostic algorithm
  Requests,         \* command lines: algorithm, first and last day, allow missing
  Archives,         \* what the archive may hold at first: the days of each field
  Retries,          \* RetryConfig.retries
  MessagesPerCycle, \* 24
  MaxPlans,         \* bound on the calls of the planner
  MaxFaults,        \* bound on failed queries, refused answers and kills
  MaxChanges,       \* bound on the changes of the archive
  Absent, Broken    \* no such file or answer; a failed query, a torn script

Dates == DOMAIN YearOf
Fields == UNION {FieldsOf[a] : a \in DOMAIN FieldsOf}
Years == {YearOf[d] : d \in Dates}

ASSUME InventoryAssumption ==
  /\ Dates \subseteq Nat /\ DOMAIN MonthOf = Dates
  /\ \A d \in Dates : YearOf[d] \in Nat /\ MonthOf[d] \in Nat
  /\ \A a \in DOMAIN FieldsOf : FieldsOf[a] # {} /\ IsFiniteSet(FieldsOf[a])
  /\ \A d, e \in Dates : d < e => YearOf[d] <= YearOf[e] /\ MonthOf[d] <= MonthOf[e]
  /\ \A r \in Requests : /\ r.algorithm \in DOMAIN FieldsOf
                        /\ {r.first, r.last} \subseteq Dates /\ r.first <= r.last /\ r.first..r.last \subseteq Dates
  /\ Archives \subseteq [Fields -> SUBSET Dates]
  /\ Retries \in Nat /\ MaxPlans \in Nat /\ MaxFaults \in Nat /\ MaxChanges \in Nat

VARIABLES
  fdb,         \* the days the archive has of each field
  checkpoint,  \* manifest.inventory.json
  manifest,    \* manifest.json
  script,      \* the months of the job array in manifest.sbatch
  call,        \* the planner: its request and where it is
  known,       \* the checkpoint it has in memory: the years it need not ask for
  query,       \* of each field: attempts made and the answer
  plan,        \* days and attempts of the years gone through
  left,        \* the years that are left
  window,      \* what the archive had all the time, and at some time, of each query
  plans, faults, changes

memory == <<known, query, plan, left>>
bounds == <<plans, faults, changes>>
vars == <<fdb, checkpoint, manifest, script, call, memory, window, bounds>>

Ended == {"idle", "killed", "raised", "planned"}

-----------------------------------------------------------------------------
Requested(r) == r.first..r.last                                  \* _date_range
Period(r, y) == {d \in Requested(r) : YearOf[d] = y}             \* _year_periods
YearsOf(r) == {YearOf[d] : d \in Requested(r)}

\* The query contract: algorithm, fields and range, not the missing-date policy.
Contract(r) == [algorithm |-> r.algorithm, first |-> r.first, last |-> r.last]

\* Without the algorithm and its fields.
SameRange(c, r) == c.first = r.first /\ c.last = r.last

SameContract(c, r) == c = Contract(r)

\* _monthly_periods: the months in order, with the messages to expect.
MonthlyPeriods(dates) ==
  LET months == {MonthOf[d] : d \in dates}
      nth(i) == CHOOSE m \in months : Cardinality({n \in months : n < m}) = i - 1
      of(m) == {d \in dates : MonthOf[d] = m}
  IN  [i \in 1..Cardinality(months) |->
         [period |-> nth(i), dates |-> of(nth(i)),
          messages |-> Cardinality(of(nth(i))) * MessagesPerCycle]]

\* What load_manifest accepts.
Loadable(periods) ==
  /\ periods # <<>>
  /\ \A i \in DOMAIN periods :
       /\ periods[i].dates # {} /\ \A d \in periods[i].dates : MonthOf[d] = periods[i].period
       /\ periods[i].messages = Cardinality(periods[i].dates) * MessagesPerCycle

-----------------------------------------------------------------------------
Unasked == [f \in Fields |-> [attempts |-> 0, dates |-> Absent]]
NoYears == [y \in Years |-> Absent]
NoPlan == [dates |-> {}, attempts |-> 0]
NoFile == [exists |-> FALSE]
Idle(at) == [request |-> Absent, at |-> at, year |-> Absent]

Init ==
  /\ fdb \in Archives
  /\ checkpoint = NoFile /\ manifest = NoFile /\ script = Absent
  /\ call = Idle("idle") /\ known = NoYears /\ query = Unasked
  /\ plan = NoPlan /\ left = {}
  /\ window = [y \in Years |-> Absent]
  /\ plans = 0 /\ faults = 0 /\ changes = 0

files == <<checkpoint, manifest, script>>

\* The call is over, and what it had in memory is gone.
End(how) ==
  /\ call' = Idle(how) /\ known' = NoYears /\ query' = Unasked
  /\ plan' = NoPlan /\ left' = {}

\* _load_inventory_checkpoint: another contract is refused.
Start(r) ==
  /\ call.at \in Ended /\ plans < MaxPlans /\ plans' = plans + 1
  /\ IF checkpoint.exists /\ ~SameContract(checkpoint.contract, r)
     THEN End("raised")
     ELSE /\ call' = [request |-> r, at |-> "years", year |-> Absent]
          /\ known' = IF checkpoint.exists THEN checkpoint.years ELSE NoYears
          /\ left' = YearsOf(r) /\ plan' = NoPlan
          /\ UNCHANGED query
  /\ UNCHANGED <<fdb, files, window, faults, changes>>

\* The years are gone through in order.
Following(y) == call.at = "years" /\ y \in left /\ \A z \in left : y <= z

\* A year found in the checkpoint costs no query; its attempts count again.
ResumedUncounted(p, entry) == [p EXCEPT !.dates = @ \union entry.dates]

Added(p, entry) == [p EXCEPT !.dates = @ \union entry.dates, !.attempts = @ + entry.attempts]

ResumeYear(y) ==
  /\ Following(y) /\ known[y] # Absent
  /\ plan' = Added(plan, known[y]) /\ left' = left \ {y}
  /\ UNCHANGED <<fdb, files, call, known, query, window, bounds>>

\* All queries of the year are handed to the pool.
QueryYear(y) ==
  /\ Following(y) /\ known[y] = Absent
  /\ call' = [call EXCEPT !.at = "query", !.year = y]
  /\ query' = Unasked
  /\ window' = [window EXCEPT ![y] = [always |-> fdb, once |-> fdb, attempts |-> 0]]
  /\ UNCHANGED <<fdb, files, known, plan, left, bounds>>

Pending(f) ==
  call.at = "query" /\ f \in FieldsOf[call.request.algorithm] /\ query[f].dates = Absent

Tried(f, answer) ==
  /\ query' = [query EXCEPT ![f] = [attempts |-> @.attempts + 1, dates |-> answer]]
  /\ window' = [window EXCEPT ![call.year].attempts = @ + 1]

\* fdb-list answers with the days it has of the field at that moment.
Answer(f) ==
  /\ Pending(f)
  /\ Tried(f, fdb[f] \intersect Period(call.request, call.year))
  /\ UNCHANGED <<fdb, files, call, known, plan, left, bounds>>

\* _retry_operation: the last attempt makes the query fail.
FailAttempt(f) ==
  /\ Pending(f) /\ faults < MaxFaults /\ faults' = faults + 1
  /\ Tried(f, IF query[f].attempts < Retries THEN Absent ELSE Broken)
  /\ UNCHANGED <<fdb, files, call, known, plan, left, plans, changes>>

\* A line without days, or days outside the year: refused without a retry.
Garble(f) ==
  /\ Pending(f) /\ faults < MaxFaults /\ faults' = faults + 1
  /\ Tried(f, Broken)
  /\ UNCHANGED <<fdb, files, call, known, plan, left, plans, changes>>

\* The days every field has, whatever the order of the answers.
DaysOfAll(answers) == {d \in UNION answers : \A a \in answers : d \in a}

Attempts(of, S) == MapThenSumSet(LAMBDA x : of[x].attempts, S)

\* The pool is drained before a failure is raised.  A good year is kept.
EndYear ==
  /\ call.at = "query"
  /\ LET asked == FieldsOf[call.request.algorithm]
         entry == [dates |-> DaysOfAll({query[f].dates : f \in asked}),
                   attempts |-> Attempts(query, asked)]
     IN  /\ \A f \in asked : query[f].dates # Absent
         /\ IF \E f \in asked : query[f].dates = Broken
            THEN End("raised") /\ UNCHANGED checkpoint
            ELSE /\ known' = [known EXCEPT ![call.year] = entry]
                 /\ checkpoint' = [exists |-> TRUE, contract |-> Contract(call.request), years |-> known']
                 /\ plan' = Added(plan, entry) /\ left' = left \ {call.year}
                 /\ call' = [call EXCEPT !.at = "years", !.year = Absent]
                 /\ query' = Unasked
  /\ UNCHANGED <<fdb, manifest, script, window, bounds>>

\* Missing days are refused unless allowed, and a plan without days always.
Refuses(r) ==
  \/ Requested(r) \ plan.dates # {} /\ ~r.missing
  \/ Requested(r) \intersect plan.dates = {}

WriteManifest ==
  /\ call.at = "years" /\ left = {}
  /\ LET r == call.request IN
       IF Refuses(r)
       THEN End("raised") /\ UNCHANGED manifest
       ELSE /\ manifest' = [exists |-> TRUE, request |-> r, missing |-> Requested(r) \ plan.dates,
                            periods |-> MonthlyPeriods(Requested(r) \intersect plan.dates),
                            attempts |-> plan.attempts]
            /\ call' = [call EXCEPT !.at = "script"]
            /\ UNCHANGED memory
  /\ UNCHANGED <<fdb, checkpoint, script, window, bounds>>

\* The checkpoint is removed as soon as the manifest stands.
ScriptLast ==
  /\ call.at = "script"
  /\ checkpoint' = NoFile
  /\ IF checkpoint.exists THEN UNCHANGED <<script, call>>
     ELSE script' = Len(manifest.periods) /\ call' = [call EXCEPT !.at = "clean"]
  /\ UNCHANGED <<fdb, manifest, memory, window, bounds>>

\* The array has one task per month of the manifest, read back from the file.
WriteScript ==
  /\ call.at = "script" /\ Loadable(manifest.periods)
  /\ script' = Len(manifest.periods)
  /\ call' = [call EXCEPT !.at = "clean"]
  /\ UNCHANGED <<fdb, checkpoint, manifest, memory, window, bounds>>

RemoveCheckpoint ==
  /\ call.at = "clean"
  /\ checkpoint' = NoFile /\ End("planned")
  /\ UNCHANGED <<fdb, manifest, script, window, bounds>>

\* The job's time is over, or a file cannot be written; the script is not
\* written atomically.  write_slurm_array_script refuses a concurrency or
\* partition by raising before it writes, which leaves the same behind.
Kill ==
  /\ call.at \notin Ended /\ faults < MaxFaults /\ faults' = faults + 1
  /\ script' \in {script} \union (IF call.at = "script" THEN {Broken} ELSE {})
  /\ End("killed")
  /\ UNCHANGED <<fdb, checkpoint, manifest, window, plans, changes>>

Widened(w, f, days) == [w EXCEPT !.always[f] = @ \intersect days, !.once[f] = @ \union days]

\* A field of a day is archived, or withdrawn.
Change(f, d) ==
  /\ changes < MaxChanges /\ changes' = changes + 1
  /\ fdb' = [fdb EXCEPT ![f] = IF d \in @ THEN @ \ {d} ELSE @ \union {d}]
  /\ window' = IF call.at # "query" THEN window
               ELSE [window EXCEPT ![call.year] = Widened(@, f, fdb'[f])]
  /\ UNCHANGED <<files, call, memory, plans, faults>>

Next ==
  \/ \E r \in Requests : Start(r)
  \/ \E y \in Years : ResumeYear(y) \/ QueryYear(y)
  \/ EndYear \/ WriteManifest \/ WriteScript \/ RemoveCheckpoint
  \/ \E f \in Fields : Answer(f) \/ FailAttempt(f) \/ Garble(f)
  \/ \E f \in Fields, d \in Dates : Change(f, d)
  \/ Kill

Spec == Init /\ [][Next]_vars

-----------------------------------------------------------------------------
(* Properties.                                                             *)

(* A new manifest can be loaded, and its days are those of the archive as  *)
(* far as a query can tell: a planned day was there in every required      *)
(* field at some time while its year was queried, in this call or in the   *)
(* call that left the checkpoint, and a missing day was at some time not   *)
(* there; a strict plan has no missing day.                                *)
PlanIsSound ==
  call.at = "script" =>
    LET r == call.request
        planned == UNION {manifest.periods[i].dates : i \in DOMAIN manifest.periods}
    IN  /\ Loadable(manifest.periods)
        /\ planned \union manifest.missing = Requested(r) /\ planned \intersect manifest.missing = {}
        /\ \A d \in planned : \A f \in FieldsOf[r.algorithm] : d \in window[YearOf[d]].once[f]
        /\ \A d \in manifest.missing : \E f \in FieldsOf[r.algorithm] : d \notin window[YearOf[d]].always[f]
        /\ manifest.missing # {} => r.missing

(* The retry statistics of a new manifest count every attempt of the       *)
(* queries its days come from, those of interrupted calls included.        *)
PlanCountsItsAttempts ==
  call.at = "script" =>
    manifest.attempts = Attempts(window, YearsOf(call.request))

(* A campaign without checkpoint is published as a whole: its job array    *)
(* has one task for each month of its manifest, whatever was killed        *)
(* between the manifest and the script.                                    *)
NoCheckpointMeansPublished ==
  ~checkpoint.exists =>
    script = IF manifest.exists THEN Len(manifest.periods) ELSE Absent

-----------------------------------------------------------------------------
(* The inductive strengthening.                                            *)

Working == {"years", "query", "script", "clean"}

CallInv ==
  /\ call = [request |-> call.request, at |-> call.at, year |-> call.year]
  /\ call.at \in Working \union Ended
  /\ call.at \in Working => call.request \in Requests

\* The first year gone through leaves a checkpoint, and so does a known one.
CheckpointInv ==
  /\ \A y \in Years : known[y] # Absent => checkpoint.exists
  /\ call.at \in {"years", "query"} => checkpoint.exists \/ left = YearsOf(call.request)
  /\ call.at \in {"script", "clean"} => checkpoint.exists /\ manifest.exists

ScriptInv == call.at = "clean" => script = Len(manifest.periods)

PublishedInv == CallInv /\ CheckpointInv /\ ScriptInv /\ NoCheckpointMeansPublished

\* What has the shape it always has; attempts are left out.
Windows == [always : [Fields -> SUBSET Dates], once : [Fields -> SUBSET Dates], attempts : Nat]

Answers == (SUBSET Dates) \union {Absent, Broken}

PlannerTypeOK ==
  /\ fdb \in [Fields -> SUBSET Dates]
  /\ window \in [Years -> Windows \union {Absent}]
  /\ query \in [Fields -> [attempts : Nat, dates : Answers]]
  /\ known = [y \in Years |-> known[y]]
  /\ plan = [dates |-> plan.dates, attempts |-> plan.attempts]

\* The days of a year an entry gives are those of the archive, as far as the
\* queries of that year, which had window w, could tell.
EntrySound(w, c, y, entry) ==
  /\ entry.dates \subseteq Period(c, y)
  /\ \A d \in entry.dates : \A f \in FieldsOf[c.algorithm] : d \in w.once[f]
  /\ \A d \in Period(c, y) \ entry.dates :
       \E f \in FieldsOf[c.algorithm] : d \notin w.always[f]

CheckpointSound ==
  checkpoint.exists =>
    /\ checkpoint.years = [y \in Years |-> checkpoint.years[y]]
    /\ \A y \in Years : checkpoint.years[y] # Absent =>
         EntrySound(window[y], checkpoint.contract, y, checkpoint.years[y])

\* A call works on a copy of the checkpoint, and has in its plan the years it
\* has gone through.
KnownInv ==
  call.at \in {"years", "query"} =>
    LET r == call.request IN
      /\ IF checkpoint.exists THEN checkpoint.contract = Contract(r) /\ checkpoint.years = known
         ELSE known = NoYears
      /\ left \subseteq YearsOf(r)
      /\ \A y \in YearsOf(r) \ left : EntrySound(window[y], r, y, known[y])
      /\ plan.dates = UNION {known[y].dates : y \in YearsOf(r) \ left}

\* An answer lies between what the archive had all the time and at some time.
QueryInv ==
  call.at = "query" =>
    LET r == call.request
        y == call.year
    IN  /\ y \in left /\ known[y] = Absent /\ window[y] \in Windows
        /\ \A f \in Fields : window[y].always[f] \subseteq fdb[f] /\ fdb[f] \subseteq window[y].once[f]
        /\ \A f \in FieldsOf[r.algorithm] : query[f].dates \notin {Absent, Broken} =>
             /\ query[f].dates \subseteq Period(r, y) \intersect window[y].once[f]
             /\ window[y].always[f] \intersect Period(r, y) \subseteq query[f].dates

\* An entry has the attempts of the last query of its year.
AttemptsInv ==
  /\ checkpoint.exists => \A y \in Years : checkpoint.years[y] # Absent =>
       window[y] \in Windows /\ checkpoint.years[y].attempts = window[y].attempts
  /\ call.at \in {"years", "query"} =>
       LET gone == YearsOf(call.request) \ left IN
         plan.attempts = Attempts(window, gone) /\ \A y \in gone : window[y] \in Windows
  /\ call.at = "query" =>
       window[call.year].attempts = Attempts(query, FieldsOf[call.request.algorithm])
  /\ PlanCountsItsAttempts

PlanInv == PlannerTypeOK /\ CheckpointSound /\ KnownInv /\ QueryInv /\ PlanIsSound
=============================================================================
