---------------------------- MODULE MemberPipeline ----------------------------
(***************************************************************************)
(* One member of a forecast cycle: the calls of process_member_run on its  *)
(* directory (operational.py).  A call fetches the hours in chunks, by     *)
(* itself or one chunk ahead in a thread, turns accumulations since the    *)
(* start of the forecast into hourly amounts carried from hour to hour,    *)
(* and writes one file per hour.  Every listing, request and decoding is   *)
(* an operation that is retried a bounded number of times.                 *)
(*                                                                         *)
(* An output stands for the amounts it was diagnosed from; the diagnosis   *)
(* itself is GridDiagnosis.  At which of its decodings a stage meets a     *)
(* missing field is left open.                                             *)
(***************************************************************************)
EXTENDS Integers, FiniteSets

CONSTANTS
  TotalPrecip,   \* TOT_PREC
  Microphysics,  \* ICON_ARCHIVED_MICROPHYSICS_ACCUMULATIONS, {} for Firdewsa
  Params,        \* ML_PARAMS
  FullLevels,    \* number of model levels, 1 is the highest
  LastStep,      \* MODEL_MAX_STEP
  Archives,      \* contents the FDB may have for the run
  Calls,         \* arguments of process_member_run in this directory
  MaxCalls,      \* bound on the number of calls
  Retries,       \* RetryConfig.retries
  MaxFaults,     \* bound on failing operations, streams and writes in a call
  Absent,        \* no such output, nothing carried
  Lost           \* a field the FDB does not have

Steps == 0..LastStep
Accumulations == {TotalPrecip} \union Microphysics
Levels == 1..FullLevels

ASSUME PipelineAssumption ==
  /\ LastStep \in Nat /\ FullLevels \in Nat \ {0} /\ Retries \in Nat
  /\ Absent \notin Nat /\ IsFiniteSet(Microphysics)
  /\ \A a \in Archives :
       /\ a.acc \in [Accumulations -> [Steps -> Nat \union {Lost}]]
       /\ a.levels \in [Params -> [Steps -> SUBSET Levels]]
       /\ a.ground \subseteq Steps /\ a.heights \in BOOLEAN /\ a.start \in Levels
  /\ \A c \in Calls :                    \* config_for_model accepts no others
       /\ c.first \in Steps /\ c.last \in Steps /\ c.first <= c.last
       /\ c.size \in Nat \ {0}
       /\ c.prefetch \in BOOLEAN /\ c.resume \in BOOLEAN /\ c.check \in BOOLEAN

VARIABLES
  archive,  \* fields in the FDB
  call,     \* arguments of the current or last call
  main,     \* the calling process: stage, operations done, tries of the next, chunk, hour
  thread,   \* the prefetching thread: stage, chunk, operations done, tries, its RetryStats
  carried,  \* the accumulations the next amount is taken from
  stats,    \* retry_stats of the call
  made,     \* what really happened: attempts, retries and operations given up
  clamped,  \* data_quality: clamped negative differences
  out,      \* outputs on disk
  report,   \* what the call returned or raised
  calls, faults

vars == <<archive, call, main, thread, carried, stats, made, clamped, out, report, calls, faults>>

-----------------------------------------------------------------------------
(* The archive.                                                            *)

Retained(a) == a.start..FullLevels

\* The amount of an hour, given the accumulation before it (Absent: none).
Difference(current, previous) == IF previous = Absent THEN current ELSE current - previous

Amount(current, previous) ==
  IF Difference(current, previous) < 0 THEN 0 ELSE Difference(current, previous)

\* The output of every hour as the archive alone determines it.
Net(a, k, s) == IF s = 0 THEN a.acc[k][0] ELSE a.acc[k][s] - a.acc[k][s - 1]
Usable(a, s) ==
  /\ \A k \in Accumulations : {a.acc[k][t] : t \in {s, s - 1} \cap Steps} \subseteq Nat
  /\ s \in a.ground /\ a.heights
  /\ \A p \in Params : Retained(a) \subseteq a.levels[p][s]
References ==
  [a \in Archives |->
     [s \in Steps |-> IF Usable(a, s)
                      THEN [k \in Accumulations |-> IF Net(a, k, s) > 0 THEN Net(a, k, s) ELSE 0]
                      ELSE Lost]]
Reference(s) == References[archive][s]

\* _has_complete_param compares unions: all steps and all levels are listed,
\* but nobody asks whether every step has every level.
ListedSteps(p) == {s \in Steps : archive.levels[p][s] # {}}
ListedLevels(p) == UNION {archive.levels[p][s] : s \in Steps}
RunComplete ==
  LET hours == call.first..call.last
      before == (IF call.first = 0 THEN 0 ELSE call.first - 1)..call.last
  IN  /\ archive.heights
      /\ \A k \in Accumulations : \A s \in before : archive.acc[k][s] # Lost
      /\ hours \subseteq archive.ground
      /\ \A p \in Params : hours \subseteq ListedSteps(p) /\ Levels = ListedLevels(p)

-----------------------------------------------------------------------------
(* Chunks and the work of a stage.                                         *)

Chunks == (call.last - call.first) \div call.size + 1
ChunkStart(c) == call.first + (c - 1) * call.size

\* Chunks share their border hour.
ChunkEndShared(c) ==
  IF ChunkStart(c) + call.size < call.last THEN ChunkStart(c) + call.size ELSE call.last

ChunkEnd(c) ==
  IF ChunkStart(c) + call.size - 1 < call.last THEN ChunkStart(c) + call.size - 1 ELSE call.last

\* _process_chunk decodes every field of an hour, _stack_level_fields all retained levels.
Decodable(s) ==
  /\ \A k \in Accumulations : archive.acc[k][s] # Lost
  /\ s \in archive.ground
  /\ \A p \in Params : Retained(archive) \subseteq archive.levels[p][s]

\* The retried operations of a stage, and whether it has the fields it needs.
Task(n, fields) == [ops |-> n, fields |-> fields]

Work(stage) ==
  CASE stage = "check" -> Task(3 + Cardinality(Params) + Cardinality(Microphysics), RunComplete)
    [] stage = "heights" -> Task(1 + FullLevels + 1, archive.heights)
    [] stage = "previous" -> Task(2, archive.acc[TotalPrecip][call.first - 1] # Lost)
    [] stage = "previousIcon" ->
         Task(1 + Cardinality(Microphysics),
              \A k \in Microphysics : archive.acc[k][call.first - 1] # Lost)
    [] stage = "fetch" -> Task(IF Microphysics = {} THEN 3 ELSE 4, TRUE)
    [] stage = "decode" ->
         Task(Cardinality(Accumulations) + 1
                + Cardinality(Params) * Cardinality(Retained(archive)),
              Decodable(main.hour))

\* A missing field is met behind the request (main.ops > 0), except that the
\* hours of a chunk are looked up before the first decoding.
MissingFrom(stage) == IF stage = "check" THEN Work(stage).ops ELSE IF stage = "decode" THEN 0 ELSE 1

-----------------------------------------------------------------------------
(* RetryStats and the two actors.                                          *)

NoStats == [attempts |-> 0, retries |-> 0, exhausted |-> 0]
Plus(a, b) == [f \in DOMAIN a |-> a[f] + b[f]]
Tried == [NoStats EXCEPT !.attempts = 1]
TriedAgain == [Tried EXCEPT !.retries = 1]
GivenUp == [Tried EXCEPT !.exhausted = 1]

NoAmounts == [k \in Accumulations |-> Absent]
NoReport == [status |-> "none", reused |-> FALSE, clamped |-> 0, stats |-> NoStats, transient |-> FALSE]
Resting == [at |-> "idle", chunk |-> 0, ops |-> 0, tries |-> 0, stats |-> NoStats, transient |-> FALSE]

MainStages == {"check", "heights", "previous", "previousIcon", "fetch", "decode"}
Ended == {"finished", "failed", "killed"}
Hours(c) == c.first..c.last

At(stage) == main.at = stage
Goto(stage) == [main EXCEPT !.at = stage, !.ops = 0, !.tries = 0]
Working == main.at \in MainStages /\ main.ops < Work(main.at).ops
Stopped == main.at \in MainStages /\ ~Work(main.at).fields /\ main.ops >= MissingFrom(main.at)
Through(stage) == At(stage) /\ main.ops = Work(stage).ops /\ Work(stage).fields

Init ==
  /\ archive \in Archives /\ call \in Calls
  /\ main = [at |-> "killed", ops |-> 0, tries |-> 0, chunk |-> 1, hour |-> 0]
  /\ thread = Resting
  /\ carried = NoAmounts
  /\ stats = NoStats /\ made = NoStats /\ clamped = 0
  /\ out = [s \in Steps |-> Absent]
  /\ report = NoReport
  /\ calls = 0 /\ faults = 0

\* The run directory belongs to one call at a time (.cycle.lock).
Begin ==
  /\ main.at \in Ended /\ calls < MaxCalls
  /\ call' \in Calls
  /\ main' = [at |-> "resume", ops |-> 0, tries |-> 0, chunk |-> 1, hour |-> call'.first]
  /\ thread' = Resting
  /\ carried' = NoAmounts
  /\ stats' = NoStats /\ made' = NoStats /\ clamped' = 0
  /\ report' = NoReport
  /\ calls' = calls + 1 /\ faults' = 0
  /\ UNCHANGED <<archive, out>>

\* Verified outputs of earlier calls are reused only if all hours have one.
Resume ==
  /\ At("resume")
  /\ IF call.resume /\ \A s \in Hours(call) : out[s] # Absent
     THEN /\ main' = Goto("finished")
          /\ report' = [NoReport EXCEPT !.status = "ok", !.reused = TRUE]
     ELSE /\ main' = Goto(IF call.check THEN "check" ELSE "heights")
          /\ UNCHANGED report
  /\ UNCHANGED <<archive, call, thread, carried, stats, made, clamped, out, calls, faults>>

-----------------------------------------------------------------------------
(* _retry_operation, in the calling process and in the thread.             *)

Raise(transient, raised) ==
  /\ main' = Goto("raising")
  /\ report' = [report EXCEPT !.transient = transient,
                              !.stats = IF transient THEN raised ELSE NoStats]

OperationSucceeds ==
  /\ Working
  /\ main' = [main EXCEPT !.ops = @ + 1, !.tries = 0]
  /\ stats' = Plus(stats, Tried) /\ made' = Plus(made, Tried)
  /\ UNCHANGED <<archive, call, thread, carried, clamped, out, report, calls, faults>>

OperationFails ==
  /\ Working /\ faults < MaxFaults
  /\ faults' = faults + 1
  /\ IF main.tries < Retries
     THEN /\ main' = [main EXCEPT !.tries = @ + 1]
          /\ stats' = Plus(stats, TriedAgain) /\ made' = Plus(made, TriedAgain)
          /\ UNCHANGED report
     ELSE /\ stats' = Plus(stats, GivenUp) /\ made' = Plus(made, GivenUp)
          /\ Raise(TRUE, stats')
  /\ UNCHANGED <<archive, call, thread, carried, clamped, out, calls>>

\* FdbIncompleteError, a missing field or level, or a stream that breaks
\* while it is read: none of them is retried.
FieldsMissing ==
  /\ Stopped
  /\ Raise(FALSE, NoStats)
  /\ UNCHANGED <<archive, call, thread, carried, stats, made, clamped, out, calls, faults>>

StreamBreaks ==
  /\ main.at \in {"heights", "previous", "previousIcon", "fetch"}
  /\ main.ops = IF At("fetch") THEN Work("fetch").ops ELSE 1
  /\ faults < MaxFaults /\ faults' = faults + 1
  /\ Raise(FALSE, NoStats)
  /\ UNCHANGED <<archive, call, thread, carried, stats, made, clamped, out, calls>>

ThreadSucceeds ==
  /\ thread.at = "fetch" /\ thread.ops < Work("fetch").ops
  /\ thread' = [thread EXCEPT !.ops = @ + 1, !.tries = 0, !.stats = Plus(@, Tried)]
  /\ made' = Plus(made, Tried)
  /\ UNCHANGED <<archive, call, main, carried, stats, clamped, out, report, calls, faults>>

ThreadFails ==
  /\ thread.at = "fetch" /\ thread.ops < Work("fetch").ops
  /\ faults < MaxFaults /\ faults' = faults + 1
  /\ IF thread.tries < Retries
     THEN /\ thread' = [thread EXCEPT !.tries = @ + 1, !.stats = Plus(@, TriedAgain)]
          /\ made' = Plus(made, TriedAgain)
     ELSE /\ thread' = [thread EXCEPT !.at = "raised", !.transient = TRUE, !.stats = Plus(@, GivenUp)]
          /\ made' = Plus(made, GivenUp)
  /\ UNCHANGED <<archive, call, main, carried, stats, clamped, out, report, calls>>

ThreadStreamBreaks ==
  /\ thread.at = "fetch" /\ thread.ops = Work("fetch").ops
  /\ faults < MaxFaults /\ faults' = faults + 1
  /\ thread' = [thread EXCEPT !.at = "raised"]
  /\ UNCHANGED <<archive, call, main, carried, stats, made, clamped, out, report, calls>>

\* The chunk and a copy of its own RetryStats become the future's result.
ThreadReturns ==
  /\ thread.at = "fetch" /\ thread.ops = Work("fetch").ops
  /\ thread' = [thread EXCEPT !.at = "ready"]
  /\ UNCHANGED <<archive, call, main, carried, stats, made, clamped, out, report, calls, faults>>

-----------------------------------------------------------------------------
(* process_member_run, from the static fields to the last hour.            *)

Submit(c) == [Resting EXCEPT !.at = "fetch", !.chunk = c]

StartChunks ==
  IF call.prefetch THEN main' = Goto("await") /\ thread' = Submit(1)
                   ELSE main' = Goto("fetch") /\ UNCHANGED thread

Checked ==
  /\ Through("check")
  /\ main' = Goto("heights")
  /\ UNCHANGED <<archive, call, thread, carried, stats, made, clamped, out, report, calls, faults>>

\* Hour 0 has no accumulation before it.
HeightsRead ==
  /\ Through("heights")
  /\ IF call.first = 0 THEN StartChunks ELSE main' = Goto("previous") /\ UNCHANGED thread
  /\ UNCHANGED <<archive, call, carried, stats, made, clamped, out, report, calls, faults>>

PreviousRead ==
  /\ Through("previous")
  /\ carried' = [carried EXCEPT ![TotalPrecip] = archive.acc[TotalPrecip][call.first - 1]]
  /\ IF Microphysics = {} THEN StartChunks ELSE main' = Goto("previousIcon") /\ UNCHANGED thread
  /\ UNCHANGED <<archive, call, stats, made, clamped, out, report, calls, faults>>

PreviousIconRead ==
  /\ Through("previousIcon")
  /\ carried' = [k \in Accumulations |->
                   IF k \in Microphysics THEN archive.acc[k][call.first - 1] ELSE carried[k]]
  /\ StartChunks
  /\ UNCHANGED <<archive, call, stats, made, clamped, out, report, calls, faults>>

Fetched ==
  /\ Through("fetch")
  /\ main' = Goto("decode")
  /\ UNCHANGED <<archive, call, thread, carried, stats, made, clamped, out, report, calls, faults>>

\* The last chunk is followed by none.
Following == IF main.chunk < Chunks THEN Submit(main.chunk + 1) ELSE Resting

\* The chunk's own RetryStats are dropped.
TakeUncounted ==
  /\ At("await") /\ thread.at = "ready"
  /\ thread' = Following
  /\ main' = Goto("decode")
  /\ UNCHANGED <<archive, call, carried, stats, made, clamped, out, report, calls, faults>>

\* Nothing is submitted after the first chunk.
TakeOnly ==
  /\ At("await") /\ thread.at = "ready"
  /\ stats' = Plus(stats, thread.stats)
  /\ thread' = [thread EXCEPT !.at = "taken"]
  /\ main' = Goto("decode")
  /\ UNCHANGED <<archive, call, carried, made, clamped, out, report, calls, faults>>

\* future.result(): the next chunk is submitted before this one is processed.
Take ==
  /\ At("await") /\ thread.at = "ready"
  /\ stats' = Plus(stats, thread.stats)
  /\ thread' = Following
  /\ main' = Goto("decode")
  /\ UNCHANGED <<archive, call, carried, made, clamped, out, report, calls, faults>>

TakeException ==
  /\ At("await") /\ thread.at = "raised"
  /\ thread' = Resting
  /\ Raise(thread.transient, thread.stats)
  /\ UNCHANGED <<archive, call, carried, stats, made, clamped, out, calls, faults>>

Amounts(s) == [k \in Accumulations |-> Amount(archive.acc[k][s], carried[k])]

\* Only decreases of the total are counted.
DecreasedTotal(s) ==
  {k \in {TotalPrecip} : Difference(archive.acc[k][s], carried[k]) < 0}

Decreased(s) == {k \in Accumulations : Difference(archive.acc[k][s], carried[k]) < 0}

\* A decreased accumulation is not carried on.
CarriedOnHighest(s) ==
  [k \in Accumulations |-> IF k \in Decreased(s) THEN carried[k] ELSE archive.acc[k][s]]

\* The next amount is taken from what was decoded, not from what was published.
CarriedOn(s) == [k \in Accumulations |-> archive.acc[k][s]]

WriteHour ==
  LET s == main.hour
      complete == s = call.last
      quality == clamped + Cardinality(Decreased(s))
  IN
  /\ Through("decode")
  /\ out' = [out EXCEPT ![s] = Amounts(s)]
  /\ clamped' = quality
  /\ carried' = CarriedOn(s)
  /\ main' = IF complete THEN Goto("finished")
             ELSE IF s < ChunkEnd(main.chunk) THEN [Goto("decode") EXCEPT !.hour = s + 1]
             ELSE [Goto(IF call.prefetch THEN "await" ELSE "fetch")
                     EXCEPT !.chunk = @ + 1, !.hour = ChunkStart(main.chunk + 1)]
  /\ report' = IF complete THEN [NoReport EXCEPT !.status = "ok", !.stats = stats, !.clamped = quality]
               ELSE report
  /\ UNCHANGED <<archive, call, thread, stats, made, calls, faults>>

\* The grid is refused, or the file cannot be written.
WriteFails ==
  /\ Through("decode")
  /\ faults < MaxFaults /\ faults' = faults + 1
  /\ Raise(FALSE, NoStats)
  /\ UNCHANGED <<archive, call, thread, carried, stats, made, clamped, out, calls>>

\* The exception leaves the thread behind.
RaisedUnjoined ==
  /\ At("raising")
  /\ main' = Goto("failed")
  /\ report' = [report EXCEPT !.status = "failed"]
  /\ UNCHANGED <<archive, call, thread, carried, stats, made, clamped, out, calls, faults>>

\* Leaving the executor's with-block waits for the chunk being fetched.
Raised ==
  /\ At("raising") /\ thread.at # "fetch"
  /\ main' = Goto("failed") /\ thread' = Resting
  /\ report' = [report EXCEPT !.status = "failed"]
  /\ UNCHANGED <<archive, call, carried, stats, made, clamped, out, calls, faults>>

Kill ==
  /\ main.at \notin Ended
  /\ main' = Goto("killed") /\ thread' = Resting
  /\ UNCHANGED <<archive, call, carried, stats, made, clamped, out, report, calls, faults>>

MainStep ==
  \/ Resume \/ OperationSucceeds \/ OperationFails \/ FieldsMissing \/ StreamBreaks
  \/ Checked \/ HeightsRead \/ PreviousRead \/ PreviousIconRead
  \/ Fetched \/ Take \/ TakeException \/ WriteHour \/ WriteFails \/ Raised

ThreadStep == ThreadSucceeds \/ ThreadFails \/ ThreadStreamBreaks \/ ThreadReturns

Next == Begin \/ MainStep \/ ThreadStep \/ Kill

\* Both are running threads of one process; nobody has to call it or kill it.
Spec == Init /\ [][Next]_vars /\ WF_vars(MainStep) /\ WF_vars(ThreadStep)

-----------------------------------------------------------------------------
(* Properties.                                                             *)

RetryCounts == [attempts : Nat, retries : Nat, exhausted : Nat]

PipelineTypeOK ==
  /\ archive \in Archives /\ call \in Calls
  /\ main \in [at : MainStages \union Ended \union {"resume", "await", "raising"},
               ops : Nat, tries : Nat, chunk : Nat \ {0}, hour : Int]
  /\ thread \in [at : {"idle", "fetch", "ready", "raised"}, chunk : Nat, ops : Nat, tries : Nat,
                 stats : RetryCounts, transient : BOOLEAN]
  /\ carried \in [Accumulations -> Nat \union {Absent}]
  /\ stats \in RetryCounts /\ made \in RetryCounts
  /\ out \in [Steps -> {Absent} \union [Accumulations -> Nat]]
  /\ report \in [status : {"none", "ok", "failed"}, reused : BOOLEAN, clamped : Nat,
                 stats : RetryCounts, transient : BOOLEAN]
  /\ clamped \in Nat /\ calls \in Nat /\ faults \in Nat

(* Whatever the chunks, the thread, the first hour of a call and the       *)
(* faults and kills before it, an output is what the archive alone         *)
(* determines for that hour: the clamped difference to the hour before, of *)
(* every accumulation, and nothing at all when a field or a retained level *)
(* is missing, which the completeness check may not notice                 *)
(* (_process_chunk, process_member_run, _stack_level_fields).              *)
OutputsAreReference == \A s \in Steps : out[s] # Absent => out[s] = Reference(s)

(* The RetryStats a call returns count every attempt it really made,       *)
(* including those of the prefetching thread, and none was given up.       *)
(* A failed call that ran out of retries says so.                          *)
RetriesAreCounted ==
  /\ report.status = "ok" => report.stats = made /\ made.exhausted = 0
  /\ report.status = "failed" /\ report.transient => report.stats.exhausted = 1

(* data_quality counts each accumulation that decreased from one hour to   *)
(* the next exactly once, across chunk borders and the start of the call.  *)
ClampsAreCounted ==
  report.status = "ok" /\ ~report.reused =>
    report.clamped = Cardinality({p \in Accumulations \X Hours(call) : Net(archive, p[1], p[2]) < 0})

(* The thread fetches the chunk that is processed next and no other, and   *)
(* is never left behind by a call that returned or raised.                 *)
PrefetchIsContained ==
  /\ thread.at # "idle" /\ main.at # "raising" =>
       thread.chunk = IF main.at = "await" THEN main.chunk ELSE main.chunk + 1
  /\ main.at \in Ended => thread.at = "idle"

(* A call ends: neither retries, nor a future nobody completes, nor the    *)
(* executor being left keep it for ever.                                   *)
CallEnds == At("resume") ~> main.at \in Ended

(* The pipeline implements the plain member: hour after hour, in order,    *)
(* each once per call.                                                     *)
Promised == [s \in Steps |-> Reference(s)]
Todo == [next |-> IF report.status = "ok" /\ ~report.reused THEN call.last + 1 ELSE main.hour,
         last |-> call.last]
Outcome == IF main.at \in {"failed", "killed"} THEN "failed"
           ELSE IF main.at = "finished" THEN "ok" ELSE "none"

Member == INSTANCE MemberPromise WITH reference <- Promised, todo <- Todo, outcome <- Outcome

KeepsMemberPromise == Member!Spec
=============================================================================
