# TLA+ models of precip_type_diag

TLA+ specifications, TLC model checks and TLAPS proofs of the parts of
`src/src/precip_type_diag` whose correctness depends on the order of steps: who
publishes into a directory, which file is written before which, what is left
behind by a failure or a kill, and what a later invocation makes of it; and of
its algorithms: the column diagnostics with their compiled twins, the hourly
amounts of a member, and the statistics and event catalogues of an analysis.
Below, file names without a directory are in `src/src/precip_type_diag`.

The control flow of the meteorology (layers, signs, areas, the choice of a type)
is modelled over integers; the floating-point functions in it are tables. In the
models of the runs and campaigns an output is only *which* inputs it was computed
from.

## 1. The system

| component | code | state it keeps | operations |
|---|---|---|---|
| cycle run | `operational.py` `run_operational` and below | a cycle directory: `.cycle.lock`, `CONTRACT.json`, member outputs, `RUNNING/DONE/FAILED.json`, `summary.json`, `monitoring.json` | one invocation, its process pool, its error wrapper |
| probability publication | `probabilities.py` | `probabilities/`, a temporary and a hidden backup directory beside it | strict preflight, stage every hour, swap by two renames |
| monitoring verdict | `monitoring.py` | none | judges summary and disk |
| member pipeline | `operational.py` `process_member_run`, `_fetch_chunk`, `_process_chunk` | one prefetched chunk, accumulated amounts | fetch in a thread while processing |
| FDB retry, discovery | `operational.py` `_retry_operation`, `discover_complete_run` | retry statistics | retry with back-off; compare listings |
| realtime orchestration | `realtime.py` `run_progressive_cycle` | `CYCLE.json`, `.progressive.lock` | verify what is published, probe the input, run the difference, record |
| backfill inventory | `backfill.py` `build_backfill_manifest` | manifest, job script, inventory checkpoint | plan a campaign year by year |
| backfill campaign | `backfill.py` `run_manifest_task` | monthly archives, task receipts, attempts | one task per month, status |
| analysis task | `analysis.py` `run_analysis_task` | hourly counts, statistics, compact archive and receipt of a month | one invocation per month under a lock |
| promotion and retirement | `analysis.py` `promote_compact_archive` | `COMPACT_ARCHIVE_PROMOTION.json` and `SOURCE_RETIREMENT.json`, each in two roots | validate, seal, delete the source, record |
| analysis reduction | `analysis.py` `reduce_analysis` | climatologies, event catalogues, `REDUCTION.json` | merge months, cut events |
| regional analysis | `regional_analysis.py` | the same per region | task, reduce, status |
| diagnosis | `profile.py`, `icon_profile.py`, their numba twins, `grid.py` | none | classify columns: a scalar reference and a kernel for each mode; chunks of active columns |
| files | `gribio.py`, `netcdfio.py` | none | encode; write a temporary file, `os.replace` |
| provenance, command line, Slurm scripts, GRIB tables | `provenance.py`, `__main__.py`, `src/tools`, `constants.py` | none | start the invocations above |

How they interact: everything goes through the file system. `realtime` calls
`run_operational` in its own process; `backfill` does so for each cycle of a
month and then assembles the month; an analysis task reads the monthly archive
of the backfill; a promotion reads what analysis tasks left and deletes what
the backfill left; reductions read the compact archives. Exclusion is by
`flock` on a file per cycle, per realtime cycle and per monthly task, and there
is none for promotions and reductions. Worker processes are forked, so they
share the open file description of their parent's lock and keep it when the
parent is killed; but the explicit `LOCK_UN` of a parent that releases
(`operational.py:239`) frees it for them too, even while they work.

What is hard in it:

* **crashes**: nothing is transactional across two files. Each of the modelled
  parts writes between three and eight files per invocation in a fixed order,
  and the next invocation must understand every prefix of it;
* **interleaving**: Slurm arrays, cron jobs and people start invocations of
  the same kind, and of different kinds, on the same directories;
* **stale state**: a file checked before a long computation is acted on after
  it (hours verified as published, a source month validated for deletion), and a
  file checked through an open handle is measured, or deleted, by its name;
* **partial failure**: some members, some hours, the second of two renames,
  the second of two evidence files;
* **unreliable input**: forecast hours become visible member by member, in any
  order, and retrievals fail.

Correctness per component:

* *cycle run*: one holder of the lock per directory, and nothing is published but
  by the holder and by workers whose drain was interrupted; one contract per
  directory; `DONE.json` means the outputs and probabilities it was asked for are
  on disk, made of each other, reported and judged ok, and stay so until it is
  withdrawn, as far as no such worker replaces an output;
* *probability publication*: no published hour is ever lost;
* *realtime*: `CYCLE.json` never claims more than is published, never asks for
  input that is not there, and recovers from everything by itself;
* *promotion*: no month is deleted unless its compact archive holds exactly
  what is deleted, for ever after, unless it was published between a check and
  what the check was for; the evidence is true; an interrupted retirement can be
  completed;
* *backfill*: an archive is exactly the month's days, whatever attempts and
  campaigns worked on it, and receipts are true;
* *inventory*: a planned day was in the archive in every required field while
  it was queried, a manifest counts its attempts, and is never published with
  another plan's job script;
* *member pipeline*: an hour's output is what the archive determines for it,
  whatever the chunks, the thread and the calls before; retries and clamped
  differences are all counted; every call ends;
* *reduction, regional analysis*: every hour is counted once, in the month,
  season and year it is valid in; events are the maximal runs of affected
  hours; what the verifying status accepts comes from one reduction;
* *diagnosis*: the kernels publish what the scalar references say; areas
  alternate; a type fits the surface; every active column has a type.

## 2. Modules

| module | models |
|---|---|
| `OperationalRun` | `run_operational`, its members, `probabilities.py`, `monitoring.py`, all invocations on one cycle directory |
| `CyclePromise` | what a reader of a cycle directory may rely on; `OperationalRun` implements it |
| `RealtimeCycle` | `run_progressive_cycle` EXTENDING (and so composed with) the whole of `OperationalRun` |
| `RealtimeCycle_proofs` | theorems about `OperationalRun` and `RealtimeCycle` |
| `CompactArchive` | `run_analysis_task` and `promote_compact_archive` on one campaign |
| `CompactArchive_proofs` | theorems about `CompactArchive` |
| `Backfill` | `run_manifest_task` for one month, by any number of attempts and campaigns on one archive root |
| `Backfill_proofs` | theorems about `Backfill` |
| `Inventory`, `Inventory_proofs` | `build_backfill_manifest` and the `plan` command around it |
| `MemberPipeline`, `MemberPipeline_proofs` | `process_member_run` with its prefetching thread and retries, all calls on one member directory |
| `MemberPromise` | a member without chunks, threads and retries; `MemberPipeline` implements it |
| `Firdewsa`, `IconDiagnosis` | the two column diagnostics, each as scalar reference and as single-pass kernel |
| `GridDiagnosis` | `grid.py` over the two: quality report, refusals, chunks |
| `GridDiagnosis_proofs` | theorems about `GridDiagnosis` and its kernels |
| `AnalysisReduction` | monthly statistics, `reduce_analysis`, `analysis_status` |
| `RegionalAnalysis` | the regional campaign EXTENDING (and so composed with) `AnalysisReduction` |
| `RegionalAnalysis_proofs` | theorems about `AnalysisReduction` and `RegionalAnalysis` |
| `WellOrder` | least and greatest elements and induction over sets of naturals, residues and sums, for the proofs |
| `MC*` | values of the constants for TLC |

What composes what: `RealtimeCycle` contains `OperationalRun` as a whole,
`RegionalAnalysis` contains `AnalysisReduction`, `GridDiagnosis` contains
`IconDiagnosis` and `Firdewsa`. Between the others a component is replaced by
what its own model establishes: `OperationalRun` sees a member as the hours it
has written (`MemberPipeline`), that one as the amounts an hour is diagnosed from
(`GridDiagnosis`), `Backfill` a day as one run (`CyclePromise`), and
`AnalysisReduction` a month as one complete task (`CompactArchive`).

Each state module has, in this order: constants with named assumptions,
variables, helpers, *faulty variants* of some actions, the actions, the
specification, the properties, and the inductive invariant of the proofs. A
faulty variant is a plausible mistake (a guard forgotten, a marker not
withdrawn); it is not part of the specification. `PROJECT.json` says which
property must fail when the variant replaces the action, which is how we know
that each property can fail at all.

### 2.1 OperationalRun

A file is modelled by the invocation that wrote it (`Absent` when missing,
`Legacy` when it predates `CONTRACT.json`), because every question about it is
"whose is it". `file[m][s]` is the output of member m at hour s; `prob[s]` is,
per member, the output that went into the probabilities of hour s. `unwritten`
and `unstaged` are what a worker, or the staging, still has to do: hours are
processed in order. `unlocked` is a history: the outputs last written by a worker
whose invocation had released the lock.

Writes are "temporary file, then `os.replace`", so one write is one step. The
publication of `probabilities/` is not: `os.replace(final, backup)` and
`os.replace(tmp, final)` (`probabilities.py:356-368`) are `SwapOut` and
`SwapIn`, and a kill may fall in between.

`pc[p]` names the statement an invocation is about to execute; the actions
follow the body of `run_operational` from top to bottom:

| stage | action | code |
|---|---|---|
| `start` | `Acquire`, `GiveUp` | `CycleLock.acquire`, non-blocking |
| `contract` | `EnsureContract` | `_ensure_run_contract`: compare, or create if there are no outputs |
| `retractDone` .. `announce` | `RetractDone`, `RetractFailed`, `Announce` | unlink old markers, write `RUNNING.json` |
| `members` | `StartMember`, `WriteOutput`, `FinishMember`, `FailMember`, `BreakPool`, `MembersDone` | pool of `max_workers`, or the loop for one worker; resume skips members whose outputs all validate |
| `preflight` .. `cleanup` | `Preflight`, `StageHour`, `StagingDone`, `SwapOut`, `SwapIn`, `SwapInFails`, `Restore`, `ProbabilityFails`, `RemoveBackup` | `generate_probability_products` |
| `monitor` .. `clear` | `Monitor`, `WriteSummary`, `WriteMonitoring`, `WriteMarker`, `RetractOther`, `ClearRunning` | the end of `run_operational` |
| `drain` | `Drained`, `InterruptDrain` | `ProcessPoolExecutor.__exit__` joins the workers, unless a second interrupt ends the join |
| `abort` .. `release` | `RaiseUnmarked`, `RaiseMarked`, `Abort*`, `Release` | `_finalize_failed_run_marker` and its own failures; `CycleLock.release` |
| `orphaned` | `Crash`, `OrphanWorkers` | a kill: the lock is freed, or stays with the workers |
| `abandoned` | `Release`, `KillLateWorkers` | the lock was released under workers that go on |

An interrupt may come in the pool loop and again while the pool is drained. The
first leads to `drain`. The second ends the join and nothing else: the members
that are active or queued stay with the workers, the error wrapper writes its
markers, and `Release` frees the lock for everybody who shares its open file
description. `StartMember`, `WriteOutput`, `FinishMember` and `FailMember` ask for
open tasks and not for a stage, so the workers go on in `abort` .. `release`, in
`orphaned` and in `abandoned`, beside whatever invocation comes next. Outputs
they write in `abandoned` are recorded in `unlocked`, and what `DONE.json` promises
(`Satisfied`) excepts exactly those; finding 3 says what the exception costs.

`Signature` is what an output file records of its mode. Two modes that differ
only in what the file does not record (the precipitation mask) share one, and
then resume cannot tell them apart: this is why the contract matters.

### 2.2 RealtimeCycle

An orchestrator and its nested `run_operational` are one element of `Runs`;
`stage[p]` is where the outer call is, and while it is `"nested"` the steps of
`OperationalRun` are the steps of p. Elements of `Runs` outside `Orchestrators`
are `run_operational` calls made by hand. `Archive(m, s)` is the arrival of an
hour of a member in FDB, in any order; a member can only write an hour whose
input, and that of the hour before, has arrived (`InputRead`). `Proved` is
`_state_completed_through`: the progress `CYCLE.json` records counts only if
the files are there, otherwise the cycle is done again from its first hour.
A kill of an orchestrator frees `.progressive.lock` unless forked workers
still hold it; workers that an interrupted drain left behind go on in any later
stage of the call (`Operational`), and when the nested call has released the cycle
lock under them its exception is the orchestrator's (`NestedRaises`). `cycle.covered` is the set of hours of the increments listed
with `ok` in `CYCLE.json`.

### 2.3 CompactArchive

A file is the version of the source month it was made of. Its SHA-256, its decoded
digest and its mtime identify that version; its byte size (`Size`) need not, since
a month published again may well have as many bytes. `Replace` is a rerun of the
backfill publishing a month again with other bytes, between any two accesses
of a promotion or task (it does not recreate a deleted one: see "not modelled").

`Task*` and `Write*` are `run_analysis_task`: under the month's lock, a
verified receipt ends the task; otherwise hourly counts, statistics, compact
archive and receipt are published one after the other from the version that
was opened; any exception writes a critical receipt. `_receipt_complete`
answers `False` to any error it meets, so a task may also misjudge a complete
month (`TaskMisjudges`) and analyse it again.

The actions of a promotion follow `promote_compact_archive`: take over or
start a promotion, check the inventory, validate months in order, seal in the
campaign root and then the output root (each "look, then write":
`CheckImmutable`, `WriteSeal`), delete month by month, then the archive contract,
then the retirement record in both roots. A promotion takes no lock; any number
may overlap.

What the code does in separate system calls is separate here, because minutes may
pass in between. A month is validated in four steps: `ReadEvidence` (receipt and
outputs agree), `OpenSource` (the version that is *opened* is the one that is
hashed), `MeasureSource` and `DateSource` (size, then mtime, of whatever has the
*name* by then; `analysis.py:576-577`). So an entry is a pair of an archive and an
mtime, which may be of two versions. A month is deleted in two or three:
`CheckMonth` compares the size and, if the mtime is as sealed, asks no more;
otherwise `HashMonth`; then `UnlinkMonth` deletes what has the name
(`analysis.py:1243-1248`). `raced` is a history of the versions published inside
these windows, between the opening of a source and its mtime, and between its check
and its deletion. The properties except those versions and no others; finding 4
says what the exception costs.

Two comparisons that nothing in the model could make fail are present only as
`PromoterRaises`: that of the archive contract with its sealed evidence before it is
unlinked (1251-1255), and that of the reduction products with their receipt
(`_validate_reduction_products`, 1071).

### 2.4 Backfill

A path names an inode and an open file keeps its inode, because the hidden
`.partial` file beside the archive is shared by every campaign on the root while
each campaign locks only its own control directory: `partial` and `archive` are
the inodes the two names stand for, `handle[t]` the one an invocation has open,
`content` what they hold, per day the invocation that produced it. `open("wb")`
truncates what it finds; inspection, rename and the unlink of the except branch
go by name. The actions follow `run_manifest_task`: the archive contract (looked
for, then written), an archive that is already whole (`InspectExisting`,
`HashExisting`, `Vouch`), otherwise the days in order, the inspection of the
whole, the rename, the receipt. A day is one step: `run_operational` in a fresh
temporary directory, verified through `DONE.json`, which is what
`CyclePromise` promises. The REA model has one member, hence no process pool
and no orphaned workers.

### 2.5 Inventory

One call of the `plan` command at a time. `known` is the checkpoint in memory,
`query[f]` what the worker of field f has, `plan` the days and attempts of the
years gone through, `left` the others. Years go in order: one the checkpoint has
is resumed (`ResumeYear`), any other is queried, a worker per field, each with
its own retries; `EndYear` intersects the fields and replaces the checkpoint.
Then manifest, job script and removal of the checkpoint, one file after the
other. `window` is a history: for each year and field, the days that were there
all the time and at some time while it was being queried. `Change` is the
archive gaining or losing a day.

### 2.6 MemberPipeline

`main` is the calling process, at a stage of `process_member_run` with a number of
operations done; `thread` is the executor's only worker. `Work(stage)` is the
number of retried operations of the stage (listings, requests, decodings) and
whether the fields it needs are there; each operation succeeds, fails and is
tried again, or is given up (`_retry_operation`). Streams that break and fields
that are missing are not retried. `Take` is `future.result()` followed by the
submission of the next chunk, `Raised` the end of the executor's `with` block,
which waits for the thread. `WriteHour` is an hour of `_process_chunk`. An
output stands for the amounts it was diagnosed from. `made` counts what really
happened and is compared with the `RetryStats` of the report.

### 2.7 Firdewsa, IconDiagnosis, GridDiagnosis

A scalar reference is written by what its loops compute: sets of levels, runs of
one sign, sums. A kernel is written as the fold its loop is, with the state the
loop carries, because that is where the twins can differ (the last segment, the
first level above the cutoff, a dropped area). Heights, wet-bulb temperatures and
energies are integers; `ProbIceOf`, `SnowIce`, `LayeredSnowIce`, `LogMelt` are tables for the
polynomial, the exponential with its two coefficients (-0.29 and, with more than one
area, -0.28) and the logarithm. `GridDiagnosis` is the entry point
of `grid.py`: it counts unusable cells, refuses the grid or gathers active columns
into chunks for a kernel and scatters the results. `pending` is the rest of the
array of active indices; a chunk is the first `ChunkSize` of them.

### 2.8 AnalysisReduction, RegionalAnalysis

Time is counted in hours from the first cycle. A monthly task leaves the counts
and hours of its cycles by valid month, so the last step of a month belongs to
the next one. `Merge`, `Flush` and `Finalize` put valid months together into
months, seasons, years and the full period, with counters that wrap at
`CountLimit` as the 16-bit arrays do; `Scan` goes over the hours and cuts events.
The products are published one by one, `REDUCTION.json` last (`Seal`), and a call
may be killed between any two and made again. `Verified` is the verifying
`analysis_status`.

The regional campaign decodes each compact archive a second time, compares
it with what the canonical receipt sealed, and publishes a shard and a receipt
per month; the reduction merges the shards and publishes three catalogues. A
compact archive may be damaged at any time (`Damage`).

## 3. What TLC checks

`Fallible` (in `RealtimeCycle`, `CompactArchive`, `Backfill`) is the set of invocations that
may meet a fault or a kill. In reality it is everybody; safety runs without a
liveness property use that. A liveness property of the form "an undisturbed
call succeeds" needs one invocation outside it. `DryRuns` in `CompactArchive` are
the promotions that may be called without `--delete-source`, in reality all.

| run | expects | question |
|---|---|---|
| `cycle_strict` | pass | Two invocations (increment, other increment, forced rerun of both hours), two members, two hours, two workers, probabilities; every fault and kill. `DoneIsComplete`, `DoneMatchesReports`: what `DONE.json` promises is on disk and reported. `NoHourLost`: through every swap, failed swap and kill, an hour once published is in `probabilities/` or in the hidden backup. `KeepsPromise`: refinement of `CyclePromise`, in which what `DONE.json` promises stays true while it stands. |
| `cycle_mixed` | pass | Two contracts with the same file signature, a member subset, forced regeneration, files that predate the contract. `OnlyHolderPublishes`: whatever changes in the directory is the doing of the one invocation that holds the lock, orphaned workers included, or an output of a worker that an interrupted drain left behind. `OutputsFollowContract`, `MarkersDisagreeOnlyInAbort`, and, under fairness, `EveryRunEnds`. |
| `realtime_forward` | pass | Four calls, three hours, every fault and kill. `CoveredByIncrements` and `ClaimsWhatIsPublished`: what `CYCLE.json` counts is published at the moment it is written and belongs to a recorded ok increment. |
| `realtime_ensemble` | pass | Two calls with either algorithm, the first with faults, two members, a pool. `NeverAheadOfInput`, `OneOrchestrator`, `CycleFollowsContract`, and `UndisturbedCallCompletes`: whatever happened before, a call that is left alone finishes the cycle. |
| `retirement` | pass | Two months, one of which the backfill replaces twice, once by a version of the same size; two tasks that may start at any moment, a promotion with faults and one without. `CompactOutlivesSource`, `RetiredMeansGone`, and `RetirementContinues`: until a retirement record exists every interruption is recoverable, unless a month is replaced meanwhile. |
| `backfill` | pass | Three attempts at a month of two days, two of them with every fault and kill, and a task of a campaign with another algorithm on the same root. `ArchiveFollowsContract`: the archive is absent or a whole month of the contract. `PublishedStays`: it never disappears and nobody still writes to it. `ReceiptsAreTrue`: an ok receipt describes, to the checksum, the archive on disk when it is written. `UndisturbedTaskCompletes`. |
| `inventory` | pass | Three plans with four command lines (two algorithms, two ranges, strict or not) over two years, an archive that changes once, three failed queries, refused answers or kills. `PlanIsSound`, `PlanCountsItsAttempts`, `NoCheckpointMeansPublished`. |
| `pipeline` | pass | Two calls of a member in ICON mode, five ways to call it (first hour, chunk size, prefetch, resume, check), seven archives: complete, decreasing, and with a field or level missing; a retry, three faults and a kill in each call. `OutputsAreReference`, `RetriesAreCounted`, `ClampsAreCounted`, `PrefetchIsContained`, `CallEnds`, and `KeepsMemberPromise`: refinement of `MemberPromise`. |
| `diagnosis` | pass | 16 000 grids, each in both modes: all wet-bulb profiles of seven levels over three height profiles (thick and thin layers, one crossing the cutoff), all layer structures of five levels, all surface rates of the instance, and grids of three columns with unusable ones. `ProductionMatchesReference`, `TypeFitsSurface`, `AreasAlternate`, `CrossingsAreDefined`, `IconClassifiesEveryActiveColumn`. |
| `reduction` | pass | Four manifests (complete, a missing day, a missing month, a late start) over five days in four months and two years, two reductions killed anywhere, then a regional campaign with a damaged archive and a failed task. `FrequenciesMatchHours`, `EventsAreMaximalRuns`, `AcceptedIsOneReduction`, `RegionalEventsAreMaximalRuns`, `RegionalEventsAreWithinDomain`. |
| `retirement_stuck` | violation | finding 1 |
| `diagnosis_unclassified` | violation | finding 2 |

Bounds. Two invocations are enough for every pairwise race of the cycle lock
and for every "attempt after a broken attempt"; `realtime_forward` has four
calls so that a broken increment can be followed by another and by a recovery,
and three hours so that a gap can be in the middle. Two members are the
fewest for which one succeeds and one fails. Two hours are the fewest for
which an increment extends published probabilities. Two months show an
interrupted deletion with one month on each side. Three versions show
a source replaced inside a window by one of the same size and again by one of another
size. Two tasks show one that
was interrupted, or overtaken by a replacement, and one after it. Three attempts at a month show a broken attempt after a broken
attempt and the recovery from both; two days show a partial month.
In `inventory` three plans are one that leaves a checkpoint, one that resumes it
and one after that; two years are the fewest for which one is resumed and one
queried. In `pipeline` two calls show one that finds outputs of another; four
hours in chunks of two show a chunk border with a chunk before and after it, and
three faults exhaust the one retry and leave one for the other thread. In
`diagnosis` seven levels make three areas with two levels each. In `reduction`
two hours a cycle put one of them into the next day, and five days cross a month,
a season and a year.

The caps, by name: `MaxPlans`, `MaxFaults`, `MaxChanges` (`Inventory`), `MaxCalls`,
`MaxFaults` (`MemberPipeline`), `MaxRuns`, `MaxDamages`, `MaxTasks` (reduction).
`CountLimit` is not a cap but the 2^16 of the counters, 7 in the run: months,
seasons and years are claimed exact only as long as their hours stay below it.
In a campaign of 30 years a season has more hours than that (`analysis.py:1466`);
the documented one of 2005 to 2025 has about 46 000.
The other modules have no counters: invocations are a finite set.

State-space reductions, and why they are sound:

* `SYMMETRY RunSymmetry`/`MCRunSymmetry`: invocations are only compared with
  each other. Used only in runs without a liveness property.
* `VIEW PromiseView` (`cycle_strict`) and `VIEW MixedView` (`cycle_mixed`): no action
  reads `RUNNING.json`, `FAILED.json`, a report, `unlocked`, or the locals of an
  invocation that has ended and left no worker. Each view keeps those of them that
  the run's properties read in the state before a step: the first the reports,
  `unlocked`, and of the verdicts that of the promised run, the second the markers
  `DONE.json` and `FAILED.json`. `OnlyHolderPublishes` names what the second drops only to say
  that it is unchanged or the holder's, whatever it was.
* `VIEW WhatMatters` in `MCRealtimeCycle`: drops the reports and markers, which
  no action of the module reads and none of the run's properties names, and the
  locals of invocations that are over and have left no worker. In `MCCompactArchive` it drops the
  locals of promotions and tasks that are over, and what a task has read once
  it can no longer write it.
* `ArrivalsAtProbe`: the input is looked at in one action, `ProbeInput`, and
  only grows, so an arrival at any other moment commutes with the steps up to
  the next probe.
* `TasksOnReplaceable` (`retirement`): the tasks are about the month that is
  replaced. Tasks of different months share no file but the evidence, which they only
  read. The run has no promotion without `--delete-source`: one that is killed or
  fails at its audit leaves the same.
* `PromotionsInTurn` (`retirement` only): a promotion starts when no other is
  running. This one *is* a restriction: promotion is a command an operator
  types. `RetiredMeansGone` is claimed only for it. Without it TLC finds a
  retirement record under a promotion that does not describe what was deleted:
  one promotion finds no seal and pauses, the month is replaced and analysed
  again, a second promotion validates the new version; both write the campaign
  seal, both find no output seal, the second writes its own and the first writes
  over it, and the second deletes and records.
  `CompactOutlivesSource` does not need turns and is proved without.
* `VIEW WhatMatters` in `MCBackfill`: drops the locals of invocations that are
  over and inodes that nobody can reach any more.
* `CampaignsTakeTurns` (`backfill`) *is* a restriction: until the archive contract
  exists, an invocation starts only when those of other campaigns have ended. Two
  campaigns that both find no contract both write one, and `ArchiveFollowsContract`
  would fail: `_ensure_archive_contract` is not atomic. Once there is a contract they
  overlap freely. Two campaigns with *equal* manifests on one root share `.partial`
  without any lock; the checked instance has none (`DistinctContracts`).
* One at a time: planners of a campaign, reductions of a campaign, regional
  tasks; and a region is planned when the canonical campaign is reduced and left
  alone. The first two are commands an operator types and take no lock. Regional
  tasks of different months share no file. Nobody removes the inventory
  checkpoint by hand.

Fairness. `FairSpec` and `RealtimeFairSpec` assume weak fairness of each
invocation's own next step: a process that is not killed keeps being
scheduled. Nothing is assumed about faults (they may or may not happen), about
arrivals of input, or about a person restarting anything. In `MemberPipeline` the
caller and the thread are two schedulable threads of one process
(`WF_vars(MainStep)`, `WF_vars(ThreadStep)`), and `CallEnds` says that neither can
wait for the other for ever. The conclusions are bounded accordingly: `EveryRunEnds` allows that orphaned or abandoned workers remain, and
`UndisturbedCallCompletes` starts from a state in which all input is there and
nobody else is at work.

## 4. What is proved

The theorems hold for every finite or infinite set of invocations, members,
hours, modes, months, days, versions, manifests, weathers and regions that satisfies the named assumptions
(`RunsAssumption`, `RangesAssumption`, `RequestsAssumption`, `RealtimeAssumption`,
`IncrementsAssumption`, `ArchiveAssumption`, `BackfillAssumption`,
`InventoryAssumption`, `PipelineAssumption`, `ReductionAssumption`, `CalendarAssumption`,
`RegionalAssumption`, `UnitsAssumption`, `IconAssumption`, `GridAssumption`: sentinels are distinct from data, hours
are naturals, requests are those `config_for_model` accepts, an orchestrator's
increments are among them, the days and months of a manifest are sorted, months follow
each other in the calendar, a manifest has a day and the calendar one day more, a year
has fewer hours (8784) than 16 bits hold, a region is a part of a finite domain, the
fields of a column have its levels). Before each proof TLC checked its inductive invariant
as an invariant of the component's run.

| module | theorem | states |
|---|---|---|
| `RealtimeCycle_proofs` | `TypeCorrect` | the type invariant |
| | `HolderPublishes` | `OnlyHolderPublishes` |
| | `ContractSeparatesOutputs` | `OutputsFollowContract` |
| | `DonePromisesOutputs` | `DoneIsComplete` |
| | `DoneAgreesWithReports` | `DoneMatchesReports` |
| | `MarkersAgree` | `MarkersDisagreeOnlyInAbort` |
| | `PromiseStands` | while `DONE.json` stands no probability changes, and no output but by workers of an interrupted drain |
| | `HoursAreKept` | `NoHourLost` |
| | `CycleImplementsPromise` | `KeepsPromise`, the refinement of `CyclePromise` |
| | `OrchestratorsExclude` | `OneOrchestrator` |
| | `InputPrecedesCall` | `NeverAheadOfInput` |
| | `CountedHoursAreCovered` | `CoveredByIncrements` |
| | `CountedUnderContract` | `CycleFollowsContract` |
| | `ClaimsHold` | `ClaimsWhatIsPublished`, if no run is made by hand |
| `CompactArchive_proofs` | `ArchiveTypeCorrect` | the type invariant |
| | `CompactOutlives` | `CompactOutlivesSource` |
| | `RetirementIsTrue` | `RetiredMeansGone`, of `SpecInTurn` |
| `Backfill_proofs` | `MonthFollowsContract` | `ArchiveFollowsContract`, of `SpecInTurn` |
| | `MonthStays` | `PublishedStays`, of `SpecInTurn` |
| | `ReceiptsAreHonest` | `ReceiptsAreTrue`, of `SpecInTurn` |
| `Inventory_proofs` | `PlannedAsAWhole` | `NoCheckpointMeansPublished` |
| | `PlansAreSound` | `PlanIsSound` |
| | `PlansCountAttempts` | `PlanCountsItsAttempts` |
| `MemberPipeline_proofs` | `PipelineTypeCorrect` | the type invariant |
| | `PrefetchStaysContained` | `PrefetchIsContained` |
| | `OutputsMatchArchive` | `OutputsAreReference` |
| | `RetriesAreAllCounted` | `RetriesAreCounted` |
| | `ClampsAreAllCounted` | `ClampsAreCounted` |
| | `PipelineImplementsPromise` | `KeepsMemberPromise`, the refinement of `MemberPromise` |
| `RegionalAnalysis_proofs` | `AcceptedReductionIsWhole` | `AcceptedIsOneReduction` |
| | `FrequenciesAreExact` | `FrequenciesMatchHours` |
| | `EventsAreRuns` | `EventsAreMaximalRuns` |
| | `RegionalEventsAreRuns` | `RegionalEventsAreMaximalRuns` |
| | `RegionalEventsStayWithin` | `RegionalEventsAreWithinDomain` |
| `GridDiagnosis_proofs` | `ChunksCoverGrid` | every active column is diagnosed once, from its own data |
| | `AreasStayAlternating` | `AreasAlternate` |
| | `CrossingsStayDefined` | `CrossingsAreDefined` |
| | `TypesFitSurface` | `TypeFitsSurface`, for tables that are percentages |
| | `IconClassifiesAll` | `IconClassifiesEveryActiveColumn`, for such tables |

### 4.1 A cycle directory

`DoneIsComplete` is not inductive. A marker is written on the strength of a
local verdict, the verdict on what monitoring saw, and the outputs may have been
staged long before. `Inv` records the chain: the lock belongs to whoever is past
`acquire` (`LockInv`), so nobody else moves files; a member reported ok has all
its files, an active one those its worker has passed (`TaskInv`); staged hours are made of the files on disk while the swap
is on (`StagedInv`), published ones afterwards (`PublishedInv`); hence a positive
verdict is true (`VerdictInv`); and no marker stands while files move
(`PromiseInv`). A step of an invocation that does not hold the lock is shown to
change nothing (`OtherIdle`), unless it is `abandoned`, and then nothing but outputs
that become `unlocked` and tasks of its own (`LateStep`, `LateOnly`): those writes make
`Current`, the relation between a probability hour and the outputs it was made of,
hold by its exception. Each part of the chain is then an argument about the one that
holds the lock. `TaskInv` also says where members may be open at all: in the pool,
in a drain, and after an interrupted one. An output written late is still of the
contract's mode, because `ContractInv` goes with `Open` and a contract never
changes; this is why `OutputsFollowContract` needs no exception.

`OnlyHolderPublishes` follows from `LockInv` step by step: an action that writes a
contract, a probability, a marker or a report has a stage in `Holding`; one that
writes an output has an open task, and `TaskInv` leaves only holders and abandoned
invocations for it.

`NoHourLost` needs to know, at the second rename, what is about to replace the
backup: `SwapInv` says that staging holds every hour that `probabilities/` or the
backup held, which is true because staging starts from what is published and only adds
to it. It also says that the backup of an invocation that has not
reached its swap is empty: what an earlier, killed invocation left hidden is
nobody's, and is why `AvailableHours` counts every backup there is.

### 4.2 Realtime orchestration

`RealtimeInv` contains the whole `Inv` of `OperationalRun`; every step of the nested
run is a step of that module, so its invariance is used and not proved again.
`RoleInv` says that an orchestrator's nested run moves only in the stage of that
name, `HoldInv` that whoever is at work holds `.progressive.lock`: one orchestrator
at a time, with runs by hand beside it. `InputInv` carries what the probe saw to
the call, since input only arrives; that the probe's last hour has every hour before
it is `AvailableArrived`. `IncrementInv` says that an increment starts
where the counted hours end, or at the first hour when what is counted is not on
disk.
`AgreementInv` uses that a contract, once there, never changes.

`ClaimsHold` has a hypothesis, `Runs = Orchestrators`. It is needed: finding 7 is
the counterexample with a run by hand between the proof of what is published and
the record. `ClaimInv` says that the hours proved published stay so (`Standing`):
`probabilities/` is away only between the two renames of the orchestrator's own
nested run, which then either puts every hour back or can no longer return a
summary that says ok (`Spoiled`), and then the record claims nothing new. A call that
has returned has no open member (`ClaimInv`), and workers that an interrupted drain left
behind only replace outputs by outputs (`LateClaim`), so what is published stays so.

### 4.3 Retirement of a month

`CompactOutlives` holds with any number of overlapping promotions and tasks, and with
the source replaced between any two accesses.
A promotion validates a month long before it deletes it, and tasks that rewrite
the compact archive may run in between. The invariant says why that is harmless:
versions of a source only grow, a task never reads a version newer than the
source nor older than the compact archive (`ReaderInv`, `CompactInv`, and one task
per month by `LockInv`), so an archive that has reached a version never goes back behind
it (`Reached`). When the version that is opened is the one of the receipt and the
archive, everybody at work on that month therefore holds exactly that version, and
whatever the source becomes afterwards, as long as the promotion is in its window,
is in `raced`: that is `Loose`, and `WindowInv` says that it holds from the opening of a
source to its mtime and from its check to its deletion. `Vouched` is what an entry
keeps of it: archive and mtime in that order and not newer than the source, and while
the mtime is still that of the source, `Loose` of the archive. So the shortcut of the
deletion, which asks for no hash when the mtime is as sealed, is justified except for
`raced`; after `HashMonth` it is justified by the hash. `SealedInv` and `PromotionInv`
carry this for every payload in memory and on disk.

`RetirementIsTrue` is about promotions in turn (section 3 has the counterexample
without). `SealInv` says that the output root has no seal or that of the campaign
root, and that the promotion at work has, stage by stage, that same payload;
`GoneInv` that a month is gone only under such a seal, whose archive the compact
archive holds; `RetiringInv` that nobody speaks of a retirement before the source
is empty, which a later call that takes over the record still finds true. What the archive
holds is, again, the sealed version or one that was published inside a window.

### 4.4 A monthly archive

`BackfillInv` is about inodes. An inode has at most the name its creator gave it
(`PartialInv`), and `Appended` says what the creator has put into it so far: the days
of its manifest it has gone through, and nobody else's bytes. A second invocation
opens, truncates and renames only what is `partial`, and while somebody is writing
that is the writer's own or nothing, because the writer holds the lock of its
campaign and, past the contract, every invocation at work is of the campaign the
contract names (`ContractInv`). Both premises are needed and are stated:
`DistinctContracts`, since campaigns with equal manifests hold different locks on
the same `.partial`, and turns until a contract exists (`CampaignsTakeTurns`),
since the check and the creation of the contract are two steps.

### 4.5 Planning

`PlannedAsAWhole` holds because a plan has at least one year and every year gone
through, resumed or queried, leaves the checkpoint behind, which then stands until
the script is written (`CheckpointInv`); in between a kill leaves a checkpoint, and
with it nothing is claimed.

`PlansAreSound` compares a manifest with what the archive was while each field was
queried (`window`). An answer lies between what was there all the time and what was
there at some time (`QueryInv`), so the intersection of the fields does (`EntrySound`),
and an entry keeps that bound in the checkpoint across calls (`CheckpointSound`)
because it is resumed only under the same contract, in which the years are cut at
the same days; the periods of a manifest are a partition of the days of its years
(`PeriodsCoverPlan`).

`PlansCountAttempts` carries with `AttemptsInv` that an entry, in memory or in the
checkpoint, has the attempts of the last query of its year, and the plan the sum
over the years gone through. The sums are folds whose order is not known; that they
exist, and that any element may be taken out first, is `SumsExist` and
`AttemptsLess`.

### 4.6 A member

The chain, for all chunk sizes, ranges, archives and faults: the caller is always
at an hour of its chunk, and chunks
follow each other without gap (`PlaceInv`, with `NextChunk`, the arithmetic of
`_chunk_steps`); hence the thread holds the next chunk, and none when the last hour
is written (`ThreadInv`, `LastHourAlone`); what is carried is the accumulation of
the hour before, or nothing at hour 0 (`CarriedInv`), so the amount is what the
archive determines (`HourIsReference`); and every attempt is either in the caller's
statistics or in those of the chunk being fetched (`CountedInv`). `ClampInv` counts
a set: the hours at which an accumulation fell, up to the hour being processed; each
hour adds its own and no other (`HourAddsFalls`).

`PipelineImplementsPromise` maps the caller's hour to the next hour of the promise.
The steps of the thread, retries, prefetching and the bookkeeping between hours are
stutters (`RestRefines`); the hour that is written is the one the promise writes
next, with the value the archive determines (`WriteRefines`, which rests on
`OutputsMatchArchive`'s invariant); and a call reports ok only after its last hour or
when every hour was there (`ResumeRefines`).

### 4.7 The reduction and the regional campaign

Both are proved of `RegionalSpec`, whose steps before a region is planned are those
of the reduction (`CampaignLeavesReduction`).

`CallInv` is about the products on disk. Each carries the number of the call that made it;
in stage n of a call its first n products are its own (`Stage`, `Published`), so at
the seal all of them are, and the evidence in `REDUCTION.json` is that of one call
which found no gap. Verification compares what is on disk with that evidence, which is all
`AcceptedReductionIsWhole` needs: an interrupted later call cannot bring old evidence
and new products into agreement.

The counters come from a loop too. `CountInv` says what they have counted when the
merge has been through the hours D: the latest valid month is pending, with all its
hours in D, and the tally has the others (`MergeFound`). A contribution either adds to
the pending month or finalizes it and takes its place (`MergeOneStep`); those of a task
are one per valid month, in order (`ContributionsInOrder`), and an archive month
begins with the valid month the one before ended in, or a later one (`MonthFollows`), so a month
that was finalized never comes back. This is what makes the last hours of a month, which the
next task counts, end up in the right month, season and year. `TallyFound` says, for each counter,
that it is the number of hours of its class modulo `CountLimit`: a 16-bit sum may be
reduced at every addition or at the end (`ReducedSum`). The year that is being counted is not yet
written: the months come in order, so a new year means that the old one is complete
(`YearTurned`), and `FlushedAll` writes the last. The hours of a year are counted with 16 bits as well
but never wrap, since a year has 8784 of them (`CalendarAssumption`); this is why their sum
is the exact number of hours of the period (`FullHoursExact`). `CountsAreFrequencies`
brings this to the wording of the property, where a month is its days from midnight to
midnight (`MidnightToMidnight`).

The events come from a loop of their own. `Cut` says what a loop over the hours D, of which A are
affected, has cut when it has been through them: closed runs, in order, each
maximal so far, and perhaps an open one that has the last hour. Closing, ending,
prolonging and beginning (`CutClosed`, `CutEnded`, `CutProlonged`, `CutBegun`) are
proved once, of any sets D and A of integers, and used by both loops: that of
`reduce_analysis` over all hours and that of `_event_catalogues` over regional rows.
They need the hours to come in order, which is where the sorted manifest enters
(`InOrder`, from `_monthly_periods`; `HoursInOrder`, `MonthByMonth`). `GapsFound`
says the same of the gap counter: it is 0 exactly when every hour but the last is
followed by the next.

A regional shard is what the *undamaged* archive says (`TaskInv`, `TrueRows`),
because a task compares the decoded archive with the receipt before it counts, and
damage after that changes nothing it has in memory or has published. So the merged
rows are those of all selected hours, in order (`ShardsMerged`), and the
catalogues are maximal runs (`CatalogueComplete`).
`RegionalEventsStayWithin` puts the two campaigns together: a regional run consists of hours
affected in the whole domain too, so it lies in one maximal run there
(`RunWithin`, `FewerCells`).

### 4.8 The diagnosis

The theorems hold for every grid of columns of any depth, with any integers for
temperatures, heights and rates, in chunks of any size. `GridInv` says that the active columns
that are no longer pending carry what the kernel says of them, and the others
nothing. The rest is about the kernels, column by column.

A kernel is a fold, the state its loop carries. For each loop `XFold` gives the
states one after the other (`XRun`), and an induction over them shows what holds at every
level. `Alternating` says of the areas kept so far that each is large and that
neighbours differ in sign: appending drops a small area or merges one of the same
sign, which only makes the last one larger (`MergeAlternates`), and the
lowest areas, taken from the surface up, still alternate (`LowestAlternates`).
`Filled` says what the ICON signs are when the loop has reached level m; so a sign
that changes was taken from a wet bulb that is not zero, and the two neighbours of a crossing do not
both vanish (`SignsChange`).

`TypeFitsSurface` is a property of every way out of the diagnosis: the results have
seven shapes (`Refrozen`, `Pellets`, ...), `Fitting` says which probabilities the
surface allows, and each branch writes only those; the code is that of a type with a positive
probability (`CodeSays`), and the surface rates replace it only by codes the surface does not
exclude (`RefinedIs`). Firdewsa reads areas by position, so it matters that three areas
are left only over a surface that is not below zero (`AreaLimit`).

`IconClassifiesAll` is arithmetic. The relaxed mode always finds a temperature for
the ice (`IceTypedIcon`), so a type is missing only if every probability is 0. Over a
refrozen layer that means no freezing rain: the ice is certain and the line
458 - 2.1 r + 0.2 m is below 3 percent, so r is large, and then
2.3 r - 42 ln(m + 1) + 3 is at least 1 percent: the pellets are not 0 (`FreezingOrPellets`). Pellets
that melt at the surface are rain (`KeptTyped`), those of a large refreezing area
snow. The same theorem fails for Firdewsa, by finding 2.

These two theorems have the hypothesis `Tables`: the tables of ice are
percentages, because the code clips them, and the logarithm is an integer at most
200 + m / 5, which 42 ln(m + 1) is (its greatest distance above m / 5 is 183). TLC checks that the tables of the instance are so, for energies
between -3000 and 3000 (`TablesAssumption`).

### 4.9 How induction is done

No library theorem with an operator parameter can be used by the provers here.
`WellOrder` states what is needed in first-order form, over a *set* of naturals:
a nonempty set has a least element, a bounded one a greatest, and a set with 0 and
closed under successor is all of `Nat`. They are proved
from the library's theorem that the naturals are well-founded, by descent.

A loop over a sequence is a fold or a recursive function in the model, chosen by its
definition. That it exists is proved by induction on the length
(`ScannedHourByHour`, `CatalogueRowByRow`, `MergedMonthByMonth`, `MergedOneByOne`); what it has
computed after n elements is then an induction of its own. A sum over a finite set is a
fold; that a sum of counts is the count of the union is an induction over subsets (`SumOfCounts`).
It serves the sums over codes in events and maps, and that over years in the full period.

### 4.10 Only model-checked

* All liveness properties (`EveryRunEnds`, `UndisturbedCallCompletes`,
  `RetirementContinues`, `UndisturbedTaskCompletes`, `CallEnds`): fairness and
  `ENABLED` are out of the prover's reach.
* `ProductionMatchesReference`. The reference is made of sets, sums and the
  segments of constant sign sorted from the top, the kernel of one pass; that they agree
  is an induction over data through a sort, for two algorithms. The theorems of 4.8 are about the
  kernels, which are what is published; the run compares them with the references for
  every profile of seven levels.

## 5. Findings

Checked as violated:

1. A retirement interrupted between the two copies of `SOURCE_RETIREMENT.json`
   can never be completed: every call builds a record with a new `retired_at`,
   and `_write_immutable_json` refuses a differing file.
2. Firdewsa leaves a column with precipitation without a type, published as "no
   precipitation". `_areas_to_probabilities` reads the areas by position: when
   the shallow warm area at the surface is dropped as too small, the two areas
   above it are read as if the surface were frozen, what they give is set to 0
   because it is not, and with all snow melted nothing is left
   (`profile.py:369-385`). The documentation says each active column is classified.

Seen while modelling, and not kept as runs:

3. The lock does not keep publishers apart after a second interrupt. It ends the
   join in `ProcessPoolExecutor.__exit__` (`operational.py:2249-2251`), the wrapper
   calls `CycleLock.release`, and its `LOCK_UN` (`operational.py:239`) frees the open
   file description the workers share, while they still process active and queued
   members. Another invocation acquires the lock, and both replace outputs.
   `src/docs/science-and-architecture.md:234-235` says "POSIX locks prevent
   concurrent publishers." The files stay whole and of the same contract, but an
   output may change after `DONE.json` and after its hour was aggregated.
   `PublishersNeverOverlap`, as an invariant of `MCOperationalRun_strict.cfg`, is
   violated.
4. A source month may be deleted that nothing holds. `_validate_source_archive` hashes
   an open file and then takes size and mtime by name (`analysis.py:575-577`): a
   month of the same size published meanwhile is sealed with the old hash and the
   new mtime. The deletion compares size and mtime, asks for no hash when they agree,
   and unlinks (1243-1248). The documentation says that "only those exact sealed
   archives" are unlinked (`src/docs/science-and-architecture.md:171-172`). The
   window between that comparison and the unlink has the same effect.
   `OnlySealedIsDeleted`, as a property of `MCCompactArchive_retirement.cfg`, is
   violated.
5. `probabilities/` is not replaced atomically: between the two renames
   (`probabilities.py:360-361`) there is none, and after a kill there the hours
   are only in the hidden backup directory, which nothing renames back.
   `src/docs/release-and-operations.md:265` calls the replacement atomic.
6. "Strict across every model member" (`src/README.md:402`) is strict across the
   *selected* members: a run with `--members` publishes subset probabilities
   over ensemble ones (`operational.py:2273`).
7. `complete` can be recorded while hours are missing: the orchestrator verifies
   (`realtime.py:367`) and records outside the cycle lock, and a run by hand may
   be killed between the renames of finding 5.
8. "Historical analysis receipts remain unchanged" fails for a task that looks
   at its month while the source is being deleted: it writes a critical receipt
   (`analysis.py:888`).
9. "A task skips only a complete archive whose receipt ... match": a backfill task
   skips any archive that holds the messages of its manifest, without looking at
   the receipt (`backfill.py:748-770`); after a kill between the rename of the
   archive and its receipt the new receipt has lost the provenance.
10. A plan without `--allow-missing` that was refused for missing days keeps being
    refused after the archive was completed: the years are in the checkpoint, which
    has the same query contract (`backfill.py:195-238`) and is resumed.

## 6. What is not modelled

* GRIB and NetCDF encoding, provenance, argument parsing, job submission, and
  the tables of GRIB names: pure conversions and I/O. Torn writes within one file
  are excluded by the temporary-file convention; loss of the file system's own
  buffers is ignored.
* In the diagnosis: the thermodynamics that turn pressure, temperature and
  humidity into wet-bulb temperatures, rounding of floating-point numbers, and the
  comparison with the Fortran scheme (`src/tools/verify_icon_fortran.py`). Two twins
  that agree over integers may still differ in the last bit. The formulas that
  turn areas into probabilities are written three times in the code (`profile.py` and twice
  in `numba_backend.py`) and once here, so a divergence of the copies would not be
  seen. Wet bulbs that are not a number, which the two sign passes of the ICON
  mode fill in differently, are not among the profiles.
* In `OperationalRun`: wall-clock time except that a timed run may exceed its
  limit; how the hours of a member are fetched (`MemberPipeline`); an executor whose
  interrupt comes between its own statements and not in the loop or the join.
* In `MemberPipeline`: delays and timings, and `discover_complete_run`, which
  tries cycles in turn and keeps no state.
* In `Backfill`: the attempt number, `campaign_status`, and the bytes of a day cut
  off in the middle (such a month never passes inspection).
* In `Inventory`: the errors of `write_slurm_array_script` about its arguments
  (`backfill.py:949-960`) leave the same behind as a kill before the script is written
  and are seen as that (`Kill`).
* In `CompactArchive`: a backfill that recreates the source after its
  retirement; sizes of the outputs of a task.
* In `AnalysisReduction`: the tasks' own steps (see `CompactArchive`), percentages
  and descriptive totals, two reductions at a time. The quality report in JSON and in
  markdown is one product. The errors of `_source_data_quality`
  (`analysis.py:1380-1395`, called at 1714) end a call before its report, as a kill
  there does (`Kill`). Products are told apart by the call that made them, where the code
  compares size and hash: `Verified` rejects a product of a later call that is the same byte
  for byte, which the code accepts and which says the same.
* In `RegionalAnalysis`: the geometry of the mask, the contract file and locks; the
  hourly product, which has the rows of the shards; the count of receipts without
  `canonical_receipt_match` (`regional_analysis.py:895-898`), which a task writes only as
  `True`. Compact archives are damaged, shards are not: the reduction reads a shard whose
  size is right without asking for its hash (836, 862), so a damaged shard of the same
  size would get into the catalogues.
* In `RealtimeCycle`: the search for the latest cycle, which keeps no state.

`PROJECT.json` lists every hazard we know of at its line, also those that no
property covers, with the reason.

## 7. Plan

Done: the modules of section 2 with their runs, and the theorems of section 4.
In order of importance:

1. Proofs: `ProductionMatchesReference`, loop by loop: first the layers and the
   signs, whose references are sets of levels, then the areas.
2. `MonthPromise`, the abstract specification of a monthly archive (absent, or
   a whole month, replaced only by another), with `Backfill` shown to implement
   it, and its composition with the retirement: what a task makes of a month
   that was deleted on purpose.
3. `campaign_status` and `regional_status` as readers of directories that others
   are writing.

## 8. Running

    tlc -workers 2 -config MCOperationalRun_strict.cfg MCOperationalRun
    tlc -workers 2 -config MCRealtimeCycle_forward.cfg MCRealtimeCycle
    tlc -workers 2 -config MCCompactArchive_retirement.cfg MCCompactArchive
    tlc -workers 2 -config MCBackfill_month.cfg MCBackfill
    tlc -workers 2 -config MCInventory_plans.cfg MCInventory
    tlc -workers 2 -config MCMemberPipeline_icon.cfg MCMemberPipeline
    tlc -workers 2 -config MCGridDiagnosis_all.cfg MCGridDiagnosis
    tlc -workers 2 -config MCRegionalAnalysis_reduction.cfg MCRegionalAnalysis
    tlapm CompactArchive_proofs.tla
    tlapm RealtimeCycle_proofs.tla
    tlapm Backfill_proofs.tla
    tlapm Inventory_proofs.tla
    tlapm MemberPipeline_proofs.tla
    tlapm RegionalAnalysis_proofs.tla
    tlapm GridDiagnosis_proofs.tla

Each run takes at most a few minutes; the proofs a few minutes together.
