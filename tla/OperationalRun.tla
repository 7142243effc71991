---------------------------- MODULE OperationalRun ----------------------------
(***************************************************************************)
(* One forecast cycle directory <root>/<model>/<date>/<time> and the       *)
(* invocations of run_operational that publish into it                     *)
(* (operational.py, probabilities.py, monitoring.py).                      *)
(*                                                                         *)
(* A file is modelled by the invocation that wrote its content, Absent     *)
(* when it does not exist.  Every write in the code is "temporary file,    *)
(* then os.replace", so a reader never sees a partial file and one write   *)
(* is one step.  The probability directory is published by TWO renames,    *)
(* which are two steps.  An invocation may be killed between any two       *)
(* steps; the kernel then drops its flock.  Pool workers may outlive the   *)
(* invocation: those of a killed parent keep the flock, those of one whose *)
(* drain was interrupted go on without it.                                 *)
(***************************************************************************)
EXTENDS Integers, FiniteSets

CONSTANTS
  Runs,              \* invocations of run_operational on this cycle
  Members,           \* MODEL_MEMBERS of the model, numbered in order
  Steps,             \* forecast hours of the cycle
  Modes,             \* CONTRACT.json contents that share one output format
  ProbabilityModes,  \* the modes with write_probability_products
  Signature,         \* what an output file records of the mode it was made in
  Requests,          \* arguments an invocation may be called with
  Workers,           \* max_workers
  Absent,            \* no such file, lock not held
  Legacy             \* content written before CONTRACT.json existed

ASSUME RunsAssumption ==
  /\ Absent \notin Runs /\ Legacy \notin Runs /\ Absent # Legacy
  /\ Absent \notin Modes

ASSUME RangesAssumption ==
  /\ Members \subseteq Nat /\ Steps \subseteq Nat
  /\ ProbabilityModes \subseteq Modes
  /\ Workers \in Nat \ {0}

\* Exactly the requests config_for_model accepts.
ASSUME RequestsAssumption ==
  \A r \in Requests :
    /\ r.mode \in Modes
    /\ r.members \subseteq Members /\ r.members # {}
    /\ r.first \in Steps /\ r.last \in Steps /\ r.first <= r.last
    /\ r.resume \in BOOLEAN /\ r.check \in BOOLEAN /\ r.timed \in BOOLEAN

VARIABLES
  pc,          \* where each invocation is
  req,         \* its arguments
  lockOwner,   \* whose open file description holds the flock on .cycle.lock
  contract,    \* CONTRACT.json
  file,        \* member outputs, file[m][s]
  unlocked,    \* history: the outputs written by a worker without the lock
  task,        \* state of each member in the worker pool
  unwritten,   \* the hours a member's worker has yet to write
  prob,        \* probabilities/: per hour, the member outputs it was made of
  staging,     \* the invocation's temporary probability directory
  unstaged,    \* the hours it has yet to aggregate into it
  backup,      \* the invocation's hidden backup of probabilities/
  probStatus,  \* probability_summary["status"]
  verdict,     \* monitoring["ok"]
  running, done, failed,   \* RUNNING.json, DONE.json, FAILED.json
  summary, monitoring      \* summary.json, monitoring.json

outputs   == <<file, unlocked>>
disk      == <<contract, outputs, prob, backup>>
markers   == <<running, done, failed>>
reports   == <<summary, monitoring>>
pool      == <<task, unwritten>>
locals    == <<pool, staging, unstaged, probStatus, verdict>>
vars      == <<pc, req, lockOwner, disk, markers, reports, locals>>

-----------------------------------------------------------------------------
(* Stages of an invocation.                                                *)

Unmarked == {"contract", "retractDone", "retractFailed", "announce"}
Publishing == {"preflight", "stage", "swapOut", "swapIn", "restore", "cleanup"}
Reporting == {"monitor", "summary", "monitoring", "marker", "retract", "clear"}
Aborting == {"abort", "abortDone", "abortRunning"}
Working == {"members", "drain", "orphaned"}
Marked == {"members"} \cup Publishing \cup Reporting
Holding == Unmarked \cup Working \cup Publishing \cup Reporting \cup Aborting
             \cup {"release"}
Ended == {"finished", "abandoned", "dead"}
Stages == {"start"} \cup Holding \cup Ended

Content == Runs \cup {Absent, Legacy}
Source == [Members -> Content]
NoSource == [m \in Members |-> Absent]
NoHours == [s \in Steps |-> NoSource]
TaskStates == {"idle", "queued", "active", "ok", "failed"}
NoTasks == [m \in Members |-> "idle"]
NothingLeft == [m \in Members |-> {}]

Hours(p) == {s \in Steps : req[p].first <= s /\ s <= req[p].last}
MembersOf(p) == req[p].members
Least(S) == CHOOSE x \in S : \A y \in S : x <= y
TasksIn(p, states) == {m \in MembersOf(p) : task[p][m] \in states}

\* worker_count > 1: a ProcessPoolExecutor runs the members.
Pooled(p) == Workers > 1 /\ Cardinality(MembersOf(p)) > 1

\* Somebody still works, or will work, on a member.
Open(p) == TasksIn(p, {"queued", "active"}) # {}

\* _valid_existing_member_output compares attributes, never the whole mode.
ValidOutput(p, m, s) ==
  /\ file[m][s] \in Runs
  /\ Signature[req[file[m][s]].mode] = Signature[req[p].mode]

\* The hour as aggregate_member_diagnostics would compute it now.
Aggregate(p, s) ==
  [m \in Members |-> IF m \in MembersOf(p) THEN file[m][s] ELSE Absent]

\* The hour was aggregated from the member outputs now on disk, as far as no
\* worker without the lock has replaced them.
Current(p, s, source) == \A m \in Members :
  IF m \in MembersOf(p)
  THEN source[m] \in Runs /\ (source[m] = file[m][s] \/ <<m, s>> \in unlocked)
  ELSE source[m] = Absent

At(p, stage) == pc[p] = stage
Goto(p, stage) == pc' = [pc EXCEPT ![p] = stage]

-----------------------------------------------------------------------------
(* Faulty variants of actions: the mistakes the properties must catch.     *)

\* The lock is taken without asking whether it is free.
AcquireUnlocked(p) ==
  /\ At(p, "start")
  /\ lockOwner' = p
  /\ Goto(p, "contract")
  /\ UNCHANGED <<req, disk, markers, reports, locals>>

\* An existing CONTRACT.json is adopted without comparing it.
EnsureContractUnchecked(p) ==
  /\ At(p, "contract")
  /\ contract' = IF contract = Absent THEN req[p].mode ELSE contract
  /\ Goto(p, "retractDone")
  /\ UNCHANGED <<req, lockOwner, outputs, prob, backup, markers, reports, locals>>

\* The previous DONE.json is left standing during the new attempt.
RetractDoneForgotten(p) ==
  /\ At(p, "retractDone")
  /\ Goto(p, "retractFailed")
  /\ UNCHANGED <<req, lockOwner, disk, markers, reports, locals>>

\* The previous FAILED.json is left standing during the new attempt.
RetractFailedForgotten(p) ==
  /\ At(p, "retractFailed")
  /\ Goto(p, "announce")
  /\ UNCHANGED <<req, lockOwner, disk, markers, reports, locals>>

AllOutputsValid(p, m) == \A s \in Hours(p) : ValidOutput(p, m, s)

\* The pool is left only when every member succeeded.
MembersDoneIfAllOk(p) ==
  /\ At(p, "members")
  /\ TasksIn(p, {"ok"}) = MembersOf(p)
  /\ Goto(p, "preflight")
  /\ UNCHANGED <<req, lockOwner, disk, markers, reports, locals>>

\* Staging starts empty: the hours already published are not copied.
PreflightEmpty(p) ==
  /\ At(p, "preflight")
  /\ staging' = [staging EXCEPT ![p] = NoHours]
  /\ Goto(p, "stage")
  /\ unstaged' = [unstaged EXCEPT ![p] = Hours(p)]
  /\ UNCHANGED <<req, lockOwner, disk, markers, reports, pool, probStatus, verdict>>

\* Monitoring overlooks the members that failed.
MonitorLenient(p) ==
  /\ At(p, "monitor")
  /\ verdict' = [verdict EXCEPT ![p] = req[p].check => probStatus[p] # "none"]
  /\ Goto(p, "summary")
  /\ UNCHANGED <<req, lockOwner, disk, markers, reports, pool, staging, unstaged,
                 probStatus>>

-----------------------------------------------------------------------------
Init ==
  /\ pc = [p \in Runs |-> "start"]
  /\ req \in [Runs -> Requests]
  /\ lockOwner = Absent
  /\ contract = Absent
  /\ \/ file = [m \in Members |-> [s \in Steps |-> Absent]]
     \/ file = [m \in Members |-> [s \in Steps |-> Legacy]]
  /\ unlocked = {}
  /\ prob = NoHours
  /\ task = [p \in Runs |-> NoTasks]
  /\ unwritten = [p \in Runs |-> NothingLeft]
  /\ staging = [p \in Runs |-> NoHours]
  /\ unstaged = [p \in Runs |-> {}]
  /\ backup = [p \in Runs |-> NoHours]
  /\ probStatus = [p \in Runs |-> "none"]
  /\ verdict = [p \in Runs |-> FALSE]
  /\ running = Absent /\ done = Absent /\ failed = Absent
  /\ summary = Absent /\ monitoring = Absent

-----------------------------------------------------------------------------
(* Acquiring the cycle and committing to its contract.                     *)

Acquire(p) ==
  /\ At(p, "start") /\ lockOwner = Absent
  /\ lockOwner' = p
  /\ Goto(p, "contract")
  /\ UNCHANGED <<req, disk, markers, reports, locals>>

\* CycleLockedError: the lock was still held at the deadline.
GiveUp(p) ==
  /\ At(p, "start") /\ lockOwner # Absent
  /\ Goto(p, "finished")
  /\ UNCHANGED <<req, lockOwner, disk, markers, reports, locals>>

OutputsExist ==
  \/ \E m \in Members, s \in Steps : file[m][s] # Absent
  \/ prob # NoHours

\* _ensure_run_contract.
EnsureContract(p) ==
  /\ At(p, "contract")
  /\ \/ /\ contract = req[p].mode
        /\ Goto(p, "retractDone") /\ UNCHANGED contract
     \/ /\ contract # Absent /\ contract # req[p].mode
        /\ Goto(p, "release") /\ UNCHANGED contract
     \/ /\ contract = Absent /\ OutputsExist
        /\ Goto(p, "release") /\ UNCHANGED contract
     \/ /\ contract = Absent /\ ~OutputsExist
        /\ contract' = req[p].mode /\ Goto(p, "retractDone")
  /\ UNCHANGED <<req, lockOwner, outputs, prob, backup, markers, reports, locals>>

RetractDone(p) ==
  /\ At(p, "retractDone")
  /\ done' = Absent /\ Goto(p, "retractFailed")
  /\ UNCHANGED <<req, lockOwner, disk, running, failed, reports, locals>>

RetractFailed(p) ==
  /\ At(p, "retractFailed")
  /\ failed' = Absent /\ Goto(p, "announce")
  /\ UNCHANGED <<req, lockOwner, disk, running, done, reports, locals>>

\* RUNNING.json, then every member is handed to the pool.
Announce(p) ==
  /\ At(p, "announce")
  /\ running' = p /\ Goto(p, "members")
  /\ task' = [task EXCEPT ![p] = [m \in Members |-> "queued"]]
  /\ UNCHANGED <<req, lockOwner, disk, done, failed, reports, unwritten, staging,
                 unstaged, probStatus, verdict>>

-----------------------------------------------------------------------------
(* Member processing.  Members start in order, at most Workers at a time;  *)
(* worker processes outlive a killed parent and, being forked, share the   *)
(* open file description that holds the flock.  They work as long as tasks *)
(* are open, whatever the parent has come to.                              *)

StartMember(p) ==
  /\ TasksIn(p, {"queued"}) # {}
  /\ Cardinality(TasksIn(p, {"active"})) < Workers
  /\ LET m == Least(TasksIn(p, {"queued"}))
     IN IF req[p].resume /\ AllOutputsValid(p, m)
        THEN task' = [task EXCEPT ![p][m] = "ok"] /\ UNCHANGED unwritten
        ELSE /\ task' = [task EXCEPT ![p][m] = "active"]
             /\ unwritten' = [unwritten EXCEPT ![p][m] = Hours(p)]
  /\ UNCHANGED <<pc, req, lockOwner, disk, markers, reports, staging, unstaged,
                 probStatus, verdict>>

\* _process_chunk writes its steps in order, regenerating every one of them.
WriteOutput(p, m) ==
  /\ m \in TasksIn(p, {"active"}) /\ unwritten[p][m] # {}
  /\ LET s == Least(unwritten[p][m])
     IN /\ file' = [file EXCEPT ![m][s] = p]
        /\ unlocked' = IF At(p, "abandoned") THEN unlocked \cup {<<m, s>>}
                                         ELSE unlocked \ {<<m, s>>}
        /\ unwritten' = [unwritten EXCEPT ![p][m] = @ \ {s}]
  /\ UNCHANGED <<pc, req, lockOwner, contract, prob, backup, markers, reports,
                 task, staging, unstaged, probStatus, verdict>>

FinishMember(p, m) ==
  /\ m \in TasksIn(p, {"active"}) /\ unwritten[p][m] = {}
  /\ task' = [task EXCEPT ![p][m] = "ok"]
  /\ UNCHANGED <<pc, req, lockOwner, disk, markers, reports, unwritten, staging,
                 unstaged, probStatus, verdict>>

\* Retries exhausted, invalid input, or a failing write: the exception is
\* collected in failed[member].
FailMember(p, m) ==
  /\ m \in TasksIn(p, {"active"})
  /\ task' = [task EXCEPT ![p][m] = "failed"]
  /\ unwritten' = [unwritten EXCEPT ![p][m] = {}]
  /\ UNCHANGED <<pc, req, lockOwner, disk, markers, reports, staging, unstaged,
                 probStatus, verdict>>

\* A worker process dies: BrokenProcessPool fails every unfinished member.
\* Only a parent that is alive notices.
BreakPool(p) ==
  /\ Pooled(p) /\ pc[p] # "orphaned"
  /\ TasksIn(p, {"active"}) # {}
  /\ task' = [task EXCEPT ![p] =
       [m \in Members |-> IF m \in TasksIn(p, {"queued", "active"})
                          THEN "failed" ELSE task[p][m]]]
  /\ unwritten' = [unwritten EXCEPT ![p] = NothingLeft]
  /\ UNCHANGED <<pc, req, lockOwner, disk, markers, reports, staging, unstaged,
                 probStatus, verdict>>

MembersDone(p) ==
  /\ At(p, "members") /\ ~Open(p)
  /\ IF req[p].mode \in ProbabilityModes
     THEN Goto(p, "preflight") /\ UNCHANGED probStatus
     ELSE /\ Goto(p, "monitor")
          /\ probStatus' = [probStatus EXCEPT ![p] = "skipped"]
  /\ UNCHANGED <<req, lockOwner, disk, markers, reports, pool, staging, unstaged,
                 verdict>>

-----------------------------------------------------------------------------
(* generate_probability_products.                                          *)

Complete(p) ==
  /\ TasksIn(p, {"ok"}) = MembersOf(p)
  /\ \A m \in MembersOf(p), s \in Hours(p) : file[m][s] # Absent

\* _strict_preflight, then the copy of the published hours into staging.
Preflight(p) ==
  /\ At(p, "preflight")
  /\ IF Complete(p)
     THEN /\ staging' = [staging EXCEPT ![p] = prob]
          /\ unstaged' = [unstaged EXCEPT ![p] = Hours(p)]
          /\ Goto(p, "stage") /\ UNCHANGED probStatus
     ELSE /\ probStatus' = [probStatus EXCEPT ![p] = "failed"]
          /\ Goto(p, "monitor") /\ UNCHANGED <<staging, unstaged>>
  /\ UNCHANGED <<req, lockOwner, disk, markers, reports, pool, verdict>>

\* The member outputs of an hour are read at one moment.
StageHour(p) ==
  /\ At(p, "stage") /\ unstaged[p] # {}
  /\ LET s == Least(unstaged[p])
     IN /\ staging' = [staging EXCEPT ![p][s] = Aggregate(p, s)]
        /\ unstaged' = [unstaged EXCEPT ![p] = @ \ {s}]
  /\ UNCHANGED <<pc, req, lockOwner, disk, markers, reports, pool, probStatus,
                 verdict>>

StagingDone(p) ==
  /\ At(p, "stage") /\ unstaged[p] = {}
  /\ Goto(p, IF prob = NoHours THEN "swapIn" ELSE "swapOut")
  /\ UNCHANGED <<req, lockOwner, disk, markers, reports, locals>>

\* First rename of _publish_probability_directory.
SwapOut(p) ==
  /\ At(p, "swapOut")
  /\ backup' = [backup EXCEPT ![p] = prob]
  /\ prob' = NoHours
  /\ Goto(p, "swapIn")
  /\ UNCHANGED <<req, lockOwner, contract, outputs, markers, reports, locals>>

\* Second rename.
SwapIn(p) ==
  /\ At(p, "swapIn")
  /\ prob' = staging[p]
  /\ staging' = [staging EXCEPT ![p] = NoHours]
  /\ Goto(p, "cleanup")
  /\ UNCHANGED <<req, lockOwner, contract, outputs, backup, markers, reports, pool,
                 unstaged, probStatus, verdict>>

SwapInFails(p) ==
  /\ At(p, "swapIn") /\ backup[p] # NoHours
  /\ Goto(p, "restore")
  /\ UNCHANGED <<req, lockOwner, disk, markers, reports, locals>>

\* The except branch renames the backup back.
Restore(p) ==
  /\ At(p, "restore")
  /\ prob' = backup[p]
  /\ backup' = [backup EXCEPT ![p] = NoHours]
  /\ staging' = [staging EXCEPT ![p] = NoHours]
  /\ probStatus' = [probStatus EXCEPT ![p] = "failed"]
  /\ Goto(p, "monitor")
  /\ UNCHANGED <<req, lockOwner, contract, outputs, markers, reports, pool, unstaged,
                 verdict>>

\* An exception while copying, reading, aggregating or renaming: the staging
\* directory is removed and the products are reported failed.
ProbabilityFails(p) ==
  /\ \/ pc[p] \in {"stage", "swapOut", "restore"}
     \/ At(p, "swapIn") /\ backup[p] = NoHours
  /\ staging' = [staging EXCEPT ![p] = NoHours]
  /\ unstaged' = [unstaged EXCEPT ![p] = {}]
  /\ probStatus' = [probStatus EXCEPT ![p] = "failed"]
  /\ Goto(p, "monitor")
  /\ UNCHANGED <<req, lockOwner, disk, markers, reports, pool, verdict>>

RemoveBackup(p) ==
  /\ At(p, "cleanup")
  /\ backup' = [backup EXCEPT ![p] = NoHours]
  /\ probStatus' = [probStatus EXCEPT ![p] = "ok"]
  /\ Goto(p, "monitor")
  /\ UNCHANGED <<req, lockOwner, contract, outputs, prob, markers, reports, pool,
                 staging, unstaged, verdict>>

-----------------------------------------------------------------------------
(* build_monitoring_status, the reports and the terminal marker.           *)

MissingOutput(p) ==
  \E m \in TasksIn(p, {"ok"}), s \in Hours(p) : file[m][s] = Absent

\* late: a max_wall_s was given and wall_s exceeded it.
Monitor(p) ==
  /\ At(p, "monitor")
  /\ \E late \in BOOLEAN :
       /\ late => req[p].timed
       /\ verdict' = [verdict EXCEPT ![p] =
            /\ ~late
            /\ TasksIn(p, {"failed"}) = {}
            /\ probStatus[p] # "failed"
            /\ req[p].check => ~MissingOutput(p)]
  /\ Goto(p, "summary")
  /\ UNCHANGED <<req, lockOwner, disk, markers, reports, pool, staging, unstaged,
                 probStatus>>

WriteSummary(p) ==
  /\ At(p, "summary")
  /\ summary' = p /\ Goto(p, "monitoring")
  /\ UNCHANGED <<req, lockOwner, disk, markers, monitoring, locals>>

WriteMonitoring(p) ==
  /\ At(p, "monitoring")
  /\ monitoring' = p /\ Goto(p, "marker")
  /\ UNCHANGED <<req, lockOwner, disk, markers, summary, locals>>

WriteMarker(p) ==
  /\ At(p, "marker")
  /\ IF verdict[p] THEN done' = p /\ UNCHANGED failed
                   ELSE failed' = p /\ UNCHANGED done
  /\ Goto(p, "retract")
  /\ UNCHANGED <<req, lockOwner, disk, running, reports, locals>>

RetractOther(p) ==
  /\ At(p, "retract")
  /\ IF verdict[p] THEN failed' = Absent /\ UNCHANGED done
                   ELSE done' = Absent /\ UNCHANGED failed
  /\ Goto(p, "clear")
  /\ UNCHANGED <<req, lockOwner, disk, running, reports, locals>>

ClearRunning(p) ==
  /\ At(p, "clear")
  /\ running' = Absent /\ Goto(p, "release")
  /\ UNCHANGED <<req, lockOwner, disk, done, failed, reports, locals>>

\* LOCK_UN frees the lock whoever shares the open file description: workers
\* with open tasks go on without it.
Release(p) ==
  /\ At(p, "release")
  /\ lockOwner' = Absent
  /\ IF Open(p)
     THEN Goto(p, "abandoned") /\ UNCHANGED task
     ELSE Goto(p, "finished") /\ task' = [task EXCEPT ![p] = NoTasks]
  /\ UNCHANGED <<req, disk, markers, reports, unwritten, staging, unstaged,
                 probStatus, verdict>>

-----------------------------------------------------------------------------
(* Exceptions: the _finalize_failed_run_marker wrapper.                    *)

\* Before RUNNING.json is recorded as active only the lock is released.
RaiseUnmarked(p) ==
  /\ pc[p] \in Unmarked
  /\ Goto(p, "release")
  /\ UNCHANGED <<req, lockOwner, disk, markers, reports, locals>>

\* A KeyboardInterrupt, or an OSError while reporting.  A pool is first
\* drained by ProcessPoolExecutor.__exit__.
RaiseMarked(p) ==
  /\ pc[p] \in Marked
  /\ IF At(p, "members") /\ Pooled(p)
     THEN Goto(p, "drain") /\ UNCHANGED pool
     ELSE /\ Goto(p, "abort")
          /\ task' = [task EXCEPT ![p] = NoTasks]
          /\ unwritten' = [unwritten EXCEPT ![p] = NothingLeft]
  /\ staging' = [staging EXCEPT ![p] = NoHours]
  /\ unstaged' = [unstaged EXCEPT ![p] = {}]
  /\ UNCHANGED <<req, lockOwner, disk, markers, reports, probStatus, verdict>>

\* A second KeyboardInterrupt ends the join in __exit__; nobody tells the
\* workers, and no queued member is cancelled.
InterruptDrain(p) ==
  /\ At(p, "drain")
  /\ Goto(p, "abort")
  /\ UNCHANGED <<req, lockOwner, disk, markers, reports, locals>>

Drained(p) ==
  /\ At(p, "drain") /\ ~Open(p)
  /\ Goto(p, "abort")
  /\ UNCHANGED <<req, lockOwner, disk, markers, reports, locals>>

AbortFailed(p) ==
  /\ At(p, "abort")
  /\ failed' = p /\ Goto(p, "abortDone")
  /\ UNCHANGED <<req, lockOwner, disk, running, done, reports, locals>>

AbortDone(p) ==
  /\ At(p, "abortDone")
  /\ done' = Absent /\ Goto(p, "abortRunning")
  /\ UNCHANGED <<req, lockOwner, disk, running, failed, reports, locals>>

AbortRunning(p) ==
  /\ At(p, "abortRunning")
  /\ running' = Absent /\ Goto(p, "release")
  /\ UNCHANGED <<req, lockOwner, disk, done, failed, reports, locals>>

\* The wrapper's own writes may fail; "finally" still runs what follows.
AbortStepFails(p) ==
  /\ pc[p] \in Aborting
  /\ Goto(p, IF At(p, "abortRunning") THEN "release" ELSE "abortRunning")
  /\ UNCHANGED <<req, lockOwner, disk, markers, reports, locals>>

-----------------------------------------------------------------------------
(* Kills.                                                                  *)

\* SIGKILL, node loss or the scheduler: every process of the invocation is
\* gone.  Its staging directory is left behind and never read again.
Crash(p) ==
  /\ pc[p] \in Holding
  /\ lockOwner' = Absent /\ Goto(p, "dead")
  /\ task' = [task EXCEPT ![p] = NoTasks]
  /\ unwritten' = [unwritten EXCEPT ![p] = NothingLeft]
  /\ staging' = [staging EXCEPT ![p] = NoHours]
  /\ unstaged' = [unstaged EXCEPT ![p] = {}]
  /\ UNCHANGED <<req, disk, markers, reports, probStatus, verdict>>

\* Only the parent is killed: pool workers keep running, and keep the flock.
OrphanWorkers(p) ==
  /\ \/ pc[p] \in {"members", "drain"} /\ Pooled(p)
     \/ pc[p] \in Aborting \cup {"release"} /\ Open(p)
  /\ Goto(p, "orphaned")
  /\ UNCHANGED <<req, lockOwner, disk, markers, reports, locals>>

\* The workers left behind by an interrupted drain are killed; their flock
\* was freed long ago.
KillLateWorkers(p) ==
  /\ At(p, "abandoned") /\ Open(p)
  /\ task' = [task EXCEPT ![p] = NoTasks]
  /\ unwritten' = [unwritten EXCEPT ![p] = NothingLeft]
  /\ UNCHANGED <<pc, req, lockOwner, disk, markers, reports, staging, unstaged,
                 probStatus, verdict>>

-----------------------------------------------------------------------------
\* What the invocation does when it is left to run.
Progress(p) ==
  \/ Acquire(p) \/ GiveUp(p) \/ EnsureContract(p) \/ RetractDone(p)
  \/ RetractFailed(p) \/ Announce(p)
  \/ StartMember(p) \/ MembersDone(p)
  \/ \E m \in Members : WriteOutput(p, m) \/ FinishMember(p, m)
  \/ Preflight(p) \/ StageHour(p) \/ StagingDone(p)
  \/ SwapOut(p) \/ SwapIn(p) \/ Restore(p) \/ RemoveBackup(p)
  \/ Monitor(p) \/ WriteSummary(p) \/ WriteMonitoring(p)
  \/ WriteMarker(p) \/ RetractOther(p) \/ ClearRunning(p) \/ Release(p)
  \/ Drained(p) \/ AbortFailed(p) \/ AbortDone(p) \/ AbortRunning(p)

\* What may go wrong.
Fault(p) ==
  \/ \E m \in Members : FailMember(p, m)
  \/ BreakPool(p) \/ SwapInFails(p) \/ ProbabilityFails(p)
  \/ RaiseUnmarked(p) \/ RaiseMarked(p) \/ InterruptDrain(p)
  \/ AbortStepFails(p) \/ Crash(p) \/ OrphanWorkers(p) \/ KillLateWorkers(p)

AllEnded == (\A p \in Runs : pc[p] \in Ended) /\ UNCHANGED vars

Next == (\E p \in Runs : Progress(p) \/ Fault(p)) \/ AllEnded

Spec == Init /\ [][Next]_vars

\* An invocation that is not killed keeps executing; kills and errors are
\* never owed to anyone.
FairSpec == Spec /\ \A p \in Runs : WF_vars(Progress(p))

-----------------------------------------------------------------------------
(* Properties.                                                             *)

\* Every variable keeps the shape of the file or local it stands for.
TypeOK ==
  /\ pc \in [Runs -> Stages]
  /\ req \in [Runs -> Requests]
  /\ lockOwner \in Runs \cup {Absent}
  /\ contract \in Modes \cup {Absent}
  /\ file \in [Members -> [Steps -> Content]]
  /\ unlocked \in SUBSET (Members \X Steps)
  /\ task \in [Runs -> [Members -> TaskStates]]
  /\ unwritten \in [Runs -> [Members -> SUBSET Steps]]
  /\ prob \in [Steps -> Source]
  /\ staging \in [Runs -> [Steps -> Source]]
  /\ unstaged \in [Runs -> SUBSET Steps]
  /\ backup \in [Runs -> [Steps -> Source]]
  /\ probStatus \in [Runs -> {"none", "ok", "failed", "skipped"}]
  /\ verdict \in [Runs -> BOOLEAN]
  /\ running \in Runs \cup {Absent}
  /\ done \in Runs \cup {Absent}
  /\ failed \in Runs \cup {Absent}
  /\ summary \in Runs \cup {Absent}
  /\ monitoring \in Runs \cup {Absent}

\* Contract, probabilities, markers and reports are written by the holder of
\* the flock and name it; a member output is written by the holder too, or by
\* a worker that the interrupted drain of an earlier invocation left behind.
OnlyHolderPublishes ==
  [][/\ contract' # contract => lockOwner \in Runs /\ contract' = req[lockOwner].mode
     /\ prob' # prob => lockOwner \in Runs
     /\ done' \in {done, Absent, lockOwner} /\ failed' \in {failed, Absent, lockOwner}
     /\ running' \in {running, Absent, lockOwner}
     /\ <<done', failed', running'>> # <<done, failed, running>> => lockOwner \in Runs
     /\ summary' \in {summary, lockOwner} /\ monitoring' \in {monitoring, lockOwner}
     /\ \A m \in Members, s \in Steps : file'[m][s] # file[m][s] =>
          \/ file'[m][s] = lockOwner
          \/ pc[file'[m][s]] = "abandoned" /\ <<m, s>> \in unlocked']_vars

\* Somebody of the invocation may still write into the directory.
Publishes(p) == pc[p] \in Holding \/ Open(p)

\* docs/science-and-architecture.md: "POSIX locks prevent concurrent
\* publishers".  The code frees the lock under the workers of an interrupted
\* drain, which publish beside the next holder.
PublishersNeverOverlap ==
  \A p, q \in Runs : Publishes(p) /\ Publishes(q) => p = q

\* Every output in the cycle directory was produced in the mode CONTRACT.json
\* names, whatever sequence of invocations, failures and kills produced it,
\* and outputs older than the contract are never mixed with new ones.
OutputsFollowContract ==
  \A m \in Members, s \in Steps :
    file[m][s] # Absent =>
      IF contract = Absent THEN file[m][s] = Legacy
      ELSE file[m][s] \in Runs /\ req[file[m][s]].mode = contract

\* DONE.json is a promise about the files: every member output of the hours
\* its invocation was asked for exists, and each probability hour of that
\* range was aggregated from exactly the member outputs now on disk, but for
\* those a worker without the lock has written.
Satisfied(p) ==
  /\ \A m \in MembersOf(p), s \in Hours(p) : file[m][s] \in Runs
  /\ req[p].mode \in ProbabilityModes =>
       \A s \in Hours(p) : Current(p, s, prob[s])

DoneIsComplete == done # Absent => Satisfied(done)

\* While DONE.json stands, summary.json and monitoring.json are those of the
\* invocation it names, and that invocation was judged ok.
DoneMatchesReports ==
  done # Absent => summary = done /\ monitoring = done /\ verdict[done]

\* Both terminal markers exist only while, or because, the error wrapper of
\* the invocation that wrote DONE.json overruled it and was stopped half way.
MarkersDisagreeOnlyInAbort ==
  done # Absent /\ failed # Absent =>
    done = failed /\ pc[done] \in {"abortDone", "abortRunning", "release"} \cup Ended

\* A probability hour that was ever published stays in probabilities/ or in
\* the hidden backup of the invocation that is replacing it.
AvailableHours ==
  {s \in Steps : prob[s] # NoSource \/ \E p \in Runs : backup[p][s] # NoSource}

NoHourLost == [][AvailableHours \subseteq AvailableHours']_vars

\* Once DONE.json promises a range, its probabilities do not change before
\* the marker is withdrawn, and an output changes only by the hand of a worker
\* that an interrupted drain left behind.
DoneFreezesOutputs ==
  [][done # Absent /\ done' = done =>
       /\ prob' = prob
       /\ \A m \in Members, s \in Steps : file'[m][s] # file[m][s] =>
            pc[file'[m][s]] = "abandoned" /\ <<m, s>> \in unlocked']_vars

\* The cycle directory keeps the promise of CyclePromise.
Promised == INSTANCE CyclePromise WITH
  owner <- lockOwner, promise <- done,
  satisfied <- {p \in Runs : Satisfied(p)}

KeepsPromise == Promised!Spec

\* Every invocation ends, or leaves workers that somebody must kill: no
\* lock, drain or retry waits for ever.
EveryRunEnds == \A p \in Runs : <>(pc[p] \in Ended \cup {"orphaned"})

-----------------------------------------------------------------------------
(* The inductive strengthening the proofs use.                             *)

Committed == Holding \ {"contract", "release"}
Unpromised == {"retractFailed", "announce", "monitor", "summary", "monitoring",
               "marker"} \cup Working \cup Publishing

\* The flock: whoever is past acquire() owns it.
LockInv == \A p \in Runs : pc[p] \in Holding => lockOwner = p

\* Past the comparison, and as long as anyone works for the invocation, the
\* contract is its own.
ContractInv == \A p \in Runs :
  pc[p] \in Committed \/ Open(p) => contract = req[p].mode

\* A member reported ok has all its outputs, an active one those its worker
\* has passed; every member is somebody's until the verdict, and none is open
\* before the pool starts or, unless its drain was interrupted, after it.
TaskInv == \A p \in Runs :
  /\ \A m \in MembersOf(p) : task[p][m] = "ok" =>
       \A s \in Hours(p) : file[m][s] \in Runs
  /\ \A m \in MembersOf(p) : task[p][m] = "active" =>
       \A s \in Hours(p) \ unwritten[p][m] : file[m][s] \in Runs
  /\ pc[p] \in {"members", "monitor"} \cup Publishing => TasksIn(p, {"idle"}) = {}
  /\ Open(p) => pc[p] \in Working \cup Aborting \cup {"release", "abandoned"}

\* What is staged, then published, is made of the outputs on disk.
StagedInv == \A p \in Runs :
  /\ pc[p] = "stage" =>
       TasksIn(p, {"ok"}) = MembersOf(p) /\ unstaged[p] \subseteq Hours(p)
  /\ pc[p] \in {"swapOut", "swapIn"} => unstaged[p] = {}
  /\ pc[p] \in {"stage", "swapOut", "swapIn"} =>
       \A s \in Hours(p) \ unstaged[p] : Current(p, s, staging[p][s])
PublishedInv == \A p \in Runs :
  (\/ pc[p] = "cleanup"
   \/ /\ pc[p] \in Reporting
      /\ probStatus[p] # "failed" /\ req[p].mode \in ProbabilityModes)
  => \A s \in Hours(p) : Current(p, s, prob[s])

\* A positive verdict is earned, and nothing is promised while outputs move.
VerdictInv == \A p \in Runs :
  pc[p] \in Reporting \ {"monitor"} /\ verdict[p] => Satisfied(p)
PromiseInv == \A p \in Runs :
  pc[p] \in Unpromised \/ (pc[p] \in Holding /\ Open(p)) => done = Absent

ReportInv == \A p \in Runs :
  /\ pc[p] \in {"monitoring", "marker", "retract", "clear"} => summary = p
  /\ pc[p] \in {"marker", "retract", "clear"} => monitoring = p

\* FAILED.json is gone once it was retracted, and until the end at most the
\* invocation's own marker stands.
MarkerInv == \A p \in Runs :
  /\ pc[p] \in {"announce", "monitor", "summary", "monitoring", "marker"}
              \cup {"members", "drain"} \cup Publishing => failed = Absent
  /\ pc[p] \in {"retract", "clear", "abort"} => Absent \in {done, failed}
  /\ pc[p] \in {"retract", "clear", "abort", "abortDone"} => done \in {Absent, p}

\* Staging is complete before the swap, the directory is empty between the two
\* renames, and what the backup holds is covered before it is removed.
SwapInv == \A p \in Runs :
  /\ pc[p] \in {"start", "members", "preflight", "stage", "swapOut"}
              \cup Unmarked => backup[p] = NoHours
  /\ pc[p] \in {"stage", "swapOut"} =>
       \A s \in Steps : prob[s] # NoSource => staging[p][s] # NoSource
  /\ pc[p] \in {"swapIn", "restore"} => prob = NoHours
  /\ pc[p] = "swapIn" =>
       \A s \in Steps : backup[p][s] # NoSource => staging[p][s] # NoSource
  /\ pc[p] = "cleanup" =>
       \A s \in Steps : backup[p][s] # NoSource => prob[s] # NoSource

Inv ==
  /\ TypeOK /\ LockInv /\ ContractInv /\ OutputsFollowContract
  /\ TaskInv /\ StagedInv /\ PublishedInv /\ VerdictInv /\ PromiseInv
  /\ DoneIsComplete /\ ReportInv /\ DoneMatchesReports
=============================================================================
