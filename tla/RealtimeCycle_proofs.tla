-------------------------- MODULE RealtimeCycle_proofs --------------------------
(***************************************************************************)
(* Theorems about a cycle.  First those about OperationalRun, for every    *)
(* set of invocations, members, steps, modes and requests; then those      *)
(* about RealtimeCycle, whose nested runs keep the invariant of the first, *)
(* for every set of orchestrators, of runs made by hand and of faults,     *)
(* every horizon and every arrival order.                                  *)
(***************************************************************************)
EXTENDS RealtimeCycle, WellOrder, TLAPS

-----------------------------------------------------------------------------
(* OperationalRun: types.                                                  *)

\* The first of a set of hours is one of them.
LEMMA LeastIsMember ==
  ASSUME NEW S, S \subseteq Nat, S # {}
  PROVE  Least(S) \in S
  BY NatHasLeast DEF Least

\* The hour an active worker writes next is an hour of the cycle.
LEMMA NextHour ==
  ASSUME NEW p \in Runs, NEW m \in Members, TypeOK, unwritten[p][m] # {}
  PROVE  Least(unwritten[p][m]) \in unwritten[p][m] /\ Least(unwritten[p][m]) \in Steps
<1>1. unwritten[p][m] \subseteq Steps
  BY DEF TypeOK
<1>2. QED
  BY <1>1, LeastIsMember, RangesAssumption

\* An hour aggregated from the member outputs on disk is a well-typed source.
LEMMA AggregateType ==
  ASSUME NEW p \in Runs, NEW s \in Steps, TypeOK
  PROVE  Aggregate(p, s) \in Source
  BY DEF Aggregate, Source, Content, TypeOK

\* A step of one invocation keeps every variable in its type.
LEMMA StepType ==
  ASSUME NEW p \in Runs, TypeOK, Progress(p) \/ Fault(p)
  PROVE  TypeOK'
<1> USE DEF TypeOK, disk, outputs, markers, reports, pool, locals, Goto, At,
            Stages, Holding, Unmarked, Working, Publishing, Reporting,
            Aborting, Ended
<1>1. NoHours \in [Steps -> Source]
  BY DEF NoHours, NoSource, Source, Content
<1>2. NoTasks \in [Members -> TaskStates] /\ NothingLeft \in [Members -> SUBSET Steps]
  BY DEF NoTasks, TaskStates, NothingLeft
<1>3. CASE Acquire(p)
  BY <1>3 DEF Acquire
<1>4. CASE GiveUp(p)
  BY <1>4 DEF GiveUp
<1>5. CASE EnsureContract(p)
  <2>1. req[p].mode \in Modes
    BY RequestsAssumption
  <2>2. contract' \in Modes \cup {Absent} /\ pc' \in [Runs -> Stages]
    BY <1>5, <2>1 DEF EnsureContract
  <2>3. QED
    BY <1>5, <2>2 DEF EnsureContract
<1>6. CASE RetractDone(p) \/ RetractFailed(p) \/ Announce(p)
  <2>1. [m \in Members |-> "queued"] \in [Members -> TaskStates]
    BY DEF TaskStates
  <2>2. CASE Announce(p)
    BY <2>1, <2>2 DEF Announce
  <2>3. CASE RetractDone(p) \/ RetractFailed(p)
    BY <2>3 DEF RetractDone, RetractFailed
  <2>4. QED
    BY <1>6, <2>2, <2>3
<1>7. CASE StartMember(p)
  <2> DEFINE m == Least(TasksIn(p, {"queued"}))
             reuse == req[p].resume /\ AllOutputsValid(p, m)
  <2>1. /\ task' = [task EXCEPT ![p][m] = IF reuse THEN "ok" ELSE "active"]
        /\ unwritten' = IF reuse THEN unwritten
                        ELSE [unwritten EXCEPT ![p][m] = Hours(p)]
    BY <1>7 DEF StartMember
  <2> HIDE DEF m, reuse
  <2>2. task' \in [Runs -> [Members -> TaskStates]]
    BY <2>1 DEF TaskStates
  <2>3. unwritten' \in [Runs -> [Members -> SUBSET Steps]]
    BY <2>1 DEF Hours
  <2>4. QED
    BY <1>7, <2>2, <2>3 DEF StartMember
<1>8. ASSUME NEW m \in Members, WriteOutput(p, m)
      PROVE  TypeOK'
  <2> DEFINE s == Least(unwritten[p][m])
  <2>1. s \in Steps
    BY <1>8, NextHour DEF WriteOutput
  <2>2. /\ file' = [file EXCEPT ![m][s] = p]
        /\ unwritten' = [unwritten EXCEPT ![p][m] = @ \ {s}]
        /\ unlocked' = unlocked \cup {<<m, s>>} \/ unlocked' = unlocked \ {<<m, s>>}
    BY <1>8 DEF WriteOutput
  <2> HIDE DEF s
  <2>3. file' \in [Members -> [Steps -> Content]]
    BY <2>2 DEF Content
  <2>4. unlocked' \in SUBSET (Members \X Steps)
    BY <2>1, <2>2
  <2>5. unwritten' \in [Runs -> [Members -> SUBSET Steps]]
    BY <2>2
  <2>6. QED
    BY <1>8, <2>3, <2>4, <2>5 DEF WriteOutput
<1>9. ASSUME NEW m \in Members, FinishMember(p, m)
      PROVE  TypeOK'
  BY <1>9 DEF FinishMember, TaskStates
<1>10. ASSUME NEW m \in Members, FailMember(p, m)
      PROVE  TypeOK'
  BY <1>10 DEF FailMember, TaskStates
<1>11. CASE MembersDone(p)
  <2>1. CASE req[p].mode \in ProbabilityModes
    BY <1>11, <2>1 DEF MembersDone
  <2>2. CASE req[p].mode \notin ProbabilityModes
    BY <1>11, <2>2 DEF MembersDone
  <2>3. QED
    BY <2>1, <2>2
<1>12. CASE Preflight(p)
  <2>1. CASE Complete(p)
    <3>1. /\ staging' = [staging EXCEPT ![p] = prob]
          /\ unstaged' = [unstaged EXCEPT ![p] = Hours(p)]
          /\ Hours(p) \in SUBSET Steps
      BY <1>12, <2>1 DEF Preflight, Hours
    <3>2. staging' \in [Runs -> [Steps -> Source]] /\ unstaged' \in [Runs -> SUBSET Steps]
      BY <3>1
    <3>3. QED
      BY <1>12, <2>1, <3>2 DEF Preflight
  <2>2. CASE ~Complete(p)
    BY <1>12, <2>2 DEF Preflight
  <2>3. QED
    BY <2>1, <2>2
<1>13. CASE StageHour(p)
  <2> DEFINE s == Least(unstaged[p])
  <2>1. s \in Steps
    <3>1. unstaged[p] \subseteq Steps /\ unstaged[p] # {}
      BY <1>13 DEF StageHour
    <3>2. QED
      BY <3>1, LeastIsMember, RangesAssumption
  <2>2. /\ staging' = [staging EXCEPT ![p][s] = Aggregate(p, s)]
        /\ unstaged' = [unstaged EXCEPT ![p] = @ \ {s}]
    BY <1>13 DEF StageHour
  <2>3. Aggregate(p, s) \in Source
    BY <2>1, AggregateType
  <2> HIDE DEF s
  <2>4. staging' \in [Runs -> [Steps -> Source]] /\ unstaged' \in [Runs -> SUBSET Steps]
    BY <2>1, <2>2, <2>3
  <2>5. QED
    BY <1>13, <2>4 DEF StageHour
<1>14. CASE StagingDone(p) \/ SwapInFails(p)
  BY <1>14 DEF StagingDone, SwapInFails
<1>15. CASE SwapOut(p)
  BY <1>1, <1>15 DEF SwapOut
<1>16. CASE SwapIn(p)
  BY <1>1, <1>16 DEF SwapIn
<1>17. CASE Restore(p)
  BY <1>1, <1>17 DEF Restore
<1>18. CASE RemoveBackup(p)
  BY <1>1, <1>18 DEF RemoveBackup
<1>19. CASE ProbabilityFails(p)
  BY <1>1, <1>19 DEF ProbabilityFails
<1>20. CASE Monitor(p)
  BY <1>20 DEF Monitor
<1>21. CASE WriteSummary(p) \/ WriteMonitoring(p)
  BY <1>21 DEF WriteSummary, WriteMonitoring
<1>22. CASE WriteMarker(p) \/ RetractOther(p) \/ ClearRunning(p)
  BY <1>22 DEF WriteMarker, RetractOther, ClearRunning
<1>23. CASE Release(p)
  <2>1. task' \in [Runs -> [Members -> TaskStates]]
    <3>1. task' = task \/ task' = [task EXCEPT ![p] = NoTasks]
      BY <1>23 DEF Release
    <3>2. QED
      BY <1>2, <3>1
  <2>2. pc' \in [Runs -> Stages]
    BY <1>23 DEF Release
  <2>3. QED
    BY <1>23, <2>1, <2>2 DEF Release
<1>24. CASE Drained(p) \/ RaiseUnmarked(p) \/ OrphanWorkers(p) \/ InterruptDrain(p)
  BY <1>24 DEF Drained, RaiseUnmarked, OrphanWorkers, InterruptDrain
<1>25. CASE AbortFailed(p) \/ AbortDone(p) \/ AbortRunning(p) \/ AbortStepFails(p)
  BY <1>25 DEF AbortFailed, AbortDone, AbortRunning, AbortStepFails
<1>26. CASE BreakPool(p)
  BY <1>2, <1>26 DEF BreakPool, TaskStates
<1>27. CASE RaiseMarked(p)
  <2>1. /\ task' \in [Runs -> [Members -> TaskStates]]
        /\ unwritten' \in [Runs -> [Members -> SUBSET Steps]]
    <3>1. \/ task' = task /\ unwritten' = unwritten
          \/ /\ task' = [task EXCEPT ![p] = NoTasks]
             /\ unwritten' = [unwritten EXCEPT ![p] = NothingLeft]
      BY <1>27 DEF RaiseMarked
    <3>2. task' \in [Runs -> [Members -> TaskStates]]
      BY <1>2, <3>1
    <3>3. unwritten' \in [Runs -> [Members -> SUBSET Steps]]
      BY <1>2, <3>1
    <3>4. QED
      BY <3>2, <3>3
  <2>2. /\ staging' \in [Runs -> [Steps -> Source]]
        /\ unstaged' \in [Runs -> SUBSET Steps]
    BY <1>1, <1>27 DEF RaiseMarked
  <2>3. pc' \in [Runs -> Stages]
    <3>1. \E where \in {"drain", "abort"} : pc' = [pc EXCEPT ![p] = where]
      BY <1>27 DEF RaiseMarked
    <3>2. QED
      BY <3>1
  <2>4. QED
    BY <1>27, <2>1, <2>2, <2>3 DEF RaiseMarked
<1>28. CASE Crash(p) \/ KillLateWorkers(p)
  <2>1. /\ task' \in [Runs -> [Members -> TaskStates]]
        /\ unwritten' \in [Runs -> [Members -> SUBSET Steps]]
    <3>1. /\ task' = [task EXCEPT ![p] = NoTasks]
          /\ unwritten' = [unwritten EXCEPT ![p] = NothingLeft]
      BY <1>28 DEF Crash, KillLateWorkers
    <3>2. QED
      BY <1>2, <3>1
  <2>2. /\ staging' \in [Runs -> [Steps -> Source]]
        /\ unstaged' \in [Runs -> SUBSET Steps]
    <3>1. \/ staging' = staging /\ unstaged' = unstaged
          \/ /\ staging' = [staging EXCEPT ![p] = NoHours]
             /\ unstaged' = [unstaged EXCEPT ![p] = {}]
      BY <1>28 DEF Crash, KillLateWorkers
    <3>2. staging' \in [Runs -> [Steps -> Source]]
      BY <1>1, <3>1
    <3>3. unstaged' \in [Runs -> SUBSET Steps]
      BY <3>1
    <3>4. QED
      BY <3>2, <3>3
  <2>3. pc' \in [Runs -> Stages]
    BY <1>28 DEF Crash, KillLateWorkers
  <2>4. QED
    BY <1>28, <2>1, <2>2, <2>3 DEF Crash, KillLateWorkers
<1>29. QED
  BY <1>3, <1>4, <1>5, <1>6, <1>7, <1>8, <1>9, <1>10, <1>11, <1>12, <1>13, <1>14,
     <1>15, <1>16, <1>17, <1>18, <1>19, <1>20, <1>21, <1>22, <1>23, <1>24,
     <1>25, <1>26, <1>27, <1>28
     DEF Progress, Fault

\* Init establishes the types.
LEMMA InitType == Init => TypeOK
<1> SUFFICES ASSUME Init PROVE TypeOK
  OBVIOUS
<1>1. /\ NoHours \in [Steps -> Source] /\ NoTasks \in [Members -> TaskStates]
      /\ NothingLeft \in [Members -> SUBSET Steps]
  BY DEF NoHours, NoSource, Source, Content, NoTasks, TaskStates, NothingLeft
<1>2. file \in [Members -> [Steps -> Content]]
  BY DEF Init, Content
<1>3. QED
  BY <1>1, <1>2 DEF Init, TypeOK, Stages

\* Type correctness of the cycle directory and of every invocation's locals.
THEOREM TypeCorrect == Spec => []TypeOK
<1>1. TypeOK /\ [Next]_vars => TypeOK'
  <2> SUFFICES ASSUME TypeOK, [Next]_vars PROVE TypeOK'
    OBVIOUS
  <2>1. CASE UNCHANGED vars
    BY <2>1 DEF TypeOK, vars, disk, outputs, markers, reports, pool, locals
  <2>2. CASE \E p \in Runs : Progress(p) \/ Fault(p)
    BY <2>2, StepType
  <2>3. QED
    BY <2>1, <2>2 DEF Next, AllEnded
<1>2. QED
  BY <1>1, InitType, PTL DEF Spec

-----------------------------------------------------------------------------
(* What a step of p leaves alone.                                          *)

\* The arguments never change, and only p's own locals do.
LEMMA OwnLocals ==
  ASSUME NEW p \in Runs, TypeOK, Progress(p) \/ Fault(p)
  PROVE  /\ req' = req
         /\ \A q \in Runs \ {p} :
              /\ pc'[q] = pc[q] /\ task'[q] = task[q]
              /\ unwritten'[q] = unwritten[q] /\ unstaged'[q] = unstaged[q]
              /\ staging'[q] = staging[q] /\ probStatus'[q] = probStatus[q]
              /\ verdict'[q] = verdict[q]
  BY DEF TypeOK, Progress, Fault, Goto, disk, outputs, markers, reports, pool, locals,
         Acquire, GiveUp, EnsureContract, RetractDone, RetractFailed, Announce,
         StartMember, WriteOutput, FinishMember, FailMember, BreakPool,
         MembersDone, Preflight, StageHour, StagingDone, SwapOut, SwapIn,
         SwapInFails, Restore, ProbabilityFails, RemoveBackup, Monitor,
         WriteSummary, WriteMonitoring, WriteMarker, RetractOther,
         ClearRunning, Release, RaiseUnmarked, RaiseMarked, Drained,
         AbortFailed, AbortDone, AbortRunning, AbortStepFails, Crash,
         OrphanWorkers, InterruptDrain, KillLateWorkers

\* Files move only in the stages that move them, outputs only while a member
\* is open.
LEMMA DiskFrame ==
  ASSUME NEW p \in Runs, TypeOK, Progress(p) \/ Fault(p)
  PROVE  /\ ~Open(p) => UNCHANGED outputs
         /\ pc[p] \notin {"swapOut", "swapIn", "restore"} => prob' = prob
         /\ pc[p] # "contract" => contract' = contract
         /\ pc[p] # "summary" => summary' = summary
         /\ pc[p] # "monitoring" => monitoring' = monitoring
         /\ pc[p] # "monitor" => verdict' = verdict
         /\ \/ done' = done \/ done' = Absent
            \/ done' = p /\ pc[p] = "marker" /\ verdict[p]
  BY DEF TypeOK, Progress, Fault, Goto, At, disk, outputs, markers, reports, pool, locals,
         Open, TasksIn,
         Acquire, GiveUp, EnsureContract, RetractDone, RetractFailed, Announce,
         StartMember, WriteOutput, FinishMember, FailMember, BreakPool,
         MembersDone, Preflight, StageHour, StagingDone, SwapOut, SwapIn,
         SwapInFails, Restore, ProbabilityFails, RemoveBackup, Monitor,
         WriteSummary, WriteMonitoring, WriteMarker, RetractOther,
         ClearRunning, Release, RaiseUnmarked, RaiseMarked, Drained,
         AbortFailed, AbortDone, AbortRunning, AbortStepFails, Crash,
         OrphanWorkers, InterruptDrain, KillLateWorkers

\* The lock changes hands only through acquire, release and kills.
LEMMA LockFrame ==
  ASSUME NEW p \in Runs, TypeOK, Progress(p) \/ Fault(p)
  PROVE  \/ /\ pc[p] = "start" /\ lockOwner = Absent /\ lockOwner' = p
         \/ /\ pc[p] = "start" /\ lockOwner # Absent /\ lockOwner' = lockOwner
            /\ pc'[p] = "finished"
         \/ /\ pc[p] \in Holding /\ lockOwner' = lockOwner
            /\ pc'[p] \in Holding
         \/ /\ pc[p] \in Holding /\ lockOwner' = Absent
            /\ pc'[p] \in Ended
         \/ pc'[p] = pc[p] /\ lockOwner' = lockOwner
  BY DEF TypeOK, Progress, Fault, Goto, At, disk, outputs, markers, reports, pool, locals,
         Holding, Unmarked, Working, Publishing, Reporting, Aborting, Marked,
         Ended,
         Acquire, GiveUp, EnsureContract, RetractDone, RetractFailed, Announce,
         StartMember, WriteOutput, FinishMember, FailMember, BreakPool,
         MembersDone, Preflight, StageHour, StagingDone, SwapOut, SwapIn,
         SwapInFails, Restore, ProbabilityFails, RemoveBackup, Monitor,
         WriteSummary, WriteMonitoring, WriteMarker, RetractOther,
         ClearRunning, Release, RaiseUnmarked, RaiseMarked, Drained,
         AbortFailed, AbortDone, AbortRunning, AbortStepFails, Crash,
         OrphanWorkers, InterruptDrain, KillLateWorkers

-----------------------------------------------------------------------------
(* Member tasks.                                                           *)

\* Outputs, once written by an invocation, stay written by some invocation.
LEMMA FilesStay ==
  ASSUME NEW p \in Runs, TypeOK, Progress(p) \/ Fault(p),
         NEW m \in Members, NEW s \in Steps, file[m][s] \in Runs
  PROVE  file'[m][s] \in Runs
<1>1. ASSUME NEW n \in Members, WriteOutput(p, n)
      PROVE  file'[m][s] \in Runs
  BY <1>1 DEF WriteOutput, TypeOK
<1>2. CASE file' = file
  BY <1>2
<1>3. QED
  BY <1>1, <1>2
     DEF Progress, Fault, disk, outputs, markers, reports, pool, locals,
         Acquire, GiveUp, EnsureContract, RetractDone, RetractFailed,
         Announce, StartMember, FinishMember, FailMember, BreakPool,
         MembersDone, Preflight, StageHour, StagingDone, SwapOut, SwapIn,
         SwapInFails, Restore, ProbabilityFails, RemoveBackup, Monitor,
         WriteSummary, WriteMonitoring, WriteMarker, RetractOther,
         ClearRunning, Release, RaiseUnmarked, RaiseMarked, Drained,
         AbortFailed, AbortDone, AbortRunning, AbortStepFails, Crash,
         OrphanWorkers, InterruptDrain, KillLateWorkers

\* What a worker of p has written is written.
LEMMA Passed ==
  ASSUME NEW p \in Runs, TypeOK, NEW m \in Members, WriteOutput(p, m),
         NEW s \in Steps, s \notin unwritten'[p][m]
  PROVE  s \notin unwritten[p][m] \/ file'[m][s] \in Runs
<1> DEFINE h == Least(unwritten[p][m])
<1>1. /\ file' = [file EXCEPT ![m][h] = p]
      /\ unwritten' = [unwritten EXCEPT ![p][m] = @ \ {h}]
  BY DEF WriteOutput
<1> HIDE DEF h
<1>2. CASE s = h
  BY <1>1, <1>2 DEF TypeOK
<1>3. CASE s # h
  BY <1>1, <1>3 DEF TypeOK
<1>4. QED
  BY <1>2, <1>3

\* A member turns "ok" only when its outputs have been verified or written.
LEMMA TurnsOk ==
  ASSUME NEW p \in Runs, TypeOK, TaskInv, Progress(p) \/ Fault(p),
         NEW m \in MembersOf(p), task[p][m] # "ok", task'[p][m] = "ok",
         NEW s \in Hours(p)
  PROVE  file[m][s] \in Runs
<1>0. m \in Members
  BY RequestsAssumption DEF TypeOK, MembersOf
<1>1. CASE StartMember(p)
  <2> DEFINE n == Least(TasksIn(p, {"queued"}))
             reuse == req[p].resume /\ AllOutputsValid(p, n)
  <2>1. task' = [task EXCEPT ![p][n] = IF reuse THEN "ok" ELSE "active"]
    BY <1>1 DEF StartMember
  <2>2. m = n /\ reuse
    BY <1>0, <2>1 DEF TypeOK
  <2>3. QED
    BY <2>2 DEF AllOutputsValid, ValidOutput
<1>2. ASSUME NEW n \in Members, FinishMember(p, n)
      PROVE  file[m][s] \in Runs
  <2>1. m = n
    BY <1>0, <1>2 DEF FinishMember, TypeOK
  <2>2. task[p][m] = "active" /\ unwritten[p][m] = {}
    BY <1>2, <2>1 DEF FinishMember, TasksIn
  <2>3. QED
    BY <2>2 DEF TaskInv
<1>3. ASSUME NEW n \in Members, FailMember(p, n)
      PROVE  FALSE
  BY <1>0, <1>3 DEF FailMember, TypeOK
<1>4. CASE BreakPool(p)
  BY <1>0, <1>4 DEF BreakPool, TypeOK
<1>5. CASE Release(p) \/ Crash(p) \/ RaiseMarked(p) \/ KillLateWorkers(p)
  BY <1>0, <1>5
     DEF Release, Crash, RaiseMarked, KillLateWorkers, NoTasks, pool, TypeOK
<1>6. CASE Announce(p)
  BY <1>0, <1>6 DEF Announce, TypeOK
<1>7. CASE task' = task
  BY <1>7
<1>8. QED
  BY <1>1, <1>2, <1>3, <1>4, <1>5, <1>6, <1>7
     DEF Progress, Fault, disk, outputs, markers, reports, pool, locals,
         Acquire, GiveUp, EnsureContract, RetractDone, RetractFailed,
         WriteOutput, MembersDone, Preflight, StageHour, StagingDone,
         SwapOut, SwapIn, SwapInFails, Restore, ProbabilityFails,
         RemoveBackup, Monitor, WriteSummary, WriteMonitoring, WriteMarker,
         RetractOther, ClearRunning, RaiseUnmarked, Drained, AbortFailed,
         AbortDone, AbortRunning, AbortStepFails, OrphanWorkers,
         InterruptDrain

\* An active worker has written the hours it has passed.
LEMMA ActivePassed ==
  ASSUME NEW p \in Runs, TypeOK, TaskInv, Progress(p) \/ Fault(p),
         NEW m \in MembersOf(p), task'[p][m] = "active",
         NEW s \in Hours(p), s \notin unwritten'[p][m]
  PROVE  file'[m][s] \in Runs
<1>0. m \in Members /\ s \in Steps
  BY RequestsAssumption DEF TypeOK, MembersOf, Hours
<1>1. CASE StartMember(p)
  <2> DEFINE n == Least(TasksIn(p, {"queued"}))
             reuse == req[p].resume /\ AllOutputsValid(p, n)
  <2>1. /\ task' = [task EXCEPT ![p][n] = IF reuse THEN "ok" ELSE "active"]
        /\ unwritten' = IF reuse THEN unwritten
                        ELSE [unwritten EXCEPT ![p][n] = Hours(p)]
        /\ file' = file
    BY <1>1 DEF StartMember, disk, outputs
  <2> HIDE DEF n, reuse
  <2>2. m # n \/ reuse
    BY <1>0, <2>1 DEF TypeOK
  <2>3. m # n
    BY <1>0, <2>1, <2>2 DEF TypeOK
  <2>4. task[p][m] = "active" /\ s \notin unwritten[p][m]
    BY <1>0, <2>1, <2>3 DEF TypeOK
  <2>5. QED
    BY <2>1, <2>4 DEF TaskInv
<1>2. ASSUME NEW n \in Members, WriteOutput(p, n)
      PROVE  file'[m][s] \in Runs
  <2>1. task[p][m] = "active"
    BY <1>2 DEF WriteOutput
  <2>2. CASE n # m
    <3>1. unwritten'[p][m] = unwritten[p][m]
      BY <1>0, <1>2, <2>2 DEF WriteOutput, TypeOK
    <3>2. file[m][s] \in Runs
      BY <2>1, <3>1 DEF TaskInv
    <3>3. QED
      BY <1>0, <3>2, FilesStay
  <2>3. CASE n = m
    <3>1. CASE s \notin unwritten[p][m]
      <4>1. file[m][s] \in Runs
        BY <2>1, <3>1 DEF TaskInv
      <4>2. QED
        BY <1>0, <4>1, FilesStay
    <3>2. CASE s \in unwritten[p][m]
      BY <1>0, <1>2, <2>3, <3>2, Passed
    <3>3. QED
      BY <3>1, <3>2
  <2>4. QED
    BY <2>2, <2>3
<1>3. ASSUME NEW n \in Members, FailMember(p, n)
      PROVE  task[p][m] = "active" /\ s \notin unwritten[p][m]
  BY <1>0, <1>3 DEF FailMember, TypeOK
<1>4. ASSUME NEW n \in Members, FinishMember(p, n)
      PROVE  task[p][m] = "active" /\ s \notin unwritten[p][m]
  BY <1>0, <1>4 DEF FinishMember, TypeOK
<1>5. CASE BreakPool(p)
  BY <1>0, <1>5 DEF BreakPool, TasksIn, TypeOK
<1>6. ASSUME \/ Release(p) \/ Crash(p) \/ RaiseMarked(p) \/ KillLateWorkers(p)
             \/ Announce(p)
      PROVE  task[p][m] = "active" /\ s \notin unwritten[p][m]
  BY <1>0, <1>6
     DEF Release, Crash, RaiseMarked, KillLateWorkers, Announce, NoTasks, pool,
         TypeOK
<1>7. CASE task[p][m] = "active" /\ s \notin unwritten[p][m]
  <2>1. file[m][s] \in Runs
    BY <1>7 DEF TaskInv
  <2>2. QED
    BY <1>0, <2>1, FilesStay
<1>8. CASE task' = task /\ unwritten' = unwritten
  BY <1>7, <1>8
<1>9. QED
  BY <1>1, <1>2, <1>3, <1>4, <1>5, <1>6, <1>7, <1>8
     DEF Progress, Fault, disk, outputs, markers, reports, pool, locals,
         Acquire, GiveUp, EnsureContract, RetractDone, RetractFailed,
         MembersDone, Preflight, StageHour, StagingDone, SwapOut, SwapIn,
         SwapInFails, Restore, ProbabilityFails, RemoveBackup, Monitor,
         WriteSummary, WriteMonitoring, WriteMarker, RetractOther,
         ClearRunning, RaiseUnmarked, Drained, AbortFailed, AbortDone,
         AbortRunning, AbortStepFails, OrphanWorkers, InterruptDrain

\* Tasks are opened by Announce only.
LEMMA TasksOpen ==
  ASSUME NEW p \in Runs, TypeOK, Progress(p) \/ Fault(p), Open(p)', ~Open(p)
  PROVE  Announce(p) /\ pc[p] = "announce"
<1>1. req' = req
  BY OwnLocals
<1>2. CASE Release(p) \/ Crash(p) \/ RaiseMarked(p) \/ KillLateWorkers(p)
  BY <1>1, <1>2, RequestsAssumption
     DEF Release, Crash, RaiseMarked, KillLateWorkers, Open, TasksIn,
         MembersOf, NoTasks, pool, TypeOK
<1>3. CASE task' = task
  BY <1>1, <1>3 DEF Open, TasksIn, MembersOf
<1>4. QED
  BY <1>2, <1>3
     DEF Progress, Fault, Open, TasksIn, At, disk, outputs, markers, reports,
         pool, locals,
         Acquire, GiveUp, EnsureContract, RetractDone, RetractFailed,
         Announce, StartMember, WriteOutput, FinishMember, FailMember,
         BreakPool, MembersDone, Preflight, StageHour, StagingDone, SwapOut,
         SwapIn, SwapInFails, Restore, ProbabilityFails, RemoveBackup,
         Monitor, WriteSummary, WriteMonitoring, WriteMarker, RetractOther,
         ClearRunning, RaiseUnmarked, Drained, AbortFailed, AbortDone,
         AbortRunning, AbortStepFails, OrphanWorkers, InterruptDrain

\* Tasks are open only while a pool, or what is left of one, works on them.
LEMMA PoolLeft ==
  ASSUME NEW p \in Runs, TypeOK, TaskInv, Progress(p) \/ Fault(p), Open(p)'
  PROVE  pc'[p] \in Working \cup Aborting \cup {"release", "abandoned"}
<1> USE DEF Publishing, Reporting, Working, Unmarked, Aborting, Holding,
            Marked, Ended
<1>0. Open(p) => pc[p] \in Working \cup Aborting \cup {"release", "abandoned"}
  BY DEF TaskInv
<1>1. req' = req /\ pc \in [Runs -> Stages]
  BY OwnLocals DEF TypeOK
<1>2. CASE ~Open(p)
  <2>1. Announce(p)
    BY <1>2, TasksOpen
  <2>2. QED
    BY <1>1, <2>1 DEF Announce, Goto
<1>3. CASE Open(p)
  <2>1. ~Crash(p)
    <3>1. MembersOf(p) \subseteq Members /\ task \in [Runs -> [Members -> TaskStates]]
      BY RequestsAssumption DEF TypeOK, MembersOf
    <3>2. QED
      BY <1>1, <3>1 DEF Crash, NoTasks, Open, TasksIn, MembersOf
  <2>2. QED
    BY <1>0, <1>1, <1>3, <2>1
       DEF Progress, Fault, Goto, At,
         Acquire, GiveUp, EnsureContract, RetractDone, RetractFailed,
         Announce, StartMember, WriteOutput, FinishMember, FailMember,
         BreakPool, MembersDone, Preflight, StageHour, StagingDone, SwapOut,
         SwapIn, SwapInFails, Restore, ProbabilityFails, RemoveBackup,
         Monitor, WriteSummary, WriteMonitoring, WriteMarker, RetractOther,
         ClearRunning, Release, RaiseUnmarked, RaiseMarked, Drained,
         AbortFailed, AbortDone, AbortRunning, AbortStepFails, Crash,
         OrphanWorkers, InterruptDrain, KillLateWorkers
<1>4. QED
  BY <1>2, <1>3

\* No member is nobody's between Announce and the verdict.
LEMMA Assigned ==
  ASSUME NEW p \in Runs, TypeOK, TaskInv, Progress(p) \/ Fault(p),
         pc'[p] \in {"members", "monitor"} \cup Publishing
  PROVE  TasksIn(p, {"idle"})' = {}
<1> USE DEF Publishing, Reporting, Working, Unmarked, Aborting, Holding,
            Marked, Ended
<1>0. req' = req /\ MembersOf(p) \subseteq Members /\ pc \in [Runs -> Stages]
  BY OwnLocals, RequestsAssumption DEF TypeOK, MembersOf
<1>1. CASE Announce(p)
  BY <1>0, <1>1 DEF Announce, TasksIn, MembersOf, TypeOK
<1>2. CASE ~Announce(p)
  <2>1. pc[p] \in {"members", "monitor"} \cup Publishing
    BY <1>0, <1>2
       DEF Progress, Fault, Goto, At,
         Acquire, GiveUp, EnsureContract, RetractDone, RetractFailed, Announce,
         StartMember, WriteOutput, FinishMember, FailMember, BreakPool,
         MembersDone, Preflight, StageHour, StagingDone, SwapOut, SwapIn,
         SwapInFails, Restore, ProbabilityFails, RemoveBackup, Monitor,
         WriteSummary, WriteMonitoring, WriteMarker, RetractOther,
         ClearRunning, Release, RaiseUnmarked, RaiseMarked, Drained,
         AbortFailed, AbortDone, AbortRunning, AbortStepFails, Crash,
         OrphanWorkers, InterruptDrain, KillLateWorkers
  <2>2. TasksIn(p, {"idle"}) = {}
    BY <2>1 DEF TaskInv
  <2>3. ASSUME NEW m \in MembersOf(p), task'[p][m] = "idle"
        PROVE  task[p][m] = "idle"
    <3>0. m \in Members
      BY <1>0
    <3>1. CASE Release(p) \/ Crash(p) \/ RaiseMarked(p) \/ KillLateWorkers(p)
      <4>1. ~Release(p) /\ ~Crash(p) /\ ~KillLateWorkers(p)
        BY <1>0, <2>1 DEF Release, Crash, KillLateWorkers, Goto, At
      <4>2. RaiseMarked(p) => task' = task
        BY <1>0 DEF RaiseMarked, Goto, pool
      <4>3. QED
        BY <2>3, <3>1, <4>1, <4>2
    <3>2. CASE StartMember(p) \/ BreakPool(p)
      BY <2>3, <3>0, <3>2 DEF StartMember, BreakPool, TypeOK
    <3>3. ASSUME NEW n \in Members, FinishMember(p, n) \/ FailMember(p, n)
          PROVE  task[p][m] = "idle"
      BY <2>3, <3>0, <3>3 DEF FinishMember, FailMember, TypeOK
    <3>4. CASE task' = task
      BY <2>3, <3>4
    <3>5. QED
      BY <1>2, <3>1, <3>2, <3>3, <3>4
         DEF Progress, Fault, disk, outputs, markers, reports, pool, locals,
         Acquire, GiveUp, EnsureContract, RetractDone, RetractFailed,
         WriteOutput, MembersDone, Preflight, StageHour, StagingDone,
         SwapOut, SwapIn, SwapInFails, Restore, ProbabilityFails,
         RemoveBackup, Monitor, WriteSummary, WriteMonitoring, WriteMarker,
         RetractOther, ClearRunning, RaiseUnmarked, Drained, AbortFailed,
         AbortDone, AbortRunning, AbortStepFails, OrphanWorkers,
         InterruptDrain
  <2>4. QED
    BY <1>0, <2>2, <2>3 DEF TasksIn, MembersOf
<1>3. QED
  BY <1>1, <1>2

LEMMA TaskStep ==
  ASSUME NEW p \in Runs, TypeOK, TaskInv, Progress(p) \/ Fault(p)
  PROVE  TaskInv'
<1>1. ASSUME NEW q \in Runs, NEW m \in MembersOf(q)', NEW s \in Hours(q)',
             \/ task'[q][m] = "ok"
             \/ task'[q][m] = "active" /\ s \notin unwritten'[q][m]
      PROVE  file'[m][s] \in Runs
  <2>1. m \in MembersOf(q) /\ s \in Hours(q) /\ m \in Members /\ s \in Steps
    BY <1>1, OwnLocals, RequestsAssumption DEF MembersOf, Hours, TypeOK
  <2>2. CASE q # p \/ (task[q][m] = task'[q][m] /\ task[q][m] = "ok")
    <3>1. /\ task[q][m] = task'[q][m]
          /\ task[q][m] = "ok" \/ s \notin unwritten[q][m]
      BY <1>1, <2>2, OwnLocals
    <3>2. file[m][s] \in Runs
      BY <1>1, <2>1, <3>1 DEF TaskInv
    <3>3. QED
      BY <2>1, <3>2, FilesStay
  <2>3. CASE q = p /\ task'[q][m] = "ok" /\ task[q][m] # "ok"
    <3>1. file[m][s] \in Runs
      BY <2>1, <2>3, TurnsOk
    <3>2. QED
      BY <2>1, <3>1, FilesStay
  <2>4. CASE q = p /\ task'[q][m] = "active"
    BY <1>1, <2>1, <2>4, ActivePassed
  <2>5. QED
    BY <1>1, <2>2, <2>3, <2>4
<1>2. ASSUME NEW q \in Runs, Open(q)'
      PROVE  pc'[q] \in Working \cup Aborting \cup {"release", "abandoned"}
  <2>1. CASE q = p
    BY <1>2, <2>1, PoolLeft
  <2>2. CASE q # p
    BY <1>2, <2>2, OwnLocals DEF TaskInv, Open, TasksIn, MembersOf
  <2>3. QED
    BY <2>1, <2>2
<1>3. ASSUME NEW q \in Runs, pc'[q] \in {"members", "monitor"} \cup Publishing
      PROVE  TasksIn(q, {"idle"})' = {}
  <2>1. CASE q = p
    BY <1>3, <2>1, Assigned
  <2>2. CASE q # p
    BY <1>3, <2>2, OwnLocals DEF TaskInv, TasksIn, MembersOf
  <2>3. QED
    BY <2>1, <2>2
<1>4. QED
  BY <1>1, <1>2, <1>3 DEF TaskInv

LEMMA TaskInit == Init => TaskInv
<1> SUFFICES ASSUME Init PROVE TaskInv
  OBVIOUS
<1>1. \A p \in Runs : \A m \in MembersOf(p) : task[p][m] = "idle"
  BY InitType, RequestsAssumption DEF Init, NoTasks, MembersOf, TypeOK
<1>2. \A p \in Runs : pc[p] = "start"
  BY DEF Init
<1>3. QED
  BY <1>1, <1>2 DEF TaskInv, Open, TasksIn, Publishing

\* Members succeed only with their outputs on disk, and nobody works for an
\* invocation in any other stage.
LEMMA Tasked == Spec => []TaskInv
<1>1. TypeOK /\ TaskInv /\ [Next]_vars => TaskInv'
  <2> SUFFICES ASSUME TypeOK, TaskInv, [Next]_vars PROVE TaskInv'
    OBVIOUS
  <2>1. CASE UNCHANGED vars
    BY <2>1 DEF TaskInv, Open, TasksIn, MembersOf, Hours, vars, disk, outputs,
                pool, locals
  <2>2. CASE \E p \in Runs : Progress(p) \/ Fault(p)
    BY <2>2, TaskStep
  <2>3. QED
    BY <2>1, <2>2 DEF Next, AllEnded
<1>2. QED
  BY <1>1, TaskInit, TypeCorrect, PTL DEF Spec

\* The steps of workers without the lock.
LateOnly(p) ==
  /\ unlocked \subseteq unlocked'
  /\ \A m \in Members, s \in Steps :
       file'[m][s] = file[m][s] \/ (file'[m][s] = p /\ <<m, s>> \in unlocked')

\* A worker left behind by an interrupted drain writes outputs, marked as such,
\* and nothing else.
LEMMA LateStep ==
  ASSUME NEW p \in Runs, TypeOK, Progress(p) \/ Fault(p), pc[p] = "abandoned"
  PROVE  /\ UNCHANGED <<pc, req, lockOwner, contract, prob, backup, markers,
                        reports, staging, unstaged, probStatus, verdict>>
         /\ LateOnly(p)
<1> USE DEF Working, Unmarked, Marked, Publishing, Reporting, Aborting, Holding
<1>1. ASSUME NEW m \in Members, WriteOutput(p, m)
      PROVE  LateOnly(p)
  <2> DEFINE h == Least(unwritten[p][m])
  <2>1. /\ file' = [file EXCEPT ![m][h] = p]
        /\ unlocked' = unlocked \cup {<<m, h>>}
    BY <1>1 DEF WriteOutput, At
  <2> HIDE DEF h
  <2>2. QED
    BY <2>1 DEF LateOnly, TypeOK
<1>2. ASSUME UNCHANGED outputs
      PROVE  LateOnly(p)
  BY <1>2 DEF LateOnly, outputs
<1>3. QED
  BY <1>1, <1>2
     DEF Progress, Fault, Goto, At, disk, outputs, markers, reports, pool, locals,
         Acquire, GiveUp, EnsureContract, RetractDone, RetractFailed,
         Announce, StartMember, WriteOutput, FinishMember, FailMember,
         BreakPool, MembersDone, Preflight, StageHour, StagingDone, SwapOut,
         SwapIn, SwapInFails, Restore, ProbabilityFails, RemoveBackup,
         Monitor, WriteSummary, WriteMonitoring, WriteMarker, RetractOther,
         ClearRunning, Release, RaiseUnmarked, RaiseMarked, Drained,
         AbortFailed, AbortDone, AbortRunning, AbortStepFails, Crash,
         OrphanWorkers, InterruptDrain, KillLateWorkers

-----------------------------------------------------------------------------
(* Mutual exclusion.                                                       *)

LEMMA LockStep ==
  ASSUME NEW p \in Runs, TypeOK, LockInv, Progress(p) \/ Fault(p)
  PROVE  LockInv'
<1> SUFFICES ASSUME NEW q \in Runs, pc'[q] \in Holding
             PROVE  lockOwner' = q
  BY DEF LockInv
<1>1. CASE q = p
  BY <1>1, LockFrame DEF LockInv, Holding, Unmarked, Working, Publishing,
                         Reporting, Aborting, Ended
<1>2. CASE q # p
  <2>1. pc[q] \in Holding /\ lockOwner = q
    BY <1>2, OwnLocals DEF LockInv
  <2>2. lockOwner # Absent /\ pc[p] \notin Holding
    BY <1>2, <2>1, RunsAssumption DEF LockInv
  <2>3. QED
    BY <2>1, <2>2, LockFrame
<1>3. QED
  BY <1>1, <1>2

LEMMA Locked == Spec => []LockInv
<1>1. Init => LockInv
  BY DEF Init, LockInv, Holding, Unmarked, Working, Publishing, Reporting,
         Aborting
<1>2. TypeOK /\ LockInv /\ [Next]_vars => LockInv'
  <2> SUFFICES ASSUME TypeOK, LockInv, [Next]_vars PROVE LockInv'
    OBVIOUS
  <2>1. CASE UNCHANGED vars
    BY <2>1 DEF LockInv, vars
  <2>2. CASE \E p \in Runs : Progress(p) \/ Fault(p)
    BY <2>2, LockStep
  <2>3. QED
    BY <2>1, <2>2 DEF Next, AllEnded
<1>3. QED
  BY <1>1, <1>2, TypeCorrect, PTL DEF Spec

-----------------------------------------------------------------------------
(* While q holds the lock, another invocation at most gives up, or is the  *)
(* workers that an interrupted drain left behind.                          *)

LEMMA OtherIdle ==
  ASSUME NEW p \in Runs, NEW q \in Runs, p # q, TypeOK, LockInv, TaskInv,
         pc[q] \in Holding, Progress(p) \/ Fault(p)
  PROVE  /\ pc[p] \notin Holding /\ pc'[p] \in Ended
         /\ UNCHANGED <<req, lockOwner, contract, prob, backup, markers, reports,
                        staging, unstaged, probStatus, verdict>>
         /\ LateOnly(p)
<1>1. lockOwner = q /\ lockOwner # Absent /\ pc[p] \notin Holding
  BY RunsAssumption DEF LockInv
<1>2. CASE pc[p] = "abandoned"
  BY <1>1, <1>2, LateStep DEF Ended
<1>3. CASE pc[p] # "abandoned"
  <2>1. ~Open(p)
    BY <1>1, <1>3 DEF TaskInv, Holding
  <2>2. GiveUp(p)
    BY <1>1, <1>3, <2>1
     DEF Progress, Fault, Goto, At, Open, TasksIn, Holding, Unmarked, Working,
         Publishing, Reporting, Aborting, Marked,
         Acquire, EnsureContract, RetractDone, RetractFailed, Announce,
         StartMember, WriteOutput, FinishMember, FailMember, BreakPool,
         MembersDone, Preflight, StageHour, StagingDone, SwapOut, SwapIn,
         SwapInFails, Restore, ProbabilityFails, RemoveBackup, Monitor,
         WriteSummary, WriteMonitoring, WriteMarker, RetractOther,
         ClearRunning, Release, RaiseUnmarked, RaiseMarked, Drained,
         AbortFailed, AbortDone, AbortRunning, AbortStepFails, Crash,
         OrphanWorkers, InterruptDrain, KillLateWorkers
  <2>3. QED
    BY <1>1, <2>2
       DEF GiveUp, Goto, At, Ended, TypeOK, LateOnly, disk, outputs, markers,
           reports, pool, locals
<1>4. QED
  BY <1>2, <1>3

\* What a step of p writes bears its name.
LEMMA OwnWrites ==
  ASSUME NEW p \in Runs, TypeOK, Progress(p) \/ Fault(p)
  PROVE  /\ contract' \in {contract, req[p].mode}
         /\ done' \in {done, Absent, p} /\ failed' \in {failed, Absent, p}
         /\ running' \in {running, Absent, p}
         /\ summary' \in {summary, p} /\ monitoring' \in {monitoring, p}
         /\ \A m \in Members, s \in Steps : file'[m][s] \in {file[m][s], p}
<1>1. ASSUME NEW n \in Members, WriteOutput(p, n)
      PROVE  \A m \in Members, s \in Steps : file'[m][s] \in {file[m][s], p}
  BY <1>1 DEF WriteOutput, TypeOK
<1>2. (\E n \in Members : WriteOutput(p, n)) \/ file' = file
  BY DEF Progress, Fault, disk, outputs, markers, reports, pool, locals,
         Acquire, GiveUp, EnsureContract, RetractDone, RetractFailed, Announce,
         StartMember, WriteOutput, FinishMember, FailMember, BreakPool,
         MembersDone, Preflight, StageHour, StagingDone, SwapOut, SwapIn,
         SwapInFails, Restore, ProbabilityFails, RemoveBackup, Monitor,
         WriteSummary, WriteMonitoring, WriteMarker, RetractOther,
         ClearRunning, Release, RaiseUnmarked, RaiseMarked, Drained,
         AbortFailed, AbortDone, AbortRunning, AbortStepFails, Crash,
         OrphanWorkers, InterruptDrain, KillLateWorkers
<1>3. /\ contract' \in {contract, req[p].mode}
      /\ done' \in {done, Absent, p} /\ failed' \in {failed, Absent, p}
      /\ running' \in {running, Absent, p}
      /\ summary' \in {summary, p} /\ monitoring' \in {monitoring, p}
  BY DEF Progress, Fault, disk, outputs, markers, reports, pool, locals,
         Acquire, GiveUp, EnsureContract, RetractDone, RetractFailed, Announce,
         StartMember, WriteOutput, FinishMember, FailMember, BreakPool,
         MembersDone, Preflight, StageHour, StagingDone, SwapOut, SwapIn,
         SwapInFails, Restore, ProbabilityFails, RemoveBackup, Monitor,
         WriteSummary, WriteMonitoring, WriteMarker, RetractOther,
         ClearRunning, Release, RaiseUnmarked, RaiseMarked, Drained,
         AbortFailed, AbortDone, AbortRunning, AbortStepFails, Crash,
         OrphanWorkers, InterruptDrain, KillLateWorkers
<1>4. QED
  BY <1>1, <1>2, <1>3

\* Without the lock, and with no worker left, an invocation writes nothing.
LEMMA IdleWritesNothing ==
  ASSUME NEW p \in Runs, TypeOK, Progress(p) \/ Fault(p), pc[p] \notin Holding,
         ~Open(p)
  PROVE  UNCHANGED <<disk, markers, reports>>
  BY DEF Progress, Fault, Goto, At, Open, TasksIn, Holding, Unmarked, Working,
         Publishing, Reporting, Aborting, Marked,
         Acquire, GiveUp, EnsureContract, RetractDone, RetractFailed, Announce,
         StartMember, WriteOutput, FinishMember, FailMember, BreakPool,
         MembersDone, Preflight, StageHour, StagingDone, SwapOut, SwapIn,
         SwapInFails, Restore, ProbabilityFails, RemoveBackup, Monitor,
         WriteSummary, WriteMonitoring, WriteMarker, RetractOther,
         ClearRunning, Release, RaiseUnmarked, RaiseMarked, Drained,
         AbortFailed, AbortDone, AbortRunning, AbortStepFails, Crash,
         OrphanWorkers, InterruptDrain, KillLateWorkers

\* The cycle directory is written by the holder of the flock, except for the
\* outputs that workers of an interrupted drain still replace.
THEOREM HolderPublishes == Spec => OnlyHolderPublishes
<1> DEFINE Written ==
      /\ contract' # contract =>
           lockOwner \in Runs /\ contract' = req[lockOwner].mode
      /\ prob' # prob => lockOwner \in Runs
      /\ done' \in {done, Absent, lockOwner} /\ failed' \in {failed, Absent, lockOwner}
      /\ running' \in {running, Absent, lockOwner}
      /\ <<done', failed', running'>> # <<done, failed, running>> =>
           lockOwner \in Runs
      /\ summary' \in {summary, lockOwner} /\ monitoring' \in {monitoring, lockOwner}
      /\ \A m \in Members, s \in Steps : file'[m][s] # file[m][s] =>
           \/ file'[m][s] = lockOwner
           \/ pc[file'[m][s]] = "abandoned" /\ <<m, s>> \in unlocked'
<1>1. TypeOK /\ LockInv /\ TaskInv /\ [Next]_vars => [Written]_vars
  <2> SUFFICES ASSUME TypeOK, LockInv, TaskInv, Next
               PROVE  Written \/ UNCHANGED vars
    OBVIOUS
  <2>1. ASSUME NEW p \in Runs, Progress(p) \/ Fault(p)
        PROVE  Written
    <3>1. CASE pc[p] \in Holding
      <4>1. lockOwner = p
        BY <3>1 DEF LockInv
      <4>2. QED
        BY <2>1, <4>1, OwnWrites
    <3>2. CASE pc[p] = "abandoned"
      BY <2>1, <3>2, LateStep DEF LateOnly, markers, reports
    <3>3. CASE pc[p] \notin Holding \cup {"abandoned"}
      <4>1. ~Open(p)
        BY <3>3 DEF TaskInv, Holding
      <4>2. QED
        BY <2>1, <3>3, <4>1, IdleWritesNothing
           DEF disk, outputs, markers, reports
    <3>4. QED
      BY <3>1, <3>2, <3>3
  <2>2. QED
    BY <2>1 DEF Next, AllEnded
<1>2. QED
  BY <1>1, TypeCorrect, Locked, Tasked, PTL DEF Spec, OnlyHolderPublishes

-----------------------------------------------------------------------------
(* One contract per directory.                                             *)

LEMMA ContractStep ==
  ASSUME NEW p \in Runs, TypeOK, LockInv, TaskInv, ContractInv,
         OutputsFollowContract, Progress(p) \/ Fault(p)
  PROVE  ContractInv' /\ OutputsFollowContract'
<1> USE DEF Committed, Holding, Unmarked, Working, Publishing, Reporting,
            Aborting, Ended
<1>0. req' = req /\ \A q \in Runs : req[q].mode \in Modes /\ req[q].mode # Absent
  <2>1. \A q \in Runs : req[q].mode \in Modes /\ req[q].mode # Absent
    BY RequestsAssumption, RunsAssumption DEF TypeOK
  <2>2. QED
    BY <2>1, OwnLocals
<1>1. ASSUME NEW q \in Runs, contract = req[q].mode
      PROVE  contract' = req'[q].mode
  <2>1. EnsureContract(p) => contract' = contract
    BY <1>0, <1>1 DEF EnsureContract
  <2>2. ~EnsureContract(p) => contract' = contract
    BY DEF Progress, Fault, disk, outputs, markers, reports, pool, locals,
         Acquire, GiveUp, RetractDone, RetractFailed, Announce, StartMember,
         WriteOutput, FinishMember, FailMember, BreakPool, MembersDone,
         Preflight, StageHour, StagingDone, SwapOut, SwapIn, SwapInFails,
         Restore, ProbabilityFails, RemoveBackup, Monitor, WriteSummary,
         WriteMonitoring, WriteMarker, RetractOther, ClearRunning, Release,
         RaiseUnmarked, RaiseMarked, Drained, AbortFailed, AbortDone,
         AbortRunning, AbortStepFails, Crash, OrphanWorkers, InterruptDrain,
         KillLateWorkers
  <2>3. QED
    BY <1>0, <1>1, <2>1, <2>2
<1>2. ASSUME NEW q \in Runs, pc'[q] \in Committed \/ Open(q)'
      PROVE  contract' = req'[q].mode
  <2>1. CASE pc[q] \in Committed \/ Open(q)
    BY <1>1, <2>1 DEF ContractInv
  <2>2. CASE ~(pc[q] \in Committed \/ Open(q))
    <3>1. q = p
      BY <1>2, <2>2, OwnLocals DEF Open, TasksIn, MembersOf
    <3>2. ~Announce(p)
      BY <2>2, <3>1 DEF Announce, At
    <3>3. Open(p)' => Open(p)
      BY <3>2, TasksOpen
    <3>4. EnsureContract(p)
      BY <1>2, <2>2, <3>1, <3>3
         DEF TypeOK, Progress, Fault, Goto, At, Marked,
         Acquire, GiveUp, RetractDone, RetractFailed, Announce, StartMember,
         WriteOutput, FinishMember, FailMember, BreakPool, MembersDone,
         Preflight, StageHour, StagingDone, SwapOut, SwapIn, SwapInFails,
         Restore, ProbabilityFails, RemoveBackup, Monitor, WriteSummary,
         WriteMonitoring, WriteMarker, RetractOther, ClearRunning, Release,
         RaiseUnmarked, RaiseMarked, Drained, AbortFailed, AbortDone,
         AbortRunning, AbortStepFails, Crash, OrphanWorkers, InterruptDrain,
         KillLateWorkers
    <3>5. pc'[p] \in Committed
      BY <1>2, <2>2, <3>1, <3>3
    <3>6. QED
      BY <1>0, <3>1, <3>4, <3>5 DEF EnsureContract, Goto, At, TypeOK
  <2>3. QED
    BY <2>1, <2>2
<1>3. ContractInv'
  BY <1>2 DEF ContractInv
<1>4. OutputsFollowContract'
  <2>1. CASE EnsureContract(p)
    BY <2>1, OwnLocals, RequestsAssumption, RunsAssumption
       DEF EnsureContract, OutputsExist, OutputsFollowContract, TypeOK, outputs
  <2>2. ASSUME NEW m \in Members, WriteOutput(p, m)
        PROVE  OutputsFollowContract'
    <3>1. contract = req[p].mode /\ contract # Absent
      BY <1>0, <2>2 DEF WriteOutput, ContractInv, Open, TasksIn
    <3>2. contract' = contract /\ req' = req
      BY <2>2 DEF WriteOutput
    <3>3. \A n \in Members, s \in Steps :
            file'[n][s] = file[n][s] \/ file'[n][s] = p
      BY <2>2 DEF WriteOutput, TypeOK
    <3>4. QED
      BY <3>1, <3>2, <3>3 DEF OutputsFollowContract
  <2>3. CASE file' = file /\ contract' = contract
    BY <2>3, OwnLocals DEF OutputsFollowContract
  <2>4. QED
    BY <2>1, <2>2, <2>3
       DEF Progress, Fault, disk, outputs, markers, reports, pool, locals,
           Acquire, GiveUp, RetractDone, RetractFailed, Announce,
           StartMember, FinishMember, FailMember, BreakPool,
           MembersDone, Preflight, StageHour, StagingDone, SwapOut, SwapIn,
           SwapInFails, Restore, ProbabilityFails, RemoveBackup, Monitor,
           WriteSummary, WriteMonitoring, WriteMarker, RetractOther,
           ClearRunning, Release, RaiseUnmarked, RaiseMarked, Drained,
           AbortFailed, AbortDone, AbortRunning, AbortStepFails, Crash,
           OrphanWorkers, InterruptDrain, KillLateWorkers
<1>5. QED
  BY <1>3, <1>4

\* No sequence of invocations, failures and kills mixes two modes in one
\* cycle directory, nor new outputs with uncontracted ones.
THEOREM ContractSeparatesOutputs == Spec => []OutputsFollowContract
<1>1. Init => ContractInv /\ OutputsFollowContract
  BY TaskInit
     DEF Init, ContractInv, TaskInv, OutputsFollowContract, Committed, Holding,
         Unmarked, Working, Publishing, Reporting, Aborting
<1>2. /\ TypeOK /\ LockInv /\ TaskInv /\ ContractInv /\ OutputsFollowContract
      /\ [Next]_vars
      => (ContractInv /\ OutputsFollowContract)'
  <2> SUFFICES ASSUME TypeOK, LockInv, TaskInv, ContractInv,
                      OutputsFollowContract, [Next]_vars
               PROVE  (ContractInv /\ OutputsFollowContract)'
    OBVIOUS
  <2>1. CASE UNCHANGED vars
    BY <2>1 DEF ContractInv, OutputsFollowContract, Open, TasksIn, MembersOf,
                vars, disk, outputs, pool, locals
  <2>2. CASE \E p \in Runs : Progress(p) \/ Fault(p)
    BY <2>2, ContractStep
  <2>3. QED
    BY <2>1, <2>2 DEF Next, AllEnded
<1>3. QED
  BY <1>1, <1>2, TypeCorrect, Locked, Tasked, PTL DEF Spec

-----------------------------------------------------------------------------
(* The promise of DONE.json.                                               *)

\* An hour aggregated from the outputs on disk stays so while only workers
\* without the lock write.
LEMMA CurrentFrame ==
  ASSUME NEW p \in Runs, NEW q \in Runs, NEW s \in Hours(q), TypeOK, LateOnly(p),
         req' = req
  PROVE  /\ Current(q, s, prob[s]) /\ prob' = prob => Current(q, s, prob[s])'
         /\ Current(q, s, staging[q][s]) /\ staging'[q] = staging[q]
              => Current(q, s, staging[q][s])'
<1>1. s \in Steps
  BY DEF Hours
<1>2. QED
  BY <1>1 DEF Current, MembersOf, LateOnly

\* A step that leaves the outputs alone is such a step.
LEMMA StillLate ==
  ASSUME UNCHANGED outputs, NEW p \in Runs
  PROVE  LateOnly(p)
  BY DEF LateOnly, outputs

\* When every member is ok, an hour aggregated now is current.
LEMMA AggregateCurrent ==
  ASSUME NEW p \in Runs, TypeOK, TaskInv, TasksIn(p, {"ok"}) = MembersOf(p),
         NEW s \in Hours(p)
  PROVE  Current(p, s, Aggregate(p, s)) /\ Aggregate(p, s) # NoSource
<1>1. \A m \in MembersOf(p) : m \in Members /\ file[m][s] \in Runs
  BY RequestsAssumption DEF TypeOK, MembersOf, TaskInv, TasksIn
<1>2. PICK m \in MembersOf(p) : m \in Members
  BY RequestsAssumption DEF TypeOK, MembersOf
<1>3. QED
  BY <1>1, <1>2, RunsAssumption DEF Aggregate, Current, NoSource

\* What p's own steps do to its staging directory.
LEMMA OwnStaging ==
  ASSUME NEW p \in Runs, TypeOK, TaskInv, StagedInv, Progress(p) \/ Fault(p)
  PROVE  /\ pc'[p] = "stage" => /\ TasksIn(p, {"ok"})' = MembersOf(p)'
                               /\ unstaged'[p] \subseteq Hours(p)'
         /\ pc'[p] \in {"swapOut", "swapIn"} => unstaged'[p] = {}
         /\ pc'[p] \in {"stage", "swapOut", "swapIn"} =>
              \A s \in Hours(p)' \ unstaged'[p] : Current(p, s, staging[p][s])'
<1> USE DEF Working, Unmarked, Marked, Publishing, Reporting, Aborting,
            Holding, Ended
<1>0. /\ pc \in [Runs -> Stages] /\ staging \in [Runs -> [Steps -> Source]]
      /\ unstaged \in [Runs -> SUBSET Steps] /\ req' = req
  BY OwnLocals DEF TypeOK
<1>1. CASE Preflight(p)
  <2>1. CASE Complete(p)
    BY <1>0, <1>1, <2>1
       DEF Preflight, Complete, Goto, At, TasksIn, MembersOf, Hours, pool
  <2>2. CASE ~Complete(p)
    BY <1>0, <1>1, <2>2 DEF Preflight, Goto
  <2>3. QED
    BY <2>1, <2>2
<1>2. CASE StageHour(p)
  <2> DEFINE h == Least(unstaged[p])
  <2>1. h \in unstaged[p] /\ h \in Steps
    <3>1. unstaged[p] # {} /\ unstaged[p] \subseteq Steps
      BY <1>0, <1>2 DEF StageHour
    <3>2. QED
      BY <3>1, LeastIsMember, RangesAssumption
  <2>2. UNCHANGED <<pc, req, task, prob, backup, file, unlocked>> /\ pc[p] = "stage"
    BY <1>2 DEF StageHour, At, disk, outputs, pool
  <2>3. /\ staging' = [staging EXCEPT ![p][h] = Aggregate(p, h)]
        /\ unstaged' = [unstaged EXCEPT ![p] = @ \ {h}]
    BY <1>2 DEF StageHour
  <2>4. TasksIn(p, {"ok"}) = MembersOf(p) /\ TasksIn(p, {"ok"})' = MembersOf(p)'
    BY <2>2 DEF StagedInv, TasksIn, MembersOf
  <2>5. \A s \in Hours(p) : Current(p, s, Aggregate(p, s))
    BY <2>4, AggregateCurrent
  <2> HIDE DEF h
  <2>6. ASSUME NEW s \in Hours(p), s \notin unstaged'[p]
        PROVE  Current(p, s, staging[p][s])'
    <3>0. s \in Steps
      BY DEF Hours
    <3>1. CASE s = h
      <4>1. staging'[p][s] = Aggregate(p, s)
        BY <1>0, <2>1, <2>3, <3>1
      <4>2. QED
        BY <2>2, <2>5, <4>1 DEF Current, MembersOf
    <3>2. CASE s # h
      <4>1. staging'[p][s] = staging[p][s] /\ s \notin unstaged[p]
        BY <1>0, <2>3, <2>6, <3>0, <3>2
      <4>2. Current(p, s, staging[p][s])
        BY <2>2, <4>1 DEF StagedInv
      <4>3. QED
        BY <2>2, <4>1, <4>2 DEF Current, MembersOf
    <3>3. QED
      BY <3>1, <3>2
  <2>7. unstaged'[p] \subseteq unstaged[p] /\ unstaged[p] \subseteq Hours(p)
    BY <1>0, <2>2, <2>3 DEF StagedInv
  <2>8. QED
    BY <2>2, <2>4, <2>6, <2>7 DEF Hours
<1>3. CASE StagingDone(p) \/ SwapOut(p)
  <2>1. /\ UNCHANGED <<req, task, file, unlocked, staging, unstaged>>
        /\ pc'[p] \in {"swapOut", "swapIn"}
        /\ pc[p] \in {"stage", "swapOut"} /\ unstaged[p] = {}
    BY <1>0, <1>3 DEF StagingDone, SwapOut, StagedInv, Goto, At, disk, outputs,
                      pool, locals
  <2>2. QED
    BY <2>1 DEF StagedInv, Current, MembersOf, Hours
<1>4. CASE /\ pc'[p] = pc[p] /\ ~Open(p)
           /\ UNCHANGED <<task, file, unlocked, staging, unstaged>>
  BY <1>0, <1>4 DEF StagedInv, TasksIn, Current, MembersOf, Hours
<1>5. CASE Open(p) /\ pc'[p] = pc[p]
  BY <1>5 DEF TaskInv
<1>6. CASE pc'[p] \notin {"stage", "swapOut", "swapIn"}
  BY <1>6
<1>7. QED
  BY <1>0, <1>1, <1>2, <1>3, <1>4, <1>5, <1>6
     DEF Progress, Fault, Goto, At, Open, TasksIn,
         Acquire, GiveUp, EnsureContract, RetractDone, RetractFailed,
         Announce, StartMember, WriteOutput, FinishMember, FailMember,
         BreakPool, MembersDone, Preflight, StageHour, StagingDone, SwapOut,
         SwapIn, SwapInFails, Restore, ProbabilityFails, RemoveBackup,
         Monitor, WriteSummary, WriteMonitoring, WriteMarker, RetractOther,
         ClearRunning, Release, RaiseUnmarked, RaiseMarked, Drained,
         AbortFailed, AbortDone, AbortRunning, AbortStepFails, Crash,
         OrphanWorkers, InterruptDrain, KillLateWorkers

LEMMA StagedStep ==
  ASSUME NEW p \in Runs, TypeOK, LockInv, TaskInv, StagedInv,
         Progress(p) \/ Fault(p)
  PROVE  StagedInv'
<1> SUFFICES ASSUME NEW q \in Runs
             PROVE  /\ pc'[q] = "stage" => /\ TasksIn(q, {"ok"})' = MembersOf(q)'
                                          /\ unstaged'[q] \subseteq Hours(q)'
                    /\ pc'[q] \in {"swapOut", "swapIn"} => unstaged'[q] = {}
                    /\ pc'[q] \in {"stage", "swapOut", "swapIn"} =>
                         \A s \in Hours(q)' \ unstaged'[q] :
                            Current(q, s, staging[q][s])'
  BY DEF StagedInv
<1>1. CASE q # p
  <2> SUFFICES ASSUME pc'[q] \in {"stage", "swapOut", "swapIn"}
               PROVE  /\ pc'[q] = "stage" => /\ TasksIn(q, {"ok"})' = MembersOf(q)'
                                            /\ unstaged'[q] \subseteq Hours(q)'
                      /\ pc'[q] \in {"swapOut", "swapIn"} => unstaged'[q] = {}
                      /\ \A s \in Hours(q)' \ unstaged'[q] :
                            Current(q, s, staging[q][s])'
    OBVIOUS
  <2>1. /\ pc[q] = pc'[q] /\ pc[q] \in Holding /\ task'[q] = task[q]
        /\ unstaged'[q] = unstaged[q] /\ staging'[q] = staging[q]
    BY <1>1, OwnLocals DEF Holding, Publishing
  <2>2. LateOnly(p) /\ req' = req
    BY <1>1, <2>1, OtherIdle
  <2>3. Hours(q)' = Hours(q)
    BY <2>2 DEF Hours
  <2>4. QED
    BY <2>1, <2>2, <2>3, CurrentFrame DEF StagedInv, TasksIn, MembersOf
<1>2. CASE q = p
  BY <1>2, OwnStaging
<1>3. QED
  BY <1>1, <1>2

\* The stages and statuses whose probabilities are known to be current.
Vouching(p) ==
  \/ pc[p] = "cleanup"
  \/ /\ pc[p] \in Reporting
     /\ probStatus[p] # "failed" /\ req[p].mode \in ProbabilityModes

LEMMA VouchingStep ==
  ASSUME NEW p \in Runs, TypeOK, TaskInv, Progress(p) \/ Fault(p), Vouching(p)'
  PROVE  (Vouching(p) /\ UNCHANGED <<outputs, prob>>) \/ SwapIn(p)
<1> USE DEF Working, Unmarked, Marked, Publishing, Reporting, Aborting,
            Holding, Ended
<1>1. CASE MembersDone(p)
  <2>1. req'[p].mode \notin ProbabilityModes \/ pc'[p] = "preflight"
    BY <1>1 DEF MembersDone, Goto, TypeOK
  <2>2. pc'[p] \in {"preflight", "monitor"}
    BY <1>1 DEF MembersDone, Goto, TypeOK
  <2>3. QED
    BY <2>1, <2>2 DEF Vouching
<1>2. CASE Preflight(p) \/ Restore(p) \/ ProbabilityFails(p)
  BY <1>2 DEF Preflight, Restore, ProbabilityFails, Vouching, Goto, TypeOK
<1>3. CASE RemoveBackup(p)
  BY <1>3 DEF RemoveBackup, Vouching, At, Goto, TypeOK
<1>4. CASE Open(p) /\ pc'[p] = pc[p]
  BY <1>4 DEF TaskInv, Vouching
<1>5. CASE ~Open(p) \/ pc'[p] # pc[p]
  BY <1>1, <1>2, <1>3, <1>5
     DEF Vouching, TypeOK, Progress, Fault, Goto, At, Open, TasksIn,
         disk, outputs, markers, reports, pool, locals,
         Acquire, GiveUp, EnsureContract, RetractDone, RetractFailed,
         Announce, StartMember, WriteOutput, FinishMember, FailMember,
         BreakPool, StageHour, StagingDone, SwapOut, SwapInFails, Monitor,
         WriteSummary, WriteMonitoring, WriteMarker, RetractOther,
         ClearRunning, Release, RaiseUnmarked, RaiseMarked, Drained,
         AbortFailed, AbortDone, AbortRunning, AbortStepFails, Crash,
         OrphanWorkers, InterruptDrain, KillLateWorkers
<1>6. QED
  BY <1>4, <1>5

LEMMA PublishedStep ==
  ASSUME NEW p \in Runs, TypeOK, LockInv, TaskInv, StagedInv, PublishedInv,
         Progress(p) \/ Fault(p)
  PROVE  PublishedInv'
<1>0. PublishedInv <=> \A q \in Runs : Vouching(q) =>
        \A s \in Hours(q) : Current(q, s, prob[s])
  BY DEF PublishedInv, Vouching
<1> SUFFICES ASSUME NEW q \in Runs, Vouching(q)'
             PROVE  \A s \in Hours(q)' : Current(q, s, prob[s])'
  BY DEF PublishedInv, Vouching
<1>a. Hours(q)' = Hours(q) /\ req' = req
  BY OwnLocals DEF Hours
<1>1. CASE q # p
  <2>1. Vouching(q) /\ pc[q] \in Holding
    BY <1>1, OwnLocals DEF Vouching, Holding, Publishing, Reporting
  <2>2. LateOnly(p) /\ prob' = prob
    BY <1>1, <2>1, OtherIdle
  <2>3. QED
    BY <1>0, <1>a, <2>1, <2>2, CurrentFrame
<1>2. CASE q = p
  <2>1. CASE SwapIn(p)
    <3>1. /\ prob' = staging[p] /\ UNCHANGED <<file, unlocked>>
          /\ pc[p] = "swapIn" /\ unstaged[p] = {}
      BY <2>1 DEF SwapIn, At, StagedInv, outputs
    <3>2. \A s \in Hours(p) : Current(p, s, staging[p][s])
      BY <3>1 DEF StagedInv
    <3>3. QED
      BY <1>2, <1>a, <3>1, <3>2 DEF Current, MembersOf
  <2>2. CASE Vouching(p) /\ UNCHANGED <<outputs, prob>>
    BY <1>0, <1>2, <1>a, <2>2, StillLate, CurrentFrame
  <2>3. QED
    BY <1>2, <2>1, <2>2, VouchingStep
<1>3. QED
  BY <1>1, <1>2

\* Late workers take nothing away from a satisfied request.
LEMMA SatisfiedFrame ==
  ASSUME NEW p \in Runs, NEW q \in Runs, TypeOK, LateOnly(p), prob' = prob,
         req' = req, Satisfied(q)
  PROVE  Satisfied(q)'
<1>1. \A m \in MembersOf(q), s \in Hours(q) : file'[m][s] \in Runs
  <2>1. \A m \in MembersOf(q), s \in Hours(q) : m \in Members /\ s \in Steps
    BY RequestsAssumption DEF TypeOK, MembersOf, Hours
  <2>2. QED
    BY <2>1 DEF Satisfied, LateOnly
<1>2. req[q].mode \in ProbabilityModes =>
        \A s \in Hours(q) : Current(q, s, prob[s])'
  BY CurrentFrame DEF Satisfied
<1>3. QED
  BY <1>1, <1>2 DEF Satisfied, MembersOf, Hours

\* A step that moves neither outputs nor probabilities satisfies nobody anew.
LEMMA SatisfiedSame ==
  ASSUME NEW p \in Runs, UNCHANGED outputs, prob' = prob, req' = req
  PROVE  Satisfied(p)' <=> Satisfied(p)
  BY DEF Satisfied, Current, MembersOf, Hours, outputs

LEMMA VerdictStep ==
  ASSUME NEW p \in Runs, TypeOK, LockInv, TaskInv, PublishedInv, VerdictInv,
         Progress(p) \/ Fault(p)
  PROVE  VerdictInv'
<1> USE DEF Reporting, Holding
<1> SUFFICES ASSUME NEW q \in Runs, pc'[q] \in Reporting \ {"monitor"},
                    verdict'[q]
             PROVE  Satisfied(q)'
  BY DEF VerdictInv
<1>1. CASE q # p
  <2>1. pc[q] = pc'[q] /\ verdict[q]
    BY <1>1, OwnLocals
  <2>2. Satisfied(q)
    BY <2>1 DEF VerdictInv
  <2>3. LateOnly(p) /\ prob' = prob /\ req' = req
    BY <1>1, <2>1, OtherIdle
  <2>4. QED
    BY <2>2, <2>3, SatisfiedFrame
<1>2. CASE q = p
  <2>1. CASE Monitor(p)
    <3>1. /\ TasksIn(p, {"failed"}) = {} /\ probStatus[p] # "failed"
          /\ pc[p] = "monitor" /\ ~Open(p)
      <4>1. pc[p] = "monitor" /\ ~Open(p)
        BY <2>1 DEF Monitor, At, TaskInv, Working, Aborting
      <4>2. TasksIn(p, {"failed"}) = {} /\ probStatus[p] # "failed"
        BY <1>2, <2>1 DEF Monitor, TypeOK
      <4>3. QED
        BY <4>1, <4>2
    <3>2. \A m \in MembersOf(p) : task[p][m] = "ok"
      <4>1. \A m \in MembersOf(p) : task[p][m] \in TaskStates
        BY RequestsAssumption DEF TypeOK, MembersOf
      <4>2. TasksIn(p, {"idle"}) = {}
        BY <3>1 DEF TaskInv
      <4>3. QED
        BY <3>1, <4>1, <4>2 DEF Open, TasksIn, TaskStates
    <3>3. \A m \in MembersOf(p), s \in Hours(p) : file[m][s] \in Runs
      BY <3>2 DEF TaskInv
    <3>4. Satisfied(p)
      BY <3>1, <3>3 DEF Satisfied, PublishedInv
    <3>5. UNCHANGED <<outputs, prob, req>>
      BY <2>1 DEF Monitor, disk
    <3>6. QED
      BY <1>2, <3>4, <3>5, SatisfiedSame
  <2>2. CASE ~Monitor(p)
    <3>0. pc[p] = pc'[p] => ~Open(p)
      BY <1>2 DEF TaskInv, Working, Aborting
    <3>1. /\ pc[p] \in Reporting \ {"monitor"}
          /\ UNCHANGED <<outputs, prob, req, verdict>>
      BY <1>2, <2>2, <3>0
         DEF TypeOK, Progress, Fault, Goto, At, Open, TasksIn, Working, Unmarked,
         Marked, Publishing, Aborting, Ended, disk, outputs, markers, reports,
         pool, locals,
         Acquire, GiveUp, EnsureContract, RetractDone, RetractFailed,
         Announce, StartMember, WriteOutput, FinishMember, FailMember,
         BreakPool, MembersDone, Preflight, StageHour, StagingDone, SwapOut,
         SwapIn, SwapInFails, Restore, ProbabilityFails, RemoveBackup,
         WriteSummary, WriteMonitoring, WriteMarker, RetractOther,
         ClearRunning, Release, RaiseUnmarked, RaiseMarked, Drained,
         AbortFailed, AbortDone, AbortRunning, AbortStepFails, Crash,
         OrphanWorkers, InterruptDrain, KillLateWorkers
    <3>2. QED
      BY <1>2, <3>1, SatisfiedSame DEF VerdictInv
  <2>3. QED
    BY <2>1, <2>2
<1>3. QED
  BY <1>1, <1>2

LEMMA PromiseStep ==
  ASSUME NEW p \in Runs, TypeOK, LockInv, TaskInv, PromiseInv,
         Progress(p) \/ Fault(p)
  PROVE  PromiseInv'
<1> USE DEF Unpromised, Working, Publishing, Unmarked, Reporting, Aborting,
            Holding
<1> SUFFICES ASSUME NEW q \in Runs,
                    \/ pc'[q] \in Unpromised
                    \/ pc'[q] \in Holding /\ Open(q)'
             PROVE  done' = Absent
  BY DEF PromiseInv
<1>1. CASE q # p
  <2>1. \/ pc[q] \in Unpromised
        \/ pc[q] \in Holding /\ Open(q)
    BY <1>1, OwnLocals DEF Open, TasksIn, MembersOf
  <2>2. QED
    BY <1>1, <2>1, OtherIdle DEF PromiseInv, markers
<1>2. CASE q = p
  <2>1. CASE pc'[p] \in Holding /\ Open(p)' /\ Open(p)
    <3>1. pc[p] \in Holding \cup {"abandoned"} /\ pc[p] # "marker"
      BY <2>1 DEF TaskInv
    <3>2. pc[p] # "abandoned"
      BY <2>1, LateStep
    <3>3. QED
      BY <2>1, <3>1, <3>2, DiskFrame DEF PromiseInv
  <2>2. CASE Open(p)' /\ ~Open(p)
    <3>1. pc[p] = "announce"
      BY <2>2, TasksOpen
    <3>2. QED
      BY <3>1, DiskFrame DEF PromiseInv
  <2>3. CASE pc'[p] \in Unpromised /\ ~RetractDone(p) /\ ~OrphanWorkers(p)
    <3>1. pc[p] \in Unpromised /\ done' = done
      BY <2>3
         DEF TypeOK, Progress, Fault, Goto, At, Marked, Ended, disk, outputs,
         markers, reports, pool, locals,
         Acquire, GiveUp, EnsureContract, RetractDone, RetractFailed, Announce,
         StartMember, WriteOutput, FinishMember, FailMember, BreakPool,
         MembersDone, Preflight, StageHour, StagingDone, SwapOut, SwapIn,
         SwapInFails, Restore, ProbabilityFails, RemoveBackup, Monitor,
         WriteSummary, WriteMonitoring, WriteMarker, RetractOther,
         ClearRunning, Release, RaiseUnmarked, RaiseMarked, Drained,
         AbortFailed, AbortDone, AbortRunning, AbortStepFails, Crash,
         OrphanWorkers, InterruptDrain, KillLateWorkers
    <3>2. QED
      BY <3>1 DEF PromiseInv
  <2>4. CASE RetractDone(p)
    BY <2>4 DEF RetractDone
  <2>5. CASE OrphanWorkers(p)
    BY <2>5 DEF OrphanWorkers, PromiseInv, markers
  <2>6. QED
    BY <1>2, <2>1, <2>2, <2>3, <2>4, <2>5
<1>3. QED
  BY <1>1, <1>2

\* While a promise stands nobody moves what it is about, but for the outputs
\* late workers write.
LEMMA PromiseFreezes ==
  ASSUME NEW p \in Runs, TypeOK, TaskInv, PromiseInv, Progress(p) \/ Fault(p),
         done # Absent
  PROVE  /\ prob' = prob /\ LateOnly(p)
         /\ pc[p] # "abandoned" => UNCHANGED outputs
         /\ summary' = summary /\ monitoring' = monitoring /\ verdict' = verdict
<1>1. pc[p] \notin Unpromised /\ ~(pc[p] \in Holding /\ Open(p))
  BY DEF PromiseInv
<1>2. CASE pc[p] = "abandoned"
  BY <1>2, LateStep DEF reports
<1>3. CASE pc[p] # "abandoned"
  <2>1. ~Open(p)
    BY <1>1, <1>3 DEF TaskInv, Holding
  <2>2. UNCHANGED outputs
    BY <2>1, DiskFrame
  <2>3. QED
    BY <1>1, <2>2, DiskFrame, StillLate DEF Unpromised, Publishing
<1>4. QED
  BY <1>2, <1>3

LEMMA DoneStep ==
  ASSUME NEW p \in Runs, TypeOK, TaskInv, VerdictInv, PromiseInv, ReportInv,
         DoneIsComplete, DoneMatchesReports, Progress(p) \/ Fault(p)
  PROVE  DoneIsComplete' /\ DoneMatchesReports'
<1>0. CASE done' = Absent
  BY <1>0 DEF DoneIsComplete, DoneMatchesReports
<1>1. CASE done' = done /\ done # Absent
  <2>1. done \in Runs
    BY <1>1 DEF TypeOK
  <2>2. QED
    BY <1>1, <2>1, PromiseFreezes, OwnLocals, SatisfiedFrame
       DEF DoneIsComplete, DoneMatchesReports
<1>2. CASE done' = p /\ pc[p] = "marker" /\ verdict[p]
  <2>0. ~Open(p)
    BY <1>2 DEF TaskInv, Working, Aborting
  <2>1. UNCHANGED <<outputs, prob, summary, monitoring, verdict>>
    BY <1>2, <2>0, DiskFrame
  <2>2. Satisfied(p) /\ summary = p /\ monitoring = p
    BY <1>2 DEF VerdictInv, ReportInv, Reporting
  <2>3. QED
    BY <1>2, <2>1, <2>2, OwnLocals, SatisfiedSame
       DEF DoneIsComplete, DoneMatchesReports
<1>3. QED
  BY <1>0, <1>1, <1>2, DiskFrame

LEMMA ReportStep ==
  ASSUME NEW p \in Runs, TypeOK, LockInv, TaskInv, ReportInv,
         Progress(p) \/ Fault(p)
  PROVE  ReportInv'
<1> USE DEF Working, Publishing, Unmarked, Reporting, Aborting, Holding
<1> SUFFICES ASSUME NEW q \in Runs
             PROVE  /\ pc'[q] \in {"monitoring", "marker", "retract", "clear"}
                       => summary' = q
                    /\ pc'[q] \in {"marker", "retract", "clear"}
                       => monitoring' = q
  BY DEF ReportInv
<1>1. CASE q # p
  BY <1>1, OwnLocals, OtherIdle DEF ReportInv, reports
<1>2. CASE q = p
  BY <1>2
     DEF ReportInv, TypeOK, Progress, Fault, Goto, At, Marked, Ended, disk, outputs,
         markers, reports, pool, locals,
         Acquire, GiveUp, EnsureContract, RetractDone, RetractFailed, Announce,
         StartMember, WriteOutput, FinishMember, FailMember, BreakPool,
         MembersDone, Preflight, StageHour, StagingDone, SwapOut, SwapIn,
         SwapInFails, Restore, ProbabilityFails, RemoveBackup, Monitor,
         WriteSummary, WriteMonitoring, WriteMarker, RetractOther,
         ClearRunning, Release, RaiseUnmarked, RaiseMarked, Drained,
         AbortFailed, AbortDone, AbortRunning, AbortStepFails, Crash,
         OrphanWorkers, InterruptDrain, KillLateWorkers
<1>3. QED
  BY <1>1, <1>2

LEMMA InitInv == Init => Inv
<1> SUFFICES ASSUME Init PROVE Inv
  OBVIOUS
<1>1. TypeOK
  BY InitType
<1>2. \A p \in Runs : pc[p] = "start" /\ ~verdict[p]
  BY DEF Init
<1>3. TaskInv /\ \A p \in Runs : ~Open(p)
  BY <1>2, TaskInit DEF TaskInv, Working, Aborting
<1>4. QED
  BY <1>1, <1>2, <1>3
     DEF Init, Inv, LockInv, ContractInv, OutputsFollowContract, TaskInv,
         StagedInv, PublishedInv, VerdictInv, PromiseInv, DoneIsComplete,
         ReportInv, DoneMatchesReports, Committed, Unpromised, Holding,
         Unmarked, Working, Publishing, Reporting, Aborting

LEMMA NextInv == Inv /\ [Next]_vars => Inv'
<1> SUFFICES ASSUME Inv, [Next]_vars PROVE Inv'
  OBVIOUS
<1>1. CASE UNCHANGED vars
  <2>0. UNCHANGED <<outputs, prob, req, pc, task, unwritten, staging, unstaged,
                    probStatus, verdict>>
    BY <1>1 DEF vars, disk, pool, locals
  <2>1. \A p \in Runs : /\ (Satisfied(p)' <=> Satisfied(p))
                        /\ (Open(p)' <=> Open(p))
    BY <2>0, SatisfiedSame DEF Open, TasksIn, MembersOf
  <2>2. TypeOK' /\ LockInv' /\ ContractInv' /\ OutputsFollowContract'
    BY <1>1, <2>1 DEF Inv, TypeOK, LockInv, ContractInv, OutputsFollowContract,
                vars, disk, outputs, markers, reports, pool, locals
  <2>3. TaskInv'
    BY <2>0, <2>1 DEF Inv, TaskInv, TasksIn, MembersOf, Hours, outputs
  <2>4. StagedInv' /\ PublishedInv'
    BY <2>0 DEF Inv, StagedInv, PublishedInv, Current, TasksIn, MembersOf, Hours,
                outputs
  <2>5. VerdictInv' /\ PromiseInv' /\ ReportInv'
    BY <1>1, <2>1 DEF Inv, VerdictInv, PromiseInv, ReportInv, vars, markers,
                      reports, locals
  <2>6. DoneIsComplete' /\ DoneMatchesReports'
    BY <1>1, <2>1 DEF Inv, TypeOK, DoneIsComplete, DoneMatchesReports, vars,
                      markers, reports, locals
  <2>7. QED
    BY <2>2, <2>3, <2>4, <2>5, <2>6 DEF Inv
<1>2. CASE \E p \in Runs : Progress(p) \/ Fault(p)
  BY <1>2, StepType, LockStep, ContractStep, TaskStep, StagedStep,
     PublishedStep, VerdictStep, PromiseStep, DoneStep, ReportStep DEF Inv
<1>3. QED
  BY <1>1, <1>2 DEF Next, AllEnded

LEMMA Invariance == Spec => []Inv
  BY InitInv, NextInv, PTL DEF Spec

\* DONE.json is written, and stands, only while every member output of its
\* range exists and its probability hours are made of exactly those outputs,
\* as far as no worker without the lock has replaced them.
THEOREM DonePromisesOutputs == Spec => []DoneIsComplete
<1>1. Inv => DoneIsComplete
  BY DEF Inv
<1>2. QED
  BY <1>1, Invariance, PTL

\* Whoever finds DONE.json finds the reports of the same, positively judged,
\* invocation next to it.
THEOREM DoneAgreesWithReports == Spec => []DoneMatchesReports
<1>1. Inv => DoneMatchesReports
  BY DEF Inv
<1>2. QED
  BY <1>1, Invariance, PTL

\* While DONE.json stands nobody touches the probabilities, and only a worker
\* that an interrupted drain left behind replaces an output.
THEOREM PromiseStands == Spec => DoneFreezesOutputs
<1>1. Inv /\ [Next]_vars =>
        [done # Absent /\ done' = done =>
           /\ prob' = prob
           /\ \A m \in Members, s \in Steps : file'[m][s] # file[m][s] =>
                pc[file'[m][s]] = "abandoned" /\ <<m, s>> \in unlocked']_vars
  <2> SUFFICES ASSUME Inv, Next, done # Absent
               PROVE  /\ prob' = prob
                      /\ \A m \in Members, s \in Steps :
                           file'[m][s] # file[m][s] =>
                             /\ pc[file'[m][s]] = "abandoned"
                             /\ <<m, s>> \in unlocked'
    OBVIOUS
  <2>1. ASSUME NEW p \in Runs, Progress(p) \/ Fault(p)
        PROVE  /\ prob' = prob
               /\ \A m \in Members, s \in Steps : file'[m][s] # file[m][s] =>
                    pc[file'[m][s]] = "abandoned" /\ <<m, s>> \in unlocked'
    BY <2>1, PromiseFreezes DEF Inv, LateOnly, outputs
  <2>2. CASE AllEnded
    BY <2>2 DEF AllEnded, vars, disk, outputs
  <2>3. QED
    BY <2>1, <2>2 DEF Next
<1>2. QED
  BY <1>1, Invariance, PTL DEF Spec, DoneFreezesOutputs

-----------------------------------------------------------------------------
(* Terminal markers.                                                       *)

\* What p's own steps do to the markers.
LEMMA OwnMarkers ==
  ASSUME NEW p \in Runs, TypeOK, PromiseInv, MarkerInv, Progress(p) \/ Fault(p)
  PROVE  /\ pc'[p] \in {"announce", "monitor", "summary", "monitoring",
                        "marker", "members", "drain"} \cup Publishing => failed' = Absent
         /\ pc'[p] \in {"retract", "clear", "abort"} =>
              Absent \in {done', failed'}
         /\ pc'[p] \in {"retract", "clear", "abort", "abortDone"} =>
              done' \in {Absent, p}
<1>1. /\ pc[p] \in {"announce", "monitor", "summary", "monitoring", "marker",
                    "members", "drain"} \cup Publishing => failed = Absent
      /\ pc[p] \in {"retract", "clear", "abort"} => Absent \in {done, failed}
      /\ pc[p] \in {"retract", "clear", "abort", "abortDone"} =>
           done \in {Absent, p}
      /\ pc[p] \in Unpromised => done = Absent
      /\ (pc[p] \in Holding /\ Open(p)) => done = Absent
  BY DEF MarkerInv, PromiseInv
<1>2. pc \in [Runs -> Stages]
  BY DEF TypeOK
<1>3. QED
  BY <1>1, <1>2
     DEF Progress, Fault, Goto, At, disk, outputs, markers, reports, pool, locals, Unpromised,
         Working, Publishing, Unmarked, Marked, Reporting, Aborting, Holding,
         Acquire, GiveUp, EnsureContract, RetractDone, RetractFailed, Announce,
         StartMember, WriteOutput, FinishMember, FailMember, BreakPool,
         MembersDone, Preflight, StageHour, StagingDone, SwapOut, SwapIn,
         SwapInFails, Restore, ProbabilityFails, RemoveBackup, Monitor,
         WriteSummary, WriteMonitoring, WriteMarker, RetractOther,
         ClearRunning, Release, RaiseUnmarked, RaiseMarked, Drained,
         AbortFailed, AbortDone, AbortRunning, AbortStepFails, Crash,
         OrphanWorkers, InterruptDrain, KillLateWorkers

LEMMA MarkerStep ==
  ASSUME NEW p \in Runs, TypeOK, LockInv, TaskInv, PromiseInv, MarkerInv,
         Progress(p) \/ Fault(p)
  PROVE  MarkerInv'
<1> SUFFICES ASSUME NEW q \in Runs
    PROVE  /\ pc'[q] \in {"announce", "monitor", "summary", "monitoring",
                          "marker", "members", "drain"} \cup Publishing => failed' = Absent
           /\ pc'[q] \in {"retract", "clear", "abort"} =>
                Absent \in {done', failed'}
           /\ pc'[q] \in {"retract", "clear", "abort", "abortDone"} =>
                done' \in {Absent, q}
  BY DEF MarkerInv
<1>1. CASE q = p
  BY <1>1, OwnMarkers
<1>2. CASE q # p
  <2>1. pc'[q] = pc[q]
    BY <1>2, OwnLocals
  <2>2. CASE pc[q] \in Holding
    BY <1>2, <2>1, <2>2, OtherIdle DEF MarkerInv, markers
  <2>3. CASE pc[q] \notin Holding
    BY <2>1, <2>3 DEF Holding, Unmarked, Working, Publishing, Reporting, Aborting
  <2>4. QED
    BY <2>2, <2>3
<1>3. QED
  BY <1>1, <1>2

\* A step that leaves both markers standing either left both alone, its own
\* invocation staying where they may disagree, or is the wrapper's verdict.
LEMMA BothMarkers ==
  ASSUME NEW p \in Runs, TypeOK, PromiseInv, MarkerInv, Progress(p) \/ Fault(p),
         done' # Absent, failed' # Absent
  PROVE  \/ /\ done' = done /\ failed' = failed
            /\ pc[p] \in {"abortDone", "abortRunning", "release"} =>
                 pc'[p] \in {"abortDone", "abortRunning", "release"} \cup Ended
         \/ done' = p /\ failed' = p /\ pc'[p] = "abortDone"
<1>1. /\ pc[p] \in {"announce", "monitor", "summary", "monitoring", "marker",
                    "members", "drain"} \cup Publishing => failed = Absent
      /\ pc[p] \in {"retract", "clear", "abort"} => Absent \in {done, failed}
      /\ pc[p] \in {"retract", "clear", "abort", "abortDone"} =>
           done \in {Absent, p}
      /\ pc[p] \in Unpromised => done = Absent
      /\ (pc[p] \in Holding /\ Open(p)) => done = Absent
  BY DEF MarkerInv, PromiseInv
<1>2. pc \in [Runs -> Stages]
  BY DEF TypeOK
<1>3. QED
  BY <1>1, <1>2
     DEF Progress, Fault, Goto, At, disk, outputs, markers, reports, pool, locals, Unpromised,
         Working, Publishing, Unmarked, Marked, Reporting, Aborting, Holding,
         Ended,
         Acquire, GiveUp, EnsureContract, RetractDone, RetractFailed, Announce,
         StartMember, WriteOutput, FinishMember, FailMember, BreakPool,
         MembersDone, Preflight, StageHour, StagingDone, SwapOut, SwapIn,
         SwapInFails, Restore, ProbabilityFails, RemoveBackup, Monitor,
         WriteSummary, WriteMonitoring, WriteMarker, RetractOther,
         ClearRunning, Release, RaiseUnmarked, RaiseMarked, Drained,
         AbortFailed, AbortDone, AbortRunning, AbortStepFails, Crash,
         OrphanWorkers, InterruptDrain, KillLateWorkers

LEMMA DisagreeStep ==
  ASSUME NEW p \in Runs, TypeOK, PromiseInv, MarkerInv,
         MarkersDisagreeOnlyInAbort, Progress(p) \/ Fault(p)
  PROVE  MarkersDisagreeOnlyInAbort'
<1> SUFFICES ASSUME done' # Absent, failed' # Absent
             PROVE  /\ done' = failed'
                    /\ pc'[done'] \in {"abortDone", "abortRunning", "release"}
                                       \cup Ended
  BY DEF MarkersDisagreeOnlyInAbort
<1>1. CASE done' = p /\ failed' = p /\ pc'[p] = "abortDone"
  BY <1>1
<1>2. CASE /\ done' = done /\ failed' = failed
           /\ pc[p] \in {"abortDone", "abortRunning", "release"} =>
                pc'[p] \in {"abortDone", "abortRunning", "release"} \cup Ended
  <2>1. /\ done = failed /\ done \in Runs
        /\ pc[done] \in {"abortDone", "abortRunning", "release"} \cup Ended
    BY <1>2 DEF MarkersDisagreeOnlyInAbort, TypeOK
  <2>2. CASE done # p
    BY <1>2, <2>1, <2>2, OwnLocals
  <2>3. CASE done = p
    <3>1. pc[p] \in Ended => pc'[p] = pc[p]
      BY LockFrame DEF Ended, Holding, Unmarked, Working, Publishing, Reporting,
                       Aborting
    <3>2. QED
      BY <1>2, <2>1, <2>3, <3>1
  <2>4. QED
    BY <2>2, <2>3
<1>3. QED
  BY <1>1, <1>2, BothMarkers

\* DONE.json and FAILED.json stand side by side only when the error wrapper
\* overruled the invocation that wrote the first and was stopped half way.
THEOREM MarkersAgree == Spec => []MarkersDisagreeOnlyInAbort
<1>1. Init => MarkerInv /\ MarkersDisagreeOnlyInAbort
  BY DEF Init, MarkerInv, MarkersDisagreeOnlyInAbort, Working, Publishing
<1>2. Inv /\ MarkerInv /\ MarkersDisagreeOnlyInAbort /\ [Next]_vars
      => (MarkerInv /\ MarkersDisagreeOnlyInAbort)'
  <2> SUFFICES ASSUME Inv, MarkerInv, MarkersDisagreeOnlyInAbort, [Next]_vars
               PROVE  (MarkerInv /\ MarkersDisagreeOnlyInAbort)'
    OBVIOUS
  <2>1. CASE UNCHANGED vars
    BY <2>1 DEF MarkerInv, MarkersDisagreeOnlyInAbort, vars, markers
  <2>2. CASE \E p \in Runs : Progress(p) \/ Fault(p)
    BY <2>2, MarkerStep, DisagreeStep DEF Inv
  <2>3. QED
    BY <2>1, <2>2 DEF Next, AllEnded
<1>3. QED
  BY <1>1, <1>2, Invariance, PTL DEF Spec

-----------------------------------------------------------------------------
(* The swap of the probability directory.                                  *)

\* What p's own steps do to the probability directory and its two copies.
LEMMA SwapFrame ==
  ASSUME NEW p \in Runs, TypeOK, TaskInv, StagedInv, SwapInv,
         Progress(p) \/ Fault(p)
  PROVE  /\ pc'[p] \in {"start", "members", "preflight", "stage", "swapOut"}
                    \cup Unmarked => backup'[p] = NoHours
         /\ pc'[p] \in {"stage", "swapOut"} =>
              \A s \in Steps : prob'[s] # NoSource => staging'[p][s] # NoSource
         /\ pc'[p] \in {"swapIn", "restore"} => prob' = NoHours
         /\ pc'[p] = "swapIn" => \A s \in Steps :
              backup'[p][s] # NoSource => staging'[p][s] # NoSource
         /\ pc'[p] = "cleanup" => \A s \in Steps :
              backup'[p][s] # NoSource => prob'[s] # NoSource
<1> USE DEF Working, Unmarked, Marked, Publishing, Reporting, Aborting,
            Holding, Ended
<1>0. pc \in [Runs -> Stages] /\ backup \in [Runs -> [Steps -> Source]]
      /\ staging \in [Runs -> [Steps -> Source]]
  BY DEF TypeOK
<1>1. CASE Preflight(p)
  <2>1. CASE Complete(p)
    BY <1>0, <1>1, <2>1
       DEF Preflight, Goto, At, disk, SwapInv
  <2>2. CASE ~Complete(p)
    BY <1>0, <1>1, <2>2 DEF Preflight, Goto
  <2>3. QED
    BY <2>1, <2>2
<1>2. CASE StageHour(p)
  <2> DEFINE h == Least(unstaged[p])
  <2>1. UNCHANGED <<pc, prob, backup>> /\ pc[p] = "stage"
    BY <1>2 DEF StageHour, At, disk
  <2>2. /\ TasksIn(p, {"ok"}) = MembersOf(p)
        /\ unstaged[p] \subseteq Hours(p) /\ unstaged[p] # {}
    BY <1>2, <2>1 DEF StagedInv, StageHour
  <2>3. h \in Hours(p)
    <3>1. unstaged[p] \subseteq Nat
      BY <2>2, RangesAssumption DEF Hours
    <3>2. QED
      BY <2>2, <3>1, LeastIsMember
  <2>4. Aggregate(p, h) # NoSource
    BY <2>2, <2>3, AggregateCurrent
  <2>5. staging' = [staging EXCEPT ![p][h] = Aggregate(p, h)]
    BY <1>2 DEF StageHour
  <2> HIDE DEF h
  <2>6. \A s \in Steps : prob[s] # NoSource => staging'[p][s] # NoSource
    BY <1>0, <2>1, <2>4, <2>5 DEF SwapInv
  <2>7. QED
    BY <2>1, <2>6 DEF SwapInv
<1>3. CASE StagingDone(p)
  <2>1. UNCHANGED <<prob, backup, staging>> /\ pc[p] = "stage"
        /\ pc'[p] = IF prob = NoHours THEN "swapIn" ELSE "swapOut"
    BY <1>0, <1>3 DEF StagingDone, Goto, At, disk, locals
  <2>2. CASE prob = NoHours
    BY <2>1, <2>2 DEF SwapInv, NoHours
  <2>3. CASE prob # NoHours
    BY <2>1, <2>3 DEF SwapInv
  <2>4. QED
    BY <2>2, <2>3
<1>4. CASE SwapOut(p)
  BY <1>0, <1>4 DEF SwapOut, Goto, At, locals, SwapInv
<1>5. CASE SwapIn(p)
  BY <1>0, <1>5 DEF SwapIn, Goto, At, SwapInv
<1>6. CASE MembersDone(p)
  BY <1>0, <1>6 DEF MembersDone, Goto, At, disk, SwapInv
<1>7. CASE SwapInFails(p) \/ ProbabilityFails(p) \/ Restore(p) \/ RemoveBackup(p)
           \/ RaiseMarked(p) \/ RaiseUnmarked(p) \/ Crash(p) \/ OrphanWorkers(p)
  BY <1>0, <1>7 DEF SwapInFails, ProbabilityFails, Restore, RemoveBackup,
     RaiseMarked, RaiseUnmarked, Crash, OrphanWorkers, Goto, At, disk, locals,
     SwapInv
<1>8. CASE pc'[p] = pc[p] /\ UNCHANGED <<prob, backup, staging>>
  BY <1>8 DEF SwapInv
<1>9. CASE /\ pc'[p] \notin Publishing /\ backup' = backup /\ prob' = prob
           /\ pc'[p] \in {"start", "members"} \cup Unmarked =>
                pc[p] \in {"start", "members"} \cup Unmarked
  BY <1>9 DEF SwapInv
<1>10. QED
  BY <1>0, <1>1, <1>2, <1>3, <1>4, <1>5, <1>6, <1>7, <1>8, <1>9
     DEF Progress, Fault, Goto, At, disk, outputs, markers, reports, pool, locals,
         Acquire, GiveUp, EnsureContract, RetractDone, RetractFailed, Announce,
         StartMember, WriteOutput, FinishMember, FailMember, BreakPool, Monitor,
         WriteSummary, WriteMonitoring, WriteMarker, RetractOther,
         ClearRunning, Release, Drained, AbortFailed, AbortDone, AbortRunning,
         AbortStepFails, InterruptDrain, KillLateWorkers

\* Only p's steps touch p's backup.
LEMMA OwnBackup ==
  ASSUME NEW p \in Runs, TypeOK, Progress(p) \/ Fault(p)
  PROVE  \A q \in Runs \ {p} : backup'[q] = backup[q]
  BY DEF TypeOK, Progress, Fault, disk, outputs, markers, reports, pool, locals,
         Acquire, GiveUp, EnsureContract, RetractDone, RetractFailed, Announce,
         StartMember, WriteOutput, FinishMember, FailMember, BreakPool,
         MembersDone, Preflight, StageHour, StagingDone, SwapOut, SwapIn,
         SwapInFails, Restore, ProbabilityFails, RemoveBackup, Monitor,
         WriteSummary, WriteMonitoring, WriteMarker, RetractOther,
         ClearRunning, Release, RaiseUnmarked, RaiseMarked, Drained,
         AbortFailed, AbortDone, AbortRunning, AbortStepFails, Crash,
         OrphanWorkers, InterruptDrain, KillLateWorkers

LEMMA SwapStep ==
  ASSUME NEW p \in Runs, TypeOK, LockInv, TaskInv, StagedInv, SwapInv,
         Progress(p) \/ Fault(p)
  PROVE  SwapInv'
<1> SUFFICES ASSUME NEW q \in Runs
    PROVE  /\ pc'[q] \in {"start", "members", "preflight", "stage", "swapOut"}
                    \cup Unmarked => backup'[q] = NoHours
           /\ pc'[q] \in {"stage", "swapOut"} =>
                \A s \in Steps : prob'[s] # NoSource => staging'[q][s] # NoSource
           /\ pc'[q] \in {"swapIn", "restore"} => prob' = NoHours
           /\ pc'[q] = "swapIn" => \A s \in Steps :
                backup'[q][s] # NoSource => staging'[q][s] # NoSource
           /\ pc'[q] = "cleanup" => \A s \in Steps :
                backup'[q][s] # NoSource => prob'[s] # NoSource
  BY DEF SwapInv
<1>1. CASE q = p
  BY <1>1, SwapFrame
<1>2. CASE q # p
  <2>1. pc'[q] = pc[q] /\ backup'[q] = backup[q]
    BY <1>2, OwnLocals, OwnBackup
  <2>2. CASE pc[q] \in Holding
    <3>1. UNCHANGED <<prob, staging>>
      BY <1>2, <2>2, OtherIdle
    <3>2. QED
      BY <2>1, <3>1 DEF SwapInv
  <2>3. CASE pc[q] \notin Holding
    BY <2>1, <2>3 DEF SwapInv, Holding, Unmarked, Working, Publishing,
                      Reporting, Aborting
  <2>4. QED
    BY <2>2, <2>3
<1>3. QED
  BY <1>1, <1>2

\* No single step takes an hour out of both the directory and the backups.
LEMMA HoursStay ==
  ASSUME NEW p \in Runs, TypeOK, SwapInv, Progress(p) \/ Fault(p),
         NEW s \in AvailableHours
  PROVE  s \in AvailableHours'
<1> USE DEF AvailableHours
<1>0. backup \in [Runs -> [Steps -> Source]] /\ s \in Steps
  BY DEF TypeOK
<1>1. CASE SwapOut(p)
  <2>1. backup[p] = NoHours
    BY <1>1 DEF SwapOut, At, SwapInv
  <2>2. backup' = [backup EXCEPT ![p] = prob]
    BY <1>1 DEF SwapOut
  <2>3. QED
    BY <1>0, <2>1, <2>2 DEF NoHours
<1>2. CASE SwapIn(p)
  <2>1. prob = NoHours /\ backup' = backup
    BY <1>2 DEF SwapIn, At, SwapInv
  <2>2. QED
    BY <1>0, <2>1 DEF NoHours
<1>3. CASE Restore(p)
  <2>1. prob = NoHours /\ prob' = backup[p]
    BY <1>3 DEF Restore, At, SwapInv
  <2>2. \A q \in Runs \ {p} : backup'[q] = backup[q]
    BY OwnBackup
  <2>3. QED
    BY <1>0, <2>1, <2>2 DEF NoHours
<1>4. CASE RemoveBackup(p)
  <2>1. prob' = prob /\ (backup[p][s] # NoSource => prob[s] # NoSource)
    BY <1>0, <1>4 DEF RemoveBackup, At, SwapInv
  <2>2. \A q \in Runs \ {p} : backup'[q] = backup[q]
    BY OwnBackup
  <2>3. QED
    BY <1>0, <2>1, <2>2
<1>5. CASE prob' = prob /\ backup' = backup
  BY <1>5
<1>6. QED
  BY <1>1, <1>2, <1>3, <1>4, <1>5
     DEF Progress, Fault, disk, outputs, markers, reports, pool, locals,
         Acquire, GiveUp, EnsureContract, RetractDone, RetractFailed, Announce,
         StartMember, WriteOutput, FinishMember, FailMember, BreakPool,
         MembersDone, Preflight, StageHour, StagingDone, SwapInFails,
         ProbabilityFails, Monitor,
         WriteSummary, WriteMonitoring, WriteMarker, RetractOther,
         ClearRunning, Release, RaiseUnmarked, RaiseMarked, Drained,
         AbortFailed, AbortDone, AbortRunning, AbortStepFails, Crash,
         OrphanWorkers, InterruptDrain, KillLateWorkers

\* A published probability hour survives every step, kill and error, in the
\* directory or in the backup of the invocation that is replacing it.
THEOREM HoursAreKept == Spec => NoHourLost
<1>1. Init => SwapInv
  BY DEF Init, SwapInv
<1>2. Inv /\ SwapInv /\ [Next]_vars => SwapInv'
  <2> SUFFICES ASSUME Inv, SwapInv, [Next]_vars PROVE SwapInv'
    OBVIOUS
  <2>1. CASE UNCHANGED vars
    BY <2>1 DEF SwapInv, vars, disk, locals
  <2>2. CASE \E p \in Runs : Progress(p) \/ Fault(p)
    BY <2>2, SwapStep DEF Inv
  <2>3. QED
    BY <2>1, <2>2 DEF Next, AllEnded
<1>3. Inv /\ SwapInv /\ [Next]_vars
      => [AvailableHours \subseteq AvailableHours']_vars
  <2> SUFFICES ASSUME Inv, SwapInv, Next
               PROVE  AvailableHours \subseteq AvailableHours'
    OBVIOUS
  <2>1. CASE \E p \in Runs : Progress(p) \/ Fault(p)
    BY <2>1, HoursStay DEF Inv
  <2>2. CASE AllEnded
    BY <2>2 DEF AllEnded, AvailableHours, vars, disk
  <2>3. QED
    BY <2>1, <2>2 DEF Next
<1>4. QED
  BY <1>1, <1>2, <1>3, Invariance, PTL DEF Spec, NoHourLost

-----------------------------------------------------------------------------
(* The cycle directory implements CyclePromise.                            *)

\* Taking or leaving the lock changes nothing a reader sees.
LEMMA LockMoves ==
  ASSUME NEW p \in Runs, Progress(p) \/ Fault(p), lockOwner' # lockOwner
  PROVE  UNCHANGED <<outputs, prob, done>>
  BY DEF Progress, Fault, disk, outputs, markers, reports, pool, locals,
         Acquire, GiveUp, EnsureContract, RetractDone, RetractFailed, Announce,
         StartMember, WriteOutput, FinishMember, FailMember, BreakPool,
         MembersDone, Preflight, StageHour, StagingDone, SwapOut, SwapIn,
         SwapInFails, Restore, ProbabilityFails, RemoveBackup, Monitor,
         WriteSummary, WriteMonitoring, WriteMarker, RetractOther,
         ClearRunning, Release, RaiseUnmarked, RaiseMarked, Drained,
         AbortFailed, AbortDone, AbortRunning, AbortStepFails, Crash,
         OrphanWorkers, InterruptDrain, KillLateWorkers

\* Every step of an invocation is a step of the abstract publisher, or none.
LEMMA StepRefines ==
  ASSUME NEW p \in Runs, Inv, Progress(p) \/ Fault(p)
  PROVE  Promised!Next \/ UNCHANGED Promised!vars
<1> DEFINE satisfied == {r \in Runs : Satisfied(r)}
<1>0. TypeOK /\ LockInv /\ TaskInv /\ PromiseInv /\ VerdictInv /\ req' = req
  BY OwnLocals DEF Inv
<1>1. ASSUME UNCHANGED <<outputs, prob>>
      PROVE  satisfied' = satisfied
  BY <1>0, <1>1, SatisfiedSame
<1>2. CASE lockOwner' # lockOwner
  <2>1. satisfied' = satisfied /\ done' = done
    BY <1>1, <1>2, LockMoves
  <2>2. CASE lockOwner = Absent /\ lockOwner' = p
    BY <2>1, <2>2 DEF Promised!Next, Promised!Enter
  <2>3. CASE lockOwner = p /\ lockOwner' = Absent
    BY <2>1, <2>3 DEF Promised!Next, Promised!Leave
  <2>4. QED
    BY <1>0, <1>2, <2>2, <2>3, LockFrame DEF LockInv
<1>3. CASE lockOwner' = lockOwner /\ done' # done
  <2>1. pc[p] \in Holding /\ UNCHANGED <<outputs, prob>>
    BY <1>3
       DEF Progress, Fault, Goto, At, disk, outputs, markers, reports, pool,
         locals, Holding, Unmarked, Working, Publishing, Reporting, Aborting,
         Marked,
         Acquire, GiveUp, EnsureContract, RetractDone, RetractFailed, Announce,
         StartMember, WriteOutput, FinishMember, FailMember, BreakPool,
         MembersDone, Preflight, StageHour, StagingDone, SwapOut, SwapIn,
         SwapInFails, Restore, ProbabilityFails, RemoveBackup, Monitor,
         WriteSummary, WriteMonitoring, WriteMarker, RetractOther,
         ClearRunning, Release, RaiseUnmarked, RaiseMarked, Drained,
         AbortFailed, AbortDone, AbortRunning, AbortStepFails, Crash,
         OrphanWorkers, InterruptDrain, KillLateWorkers
  <2>2. lockOwner = p /\ satisfied' = satisfied
    BY <1>0, <1>1, <2>1 DEF LockInv
  <2>3. CASE done' = Absent
    BY <1>3, <2>2, <2>3 DEF Promised!Next, Promised!Withdraw
  <2>4. CASE done' = p /\ pc[p] = "marker" /\ verdict[p]
    <3>1. p \in satisfied
      BY <1>0, <2>4 DEF VerdictInv, Reporting
    <3>2. QED
      BY <1>3, <2>2, <2>4, <3>1 DEF Promised!Next, Promised!Promise
  <2>5. QED
    BY <1>0, <1>3, <2>3, <2>4, DiskFrame
<1>4. CASE lockOwner' = lockOwner /\ done' = done
  <2>1. CASE satisfied' = satisfied
    BY <1>4, <2>1 DEF Promised!vars
  <2>2. CASE satisfied' # satisfied /\ pc[p] \in Holding
    <3>1. pc[p] # "abandoned"
      BY <2>2 DEF Holding, Unmarked, Working, Publishing, Reporting, Aborting
    <3>2. done = Absent
      BY <1>0, <1>1, <2>2, <3>1, PromiseFreezes
    <3>3. lockOwner = p
      BY <1>0, <2>2 DEF LockInv
    <3>4. QED
      BY <1>4, <3>2, <3>3 DEF Promised!Next, Promised!Work
  <2>3. CASE satisfied' # satisfied /\ pc[p] \notin Holding
    <3>1. pc[p] # "abandoned" => UNCHANGED <<outputs, prob>>
      <4>1. pc[p] # "abandoned" => ~Open(p)
        BY <1>0, <2>3 DEF TaskInv, Holding
      <4>2. QED
        BY <1>0, <2>3, <4>1, DiskFrame DEF Holding, Publishing
    <3>2. LateOnly(p) /\ prob' = prob
      BY <1>0, <1>1, <2>3, <3>1, LateStep
    <3>3. satisfied \subseteq satisfied'
      BY <1>0, <3>2, SatisfiedFrame
    <3>4. QED
      BY <1>4, <3>3 DEF Promised!Next, Promised!Linger
  <2>4. QED
    BY <2>1, <2>2, <2>3
<1>5. QED
  BY <1>2, <1>3, <1>4

\* Readers may rely on CyclePromise: one holder of the lock at a time, DONE.json
\* only over outputs that satisfy the request it names, and late workers that
\* take nothing away from it.
THEOREM CycleImplementsPromise == Spec => KeepsPromise
<1>1. Init => Promised!Init
  BY DEF Init, Promised!Init
<1>2. Inv /\ [Next]_vars => [Promised!Next]_(Promised!vars)
  <2> SUFFICES ASSUME Inv, [Next]_vars
               PROVE  Promised!Next \/ UNCHANGED Promised!vars
    OBVIOUS
  <2>1. CASE UNCHANGED vars
    <3>1. UNCHANGED <<outputs, prob, req, lockOwner, done>>
      BY <2>1 DEF vars, disk, markers
    <3>2. QED
      BY <3>1, SatisfiedSame DEF Promised!vars
  <2>2. CASE \E p \in Runs : Progress(p) \/ Fault(p)
    BY <2>2, StepRefines
  <2>3. QED
    BY <2>1, <2>2 DEF Next, AllEnded
<1>3. QED
  BY <1>1, <1>2, Invariance, PTL DEF Spec, KeepsPromise, Promised!Spec

-----------------------------------------------------------------------------
(* RealtimeCycle: the steps of an orchestrator.                            *)

\* A step of p's run_operational, nested or made by hand.
NestedMove(p) == Operational(p, Progress(p) \/ Fault(p))

\* A step of p's orchestration outside the nested run and the call of it.
Between(p) ==
  \/ AcquireOrchestration(p) \/ OrchestrationLocked(p) \/ LoadState(p)
  \/ VerifyState(p) \/ ProbeInput(p) \/ NestedReturns(p) \/ NestedRaises(p)
  \/ SaveState(p) \/ SaveCritical(p) \/ SaveCriticalFails(p)
  \/ Raise(p) \/ Interrupt(p) \/ Kill(p) \/ ReleaseOrchestration(p)

\* The steps of the system, by what they may touch.
LEMMA StepKinds ==
  ASSUME [RealtimeNext]_allVars
  PROVE  \/ \E p \in Runs : NestedMove(p) \/ CallOperational(p) \/ Between(p)
         \/ \E m \in Members, s \in 0..Horizon : Archive(m, s)
         \/ UNCHANGED allVars
<1>1. \A p \in Runs : Orchestrate(p) =>
        NestedMove(p) \/ CallOperational(p) \/ Between(p)
  BY DEF Orchestrate, NestedMove, Operational, Between
<1>2. \A p \in Fallible : OrchestrationFault(p) =>
        p \in Runs /\ (NestedMove(p) \/ Between(p))
  BY RealtimeAssumption DEF OrchestrationFault, NestedMove, Operational, Between
<1>3. QED
  BY <1>1, <1>2 DEF RealtimeNext, Ingest, Quiet

\* The cycle directory and the nested runs, but for the workers a kill takes.
Undisturbing ==
  UNCHANGED <<pc, req, lockOwner, disk, markers, reports, staging, unstaged,
              probStatus, verdict>>

LEMMA BetweenFrame ==
  ASSUME NEW p \in Runs, Between(p)
  PROVE  /\ Undisturbing /\ UNCHANGED <<archived, returned>>
         /\ UNCHANGED vars \/ Kill(p)
<1>1. CASE Kill(p)
  BY <1>1 DEF Kill, Undisturbing
<1>2. CASE ~Kill(p)
  <2>1. UNCHANGED <<vars, archived, returned>>
    BY <1>2
       DEF Between, AcquireOrchestration, OrchestrationLocked, LoadState,
         VerifyState, ProbeInput, NestedReturns, NestedRaises, SaveState,
         SaveCritical, SaveCriticalFails, Raise, Interrupt, Kill,
         ReleaseOrchestration
  <2>2. QED
    BY <2>1 DEF vars, locals, Undisturbing
<1>3. QED
  BY <1>1, <1>2

\* Only p's own stage, record and count change.
LEMMA OwnStage ==
  ASSUME NEW p \in Runs, RealtimeTypeOK,
         NestedMove(p) \/ CallOperational(p) \/ Between(p)
  PROVE  \A q \in Runs \ {p} :
           /\ stage'[q] = stage[q] /\ state'[q] = state[q]
           /\ completed'[q] = completed[q] /\ returned'[q] = returned[q]
  BY DEF RealtimeTypeOK, NestedMove, CallOperational, Between, Operational,
         Reach, vars,
         AcquireOrchestration, OrchestrationLocked, LoadState,
         VerifyState, ProbeInput, NestedReturns, NestedRaises, SaveState,
         SaveCritical, SaveCriticalFails, Raise, Interrupt, Kill,
         ReleaseOrchestration

-----------------------------------------------------------------------------
(* available_contiguous_step.                                              *)

\* Every hour up to the reported one has its input, and the one before it,
\* for every member.
LEMMA AvailableArrived ==
  Available \in 0..Horizon /\ Arrived(1..Available)
<1> DEFINE T == {n \in 0..Horizon : Arrived(1..n)}
<1>1. PICK n \in T : \A k \in T : k <= n
  <2>1. 0 \in T
    BY RealtimeAssumption DEF Arrived
  <2>2. T # {} /\ Horizon \in Nat /\ \A x \in T : x \in Nat /\ x <= Horizon
    BY <2>1, RealtimeAssumption
  <2> HIDE DEF T
  <2>3. QED
    BY <2>2, NatHasGreatest
<1>2. n < Horizon => \E m \in Members : ~({n, n + 1} \subseteq archived[m])
  <2> SUFFICES ASSUME n < Horizon,
                      \A m \in Members : {n, n + 1} \subseteq archived[m]
               PROVE  FALSE
    OBVIOUS
  <2>0. n \in 0..Horizon /\ Arrived(1..n) /\ Horizon \in Nat
    BY RealtimeAssumption
  <2>1. n + 1 \in 0..Horizon /\ \A s \in 1..(n + 1) : s \in 1..n \/ s = n + 1
    BY <2>0
  <2>2. Arrived(1..(n + 1))
    <3> SUFFICES ASSUME NEW m \in Members, NEW s \in 1..(n + 1)
                 PROVE  {s - 1, s} \subseteq archived[m]
      BY DEF Arrived
    <3>1. CASE s \in 1..n
      BY <2>0, <3>1 DEF Arrived
    <3>2. CASE s = n + 1
      <4>1. s - 1 = n
        BY <2>0, <3>2
      <4>2. QED
        BY <3>2, <4>1
    <3>3. QED
      BY <2>1, <3>1, <3>2
  <2>3. QED
    BY <1>1, <2>0, <2>1, <2>2
<1>3. \E k \in 0..Horizon :
        /\ \A m \in Members, s \in 1..k : {s - 1, s} \subseteq archived[m]
        /\ k < Horizon => \E m \in Members : ~({k, k + 1} \subseteq archived[m])
  BY <1>1, <1>2 DEF Arrived
<1>4. QED
  BY <1>3 DEF Available, Arrived

-----------------------------------------------------------------------------
(* Types.                                                                  *)

LEMMA IncrementType ==
  ASSUME NEW p \in Runs, TypeOK, RealtimeTypeOK, RoleInv, InputInv,
         CallOperational(p)
  PROVE  /\ p \in Orchestrators /\ pc[p] = "start"
         /\ completed[p] + 1 \in Steps /\ state[p].available \in Steps
         /\ completed[p] + 1 <= state[p].available
         /\ Increment(req[p].mode, completed[p] + 1, state[p].available)
              \in Requests
<1>1. stage[p] = "call"
  BY DEF CallOperational
<1>2. p \in Orchestrators /\ pc[p] = "start"
  BY <1>1 DEF RoleInv
<1>3. /\ completed[p] < state[p].available
      /\ completed[p] \in 0..Horizon /\ state[p].available \in 0..Horizon
  BY <1>1, <1>2 DEF InputInv, RealtimeTypeOK, CycleRecord
<1>4. req[p] \in Requests /\ req[p].mode \in ProbabilityModes
  BY <1>2 DEF TypeOK, RoleInv
<1>5. /\ completed[p] + 1 \in Steps /\ state[p].available \in Steps
      /\ completed[p] + 1 <= state[p].available
  BY <1>3, RealtimeAssumption
<1>6. QED
  BY <1>2, <1>4, <1>5, IncrementsAssumption

LEMMA RealtimeTypeStep ==
  ASSUME TypeOK, RealtimeTypeOK, [RealtimeNext]_allVars
  PROVE  RealtimeTypeOK'
<1> USE DEF RealtimeTypeOK, Reach, Orchestrating, Raising
<1>1. ASSUME NEW p \in Runs, NestedMove(p)
      PROVE  RealtimeTypeOK'
  BY <1>1 DEF NestedMove, Operational
<1>2. ASSUME NEW p \in Runs, CallOperational(p)
      PROVE  RealtimeTypeOK'
  BY <1>2 DEF CallOperational
<1>3. ASSUME NEW p \in Runs, Between(p)
      PROVE  RealtimeTypeOK'
  <2>1. CASE AcquireOrchestration(p) \/ OrchestrationLocked(p)
             \/ NestedRaises(p) \/ SaveState(p) \/ SaveCriticalFails(p)
    BY <2>1 DEF AcquireOrchestration, OrchestrationLocked, NestedRaises,
                SaveState, SaveCriticalFails
  <2>2. CASE Raise(p) \/ Interrupt(p) \/ Kill(p) \/ ReleaseOrchestration(p)
    BY <2>2 DEF Raise, Interrupt, Kill, ReleaseOrchestration
  <2>3. CASE LoadState(p)
    <3>1. req[p].mode \in Modes
      BY RequestsAssumption DEF TypeOK
    <3>2. [cycle EXCEPT !.mode = req[p].mode] \in CycleRecord
      BY <3>1 DEF CycleRecord
    <3>3. QED
      BY <2>3, <3>2 DEF LoadState
  <2>4. CASE VerifyState(p)
    <3>1. 0 \in 0..Horizon /\ state[p].through \in 0..Horizon
      BY RealtimeAssumption DEF CycleRecord
    <3>2. QED
      BY <2>4, <3>1 DEF VerifyState
  <2>5. CASE ProbeInput(p)
    <3>1. PICK limit \in Limits :
            LET c == completed[p]
                available == IF Available < limit THEN Available ELSE limit
            IN /\ state' = [state EXCEPT ![p] = [@ EXCEPT
                    !.through = c, !.available = available,
                    !.status = IF c = Horizon THEN "complete" ELSE "ingesting"]]
               /\ Reach(p, IF available <= c THEN "save" ELSE "call")
      BY <2>5 DEF ProbeInput
    <3> DEFINE available == IF Available < limit THEN Available ELSE limit
    <3>2. available \in 0..Horizon
      BY AvailableArrived, RealtimeAssumption
    <3> HIDE DEF available
    <3>3. state[p] \in CycleRecord /\ completed[p] \in 0..Horizon
      OBVIOUS
    <3>4. [state[p] EXCEPT !.through = completed[p], !.available = available,
             !.status = IF completed[p] = Horizon THEN "complete" ELSE "ingesting"]
            \in CycleRecord
      BY <3>2, <3>3 DEF CycleRecord
    <3>5. state' \in [Runs -> CycleRecord]
      BY <3>1, <3>4 DEF available
    <3>6. stage' \in [Runs -> Orchestrating \cup {"start", "manual", "ended", "dead"}]
      BY <3>1
    <3>7. QED
      BY <2>5, <3>5, <3>6 DEF ProbeInput
  <2>6. CASE NestedReturns(p)
    <3>1. state[p] \in CycleRecord /\ Hours(p) \subseteq Steps
      BY DEF Hours
    <3>2. [state[p] EXCEPT !.through = state[p].available,
             !.status = IF state[p].available = Horizon THEN "complete"
                        ELSE "ingesting",
             !.covered = @ \cup Hours(p)] \in CycleRecord
      BY <3>1 DEF CycleRecord
    <3>3. [state[p] EXCEPT !.status = "critical"] \in CycleRecord
      BY <3>1 DEF CycleRecord
    <3>4. QED
      BY <2>6, <3>2, <3>3 DEF NestedReturns
  <2>7. CASE SaveCritical(p)
    BY <2>7 DEF SaveCritical, CycleRecord
  <2>8. QED
    BY <1>3, <2>1, <2>2, <2>3, <2>4, <2>5, <2>6, <2>7 DEF Between
<1>4. ASSUME NEW m \in Members, NEW s \in 0..Horizon, Archive(m, s)
      PROVE  RealtimeTypeOK'
  BY <1>4 DEF Archive
<1>5. CASE UNCHANGED allVars
  BY <1>5 DEF allVars, orchVars
<1>6. QED
  BY <1>1, <1>2, <1>3, <1>4, <1>5, StepKinds

-----------------------------------------------------------------------------
(* The nested run keeps the invariant of OperationalRun.                   *)

\* Nobody returns to the start.
LEMMA NotRestarted ==
  ASSUME NEW p \in Runs, TypeOK, TaskInv, Progress(p) \/ Fault(p)
  PROVE  pc'[p] # "start"
<1> USE DEF Holding, Unmarked, Working, Publishing, Reporting, Aborting, Ended
<1>1. CASE pc[p] = "start"
  <2>1. ~Open(p)
    BY <1>1 DEF TaskInv
  <2>2. QED
    BY <1>1, <2>1
       DEF TypeOK, Progress, Fault, Goto, At, Open, TasksIn, Marked,
         Acquire, GiveUp, EnsureContract, RetractDone, RetractFailed, Announce,
         StartMember, WriteOutput, FinishMember, FailMember, BreakPool,
         MembersDone, Preflight, StageHour, StagingDone, SwapOut, SwapIn,
         SwapInFails, Restore, ProbabilityFails, RemoveBackup, Monitor,
         WriteSummary, WriteMonitoring, WriteMarker, RetractOther,
         ClearRunning, Release, RaiseUnmarked, RaiseMarked, Drained,
         AbortFailed, AbortDone, AbortRunning, AbortStepFails, Crash,
         OrphanWorkers, InterruptDrain, KillLateWorkers
<1>2. CASE pc[p] # "start"
  BY <1>2, LockFrame
<1>3. QED
  BY <1>1, <1>2

LEMMA NestedInv ==
  ASSUME NEW p \in Runs, Inv, NestedMove(p)
  PROVE  Inv'
  BY NextInv DEF NestedMove, Operational, Next

\* Giving a run that has not begun other hours disturbs nobody.
LEMMA CallInv ==
  ASSUME NEW p \in Runs, Inv, RealtimeTypeOK, FreshInv, RoleInv, InputInv,
         CallOperational(p)
  PROVE  Inv'
<1> DEFINE increment ==
      Increment(req[p].mode, completed[p] + 1, state[p].available)
<1>0. TypeOK
  BY DEF Inv
<1>1. /\ p \in Orchestrators /\ pc[p] = "start" /\ increment \in Requests
  BY <1>0, IncrementType
<1>2. /\ req' = [req EXCEPT ![p] = increment]
      /\ UNCHANGED <<pc, lockOwner, contract, file, unlocked, prob, backup, running,
                     done, failed, summary, monitoring, task, unwritten, staging,
                     unstaged, probStatus, verdict>>
  BY DEF CallOperational, disk, outputs, markers, reports, pool, locals
<1>3. \A q \in Runs : req'[q].mode = req[q].mode /\ (q # p => req'[q] = req[q])
  BY <1>0, <1>2 DEF TypeOK, Increment
<1>4. ASSUME NEW q \in Runs \ {p}
      PROVE  /\ Hours(q)' = Hours(q) /\ MembersOf(q)' = MembersOf(q)
             /\ Open(q)' <=> Open(q)
             /\ TasksIn(q, {"ok"})' = TasksIn(q, {"ok"})
             /\ TasksIn(q, {"idle"})' = TasksIn(q, {"idle"})
             /\ \A s \in Steps : /\ Current(q, s, prob[s])' <=> Current(q, s, prob[s])
                               /\ Current(q, s, staging[q][s])' <=>
                                    Current(q, s, staging[q][s])
  BY <1>2, <1>3 DEF Hours, MembersOf, Open, TasksIn, Current
<1>5. \A q \in Runs \ {p} : Satisfied(q)' <=> Satisfied(q)
  <2>1. ASSUME NEW q \in Runs \ {p}
        PROVE  \A s \in Hours(q) : Current(q, s, prob[s])' <=> Current(q, s, prob[s])
    BY <1>2, <1>4 DEF Current
  <2>2. ASSUME NEW q \in Runs \ {p}
        PROVE  Satisfied(q)' <=> Satisfied(q)
    BY <1>2, <1>3, <1>4, <2>1 DEF Satisfied
  <2>3. QED
    BY <2>2
<1>a. \A m \in MembersOf(p)' : task'[p][m] = "idle"
  <2>1. MembersOf(p)' \subseteq Members
    BY <1>0, <1>2 DEF MembersOf, TypeOK, Increment
  <2>2. task'[p] = NoTasks
    BY <1>1, <1>2 DEF FreshInv
  <2>3. QED
    BY <2>1, <2>2 DEF NoTasks
<1>b. ~Open(p)'
  BY <1>a DEF Open, TasksIn
<1>6. TypeOK'
  <2>1. req' \in [Runs -> Requests]
    BY <1>0, <1>1, <1>2 DEF TypeOK
  <2>2. QED
    BY <1>0, <1>2, <2>1 DEF TypeOK
<1>7. LockInv' /\ ContractInv'
  <2>1. ASSUME NEW q \in Runs, pc'[q] \in Committed \/ Open(q)'
        PROVE  contract' = req'[q].mode
    BY <1>1, <1>2, <1>3, <1>4, <1>b, <2>1
       DEF Inv, ContractInv, Committed, Holding, Unmarked, Working, Publishing,
           Reporting, Aborting
  <2>2. QED
    BY <1>2, <2>1 DEF Inv, LockInv, ContractInv
<1>8. OutputsFollowContract'
  BY <1>2, <1>3 DEF Inv, OutputsFollowContract
<1>9. TaskInv'
  <2>1. pc'[p] \notin {"members", "monitor"} \cup Publishing
    BY <1>1, <1>2 DEF Publishing
  <2>2. ASSUME NEW q \in Runs \ {p}
        PROVE  /\ \A m \in MembersOf(q)' : task'[q][m] = "ok" =>
                    \A s \in Hours(q)' : file'[m][s] \in Runs
               /\ \A m \in MembersOf(q)' : task'[q][m] = "active" =>
                    \A s \in Hours(q)' \ unwritten'[q][m] : file'[m][s] \in Runs
               /\ pc'[q] \in {"members", "monitor"} \cup Publishing =>
                    TasksIn(q, {"idle"})' = {}
               /\ Open(q)' =>
                    pc'[q] \in Working \cup Aborting \cup {"release", "abandoned"}
    BY <1>2, <1>4 DEF Inv, TaskInv
  <2>3. QED
    BY <1>a, <1>b, <2>1, <2>2 DEF TaskInv
<1>10. StagedInv'
  <2>1. pc'[p] \notin {"stage", "swapOut", "swapIn"}
    BY <1>1, <1>2
  <2>2. ASSUME NEW q \in Runs \ {p}
        PROVE  /\ pc'[q] = "stage" =>
                    /\ TasksIn(q, {"ok"})' = MembersOf(q)'
                    /\ unstaged'[q] \subseteq Hours(q)'
               /\ pc'[q] \in {"swapOut", "swapIn"} => unstaged'[q] = {}
               /\ pc'[q] \in {"stage", "swapOut", "swapIn"} =>
                    \A s \in Hours(q)' \ unstaged'[q] :
                       Current(q, s, staging[q][s])'
    BY <1>2, <1>4 DEF Inv, StagedInv, Hours
  <2>3. QED
    BY <2>1, <2>2 DEF StagedInv
<1>11. PublishedInv'
  <2>1. ASSUME NEW q \in Runs, Vouching(q)'
        PROVE  \A s \in Hours(q)' : Current(q, s, prob[s])'
    <3>1. q # p /\ Vouching(q)
      BY <1>1, <1>2, <1>3, <2>1 DEF Vouching, Reporting
    <3>2. \A s \in Hours(q) : Current(q, s, prob[s])
      BY <3>1 DEF Inv, PublishedInv, Vouching
    <3>3. Hours(q)' = Hours(q) /\ Hours(q) \subseteq Steps
      BY <1>4, <3>1 DEF Hours
    <3>4. QED
      BY <1>2, <1>4, <3>1, <3>2, <3>3 DEF Current
  <2>2. QED
    BY <2>1 DEF PublishedInv, Vouching
<1>12. VerdictInv' /\ PromiseInv' /\ ReportInv'
  <2>1. VerdictInv' /\ ReportInv'
    BY <1>1, <1>2, <1>5 DEF Inv, VerdictInv, ReportInv, Reporting
  <2>2. PromiseInv'
    BY <1>2, <1>4, <1>b DEF Inv, PromiseInv
  <2>3. QED
    BY <2>1, <2>2
<1>13. DoneIsComplete' /\ DoneMatchesReports'
  <2>1. done # p
    BY <1>1 DEF FreshInv
  <2>2. done # Absent => done \in Runs \ {p}
    BY <1>0, <2>1 DEF TypeOK
  <2>3. QED
    BY <1>2, <1>5, <2>2 DEF Inv, DoneIsComplete, DoneMatchesReports
<1>14. QED
  BY <1>6, <1>7, <1>8, <1>9, <1>10, <1>11, <1>12, <1>13 DEF Inv

\* A call that is killed leaves no worker behind, and changes no file.
LEMMA KillFrame ==
  ASSUME NEW p \in Runs, TypeOK, RoleInv, Kill(p)
  PROVE  /\ pc[p] \in {"start"} \cup Ended /\ Undisturbing
         /\ task' \in [Runs -> [Members -> TaskStates]]
         /\ unwritten' \in [Runs -> [Members -> SUBSET Steps]]
         /\ \A q \in Runs \ {p} :
              task'[q] = task[q] /\ unwritten'[q] = unwritten[q]
         /\ \A m \in MembersOf(p) : task'[p][m] = "idle"
<1>1. pc[p] \in {"start"} \cup Ended
  BY DEF Kill, RoleInv, Orchestrating, Raising
<1>2. /\ NoTasks \in [Members -> TaskStates]
      /\ NothingLeft \in [Members -> SUBSET Steps]
  BY DEF NoTasks, TaskStates, NothingLeft
<1>3. MembersOf(p) \subseteq Members
  BY RequestsAssumption DEF TypeOK, MembersOf
<1>4. /\ task' = [task EXCEPT ![p] = NoTasks]
      /\ unwritten' = [unwritten EXCEPT ![p] = NothingLeft]
      /\ Undisturbing
  BY DEF Kill, Undisturbing
<1>5. /\ task' \in [Runs -> [Members -> TaskStates]] /\ task'[p] = NoTasks
      /\ unwritten' \in [Runs -> [Members -> SUBSET Steps]]
      /\ \A q \in Runs \ {p} : task'[q] = task[q] /\ unwritten'[q] = unwritten[q]
  BY <1>2, <1>4 DEF TypeOK
<1>6. QED
  BY <1>1, <1>3, <1>4, <1>5 DEF NoTasks

LEMMA KillInv ==
  ASSUME NEW p \in Runs, Inv, RoleInv, Kill(p)
  PROVE  Inv'
<1>0. TypeOK
  BY DEF Inv
<1>1. UNCHANGED <<pc, req, lockOwner, contract, outputs, file, unlocked, prob, backup,
                  running, done, failed, summary, monitoring, staging, unstaged,
                  probStatus, verdict>>
  BY <1>0, KillFrame DEF Undisturbing, disk, outputs, markers, reports
<1>2. \A q \in Runs : (Open(q)' => Open(q)) /\ (q = p => ~Open(q)')
  BY <1>0, <1>1, KillFrame DEF Open, TasksIn, MembersOf
<1>3. \A q \in Runs : Satisfied(q)' <=> Satisfied(q)
  BY <1>1, SatisfiedSame
<1>4. TypeOK'
  BY <1>0, <1>1, KillFrame DEF TypeOK
<1>5. LockInv' /\ ContractInv' /\ OutputsFollowContract'
  BY <1>1, <1>2 DEF Inv, LockInv, ContractInv, OutputsFollowContract
<1>6. TaskInv'
  <2>1. pc[p] \notin {"members", "monitor"} \cup Publishing
    BY <1>0, KillFrame DEF Publishing, Ended
  <2>2. ASSUME NEW q \in Runs \ {p}
        PROVE  /\ \A m \in MembersOf(q)' : task'[q][m] = "ok" =>
                    \A s \in Hours(q)' : file'[m][s] \in Runs
               /\ \A m \in MembersOf(q)' : task'[q][m] = "active" =>
                    \A s \in Hours(q)' \ unwritten'[q][m] : file'[m][s] \in Runs
               /\ pc'[q] \in {"members", "monitor"} \cup Publishing =>
                    TasksIn(q, {"idle"})' = {}
    <3>1. task'[q] = task[q] /\ unwritten'[q] = unwritten[q]
      BY <1>0, KillFrame
    <3>2. QED
      BY <1>1, <3>1 DEF Inv, TaskInv, TasksIn, MembersOf, Hours
  <2>3. \A m \in MembersOf(p)' : task'[p][m] = "idle"
    BY <1>0, <1>1, KillFrame DEF MembersOf
  <2>4. \A q \in Runs : Open(q)' =>
          pc'[q] \in Working \cup Aborting \cup {"release", "abandoned"}
    BY <1>1, <1>2 DEF Inv, TaskInv
  <2>5. QED
    BY <1>1, <2>1, <2>2, <2>3, <2>4 DEF TaskInv
<1>7. StagedInv'
  <2>1. pc'[p] \notin {"stage", "swapOut", "swapIn"}
    BY <1>0, <1>1, KillFrame DEF Ended
  <2>2. ASSUME NEW q \in Runs \ {p}
        PROVE  TasksIn(q, {"ok"})' = TasksIn(q, {"ok"})
    BY <1>0, <1>1, KillFrame DEF TasksIn, MembersOf
  <2>3. ASSUME NEW q \in Runs \ {p}
        PROVE  /\ pc'[q] = "stage" =>
                    /\ TasksIn(q, {"ok"})' = MembersOf(q)'
                    /\ unstaged'[q] \subseteq Hours(q)'
               /\ pc'[q] \in {"swapOut", "swapIn"} => unstaged'[q] = {}
               /\ pc'[q] \in {"stage", "swapOut", "swapIn"} =>
                    \A s \in Hours(q)' \ unstaged'[q] :
                       Current(q, s, staging[q][s])'
    BY <1>1, <2>2 DEF Inv, StagedInv, Current, MembersOf, Hours
  <2>4. QED
    BY <2>1, <2>3 DEF StagedInv
<1>8. PublishedInv'
  BY <1>1 DEF Inv, PublishedInv, Current, MembersOf, Hours
<1>9. VerdictInv' /\ PromiseInv' /\ ReportInv'
  BY <1>1, <1>2, <1>3 DEF Inv, VerdictInv, PromiseInv, ReportInv
<1>10. DoneIsComplete' /\ DoneMatchesReports'
  BY <1>0, <1>1, <1>3 DEF Inv, TypeOK, DoneIsComplete, DoneMatchesReports
<1>11. QED
  BY <1>4, <1>5, <1>6, <1>7, <1>8, <1>9, <1>10 DEF Inv

LEMMA RealtimeKeepsInv ==
  ASSUME Inv, RealtimeTypeOK, FreshInv, RoleInv, InputInv,
         [RealtimeNext]_allVars
  PROVE  Inv'
<1>1. CASE UNCHANGED vars
  BY <1>1, NextInv
<1>2. QED
  BY <1>1, StepKinds, NestedInv, CallInv, KillInv, BetweenFrame
     DEF Archive, allVars

-----------------------------------------------------------------------------
(* The stages of an orchestrator and of its nested run.                    *)

LEMMA FreshStep ==
  ASSUME TypeOK, TaskInv, RealtimeTypeOK, FreshInv, [RealtimeNext]_allVars
  PROVE  FreshInv'
<1>1. ASSUME NEW p \in Runs, NestedMove(p)
      PROVE  FreshInv'
  <2>1. Progress(p) \/ Fault(p)
    BY <1>1 DEF NestedMove, Operational
  <2> SUFFICES ASSUME NEW q \in Runs, pc'[q] = "start"
               PROVE  task'[q] = NoTasks /\ done' # q /\ ~returned'[q]
    BY DEF FreshInv
  <2>2. q # p
    BY <2>1, NotRestarted
  <2>3. pc[q] = "start" /\ task'[q] = task[q] /\ returned'[q] = returned[q]
    BY <1>1, <2>1, <2>2, OwnLocals, OwnStage
  <2>4. done' \in {done, Absent, p} /\ q # Absent
    BY <2>1, DiskFrame, RunsAssumption
  <2>5. QED
    BY <2>2, <2>3, <2>4 DEF FreshInv
<1>2. CASE UNCHANGED <<pc, task, done, returned>>
  BY <1>2 DEF FreshInv
<1>3. ASSUME NEW p \in Runs, Kill(p)
      PROVE  FreshInv'
  <2>1. /\ UNCHANGED <<pc, done, returned>>
        /\ \A q \in Runs : task'[q] \in {task[q], NoTasks}
    BY <1>3 DEF Kill, TypeOK, markers
  <2>2. QED
    BY <2>1 DEF FreshInv
<1>4. QED
  BY <1>1, <1>2, <1>3, StepKinds, BetweenFrame
     DEF Archive, CallOperational, allVars, orchVars, vars, locals, pool, markers

LEMMA RoleStep ==
  ASSUME TypeOK, RealtimeTypeOK, RoleInv, [RealtimeNext]_allVars
  PROVE  RoleInv'
<1>1. ASSUME NEW p \in Runs, NestedMove(p)
      PROVE  RoleInv'
  <2>1. Progress(p) \/ Fault(p)
    BY <1>1 DEF NestedMove, Operational
  <2>2. \/ stage' = stage
        \/ stage[p] = "nested" /\ pc'[p] = "dead"
           /\ stage' = [stage EXCEPT ![p] = "dead"]
    BY <1>1 DEF NestedMove, Operational, Reach
  <2>3. stage[p] \in {"nested", "manual"} \/ pc'[p] = pc[p]
    BY <1>1, <2>1, LateStep DEF NestedMove, Operational
  <2>4. req' = req /\ \A q \in Runs \ {p} : pc'[q] = pc[q]
    BY <2>1, OwnLocals
  <2>5. QED
    BY <2>2, <2>3, <2>4 DEF RoleInv, RealtimeTypeOK, Ended
<1>2. ASSUME NEW p \in Runs, CallOperational(p)
      PROVE  RoleInv'
  <2>1. /\ stage[p] = "call" /\ stage' = [stage EXCEPT ![p] = "nested"]
        /\ pc' = pc /\ \A q \in Runs \ {p} : req'[q] = req[q]
    BY <1>2 DEF CallOperational, Reach, TypeOK
  <2>2. req'[p] = Increment(req[p].mode, completed[p] + 1, state[p].available)
    BY <1>2 DEF CallOperational, TypeOK
  <2>3. /\ req'[p].mode = req[p].mode
        /\ req'[p] = Increment(req'[p].mode, req'[p].first, req'[p].last)
    BY <2>2 DEF Increment
  <2>4. QED
    BY <2>1, <2>3 DEF RoleInv, RealtimeTypeOK
<1>3. ASSUME NEW p \in Runs, Between(p)
      PROVE  RoleInv'
  <2>1. pc' = pc /\ req' = req
    BY <1>3, BetweenFrame DEF Undisturbing
  <2> DEFINE Early == {"start", "load", "verify", "probe", "call"}
             Late == {"save", "critical", "release", "ended", "dead"}
  <2>2. ASSUME NEW where \in Early \cup Late, Reach(p, where), stage[p] # "manual",
               pc[p] = "start" \/ (pc[p] \in Ended /\ where \notin Early)
        PROVE  RoleInv'
    BY <2>1, <2>2 DEF RoleInv, RealtimeTypeOK, Reach
  <2>3. CASE AcquireOrchestration(p) \/ OrchestrationLocked(p) \/ LoadState(p)
             \/ VerifyState(p) \/ ProbeInput(p)
    <3>1. stage[p] \in Early
      BY <2>3 DEF AcquireOrchestration, OrchestrationLocked, LoadState, VerifyState, ProbeInput
    <3>2. \/ Reach(p, "load") \/ Reach(p, "ended") \/ Reach(p, "verify") \/ Reach(p, "release")
          \/ Reach(p, "probe") \/ Reach(p, "save") \/ Reach(p, "call")
      BY <2>3 DEF AcquireOrchestration, OrchestrationLocked, LoadState, VerifyState, ProbeInput
    <3>3. QED
      BY <2>2, <3>1, <3>2 DEF RoleInv
  <2>4. ASSUME NEW where \in Late, Reach(p, where),
               stage[p] # "manual", stage[p] = "nested" => pc[p] \in {"start"} \cup Ended
        PROVE  RoleInv'
    BY <2>2, <2>4 DEF RoleInv
  <2>5. CASE NestedReturns(p) \/ NestedRaises(p)
    <3>1. stage[p] = "nested" /\ pc[p] \in {"finished", "abandoned"}
      BY <2>5 DEF NestedReturns, NestedRaises
    <3>2. Reach(p, "save") \/ Reach(p, "critical") \/ Reach(p, "release")
      BY <2>5 DEF NestedReturns, NestedRaises
    <3>3. QED
      BY <2>4, <3>1, <3>2 DEF Ended
  <2>6. CASE SaveState(p) \/ SaveCritical(p) \/ SaveCriticalFails(p) \/ ReleaseOrchestration(p)
    <3>1. stage[p] \notin {"manual", "nested"}
      BY <2>6 DEF SaveState, SaveCritical, SaveCriticalFails, ReleaseOrchestration
    <3>2. Reach(p, "release") \/ Reach(p, "ended")
      BY <2>6 DEF SaveState, SaveCritical, SaveCriticalFails, ReleaseOrchestration
    <3>3. QED
      BY <2>4, <3>1, <3>2
  <2>7. CASE Raise(p) \/ Interrupt(p) \/ Kill(p)
    <3>1. stage[p] # "manual" /\ (stage[p] = "nested" => pc[p] \in {"start"} \cup Ended)
      BY <2>7 DEF Raise, Interrupt, Kill, Raising, Orchestrating, Ended
    <3>2. Reach(p, "release") \/ Reach(p, "critical") \/ Reach(p, "dead")
      BY <2>7 DEF Raise, Interrupt, Kill
    <3>3. QED
      BY <2>4, <3>1, <3>2
  <2>8. QED
    BY <1>3, <2>3, <2>5, <2>6, <2>7 DEF Between
<1>4. CASE UNCHANGED <<pc, req, stage>>
  BY <1>4 DEF RoleInv
<1>5. QED
  BY <1>1, <1>2, <1>3, <1>4, StepKinds DEF Archive, allVars, orchVars, vars

\* .progressive.lock: whoever is between load and release owns it.
LEMMA HoldStep ==
  ASSUME RealtimeTypeOK, HoldInv, [RealtimeNext]_allVars
  PROVE  HoldInv'
<1> USE DEF Orchestrating, Raising
<1>0. Absent \notin Runs
  BY RunsAssumption
<1>1. ASSUME NEW p \in Runs, NestedMove(p)
      PROVE  HoldInv'
  BY <1>0, <1>1 DEF NestedMove, Operational, Reach, HoldInv, RealtimeTypeOK
<1>2. ASSUME NEW p \in Runs, CallOperational(p)
      PROVE  HoldInv'
  BY <1>2 DEF CallOperational, Reach, HoldInv, RealtimeTypeOK
<1>3. ASSUME NEW p \in Runs, Between(p)
      PROVE  HoldInv'
  <2>1. CASE AcquireOrchestration(p)
    BY <1>0, <2>1 DEF AcquireOrchestration, HoldInv, RealtimeTypeOK, Reach
  <2>2. CASE ReleaseOrchestration(p) \/ Kill(p)
    BY <1>0, <2>2 DEF ReleaseOrchestration, Kill, HoldInv, RealtimeTypeOK, Reach
  <2>3. CASE /\ orchLock' = orchLock
             /\ \A q \in Runs \ {p} : stage'[q] = stage[q]
             /\ stage[p] \in Orchestrating \/ stage'[p] \notin Orchestrating
    BY <2>3 DEF HoldInv
  <2>4. stage[p] \in Orchestrating \/ AcquireOrchestration(p)
          \/ OrchestrationLocked(p)
    BY <1>3 DEF Between, LoadState, VerifyState, ProbeInput, NestedReturns,
         NestedRaises, SaveState, SaveCritical, SaveCriticalFails, Raise,
         Interrupt, Kill, ReleaseOrchestration
  <2>5. OrchestrationLocked(p) => stage'[p] \notin Orchestrating
    BY DEF OrchestrationLocked, Reach, RealtimeTypeOK
  <2>6. \/ AcquireOrchestration(p) \/ ReleaseOrchestration(p) \/ Kill(p)
        \/ orchLock' = orchLock
    BY <1>3 DEF Between, OrchestrationLocked, LoadState, VerifyState,
         ProbeInput, NestedReturns, NestedRaises, SaveState, SaveCritical,
         SaveCriticalFails, Raise, Interrupt
  <2>7. QED
    BY <1>3, <2>1, <2>2, <2>3, <2>4, <2>5, <2>6, OwnStage
<1>4. CASE UNCHANGED <<stage, orchLock>>
  BY <1>4 DEF HoldInv
<1>5. QED
  BY <1>1, <1>2, <1>3, <1>4, StepKinds DEF Archive, allVars, orchVars

-----------------------------------------------------------------------------
(* What a nested run is asked for.                                         *)

LEMMA ProbeStep ==
  ASSUME NEW p \in Runs, RealtimeTypeOK, ProbeInput(p)
  PROVE  /\ stage[p] = "probe" /\ stage'[p] \in {"save", "call"}
         /\ state'[p].mode = state[p].mode
         /\ state'[p].covered = state[p].covered
         /\ state'[p].through = completed[p]
         /\ state'[p].available \in 0..Horizon
         /\ Arrived(1..state'[p].available)
         /\ stage'[p] = "call" => completed[p] < state'[p].available
         /\ state'[p].status # "critical"
         /\ UNCHANGED <<vars, archived, orchLock, cycle, completed, returned>>
<1>1. PICK limit \in Limits :
        LET c == completed[p]
            available == IF Available < limit THEN Available ELSE limit
        IN /\ state' = [state EXCEPT ![p] = [@ EXCEPT
                !.through = c, !.available = available,
                !.status = IF c = Horizon THEN "complete" ELSE "ingesting"]]
           /\ Reach(p, IF available <= c THEN "save" ELSE "call")
  BY DEF ProbeInput
<1> DEFINE available == IF Available < limit THEN Available ELSE limit
<1>2. available \in 0..Horizon /\ 1..available \subseteq 1..Available
  BY AvailableArrived, RealtimeAssumption
<1>3. Arrived(1..available)
  BY <1>2, AvailableArrived DEF Arrived
<1> HIDE DEF available
<1>4. state' = [state EXCEPT ![p] = [@ EXCEPT
                !.through = completed[p], !.available = available,
                !.status = IF completed[p] = Horizon THEN "complete"
                           ELSE "ingesting"]]
      /\ stage' = [stage EXCEPT ![p] = IF available <= completed[p] THEN "save"
                                       ELSE "call"]
  BY <1>1 DEF available, Reach
<1>5. state[p] \in CycleRecord /\ completed[p] \in 0..Horizon
  BY DEF RealtimeTypeOK
<1>6. /\ state'[p].available = available /\ state'[p].through = completed[p]
      /\ state'[p].mode = state[p].mode /\ state'[p].covered = state[p].covered
      /\ state'[p].status # "critical"
  BY <1>4, <1>5 DEF CycleRecord, RealtimeTypeOK
<1>7. /\ stage'[p] \in {"save", "call"}
      /\ stage'[p] = "call" => ~(available <= completed[p])
  BY <1>4 DEF RealtimeTypeOK
<1>8. stage'[p] = "call" => completed[p] < available
  BY <1>2, <1>5, <1>7, RealtimeAssumption
<1>9. QED
  BY <1>2, <1>3, <1>6, <1>7, <1>8 DEF ProbeInput

LEMMA NestedReturnsStep ==
  ASSUME NEW p \in Runs, RealtimeTypeOK, NestedReturns(p)
  PROVE  /\ stage[p] = "nested" /\ pc[p] = "finished" /\ returned[p]
         /\ stage'[p] = "save" /\ state'[p].mode = state[p].mode
         /\ verdict[p] => /\ state'[p].through = state[p].available
                          /\ state'[p].covered = state[p].covered \cup Hours(p)
         /\ ~verdict[p] => /\ state'[p].through = state[p].through
                           /\ state'[p].covered = state[p].covered
                           /\ state'[p].status = "critical"
         /\ UNCHANGED <<vars, archived, orchLock, cycle, completed, returned>>
<1>1. state[p] \in CycleRecord
  BY DEF RealtimeTypeOK
<1>2. CASE verdict[p]
  BY <1>1, <1>2 DEF NestedReturns, Reach, RealtimeTypeOK, CycleRecord
<1>3. CASE ~verdict[p]
  BY <1>1, <1>3 DEF NestedReturns, Reach, RealtimeTypeOK, CycleRecord
<1>4. QED
  BY <1>2, <1>3

\* Where a step outside the nested run leads, and what it does to the record.
LEMMA Passage ==
  ASSUME NEW p \in Runs, RealtimeTypeOK, Between(p)
  PROVE  \/ LoadState(p) /\ stage'[p] = "verify"
         \/ VerifyState(p) \/ ProbeInput(p) \/ NestedReturns(p)
         \/ /\ state' = state /\ completed' = completed
            /\ \/ stage'[p] \notin Loaded
               \/ stage'[p] = "critical" /\ stage[p] \in Loaded
<1>1. CASE LoadState(p)
  BY <1>1 DEF LoadState, Reach, RealtimeTypeOK, Loaded
<1>2. CASE Raise(p)
  BY <1>2 DEF Raise, Reach, RealtimeTypeOK, Loaded, Raising
<1>3. CASE NestedRaises(p)
  BY <1>3 DEF NestedRaises, Reach, RealtimeTypeOK, Loaded
<1>4. QED
  BY <1>1, <1>2, <1>3 DEF Between, Reach, RealtimeTypeOK, Loaded,
     AcquireOrchestration, OrchestrationLocked, SaveState, SaveCritical,
     SaveCriticalFails, Interrupt, Kill, ReleaseOrchestration

\* A nested move keeps p in its stage, or ends it; late workers are nested in
\* nothing any more.
LEMMA NestedStage ==
  ASSUME NEW p \in Runs, RealtimeTypeOK, TypeOK, NestedMove(p)
  PROVE  /\ Progress(p) \/ Fault(p)
         /\ req' = req
         /\ stage[p] \in {"nested", "manual"} \/ pc[p] = "abandoned"
         /\ stage'[p] \in {stage[p], "dead"}
         /\ UNCHANGED <<archived, cycle, state, completed>>
<1>1. Progress(p) \/ Fault(p)
  BY DEF NestedMove, Operational
<1>2. QED
  BY <1>1, OwnLocals DEF NestedMove, Operational, Reach, RealtimeTypeOK

LEMMA CallStep ==
  ASSUME NEW p \in Runs, TypeOK, RealtimeTypeOK, CallOperational(p)
  PROVE  /\ stage[p] = "call" /\ stage'[p] = "nested"
         /\ req'[p].first = completed[p] + 1 /\ req'[p].mode = req[p].mode
         /\ req'[p].last = state[p].available
         /\ \A q \in Runs \ {p} : req'[q] = req[q]
         /\ UNCHANGED <<pc, file, unlocked, prob, contract, verdict, task, archived,
                        cycle, state, completed, returned>>
  BY DEF CallOperational, Increment, Reach, TypeOK, RealtimeTypeOK, disk, outputs,
         locals, pool

LEMMA InputStep ==
  ASSUME TypeOK, RealtimeTypeOK, RoleInv, InputInv, [RealtimeNext]_allVars
  PROVE  InputInv'
<1> USE DEF InputInv, Arrived
<1>1. ASSUME NEW p \in Runs, NestedMove(p)
      PROVE  InputInv'
  <2>1. UNCHANGED <<req, archived, state, completed>>
        /\ \A q \in Runs : stage'[q] \in {stage[q], "dead"}
    BY <1>1, NestedStage, OwnStage
  <2>2. QED
    BY <2>1, RealtimeAssumption DEF Hours
<1>2. ASSUME NEW p \in Runs, CallOperational(p)
      PROVE  InputInv'
  <2>1. Hours(p)' \subseteq 1..state[p].available
    <3>1. completed[p] \in Nat /\ state[p].available \in Nat
      BY DEF RealtimeTypeOK, CycleRecord
    <3>2. QED
      BY <1>2, <3>1, CallStep, RealtimeAssumption DEF Hours
  <2>2. p \in Orchestrators
    BY <1>2, CallStep DEF RoleInv
  <2>3. \A q \in Runs \ {p} : stage'[q] = stage[q] /\ Hours(q)' = Hours(q)
    BY <1>2, CallStep, OwnStage DEF Hours
  <2>4. QED
    BY <1>2, <2>1, <2>2, <2>3, CallStep, RealtimeAssumption
<1>3. ASSUME NEW p \in Runs, Between(p)
      PROVE  InputInv'
  <2>1. archived' = archived /\ req' = req
    BY <1>3, BetweenFrame DEF Undisturbing
  <2>2. \A q \in Orchestrators \ {p} :
          /\ stage'[q] = stage[q] /\ state'[q] = state[q]
          /\ completed'[q] = completed[q] /\ Hours(q)' = Hours(q)
    BY <1>3, <2>1, OwnStage, RealtimeAssumption DEF Hours
  <2>3. CASE ProbeInput(p)
    BY <2>1, <2>2, <2>3, ProbeStep
  <2>4. CASE stage'[p] \notin {"call", "nested"}
    BY <2>1, <2>2, <2>4
  <2>5. QED
    BY <1>3, <2>3, <2>4, Passage, NestedReturnsStep
       DEF VerifyState, Reach, RealtimeTypeOK, Loaded
<1>4. ASSUME NEW m \in Members, NEW s \in 0..Horizon, Archive(m, s)
      PROVE  InputInv'
  <2>1. \A n \in Members : archived[n] \subseteq archived'[n]
    BY <1>4 DEF Archive, RealtimeTypeOK
  <2>2. UNCHANGED <<req, stage, state, completed>>
    BY <1>4 DEF Archive, vars
  <2>3. QED
    BY <2>1, <2>2 DEF Hours
<1>5. CASE UNCHANGED allVars
  BY <1>5 DEF allVars, orchVars, vars, Hours
<1>6. QED
  BY <1>1, <1>2, <1>3, <1>4, <1>5, StepKinds

-----------------------------------------------------------------------------
(* What CYCLE.json counts.                                                 *)

\* CYCLE.json is written from the record of the orchestrator that writes it.
LEMMA CycleFrame ==
  ASSUME NEW p \in Runs, RealtimeTypeOK, Between(p)
  PROVE  \/ cycle' = cycle
         \/ /\ stage[p] \in {"save", "critical"}
            /\ cycle'.mode = state[p].mode /\ cycle'.through = state[p].through
            /\ cycle'.covered = state[p].covered
            /\ cycle'.status = "critical" \/ (stage[p] = "save" /\ cycle' = state[p])
<1>1. CASE SaveCritical(p)
  BY <1>1 DEF SaveCritical, RealtimeTypeOK, CycleRecord
<1>2. CASE SaveState(p)
  BY <1>2 DEF SaveState
<1>3. CASE cycle' = cycle
  BY <1>3
<1>4. QED
  BY <1>1, <1>2, <1>3 DEF Between, AcquireOrchestration, OrchestrationLocked,
     LoadState, VerifyState, ProbeInput, NestedReturns, NestedRaises,
     SaveCriticalFails, Raise, Interrupt, Kill, ReleaseOrchestration

LEMMA LoadStep ==
  ASSUME NEW p \in Runs, RealtimeTypeOK, LoadState(p), stage'[p] = "verify"
  PROVE  /\ cycle.mode \in {Absent, req[p].mode}
         /\ state'[p].mode = req[p].mode
         /\ state'[p].through = cycle.through
         /\ state'[p].covered = cycle.covered
         /\ UNCHANGED <<cycle, completed>>
  BY DEF LoadState, Reach, RealtimeTypeOK, CycleRecord

LEMMA VerifyStep ==
  ASSUME NEW p \in Runs, RealtimeTypeOK, VerifyState(p)
  PROVE  /\ stage[p] = "verify" /\ stage'[p] = "probe"
         /\ \/ completed'[p] = 0
            \/ completed'[p] = state[p].through /\ Proved(p, state[p].through)
         /\ UNCHANGED <<vars, cycle, state>>
  BY DEF VerifyState, Reach, RealtimeTypeOK

LEMMA IncrementStep ==
  ASSUME TypeOK, RealtimeTypeOK, RoleInv, InputInv, IncrementInv,
         [RealtimeNext]_allVars
  PROVE  IncrementInv'
<1> USE DEF IncrementInv, CoveredByIncrements
<1>1. ASSUME NEW p \in Runs, NestedMove(p)
      PROVE  IncrementInv'
  <2>1. UNCHANGED <<req, cycle, state, completed>>
        /\ \A q \in Runs : stage'[q] \in {stage[q], "dead"}
    BY <1>1, NestedStage, OwnStage
  <2>2. QED
    BY <2>1 DEF Loaded
<1>2. ASSUME NEW p \in Runs, CallOperational(p)
      PROVE  IncrementInv'
  <2>1. p \in Orchestrators
    BY <1>2, CallStep DEF RoleInv
  <2>2. completed[p] < state[p].available
    BY <1>2, <2>1, CallStep DEF InputInv
  <2>3. \A q \in Runs \ {p} : stage'[q] = stage[q]
    BY <1>2, OwnStage
  <2>4. QED
    BY <1>2, <2>2, <2>3, CallStep DEF Loaded
<1>3. ASSUME NEW p \in Runs, Between(p)
      PROVE  IncrementInv'
  <2>1. req' = req
    BY <1>3, BetweenFrame DEF Undisturbing
  <2>2. \A q \in Runs \ {p} :
          /\ stage'[q] = stage[q] /\ state'[q] = state[q]
          /\ completed'[q] = completed[q]
    BY <1>3, OwnStage
  <2>3. 1..cycle'.through \subseteq cycle'.covered
    BY <1>3, CycleFrame DEF Loaded
  <2>4. CASE LoadState(p) /\ stage'[p] = "verify"
    BY <2>1, <2>2, <2>3, <2>4, LoadStep
  <2>5. CASE VerifyState(p)
    BY <2>1, <2>2, <2>3, <2>5, VerifyStep DEF Loaded
  <2>6. CASE ProbeInput(p)
    <3>1. 1..completed[p] \subseteq state[p].covered
      BY <2>6, ProbeStep DEF Loaded
    <3>2. QED
      BY <2>1, <2>2, <2>3, <2>6, <3>1, ProbeStep
  <2>7. CASE NestedReturns(p)
    <3>1. /\ 1..completed[p] \subseteq state[p].covered
          /\ req[p].first = completed[p] + 1 /\ req[p].last = state[p].available
      BY <2>7, NestedReturnsStep DEF Loaded
    <3>2. completed[p] \in 0..Horizon /\ state[p].available \in 0..Horizon
      BY DEF RealtimeTypeOK, CycleRecord
    <3>3. Hours(p) = (completed[p] + 1)..state[p].available
      BY <3>1, <3>2, RealtimeAssumption DEF Hours
    <3>4. 1..state[p].available \subseteq state[p].covered \cup Hours(p)
      BY <3>1, <3>2, <3>3, RealtimeAssumption
    <3>5. 1..state'[p].through \subseteq state'[p].covered
      BY <2>7, <3>4, NestedReturnsStep DEF Loaded
    <3>6. QED
      BY <2>1, <2>2, <2>3, <2>7, <3>5, NestedReturnsStep
  <2>8. CASE /\ state' = state /\ completed' = completed
             /\ \/ stage'[p] \notin Loaded
                \/ stage'[p] = "critical" /\ stage[p] \in Loaded
    BY <2>1, <2>2, <2>3, <2>8 DEF Loaded
  <2>9. QED
    BY <1>3, <2>4, <2>5, <2>6, <2>7, <2>8, Passage
<1>4. CASE UNCHANGED <<req, cycle, stage, state, completed>>
  BY <1>4
<1>5. QED
  BY <1>1, <1>2, <1>3, <1>4, StepKinds DEF Archive, allVars, orchVars, vars

-----------------------------------------------------------------------------
(* The contract behind what is counted.                                    *)

\* CONTRACT.json, once written, is never changed.
LEMMA ContractStays ==
  ASSUME NEW p \in Runs, TypeOK, Progress(p) \/ Fault(p), contract # Absent
  PROVE  contract' = contract
<1>1. CASE EnsureContract(p)
  BY <1>1 DEF EnsureContract
<1>2. QED
  BY <1>1, DiskFrame
     DEF Progress, Fault, At, disk, outputs, markers, reports, pool, locals,
         Acquire, GiveUp, RetractDone, RetractFailed, Announce,
         StartMember, WriteOutput, FinishMember, FailMember, BreakPool,
         MembersDone, Preflight, StageHour, StagingDone, SwapOut, SwapIn,
         SwapInFails, Restore, ProbabilityFails, RemoveBackup, Monitor,
         WriteSummary, WriteMonitoring, WriteMarker, RetractOther,
         ClearRunning, Release, RaiseUnmarked, RaiseMarked, Drained,
         AbortFailed, AbortDone, AbortRunning, AbortStepFails, Crash,
         OrphanWorkers, InterruptDrain, KillLateWorkers

LEMMA AgreementStep ==
  ASSUME TypeOK, ContractInv, RealtimeTypeOK, IncrementInv, AgreementInv,
         [RealtimeNext]_allVars
  PROVE  AgreementInv'
<1> USE DEF AgreementInv
<1>0. \A p \in Runs : req[p].mode # Absent
  BY RequestsAssumption, RunsAssumption DEF TypeOK
<1>1. ASSUME NEW p \in Runs, NestedMove(p)
      PROVE  AgreementInv'
  <2>1. /\ UNCHANGED <<req, cycle, state>>
        /\ Progress(p) \/ Fault(p)
        /\ \A q \in Runs : stage'[q] \in {stage[q], "dead"}
    BY <1>1, NestedStage, OwnStage
  <2>2. contract # Absent => contract' = contract
    BY <2>1, ContractStays
  <2>3. returned'[p] => returned[p] \/ pc[p] = "clear"
    BY <1>1 DEF NestedMove, Operational, RealtimeTypeOK
  <2>4. pc[p] = "clear" => contract = req[p].mode
    BY DEF ContractInv, Committed, Holding, Reporting
  <2>5. \A q \in Runs \ {p} : returned'[q] = returned[q]
    BY <1>1, OwnStage
  <2>6. cycle'.through > 0 => contract' = cycle'.mode /\ contract' # Absent
    BY <2>1, <2>2
  <2>7. \A q \in Runs : returned'[q] => contract' = req'[q].mode
    BY <1>0, <2>1, <2>2, <2>3, <2>4, <2>5
  <2>8. ASSUME NEW q \in Runs, stage'[q] \in Loaded
        PROVE  /\ state'[q].mode = req'[q].mode
               /\ state'[q].through > 0 => contract' = req'[q].mode
    <3>1. stage[q] \in Loaded
      BY <2>1, <2>8 DEF Loaded
    <3>2. QED
      BY <1>0, <2>1, <2>2, <3>1
  <2>9. QED
    BY <2>6, <2>7, <2>8
<1>2. ASSUME NEW p \in Runs, CallOperational(p)
      PROVE  AgreementInv'
  <2>1. \A q \in Runs : req'[q].mode = req[q].mode
    BY <1>2, CallStep
  <2>2. \A q \in Runs \ {p} : stage'[q] = stage[q]
    BY <1>2, OwnStage
  <2>3. QED
    BY <1>2, <2>1, <2>2, CallStep DEF Loaded
<1>3. ASSUME NEW p \in Runs, Between(p)
      PROVE  AgreementInv'
  <2>1. UNCHANGED <<req, contract, returned>>
    BY <1>3, BetweenFrame DEF Undisturbing, disk
  <2>2. \A q \in Runs \ {p} : stage'[q] = stage[q] /\ state'[q] = state[q]
    BY <1>3, OwnStage
  <2>3. cycle'.through > 0 => contract = cycle'.mode /\ contract # Absent
    BY <1>0, <1>3, CycleFrame DEF Loaded
  <2>4. CASE LoadState(p) /\ stage'[p] = "verify"
    BY <2>1, <2>2, <2>3, <2>4, LoadStep
  <2>5. CASE VerifyState(p)
    BY <2>1, <2>2, <2>3, <2>5, VerifyStep DEF Loaded
  <2>6. CASE NestedReturns(p)
    BY <2>1, <2>2, <2>3, <2>6, NestedReturnsStep DEF Loaded
  <2>7. CASE /\ state' = state
             /\ \/ stage'[p] \notin Loaded
                \/ stage'[p] = "critical" /\ stage[p] \in Loaded
    BY <2>1, <2>2, <2>3, <2>7 DEF Loaded
  <2>8. CASE ProbeInput(p)
    <3>1. completed[p] \in {0, state[p].through}
      BY <2>8, ProbeStep DEF IncrementInv
    <3>2. QED
      BY <2>1, <2>2, <2>3, <2>8, <3>1, ProbeStep DEF Loaded
  <2>9. QED
    BY <1>3, <2>4, <2>5, <2>6, <2>7, <2>8, Passage
<1>4. CASE UNCHANGED <<req, contract, cycle, stage, state, returned>>
  BY <1>4
<1>5. QED
  BY <1>1, <1>2, <1>3, <1>4, StepKinds DEF Archive, allVars, orchVars, vars, disk

-----------------------------------------------------------------------------
(* The theorems.                                                           *)

LEMMA RealtimeInitInv == RealtimeInit => RealtimeInv
<1> SUFFICES ASSUME RealtimeInit PROVE RealtimeInv
  OBVIOUS
<1> USE DEF RealtimeInit
<1>1. Inv
  BY InitInv
<1>2. RealtimeTypeOK
  <2>1. NoCycle \in CycleRecord /\ 0 \in 0..Horizon
    BY RealtimeAssumption DEF NoCycle, CycleRecord
  <2>2. QED
    BY <2>1 DEF RealtimeTypeOK
<1>3. FreshInv
  BY RunsAssumption DEF FreshInv, Init
<1>4. RoleInv
  <2>1. ASSUME NEW p \in Orchestrators
        PROVE  req[p].first = 1 /\ req[p].last = 1
    <3>1. \A mode : Increment(mode, 1, 1).first = 1 /\ Increment(mode, 1, 1).last = 1
      BY DEF Increment
    <3>2. req[p] = Increment(req[p].mode, 1, 1)
      OBVIOUS
    <3>3. QED
      BY <3>1, <3>2
  <2>2. \A p \in Orchestrators :
          req[p] = Increment(req[p].mode, req[p].first, req[p].last)
    BY <2>1
  <2>3. QED
    BY <2>2, RealtimeAssumption DEF RoleInv, Init
<1>5. HoldInv
  BY DEF HoldInv, Orchestrating, Raising
<1>6. InputInv
  BY RealtimeAssumption DEF InputInv
<1>7. IncrementInv
  BY DEF IncrementInv, CoveredByIncrements, Loaded, NoCycle
<1>8. AgreementInv
  BY DEF AgreementInv, Loaded, NoCycle
<1>9. QED
  BY <1>1, <1>2, <1>3, <1>4, <1>5, <1>6, <1>7, <1>8 DEF RealtimeInv

LEMMA RealtimeNextInv == RealtimeInv /\ [RealtimeNext]_allVars => RealtimeInv'
<1> SUFFICES ASSUME RealtimeInv, [RealtimeNext]_allVars PROVE RealtimeInv'
  OBVIOUS
<1>1. TypeOK /\ TaskInv /\ ContractInv
  BY DEF RealtimeInv, Inv
<1>2. QED
  BY <1>1, RealtimeKeepsInv, RealtimeTypeStep, FreshStep, RoleStep, HoldStep,
     InputStep, IncrementStep, AgreementStep DEF RealtimeInv

\* The shape of CYCLE.json, of the orchestrators and of their nested runs, and
\* the invariants of OperationalRun under a scheduler that chooses the hours.
LEMMA RealtimeInvariance == RealtimeSpec => []RealtimeInv
  BY RealtimeInitInv, RealtimeNextInv, PTL DEF RealtimeSpec

\* At most one orchestrator is past .progressive.lock, counting the orphaned
\* workers of a killed one.
THEOREM OrchestratorsExclude == RealtimeSpec => []OneOrchestrator
<1>1. RealtimeInv => OneOrchestrator
  BY RealtimeAssumption DEF RealtimeInv, HoldInv, OneOrchestrator
<1>2. QED
  BY <1>1, RealtimeInvariance, PTL

\* A nested run is only ever asked for hours whose input, and that of the hour
\* before each, is in FDB for every member.
THEOREM InputPrecedesCall == RealtimeSpec => []NeverAheadOfInput
<1>1. RealtimeInv => NeverAheadOfInput
  BY DEF RealtimeInv, InputInv, Arrived, NeverAheadOfInput
<1>2. QED
  BY <1>1, RealtimeInvariance, PTL

\* Every hour counted in CYCLE.json belongs to an increment it lists as ok.
THEOREM CountedHoursAreCovered == RealtimeSpec => []CoveredByIncrements
<1>1. RealtimeInv => CoveredByIncrements
  BY DEF RealtimeInv, IncrementInv
<1>2. QED
  BY <1>1, RealtimeInvariance, PTL

\* Hours are only counted for the algorithm CONTRACT.json names, whoever else
\* publishes into the directory.
THEOREM CountedUnderContract == RealtimeSpec => []CycleFollowsContract
<1>1. RealtimeInv => CycleFollowsContract
  BY DEF RealtimeInv, AgreementInv, CycleFollowsContract
<1>2. QED
  BY <1>1, RealtimeInvariance, PTL

-----------------------------------------------------------------------------
(* What CYCLE.json claims, when no run is made by hand.                    *)

LEMMA RealtimeSwapStep ==
  ASSUME Inv, SwapInv, RoleInv, RealtimeTypeOK, [RealtimeNext]_allVars
  PROVE  SwapInv'
<1>0. TypeOK /\ LockInv /\ TaskInv /\ StagedInv
  BY DEF Inv
<1>1. ASSUME NEW p \in Runs, NestedMove(p)
      PROVE  SwapInv'
  BY <1>0, <1>1, SwapStep DEF NestedMove, Operational
<1>2. ASSUME NEW p \in Runs, CallOperational(p)
      PROVE  SwapInv'
  <2>1. UNCHANGED <<pc, prob, backup, staging>>
    BY <1>2 DEF CallOperational, disk, locals
  <2>2. QED
    BY <2>1 DEF SwapInv
<1>3. CASE UNCHANGED <<pc, prob, backup, staging>>
  BY <1>3 DEF SwapInv
<1>4. QED
  BY <1>1, <1>2, <1>3, StepKinds, BetweenFrame
     DEF Archive, allVars, Undisturbing, vars, disk, locals

\* A file, once there, is only ever replaced.
LEMMA FilesRemain ==
  ASSUME NEW p \in Runs, TypeOK, Progress(p) \/ Fault(p),
         NEW m \in Members, NEW s \in Steps, file[m][s] # Absent
  PROVE  file'[m][s] # Absent
<1>1. ASSUME NEW n \in Members, WriteOutput(p, n)
      PROVE  file'[m][s] # Absent
  BY <1>1, RunsAssumption DEF WriteOutput, TypeOK
<1>2. CASE file' = file
  BY <1>2
<1>3. QED
  BY <1>1, <1>2
     DEF Progress, Fault, disk, outputs, markers, reports, pool, locals,
         Acquire, GiveUp, EnsureContract, RetractDone, RetractFailed, Announce,
         StartMember, FinishMember, FailMember, BreakPool,
         MembersDone, Preflight, StageHour, StagingDone, SwapOut, SwapIn,
         SwapInFails, Restore, ProbabilityFails, RemoveBackup, Monitor,
         WriteSummary, WriteMonitoring, WriteMarker, RetractOther,
         ClearRunning, Release, RaiseUnmarked, RaiseMarked, Drained,
         AbortFailed, AbortDone, AbortRunning, AbortStepFails, Crash,
         OrphanWorkers, InterruptDrain, KillLateWorkers

\* The way to an ok summary, once left, is not found again.
LEMMA SpoiledStep ==
  ASSUME NEW p \in Runs, TypeOK, RealtimeTypeOK, NestedMove(p), Spoiled(p),
         returned[p] => pc[p] \in {"release"} \cup Ended
  PROVE  Spoiled(p)' \/ pc'[p] = "dead"
<1>1. Progress(p) \/ Fault(p)
  BY DEF NestedMove, Operational
<1>2. returned'[p] <=> returned[p] \/ (pc[p] = "clear" /\ pc'[p] = "release")
  BY DEF NestedMove, Operational, RealtimeTypeOK
<1>3. /\ pc \in [Runs -> Stages] /\ probStatus \in [Runs -> {"none", "ok", "failed", "skipped"}]
      /\ verdict \in [Runs -> BOOLEAN]
  BY DEF TypeOK
<1>4. CASE Monitor(p)
  BY <1>3, <1>4 DEF Monitor, Spoiled, At, Goto, Reporting, Aborting
<1>5. CASE Restore(p) \/ ProbabilityFails(p)
  BY <1>3, <1>5 DEF Restore, ProbabilityFails, Spoiled, At, Goto
<1>6. QED
  BY <1>1, <1>2, <1>3, <1>4, <1>5
     DEF Spoiled, Progress, Fault, Goto, At, disk, outputs, markers, reports, pool, locals,
         Holding, Unmarked, Working, Publishing, Reporting, Aborting, Marked,
         Ended,
         Acquire, GiveUp, EnsureContract, RetractDone, RetractFailed, Announce,
         StartMember, WriteOutput, FinishMember, FailMember, BreakPool,
         MembersDone, Preflight, StageHour, StagingDone, SwapOut, SwapIn,
         SwapInFails, RemoveBackup,
         WriteSummary, WriteMonitoring, WriteMarker, RetractOther,
         ClearRunning, Release, RaiseUnmarked, RaiseMarked, Drained,
         AbortFailed, AbortDone, AbortRunning, AbortStepFails, Crash,
         OrphanWorkers, InterruptDrain, KillLateWorkers

\* An hour in the directory leaves it only on the way back into it.
LEMMA ServedStep ==
  ASSUME NEW p \in Runs, TypeOK, RealtimeTypeOK, SwapInv, NestedMove(p),
         NEW s \in Steps,
         prob[s] # NoSource \/ (pc[p] = "swapIn" /\ staging[p][s] # NoSource)
  PROVE  \/ Spoiled(p)' \/ pc'[p] = "dead" \/ prob'[s] # NoSource
         \/ pc'[p] = "swapIn" /\ staging'[p][s] # NoSource
<1>1. Progress(p) \/ Fault(p)
  BY DEF NestedMove, Operational
<1>2. pc \in [Runs -> Stages] /\ staging \in [Runs -> [Steps -> Source]]
      /\ probStatus \in [Runs -> {"none", "ok", "failed", "skipped"}]
  BY DEF TypeOK
<1>3. CASE SwapOut(p)
  BY <1>2, <1>3 DEF SwapOut, At, Goto, SwapInv, locals
<1>4. CASE SwapIn(p)
  BY <1>2, <1>4 DEF SwapIn, At, SwapInv, NoHours
<1>5. CASE Restore(p) \/ ProbabilityFails(p) \/ SwapInFails(p)
  BY <1>2, <1>5 DEF Restore, ProbabilityFails, SwapInFails, Spoiled, At, Goto
<1>6. CASE RaiseMarked(p)
  BY <1>2, <1>6 DEF RaiseMarked, Spoiled, Goto, Aborting
<1>7. CASE Crash(p)
  BY <1>2, <1>7 DEF Crash, Goto
<1>8. CASE prob' = prob /\ pc[p] # "swapIn"
  BY <1>8
<1>9. QED
  BY <1>1, <1>3, <1>4, <1>5, <1>6, <1>7, <1>8
     DEF Progress, Fault, At, disk, outputs, markers, reports, pool, locals,
         Unmarked, Working, Aborting,
         Acquire, GiveUp, EnsureContract, RetractDone, RetractFailed, Announce,
         StartMember, WriteOutput, FinishMember, FailMember, BreakPool,
         MembersDone, Preflight, StageHour, StagingDone, RemoveBackup, Monitor,
         WriteSummary, WriteMonitoring, WriteMarker, RetractOther,
         ClearRunning, Release, RaiseUnmarked, Drained,
         AbortFailed, AbortDone, AbortRunning, AbortStepFails, OrphanWorkers,
         InterruptDrain, KillLateWorkers

\* Past the marker, with no member open, an invocation only ends.
LEMMA AfterRelease ==
  ASSUME NEW p \in Runs, TypeOK, Progress(p) \/ Fault(p), pc[p] = "release", ~Open(p)
  PROVE  pc'[p] \in Ended
  BY DEF TypeOK, Open, TasksIn, Progress, Fault, Goto, At, Unmarked, Working,
         Publishing, Reporting, Aborting, Marked, Holding, Ended,
         Acquire, GiveUp, EnsureContract, RetractDone, RetractFailed, Announce,
         StartMember, WriteOutput, FinishMember, FailMember, BreakPool,
         MembersDone, Preflight, StageHour, StagingDone, SwapOut, SwapIn,
         SwapInFails, Restore, ProbabilityFails, RemoveBackup, Monitor,
         WriteSummary, WriteMonitoring, WriteMarker, RetractOther,
         ClearRunning, Release, RaiseUnmarked, RaiseMarked, Drained,
         AbortFailed, AbortDone, AbortRunning, AbortStepFails, Crash,
         OrphanWorkers, InterruptDrain, KillLateWorkers

LEMMA StandingStep ==
  ASSUME NEW p \in Runs, TypeOK, RealtimeTypeOK, SwapInv, NestedMove(p),
         Standing(p), pc'[p] # "dead",
         returned[p] => pc[p] \in {"release"} \cup Ended
  PROVE  Standing(p)'
<1>1. completed' = completed /\ (Progress(p) \/ Fault(p))
  BY DEF NestedMove, Operational
<1>2. 1..completed[p] \subseteq Steps
  BY RealtimeAssumption DEF RealtimeTypeOK
<1>3. ASSUME NEW s \in 1..completed[p]
      PROVE  /\ \A m \in Members : file'[m][s] # Absent
             /\ \/ Spoiled(p)' \/ prob'[s] # NoSource
                \/ pc'[p] = "swapIn" /\ staging'[p][s] # NoSource
  <2>1. s \in Steps
    BY <1>2
  <2>2. \A m \in Members : file'[m][s] # Absent
    BY <1>1, <2>1, FilesRemain DEF Standing
  <2>3. CASE Spoiled(p)
    BY <2>2, <2>3, SpoiledStep
  <2>4. CASE ~Spoiled(p)
    BY <2>1, <2>2, <2>4, ServedStep DEF Standing
  <2>5. QED
    BY <2>3, <2>4
<1>4. QED
  BY <1>1, <1>3 DEF Standing

\* The increment of an ok summary is published, on top of what was.
LEMMA IncrementPublished ==
  ASSUME NEW p \in Runs, TypeOK, RealtimeTypeOK, RoleInv, IncrementInv, ClaimInv,
         p \in Orchestrators,
         stage[p] = "nested", pc[p] = "finished", returned[p], verdict[p]
  PROVE  Published(state[p].available)
<1>1. Standing(p) /\ Satisfied(p) /\ ~Spoiled(p)
  BY DEF ClaimInv, Spoiled, Reporting, Aborting
<1>2. /\ req[p].first = completed[p] + 1 /\ req[p].last = state[p].available
      /\ req[p].mode \in ProbabilityModes
  BY DEF IncrementInv, RoleInv
<1>3. MembersOf(p) = Members
  <2>1. req[p] = Increment(req[p].mode, req[p].first, req[p].last)
    BY DEF RoleInv
  <2>2. \A a, b, c : Increment(a, b, c).members = Members
    BY DEF Increment
  <2>3. QED
    BY <2>1, <2>2 DEF MembersOf
<1>4. completed[p] \in 0..Horizon /\ state[p].available \in 0..Horizon
  BY DEF RealtimeTypeOK, CycleRecord
<1>5. ASSUME NEW s \in 1..state[p].available
      PROVE  prob[s] # NoSource /\ \A m \in Members : file[m][s] # Absent
  <2>1. s \in Steps
    BY <1>4, RealtimeAssumption
  <2>2. CASE s <= completed[p]
    <3>1. s \in 1..completed[p]
      BY <1>4, <2>2
    <3>2. QED
      BY <1>1, <3>1 DEF Standing
  <2>3. CASE ~(s <= completed[p])
    <3>1. s \in Hours(p)
      BY <1>2, <1>4, <2>1, <2>3, RealtimeAssumption DEF Hours
    <3>2. \A m \in Members : file[m][s] \in Runs
      BY <1>1, <1>3, <3>1 DEF Satisfied
    <3>3. \A m \in Members : prob[s][m] \in Runs
      BY <1>1, <1>2, <1>3, <3>1 DEF Satisfied, Current
    <3>4. prob[s] # NoSource
      BY <3>3, RunsAssumption, RealtimeAssumption DEF NoSource
    <3>5. QED
      BY <3>2, <3>4, RunsAssumption
  <2>4. QED
    BY <2>2, <2>3
<1>6. QED
  BY <1>5 DEF Published

\* Workers left behind by an interrupted drain spoil no count.
LEMMA LateClaim ==
  ASSUME NEW p \in Runs, TypeOK, RealtimeTypeOK, ClaimInv, NestedMove(p),
         pc[p] = "abandoned"
  PROVE  ClaimInv'
<1>1. /\ Progress(p) \/ Fault(p)
      /\ req' = req /\ state' = state /\ completed' = completed
  BY NestedStage
<1>2. /\ UNCHANGED <<pc, prob, staging, probStatus, verdict>>
      /\ LateOnly(p)
  BY <1>1, LateStep
<1>3. stage' = stage /\ returned' = returned
  BY <1>2 DEF NestedMove, Operational, RealtimeTypeOK
<1>4. \A q \in Runs : Open(q)' => Open(q)
  <2>1. Open(p)' => Open(p)
    BY <1>1, TasksOpen
  <2>2. \A q \in Runs \ {p} : Open(q)' => Open(q)
    BY <1>1, OwnLocals DEF Open, TasksIn, MembersOf
  <2>3. QED
    BY <2>1, <2>2
<1>5. \A q \in Runs : Satisfied(q) => Satisfied(q)'
  BY <1>1, <1>2, SatisfiedFrame
<1>6. \A m \in Members, s \in Steps : file[m][s] # Absent => file'[m][s] # Absent
  BY <1>1, FilesRemain
<1>7. \A q \in Runs : Standing(q) => Standing(q)'
  <2>1. \A q \in Runs : 1..completed[q] \subseteq Steps
    BY RealtimeAssumption DEF RealtimeTypeOK
  <2>2. QED
    BY <1>1, <1>2, <1>3, <1>6, <2>1 DEF Standing, Spoiled
<1>8. \A q \in Runs : Published(state[q].through) => Published(state[q].through)'
  <2>1. \A q \in Runs : 1..state[q].through \subseteq Steps
    BY RealtimeAssumption DEF RealtimeTypeOK, CycleRecord
  <2>2. QED
    BY <1>1, <1>2, <1>6, <2>1 DEF Published
<1>9. QED
  BY <1>1, <1>2, <1>3, <1>4, <1>5, <1>7, <1>8 DEF ClaimInv

LEMMA ClaimStep ==
  ASSUME RealtimeInv, SwapInv, ClaimInv, Runs = Orchestrators,
         [RealtimeNext]_allVars
  PROVE  ClaimInv'
<1>0. /\ TypeOK /\ TaskInv /\ VerdictInv /\ RealtimeTypeOK /\ RoleInv /\ HoldInv
      /\ IncrementInv
  BY DEF RealtimeInv, Inv
<1> USE <1>0
<1>1. ASSUME NEW p \in Runs, NestedMove(p)
      PROVE  ClaimInv'
  <2>1. /\ Progress(p) \/ Fault(p)
        /\ req' = req /\ state' = state /\ completed' = completed
    BY <1>1, NestedStage
  <2>2. ASSUME NEW q \in Runs, Open(q)', ~Open(q)
        PROVE  q = p /\ pc[p] = "announce"
    <3>1. q = p
      BY <2>1, <2>2, OwnLocals DEF Open, TasksIn, MembersOf
    <3>2. QED
      BY <2>1, <2>2, <3>1, TasksOpen
  <2>3. CASE pc[p] = "abandoned"
    BY <1>1, <2>3, LateClaim
  <2>4. CASE pc[p] # "abandoned"
    <3>1. /\ stage[p] = "nested"
          /\ stage'[p] = IF pc'[p] = "dead" THEN "dead" ELSE "nested"
          /\ returned'[p] <=> returned[p] \/ (pc[p] = "clear" /\ pc'[p] = "release")
      <4>1. stage[p] = "nested"
        BY <1>1, <2>4, NestedStage DEF RoleInv
      <4>2. stage' = IF pc'[p] = "dead" THEN [stage EXCEPT ![p] = "dead"] ELSE stage
        BY <1>1, <4>1 DEF NestedMove, Operational, Reach
      <4>3. stage'[p] = IF pc'[p] = "dead" THEN "dead" ELSE "nested"
        BY <4>1, <4>2 DEF RealtimeTypeOK
      <4>4. returned'[p] <=> returned[p] \/ (pc[p] = "clear" /\ pc'[p] = "release")
        BY <1>1 DEF NestedMove, Operational, RealtimeTypeOK
      <4>5. QED
        BY <4>1, <4>3, <4>4
    <3>2. ASSUME NEW q \in Runs \ {p}
          PROVE  /\ stage'[q] \notin {"probe", "call", "nested", "save"}
                 /\ returned'[q] => pc'[q] \in {"release"} \cup Ended /\ ~Open(q)'
      BY <1>1, <2>1, <2>2, <3>1, OwnStage, OwnLocals
         DEF HoldInv, Orchestrating, Raising, ClaimInv
    <3>3. pc[p] = "clear" => ~Open(p)
      BY DEF TaskInv, Working, Aborting
    <3>4. returned'[p] => pc'[p] \in {"release"} \cup Ended /\ ~Open(p)'
      <4>1. CASE returned[p]
        <5>1. pc[p] \in {"release"} \cup Ended /\ ~Open(p)
          BY <4>1 DEF ClaimInv
        <5>2. pc[p] = "release" => pc'[p] \in Ended
          BY <2>1, <5>1, AfterRelease
        <5>3. pc[p] \in Ended => pc'[p] = pc[p]
          BY <2>1, LockFrame DEF Ended, Holding, Unmarked, Working, Publishing,
                                 Reporting, Aborting
        <5>4. QED
          BY <2>2, <5>1, <5>2, <5>3 DEF Ended
      <4>2. CASE ~returned[p]
        BY <2>2, <3>1, <3>3, <4>2
      <4>3. QED
        BY <4>1, <4>2
    <3>5. stage'[p] = "nested" => Standing(p)'
      BY <1>1, <3>1, StandingStep DEF ClaimInv
    <3>6. returned'[p] /\ verdict'[p] /\ stage'[p] = "nested" => Satisfied(p)'
      <4> SUFFICES ASSUME returned'[p], verdict'[p] PROVE Satisfied(p)'
        OBVIOUS
      <4>1. pc[p] \in {"clear", "release"} \cup Ended /\ ~Open(p)
        BY <3>1, <3>3 DEF ClaimInv
      <4>2. UNCHANGED outputs /\ prob' = prob /\ verdict' = verdict
        BY <2>1, <4>1, DiskFrame DEF Ended
      <4>3. Satisfied(p)
        BY <3>1, <4>1, <4>2 DEF ClaimInv, VerdictInv, Reporting
      <4>4. QED
        BY <2>1, <4>2, <4>3, SatisfiedSame
    <3>7. QED
      BY <3>1, <3>2, <3>4, <3>5, <3>6 DEF ClaimInv
  <2>5. QED
    BY <2>3, <2>4
<1>2. ASSUME NEW p \in Runs, CallOperational(p)
      PROVE  ClaimInv'
  <2>1. /\ pc[p] = "start" /\ stage[p] = "call" /\ stage'[p] = "nested"
        /\ UNCHANGED <<pc, file, prob, staging, probStatus, verdict, state,
                       completed, returned>>
    BY <1>2, CallStep DEF CallOperational, RoleInv, locals, disk
  <2>2. \A q \in Runs \ {p} :
          /\ stage'[q] = stage[q] /\ stage[q] \notin {"probe", "call", "nested", "save"}
          /\ Open(q)' <=> Open(q)
    <3>1. \A q \in Runs \ {p} : task'[q] = task[q] /\ req'[q] = req[q]
      BY <1>2, CallStep
    <3>2. QED
      BY <1>2, <2>1, <3>1, OwnStage
         DEF HoldInv, Orchestrating, Raising, Open, TasksIn, MembersOf
  <2>3. Standing(p)'
    BY <2>1 DEF ClaimInv, Standing, Spoiled
  <2>4. ~returned[p]
    BY <2>1 DEF ClaimInv, Ended
  <2>5. QED
    BY <2>1, <2>2, <2>3, <2>4 DEF ClaimInv
<1>3. ASSUME NEW p \in Runs, Between(p)
      PROVE  ClaimInv'
  <2>1. UNCHANGED <<pc, req, outputs, file, prob, staging, probStatus, verdict,
                    returned>>
    BY <1>3, BetweenFrame DEF Undisturbing, disk, outputs
  <2>2. \A q \in Runs \ {p} :
          /\ stage'[q] = stage[q] /\ state'[q] = state[q]
          /\ completed'[q] = completed[q]
    BY <1>3, OwnStage
  <2>3. \A q \in Runs : /\ Satisfied(q)' <=> Satisfied(q)
                        /\ Open(q)' => Open(q)
    <3>1. \A q \in Runs : Open(q)' => Open(q)
      <4>1. CASE Kill(p)
        BY <2>1, <4>1, KillFrame DEF Open, TasksIn, MembersOf
      <4>2. CASE UNCHANGED vars
        BY <4>2 DEF Open, TasksIn, MembersOf, vars, locals, pool
      <4>3. QED
        BY <1>3, <4>1, <4>2, BetweenFrame
    <3>2. QED
      BY <2>1, <3>1, SatisfiedSame
  <2>4. \A q \in Runs :
          completed'[q] = completed[q] => (Standing(q)' <=> Standing(q))
    BY <2>1 DEF Standing, Spoiled
  <2>5. \A q \in Runs \ {p} :
          Published(state[q].through)' <=> Published(state[q].through)
    BY <2>1, <2>2 DEF Published
  <2>6. ASSUME NEW q \in Runs \ {p}
        PROVE  /\ returned'[q] => pc'[q] \in {"release"} \cup Ended /\ ~Open(q)'
               /\ stage'[q] \in {"probe", "call", "nested"} => Standing(q)'
               /\ stage'[q] = "nested" /\ returned'[q] /\ verdict'[q] =>
                    Satisfied(q)'
               /\ stage'[q] = "save" /\ state'[q].status # "critical" =>
                    Published(state[q].through)'
    BY <2>1, <2>2, <2>3, <2>4, <2>5 DEF ClaimInv
  <2>7. returned'[p] => pc'[p] \in {"release"} \cup Ended /\ ~Open(p)'
    BY <2>1, <2>3 DEF ClaimInv
  <2>8. CASE VerifyState(p)
    <3>1. stage'[p] = "probe"
      BY <2>8, VerifyStep
    <3>2. Standing(p)'
      <4>1. CASE completed'[p] = 0
        BY <4>1 DEF Standing
      <4>2. CASE completed'[p] = state[p].through /\ Proved(p, state[p].through)
        BY <2>1, <4>2 DEF Standing, Proved
      <4>3. QED
        BY <2>8, <4>1, <4>2, VerifyStep
    <3>3. QED
      BY <2>6, <2>7, <3>1, <3>2 DEF ClaimInv
  <2>9. CASE ProbeInput(p)
    <3>1. Standing(p) /\ pc[p] = "start" /\ completed' = completed
          /\ stage'[p] \in {"save", "call"} /\ state'[p].through = completed[p]
      BY <2>9, ProbeStep DEF ClaimInv, RoleInv
    <3>2. Published(completed[p])
      BY <3>1 DEF Standing, Spoiled, Published, Reporting, Aborting
    <3>3. Published(state[p].through)'
      BY <2>1, <3>1, <3>2 DEF Published
    <3>4. Standing(p)'
      BY <2>4, <3>1
    <3>5. QED
      BY <2>6, <2>7, <3>1, <3>3, <3>4 DEF ClaimInv
  <2>10. CASE NestedReturns(p)
    <3>1. state'[p].status # "critical" => verdict[p]
      BY <2>10, NestedReturnsStep
    <3>2. verdict[p] => Published(state[p].available)
      BY <2>10, NestedReturnsStep, IncrementPublished
    <3>3. stage'[p] = "save"
          /\ (verdict[p] => state'[p].through = state[p].available)
      BY <2>10, NestedReturnsStep
    <3>4. state'[p].status # "critical" => Published(state[p].through)'
      BY <2>1, <3>1, <3>2, <3>3 DEF Published
    <3>5. QED
      BY <2>6, <2>7, <3>3, <3>4 DEF ClaimInv
  <2>11. CASE stage'[p] \notin {"probe", "call", "nested", "save"}
    BY <2>6, <2>7, <2>11 DEF ClaimInv
  <2>12. QED
    BY <1>3, <2>8, <2>9, <2>10, <2>11, Passage DEF Loaded
<1>4. CASE UNCHANGED <<vars, stage, state, completed, returned>>
  <2>1. UNCHANGED <<pc, req, outputs, file, prob, task, staging, probStatus, verdict>>
    BY <1>4 DEF vars, disk, outputs, locals, pool
  <2>2. \A q \in Runs : /\ Satisfied(q)' <=> Satisfied(q)
                        /\ Standing(q)' <=> Standing(q)
                        /\ Open(q)' <=> Open(q)
    BY <1>4, <2>1, SatisfiedSame DEF Standing, Spoiled, Open, TasksIn, MembersOf
  <2>3. \A q \in Runs : Published(state[q].through)' <=> Published(state[q].through)
    BY <1>4, <2>1 DEF Published
  <2>4. QED
    BY <1>4, <2>1, <2>2, <2>3 DEF ClaimInv
<1>5. QED
  BY <1>1, <1>2, <1>3, <1>4, StepKinds DEF Archive, allVars, orchVars

\* When every run in the directory is an orchestrator's, CYCLE.json is never
\* written with more hours than the directory holds at that moment.
THEOREM ClaimsHold ==
  ASSUME Runs = Orchestrators
  PROVE  RealtimeSpec => ClaimsWhatIsPublished
<1>1. RealtimeInit => SwapInv /\ ClaimInv
  BY DEF RealtimeInit, Init, SwapInv, ClaimInv
<1>2. RealtimeInv /\ SwapInv /\ ClaimInv /\ [RealtimeNext]_allVars
      => (SwapInv /\ ClaimInv)'
  BY RealtimeSwapStep, ClaimStep DEF RealtimeInv
<1>3. RealtimeInv /\ ClaimInv /\ [RealtimeNext]_allVars =>
        [cycle' # cycle /\ cycle'.status # "critical" =>
           Published(cycle'.through)]_allVars
  <2> SUFFICES ASSUME RealtimeInv, ClaimInv, [RealtimeNext]_allVars,
                      cycle' # cycle, cycle'.status # "critical"
               PROVE  Published(cycle'.through)
    OBVIOUS
  <2>1. RealtimeTypeOK
    BY DEF RealtimeInv
  <2>2. PICK p \in Runs : Between(p)
    BY StepKinds
       DEF NestedMove, Operational, CallOperational, Archive, allVars, orchVars
  <2>3. stage[p] = "save" /\ cycle' = state[p]
    BY <2>1, <2>2, CycleFrame
  <2>4. QED
    BY <2>3 DEF ClaimInv
<1>4. QED
  BY <1>1, <1>2, <1>3, RealtimeInvariance, PTL
     DEF RealtimeSpec, ClaimsWhatIsPublished
=============================================================================
