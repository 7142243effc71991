----------------------------- MODULE RealtimeCycle -----------------------------
(***************************************************************************)
(* run_progressive_cycle (realtime.py): a scheduler calls it again and     *)
(* again while forecast hours arrive in FDB.  Each call works out how far  *)
(* the cycle is published and how far the input reaches, runs              *)
(* run_operational on the difference and records the progress in           *)
(* CYCLE.json, under .progressive.lock.                                    *)
(*                                                                         *)
(* The nested run_operational is the whole of module OperationalRun: an    *)
(* orchestrator p and its nested invocation are the same element of Runs.  *)
(* Invocations outside Orchestrators are run_operational calls made by     *)
(* hand, which take .cycle.lock only.                                      *)
(***************************************************************************)
EXTENDS OperationalRun

CONSTANTS
  Orchestrators,   \* the calls of run_progressive_cycle
  Fallible,        \* the calls that may meet a fault; all of them in reality
  Limits,          \* the values of through_step, Horizon when it is not given
  Horizon          \* expected_cycle_max_step

\* The arguments of the nested run_operational.
Increment(mode, first, last) ==
  [mode |-> mode, members |-> Members, first |-> first, last |-> last,
   resume |-> TRUE, check |-> TRUE, timed |-> FALSE]

ASSUME RealtimeAssumption ==
  /\ Orchestrators \subseteq Runs /\ Fallible \subseteq Runs
  /\ Limits \subseteq Steps /\ Limits # {}
  /\ Horizon \in Nat \ {0} /\ Steps = 1..Horizon
  /\ Members # {}

\* A mode accepted for some hours is accepted for all hours of the cycle.
ASSUME IncrementsAssumption ==
  \A r \in Requests, first, last \in Steps :
    r.mode \in ProbabilityModes /\ first <= last =>
      Increment(r.mode, first, last) \in Requests

VARIABLES
  archived,    \* per member, the hours complete in FDB
  orchLock,    \* whose open file description holds .progressive.lock
  cycle,       \* CYCLE.json
  stage,       \* where each orchestrator is
  state,       \* its copy of CYCLE.json
  completed,   \* its local: the hours proved published
  returned     \* whether its nested run returned a summary

orchVars == <<archived, orchLock, cycle, stage, state, completed, returned>>
allVars == <<vars, orchVars>>

NoCycle == [mode |-> Absent, through |-> 0, available |-> 0,
            status |-> "ingesting", covered |-> {}]
Raising == {"load", "verify", "probe", "call", "save"}
Orchestrating == Raising \cup {"nested", "critical", "release"}

Reach(p, where) == stage' = [stage EXCEPT ![p] = where]

-----------------------------------------------------------------------------
(* Faulty variants of helpers: the mistakes the properties must catch.     *)

\* The hours of the most advanced member are taken for available.
AvailableOfAny ==
  CHOOSE n \in 0..Horizon :
    /\ \E m \in Members : \A s \in 1..n : {s - 1, s} \subseteq archived[m]
    /\ n < Horizon => \A m \in Members : ~({n, n + 1} \subseteq archived[m])

\* The recorded progress is trusted without looking at the files.
ProvedOnPaper(p, c) == c > 0

-----------------------------------------------------------------------------
(* What FDB and the cycle directory hold.                                  *)

\* available_contiguous_step: an hour counts with the hour before it, whose
\* accumulations it subtracts, for every member.
Available ==
  CHOOSE n \in 0..Horizon :
    /\ \A m \in Members, s \in 1..n : {s - 1, s} \subseteq archived[m]
    /\ n < Horizon => \E m \in Members : ~({n, n + 1} \subseteq archived[m])

\* _valid_probability_output: the attributes a stored hour was written with.
ValidProbability(p, s) ==
  /\ prob[s] # NoSource
  /\ \A m \in Members : prob[s][m] \in Runs =>
       Signature[req[prob[s][m]].mode] = Signature[req[p].mode]

\* _state_completed_through: all hours exist, the last one is verified.
Proved(p, c) ==
  /\ c > 0
  /\ \A s \in 1..c : prob[s] # NoSource /\ \A m \in Members : file[m][s] # Absent
  /\ ValidProbability(p, c) /\ \A m \in Members : ValidOutput(p, m, c)

-----------------------------------------------------------------------------
(* Faulty variants of actions: the mistakes the properties must catch.     *)

\* The orchestrator starts without asking for .progressive.lock.
AcquireOrchestrationUnlocked(p) ==
  /\ stage[p] = "start"
  /\ orchLock' = p /\ Reach(p, "load")
  /\ UNCHANGED <<vars, archived, cycle, state, completed, returned>>

\* An increment is recorded whatever monitoring said of it.
NestedReturnsUnjudged(p) ==
  /\ stage[p] = "nested" /\ pc[p] = "finished" /\ returned[p]
  /\ LET s == state[p]
     IN state' = [state EXCEPT ![p] = [s EXCEPT
          !.through = s.available,
          !.status = IF s.available = Horizon THEN "complete" ELSE "ingesting",
          !.covered = @ \cup (IF verdict[p] THEN Hours(p) ELSE {})]]
  /\ Reach(p, "save")
  /\ UNCHANGED <<vars, archived, orchLock, cycle, completed, returned>>

\* A cycle recorded as critical is not tried again.
LoadStateOnce(p) ==
  /\ stage[p] = "load"
  /\ IF cycle.mode \in {Absent, req[p].mode} /\ cycle.status # "critical"
     THEN /\ state' = [state EXCEPT ![p] = [cycle EXCEPT !.mode = req[p].mode]]
          /\ Reach(p, "verify")
     ELSE Reach(p, "release") /\ UNCHANGED state
  /\ UNCHANGED <<vars, archived, orchLock, cycle, completed, returned>>

-----------------------------------------------------------------------------
RealtimeInit ==
  /\ Init
  /\ \A p \in Orchestrators :
       req[p].mode \in ProbabilityModes /\ req[p] = Increment(req[p].mode, 1, 1)
  /\ archived = [m \in Members |-> {}]
  /\ orchLock = Absent
  /\ cycle = NoCycle
  /\ stage = [p \in Runs |-> IF p \in Orchestrators THEN "start" ELSE "manual"]
  /\ state = [p \in Runs |-> NoCycle]
  /\ completed = [p \in Runs |-> 0]
  /\ returned = [p \in Runs |-> FALSE]

\* FDB ingestion: hours arrive in any order.
Archive(m, s) ==
  /\ s \notin archived[m]
  /\ archived' = [archived EXCEPT ![m] = @ \cup {s}]
  /\ UNCHANGED <<vars, orchLock, cycle, stage, state, completed, returned>>

-----------------------------------------------------------------------------
(* The call of run_progressive_cycle, up to the nested run.                *)

AcquireOrchestration(p) ==
  /\ stage[p] = "start" /\ orchLock = Absent
  /\ orchLock' = p /\ Reach(p, "load")
  /\ UNCHANGED <<vars, archived, cycle, state, completed, returned>>

OrchestrationLocked(p) ==
  /\ stage[p] = "start" /\ orchLock # Absent
  /\ Reach(p, "ended")
  /\ UNCHANGED <<vars, archived, orchLock, cycle, state, completed, returned>>

\* _load_state; another algorithm's CYCLE.json raises and is left alone.
LoadState(p) ==
  /\ stage[p] = "load"
  /\ IF cycle.mode \in {Absent, req[p].mode}
     THEN /\ state' = [state EXCEPT ![p] = [cycle EXCEPT !.mode = req[p].mode]]
          /\ Reach(p, "verify")
     ELSE Reach(p, "release") /\ UNCHANGED state
  /\ UNCHANGED <<vars, archived, orchLock, cycle, completed, returned>>

VerifyState(p) ==
  /\ stage[p] = "verify"
  /\ completed' = [completed EXCEPT ![p] =
       IF Proved(p, state[p].through) THEN state[p].through ELSE 0]
  /\ Reach(p, "probe")
  /\ UNCHANGED <<vars, archived, orchLock, cycle, state, returned>>

ProbeInput(p) ==
  /\ stage[p] = "probe"
  /\ \E limit \in Limits :
       LET c == completed[p]
           available == IF Available < limit THEN Available ELSE limit
       IN /\ state' = [state EXCEPT ![p] = [@ EXCEPT
               !.through = c, !.available = available,
               !.status = IF c = Horizon THEN "complete" ELSE "ingesting"]]
          /\ Reach(p, IF available <= c THEN "save" ELSE "call")
  /\ UNCHANGED <<vars, archived, orchLock, cycle, completed, returned>>

CallOperational(p) ==
  /\ stage[p] = "call" /\ Reach(p, "nested")
  /\ req' = [req EXCEPT ![p] =
       Increment(@.mode, completed[p] + 1, state[p].available)]
  /\ UNCHANGED <<pc, lockOwner, disk, markers, reports, locals, archived,
                 orchLock, cycle, state, completed, returned>>

-----------------------------------------------------------------------------
(* The nested run, and the runs made by hand.                              *)

\* A member writes an hour only from input that is in FDB.
InputRead(p) ==
  \A m \in Members, s \in Steps :
    file'[m][s] = p /\ file[m][s] # p => {s - 1, s} \subseteq archived[m]

\* Killing the last process of an orchestrator drops both locks.  Workers left
\* behind by an interrupted drain go on whatever the call does.
Operational(p, Step) ==
  /\ stage[p] \in {"nested", "manual"} \/ pc[p] = "abandoned"
  /\ Step /\ InputRead(p)
  /\ returned' = [returned EXCEPT ![p] = @ \/ (pc[p] = "clear" /\ pc'[p] = "release")]
  /\ IF stage[p] = "nested" /\ pc'[p] = "dead"
     THEN orchLock' = Absent /\ Reach(p, "dead")
     ELSE UNCHANGED <<orchLock, stage>>
  /\ UNCHANGED <<archived, cycle, state, completed>>

\* The summary came back: record the increment.
NestedReturns(p) ==
  /\ stage[p] = "nested" /\ pc[p] = "finished" /\ returned[p]
  /\ LET s == state[p]
     IN state' = [state EXCEPT ![p] =
          IF verdict[p]
          THEN [s EXCEPT !.through = s.available,
                  !.status = IF s.available = Horizon THEN "complete" ELSE "ingesting",
                  !.covered = @ \cup Hours(p)]
          ELSE [s EXCEPT !.status = "critical"]]
  /\ Reach(p, "save")
  /\ UNCHANGED <<vars, archived, orchLock, cycle, completed, returned>>

\* CycleLockedError, contract mismatch, an error: critical.  An interrupt is
\* not an Exception and skips the handler, unless the wrapper's own unlink of
\* RUNNING.json failed on the way.
NestedRaises(p) ==
  /\ stage[p] = "nested" /\ pc[p] \in {"finished", "abandoned"} /\ ~returned[p]
  /\ \/ Reach(p, "critical") \/ Reach(p, "release")
  /\ UNCHANGED <<vars, archived, orchLock, cycle, state, completed, returned>>

-----------------------------------------------------------------------------
(* The end of the call.                                                    *)

SaveState(p) ==
  /\ stage[p] = "save"
  /\ cycle' = state[p] /\ Reach(p, "release")
  /\ UNCHANGED <<vars, archived, orchLock, state, completed, returned>>

\* The except branch: status critical, everything else as it was.
SaveCritical(p) ==
  /\ stage[p] = "critical"
  /\ cycle' = [state[p] EXCEPT !.status = "critical"] /\ Reach(p, "release")
  /\ UNCHANGED <<vars, archived, orchLock, state, completed, returned>>

\* The except branch cannot write either; the first error is re-raised.
SaveCriticalFails(p) ==
  /\ stage[p] = "critical" /\ Reach(p, "release")
  /\ UNCHANGED <<vars, archived, orchLock, cycle, state, completed, returned>>

\* Exhausted FDB retries, an unreadable or unwritable file.
Raise(p) ==
  /\ stage[p] \in Raising
  /\ Reach(p, IF stage[p] = "load" THEN "release" ELSE "critical")
  /\ UNCHANGED <<vars, archived, orchLock, cycle, state, completed, returned>>

Interrupt(p) ==
  /\ stage[p] \in Raising \cup {"critical"} /\ Reach(p, "release")
  /\ UNCHANGED <<vars, archived, orchLock, cycle, state, completed, returned>>

ReleaseOrchestration(p) ==
  /\ stage[p] = "release"
  /\ orchLock' = Absent /\ Reach(p, "ended")
  /\ UNCHANGED <<vars, archived, cycle, state, completed, returned>>

\* Late workers die with the call; if the parent alone dies they keep
\* .progressive.lock, which is the same as a call that never goes on.
Kill(p) ==
  /\ \/ stage[p] \in Orchestrating \ {"nested"}
     \/ stage[p] = "nested" /\ pc[p] \in {"start"} \cup Ended
  /\ orchLock' = Absent /\ Reach(p, "dead")
  /\ task' = [task EXCEPT ![p] = NoTasks]
  /\ unwritten' = [unwritten EXCEPT ![p] = NothingLeft]
  /\ UNCHANGED <<pc, req, lockOwner, disk, markers, reports, staging, unstaged,
                 probStatus, verdict, archived, cycle, state, completed, returned>>

-----------------------------------------------------------------------------
Orchestrate(p) ==
  \/ AcquireOrchestration(p) \/ OrchestrationLocked(p) \/ LoadState(p)
  \/ VerifyState(p) \/ ProbeInput(p) \/ CallOperational(p)
  \/ Operational(p, Progress(p)) \/ NestedReturns(p) \/ NestedRaises(p)
  \/ SaveState(p) \/ SaveCritical(p) \/ ReleaseOrchestration(p)

OrchestrationFault(p) ==
  \/ Operational(p, Fault(p)) \/ SaveCriticalFails(p)
  \/ Raise(p) \/ Interrupt(p) \/ Kill(p)

Ingest == \E m \in Members, s \in 0..Horizon : Archive(m, s)

Over(p) == stage[p] \in {"ended", "dead"} \/ (stage[p] = "manual" /\ pc[p] \in Ended)

Quiet == (\A p \in Runs : Over(p)) /\ UNCHANGED allVars

RealtimeNext ==
  \/ \E p \in Runs : Orchestrate(p)
  \/ \E p \in Fallible : OrchestrationFault(p)
  \/ Ingest \/ Quiet

RealtimeSpec == RealtimeInit /\ [][RealtimeNext]_allVars

\* A call that is not killed keeps executing.
RealtimeFairSpec ==
  RealtimeSpec /\ \A p \in Runs : WF_allVars(Orchestrate(p))

-----------------------------------------------------------------------------
(* Properties.                                                             *)

\* Hours 1..c of the cycle can be served: all members and probabilities.
Published(c) ==
  \A s \in 1..c : prob[s] # NoSource /\ \A m \in Members : file[m][s] # Absent

\* CYCLE.json never claims more than the directory holds at the moment it is
\* written, whatever was killed or lost since the progress before.
ClaimsWhatIsPublished ==
  [][cycle' # cycle /\ cycle'.status # "critical" => Published(cycle'.through)]_allVars

\* Every hour CYCLE.json counts as completed belongs to an increment it lists
\* as ok: an hour published by a call that died before recording it is
\* processed and judged again.
CoveredByIncrements == 1..cycle.through \subseteq cycle.covered

\* The nested run is never asked for an hour whose input is not in FDB for
\* every member.
NeverAheadOfInput ==
  \A p \in Orchestrators : stage[p] = "nested" =>
    \A m \in Members, s \in Hours(p) : {s - 1, s} \subseteq archived[m]

\* One orchestrator per cycle, from load to release, the orphaned workers of
\* a killed one included; after a second interrupt the release itself happens
\* with workers alive, and they are nobody's.
OneOrchestrator ==
  \A p, q \in Orchestrators :
    stage[p] \in Orchestrating /\ stage[q] \in Orchestrating => p = q

\* The hours CYCLE.json counts are those of the algorithm the directory is
\* contracted to, whichever of the two files was written first and by whom.
CycleFollowsContract == cycle.through > 0 => contract = cycle.mode

\* Whatever was killed, lost or failed before, a call that meets no fault,
\* nobody in its way and all of the input publishes the whole cycle.
Undisturbed(p) ==
  /\ stage[p] = "start" /\ \A q \in Runs \ {p} : Over(q)
  /\ \A m \in Members : archived[m] = 0..Horizon
  /\ cycle.mode \in {Absent, req[p].mode}
  /\ contract = req[p].mode \/ (contract = Absent /\ ~OutputsExist)

UndisturbedCallCompletes ==
  \A p \in Orchestrators \ Fallible :
    Undisturbed(p) ~> (cycle.status = "complete" /\ Published(Horizon))

-----------------------------------------------------------------------------
(* The inductive strengthening the proofs use.                             *)

CycleRecord ==
  [mode : Modes \cup {Absent}, through : 0..Horizon, available : 0..Horizon,
   status : {"ingesting", "complete", "critical"}, covered : SUBSET Steps]

\* Every variable of the orchestration keeps its shape.
RealtimeTypeOK ==
  /\ archived \in [Members -> SUBSET (0..Horizon)]
  /\ orchLock \in Runs \cup {Absent}
  /\ cycle \in CycleRecord
  /\ stage \in [Runs -> Orchestrating \cup {"start", "manual", "ended", "dead"}]
  /\ state \in [Runs -> CycleRecord]
  /\ completed \in [Runs -> 0..Horizon]
  /\ returned \in [Runs -> BOOLEAN]

\* A nested run that has not begun has left no trace.
FreshInv == \A p \in Runs : pc[p] = "start" =>
  task[p] = NoTasks /\ done # p /\ ~returned[p]

\* The nested run moves only in the stage of that name.
RoleInv == \A p \in Runs :
  /\ p \in Orchestrators <=> stage[p] # "manual"
  /\ p \in Orchestrators =>
       /\ req[p].mode \in ProbabilityModes
       /\ req[p] = Increment(req[p].mode, req[p].first, req[p].last)
  /\ stage[p] \in {"start", "load", "verify", "probe", "call"} => pc[p] = "start"
  /\ stage[p] \notin {"manual", "nested"} => pc[p] \in {"start"} \cup Ended

HoldInv == \A p \in Runs : stage[p] \in Orchestrating => orchLock = p

Arrived(S) == \A m \in Members, s \in S : {s - 1, s} \subseteq archived[m]

\* What the probe saw is still there when the run is called, and later.
InputInv == \A p \in Orchestrators :
  /\ stage[p] = "call" =>
       completed[p] < state[p].available /\ Arrived(1..state[p].available)
  /\ stage[p] = "nested" => Arrived(Hours(p))

Loaded == {"verify", "probe", "call", "nested", "save", "critical"}

\* The hours counted are those of increments listed ok, and the increment
\* being made follows them without a gap.
IncrementInv ==
  /\ CoveredByIncrements
  /\ \A p \in Runs :
       /\ stage[p] \in Loaded => 1..state[p].through \subseteq state[p].covered
       /\ stage[p] \in {"call", "nested"} => state[p].through = completed[p]
       /\ stage[p] \in {"probe", "call", "nested"} =>
            completed[p] \in {0, state[p].through}
       /\ stage[p] = "nested" =>
            /\ req[p].first = completed[p] + 1 /\ req[p].last = state[p].available
            /\ completed[p] < state[p].available

\* Whoever counts hours counts them under the contract.
AgreementInv ==
  /\ cycle.through > 0 => contract = cycle.mode /\ contract # Absent
  /\ \A p \in Runs :
       /\ stage[p] \in Loaded =>
            /\ state[p].mode = req[p].mode
            /\ state[p].through > 0 => contract = req[p].mode
       /\ returned[p] => contract = req[p].mode

RealtimeInv ==
  /\ Inv /\ RealtimeTypeOK /\ FreshInv /\ RoleInv /\ HoldInv /\ InputInv
  /\ IncrementInv /\ AgreementInv

\* The nested run can no longer return a summary that says ok.
Spoiled(p) ==
  \/ pc[p] \in {"restore", "drain", "orphaned", "abandoned"} \cup Aborting
  \/ pc[p] = "monitor" /\ probStatus[p] = "failed"
  \/ pc[p] \in Reporting \ {"monitor"} /\ ~verdict[p]
  \/ pc[p] \in {"release", "finished"} /\ ~(returned[p] /\ verdict[p])

\* The hours proved published stay published, or are about to be published
\* again by the nested run.
Standing(p) ==
  \A s \in 1..completed[p] :
    /\ \A m \in Members : file[m][s] # Absent
    /\ \/ Spoiled(p) \/ prob[s] # NoSource
       \/ pc[p] = "swapIn" /\ staging[p][s] # NoSource

\* Inductive when no run is made by hand, for such a run may swap the
\* probability directory between the proof and the record.
ClaimInv == \A p \in Runs :
  /\ returned[p] => pc[p] \in {"release"} \cup Ended /\ ~Open(p)
  /\ stage[p] \in {"probe", "call", "nested"} => Standing(p)
  /\ stage[p] = "nested" /\ returned[p] /\ verdict[p] => Satisfied(p)
  /\ stage[p] = "save" /\ state[p].status # "critical" =>
       Published(state[p].through)
=============================================================================
