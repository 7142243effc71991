--------------------------- MODULE MCOperationalRun ---------------------------
(***************************************************************************)
(* Instances of OperationalRun for TLC.                                    *)
(***************************************************************************)
EXTENDS OperationalRun, TLC

CONSTANTS plain, masked, strict

MCMembers == {0, 1}
MCSteps == {1, 2}
MCModes == {plain, masked, strict}
MCProbabilityModes == {strict}

\* plain and masked differ only in the precipitation mask, which no output
\* file records; strict files carry diagnostic variables.
MCSignature == [m \in MCModes |-> IF m = strict THEN "diagnostic" ELSE "ptype"]

Request(mode, members, first, last, resume) ==
  [mode |-> mode, members |-> members, first |-> first, last |-> last,
   resume |-> resume, check |-> TRUE, timed |-> mode # plain]

\* Invocations of different contracts on one cycle.
MixedRequests ==
  {Request(plain, MCMembers, 1, 2, TRUE), Request(masked, MCMembers, 1, 1, TRUE),
   Request(plain, {1}, 1, 2, FALSE)}

\* Increments, retries and forced reruns of a cycle with probabilities.
StrictRequests ==
  {Request(strict, MCMembers, 1, 1, TRUE), Request(strict, MCMembers, 2, 2, TRUE),
   Request(strict, MCMembers, 1, 2, FALSE)}

\* What promises, probabilities and steps depend on: no action reads
\* RUNNING.json, FAILED.json, or the locals of an invocation that has ended,
\* and of verdicts only that of the promised one matters to a property.
Locals(p) == <<task[p], unwritten[p], staging[p], unstaged[p], probStatus[p], verdict[p]>>
PromiseView ==
  <<pc, req, lockOwner, disk, done, reports, done # Absent /\ verdict[done],
    [p \in Runs |-> IF pc[p] \in Ended /\ ~Open(p) THEN <<>> ELSE Locals(p)]>>

\* The same for the properties of the mixed run, which look at every marker
\* but at no report of an earlier step.
MixedView ==
  <<pc, req, lockOwner, contract, file, prob, backup, done, failed,
    [p \in Runs |-> IF pc[p] \in Ended /\ ~Open(p) THEN <<>> ELSE Locals(p)]>>

\* Markers, reports and outputs name runs only to compare them.
RunSymmetry == Permutations(Runs)
=============================================================================
