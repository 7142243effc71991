---------------------------- MODULE MCRealtimeCycle ----------------------------
(***************************************************************************)
(* Instances of RealtimeCycle for TLC.                                     *)
(***************************************************************************)
EXTENDS RealtimeCycle, TLC

CONSTANTS firdewsa, icon

MCModes == {firdewsa, icon}
MCSignature == [m \in MCModes |-> m]
OneMember == {0}
TwoMembers == {0, 1}
MCSteps == 1..Horizon
MCLimits == MCSteps
NoLimits == {Horizon}

\* What an orchestrator may ask for.
ForwardRequests ==
  {Increment(firdewsa, hours[1], hours[2]) :
     hours \in {h \in MCSteps \X MCSteps : h[1] <= h[2]}}

\* The same with either algorithm.
EitherRequests ==
  {Increment(mode, hours[1], hours[2]) :
     mode \in MCModes, hours \in {h \in MCSteps \X MCSteps : h[1] <= h[2]}}

\* Input is only looked at by ProbeInput, so its arrival at any other moment
\* commutes with the step beside it.
ArrivalsAtProbe ==
  archived' # archived => \E p \in Orchestrators : stage[p] = "probe"

\* No action reads a marker, a report, or a local of an invocation that is
\* over and has left no worker, and the properties below name none of them.
LiveLocals(p) ==
  <<pc[p], stage[p], req[p], task[p], unwritten[p], staging[p], unstaged[p], backup[p],
    probStatus[p], verdict[p], state[p], completed[p], returned[p]>>
WhatMatters ==
  <<lockOwner, contract, file, prob, archived, orchLock, cycle,
    [p \in Runs |-> IF Over(p) /\ ~Open(p) THEN <<>> ELSE LiveLocals(p)]>>

MCRunSymmetry == Permutations(Runs)
=============================================================================
