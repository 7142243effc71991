----------------------------- MODULE CyclePromise -----------------------------
(***************************************************************************)
(* What a cycle directory promises to whoever reads it, without saying how *)
(* it is filled: one publisher at a time works on it, DONE.json names an   *)
(* invocation only while the outputs that invocation was asked for are all *)
(* there, and what former publishers still do takes nothing away from that.*)
(***************************************************************************)
CONSTANTS Runs, Absent

VARIABLES
  owner,      \* the publisher, if any
  promise,    \* the invocation DONE.json vouches for, if any
  satisfied   \* the invocations whose whole request the outputs satisfy

vars == <<owner, promise, satisfied>>

Init ==
  /\ owner = Absent /\ promise = Absent
  /\ satisfied \in SUBSET Runs

Enter(p) ==
  /\ owner = Absent /\ owner' = p
  /\ UNCHANGED <<promise, satisfied>>

Withdraw(p) ==
  /\ owner = p /\ promise' = Absent
  /\ UNCHANGED <<owner, satisfied>>

\* Outputs change only while nothing is promised about them.
Work(p) ==
  /\ owner = p /\ promise = Absent
  /\ satisfied' \in SUBSET Runs
  /\ UNCHANGED <<owner, promise>>

Promise(p) ==
  /\ owner = p /\ p \in satisfied
  /\ promise' = p
  /\ UNCHANGED <<owner, satisfied>>

\* Return, exception or kill.
Leave(p) ==
  /\ owner = p /\ owner' = Absent
  /\ UNCHANGED <<promise, satisfied>>

\* Workers a former publisher left behind complete somebody's outputs.
Linger ==
  /\ satisfied \subseteq satisfied' /\ satisfied' \in SUBSET Runs
  /\ UNCHANGED <<owner, promise>>

Next ==
  \/ Linger
  \/ \E p \in Runs :
       Enter(p) \/ Withdraw(p) \/ Work(p) \/ Promise(p) \/ Leave(p)

Spec == Init /\ [][Next]_vars
=============================================================================
