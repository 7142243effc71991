---------------------------- MODULE MemberPromise ----------------------------
(***************************************************************************)
(* What one member of a forecast cycle promises, without chunks, threads   *)
(* or retries: the hours of a call are written one by one in order, each   *)
(* from the archive alone, and a call succeeds only over a full range.     *)
(***************************************************************************)
EXTENDS Naturals

CONSTANTS Steps, Absent

VARIABLES
  reference,  \* what the archive says every hour's output is
  out,        \* the outputs on disk
  todo,       \* the hours of the call still to be written: [next, last]
  outcome     \* "none" during a call, then "ok" or "failed"

vars == <<reference, out, todo, outcome>>

Range(first, last) == {s \in Steps : first <= s /\ s <= last}

Init ==
  /\ out = [s \in Steps |-> Absent]
  /\ todo.next \in Steps /\ todo.last \in Steps
  /\ outcome = "failed"
  /\ DOMAIN reference = Steps

Begin ==
  /\ outcome # "none" /\ outcome' = "none"
  /\ \E first, last \in Steps : todo' = [next |-> first, last |-> last]
  /\ UNCHANGED <<reference, out>>

\* The last hour ends the call.
Write ==
  /\ outcome = "none" /\ todo.next <= todo.last
  /\ out' = [out EXCEPT ![todo.next] = reference[todo.next]]
  /\ todo' = [todo EXCEPT !.next = @ + 1]
  /\ outcome' = IF todo.next = todo.last THEN "ok" ELSE "none"
  /\ UNCHANGED reference

\* All hours are there from earlier calls.
Reuse ==
  /\ outcome = "none" /\ outcome' = "ok"
  /\ \A s \in Range(todo.next, todo.last) : out[s] # Absent
  /\ UNCHANGED <<reference, out, todo>>

\* An exception or a kill, at any time.
Fail ==
  /\ outcome = "none" /\ outcome' = "failed"
  /\ UNCHANGED <<reference, out, todo>>

Next == Begin \/ Write \/ Reuse \/ Fail

Spec == Init /\ [][Next]_vars
=============================================================================
