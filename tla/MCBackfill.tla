------------------------------ MODULE MCBackfill ------------------------------
(***************************************************************************)
(* Instances of Backfill for TLC.                                          *)
(***************************************************************************)
EXTENDS Backfill, TLC

CONSTANTS own, other, a1, a2, a3, b1

TwoDays == {1, 2}

\* Two campaigns on one archive root that differ in the algorithm.
TwoManifests == [c \in {own, other} |-> [algorithm |-> c, days |-> TwoDays]]
AttemptsAndForeigner ==
  [t \in {a1, a2, a3, b1} |-> IF t = b1 THEN other ELSE own]

\* Of an invocation that is over only that is remembered, and of inodes those
\* that are open or have a name.
WhatMatters ==
  <<contract, partial, archive, receipt, lock, stage,
    [t \in Tasks |-> IF stage[t] \in Over THEN <<>>
                     ELSE <<handle[t], todo[t], digest[t]>>],
    [i \in Tasks |->
       IF i \in {partial, archive} \cup {handle[t] : t \in {u \in Tasks : stage[u] \notin Over}}
       THEN content[i] ELSE Nothing]>>
=============================================================================
