--------------------------- MODULE MCCompactArchive ---------------------------
(***************************************************************************)
(* Instances of CompactArchive for TLC.                                    *)
(***************************************************************************)
EXTENDS CompactArchive, TLC

TwoMonths == {1, 2}
OneVersion == {1}
ThreeVersions == {1, 2, 3}

\* Of three versions 1 and 2 have the same size.
OneSize == [v \in OneVersion |-> 0]
TwoSizes == [v \in ThreeVersions |-> v \div 3]

\* The tasks are about the month that is replaced; that of another month shares
\* nothing with them.
TasksOnReplaceable == \A t \in Tasks : month[t] \in Replaceable

\* Of an invocation that is over only that is remembered, and what a task has
\* read only while it may still write it.
WhatMatters ==
  <<source, archiveContract, outputs, receipt, evidence, taskLock, tpc, ppc,
    deleting, raced,
    [t \in Tasks |-> IF tpc[t] \in TaskOver THEN <<>>
                     ELSE IF tpc[t] \in TaskReading THEN <<month[t], reading[t]>>
                     ELSE <<month[t]>>],
    [q \in Promoters |-> IF ppc[q] \in PromoterOver THEN <<>>
                         ELSE IF ppc[q] \in {"open", "measure", "date"}
                         THEN <<todo[q], sealed[q], record[q], claim[q]>>
                         ELSE <<todo[q], sealed[q], record[q]>>]>>

=============================================================================
