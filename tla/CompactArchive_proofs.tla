------------------------- MODULE CompactArchive_proofs -------------------------
(***************************************************************************)
(* Theorems about CompactArchive for every set of months, versions, tasks  *)
(* and promotions, any of which may overlap, fail or be killed.            *)
(***************************************************************************)
EXTENDS CompactArchive, TLAPS

-----------------------------------------------------------------------------
(* Types.                                                                  *)

\* A promotion taken over from disk is one that is on disk.
LEMMA TakenOver ==
  ASSUME NEW q \in Promoters, TypeOK, BeginPromotion(q)
  PROVE  \/ sealed' = sealed
         \/ sealed' = [sealed EXCEPT ![q] = Promotion(Absent, NoEntries)]
         \/ \E r \in Roots : /\ promotion[r] # Absent
                             /\ sealed' = [sealed EXCEPT ![q] = promotion[r]]
<1> DEFINE found == {promotion[r] : r \in Roots} \ {Absent}
<1>1. CASE Cardinality(found) > 1
  BY <1>1 DEF BeginPromotion
<1>2. CASE ~(Cardinality(found) > 1) /\ found = {}
  BY <1>2 DEF BeginPromotion
<1>3. CASE ~(Cardinality(found) > 1) /\ found # {}
  <2>1. (CHOOSE p \in found : TRUE) \in found
    BY <1>3
  <2>2. sealed' = [sealed EXCEPT ![q] = CHOOSE p \in found : TRUE]
    BY <1>3 DEF BeginPromotion
  <2>3. PICK r \in Roots : promotion[r] # Absent
                           /\ (CHOOSE p \in found : TRUE) = promotion[r]
    BY <2>1
  <2>4. QED
    BY <2>2, <2>3
<1>4. QED
  BY <1>1, <1>2, <1>3

\* What DateSource seals: the entry of one month, made of the receipt's version
\* and the source's, or nothing.
LEMMA DatedEntry ==
  ASSUME NEW q \in Promoters, TypeOK, DateSource(q)
  PROVE  /\ sealed' \in [Promoters -> Payloads]
         /\ ppc[q] = "date" /\ ppc'[q] \in {"validate", "raised"}
         /\ \/ sealed' = sealed
            \/ \E m \in todo[q] :
                 /\ IsFirst(m, todo[q]) /\ source[m] # Absent
                 /\ sealed'[q].entries[m] = Entry(claim[q], source[m])
                 /\ \A d \in Months \ {m} : sealed'[q].entries[d] = sealed[q].entries[d]
                 /\ \A p \in Promoters \ {q} : sealed'[p] = sealed[p]
         /\ sealed'[q].by = sealed[q].by
         /\ sealed[q].by # Absent => sealed' = sealed
<1> USE DEF TypeOK
<1>1. PICK m \in todo[q] :
        /\ IsFirst(m, todo[q])
        /\ IF /\ source[m] # Absent
              /\ sealed[q].by # Absent => sealed[q].entries[m] = Entry(claim[q], source[m])
           THEN /\ sealed' = [sealed EXCEPT ![q].entries[m] = Entry(claim[q], source[m])]
                /\ Goto(q, "validate")
           ELSE Goto(q, "raised") /\ UNCHANGED sealed
  BY DEF DateSource
<1>2. /\ m \in Months /\ Entry(claim[q], source[m]) \in Entries
      /\ sealed[q] \in Payloads /\ sealed[q].entries \in [Months -> Entries]
  BY DEF Entry, Entries, Payloads
<1>3. CASE /\ source[m] # Absent
           /\ sealed[q].by # Absent => sealed[q].entries[m] = Entry(claim[q], source[m])
  <2> DEFINE entries == [sealed[q].entries EXCEPT ![m] = Entry(claim[q], source[m])]
             payload == [sealed[q] EXCEPT !.entries = entries]
  <2>1. entries \in [Months -> Entries]
    BY <1>2
  <2>2. payload \in Payloads /\ payload.entries = entries /\ payload.by = sealed[q].by
    BY <1>2, <2>1 DEF Payloads
  <2>3. sealed' = [sealed EXCEPT ![q] = payload]
    BY <1>1, <1>3
  <2>4. sealed' \in [Promoters -> Payloads] /\ sealed'[q] = payload
    BY <2>2, <2>3
  <2>5. \A d \in Months \ {m} : sealed'[q].entries[d] = sealed[q].entries[d]
    BY <1>2, <2>2, <2>4
  <2>6. sealed'[q].entries[m] = Entry(claim[q], source[m])
    BY <1>2, <2>2, <2>4
  <2>7. ASSUME sealed[q].by # Absent
        PROVE  sealed' = sealed
    <3>1. entries = sealed[q].entries
      BY <1>2, <1>3, <2>7
    <3>2. payload = sealed[q]
      BY <1>2, <3>1 DEF Payloads
    <3>3. QED
      BY <2>3, <3>2
  <2>8. ppc[q] = "date" /\ ppc'[q] = "validate"
    BY <1>1, <1>3 DEF DateSource, Goto
  <2>9. \A p \in Promoters \ {q} : sealed'[p] = sealed[p]
    BY <2>3
  <2>10. QED
    BY <1>1, <1>3, <2>2, <2>4, <2>5, <2>6, <2>7, <2>8, <2>9
<1>4. CASE ~ (/\ source[m] # Absent
              /\ sealed[q].by # Absent => sealed[q].entries[m] = Entry(claim[q], source[m]))
  BY <1>1, <1>4 DEF DateSource, Goto
<1>5. QED
  BY <1>3, <1>4

\* A step of a task keeps every variable in its type.
LEMMA TaskType ==
  ASSUME NEW t \in Tasks, TypeOK, TaskStep(t) \/ TaskFault(t)
  PROVE  TypeOK'
<1> USE DEF TypeOK, tree, outputs, evidence, taskVars, promoterVars, TaskGoto,
            TaskHolding, TaskProducing, TaskOver, Files
<1>1. CASE TaskAcquire(t) \/ TaskLocked(t) \/ TaskRelease(t)
  BY <1>1 DEF TaskAcquire, TaskLocked, TaskRelease
<1>2. CASE TaskCheck(t) \/ TaskMisjudges(t)
  BY <1>2 DEF TaskCheck, TaskMisjudges
<1>3. CASE WriteHourly(t) \/ WriteStatistics(t) \/ PublishCompact(t)
  BY <1>3 DEF WriteHourly, WriteStatistics, PublishCompact
<1>4. CASE WriteReceipt(t)
  <2>1. CASE source[month[t]] = Absent
    BY <1>4, <2>1 DEF WriteReceipt
  <2>2. CASE source[month[t]] # Absent
    <3>1. reading[t] \in Files \cup {Critical} /\ month[t] \in Months
      OBVIOUS
    <3>2. \E r \in Files \cup {Critical} : receipt' = [receipt EXCEPT ![month[t]] = r]
      <4>1. CASE Size[source[month[t]]] = Size[reading[t]]
        BY <1>4, <2>2, <3>1, <4>1 DEF WriteReceipt
      <4>2. CASE Size[source[month[t]]] # Size[reading[t]]
        BY <1>4, <2>2, <3>1, <4>2 DEF WriteReceipt
      <4>3. QED
        BY <4>1, <4>2
    <3>3. QED
      BY <1>4, <2>2, <3>2 DEF WriteReceipt
  <2>3. QED
    BY <2>1, <2>2
<1>5. CASE WriteCritical(t)
  BY <1>5 DEF WriteCritical
<1>6. CASE TaskRaises(t) \/ TaskAborts(t) \/ TaskKilled(t)
  BY <1>6 DEF TaskRaises, TaskAborts, TaskKilled
<1>7. QED
  BY <1>1, <1>2, <1>3, <1>4, <1>5, <1>6 DEF TaskStep, TaskFault

\* A step of a promotion keeps every variable in its type.
LEMMA PromoterType ==
  ASSUME NEW q \in Promoters, TypeOK, Promote(q) \/ PromoterFault(q)
  PROVE  TypeOK'
<1> USE DEF TypeOK, tree, outputs, evidence, rest, taskVars, Goto,
            PromoterWorking, PromoterOver, Files, Roots
<1>1. CASE BeginPromotion(q)
  <2>1. Promotion(Absent, NoEntries) \in Payloads
    BY DEF Promotion, NoEntries, NoEntry, Entry, Entries, Payloads
  <2>2. sealed' \in [Promoters -> Payloads]
    BY <1>1, <2>1, TakenOver
  <2>3. ppc' \in [Promoters -> PromoterWorking \cup PromoterOver \cup {"start"}]
    BY <1>1 DEF BeginPromotion
  <2>4. QED
    BY <1>1, <2>2, <2>3 DEF BeginPromotion
<1>2. CASE TakeInventory(q)
  BY <1>2 DEF TakeInventory
<1>3. CASE ReadEvidence(q) \/ OpenSource(q) \/ MeasureSource(q)
  <2>1. CASE ReadEvidence(q)
    BY <2>1 DEF ReadEvidence, EvidenceAgrees
  <2>2. CASE OpenSource(q)
    BY <2>2 DEF OpenSource
  <2>3. CASE MeasureSource(q)
    BY <2>3 DEF MeasureSource
  <2>4. QED
    BY <1>3, <2>1, <2>2, <2>3
<1>13. CASE DateSource(q)
  <2>1. sealed' \in [Promoters -> Payloads]
    BY <1>13, DatedEntry
  <2>2. /\ todo' \in [Promoters -> SUBSET Months]
        /\ ppc' \in [Promoters -> PromoterWorking \cup PromoterOver \cup {"start"}]
    BY <1>13 DEF DateSource
  <2>3. QED
    BY <1>13, <2>1, <2>2 DEF DateSource
<1>4. CASE Validated(q)
  <2>1. sealed' \in [Promoters -> Payloads]
    BY <1>4 DEF Validated, Payloads
  <2>2. QED
    BY <1>4, <2>1 DEF Validated
<1>5. CASE Seal(q)
  BY <1>5 DEF Seal, CheckImmutable, WriteSeal
<1>6. CASE Audit(q)
  BY <1>6 DEF Audit
<1>7. CASE CheckMonth(q) \/ HashMonth(q) \/ UnlinkMonth(q)
  <2>1. CASE CheckMonth(q)
    BY <2>1 DEF CheckMonth
  <2>2. CASE HashMonth(q)
    BY <2>2 DEF HashMonth
  <2>3. CASE UnlinkMonth(q)
    <3>1. PICK m \in todo[q] :
            IF source[m] = Absent
            THEN Goto(q, "raised") /\ UNCHANGED <<source, todo>>
            ELSE /\ source' = [source EXCEPT ![m] = Absent]
                 /\ todo' = [todo EXCEPT ![q] = @ \ {m}] /\ Goto(q, "delete")
      BY <2>3 DEF UnlinkMonth
    <3>2. source' \in [Months -> Files] /\ todo' \in [Promoters -> SUBSET Months]
      BY <3>1
    <3>3. ppc' \in [Promoters -> PromoterWorking \cup PromoterOver \cup {"start"}]
      BY <3>1
    <3>4. QED
      BY <2>3, <3>2, <3>3 DEF UnlinkMonth
  <2>4. QED
    BY <1>7, <2>1, <2>2, <2>3
<1>8. CASE DeleteContract(q)
  BY <1>8 DEF DeleteContract
<1>9. CASE CheckRemains(q)
  <2>1. Retirement(q) \in [by : Promoters, of : Payloads \cup {Absent}]
    BY DEF Retirement
  <2>2. QED
    BY <1>9, <2>1 DEF CheckRemains
<1>10. CASE Retire(q)
  BY <1>10 DEF Retire, CheckImmutable, WriteRetirement
<1>11. CASE Confirm(q) \/ PromoterFault(q)
  BY <1>11 DEF Confirm, PromoterFault, PromoterRaises, PromoterKilled
<1>12. QED
  BY <1>1, <1>2, <1>3, <1>4, <1>5, <1>6, <1>7, <1>8, <1>9, <1>10, <1>11, <1>13
     DEF Promote

\* Init establishes the types.
LEMMA InitType == Init => TypeOK
<1> SUFFICES ASSUME Init PROVE TypeOK
  OBVIOUS
<1>1. source \in [Months -> Files] /\ receipt \in [Months -> Files \cup {Critical}]
  BY DEF Init, Files
<1>2. compact \in [Months -> Files]
  BY DEF Init, Files
<1>3. sealed \in [Promoters -> Payloads]
  BY DEF Init, Promotion, NoEntries, NoEntry, Entry, Entries, Payloads, Files
<1>4. QED
  BY <1>1, <1>2, <1>3 DEF Init, TypeOK, Files

LEMMA NextType == TypeOK /\ [Next]_vars => TypeOK'
<1> SUFFICES ASSUME TypeOK, [Next]_vars PROVE TypeOK'
  OBVIOUS
<1>1. CASE \E t \in Tasks : TaskStep(t) \/ TaskFault(t)
  BY <1>1, TaskType
<1>2. CASE \E q \in Promoters : Promote(q) \/ PromoterFault(q)
  BY <1>2, PromoterType
<1>3. CASE \E m \in Months : Replace(m)
  BY <1>3 DEF Replace, TypeOK, Files, outputs, evidence, taskVars, promoterVars
<1>4. CASE UNCHANGED vars
  BY <1>4 DEF TypeOK, vars, tree, outputs, evidence, taskVars, promoterVars
<1>5. QED
  BY <1>1, <1>2, <1>3, <1>4 DEF Next, AllOver

\* Type correctness of the campaign directories and of every invocation's
\* locals: what is sealed is a payload, what is retired names one.
THEOREM ArchiveTypeCorrect == Spec => []TypeOK
  BY InitType, NextType, PTL DEF Spec

-----------------------------------------------------------------------------
(* What a step leaves alone.                                               *)

\* A task touches neither the source nor the evidence, and of the other
\* tasks' locals nothing.
LEMMA TaskFrame ==
  ASSUME NEW t \in Tasks, TypeOK, TaskStep(t) \/ TaskFault(t)
  PROVE  /\ UNCHANGED <<source, promotion, ppc, todo, claim, sealed, month, raced>>
         /\ \A u \in Tasks \ {t} : tpc'[u] = tpc[u] /\ reading'[u] = reading[u]
         /\ compact' = compact \/ PublishCompact(t)
         /\ \/ taskLock' = taskLock
            \/ tpc[t] = "start" /\ TaskAcquire(t)
            \/ /\ tpc[t] \in TaskHolding /\ tpc'[t] \notin TaskHolding
               /\ taskLock' = [taskLock EXCEPT ![month[t]] = Absent]
  BY DEF TypeOK, TaskStep, TaskFault, TaskAcquire, TaskLocked, TaskCheck,
         WriteHourly, WriteStatistics, PublishCompact, WriteReceipt,
         WriteCritical, TaskRelease, TaskMisjudges, TaskRaises, TaskAborts,
         TaskKilled, TaskGoto, TaskHolding, TaskProducing, tree, outputs,
         evidence, promoterVars

\* A task starts reading the source as it is, and goes on with what it read.
LEMMA ReadingFrame ==
  ASSUME NEW t \in Tasks, TypeOK, TaskStep(t) \/ TaskFault(t),
         tpc'[t] \in TaskReading
  PROVE  \/ /\ tpc[t] \in TaskReading /\ reading' = reading
         \/ /\ tpc[t] = "check" /\ source[month[t]] # Absent
            /\ reading'[t] = source[month[t]] /\ compact' = compact
  BY DEF TypeOK, TaskStep, TaskFault, TaskAcquire, TaskLocked, TaskCheck,
         WriteHourly, WriteStatistics, PublishCompact, WriteReceipt,
         WriteCritical, TaskRelease, TaskMisjudges, TaskRaises, TaskAborts,
         TaskKilled, TaskGoto, TaskReading, TaskProducing, tree, outputs,
         evidence, promoterVars

\* A promotion touches neither the outputs nor the tasks, deletes only in one
\* action, and changes the evidence only in four.
LEMMA PromoterFrame ==
  ASSUME NEW q \in Promoters, TypeOK, Promote(q) \/ PromoterFault(q)
  PROVE  /\ UNCHANGED <<compact, taskLock, tpc, month, reading, raced>>
         /\ source' = source \/ UnlinkMonth(q)
         /\ \/ promotion' = promotion
            \/ \E root \in Roots :
                 promotion' = [promotion EXCEPT ![root] = sealed[q]]
         /\ \/ sealed' = sealed
            \/ BeginPromotion(q) \/ DateSource(q) \/ Validated(q)
         /\ \A p \in Promoters \ {q} :
              /\ ppc'[p] = ppc[p] /\ todo'[p] = todo[p]
              /\ claim'[p] = claim[p] /\ sealed'[p] = sealed[p]
  BY DEF TypeOK, Promote, PromoterFault, BeginPromotion, TakeInventory,
         ReadEvidence, OpenSource, MeasureSource, DateSource, Validated, Seal, Audit,
         CheckMonth, HashMonth, UnlinkMonth, DeleteContract,
         CheckRemains, Retire, Confirm, PromoterRaises, PromoterKilled,
         CheckImmutable, WriteSeal, WriteRetirement, Goto, rest, tree, outputs,
         evidence, taskVars, Roots

\* A promotion enters a window, or the stage before it, by five actions only.
LEMMA WindowFrame ==
  ASSUME NEW q \in Promoters, TypeOK, Promote(q) \/ PromoterFault(q),
         ppc'[q] \in {"open", "measure", "date", "unlink"}
  PROVE  \/ ReadEvidence(q) \/ OpenSource(q) \/ MeasureSource(q)
         \/ CheckMonth(q) \/ HashMonth(q)
  BY DEF TypeOK, Promote, PromoterFault, BeginPromotion, TakeInventory,
         DateSource, Validated, Seal, Audit, UnlinkMonth, DeleteContract,
         CheckRemains, Retire, Confirm, PromoterRaises, PromoterKilled,
         CheckImmutable, WriteSeal, WriteRetirement, Goto, PromoterWorking, PromoterOver

\* A loop has one month at hand.
LEMMA OneFirst ==
  ASSUME NEW S \in SUBSET Months, NEW m \in S, NEW n \in S, IsFirst(m, S), IsFirst(n, S)
  PROVE  m = n
<1>1. m <= n /\ n <= m /\ m \in Nat /\ n \in Nat
  BY ArchiveAssumption DEF IsFirst
<1>2. QED
  BY <1>1

-----------------------------------------------------------------------------
(* The inductive invariant: steps of tasks.                                *)

\* One task per month works on its outputs.
LEMMA TaskLockStep ==
  ASSUME NEW t \in Tasks, TypeOK, LockInv, TaskStep(t) \/ TaskFault(t)
  PROVE  LockInv'
<1> SUFFICES ASSUME NEW u \in Tasks, tpc'[u] \in TaskHolding
             PROVE  taskLock'[month[u]] = u
  BY TaskFrame DEF LockInv
<1>1. CASE u = t
  <2>1. CASE TaskAcquire(t)
    BY <1>1, <2>1 DEF TaskAcquire, TypeOK
  <2>2. CASE ~TaskAcquire(t)
    <3>1. taskLock' = taskLock
      BY <1>1, <2>2, TaskFrame
    <3>2. tpc[t] \in TaskHolding
      BY <1>1, <2>2
         DEF TypeOK, TaskStep, TaskFault, TaskLocked, TaskCheck,
             WriteHourly, WriteStatistics, PublishCompact, WriteReceipt,
             WriteCritical, TaskRelease, TaskMisjudges, TaskRaises, TaskAborts,
             TaskKilled, TaskGoto, TaskHolding, TaskProducing
    <3>3. QED
      BY <1>1, <3>1, <3>2 DEF LockInv
  <2>3. QED
    BY <2>1, <2>2
<1>2. CASE u # t
  <2>1. tpc[u] \in TaskHolding /\ taskLock[month[u]] = u /\ u # Absent
    BY <1>2, TaskFrame, ArchiveAssumption DEF LockInv
  <2>2. CASE TaskAcquire(t)
    BY <1>2, <2>1, <2>2 DEF TaskAcquire, TypeOK
  <2>3. CASE tpc[t] \in TaskHolding
    <3>1. month[t] # month[u]
      BY <1>2, <2>1, <2>3 DEF LockInv
    <3>2. CASE TaskAcquire(t)
      BY <2>2, <3>2
    <3>3. QED
      BY <2>1, <2>2, <3>1, TaskFrame DEF TypeOK
  <2>4. QED
    BY <2>1, <2>2, <2>3, TaskFrame
<1>3. QED
  BY <1>1, <1>2

\* A task that publishes was reading, and its compact archive moves forward to
\* what it read; the archives of other months, and every archive when it does
\* not publish, are as they were.
LEMMA CompactStep ==
  ASSUME NEW t \in Tasks, TypeOK, ReaderInv, TaskStep(t) \/ TaskFault(t), NEW m \in Months
  PROVE  \/ compact'[m] = compact[m]
         \/ /\ month[t] = m /\ tpc[t] \in TaskReading /\ tpc'[t] \in TaskReading
            /\ reading' = reading /\ compact'[m] = reading[t]
            /\ reading[t] \in Versions
            /\ compact[m] # Absent => compact[m] <= reading[t]
<1>1. CASE PublishCompact(t)
  <2>1. /\ tpc[t] = "compact" /\ tpc'[t] = "receipt" /\ reading' = reading
        /\ compact' = [compact EXCEPT ![month[t]] = reading[t]]
    BY <1>1 DEF PublishCompact, TaskGoto, TypeOK
  <2>2. CASE month[t] = m
    BY <2>1, <2>2 DEF ReaderInv, TaskReading, TaskProducing, TypeOK
  <2>3. CASE month[t] # m
    BY <2>1, <2>3 DEF TypeOK
  <2>4. QED
    BY <2>2, <2>3
<1>2. QED
  BY <1>1, TaskFrame

LEMMA VersionIsNat ==
  ASSUME NEW v \in Versions
  PROVE  v \in Nat /\ v <= v /\ v # Absent
<1>1. v \in Nat /\ v # Absent
  BY ArchiveAssumption
<1>2. QED
  BY <1>1

\* A step of a task keeps what is known of readers and compact archives.
LEMMA TaskReadsStep ==
  ASSUME NEW t \in Tasks, TypeOK, LockInv, ReaderInv, CompactInv,
         TaskStep(t) \/ TaskFault(t)
  PROVE  ReaderInv' /\ CompactInv'
<1>1. ReaderInv'
  <2> SUFFICES ASSUME NEW u \in Tasks, tpc'[u] \in TaskReading
      PROVE  /\ reading'[u] \in Versions
             /\ source[month[u]] # Absent => reading'[u] <= source[month[u]]
             /\ source[month[u]] = Absent =>
                  reading'[u] \in {compact'[month[u]]} \cup raced[month[u]]
             /\ compact'[month[u]] # Absent => compact'[month[u]] <= reading'[u]
    BY TaskFrame DEF ReaderInv
  <2>0. month[u] \in Months
    BY DEF TypeOK
  <2>1. CASE u # t
    <3>1. tpc[u] \in TaskReading /\ reading'[u] = reading[u]
      BY <2>1, TaskFrame
    <3>2. compact'[month[u]] = compact[month[u]]
      <4>1. ~ (month[t] = month[u] /\ tpc[t] \in TaskReading)
        BY <2>1, <3>1 DEF LockInv, TaskReading, TaskHolding
      <4>2. QED
        BY <2>0, <4>1, CompactStep
    <3>3. QED
      BY <3>1, <3>2 DEF ReaderInv
  <2>2. CASE u = t /\ tpc[t] \in TaskReading
    <3>1. reading' = reading
      BY <2>2, ReadingFrame DEF TaskReading
    <3>2. reading[t] \in Versions /\ reading[t] <= reading[t]
      BY <2>2, VersionIsNat DEF ReaderInv
    <3>3. QED
      BY <2>0, <2>2, <3>1, <3>2, CompactStep DEF ReaderInv
  <2>3. CASE u = t /\ tpc[t] \notin TaskReading
    <3>1. /\ source[month[t]] # Absent /\ reading'[t] = source[month[t]]
          /\ compact' = compact
      BY <2>3, ReadingFrame
    <3>2. source[month[t]] \in Versions
      BY <2>0, <2>3, <3>1 DEF TypeOK, Files
    <3>3. source[month[t]] <= source[month[t]]
      BY <3>2, VersionIsNat
    <3>4. compact[month[t]] # Absent => compact[month[t]] <= source[month[t]]
      BY <2>0, <2>3, <3>1 DEF CompactInv
    <3>5. QED
      BY <2>3, <3>1, <3>2, <3>3, <3>4
  <2>4. QED
    BY <2>1, <2>2, <2>3
<1>2. CompactInv'
  <2> SUFFICES ASSUME NEW m \in Months, compact'[m] # Absent, source[m] # Absent
      PROVE  compact'[m] <= source[m]
    BY TaskFrame DEF CompactInv
  <2>1. CASE compact'[m] = compact[m]
    BY <2>1 DEF CompactInv
  <2>2. CASE /\ month[t] = m /\ tpc[t] \in TaskReading /\ compact'[m] = reading[t]
    BY <2>2 DEF ReaderInv
  <2>3. QED
    BY <2>1, <2>2, CompactStep
<1>3. QED
  BY <1>1, <1>2

\* What a compact archive has reached it does not lose.
LEMMA TaskReached ==
  ASSUME NEW t \in Tasks, TypeOK, ReaderInv, TaskStep(t) \/ TaskFault(t),
         NEW m \in Months, NEW a, Reached(a, m)
  PROVE  Reached(a, m)'
<1>1. a \in Nat /\ compact[m] \in Nat
  BY ArchiveAssumption DEF Reached, TypeOK, Files
<1>2. CASE compact'[m] = compact[m]
  BY <1>2 DEF Reached
<1>3. CASE /\ compact'[m] = reading[t] /\ reading[t] \in Versions
           /\ compact[m] # Absent => compact[m] <= reading[t]
  <2>1. a <= compact[m] /\ compact[m] <= reading[t] /\ reading[t] \in Nat
    BY <1>3, ArchiveAssumption DEF Reached
  <2>2. a <= reading[t]
    BY <1>1, <2>1
  <2>3. reading[t] # Absent /\ a \in Versions
    BY <1>3, ArchiveAssumption DEF Reached
  <2>4. QED
    BY <1>3, <2>2, <2>3 DEF Reached
<1>4. QED
  BY <1>2, <1>3, CompactStep

\* A month of which everything is one version, but for what slipped into a
\* window, stays so under the steps of tasks.
LEMMA TaskLoose ==
  ASSUME NEW t \in Tasks, TypeOK, ReaderInv, TaskStep(t) \/ TaskFault(t),
         NEW m \in Months, NEW a, Loose(a, m)
  PROVE  Loose(a, m)'
<1>1. Reached(a, m)'
  BY TaskReached DEF Loose
<1>2. source' = source /\ raced' = raced /\ month' = month
  BY TaskFrame
<1>3. {source[m], compact'[m]} \subseteq {a} \cup raced[m]
  BY CompactStep DEF Loose
<1>4. ASSUME NEW u \in Tasks, tpc'[u] \in TaskReading, month[u] = m
      PROVE  reading'[u] \in {a} \cup raced[m]
  <2>1. CASE u # t
    BY <1>4, <2>1, TaskFrame DEF Loose
  <2>2. CASE u = t
    BY <1>4, <2>2, ReadingFrame DEF Loose
  <2>3. QED
    BY <2>1, <2>2
<1>5. QED
  BY <1>1, <1>2, <1>3, <1>4 DEF Loose

LEMMA TaskVouched ==
  ASSUME NEW t \in Tasks, TypeOK, ReaderInv, TaskStep(t) \/ TaskFault(t),
         NEW m \in Months, NEW e, Vouched(e, m)
  PROVE  Vouched(e, m)'
  BY TaskFrame, TaskReached, TaskLoose DEF Vouched

-----------------------------------------------------------------------------
(* The inductive invariant: steps that change the source.                  *)

\* How the source of a month may change: it is unlinked while everything is
\* version a but for what slipped into a window, or it is replaced by a newer
\* version, which slips into every window that is open.
Unlinked(a, m) ==
  /\ source'[m] = Absent /\ raced'[m] = raced[m]
  /\ source[m] # Absent /\ Loose(a, m)

Replaced(m) ==
  /\ source[m] \in Versions /\ source'[m] \in Versions /\ source[m] < source'[m]
  /\ \/ raced'[m] = raced[m] /\ \A q \in Promoters : ~InWindow(q, m)
     \/ raced'[m] = raced[m] \cup {source'[m]}

SourceStep(m) ==
  \/ source'[m] = source[m] /\ raced'[m] = raced[m]
  \/ \E a \in Versions : Unlinked(a, m)
  \/ Replaced(m)

\* Neither the tasks nor their outputs notice.
LEMMA SourceReads ==
  ASSUME TypeOK, LockInv, ReaderInv, CompactInv,
         UNCHANGED <<compact, taskLock, tpc, month, reading>>,
         \A m \in Months : SourceStep(m)
  PROVE  LockInv' /\ ReaderInv' /\ CompactInv'
<1>1. LockInv'
  BY DEF LockInv
<1>2. ReaderInv'
  <2> SUFFICES ASSUME NEW t \in Tasks, tpc[t] \in TaskReading
      PROVE  /\ source'[month[t]] # Absent => reading[t] <= source'[month[t]]
             /\ source'[month[t]] = Absent =>
                  reading[t] \in {compact[month[t]]} \cup raced'[month[t]]
    BY DEF ReaderInv
  <2>1. month[t] \in Months /\ reading[t] \in Nat
    BY ArchiveAssumption DEF ReaderInv, TypeOK
  <2>2. CASE source'[month[t]] = source[month[t]] /\ raced'[month[t]] = raced[month[t]]
    BY <2>2 DEF ReaderInv
  <2>3. ASSUME NEW a \in Versions, Unlinked(a, month[t])
        PROVE  reading[t] \in {compact[month[t]]} \cup raced'[month[t]]
    <3>1. CASE reading[t] = a
      <4>1. /\ compact[month[t]] # Absent /\ a <= compact[month[t]]
            /\ compact[month[t]] <= a
        BY <2>3, <3>1 DEF Unlinked, Loose, Reached, ReaderInv
      <4>2. a \in Nat /\ compact[month[t]] \in Nat
        BY <2>1, <3>1, <4>1, ArchiveAssumption DEF TypeOK, Files
      <4>3. QED
        BY <3>1, <4>1, <4>2
    <3>2. QED
      BY <2>1, <2>3, <3>1 DEF Unlinked, Loose
  <2>4. CASE Replaced(month[t])
    <3>1. /\ source[month[t]] \in Nat /\ source'[month[t]] \in Nat
          /\ source[month[t]] # Absent /\ source'[month[t]] # Absent
      BY <2>4, ArchiveAssumption DEF Replaced
    <3>2. reading[t] <= source[month[t]] /\ source[month[t]] < source'[month[t]]
      BY <2>4, <3>1 DEF ReaderInv, Replaced
    <3>3. reading[t] <= source'[month[t]]
      BY <2>1, <3>1, <3>2
    <3>4. QED
      BY <3>1, <3>3
  <2>5. QED
    BY <2>1, <2>2, <2>3, <2>4 DEF SourceStep, Unlinked
<1>3. CompactInv'
  <2> SUFFICES ASSUME NEW m \in Months, compact[m] # Absent, source'[m] # Absent
      PROVE  compact[m] <= source'[m]
    BY DEF CompactInv
  <2>1. CASE source'[m] = source[m]
    BY <2>1 DEF CompactInv
  <2>2. CASE Replaced(m)
    <3>1. /\ source[m] \in Nat /\ source'[m] \in Nat /\ compact[m] \in Nat
          /\ source[m] # Absent
      BY <2>2, ArchiveAssumption DEF Replaced, TypeOK, Files
    <3>2. compact[m] <= source[m] /\ source[m] < source'[m]
      BY <2>2, <3>1 DEF CompactInv, Replaced
    <3>3. QED
      BY <3>1, <3>2
  <2>3. QED
    BY <2>1, <2>2 DEF SourceStep, Unlinked
<1>4. QED
  BY <1>1, <1>2, <1>3

\* A month that is still there stays what it was but for what slips into a
\* window that is open.
LEMMA SourceLoose ==
  ASSUME UNCHANGED <<compact, tpc, month, reading>>, NEW m \in Months, SourceStep(m),
         NEW a, Loose(a, m), source'[m] # Absent,
         source'[m] = source[m] \/ \E q \in Promoters : InWindow(q, m)
  PROVE  Loose(a, m)'
<1>1. CASE source'[m] = source[m] /\ raced'[m] = raced[m]
  BY <1>1 DEF Loose, Reached
<1>2. CASE Replaced(m)
  <2>1. source'[m] # source[m]
    <3>1. source[m] \in Nat /\ source'[m] \in Nat /\ source[m] < source'[m]
      BY <1>2, ArchiveAssumption DEF Replaced
    <3>2. QED
      BY <3>1
  <2>2. raced'[m] = raced[m] \cup {source'[m]}
    BY <1>2, <2>1 DEF Replaced
  <2>3. QED
    BY <2>2 DEF Loose, Reached
<1>3. QED
  BY <1>1, <1>2 DEF SourceStep, Unlinked

\* What is vouched for stays so: a newer version is not the one of the entry.
LEMMA SourceVouched ==
  ASSUME UNCHANGED <<compact, tpc, month, reading>>, NEW m \in Months, SourceStep(m),
         NEW e, Vouched(e, m)
  PROVE  Vouched(e, m)'
<1>1. CASE source'[m] = source[m] /\ raced'[m] = raced[m]
  BY <1>1 DEF Vouched, Loose, Reached
<1>2. CASE Replaced(m)
  <2> SUFFICES ASSUME e # NoEntry
      PROVE  /\ Reached(e.archive, m) /\ e.mtime \in Versions
             /\ e.archive <= e.mtime /\ e.mtime <= source'[m] /\ e.mtime # source'[m]
    BY DEF Vouched, Reached
  <2>1. /\ source[m] \in Nat /\ source'[m] \in Nat /\ source[m] < source'[m]
        /\ source[m] # Absent
    BY <1>2, ArchiveAssumption DEF Replaced
  <2>2. /\ Reached(e.archive, m) /\ e.mtime \in Versions
        /\ e.archive <= e.mtime /\ e.mtime <= source[m]
    BY <2>1 DEF Vouched
  <2>3. e.mtime \in Nat
    BY <2>2, ArchiveAssumption
  <2>4. QED
    BY <2>1, <2>2, <2>3
<1>3. QED
  BY <1>1, <1>2 DEF SourceStep, Unlinked, Vouched

-----------------------------------------------------------------------------
(* The inductive invariant: steps of promotions.                           *)

\* A receipt that agrees with a source and a compact archive is the version of
\* everything: nothing lies strictly between archive and source.
LEMMA OpenedIsLoose ==
  ASSUME TypeOK, ReaderInv, CompactInv, NEW m \in Months, NEW a \in Versions,
         Reached(a, m), source[m] = a
  PROVE  Loose(a, m)
<1>1. a \in Nat /\ a # Absent
  BY ArchiveAssumption
<1>2. compact[m] = a
  <2>1. compact[m] \in Nat /\ a <= compact[m] /\ compact[m] <= a
    BY <1>1, ArchiveAssumption DEF Reached, CompactInv, TypeOK, Files
  <2>2. QED
    BY <1>1, <2>1
<1>3. ASSUME NEW t \in Tasks, tpc[t] \in TaskReading, month[t] = m
      PROVE  reading[t] = a
  <2>1. reading[t] \in Nat
    BY <1>3, ArchiveAssumption DEF ReaderInv
  <2>2. reading[t] <= a /\ a <= reading[t]
    BY <1>1, <1>2, <1>3 DEF ReaderInv
  <2>3. QED
    BY <1>1, <2>1, <2>2
<1>4. QED
  BY <1>2, <1>3 DEF Loose

\* What is unlinked was checked: everything is the sealed version, but for what
\* slipped into the window since.
LEMMA UnlinkFrame ==
  ASSUME NEW q \in Promoters, TypeOK, WindowInv, UnlinkMonth(q)
  PROVE  \A m \in Months :
           \/ source'[m] = source[m] /\ raced'[m] = raced[m]
           \/ /\ Unlinked(sealed[q].entries[m].archive, m)
              /\ sealed[q].entries[m].archive \in Versions
<1>1. PICK d \in todo[q] :
        /\ IsFirst(d, todo[q])
        /\ IF source[d] = Absent THEN UNCHANGED source
           ELSE source' = [source EXCEPT ![d] = Absent]
  BY DEF UnlinkMonth
<1>2. ppc[q] = "unlink" /\ raced' = raced
  BY DEF UnlinkMonth, rest
<1> SUFFICES ASSUME NEW m \in Months, source'[m] # source[m]
             PROVE  /\ Unlinked(sealed[q].entries[m].archive, m)
                    /\ sealed[q].entries[m].archive \in Versions
  BY <1>2
<1>3. m = d /\ source[m] # Absent /\ source'[m] = Absent
  BY <1>1 DEF TypeOK
<1>4. Loose(sealed[q].entries[m].archive, m)
  BY <1>1, <1>2, <1>3 DEF WindowInv
<1>5. QED
  BY <1>2, <1>3, <1>4 DEF Unlinked, Loose, Reached

\* A promotion that opens, measures, checks or hashes a month knows of it what
\* WindowInv says, in the state it leaves.
LEMMA WindowStep ==
  ASSUME NEW q \in Promoters, Inv, Promote(q) \/ PromoterFault(q),
         NEW m \in todo'[q], IsFirst(m, todo'[q]),
         ppc'[q] \in {"open", "measure", "date", "unlink"}
  PROVE  /\ UNCHANGED <<source, compact, raced, tpc, month, reading>>
         /\ ppc'[q] \in {"open", "measure", "date"} => Reached(claim'[q], m)
         /\ ppc'[q] \in {"measure", "date"} /\ source[m] # Absent => Loose(claim'[q], m)
         /\ ppc'[q] = "unlink" /\ source[m] # Absent => Loose(sealed'[q].entries[m].archive, m)
<1>0. TypeOK /\ ReaderInv /\ CompactInv /\ SealedInv /\ WindowInv
  BY DEF Inv
<1>1. UNCHANGED <<source, compact, raced, tpc, month, reading>>
  <2>1. ~UnlinkMonth(q)
    BY <1>0 DEF UnlinkMonth, Goto, TypeOK
  <2>2. QED
    BY <1>0, <2>1, PromoterFrame
<1>2. CASE ReadEvidence(q)
  <2>1. PICK d \in todo[q] :
          /\ IsFirst(d, todo[q]) /\ EvidenceAgrees(d)
          /\ ppc'[q] = "open" /\ claim'[q] = receipt[d]
    BY <1>0, <1>2 DEF ReadEvidence, Goto, TypeOK
  <2>2. m = d
    <3>1. todo' = todo /\ todo[q] \in SUBSET Months
      BY <1>0, <1>2 DEF ReadEvidence, TypeOK
    <3>2. QED
      BY <2>1, <3>1, OneFirst
  <2>3. receipt[d] \in Versions /\ compact[d] = receipt[d]
    BY <2>1 DEF EvidenceAgrees
  <2>4. receipt[d] <= receipt[d] /\ receipt[d] # Absent
    BY <2>3, VersionIsNat
  <2>5. Reached(claim'[q], m)
    BY <2>1, <2>2, <2>3, <2>4 DEF Reached
  <2>6. QED
    BY <1>1, <2>1, <2>5
<1>3. CASE OpenSource(q)
  <2>1. PICK d \in todo[q] :
          /\ IsFirst(d, todo[q]) /\ source[d] # Absent /\ source[d] = claim[q]
          /\ ppc'[q] = "measure" /\ todo' = todo
    BY <1>0, <1>3 DEF OpenSource, Goto, TypeOK
  <2>2. m = d /\ m \in Months
    <3>1. todo[q] \in SUBSET Months
      BY <1>0 DEF TypeOK
    <3>2. QED
      BY <2>1, <3>1, OneFirst
  <2>3. ppc[q] = "open" /\ claim' = claim
    BY <1>3 DEF OpenSource
  <2>4. Reached(claim[q], m)
    BY <1>0, <2>1, <2>2, <2>3 DEF WindowInv
  <2>5. Loose(claim[q], m)
    <3>1. claim[q] \in Versions
      BY <2>4 DEF Reached
    <3>2. QED
      BY <1>0, <2>1, <2>2, <2>4, <3>1, OpenedIsLoose
  <2>6. QED
    BY <1>1, <2>1, <2>3, <2>4, <2>5
<1>4. CASE MeasureSource(q)
  <2>1. ppc[q] = "measure" /\ ppc'[q] = "date" /\ UNCHANGED <<todo, claim>>
    BY <1>0, <1>4 DEF MeasureSource, Goto, TypeOK
  <2>2. QED
    BY <1>0, <1>1, <2>1 DEF WindowInv
<1>5. CASE CheckMonth(q) \/ HashMonth(q)
  <2>1. /\ ppc'[q] = "unlink" /\ UNCHANGED <<todo, sealed>>
        /\ source[m] # Absent =>
             \/ source[m] = sealed[q].entries[m].mtime
             \/ source[m] = sealed[q].entries[m].archive
    <3>1. PICK d \in todo[q] :
            /\ IsFirst(d, todo[q]) /\ ppc'[q] = "unlink" /\ todo' = todo
            /\ source[d] # Absent =>
                 \/ source[d] = sealed[q].entries[d].mtime
                 \/ source[d] = sealed[q].entries[d].archive
      <4>1. CASE CheckMonth(q)
        BY <1>0, <4>1 DEF CheckMonth, Goto, TypeOK
      <4>2. CASE HashMonth(q)
        BY <1>0, <4>2 DEF HashMonth, Goto, TypeOK
      <4>3. QED
        BY <1>5, <4>1, <4>2
    <3>2. m = d
      <4>1. todo[q] \in SUBSET Months
        BY <1>0 DEF TypeOK
      <4>2. QED
        BY <3>1, <4>1, OneFirst
    <3>3. sealed' = sealed
      BY <1>5 DEF CheckMonth, HashMonth
    <3>4. QED
      BY <3>1, <3>2, <3>3
  <2>2. ASSUME source[m] # Absent
        PROVE  Loose(sealed[q].entries[m].archive, m)
    <3> DEFINE e == sealed[q].entries[m]
    <3>1. m \in Months /\ source[m] \in Versions /\ e \in Entries
      BY <1>0, <2>1, <2>2 DEF TypeOK, Files, Payloads
    <3>2. e # NoEntry
      BY <2>1, <2>2 DEF NoEntry, Entry
    <3>3. /\ Reached(e.archive, m) /\ e.mtime \in Versions
          /\ e.archive <= e.mtime /\ e.mtime <= source[m]
          /\ e.mtime = source[m] => Loose(e.archive, m)
      BY <1>0, <2>2, <3>1, <3>2 DEF SealedInv, Vouched
    <3>4. e.mtime = source[m]
      <4>1. e.mtime \in Nat /\ e.archive \in Nat /\ source[m] \in Nat
        BY <3>1, <3>3, ArchiveAssumption DEF Reached
      <4>2. QED
        BY <2>1, <2>2, <3>3, <4>1
    <3>5. QED
      BY <3>3, <3>4
  <2>3. QED
    BY <1>1, <2>1, <2>2
<1>6. QED
  BY <1>0, <1>2, <1>3, <1>4, <1>5, WindowFrame

\* What a promotion seals, takes over or publishes is vouched for.
LEMMA SealStep ==
  ASSUME NEW q \in Promoters, Inv, Promote(q) \/ PromoterFault(q)
  PROVE  /\ \A m \in Months, p \in Promoters : Vouched(sealed'[p].entries[m], m)
         /\ \A m \in Months, r \in Roots :
              promotion'[r] # Absent => Vouched(promotion'[r].entries[m], m)
<1>0. TypeOK /\ ReaderInv /\ CompactInv /\ SealedInv /\ PromotionInv /\ WindowInv
  BY DEF Inv
<1>1. ASSUME NEW m \in Months, NEW p \in Promoters
      PROVE  Vouched(sealed'[p].entries[m], m)
  <2>1. Vouched(sealed[p].entries[m], m)
    BY <1>0 DEF SealedInv
  <2>2. CASE BeginPromotion(q)
    <3>1. CASE sealed' = sealed
      BY <2>1, <3>1
    <3>2. CASE sealed' = [sealed EXCEPT ![q] = Promotion(Absent, NoEntries)]
      <4>1. Vouched(NoEntry, m)
        BY DEF Vouched
      <4>2. QED
        BY <1>0, <2>1, <3>2, <4>1 DEF Promotion, NoEntries, TypeOK
    <3>3. CASE \E r \in Roots : /\ promotion[r] # Absent
                                /\ sealed' = [sealed EXCEPT ![q] = promotion[r]]
      BY <1>0, <2>1, <3>3 DEF PromotionInv, TypeOK
    <3>4. QED
      BY <1>0, <2>2, <3>1, <3>2, <3>3, TakenOver
  <2>3. CASE DateSource(q)
    <3>1. ASSUME NEW d \in todo[q], IsFirst(d, todo[q]), source[d] # Absent,
                 sealed'[q].entries[d] = Entry(claim[q], source[d])
          PROVE  Vouched(sealed'[q].entries[d], d)
      <4>1. d \in Months /\ source[d] \in Versions
        BY <1>0, <3>1 DEF TypeOK, Files
      <4>2. Reached(claim[q], d) /\ Loose(claim[q], d)
        BY <1>0, <2>3, <3>1 DEF WindowInv, DateSource
      <4>3. claim[q] <= source[d] /\ source[d] <= source[d]
        <5>1. /\ claim[q] \in Nat /\ source[d] \in Nat /\ compact[d] \in Nat
              /\ claim[q] <= compact[d] /\ compact[d] <= source[d]
          BY <1>0, <3>1, <4>1, <4>2, ArchiveAssumption
          DEF Reached, CompactInv, TypeOK, Files
        <5>2. QED
          BY <5>1
      <4>4. QED
        BY <3>1, <4>1, <4>2, <4>3 DEF Vouched, Entry
    <3>2. CASE sealed' = sealed
      BY <2>1, <3>2
    <3>3. ASSUME NEW d \in todo[q], IsFirst(d, todo[q]), source[d] # Absent,
                 sealed'[q].entries[d] = Entry(claim[q], source[d]),
                 \A n \in Months \ {d} : sealed'[q].entries[n] = sealed[q].entries[n],
                 \A o \in Promoters \ {q} : sealed'[o] = sealed[o]
          PROVE  Vouched(sealed'[p].entries[m], m)
      BY <2>1, <3>1, <3>3
    <3>4. QED
      BY <1>0, <2>3, <3>2, <3>3, DatedEntry
  <2>4. CASE Validated(q)
    <3>1. sealed'[p].entries = sealed[p].entries
      BY <1>0, <2>4 DEF Validated, TypeOK, Payloads
    <3>2. QED
      BY <2>1, <3>1
  <2>5. CASE sealed' = sealed
    BY <2>1, <2>5
  <2>6. QED
    BY <1>0, <2>2, <2>3, <2>4, <2>5, PromoterFrame
<1>2. ASSUME NEW m \in Months, NEW r \in Roots, promotion'[r] # Absent
      PROVE  Vouched(promotion'[r].entries[m], m)
  <2>1. CASE promotion' = promotion
    BY <1>0, <1>2, <2>1 DEF PromotionInv
  <2>2. ASSUME NEW root \in Roots,
               promotion' = [promotion EXCEPT ![root] = sealed[q]]
        PROVE  Vouched(promotion'[r].entries[m], m)
    BY <1>0, <1>2, <2>2 DEF PromotionInv, SealedInv, TypeOK
  <2>3. QED
    BY <1>0, <2>1, <2>2, PromoterFrame
<1>3. QED
  BY <1>1, <1>2

\* What the invariant says of windows survives a change of the source made by
\* another process.
LEMMA WindowKept ==
  ASSUME TypeOK, WindowInv, UNCHANGED <<compact, tpc, month, reading>>,
         \A m \in Months : SourceStep(m),
         NEW p \in Promoters, ppc'[p] = ppc[p], todo'[p] = todo[p],
         claim'[p] = claim[p], sealed'[p] = sealed[p],
         NEW m \in todo[p], IsFirst(m, todo[p])
  PROVE  /\ ppc[p] \in {"open", "measure", "date"} => Reached(claim[p], m)'
         /\ ppc[p] \in {"measure", "date"} /\ source'[m] # Absent => Loose(claim[p], m)'
         /\ ppc[p] = "unlink" /\ source'[m] # Absent =>
              Loose(sealed[p].entries[m].archive, m)'
<1>1. m \in Months
  BY DEF TypeOK
<1>2. ppc[p] \in {"open", "measure", "date"} => Reached(claim[p], m)'
  BY DEF WindowInv, Reached
<1>3. source'[m] # Absent => source[m] # Absent
  BY <1>1, ArchiveAssumption DEF SourceStep, Unlinked, Replaced
<1>4. ppc[p] \in {"measure", "date", "unlink"} => InWindow(p, m)
  BY DEF InWindow
<1>5. QED
  BY <1>1, <1>2, <1>3, <1>4, SourceLoose DEF WindowInv

-----------------------------------------------------------------------------
(* The inductive invariant.                                                *)

LEMMA InitInv == Init => Inv
<1> SUFFICES ASSUME Init PROVE Inv
  OBVIOUS
<1>1. TypeOK
  BY InitType
<1>2. LockInv /\ ReaderInv
  BY DEF Init, LockInv, ReaderInv, TaskHolding, TaskReading, TaskProducing
<1>3. CompactInv
  <2>1. PICK first \in Versions :
          /\ source = [m \in Months |-> first]
          /\ receipt \in [Months -> {first, Absent, Critical}]
    BY DEF Init
  <2>2. first <= first
    BY ArchiveAssumption
  <2>3. \A m \in Months : compact[m] \in {first, Absent}
    BY <2>1, ArchiveAssumption DEF Init
  <2>4. QED
    BY <2>1, <2>2, <2>3 DEF CompactInv
<1>4. SealedInv /\ PromotionInv /\ WindowInv
  BY DEF Init, SealedInv, PromotionInv, WindowInv, Vouched, Promotion, NoEntries
<1>5. QED
  BY <1>1, <1>2, <1>3, <1>4 DEF Inv

LEMMA NextInv == Inv /\ [Next]_vars => Inv'
<1> SUFFICES ASSUME Inv, [Next]_vars PROVE Inv'
  OBVIOUS
<1>0. /\ TypeOK /\ LockInv /\ ReaderInv /\ CompactInv /\ SealedInv
      /\ PromotionInv /\ WindowInv /\ TypeOK'
  BY NextType DEF Inv
<1>1. ASSUME NEW t \in Tasks, TaskStep(t) \/ TaskFault(t)
      PROVE  Inv'
  <2>1. LockInv' /\ ReaderInv' /\ CompactInv'
    BY <1>0, <1>1, TaskLockStep, TaskReadsStep
  <2>2. UNCHANGED <<source, promotion, ppc, todo, claim, sealed>>
    BY <1>0, <1>1, TaskFrame
  <2>3. \A m \in Months : \A e : Vouched(e, m) => Vouched(e, m)'
    BY <1>0, <1>1, TaskVouched
  <2>4. SealedInv'
    BY <1>0, <2>2, <2>3 DEF SealedInv, Vouched
  <2>5. PromotionInv'
    BY <1>0, <2>2, <2>3 DEF PromotionInv, Vouched
  <2>6. WindowInv'
    <3>1. /\ \A m \in Months : \A a : Reached(a, m) => Reached(a, m)'
          /\ \A m \in Months : \A a : Loose(a, m) => Loose(a, m)'
      BY <1>0, <1>1, TaskReached, TaskLoose
    <3>2. \A q \in Promoters : todo[q] \subseteq Months
      BY <1>0 DEF TypeOK
    <3> SUFFICES ASSUME NEW q \in Promoters, NEW m \in todo[q], IsFirst(m, todo[q])
        PROVE  /\ ppc[q] \in {"open", "measure", "date"} => Reached(claim[q], m)'
               /\ ppc[q] \in {"measure", "date"} /\ source[m] # Absent =>
                    Loose(claim[q], m)'
               /\ ppc[q] = "unlink" /\ source[m] # Absent =>
                    Loose(sealed[q].entries[m].archive, m)'
      BY <2>2 DEF WindowInv
    <3>3. m \in Months
      BY <3>2
    <3>4. ppc[q] \in {"open", "measure", "date"} => Reached(claim[q], m)'
      BY <1>0, <2>2, <3>1, <3>3 DEF WindowInv, Reached
    <3>5. ppc[q] \in {"measure", "date"} /\ source[m] # Absent => Loose(claim[q], m)'
      BY <1>0, <2>2, <3>1, <3>3 DEF WindowInv, Loose, Reached
    <3>6. ppc[q] = "unlink" /\ source[m] # Absent => Loose(sealed[q].entries[m].archive, m)'
      BY <1>0, <2>2, <3>1, <3>3 DEF WindowInv, Loose, Reached
    <3>7. QED
      BY <3>4, <3>5, <3>6
  <2>7. QED
    BY <1>0, <2>1, <2>4, <2>5, <2>6 DEF Inv
<1>2. ASSUME NEW q \in Promoters, Promote(q) \/ PromoterFault(q)
      PROVE  Inv'
  <2>1. UNCHANGED <<compact, taskLock, tpc, month, reading, raced>>
    BY <1>0, <1>2, PromoterFrame
  <2>2. \A m \in Months : SourceStep(m)
    BY <1>0, <1>2, <2>1, PromoterFrame, UnlinkFrame DEF SourceStep
  <2>3. LockInv' /\ ReaderInv' /\ CompactInv'
    BY <1>0, <2>1, <2>2, SourceReads
  <2>4. /\ \A m \in Months, p \in Promoters : Vouched(sealed'[p].entries[m], m)
        /\ \A m \in Months, r \in Roots :
             promotion'[r] # Absent => Vouched(promotion'[r].entries[m], m)
    BY <1>2, SealStep
  <2>5. \A m \in Months : \A e : Vouched(e, m) => Vouched(e, m)'
    BY <2>1, <2>2, SourceVouched
  <2>6. SealedInv' /\ PromotionInv'
    BY <2>4, <2>5 DEF SealedInv, PromotionInv, Vouched
  <2>7. WindowInv'
    <3> SUFFICES ASSUME NEW p \in Promoters, NEW m \in todo'[p], IsFirst(m, todo'[p])
        PROVE  /\ ppc'[p] \in {"open", "measure", "date"} => Reached(claim[p], m)'
               /\ ppc'[p] \in {"measure", "date"} /\ source'[m] # Absent =>
                    Loose(claim[p], m)'
               /\ ppc'[p] = "unlink" /\ source'[m] # Absent =>
                    Loose(sealed[p].entries[m].archive, m)'
      BY DEF WindowInv
    <3>1. CASE p # q
      <4>1. /\ ppc'[p] = ppc[p] /\ todo'[p] = todo[p]
            /\ claim'[p] = claim[p] /\ sealed'[p] = sealed[p]
        BY <1>0, <1>2, <3>1, PromoterFrame
      <4>2. QED
        BY <1>0, <2>1, <2>2, <4>1, WindowKept
    <3>2. CASE p = q /\ ppc'[q] \in {"open", "measure", "date", "unlink"}
      <4>1. /\ UNCHANGED <<source, compact, raced, tpc, month, reading>>
            /\ ppc'[q] \in {"open", "measure", "date"} => Reached(claim'[q], m)
            /\ ppc'[q] \in {"measure", "date"} /\ source[m] # Absent => Loose(claim'[q], m)
            /\ ppc'[q] = "unlink" /\ source[m] # Absent =>
                 Loose(sealed'[q].entries[m].archive, m)
        BY <1>2, <3>2, WindowStep
      <4>2. QED
        BY <3>2, <4>1 DEF Reached, Loose
    <3>3. QED
      BY <3>1, <3>2
  <2>8. QED
    BY <1>0, <2>3, <2>6, <2>7 DEF Inv
<1>3. ASSUME NEW d \in Months, Replace(d)
      PROVE  Inv'
  <2>1. UNCHANGED <<compact, taskLock, tpc, month, reading, promotion, ppc, todo,
                    claim, sealed>>
    BY <1>3 DEF Replace, outputs, evidence, taskVars, promoterVars
  <2>2. \A m \in Months : SourceStep(m)
    <3> SUFFICES ASSUME NEW m \in Months PROVE SourceStep(m)
      OBVIOUS
    <3>1. CASE m # d
      BY <1>0, <1>3, <3>1 DEF Replace, TypeOK, SourceStep
    <3>2. CASE m = d
      <4>1. PICK v \in Versions :
              /\ v > source[d] /\ source' = [source EXCEPT ![d] = v]
              /\ raced' = IF \E q \in Promoters : InWindow(q, d)
                          THEN [raced EXCEPT ![d] = @ \cup {v}] ELSE raced
        BY <1>3 DEF Replace
      <4>2. source[d] \in Versions /\ source'[d] = v
        BY <1>0, <1>3, <4>1 DEF Replace, TypeOK, Files
      <4>3. source[d] < source'[d]
        BY <4>1, <4>2, ArchiveAssumption
      <4>4. \/ raced'[d] = raced[d] /\ \A q \in Promoters : ~InWindow(q, d)
            \/ raced'[d] = raced[d] \cup {v}
        <5>1. CASE \E q \in Promoters : InWindow(q, d)
          BY <1>0, <4>1, <5>1 DEF TypeOK
        <5>2. CASE ~ (\E q \in Promoters : InWindow(q, d))
          BY <4>1, <5>2
        <5>3. QED
          BY <5>1, <5>2
      <4>5. QED
        BY <3>2, <4>1, <4>2, <4>3, <4>4 DEF SourceStep, Replaced
    <3>3. QED
      BY <3>1, <3>2
  <2>3. LockInv' /\ ReaderInv' /\ CompactInv'
    BY <1>0, <2>1, <2>2, SourceReads
  <2>4. \A m \in Months : \A e : Vouched(e, m) => Vouched(e, m)'
    BY <2>1, <2>2, SourceVouched
  <2>5. SealedInv' /\ PromotionInv'
    BY <1>0, <2>1, <2>4 DEF SealedInv, PromotionInv, Vouched
  <2>6. WindowInv'
    <3>1. ASSUME NEW p \in Promoters, NEW m \in todo[p], IsFirst(m, todo[p])
          PROVE  /\ ppc[p] \in {"open", "measure", "date"} => Reached(claim[p], m)'
                 /\ ppc[p] \in {"measure", "date"} /\ source'[m] # Absent =>
                      Loose(claim[p], m)'
                 /\ ppc[p] = "unlink" /\ source'[m] # Absent =>
                      Loose(sealed[p].entries[m].archive, m)'
      BY <1>0, <2>1, <2>2, <3>1, WindowKept
    <3>2. QED
      BY <2>1, <3>1 DEF WindowInv, Reached, Loose
  <2>7. QED
    BY <1>0, <2>3, <2>5, <2>6 DEF Inv
<1>4. CASE UNCHANGED vars
  BY <1>0, <1>4
     DEF Inv, LockInv, ReaderInv, CompactInv, SealedInv, PromotionInv, WindowInv, Vouched,
         Loose, Reached, vars, tree, outputs, evidence, taskVars, promoterVars
<1>5. QED
  BY <1>1, <1>2, <1>3, <1>4 DEF Next, AllOver

LEMMA Invariance == Spec => []Inv
  BY InitInv, NextInv, PTL DEF Spec

\* A month is deleted only when its compact archive holds what is deleted, or
\* what is deleted slipped into a window; and neither a task that was still
\* reading the source nor a second promotion changes that archive afterwards,
\* but for a version that slipped into one.
LEMMA MonthKept ==
  ASSUME Inv, [Next]_vars, NEW m \in Months
  PROVE  /\ source[m] # Absent /\ source'[m] = Absent =>
              compact[m] = source[m] \/ source[m] \in raced[m]
         /\ source[m] = Absent =>
              source'[m] = Absent /\ compact'[m] \in {compact[m]} \cup raced[m]
         /\ raced[m] \subseteq raced'[m]
<1>0. TypeOK /\ LockInv /\ ReaderInv /\ CompactInv /\ WindowInv
  BY DEF Inv
<1>1. ASSUME NEW t \in Tasks, TaskStep(t) \/ TaskFault(t)
      PROVE  /\ source' = source /\ raced' = raced
             /\ source[m] = Absent => compact'[m] \in {compact[m]} \cup raced[m]
  BY <1>0, <1>1, TaskFrame, CompactStep DEF ReaderInv
<1>2. ASSUME NEW q \in Promoters, Promote(q) \/ PromoterFault(q)
      PROVE  /\ compact' = compact /\ raced' = raced
             /\ source'[m] = source[m] \/ \E a \in Versions : Unlinked(a, m)
  BY <1>0, <1>2, PromoterFrame, UnlinkFrame
<1>3. ASSUME NEW a \in Versions, Unlinked(a, m)
      PROVE  compact[m] = source[m] \/ source[m] \in raced[m]
  <2>1. CASE source[m] = a
    <3>1. /\ compact[m] # Absent /\ a <= compact[m] /\ compact[m] <= a
      BY <1>0, <1>3, <2>1 DEF Unlinked, Loose, Reached, CompactInv
    <3>2. a \in Nat /\ compact[m] \in Nat
      BY <1>0, <3>1, ArchiveAssumption DEF TypeOK, Files
    <3>3. QED
      BY <2>1, <3>1, <3>2
  <2>2. QED
    BY <1>3, <2>1 DEF Unlinked, Loose
<1>4. ASSUME NEW d \in Months, Replace(d)
      PROVE  /\ compact' = compact /\ raced[m] \subseteq raced'[m]
             /\ source'[m] = source[m] \/ (source[m] # Absent /\ source'[m] # Absent)
  BY <1>0, <1>4, ArchiveAssumption DEF Replace, outputs, TypeOK
<1>5. CASE UNCHANGED vars
  BY <1>5 DEF vars, tree, outputs
<1>6. CASE \E q \in Promoters : Promote(q) \/ PromoterFault(q)
  BY <1>2, <1>3, <1>6 DEF Unlinked
<1>7. QED
  BY <1>1, <1>4, <1>5, <1>6 DEF Next, AllOver

\* What is deleted is in its compact archive and stays there, whatever tasks
\* and other promotions, overlapping ones too, were doing; only a version that
\* the backfill published while a promotion was between checking a source and
\* acting on its name can be deleted without it (_validate_source_archive,
\* promote_compact_archive).
THEOREM CompactOutlives == Spec => CompactOutlivesSource
<1>1. Inv /\ [Next]_vars =>
        \A m \in Months :
          /\ source[m] # Absent /\ source'[m] = Absent =>
               compact[m] = source[m] \/ source[m] \in raced[m]
          /\ source[m] = Absent => compact'[m] \in {compact[m]} \cup raced[m]
  BY MonthKept
<1>2. QED
  BY <1>1, Invariance, PTL DEF Spec, CompactOutlivesSource

-----------------------------------------------------------------------------
(* Promotions that take turns.                                             *)

\* Whatever is not a promotion leaves the promotions and their evidence alone.
LEMMA NoPromotion ==
  ASSUME TypeOK, [Next]_vars
  PROVE  \/ \E q \in Promoters : Promote(q) \/ PromoterFault(q)
         \/ UNCHANGED <<promotion, retirement, archiveContract, ppc, sealed, record>>
<1>1. ASSUME NEW t \in Tasks, TaskStep(t) \/ TaskFault(t)
      PROVE  UNCHANGED <<promotion, retirement, archiveContract, ppc, sealed, record>>
  BY <1>1 DEF TaskStep, TaskFault, TaskAcquire, TaskLocked, TaskCheck, WriteHourly,
     WriteStatistics, PublishCompact, WriteReceipt, WriteCritical, TaskRelease, TaskMisjudges,
     TaskRaises, TaskAborts, TaskKilled, tree, evidence, promoterVars
<1>2. ASSUME NEW m \in Months, Replace(m)
      PROVE  UNCHANGED <<promotion, retirement, archiveContract, ppc, sealed, record>>
  BY <1>2 DEF Replace, evidence, promoterVars
<1>3. QED
  BY <1>1, <1>2 DEF Next, AllOver, vars, tree, evidence, promoterVars

\* A promotion does not touch another one's locals, and comes to work only
\* from its start.
LEMMA OwnPromotion ==
  ASSUME NEW q \in Promoters, TypeOK, Promote(q) \/ PromoterFault(q)
  PROVE  /\ \A p \in Promoters \ {q} : ppc'[p] = ppc[p] /\ sealed'[p] = sealed[p]
         /\ ppc'[q] \in PromoterWorking => ppc[q] \in PromoterWorking \/ BeginPromotion(q)
  BY DEF TypeOK, Promote, PromoterFault, BeginPromotion, TakeInventory,
         ReadEvidence, OpenSource, MeasureSource, DateSource, Validated, Seal, Audit,
         CheckMonth, HashMonth, UnlinkMonth, DeleteContract, CheckRemains, Retire, Confirm, PromoterRaises, PromoterKilled,
         CheckImmutable, WriteSeal, WriteRetirement, Goto, rest, PromoterWorking

LEMMA OnePromoterStep ==
  ASSUME TypeOK, OnePromoter, [Next /\ PromotionsInTurn]_vars
  PROVE  OnePromoter'
<1>1. CASE UNCHANGED ppc
  BY <1>1 DEF OnePromoter
<1>2. ASSUME NEW q \in Promoters, Promote(q) \/ PromoterFault(q), PromotionsInTurn
      PROVE  OnePromoter'
  <2>1. CASE ppc[q] \in PromoterWorking
    BY <1>2, <2>1, OwnPromotion DEF OnePromoter
  <2>2. CASE BeginPromotion(q)
    <3>1. ppc[q] = "start" /\ ppc'[q] # "start"
      BY <2>2 DEF BeginPromotion, Goto, TypeOK
    <3>2. \A p \in Promoters : ppc[p] \notin PromoterWorking
      BY <1>2, <3>1 DEF PromotionsInTurn
    <3>3. QED
      BY <1>2, <3>2, OwnPromotion DEF OnePromoter
  <2>3. CASE ppc'[q] \notin PromoterWorking
    BY <1>2, <2>3, OwnPromotion DEF OnePromoter
  <2>4. QED
    BY <1>2, <2>1, <2>2, <2>3, OwnPromotion
<1>3. QED
  BY <1>1, <1>2, NoPromotion DEF vars, promoterVars

\* A promotion takes over what the roots agree on, or begins its own.
LEMMA TakesOver ==
  ASSUME NEW q \in Promoters, TypeOK, SealInv, BeginPromotion(q)
  PROVE  \/ ppc'[q] = "raised"
         \/ /\ ppc'[q] = "inventory"
            /\ IF promotion["campaign"] = Absent THEN sealed'[q].by = Absent
               ELSE sealed'[q] = promotion["campaign"]
<1> DEFINE found == {promotion[r] : r \in Roots} \ {Absent}
<1>1. found = {promotion["campaign"]} \ {Absent}
  BY DEF SealInv, Roots
<1>2. CASE Cardinality(found) > 1
  BY <1>2 DEF BeginPromotion, Goto, TypeOK
<1>3. CASE ~(Cardinality(found) > 1)
  <2>1. /\ sealed' = [sealed EXCEPT ![q] = IF found = {} THEN Promotion(Absent, NoEntries)
                                           ELSE CHOOSE p \in found : TRUE]
        /\ ppc'[q] = "inventory"
    BY <1>3 DEF BeginPromotion, Goto, TypeOK
  <2>2. CASE promotion["campaign"] = Absent
    <3>1. sealed'[q] = Promotion(Absent, NoEntries)
      BY <1>1, <2>1, <2>2 DEF TypeOK
    <3>2. QED
      BY <2>1, <2>2, <3>1 DEF Promotion
  <2>3. CASE promotion["campaign"] # Absent
    <3>1. found = {promotion["campaign"]}
      BY <1>1, <2>3
    <3>2. (CHOOSE p \in found : TRUE) \in found
      BY <3>1
    <3>3. sealed'[q] = promotion["campaign"]
      BY <2>1, <3>1, <3>2 DEF TypeOK
    <3>4. QED
      BY <2>1, <2>3, <3>3
  <2>4. QED
    BY <2>2, <2>3
<1>4. QED
  BY <1>2, <1>3

\* Sealing, step by step: what the step leaves on disk is what the promotion
\* that made it goes on to believe.
LEMMA SealOfStep ==
  ASSUME NEW q \in Promoters, TypeOK, SealInv, Promote(q) \/ PromoterFault(q)
  PROVE  /\ SealOf(q)'
         /\ promotion'["output"] \in {Absent, promotion'["campaign"]}
         /\ \A r \in Roots : promotion'[r] # Absent => promotion'[r].by # Absent
         /\ promotion' = promotion \/ ppc[q] \in PromoterWorking
<1>0. /\ SealOf(q) /\ promotion["output"] \in {Absent, promotion["campaign"]}
      /\ \A r \in Roots : promotion[r] # Absent => promotion[r].by # Absent
  BY DEF SealInv
<1>1. CASE BeginPromotion(q)
  <2>1. promotion' = promotion
    BY <1>1 DEF BeginPromotion, evidence
  <2>2. SealOf(q)'
    BY <1>1, <2>1, TakesOver DEF SealOf, PromoterWorking, Sealing, Validating
  <2>3. QED
    BY <1>0, <2>1, <2>2
<1>2. CASE TakeInventory(q)
  BY <1>0, <1>2 DEF TakeInventory, Goto, evidence, SealOf, PromoterWorking, Sealing, Validating, TypeOK
<1>3. CASE ReadEvidence(q) \/ OpenSource(q) \/ MeasureSource(q)
  <2>1. promotion' = promotion /\ sealed' = sealed
    BY <1>3 DEF ReadEvidence, OpenSource, MeasureSource, evidence
  <2>2. ppc[q] \in Validating /\ ppc'[q] \in Validating \cup {"raised"}
    BY <1>3 DEF ReadEvidence, OpenSource, MeasureSource, Goto, TypeOK, Validating
  <2>3. SealOf(q)'
    BY <1>0, <2>1, <2>2 DEF SealOf, PromoterWorking, Sealing, Validating, Roots
  <2>4. QED
    BY <1>0, <2>1, <2>3
<1>9. CASE DateSource(q)
  <2>1. promotion' = promotion
    BY <1>9 DEF DateSource, evidence
  <2>2. SealOf(q)'
    BY <1>0, <1>9, <2>1, DatedEntry DEF SealOf, PromoterWorking, Sealing, Validating, Roots
  <2>3. QED
    BY <1>0, <2>1, <2>2
<1>4. CASE Validated(q)
  <2>1. promotion' = promotion /\ ppc[q] = "validate" /\ ppc'[q] = "sealCampaign"
    BY <1>4 DEF Validated, evidence, Goto, TypeOK
  <2>2. /\ sealed[q].by = Absent => sealed'[q].by = q
        /\ sealed[q].by # Absent => sealed'[q] = sealed[q]
    <3>1. /\ sealed[q] \in Payloads
          /\ sealed'[q] = [sealed[q] EXCEPT !.by = IF @ = Absent THEN q ELSE @]
      BY <1>4 DEF Validated, TypeOK
    <3>2. QED
      BY <3>1 DEF Payloads
  <2>3. sealed'[q].by # Absent
    BY <2>2, ArchiveAssumption
  <2>4. promotion["campaign"] # Absent => sealed'[q] = promotion["campaign"]
    BY <1>0, <2>1, <2>2 DEF SealOf, Validating, Roots
  <2>5. SealOf(q)'
    BY <2>1, <2>3, <2>4 DEF SealOf, PromoterWorking, Sealing, Validating
  <2>6. QED
    BY <1>0, <2>1, <2>5
<1>5. CASE Seal(q)
  <2>1. sealed' = sealed /\ ppc[q] \in PromoterWorking
    BY <1>5 DEF Seal, CheckImmutable, WriteSeal, PromoterWorking
  <2>2. CASE promotion' = promotion
    <3>1. SealOf(q)'
      BY <1>0, <1>5, <2>1, <2>2
      DEF Seal, CheckImmutable, WriteSeal, Goto, TypeOK, SealOf, PromoterWorking, Sealing, Validating, Roots
    <3>2. QED
      BY <1>0, <2>1, <2>2, <3>1
  <2>3. CASE WriteSeal(q, "campaign", "writeCampaign", "sealOutput")
    BY <1>0, <2>1, <2>3
    DEF WriteSeal, Goto, TypeOK, SealOf, PromoterWorking, Sealing, Validating, Roots
  <2>4. CASE WriteSeal(q, "output", "writeOutput", "audit")
    BY <1>0, <2>1, <2>4
    DEF WriteSeal, Goto, TypeOK, SealOf, PromoterWorking, Sealing, Validating, Roots
  <2>5. QED
    BY <1>5, <2>2, <2>3, <2>4 DEF Seal, CheckImmutable, evidence
<1>6. CASE Audit(q) \/ CheckMonth(q) \/ HashMonth(q) \/ UnlinkMonth(q) \/ DeleteContract(q)
           \/ CheckRemains(q) \/ Retire(q) \/ Confirm(q)
  <2>1. promotion' = promotion /\ sealed' = sealed
    BY <1>6 DEF Audit, CheckMonth, HashMonth, UnlinkMonth, DeleteContract, CheckRemains, Retire, Confirm,
       CheckImmutable, WriteRetirement, evidence
  <2>2. ppc[q] \in PromoterWorking \ Sealing /\ ppc'[q] \notin Sealing
    BY <1>6 DEF Audit, CheckMonth, HashMonth, UnlinkMonth, DeleteContract, CheckRemains, Retire, Confirm,
       CheckImmutable, WriteRetirement, Goto, TypeOK, PromoterWorking, Sealing, Validating
  <2>3. SealOf(q)'
    BY <1>0, <2>1, <2>2 DEF SealOf, Sealing
  <2>4. QED
    BY <1>0, <2>1, <2>3
<1>7. CASE PromoterFault(q)
  BY <1>0, <1>7
  DEF PromoterFault, PromoterRaises, PromoterKilled, Goto, TypeOK, evidence, SealOf,
      PromoterWorking, Sealing, Validating
<1>8. QED
  BY <1>1, <1>2, <1>3, <1>4, <1>5, <1>6, <1>7, <1>9 DEF Promote

LEMMA SealInvStep ==
  ASSUME TypeOK, OnePromoter, SealInv, [Next]_vars
  PROVE  SealInv'
<1>1. CASE UNCHANGED <<promotion, ppc, sealed>>
  BY <1>1 DEF SealInv, SealOf
<1>2. ASSUME NEW q \in Promoters, Promote(q) \/ PromoterFault(q)
      PROVE  SealInv'
  <2>1. ASSUME NEW p \in Promoters, p # q
        PROVE  SealOf(p)'
    <3>1. SealOf(p) /\ ppc'[p] = ppc[p] /\ sealed'[p] = sealed[p]
      BY <1>2, <2>1, OwnPromotion DEF SealInv
    <3>2. CASE promotion' = promotion
      BY <3>1, <3>2 DEF SealOf
    <3>3. CASE ppc[q] \in PromoterWorking
      <4>1. ppc'[p] \notin PromoterWorking
        BY <2>1, <3>1, <3>3 DEF OnePromoter
      <4>2. QED
        BY <4>1 DEF SealOf, PromoterWorking, Sealing, Validating
    <3>4. QED
      BY <1>2, <3>2, <3>3, SealOfStep
  <2>2. QED
    BY <1>2, <2>1, SealOfStep DEF SealInv
<1>3. QED
  BY <1>1, <1>2, NoPromotion

\* A promotion both roots have is never rewritten.
LEMMA SealStays ==
  ASSUME TypeOK, SealInv, [Next]_vars,
         promotion["campaign"] # Absent, promotion["output"] = promotion["campaign"]
  PROVE  promotion'["campaign"] = promotion["campaign"]
         /\ promotion'["output"] = promotion["output"]
<1>1. ASSUME NEW q \in Promoters, Promote(q) \/ PromoterFault(q)
      PROVE  promotion' = promotion
  <2>1. SealOf(q)
    BY DEF SealInv
  <2>2. ~ (ppc[q] = "writeCampaign") /\ ~ (ppc[q] = "writeOutput")
    BY <2>1 DEF SealOf
  <2>3. QED
    BY <1>1, <2>2
    DEF Promote, PromoterFault, BeginPromotion, TakeInventory, ReadEvidence, OpenSource,
        MeasureSource, DateSource, Validated, Seal, Audit, CheckMonth, HashMonth, UnlinkMonth,
        DeleteContract, CheckRemains, Retire, Confirm, PromoterRaises,
        PromoterKilled, CheckImmutable, WriteSeal, WriteRetirement, evidence
<1>2. QED
  BY <1>1, NoPromotion

LEMMA GoneStep ==
  ASSUME Inv, SealInv, GoneInv, [Next]_vars
  PROVE  GoneInv'
<1>0. TypeOK /\ WindowInv
  BY DEF Inv
<1> SUFFICES ASSUME NEW m \in Months, source'[m] = Absent
             PROVE  /\ promotion'["campaign"] # Absent
                    /\ promotion'["output"] = promotion'["campaign"]
                    /\ compact'[m] \in {promotion'["campaign"].entries[m].archive} \cup raced'[m]
  BY DEF GoneInv
<1>1. CASE source[m] = Absent
  <2>1. /\ promotion["campaign"] # Absent /\ promotion["output"] = promotion["campaign"]
        /\ compact[m] \in {promotion["campaign"].entries[m].archive} \cup raced[m]
    BY <1>1 DEF GoneInv
  <2>2. compact'[m] \in {compact[m]} \cup raced[m] /\ raced[m] \subseteq raced'[m]
    BY <1>1, MonthKept
  <2>3. promotion'["campaign"] = promotion["campaign"] /\ promotion'["output"] = promotion["output"]
    BY <1>0, <2>1, SealStays
  <2>4. QED
    BY <2>1, <2>2, <2>3
<1>2. CASE source[m] # Absent
  <2>1. PICK q \in Promoters : UnlinkMonth(q)
    <3>1. ~ (\E t \in Tasks : TaskStep(t) \/ TaskFault(t))
      BY <1>0, <1>2, TaskFrame
    <3>2. ~ (\E d \in Months : Replace(d))
      BY <1>0, <1>2, ArchiveAssumption DEF Replace, TypeOK
    <3>3. PICK q \in Promoters : Promote(q) \/ PromoterFault(q)
      BY <1>2, <3>1, <3>2 DEF Next, AllOver, vars, tree
    <3>4. QED
      BY <1>0, <1>2, <3>3, PromoterFrame
  <2>2. UNCHANGED <<promotion, compact, raced>>
    BY <2>1 DEF UnlinkMonth, evidence, rest, outputs
  <2>3. \A r \in Roots : promotion[r] = sealed[q]
    BY <2>1 DEF SealInv, SealOf, UnlinkMonth, PromoterWorking, Sealing, Validating
  <2>4. sealed[q] # Absent
    <3>1. sealed[q] \in [by : Promoters \cup {Absent},
                         entries : [Months -> [archive : Versions \cup {Absent},
                                               mtime : Versions \cup {Absent}]]]
      BY <1>0 DEF TypeOK, Payloads, Entries, Files
    <3>2. QED
      BY <3>1, ArchiveAssumption
  <2>5. compact[m] \in {sealed[q].entries[m].archive} \cup raced[m]
    BY <1>0, <1>2, <2>1, UnlinkFrame DEF Unlinked, Loose
  <2>6. QED
    BY <2>2, <2>3, <2>4, <2>5 DEF Roots
<1>3. QED
  BY <1>1, <1>2

\* A source that is empty stays empty, and only then is its retirement
\* recorded.
LEMMA RetiringStep ==
  ASSUME Inv, RetiringInv, [Next]_vars
  PROVE  RetiringInv'
<1>0. TypeOK
  BY DEF Inv
<1>1. SourceEmpty => SourceEmpty'
  <2>1. ~archiveContract => ~archiveContract'
    <3>1. ASSUME NEW q \in Promoters, Promote(q) \/ PromoterFault(q)
          PROVE  archiveContract' \in {archiveContract, FALSE}
      BY <3>1
      DEF Promote, PromoterFault, BeginPromotion, TakeInventory, ReadEvidence, OpenSource,
          MeasureSource, DateSource, Validated, Seal, Audit, CheckMonth, HashMonth, UnlinkMonth,
          DeleteContract, CheckRemains, Retire, Confirm, PromoterRaises,
          PromoterKilled, CheckImmutable, WriteSeal, WriteRetirement, tree
    <3>2. QED
      BY <1>0, <3>1, NoPromotion
  <2>2. QED
    BY <2>1, MonthKept DEF SourceEmpty
<1>2. CASE UNCHANGED <<retirement, ppc>>
  BY <1>1, <1>2 DEF RetiringInv
<1>3. ASSUME NEW q \in Promoters, Promote(q) \/ PromoterFault(q)
      PROVE  RetiringInv'
  <2>1. \A p \in Promoters \ {q} : ppc'[p] = ppc[p]
    BY <1>0, <1>3, OwnPromotion
  <2>2. /\ ppc'[q] \in Retiring => ppc[q] \in Retiring \/ SourceEmpty
        /\ retirement' = retirement \/ ppc[q] \in Retiring
    BY <1>0, <1>3
    DEF Promote, PromoterFault, BeginPromotion, TakeInventory, ReadEvidence, OpenSource,
        MeasureSource, DateSource, Validated, Seal, Audit, CheckMonth, HashMonth, UnlinkMonth,
        DeleteContract, CheckRemains, Retire, Confirm, PromoterRaises,
        PromoterKilled, CheckImmutable, WriteSeal, WriteRetirement, evidence, Goto, TypeOK, Retiring
  <2>3. QED
    BY <1>1, <2>1, <2>2 DEF RetiringInv
<1>4. QED
  BY <1>0, <1>2, <1>3, NoPromotion

LEMMA InitTurn == Init => TurnInv
<1> SUFFICES ASSUME Init PROVE TurnInv
  OBVIOUS
<1>1. OnePromoter /\ RetiringInv
  BY DEF Init, OnePromoter, RetiringInv, PromoterWorking, Retiring
<1>2. SealInv
  BY DEF Init, SealInv, SealOf, PromoterWorking, Sealing, Validating, Roots
<1>3. GoneInv
  BY ArchiveAssumption DEF Init, GoneInv
<1>4. QED
  BY <1>1, <1>2, <1>3, InitInv DEF TurnInv

LEMMA TurnInvariance == SpecInTurn => []TurnInv
<1>1. TurnInv /\ [Next /\ PromotionsInTurn]_vars => TurnInv'
  <2> SUFFICES ASSUME TurnInv, [Next /\ PromotionsInTurn]_vars PROVE TurnInv'
    OBVIOUS
  <2>1. [Next]_vars
    OBVIOUS
  <2>2. TypeOK
    BY DEF TurnInv, Inv
  <2>3. QED
    BY <2>1, <2>2, NextInv, OnePromoterStep, SealInvStep, GoneStep, RetiringStep DEF TurnInv
<1>2. QED
  BY <1>1, InitTurn, PTL DEF SpecInTurn

\* What status reports as retired is gone from the source, and every month of
\* it is in the compact archive as the promotion names it, or as a version that
\* slipped into a window: for all promotions an operator starts one after the
\* other, whichever failed or were killed half-way, and whatever the tasks and
\* the backfill do meanwhile (_load_retired_source_entries,
\* promote_compact_archive).
THEOREM RetirementIsTrue == SpecInTurn => []RetiredMeansGone
<1>1. TurnInv => RetiredMeansGone
  BY DEF TurnInv, GoneInv, RetiringInv, RetiredMeansGone, Retired, SourceEmpty, Roots
<1>2. QED
  BY <1>1, TurnInvariance, PTL
=============================================================================
