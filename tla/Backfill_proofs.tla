--------------------------- MODULE Backfill_proofs ---------------------------
(***************************************************************************)
(* Proofs about Backfill: whatever the number of campaigns, days, attempts *)
(* and faults, as long as campaigns with distinct contracts take turns in  *)
(* creating the root, the archive follows the contract, stays once it is   *)
(* published, and the receipts written about it are true.                  *)
(***************************************************************************)
EXTENDS Backfill, TLAPS

LEMMA InitialInv == Init => BackfillInv
<1> SUFFICES ASSUME Init PROVE BackfillInv
  OBVIOUS
<1>1. BackfillTypeOK
  BY DEF Init, BackfillTypeOK, Messages, Nothing
<1>2. LockInv /\ ContractInv /\ PartialInv /\ ReceiptInv /\ ArchiveFollowsContract
  BY DEF Init, LockInv, ContractInv, PartialInv, ReceiptInv, ArchiveFollowsContract,
         Holding, Trying, Failing, Writing, Admitted
<1> QED BY <1>1, <1>2 DEF BackfillInv

\* A step is a step of one invocation, or nothing moves.
LEMMA StepIsSomeones ==
  ASSUME [Next]_vars
  PROVE  (\E t \in Tasks : Progress(t) \/ Fault(t)) \/ UNCHANGED vars
BY DEF Next, AllOver

-----------------------------------------------------------------------------
(* Types.                                                                  *)

LEMMA ProgressType ==
  ASSUME NEW t \in Tasks, BackfillInv, Progress(t)
  PROVE  BackfillTypeOK'
<1> USE BackfillAssumption DEF Goto, Holding, Trying, Failing, Writing, Over, files, locals
<1>0. BackfillTypeOK /\ ReceiptInv /\ PartialInv
  BY DEF BackfillInv
<1>1. CampaignOf[t] \in Campaigns /\ Mine(t).days \in SUBSET Days /\ Nothing \in Messages
  BY DEF Mine, Nothing, Messages
<1>2. CASE Acquire(t) \/ Release(t)
  <2>1. lock' \in [Campaigns -> Tasks \cup {Absent}]
    BY <1>0, <1>1, <1>2 DEF BackfillTypeOK, Acquire, Release
  <2>2. stage' \in [Tasks -> {"start"} \cup Holding \cup Over]
    BY <1>0, <1>1, <1>2 DEF BackfillTypeOK, Acquire, Release
  <2> QED
    BY <1>0, <1>1, <1>2, <2>1, <2>2 DEF BackfillTypeOK, Acquire, Release
<1>3. CASE Locked(t) \/ CheckContract(t) \/ ClosePartial(t) \/ InspectPartial(t)
  BY <1>0, <1>1, <1>3 DEF BackfillTypeOK, Locked, CheckContract, ClosePartial, InspectPartial
<1>8. CASE WriteContract(t)
  <2>1. Mine(t) \in {Manifest[c] : c \in Campaigns}
    BY <1>1 DEF Mine
  <2> QED
    BY <1>0, <1>8, <2>1 DEF BackfillTypeOK, WriteContract
<1>9. CASE ClearPartial(t) \/ Publish(t) \/ Discard(t)
  BY <1>0, <1>1, <1>9 DEF BackfillTypeOK, ClearPartial, Publish, Discard
<1>10. CASE InspectExisting(t)
  BY <1>0, <1>1, <1>10 DEF BackfillTypeOK, InspectExisting
<1>4. CASE HashExisting(t)
  <2>1. content[archive] \in Messages
    BY <1>0, <1>4 DEF HashExisting, BackfillTypeOK, ReceiptInv
  <2> QED
    BY <1>0, <1>4, <2>1 DEF BackfillTypeOK, HashExisting
<1>5. CASE Vouch(t) \/ WriteReceipt(t) \/ WriteCritical(t)
  <2>1. receipt' \in [Campaigns ->
          [status : {"none", "complete", "verified_existing", "critical"}, sha256 : Messages]]
    BY <1>0, <1>1, <1>5 DEF BackfillTypeOK, Vouch, WriteReceipt, WriteCritical, Record
  <2> QED
    BY <1>0, <1>5, <2>1 DEF BackfillTypeOK, Vouch, WriteReceipt, WriteCritical
<1>6. CASE OpenPartial(t)
  BY <1>0, <1>1, <1>6 DEF BackfillTypeOK, OpenPartial
<1>7. CASE AppendDay(t)
  <2>1. PICK d \in todo[t] :
          /\ content' = [content EXCEPT ![handle[t]][d] = t]
          /\ digest' = [digest EXCEPT ![t][d] = t]
          /\ todo' = [todo EXCEPT ![t] = @ \ {d}]
    BY <1>7 DEF AppendDay
  <2>2. d \in Days /\ todo[t] \in SUBSET Days
    BY <1>0 DEF BackfillTypeOK
  <2>3. content' \in [Tasks -> Messages] /\ digest' \in [Tasks -> Messages]
    BY <1>0, <2>1, <2>2 DEF BackfillTypeOK, Messages
  <2> QED
    BY <1>0, <1>7, <2>1, <2>2, <2>3 DEF BackfillTypeOK, AppendDay
<1> QED
  BY <1>2, <1>3, <1>4, <1>5, <1>6, <1>7, <1>8, <1>9, <1>10 DEF Progress

LEMMA TypeStep ==
  ASSUME BackfillInv, [Next]_vars
  PROVE  BackfillTypeOK'
<1>1. CASE UNCHANGED vars
  BY <1>1 DEF vars, files, locals, BackfillInv, BackfillTypeOK
<1>2. ASSUME NEW t \in Tasks, Fault(t)
      PROVE  BackfillTypeOK'
  <2> USE BackfillAssumption
          DEF BackfillInv, BackfillTypeOK, Goto, files, locals, Holding, Trying, Failing,
              Writing, Over
  <2>1. CASE Kill(t)
    <3>1. CampaignOf[t] \in Campaigns
      OBVIOUS
    <3>2. lock' \in [Campaigns -> Tasks \cup {Absent}]
      BY <2>1, <3>1 DEF Kill
    <3>3. stage' \in [Tasks -> {"start"} \cup Holding \cup Over]
      BY <2>1 DEF Kill
    <3>4. UNCHANGED <<contract, content, partial, archive, receipt, handle, todo, digest>>
      BY <2>1 DEF Kill
    <3> QED
      BY <3>2, <3>3, <3>4
  <2>2. CASE Raise(t) \/ Misjudge(t) \/ Abort(t)
    <3>1. stage' \in [Tasks -> {"start"} \cup Holding \cup Over]
      BY <2>2 DEF Raise, Misjudge, Abort
    <3>2. UNCHANGED <<contract, content, partial, archive, receipt, lock, handle, todo, digest>>
      BY <2>2 DEF Raise, Misjudge, Abort
    <3> QED
      BY <3>1, <3>2
  <2> QED
    BY <1>2, <2>1, <2>2 DEF Fault
<1> QED
  BY <1>1, <1>2, ProgressType, StepIsSomeones

-----------------------------------------------------------------------------
(* Locks.                                                                  *)

\* A step moves one invocation, and leaves the other campaigns' locks alone.
LEMMA OwnMove ==
  ASSUME NEW t \in Tasks, BackfillInv, Progress(t) \/ Fault(t)
  PROVE  /\ \A u \in Tasks \ {t} : stage'[u] = stage[u]
         /\ \A c \in Campaigns \ {CampaignOf[t]} : lock'[c] = lock[c]
         /\ stage'[t] \in Holding =>
              \/ stage[t] \in Holding /\ lock' = lock
              \/ Acquire(t)
         /\ lock'[CampaignOf[t]] # lock[CampaignOf[t]] => Acquire(t) \/ stage[t] \in Holding
<1> USE BackfillAssumption
        DEF BackfillInv, BackfillTypeOK, Goto, Holding, Trying, Failing, Writing, Over
<1>1. CASE Fault(t)
  BY <1>1 DEF Fault, Raise, Misjudge, Abort, Kill
<1>2. CASE Acquire(t) \/ Locked(t) \/ CheckContract(t) \/ WriteContract(t) \/ Release(t)
           \/ InspectExisting(t) \/ HashExisting(t) \/ Vouch(t) \/ ClearPartial(t)
  BY <1>2 DEF Acquire, Locked, CheckContract, WriteContract, Release, InspectExisting,
              HashExisting, Vouch, ClearPartial
<1>3. CASE OpenPartial(t) \/ AppendDay(t) \/ ClosePartial(t) \/ InspectPartial(t) \/ Publish(t)
           \/ WriteReceipt(t) \/ Discard(t) \/ WriteCritical(t)
  BY <1>3 DEF OpenPartial, AppendDay, ClosePartial, InspectPartial, Publish, WriteReceipt,
              Discard, WriteCritical
<1> QED
  BY <1>1, <1>2, <1>3 DEF Progress

LEMMA LockStep ==
  ASSUME BackfillInv, [Next]_vars
  PROVE  LockInv'
<1> USE BackfillAssumption DEF BackfillInv
<1>1. CASE UNCHANGED vars
  BY <1>1 DEF vars, LockInv
<1>2. ASSUME NEW t \in Tasks, Progress(t) \/ Fault(t), NEW u \in Tasks, stage'[u] \in Holding
      PROVE  lock'[CampaignOf[u]] = u
  <2>1. CASE u = t
    BY <1>2, <2>1, OwnMove DEF Acquire, LockInv, BackfillTypeOK
  <2>2. CASE u # t
    <3>1. stage[u] \in Holding /\ lock[CampaignOf[u]] = u
      BY <1>2, <2>2, OwnMove DEF LockInv
    <3>2. CASE CampaignOf[u] = CampaignOf[t]
      <4>1. u \in Tasks /\ u # Absent
        OBVIOUS
      <4>2. ~ Acquire(t) /\ stage[t] \notin Holding
        BY <2>2, <3>1, <3>2, <4>1 DEF Acquire, LockInv
      <4> QED
        BY <1>2, <3>1, <3>2, <4>2, OwnMove
    <3>3. CASE CampaignOf[u] # CampaignOf[t]
      BY <1>2, <3>1, <3>3, OwnMove
    <3> QED
      BY <3>2, <3>3
  <2> QED
    BY <2>1, <2>2
<1> QED
  BY <1>1, <1>2, StepIsSomeones DEF LockInv

\* Two invocations past the contract would share it, hence the campaign and
\* its lock.
LEMMA OneAdmitted ==
  ASSUME BackfillInv, DistinctContracts, NEW t \in Tasks, NEW u \in Tasks,
         stage[t] \in Admitted, stage[u] \in Admitted
  PROVE  t = u
<1>1. Mine(t) = Mine(u)
  BY DEF BackfillInv, ContractInv
<1>2. CampaignOf[t] = CampaignOf[u]
  BY <1>1, BackfillAssumption DEF DistinctContracts, Mine
<1> QED
  BY <1>2 DEF BackfillInv, LockInv, Admitted, Holding

-----------------------------------------------------------------------------
(* The contract.                                                           *)

\* What a step does to the contract, and how an invocation gets past it.
LEMMA ContractMove ==
  ASSUME NEW t \in Tasks, BackfillInv, Progress(t) \/ Fault(t)
  PROVE  /\ contract' = contract \/ WriteContract(t)
         /\ stage'[t] \in Admitted =>
              \/ stage[t] \in Admitted /\ contract' = contract
              \/ contract = Mine(t) /\ contract' = contract
              \/ WriteContract(t)
         /\ stage'[t] = "writeContract" => contract' = Absent
<1> USE DEF BackfillInv, BackfillTypeOK, Goto, Holding, Admitted, Trying, Failing, Writing, Over
<1>1. CASE Fault(t)
  BY <1>1 DEF Fault, Raise, Misjudge, Abort, Kill
<1>2. CASE Acquire(t) \/ Locked(t) \/ CheckContract(t) \/ WriteContract(t) \/ Release(t)
           \/ InspectExisting(t) \/ HashExisting(t) \/ Vouch(t) \/ ClearPartial(t)
  BY <1>2 DEF Acquire, Locked, CheckContract, WriteContract, Release, InspectExisting,
              HashExisting, Vouch, ClearPartial
<1>3. CASE OpenPartial(t) \/ AppendDay(t) \/ ClosePartial(t) \/ InspectPartial(t) \/ Publish(t)
           \/ WriteReceipt(t) \/ Discard(t) \/ WriteCritical(t)
  BY <1>3 DEF OpenPartial, AppendDay, ClosePartial, InspectPartial, Publish, WriteReceipt,
              Discard, WriteCritical
<1> QED
  BY <1>1, <1>2, <1>3 DEF Progress

LEMMA ContractStep ==
  ASSUME BackfillInv, [Next /\ CampaignsTakeTurns]_vars
  PROVE  ContractInv'
<1> USE BackfillAssumption
<1>0. ContractInv /\ LockInv /\ BackfillTypeOK
  BY DEF BackfillInv
<1>1. CASE UNCHANGED vars
  BY <1>0, <1>1 DEF vars, ContractInv, Mine
<1>2. ASSUME NEW t \in Tasks, Progress(t) \/ Fault(t), CampaignsTakeTurns
      PROVE  ContractInv'
  \* Whoever writes the contract is alone.
  <2>1. ASSUME WriteContract(t), NEW u \in Tasks \ {t}
        PROVE  stage[u] \notin Holding
    <3>1. stage[t] \in Holding /\ contract = Absent
      BY <1>0, <2>1 DEF WriteContract, Holding, Trying, ContractInv
    <3> QED
      BY <1>0, <3>1 DEF ContractInv, LockInv
  <2>2. Admitted \subseteq Holding /\ "writeContract" \in Holding
    BY DEF Admitted, Holding, Trying
  <2>3. ASSUME NEW u \in Tasks, stage'[u] \in Admitted
        PROVE  contract' = Mine(u)
    BY <1>0, <1>2, <2>1, <2>2, <2>3, OwnMove, ContractMove DEF ContractInv, WriteContract
  <2>4. ASSUME NEW u \in Tasks, stage'[u] = "writeContract"
        PROVE  contract' = Absent
    BY <1>0, <1>2, <2>1, <2>2, <2>4, OwnMove, ContractMove DEF ContractInv
  <2>5. ASSUME contract' = Absent, NEW u \in Tasks, NEW v \in Tasks,
               stage'[u] \in Holding, stage'[v] \in Holding
        PROVE  CampaignOf[u] = CampaignOf[v]
    <3>1. contract = Absent
      BY <1>2, <2>5, ContractMove DEF WriteContract, Mine
    <3>2. stage'[t] \in Holding => stage[t] \in Holding \/ Acquire(t)
      BY <1>2, OwnMove
    <3>3. Acquire(t) => \A w \in Tasks : stage[w] \in Holding => CampaignOf[w] = CampaignOf[t]
      BY <1>2, <3>1, <1>0
      DEF Acquire, CampaignsTakeTurns, Goto, BackfillTypeOK, Holding, Trying, Failing, Writing, Over
    <3>4. \A w \in Tasks \ {t} : stage'[w] = stage[w]
      BY <1>2, OwnMove
    <3> QED
      BY <1>0, <2>5, <3>1, <3>2, <3>3, <3>4 DEF ContractInv
  <2> QED
    BY <2>3, <2>4, <2>5 DEF ContractInv, Mine
<1> QED
  BY <1>1, <1>2, StepIsSomeones

-----------------------------------------------------------------------------
(* The files.                                                              *)

\* What a fault does: it moves an invocation to the except or finally branch,
\* or takes a whole archive for an incomplete one.
LEMMA FaultFrame ==
  ASSUME NEW t \in Tasks, BackfillInv, Fault(t)
  PROVE  /\ UNCHANGED <<contract, content, partial, archive, receipt, handle, todo, digest>>
         /\ \A u \in Tasks \ {t} : stage'[u] = stage[u]
         /\ stage'[t] \in After \/ stage'[t] = "clear"
BY DEF Fault, Raise, Misjudge, Abort, Kill, Goto, files, locals, After, Failing, Over,
       BackfillInv, BackfillTypeOK

LEMMA PartialFault ==
  ASSUME NEW t \in Tasks, BackfillInv, Fault(t)
  PROVE  PartialInv'
<1>1. PartialInv /\ BackfillTypeOK
  BY DEF BackfillInv
<1>2. stage[t] = "existing" \/ stage'[t] \in After
  BY DEF Fault, Raise, Misjudge, Abort, Kill, Goto, After, Failing, Over,
         BackfillInv, BackfillTypeOK
<1> QED
  BY <1>1, <1>2, FaultFrame
  DEF PartialInv, Appended, Mine, After, Writing, Failing, Over, BackfillTypeOK

\* The steps that leave every file and every open handle alone.
LEMMA PartialIdle ==
  ASSUME NEW t \in Tasks, BackfillInv,
         \/ Acquire(t) \/ Locked(t) \/ CheckContract(t) \/ WriteContract(t) \/ Release(t)
         \/ WriteReceipt(t) \/ WriteCritical(t) \/ Vouch(t)
  PROVE  PartialInv'
<1>1. PartialInv /\ BackfillTypeOK
  BY DEF BackfillInv
<1>2. /\ UNCHANGED <<content, partial, archive, handle, todo, digest>>
      /\ \A u \in Tasks \ {t} : stage'[u] = stage[u]
      /\ stage'[t] \notin Writing \cup {"open", "publish"}
      /\ \/ stage[t] \notin Writing \cup {"publish", "receipt"} \cup After
         \/ stage'[t] \in After
  BY <1>1
  DEF BackfillTypeOK, Acquire, Locked, CheckContract, WriteContract, Release, WriteReceipt,
      WriteCritical, Vouch, Goto, files, locals, Writing, After, Failing, Over
<1> QED
  BY <1>1, <1>2 DEF PartialInv, Appended, Mine, BackfillTypeOK, Writing

\* The steps past the contract: nobody else is there, so nobody else has a
\* .partial open, is about to open one or to publish it.
LEMMA PartialAdmitted ==
  ASSUME NEW t \in Tasks, BackfillInv, DistinctContracts, Progress(t), stage[t] \in Admitted
  PROVE  PartialInv'
<1>0. PartialInv /\ BackfillTypeOK
  BY DEF BackfillInv
<1>1. \A u \in Tasks \ {t} : stage'[u] = stage[u] /\ stage[u] \notin Admitted
  BY OwnMove, OneAdmitted
<1>2. \A u \in Tasks \ {t} : stage'[u] \notin {"open", "publish", "receipt"} \cup Writing
  BY <1>1 DEF Admitted, Trying, Writing
<1> USE DEF PartialInv, BackfillTypeOK, Goto, After, Writing, Failing, Over
<1>3. CASE InspectExisting(t) \/ HashExisting(t) \/ ClearPartial(t)
  <2>1. stage'[t] \in {"hash", "clear", "vouch", "open"} /\ stage[t] \in {"existing", "hash", "clear"}
    BY <1>0, <1>3 DEF InspectExisting, HashExisting, ClearPartial
  <2>2. /\ partial' \in {partial, Absent} /\ archive' = archive
        /\ stage'[t] = "open" => partial' = Absent
    BY <1>0, <1>3, <2>1 DEF InspectExisting, HashExisting, ClearPartial, files
  <2> QED
    BY <1>0, <1>1, <1>2, <2>1, <2>2
<1>4. CASE OpenPartial(t)
  <2>1. /\ stage[t] = "open" /\ stage'[t] = "day" /\ partial' = t /\ archive' = archive
        /\ archive # t
    BY <1>0, <1>4, BackfillAssumption DEF OpenPartial
  <2>2. Appended(t)'
    BY <1>0, <1>4 DEF OpenPartial, Appended, Nothing, Mine, Messages
  <2> QED
    BY <1>0, <1>1, <1>2, <2>1, <2>2
<1>5. CASE AppendDay(t)
  <2>1. /\ stage' = stage /\ stage[t] = "day" /\ UNCHANGED <<partial, archive, handle>>
    BY <1>5 DEF AppendDay
  <2>2. PICK d \in todo[t] :
          /\ content' = [content EXCEPT ![t][d] = t]
          /\ digest' = [digest EXCEPT ![t][d] = t]
          /\ todo' = [todo EXCEPT ![t] = @ \ {d}]
    BY <1>0, <1>5, <2>1 DEF AppendDay, Appended
  <2>3. d \in Days /\ todo[t] \subseteq Days /\ content[t] \in Messages
    BY <1>0
  <2>4. Appended(t)'
    <3>1. Appended(t)
      BY <1>0, <2>1
    <3>2. /\ content'[t] = [content[t] EXCEPT ![d] = t]
          /\ digest'[t] = [digest[t] EXCEPT ![d] = t]
          /\ todo'[t] = todo[t] \ {d}
      BY <1>0, <2>2
    <3>3. d \in Mine(t).days
      BY <1>0, <2>1, <2>3, BackfillAssumption DEF Appended
    <3> QED
      BY <2>1, <2>3, <3>1, <3>2, <3>3 DEF Appended, Mine, Messages
  <2> QED
    BY <1>0, <1>1, <1>2, <2>1, <2>4
<1>6. CASE ClosePartial(t) \/ InspectPartial(t)
  <2>1. /\ UNCHANGED <<content, partial, archive, handle, todo, digest>>
        /\ stage[t] \in Writing
        /\ \/ stage'[t] \in {"inspect", "publish"} /\ todo[t] = {}
           \/ stage'[t] = "discard"
    BY <1>0, <1>6 DEF ClosePartial, InspectPartial, files, locals
  <2> QED
    BY <1>0, <1>1, <1>2, <2>1 DEF Appended, Mine
<1>7. CASE Publish(t)
  <2>1. /\ stage[t] = "publish" /\ stage'[t] \in {"discard", "receipt"} /\ partial' = Absent
        /\ \/ archive' = archive
           \/ archive' = t /\ stage'[t] = "receipt"
    BY <1>0, <1>7 DEF Publish, Appended
  <2> QED
    BY <1>0, <1>1, <1>2, <2>1
<1>8. CASE WriteReceipt(t) \/ Vouch(t)
  BY <1>8, PartialIdle
<1> QED
  BY <1>3, <1>4, <1>5, <1>6, <1>7, <1>8
  DEF Progress, Admitted, Trying, Acquire, Locked, CheckContract, WriteContract, Discard,
      WriteCritical, Release

LEMMA PartialDiscard ==
  ASSUME NEW t \in Tasks, BackfillInv, Discard(t)
  PROVE  PartialInv'
<1>1. PartialInv /\ BackfillTypeOK
  BY DEF BackfillInv
<1>2. /\ UNCHANGED <<content, archive, handle, todo, digest>> /\ partial' = Absent
      /\ \A u \in Tasks \ {t} : stage'[u] = stage[u]
      /\ stage[t] = "discard" /\ stage'[t] = "critical"
  BY <1>1 DEF BackfillTypeOK, Discard, Goto, locals
<1> QED
  BY <1>1, <1>2 DEF PartialInv, Appended, Mine, BackfillTypeOK, Writing, After, Failing

LEMMA PartialStep ==
  ASSUME BackfillInv, DistinctContracts, [Next]_vars
  PROVE  PartialInv'
<1>1. CASE UNCHANGED vars
  BY <1>1 DEF vars, files, locals, BackfillInv, PartialInv, Appended, Mine
<1>2. ASSUME NEW t \in Tasks, Progress(t)
      PROVE  PartialInv'
  <2>1. CASE stage[t] \in Admitted
    BY <1>2, <2>1, PartialAdmitted
  <2>2. CASE stage[t] \notin Admitted
    <3>1. \/ Acquire(t) \/ Locked(t) \/ CheckContract(t) \/ WriteContract(t) \/ Release(t)
          \/ WriteCritical(t) \/ Discard(t)
      BY <1>2, <2>2
      DEF Progress, Admitted, Trying, Writing, InspectExisting, HashExisting, Vouch, ClearPartial,
          OpenPartial, AppendDay, ClosePartial, InspectPartial, Publish, WriteReceipt
    <3> QED
      BY <3>1, PartialIdle, PartialDiscard
  <2> QED
    BY <2>1, <2>2
<1> QED
  BY <1>1, <1>2, PartialFault, StepIsSomeones

-----------------------------------------------------------------------------
(* The archive and what is said about it.                                  *)

\* A published inode is closed to whoever is still writing; it is replaced
\* only by the whole month of the contract.
LEMMA ArchiveMove ==
  ASSUME NEW t \in Tasks, BackfillInv, DistinctContracts, Progress(t) \/ Fault(t)
  PROVE  \/ archive' = archive /\ (archive # Absent => content'[archive] = content[archive])
         \/ /\ stage[t] = "publish" /\ stage'[t] = "receipt" /\ archive' = t
            /\ UNCHANGED <<contract, content, digest>>
            /\ contract = Mine(t) /\ digest[t] = content[t]
            /\ \A d \in Days : content[t][d] = IF d \in contract.days THEN t ELSE Absent
<1>0. PartialInv /\ BackfillTypeOK /\ ContractInv
  BY DEF BackfillInv
<1>1. CASE OpenPartial(t) \/ AppendDay(t)
  <2>1. archive' = archive /\ archive # t
    BY <1>0, <1>1, BackfillAssumption
    DEF OpenPartial, AppendDay, PartialInv, After, Failing, Over, Writing
  <2>2. \A i \in Tasks \ {t} : content'[i] = content[i]
    BY <1>0, <1>1 DEF OpenPartial, AppendDay, PartialInv, Appended, BackfillTypeOK, Writing
  <2> QED
    BY <1>0, <2>1, <2>2 DEF BackfillTypeOK
<1>2. CASE Publish(t) /\ partial # Absent
  <2>1. /\ stage[t] = "publish" /\ stage'[t] = "receipt" /\ archive' = partial
        /\ UNCHANGED <<contract, content, digest>>
    BY <1>0, <1>2 DEF Publish, Goto, locals, BackfillTypeOK
  <2>2. Appended(t) /\ todo[t] = {} /\ contract = Mine(t)
    BY <1>0, <2>1 DEF PartialInv, ContractInv, Admitted, Trying, Writing
  <2>3. partial = t /\ digest[t] = content[t]
        /\ \A d \in Days : content[t][d] = IF d \in contract.days THEN t ELSE Absent
    BY <1>2, <2>2 DEF Appended
  <2> QED
    BY <2>1, <2>2, <2>3
<1>3. CASE ~ (OpenPartial(t) \/ AppendDay(t) \/ (Publish(t) /\ partial # Absent))
  <2>1. archive' = archive /\ content' = content
    BY <1>3
    DEF Progress, Fault, Acquire, Locked, CheckContract, WriteContract, InspectExisting,
        HashExisting, Vouch, ClearPartial, ClosePartial, InspectPartial, Publish, WriteReceipt,
        Discard, WriteCritical, Release, Raise, Misjudge, Abort, Kill, files
  <2> QED
    BY <2>1
<1> QED
  BY <1>1, <1>2, <1>3

LEMMA ArchiveStep ==
  ASSUME BackfillInv, DistinctContracts, [Next]_vars
  PROVE  ArchiveFollowsContract'
<1>0. ArchiveFollowsContract /\ ContractInv /\ BackfillTypeOK
  BY DEF BackfillInv
<1>1. CASE UNCHANGED vars
  BY <1>0, <1>1 DEF vars, files, ArchiveFollowsContract, Whole, Mine
<1>2. ASSUME NEW t \in Tasks, Progress(t) \/ Fault(t)
      PROVE  ArchiveFollowsContract'
  <2>1. CASE archive' = archive /\ (archive # Absent => content'[archive] = content[archive])
    <3>1. contract # Absent => contract' = contract
      BY <1>0, <1>2, ContractMove DEF ContractInv, WriteContract
    <3> QED
      BY <1>0, <2>1, <3>1 DEF ArchiveFollowsContract, Whole, Mine
  <2>2. CASE /\ archive' = t /\ UNCHANGED <<contract, content>> /\ contract = Mine(t)
             /\ \A d \in Days : content[t][d] = IF d \in contract.days THEN t ELSE Absent
    <3>1. t # Absent /\ contract # Absent /\ contract.days \subseteq Days
      BY <2>2, BackfillAssumption DEF Mine
    <3>2. {d \in Days : content[t][d] # Absent} = contract.days
      BY <2>2, <3>1
    <3>3. \A d \in contract.days : content[t][d] = t
      BY <2>2, <3>1
    <3> QED
      BY <2>2, <3>1, <3>2, <3>3 DEF ArchiveFollowsContract, Whole, Mine
  <2> QED
    BY <1>2, <2>1, <2>2, ArchiveMove
<1> QED
  BY <1>1, <1>2, StepIsSomeones

\* An invocation comes to a receipt by a step that says where it has its
\* digest from, and feeds no other digest.
LEMMA DigestMove ==
  ASSUME NEW t \in Tasks, BackfillInv, Progress(t) \/ Fault(t)
  PROVE  /\ \A u \in Tasks \ {t} : digest'[u] = digest[u]
         /\ stage'[t] = "hash" => archive' = archive /\ archive # Absent
         /\ stage'[t] = "vouch" => /\ stage[t] = "hash" /\ UNCHANGED <<archive, content>>
                                   /\ digest'[t] = content[archive]
         /\ stage'[t] = "receipt" => Publish(t) /\ partial # Absent
<1> USE DEF BackfillInv, BackfillTypeOK, Goto, files, locals, Trying, Failing, Writing, Over
<1>1. CASE Fault(t)
  BY <1>1, FaultFrame DEF After
<1>2. CASE Acquire(t) \/ Locked(t) \/ CheckContract(t) \/ WriteContract(t) \/ Release(t)
           \/ InspectExisting(t) \/ HashExisting(t) \/ Vouch(t) \/ ClearPartial(t)
  BY <1>2 DEF Acquire, Locked, CheckContract, WriteContract, Release, InspectExisting,
              HashExisting, Vouch, ClearPartial
<1>3. CASE OpenPartial(t) \/ ClosePartial(t) \/ InspectPartial(t) \/ Publish(t)
           \/ WriteReceipt(t) \/ Discard(t) \/ WriteCritical(t)
  BY <1>3 DEF OpenPartial, ClosePartial, InspectPartial, Publish, WriteReceipt,
              Discard, WriteCritical
<1>4. CASE AppendDay(t)
  BY <1>4 DEF AppendDay
<1> QED
  BY <1>1, <1>2, <1>3, <1>4 DEF Progress

LEMMA ReceiptStep ==
  ASSUME BackfillInv, DistinctContracts, [Next]_vars
  PROVE  ReceiptInv'
<1>0. ReceiptInv /\ PartialInv /\ BackfillTypeOK
  BY DEF BackfillInv
<1>1. CASE UNCHANGED vars
  BY <1>0, <1>1 DEF vars, files, locals, ReceiptInv
<1>2. ASSUME NEW t \in Tasks, Progress(t) \/ Fault(t), NEW u \in Tasks,
             stage'[u] \in {"hash", "vouch", "receipt"}
      PROVE  /\ archive' # Absent
             /\ stage'[u] \in {"vouch", "receipt"} => digest'[u] = content'[archive']
  <2>1. CASE u # t
    <3>1. stage[u] = stage'[u] /\ stage[u] \in Admitted /\ digest'[u] = digest[u]
      BY <1>2, <2>1, OwnMove, DigestMove DEF Admitted, Trying
    <3>2. stage[t] # "publish"
      BY <2>1, <3>1, OneAdmitted DEF Admitted, Trying
    <3> QED
      BY <1>0, <1>2, <3>1, <3>2, ArchiveMove DEF ReceiptInv
  <2>2. CASE u = t /\ stage'[t] \in {"hash", "vouch"}
    BY <1>0, <1>2, <2>2, DigestMove DEF ReceiptInv
  <2>3. CASE u = t /\ stage'[t] = "receipt"
    <3>1. Publish(t) /\ partial # Absent /\ stage[t] = "publish"
      BY <1>2, <2>3, DigestMove DEF Publish
    <3>2. Appended(t) /\ archive' = t /\ UNCHANGED <<content, digest>>
      BY <1>0, <3>1 DEF Publish, PartialInv, Appended, locals
    <3> QED
      BY <2>3, <3>2, BackfillAssumption DEF Appended
  <2> QED
    BY <1>2, <2>1, <2>2, <2>3
<1> QED
  BY <1>1, <1>2, StepIsSomeones DEF ReceiptInv

-----------------------------------------------------------------------------
(* The theorems.                                                           *)

\* The inductive invariant of the month.
LEMMA BackfillInvariance ==
  ASSUME DistinctContracts
  PROVE  SpecInTurn => []BackfillInv
<1>1. BackfillInv /\ [Next /\ CampaignsTakeTurns]_vars => BackfillInv'
  <2> SUFFICES ASSUME BackfillInv, [Next /\ CampaignsTakeTurns]_vars
               PROVE  BackfillInv'
    OBVIOUS
  <2>1. [Next]_vars
    OBVIOUS
  <2> QED
    BY <2>1, TypeStep, LockStep, ContractStep, PartialStep, ReceiptStep, ArchiveStep
    DEF BackfillInv
<1> QED
  BY <1>1, InitialInv, PTL DEF SpecInTurn

\* The monthly archive is the whole month of the contract of its root, made by
\* invocations under that contract: for all campaigns with contracts of their
\* own, all attempts, and every fault and kill of theirs (run_manifest_task).
THEOREM MonthFollowsContract ==
  ASSUME DistinctContracts
  PROVE  SpecInTurn => []ArchiveFollowsContract
BY BackfillInvariance, PTL DEF BackfillInv

\* A published month never disappears, and nobody who still has a .partial
\* open writes to it (the rename at the end of run_manifest_task).
THEOREM MonthStays ==
  ASSUME DistinctContracts
  PROVE  SpecInTurn => PublishedStays
<1>1. ASSUME BackfillInv, [Next /\ CampaignsTakeTurns]_vars
      PROVE  [archive # Absent =>
                archive' # Absent /\ (archive' = archive => content'[archive] = content[archive])]_vars
  <2>1. CASE UNCHANGED vars
    BY <2>1
  <2>2. ASSUME NEW t \in Tasks, Progress(t) \/ Fault(t)
        PROVE  archive # Absent =>
                 archive' # Absent /\ (archive' = archive => content'[archive] = content[archive])
    BY <1>1, <2>2, ArchiveMove, BackfillAssumption
  <2> QED
    BY <1>1, <2>1, <2>2, StepIsSomeones
<1> QED
  BY <1>1, BackfillInvariance, PTL DEF SpecInTurn, PublishedStays

\* A receipt that says complete or verified_existing is true of the archive on
\* disk when it is written: there is one, whole, with the recorded SHA-256
\* (_archive_receipt_complete holds of it).
THEOREM ReceiptsAreHonest ==
  ASSUME DistinctContracts
  PROVE  SpecInTurn => ReceiptsAreTrue
<1> DEFINE Honest == \A c \in Campaigns :
             receipt'[c] # receipt[c] /\ receipt'[c].status # "critical" => ReceiptComplete(c)'
<1>1. ASSUME BackfillInv, [Next /\ CampaignsTakeTurns]_vars
      PROVE  [Honest]_vars
  <2>0. BackfillTypeOK /\ ReceiptInv /\ ContractInv /\ ArchiveFollowsContract
    BY <1>1 DEF BackfillInv
  <2>1. CASE UNCHANGED vars
    BY <2>1
  <2>2. ASSUME NEW t \in Tasks, Vouch(t) \/ WriteReceipt(t)
        PROVE  Honest
    <3>1. /\ archive # Absent /\ digest[t] = content[archive] /\ contract = Mine(t)
          /\ UNCHANGED <<archive, content>>
      BY <2>0, <2>2 DEF Vouch, WriteReceipt, ReceiptInv, ContractInv, Admitted, Trying, files
    <3>2. Whole(archive, Mine(t))
      BY <2>0, <3>1 DEF ArchiveFollowsContract
    <3>3. /\ CampaignOf[t] \in Campaigns
          /\ receipt'[CampaignOf[t]].sha256 = digest[t]
          /\ receipt'[CampaignOf[t]].status \in {"complete", "verified_existing"}
          /\ \A c \in Campaigns \ {CampaignOf[t]} : receipt'[c] = receipt[c]
      BY <2>0, <2>2, BackfillAssumption DEF Vouch, WriteReceipt, Record, BackfillTypeOK
    <3> QED
      BY <3>1, <3>2, <3>3 DEF ReceiptComplete, Whole, Mine
  <2>3. ASSUME NEW t \in Tasks, WriteCritical(t)
        PROVE  Honest
    BY <2>0, <2>3, BackfillAssumption DEF WriteCritical, BackfillTypeOK
  <2>4. ASSUME NEW t \in Tasks, Progress(t) \/ Fault(t),
               ~ (Vouch(t) \/ WriteReceipt(t) \/ WriteCritical(t))
        PROVE  receipt' = receipt
    BY <2>4
    DEF Progress, Fault, Acquire, Locked, CheckContract, WriteContract, InspectExisting,
        HashExisting, ClearPartial, OpenPartial, AppendDay, ClosePartial, InspectPartial, Publish,
        Discard, Release, Raise, Misjudge, Abort, Kill
  <2> QED
    BY <1>1, <2>1, <2>2, <2>3, <2>4, StepIsSomeones
<1>2. SpecInTurn => [][Honest]_vars
  BY <1>1, BackfillInvariance, PTL DEF SpecInTurn
<1> QED
  BY <1>2 DEF ReceiptsAreTrue

==============================================================================
