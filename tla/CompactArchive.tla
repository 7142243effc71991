---------------------------- MODULE CompactArchive ----------------------------
(***************************************************************************)
(* An analysis campaign (analysis.py): monthly tasks turn each source      *)
(* month into a compact archive with its statistics and a receipt, and     *)
(* promote_compact_archive seals the compact archive as the replacement    *)
(* and deletes the source.                                                 *)
(*                                                                         *)
(* A file is modelled by the version of the source month it was made of:   *)
(* its SHA-256, its decoded digest and its mtime tell versions apart, its  *)
(* byte size need not.  Promotion takes no lock: two calls, tasks and the  *)
(* backfill may run at the same time.  It hashes a source it has opened    *)
(* and asks for size and mtime by name afterwards, and it checks a source  *)
(* and unlinks it by name afterwards, so a month published in between is   *)
(* taken for the one that was checked.                                     *)
(***************************************************************************)
EXTENDS Integers, FiniteSets

CONSTANTS
  Months,        \* the months of the manifest, in order
  Versions,      \* what the source file of a month may hold, oldest first
  Size,          \* the byte size of each version
  Tasks,         \* invocations of run_analysis_task
  Promoters,     \* invocations of promote_compact_archive
  DryRuns,       \* those that may be called without --delete-source
  Fallible,      \* the invocations that may meet a fault; all of them in reality
  Replaceable,   \* the months a rerun of the backfill may replace
  Absent,        \* no such file
  Critical       \* a receipt with ok = false

ASSUME ArchiveAssumption ==
  /\ Months \subseteq Nat /\ Versions \subseteq Nat
  /\ Absent \notin Versions /\ Critical \notin Versions /\ Absent # Critical
  /\ Absent \notin Tasks \cup Promoters /\ Tasks \cap Promoters = {}
  /\ Size \in [Versions -> Nat]
  /\ LET Named == [archive : Versions \cup {Absent}, mtime : Versions \cup {Absent}]
     IN Absent \notin [by : Promoters \cup {Absent}, entries : [Months -> Named]]

VARIABLES
  source,        \* the monthly source archives
  archiveContract,   \* whether the source tree's ARCHIVE_CONTRACT.json exists
  hourly, statistics, compact,   \* the outputs of the monthly task
  receipt,       \* the version an ok receipt vouches for, or Critical
  taskLock,      \* the task holding the lock of a month
  tpc,           \* where each task is
  month,         \* the month of each task
  reading,       \* the version a task has opened
  promotion,     \* COMPACT_ARCHIVE_PROMOTION.json in both roots
  retirement,    \* SOURCE_RETIREMENT.json in both roots
  ppc,           \* where each promoter is
  deleting,      \* its --delete-source
  todo,          \* the months its current loop still has to visit
  claim,         \* the receipt it has read of the month at hand
  sealed,        \* its promotion payload
  record,        \* its retirement payload
  raced          \* history: the versions published inside a promoter's window

tree == <<source, archiveContract>>
outputs == <<hourly, statistics, compact>>
evidence == <<promotion, retirement>>
taskVars == <<taskLock, tpc, month, reading>>
promoterVars == <<ppc, deleting, todo, claim, sealed, record>>
vars == <<tree, outputs, receipt, evidence, taskVars, promoterVars, raced>>

Roots == {"campaign", "output"}
Files == Versions \cup {Absent}
IsFirst(m, S) == \A n \in S : m <= n

TaskProducing == {"check", "hourly", "statistics", "compact", "receipt"}
TaskHolding == TaskProducing \cup {"critical", "unlock"}
TaskOver == {"ended", "dead"}
PromoterWorking == {"inventory", "validate", "open", "measure", "date",
  "sealCampaign", "writeCampaign", "sealOutput", "writeOutput",
  "audit", "delete", "hash", "unlink", "remains",
  "retireCampaign", "writeRetired", "retireOutput", "writeRetiredOutput",
  "confirm"}
PromoterOver == {"returned", "raised", "dead"}

TaskGoto(t, stage) == tpc' = [tpc EXCEPT ![t] = stage]
Goto(q, stage) == ppc' = [ppc EXCEPT ![q] = stage]

\* COMPACT_ARCHIVE_PROMOTION.json: promoted_at tells two of them apart.  An
\* entry has the source_archive evidence of the receipt and source_mtime_ns.
Promotion(q, entries) == [by |-> q, entries |-> entries]
Entry(archive, mtime) == [archive |-> archive, mtime |-> mtime]
NoEntry == Entry(Absent, Absent)
NoEntries == [m \in Months |-> NoEntry]

\* SOURCE_RETIREMENT.json: retired_at, and the hash of the campaign's promotion.
Retirement(q) == [by |-> q, of |-> promotion["campaign"]]

\* _load_retired_source_entries returns entries.
Retired ==
  /\ promotion["campaign"] # Absent /\ promotion["output"] = promotion["campaign"]
  /\ retirement["campaign"] # Absent /\ retirement["output"] = retirement["campaign"]
  /\ retirement["campaign"].of = promotion["campaign"]

\* _receipt_complete with verify_outputs.
ReceiptComplete(m) ==
  /\ receipt[m] \in Versions
  /\ source[m] = Absent => Retired /\ promotion["campaign"].entries[m].archive = receipt[m]
  /\ source[m] # Absent => source[m] = receipt[m]
  /\ {hourly[m], statistics[m], compact[m]} = {receipt[m]}

-----------------------------------------------------------------------------
(* Faulty variants of actions: the mistakes the properties must catch.     *)

\* A month is deleted without comparing it with the sealed evidence.
CheckMonthNever(q) ==
  /\ ppc[q] = "delete"
  /\ \E m \in todo[q] :
       /\ IsFirst(m, todo[q])
       /\ \/ /\ source[m] = Absent
             /\ todo' = [todo EXCEPT ![q] = @ \ {m}] /\ UNCHANGED ppc
          \/ source[m] # Absent /\ Goto(q, "unlink") /\ UNCHANGED todo
  /\ UNCHANGED <<tree, outputs, receipt, evidence, taskVars, deleting, claim,
                 sealed, record, raced>>

\* The retirement is recorded before the source is deleted.
AuditRetiring(q) ==
  /\ ppc[q] = "audit"
  /\ Goto(q, "retireCampaign")
  /\ record' = [record EXCEPT ![q] = Retirement(q)]
  /\ UNCHANGED <<tree, outputs, receipt, evidence, taskVars, deleting, todo,
                 claim, sealed, raced>>

\* A promotion that was begun cannot be continued.
InventoryComplete(q) ==
  archiveContract /\ \A m \in Months : source[m] # Absent

-----------------------------------------------------------------------------
\* Every month is in the source archive and was analysed, or was not yet.
Init ==
  /\ \E first \in Versions :
       /\ \A v \in Versions : first <= v
       /\ source = [m \in Months |-> first]
       /\ receipt \in [Months -> {first, Absent, Critical}]
  /\ compact = [m \in Months |-> IF receipt[m] \in Versions THEN receipt[m] ELSE Absent]
  /\ hourly = compact /\ statistics = compact
  /\ archiveContract = TRUE
  /\ taskLock = [m \in Months |-> Absent]
  /\ tpc = [t \in Tasks |-> "start"]
  /\ month \in [Tasks -> Months]
  /\ reading = [t \in Tasks |-> Absent]
  /\ promotion = [r \in Roots |-> Absent]
  /\ retirement = [r \in Roots |-> Absent]
  /\ ppc = [q \in Promoters |-> "start"]
  /\ deleting \in [Promoters -> BOOLEAN]
  /\ \A q \in Promoters \ DryRuns : deleting[q]
  /\ todo = [q \in Promoters |-> {}]
  /\ claim = [q \in Promoters |-> Absent]
  /\ sealed = [q \in Promoters |-> Promotion(Absent, NoEntries)]
  /\ record = [q \in Promoters |-> Absent]
  /\ raced = [m \in Months |-> {}]

\* A promoter is between the source it has opened, or checked, and what it
\* asks or does by the name of that source next.
InWindow(q, m) ==
  ppc[q] \in {"measure", "date", "unlink"} /\ m \in todo[q] /\ IsFirst(m, todo[q])

\* The backfill publishes a month again, with other bytes than ever before.
Replace(m) ==
  /\ m \in Replaceable /\ source[m] # Absent
  /\ \E v \in Versions :
       /\ v > source[m] /\ source' = [source EXCEPT ![m] = v]
       /\ raced' = IF \E q \in Promoters : InWindow(q, m)
                   THEN [raced EXCEPT ![m] = @ \cup {v}] ELSE raced
  /\ UNCHANGED <<archiveContract, outputs, receipt, evidence, taskVars,
                 promoterVars>>

-----------------------------------------------------------------------------
(* run_analysis_task.                                                      *)

TaskAcquire(t) ==
  /\ tpc[t] = "start" /\ taskLock[month[t]] = Absent
  /\ taskLock' = [taskLock EXCEPT ![month[t]] = t]
  /\ TaskGoto(t, "check")
  /\ UNCHANGED <<tree, outputs, receipt, evidence, month, reading, promoterVars, raced>>

TaskLocked(t) ==
  /\ tpc[t] = "start" /\ taskLock[month[t]] # Absent
  /\ TaskGoto(t, "ended")
  /\ UNCHANGED <<tree, outputs, receipt, evidence, taskLock, month, reading,
                 promoterVars, raced>>

\* A verified receipt ends the task; without it the source is needed.
TaskCheck(t) ==
  /\ tpc[t] = "check"
  /\ \/ /\ ReceiptComplete(month[t])
        /\ TaskGoto(t, "unlock") /\ UNCHANGED reading
     \/ /\ ~ReceiptComplete(month[t]) /\ source[month[t]] = Absent
        /\ TaskGoto(t, "critical") /\ UNCHANGED reading
     \/ /\ ~ReceiptComplete(month[t]) /\ source[month[t]] # Absent
        /\ reading' = [reading EXCEPT ![t] = source[month[t]]]
        /\ TaskGoto(t, "hourly")
  /\ UNCHANGED <<tree, outputs, receipt, evidence, taskLock, month, promoterVars, raced>>

WriteHourly(t) ==
  /\ tpc[t] = "hourly" /\ TaskGoto(t, "statistics")
  /\ hourly' = [hourly EXCEPT ![month[t]] = reading[t]]
  /\ UNCHANGED <<tree, statistics, compact, receipt, evidence, taskLock, month,
                 reading, promoterVars, raced>>

WriteStatistics(t) ==
  /\ tpc[t] = "statistics" /\ TaskGoto(t, "compact")
  /\ statistics' = [statistics EXCEPT ![month[t]] = reading[t]]
  /\ UNCHANGED <<tree, hourly, compact, receipt, evidence, taskLock, month,
                 reading, promoterVars, raced>>

PublishCompact(t) ==
  /\ tpc[t] = "compact" /\ TaskGoto(t, "receipt")
  /\ compact' = [compact EXCEPT ![month[t]] = reading[t]]
  /\ UNCHANGED <<tree, hourly, statistics, receipt, evidence, taskLock, month,
                 reading, promoterVars, raced>>

\* The receipt records source_path.stat(), which raises once the file is gone.
\* A receipt with the size of another version agrees with no source, like a
\* critical one.
WriteReceipt(t) ==
  /\ tpc[t] = "receipt"
  /\ IF source[month[t]] = Absent
     THEN TaskGoto(t, "critical") /\ UNCHANGED receipt
     ELSE /\ receipt' = [receipt EXCEPT ![month[t]] =
               IF Size[source[month[t]]] = Size[reading[t]] THEN reading[t] ELSE Critical]
          /\ TaskGoto(t, "unlock")
  /\ UNCHANGED <<tree, outputs, evidence, taskLock, month, reading, promoterVars, raced>>

\* The except branch.
WriteCritical(t) ==
  /\ tpc[t] = "critical" /\ TaskGoto(t, "unlock")
  /\ receipt' = [receipt EXCEPT ![month[t]] = Critical]
  /\ UNCHANGED <<tree, outputs, evidence, taskLock, month, reading, promoterVars, raced>>

TaskRelease(t) ==
  /\ tpc[t] = "unlock" /\ TaskGoto(t, "ended")
  /\ taskLock' = [taskLock EXCEPT ![month[t]] = Absent]
  /\ UNCHANGED <<tree, outputs, receipt, evidence, month, reading, promoterVars, raced>>

\* A message that fails validation, an unwritable file.
TaskRaises(t) ==
  /\ tpc[t] \in TaskProducing /\ TaskGoto(t, "critical")
  /\ UNCHANGED <<tree, outputs, receipt, evidence, taskLock, month, reading,
                 promoterVars, raced>>

\* _receipt_complete answers False to every error it meets, so a month whose
\* outputs cannot be read for a moment is analysed again.
TaskMisjudges(t) ==
  /\ tpc[t] = "check" /\ source[month[t]] # Absent /\ TaskGoto(t, "hourly")
  /\ reading' = [reading EXCEPT ![t] = source[month[t]]]
  /\ UNCHANGED <<tree, outputs, receipt, evidence, taskLock, month, promoterVars, raced>>

\* An interrupt, or a receipt that cannot be written.
TaskAborts(t) ==
  /\ tpc[t] \in TaskProducing \cup {"critical"} /\ TaskGoto(t, "unlock")
  /\ UNCHANGED <<tree, outputs, receipt, evidence, taskLock, month, reading,
                 promoterVars, raced>>

TaskKilled(t) ==
  /\ tpc[t] \in TaskHolding /\ TaskGoto(t, "dead")
  /\ taskLock' = [taskLock EXCEPT ![month[t]] = Absent]
  /\ UNCHANGED <<tree, outputs, receipt, evidence, month, reading, promoterVars, raced>>

-----------------------------------------------------------------------------
(* promote_compact_archive: seal.                                          *)

rest == <<outputs, receipt, taskVars, deleting, raced>>

\* An existing promotion must be the same in both roots and is taken over.
BeginPromotion(q) ==
  /\ ppc[q] = "start"
  /\ LET found == {promotion[r] : r \in Roots} \ {Absent}
     IN IF Cardinality(found) > 1
        THEN Goto(q, "raised") /\ UNCHANGED sealed
        ELSE /\ sealed' = [sealed EXCEPT ![q] =
                  IF found = {} THEN Promotion(Absent, NoEntries)
                  ELSE CHOOSE p \in found : TRUE]
             /\ Goto(q, "inventory")
  /\ UNCHANGED <<tree, evidence, rest, todo, claim, record>>

\* Without a promotion the source tree has to be complete.
InventoryAllowed(q) ==
  sealed[q].by = Absent => archiveContract /\ \A m \in Months : source[m] # Absent

TakeInventory(q) ==
  /\ ppc[q] = "inventory"
  /\ IF InventoryAllowed(q)
     THEN Goto(q, "validate") /\ todo' = [todo EXCEPT ![q] = Months]
     ELSE Goto(q, "raised") /\ UNCHANGED todo
  /\ UNCHANGED <<tree, evidence, rest, claim, sealed, record>>

\* Receipt and outputs agree.  The code looks at them one after the other; as
\* tasks only ever go forward, outputs that agree with a receipt read before
\* agreed with it when it was read.
EvidenceAgrees(m) ==
  receipt[m] \in Versions /\ {hourly[m], statistics[m], compact[m]} = {receipt[m]}

ReadEvidence(q) ==
  /\ ppc[q] = "validate"
  /\ \E m \in todo[q] :
       /\ IsFirst(m, todo[q])
       /\ IF EvidenceAgrees(m)
          THEN Goto(q, "open") /\ claim' = [claim EXCEPT ![q] = receipt[m]]
          ELSE Goto(q, "raised") /\ UNCHANGED claim
  /\ UNCHANGED <<tree, evidence, rest, todo, sealed, record>>

\* The version that is opened is the one that is hashed.  A source that is gone
\* has to be sealed already.
OpenSource(q) ==
  /\ ppc[q] = "open"
  /\ \E m \in todo[q] :
       /\ IsFirst(m, todo[q])
       /\ \/ /\ source[m] = Absent /\ sealed[q].entries[m].archive = claim[q]
             /\ todo' = [todo EXCEPT ![q] = @ \ {m}] /\ Goto(q, "validate")
          \/ /\ source[m] = Absent /\ sealed[q].entries[m].archive # claim[q]
             /\ Goto(q, "raised") /\ UNCHANGED todo
          \/ /\ source[m] # Absent /\ UNCHANGED todo
             /\ Goto(q, IF source[m] = claim[q] THEN "measure" ELSE "raised")
  /\ UNCHANGED <<tree, evidence, rest, claim, sealed, record>>

\* path.stat().st_size, once the hash is known.
MeasureSource(q) ==
  /\ ppc[q] = "measure"
  /\ \E m \in todo[q] :
       /\ IsFirst(m, todo[q])
       /\ Goto(q, IF source[m] # Absent /\ Size[source[m]] = Size[claim[q]]
                  THEN "date" ELSE "raised")
  /\ UNCHANGED <<tree, evidence, rest, todo, claim, sealed, record>>

\* path.stat().st_mtime_ns, and the entry, which must be the one sealed before.
\* The entries of a promotion made now are gathered month by month.
DateSource(q) ==
  /\ ppc[q] = "date"
  /\ \E m \in todo[q] :
       LET entry == Entry(claim[q], source[m])
       IN /\ IsFirst(m, todo[q])
          /\ IF /\ source[m] # Absent
                /\ sealed[q].by # Absent => sealed[q].entries[m] = entry
             THEN /\ todo' = [todo EXCEPT ![q] = @ \ {m}]
                  /\ sealed' = [sealed EXCEPT ![q].entries[m] = entry]
                  /\ Goto(q, "validate")
             ELSE Goto(q, "raised") /\ UNCHANGED <<todo, sealed>>
  /\ UNCHANGED <<tree, evidence, rest, claim, record>>

Validated(q) ==
  /\ ppc[q] = "validate" /\ todo[q] = {}
  /\ sealed' = [sealed EXCEPT ![q].by = IF @ = Absent THEN q ELSE @]
  /\ Goto(q, "sealCampaign")
  /\ UNCHANGED <<tree, evidence, rest, todo, claim, record>>

\* _write_immutable_json looks for the file first and replaces it afterwards.
CheckImmutable(q, present, payload, here, write, next) ==
  /\ ppc[q] = here
  /\ Goto(q, IF present = Absent THEN write
             ELSE IF present = payload THEN next ELSE "raised")
  /\ UNCHANGED <<tree, evidence, rest, todo, claim, sealed, record>>

WriteSeal(q, root, here, next) ==
  /\ ppc[q] = here /\ Goto(q, next)
  /\ promotion' = [promotion EXCEPT ![root] = sealed[q]]
  /\ UNCHANGED <<tree, retirement, rest, todo, claim, sealed, record>>

Seal(q) ==
  \/ CheckImmutable(q, promotion["campaign"], sealed[q],
                    "sealCampaign", "writeCampaign", "sealOutput")
  \/ WriteSeal(q, "campaign", "writeCampaign", "sealOutput")
  \/ CheckImmutable(q, promotion["output"], sealed[q],
                    "sealOutput", "writeOutput", "audit")
  \/ WriteSeal(q, "output", "writeOutput", "audit")

-----------------------------------------------------------------------------
(* promote_compact_archive: delete the source and record the retirement.   *)

SourceEmpty == ~archiveContract /\ \A m \in Months : source[m] = Absent

\* Without --delete-source, or when it was retired before, this is the end.
Audit(q) ==
  /\ ppc[q] = "audit"
  /\ IF ~deleting[q] \/ (Retired /\ SourceEmpty)
     THEN Goto(q, "returned") /\ UNCHANGED todo
     ELSE IF Retired
     THEN Goto(q, "raised") /\ UNCHANGED todo
     ELSE Goto(q, "delete") /\ todo' = [todo EXCEPT ![q] = Months]
  /\ UNCHANGED <<tree, evidence, rest, claim, sealed, record>>

\* exists, then stat: the size is compared, and the hash asked for only when
\* the mtime differs.
CheckMonth(q) ==
  /\ ppc[q] = "delete"
  /\ \E m \in todo[q] :
       LET entry == sealed[q].entries[m]
       IN /\ IsFirst(m, todo[q])
          /\ \/ /\ source[m] = Absent
                /\ todo' = [todo EXCEPT ![q] = @ \ {m}] /\ UNCHANGED ppc
             \/ /\ source[m] # Absent /\ UNCHANGED todo
                /\ Goto(q, IF Size[source[m]] # Size[entry.archive] THEN "raised"
                           ELSE IF source[m] = entry.mtime THEN "unlink" ELSE "hash")
  /\ UNCHANGED <<tree, evidence, rest, claim, sealed, record>>

HashMonth(q) ==
  /\ ppc[q] = "hash"
  /\ \E m \in todo[q] :
       /\ IsFirst(m, todo[q])
       /\ Goto(q, IF source[m] = sealed[q].entries[m].archive THEN "unlink" ELSE "raised")
  /\ UNCHANGED <<tree, evidence, rest, todo, claim, sealed, record>>

\* Whatever has the name by then is deleted.
UnlinkMonth(q) ==
  /\ ppc[q] = "unlink"
  /\ \E m \in todo[q] :
       /\ IsFirst(m, todo[q])
       /\ IF source[m] = Absent
          THEN Goto(q, "raised") /\ UNCHANGED <<source, todo>>
          ELSE /\ source' = [source EXCEPT ![m] = Absent]
               /\ todo' = [todo EXCEPT ![q] = @ \ {m}] /\ Goto(q, "delete")
  /\ UNCHANGED <<archiveContract, evidence, rest, claim, sealed, record>>

\* The contract is compared with its sealed evidence first; nothing rewrites it,
\* so the comparison fails only when it cannot be made (PromoterRaises).
DeleteContract(q) ==
  /\ ppc[q] = "delete" /\ todo[q] = {}
  /\ archiveContract' = FALSE /\ Goto(q, "remains")
  /\ UNCHANGED <<source, evidence, rest, todo, claim, sealed, record>>

\* The record is built anew by every call, with its own retired_at.
CheckRemains(q) ==
  /\ ppc[q] = "remains"
  /\ Goto(q, IF SourceEmpty THEN "retireCampaign" ELSE "raised")
  /\ record' = [record EXCEPT ![q] = Retirement(q)]
  /\ UNCHANGED <<tree, evidence, rest, todo, claim, sealed>>

WriteRetirement(q, root, here, next) ==
  /\ ppc[q] = here /\ Goto(q, next)
  /\ retirement' = [retirement EXCEPT ![root] = record[q]]
  /\ UNCHANGED <<tree, promotion, rest, todo, claim, sealed, record>>

Retire(q) ==
  \/ CheckImmutable(q, retirement["campaign"], record[q],
                    "retireCampaign", "writeRetired", "retireOutput")
  \/ WriteRetirement(q, "campaign", "writeRetired", "retireOutput")
  \/ CheckImmutable(q, retirement["output"], record[q],
                    "retireOutput", "writeRetiredOutput", "confirm")
  \/ WriteRetirement(q, "output", "writeRetiredOutput", "confirm")

Confirm(q) ==
  /\ ppc[q] = "confirm"
  /\ Goto(q, IF Retired THEN "returned" ELSE "raised")
  /\ UNCHANGED <<tree, evidence, rest, todo, claim, sealed, record>>

\* Any read, hash or write may fail; nothing is undone.  A reduction product
\* that is not what its receipt says ends the call before anything else.
PromoterRaises(q) ==
  /\ ppc[q] \in PromoterWorking \cup {"start"} /\ Goto(q, "raised")
  /\ UNCHANGED <<tree, evidence, rest, todo, claim, sealed, record>>

PromoterKilled(q) ==
  /\ ppc[q] \in PromoterWorking /\ Goto(q, "dead")
  /\ UNCHANGED <<tree, evidence, rest, todo, claim, sealed, record>>

-----------------------------------------------------------------------------
TaskStep(t) ==
  \/ TaskAcquire(t) \/ TaskLocked(t) \/ TaskCheck(t) \/ WriteHourly(t)
  \/ WriteStatistics(t) \/ PublishCompact(t) \/ WriteReceipt(t)
  \/ WriteCritical(t) \/ TaskRelease(t)

TaskFault(t) ==
  TaskMisjudges(t) \/ TaskRaises(t) \/ TaskAborts(t) \/ TaskKilled(t)

Promote(q) ==
  \/ BeginPromotion(q) \/ TakeInventory(q) \/ ReadEvidence(q) \/ OpenSource(q)
  \/ MeasureSource(q) \/ DateSource(q) \/ Validated(q) \/ Seal(q) \/ Audit(q)
  \/ CheckMonth(q) \/ HashMonth(q) \/ UnlinkMonth(q) \/ DeleteContract(q)
  \/ CheckRemains(q) \/ Retire(q) \/ Confirm(q)

PromoterFault(q) == PromoterRaises(q) \/ PromoterKilled(q)

AllOver ==
  /\ \A t \in Tasks : tpc[t] \in TaskOver
  /\ \A q \in Promoters : ppc[q] \in PromoterOver
  /\ UNCHANGED vars

Next ==
  \/ \E t \in Tasks : TaskStep(t) \/ (t \in Fallible /\ TaskFault(t))
  \/ \E q \in Promoters : Promote(q) \/ (q \in Fallible /\ PromoterFault(q))
  \/ \E m \in Months : Replace(m)
  \/ AllOver

Spec == Init /\ [][Next]_vars

\* An invocation that is not killed keeps executing.
FairSpec ==
  /\ Spec
  /\ \A t \in Tasks : WF_vars(TaskStep(t))
  /\ \A q \in Promoters : WF_vars(Promote(q))

\* Promotion is a command an operator starts by hand, one at a time.
PromotionsInTurn ==
  \A q \in Promoters : ppc[q] = "start" /\ ppc'[q] # "start" =>
    \A p \in Promoters : ppc[p] \notin PromoterWorking

SpecInTurn == Init /\ [][Next /\ PromotionsInTurn]_vars

-----------------------------------------------------------------------------
(* Properties.                                                             *)

Entries == [archive : Files, mtime : Files]
Payloads == [by : Promoters \cup {Absent}, entries : [Months -> Entries]]

TypeOK ==
  /\ source \in [Months -> Files] /\ archiveContract \in BOOLEAN
  /\ hourly \in [Months -> Files] /\ statistics \in [Months -> Files]
  /\ compact \in [Months -> Files]
  /\ receipt \in [Months -> Files \cup {Critical}]
  /\ taskLock \in [Months -> Tasks \cup {Absent}]
  /\ tpc \in [Tasks -> TaskHolding \cup TaskOver \cup {"start"}]
  /\ month \in [Tasks -> Months] /\ reading \in [Tasks -> Files]
  /\ promotion \in [Roots -> Payloads \cup {Absent}]
  /\ retirement \in [Roots -> [by : Promoters, of : Payloads \cup {Absent}] \cup {Absent}]
  /\ ppc \in [Promoters -> PromoterWorking \cup PromoterOver \cup {"start"}]
  /\ deleting \in [Promoters -> BOOLEAN]
  /\ todo \in [Promoters -> SUBSET Months] /\ claim \in [Promoters -> Files]
  /\ sealed \in [Promoters -> Payloads]
  /\ record \in [Promoters -> [by : Promoters, of : Payloads \cup {Absent}] \cup {Absent}]
  /\ raced \in [Months -> SUBSET Versions]

\* What is deleted is in the compact archive, and stays there: no task, however
\* late, and no other promotion overwrites it.  Only a version published inside
\* the window of a promotion can be deleted without, or overwrite it.
CompactOutlivesSource ==
  [][\A m \in Months :
       /\ source[m] # Absent /\ source'[m] = Absent =>
            compact[m] = source[m] \/ source[m] \in raced[m]
       /\ source[m] = Absent => compact'[m] \in {compact[m]} \cup raced[m]]_vars

\* What status reports as retired is gone from the source and kept elsewhere,
\* as it was sealed or, published inside a window, in a newer version.
RetiredMeansGone ==
  Retired =>
    /\ SourceEmpty
    /\ \A m \in Months :
         compact[m] \in {promotion["campaign"].entries[m].archive} \cup raced[m]

\* docs/science-and-architecture.md: "Source retirement unlinks only those exact
\* sealed archives".  The code deletes a version published inside a window.
OnlySealedIsDeleted ==
  [][\A m \in Months : source[m] # Absent /\ source'[m] = Absent =>
       \E q \in Promoters :
         ppc[q] = "unlink" /\ source[m] = sealed[q].entries[m].archive]_vars

\* After any interruption that left no retirement record, an undisturbed call
\* with --delete-source over a consistent campaign retires the source, unless
\* the backfill replaces a month under it.
Consistent(q) ==
  /\ promotion["output"] \in {Absent, promotion["campaign"]}
  /\ promotion["campaign"] = Absent => archiveContract
  /\ \A m \in Months :
       /\ receipt[m] \in Versions
       /\ {hourly[m], statistics[m], compact[m]} = {receipt[m]}
       /\ source[m] = receipt[m] \/ (source[m] = Absent /\ promotion["campaign"] # Absent)
       /\ promotion["campaign"] # Absent => promotion["campaign"].entries[m].archive = receipt[m]

Undisturbed(q) ==
  /\ ppc[q] = "start" /\ deleting[q] /\ Consistent(q)
  /\ \A t \in Tasks : tpc[t] \in TaskOver
  /\ \A p \in Promoters \ {q} : ppc[p] \in PromoterOver

Outdated == \E m \in Months : source[m] \notin {Absent, receipt[m]}

RetirementContinues ==
  \A q \in Promoters \ Fallible :
    Undisturbed(q) /\ (\A r \in Roots : retirement[r] = Absent)
      ~> Retired \/ Outdated

\* docs/release-and-operations.md: "If interrupted, rerunning validates the
\* remaining files against the sealed evidence and continues".
RetirementAlwaysContinues ==
  \A q \in Promoters \ Fallible : Undisturbed(q) ~> Retired \/ Outdated

-----------------------------------------------------------------------------
(* The inductive strengthening the proofs use.                             *)

TaskReading == TaskProducing \ {"check"}

LockInv == \A t \in Tasks : tpc[t] \in TaskHolding => taskLock[month[t]] = t

\* A task reads no version newer than the source nor older than the compact
\* archive; once the source is gone it reads what that archive holds, or a
\* version that slipped into a window.
ReaderInv == \A t \in Tasks : tpc[t] \in TaskReading =>
  /\ reading[t] \in Versions
  /\ source[month[t]] # Absent => reading[t] <= source[month[t]]
  /\ source[month[t]] = Absent => reading[t] \in {compact[month[t]]} \cup raced[month[t]]
  /\ compact[month[t]] # Absent => compact[month[t]] <= reading[t]

CompactInv == \A m \in Months :
  compact[m] # Absent /\ source[m] # Absent => compact[m] <= source[m]

\* The compact archive is not behind version a.
Reached(a, m) == a \in Versions /\ compact[m] # Absent /\ a <= compact[m]

\* Everything the source, the archive and whoever is about to rewrite it hold
\* is version a, or slipped into a window.
Loose(a, m) ==
  /\ Reached(a, m)
  /\ {source[m], compact[m]} \subseteq {a} \cup raced[m]
  /\ \A t \in Tasks : tpc[t] \in TaskReading /\ month[t] = m =>
       reading[t] \in {a} \cup raced[m]

\* What an entry of a promotion says of a source that is still there.
Vouched(e, m) == e # NoEntry /\ source[m] # Absent =>
  /\ Reached(e.archive, m)
  /\ e.mtime \in Versions /\ e.archive <= e.mtime /\ e.mtime <= source[m]
  /\ e.mtime = source[m] => Loose(e.archive, m)

SealedInv == \A m \in Months, q \in Promoters : Vouched(sealed[q].entries[m], m)

PromotionInv == \A m \in Months, r \in Roots :
  promotion[r] # Absent => Vouched(promotion[r].entries[m], m)

\* What a promoter knows of the month at hand, inside a window and before.
WindowInv == \A q \in Promoters : \A m \in todo[q] : IsFirst(m, todo[q]) =>
  /\ ppc[q] \in {"open", "measure", "date"} => Reached(claim[q], m)
  /\ ppc[q] \in {"measure", "date"} /\ source[m] # Absent => Loose(claim[q], m)
  /\ ppc[q] = "unlink" /\ source[m] # Absent => Loose(sealed[q].entries[m].archive, m)

Inv ==
  /\ TypeOK /\ LockInv /\ ReaderInv /\ CompactInv /\ SealedInv /\ PromotionInv
  /\ WindowInv

-----------------------------------------------------------------------------
(* What holds besides when promotions take turns.                          *)

OnePromoter == \A p, q \in Promoters :
  ppc[p] \in PromoterWorking /\ ppc[q] \in PromoterWorking => p = q

\* A promotion is sealed once and for all, in the campaign first: who finds it
\* works for that one, whoever made it, and who finds none makes its own.
Validating == {"inventory", "validate", "open", "measure", "date"}
Sealing == Validating \cup {"sealCampaign", "writeCampaign", "sealOutput", "writeOutput"}

SealOf(q) ==
  /\ ppc[q] \in Validating =>
       IF promotion["campaign"] = Absent THEN sealed[q].by = Absent
       ELSE sealed[q] = promotion["campaign"]
  /\ ppc[q] \in PromoterWorking \ Validating => sealed[q].by # Absent
  /\ ppc[q] = "sealCampaign" => promotion["campaign"] \in {Absent, sealed[q]}
  /\ ppc[q] = "writeCampaign" => promotion["campaign"] = Absent
  /\ ppc[q] \in {"sealOutput", "writeOutput"} => promotion["campaign"] = sealed[q]
  /\ ppc[q] = "writeOutput" => promotion["output"] = Absent
  /\ ppc[q] \in PromoterWorking \ Sealing => \A r \in Roots : promotion[r] = sealed[q]

SealInv ==
  /\ promotion["output"] \in {Absent, promotion["campaign"]}
  /\ \A r \in Roots : promotion[r] # Absent => promotion[r].by # Absent
  /\ \A q \in Promoters : SealOf(q)

\* A month is gone only under a promotion both roots have, which names the
\* version the compact archive holds, unless one slipped into a window.
GoneInv == \A m \in Months : source[m] = Absent =>
  /\ promotion["campaign"] # Absent /\ promotion["output"] = promotion["campaign"]
  /\ compact[m] \in {promotion["campaign"].entries[m].archive} \cup raced[m]

\* Nobody speaks of a retirement before the source is empty.
Retiring == {"retireCampaign", "writeRetired", "retireOutput", "writeRetiredOutput"}
RetiringInv ==
  /\ \A q \in Promoters : ppc[q] \in Retiring => SourceEmpty
  /\ \A r \in Roots : retirement[r] # Absent => SourceEmpty

TurnInv == Inv /\ OnePromoter /\ SealInv /\ GoneInv /\ RetiringInv
=============================================================================
