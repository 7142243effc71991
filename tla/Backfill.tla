------------------------------- MODULE Backfill -------------------------------
(***************************************************************************)
(* One month of a reanalysis backfill (backfill.py): run_manifest_task     *)
(* processes the days of the month one after the other, appends each to    *)
(* the hidden .partial file beside the archive, inspects the whole and     *)
(* renames it.  The archive root may serve several campaigns; each has its *)
(* own manifest, receipts and locks.                                       *)
(*                                                                         *)
(* A path names an inode, an open file keeps its inode: unlinking or       *)
(* renaming .partial does not stop who has it open.  An inode is named     *)
(* after the invocation that created it.  Its content says, per day, which *)
(* invocation the messages of that day come from.                          *)
(***************************************************************************)
EXTENDS Integers, FiniteSets

CONSTANTS
  Campaigns,     \* control directories
  Manifest,      \* of each: the algorithm and the days it selected
  Days,          \* the days of the month, in order
  Tasks,         \* invocations of run_manifest_task for this month
  CampaignOf,    \* the campaign of each invocation
  Fallible,      \* the invocations that may meet a fault; all of them in reality
  Absent         \* no such file

ASSUME BackfillAssumption ==
  /\ Days \subseteq Nat
  /\ CampaignOf \in [Tasks -> Campaigns]
  /\ \A c \in Campaigns : Manifest[c].days \subseteq Days /\ Manifest[c].days # {}
  /\ Absent \notin Tasks /\ \A c \in Campaigns : Manifest[c] # Absent
  /\ Fallible \subseteq Tasks

VARIABLES
  contract,      \* ARCHIVE_CONTRACT.json
  content,       \* what each inode holds
  partial,       \* the inode .partial names
  archive,       \* the inode the monthly archive names
  receipt,       \* of each campaign
  lock,          \* the invocation holding a campaign's lock of the month
  stage,         \* where each invocation is
  handle,        \* the inode it has open
  todo,          \* the days it still has to append
  digest         \* what its running SHA-256 has been fed with

files == <<content, partial, archive>>
locals == <<handle, todo, digest>>
vars == <<contract, files, receipt, lock, stage, locals>>

Nothing == [d \in Days |-> Absent]
Writing == {"day", "inspect"}
Trying == {"contract", "writeContract", "existing", "hash", "vouch", "clear",
           "open", "publish", "receipt"} \cup Writing
Failing == {"discard", "critical"}
Holding == Trying \cup Failing \cup {"unlock"}
Over == {"ended", "dead"}

Mine(t) == Manifest[CampaignOf[t]]
Goto(t, where) == stage' = [stage EXCEPT ![t] = where]
IsFirst(d, S) == \A e \in S : d <= e

\* _inspect_monthly_archive: exactly the messages of the manifest.
Whole(inode, manifest) == {d \in Days : content[inode][d] # Absent} = manifest.days

\* _archive_receipt_complete with verify_outputs.
ReceiptComplete(c) ==
  /\ receipt[c].status \in {"complete", "verified_existing"} /\ archive # Absent
  /\ Whole(archive, Manifest[c]) /\ receipt[c].sha256 = content[archive]

-----------------------------------------------------------------------------
(* Faulty variants of actions: the mistakes the properties must catch.     *)

\* The task starts without asking for the lock.
AcquireUnlocked(t) ==
  /\ stage[t] = "start"
  /\ lock' = [lock EXCEPT ![CampaignOf[t]] = t] /\ Goto(t, "contract")
  /\ UNCHANGED <<contract, files, receipt, locals>>

\* Any contract will do.
CheckContractPresent(t) ==
  /\ stage[t] = "contract"
  /\ Goto(t, IF contract = Absent THEN "writeContract" ELSE "existing")
  /\ UNCHANGED <<contract, files, receipt, lock, locals>>

\* A leftover .partial stops the month for good.
ClearPartialOnce(t) ==
  /\ stage[t] = "clear"
  /\ Goto(t, IF partial = Absent THEN "open" ELSE "critical")
  /\ UNCHANGED <<contract, files, receipt, lock, locals>>

\* The receipt is written before the archive is in place.
InspectUnpublished(t) ==
  /\ stage[t] = "inspect" /\ todo[t] = {}
  /\ Goto(t, IF partial # Absent /\ Whole(partial, Mine(t)) THEN "receipt" ELSE "discard")
  /\ UNCHANGED <<contract, files, receipt, lock, locals>>

-----------------------------------------------------------------------------
Init ==
  /\ contract = Absent /\ content = [i \in Tasks |-> Nothing]
  /\ partial = Absent /\ archive = Absent
  /\ receipt = [c \in Campaigns |-> [status |-> "none", sha256 |-> Nothing]]
  /\ lock = [c \in Campaigns |-> Absent]
  /\ stage = [t \in Tasks |-> "start"]
  /\ handle = [t \in Tasks |-> Absent]
  /\ todo = [t \in Tasks |-> {}]
  /\ digest = [t \in Tasks |-> Nothing]

Acquire(t) ==
  /\ stage[t] = "start" /\ lock[CampaignOf[t]] = Absent
  /\ lock' = [lock EXCEPT ![CampaignOf[t]] = t] /\ Goto(t, "contract")
  /\ UNCHANGED <<contract, files, receipt, locals>>

Locked(t) ==
  /\ stage[t] = "start" /\ lock[CampaignOf[t]] # Absent
  /\ Goto(t, "ended")
  /\ UNCHANGED <<contract, files, receipt, lock, locals>>

\* _ensure_archive_contract looks, and writes later.
CheckContract(t) ==
  /\ stage[t] = "contract"
  /\ Goto(t, IF contract = Absent THEN "writeContract"
             ELSE IF contract = Mine(t) THEN "existing" ELSE "discard")
  /\ UNCHANGED <<contract, files, receipt, lock, locals>>

WriteContract(t) ==
  /\ stage[t] = "writeContract" /\ Goto(t, "existing")
  /\ contract' = Mine(t)
  /\ UNCHANGED <<files, receipt, lock, locals>>

\* A whole archive is accepted, whoever made it.
InspectExisting(t) ==
  /\ stage[t] = "existing"
  /\ IF archive # Absent /\ Whole(archive, Mine(t))
     THEN partial' = Absent /\ Goto(t, "hash")
     ELSE UNCHANGED partial /\ Goto(t, "clear")
  /\ UNCHANGED <<contract, content, archive, receipt, lock, locals>>

HashExisting(t) ==
  /\ stage[t] = "hash" /\ Goto(t, "vouch")
  /\ digest' = [digest EXCEPT ![t] = content[archive]]
  /\ UNCHANGED <<contract, files, receipt, lock, handle, todo>>

Record(t, status) ==
  receipt' = [receipt EXCEPT ![CampaignOf[t]] =
                [status |-> status, sha256 |-> digest[t]]]

Vouch(t) ==
  /\ stage[t] = "vouch" /\ Goto(t, "unlock") /\ Record(t, "verified_existing")
  /\ UNCHANGED <<contract, files, lock, locals>>

ClearPartial(t) ==
  /\ stage[t] = "clear" /\ Goto(t, "open") /\ partial' = Absent
  /\ UNCHANGED <<contract, content, archive, receipt, lock, locals>>

\* open("wb") creates the file, or truncates what it finds.
OpenPartial(t) ==
  /\ stage[t] = "open" /\ Goto(t, "day")
  /\ LET inode == IF partial = Absent THEN t ELSE partial
     IN /\ partial' = inode
        /\ handle' = [handle EXCEPT ![t] = inode]
        /\ content' = [content EXCEPT ![inode] = Nothing]
  /\ todo' = [todo EXCEPT ![t] = Mine(t).days]
  /\ digest' = [digest EXCEPT ![t] = Nothing]
  /\ UNCHANGED <<contract, archive, receipt, lock>>

\* run_operational for one day, and its messages appended in order.
AppendDay(t) ==
  /\ stage[t] = "day"
  /\ \E d \in todo[t] :
       /\ IsFirst(d, todo[t])
       /\ content' = [content EXCEPT ![handle[t]][d] = t]
       /\ digest' = [digest EXCEPT ![t][d] = t]
       /\ todo' = [todo EXCEPT ![t] = @ \ {d}]
  /\ UNCHANGED <<contract, partial, archive, receipt, lock, stage, handle>>

ClosePartial(t) ==
  /\ stage[t] = "day" /\ todo[t] = {} /\ Goto(t, "inspect")
  /\ UNCHANGED <<contract, files, receipt, lock, locals>>

\* Both inspection and rename go by the name again.
InspectPartial(t) ==
  /\ stage[t] = "inspect"
  /\ Goto(t, IF partial # Absent /\ Whole(partial, Mine(t)) THEN "publish" ELSE "discard")
  /\ UNCHANGED <<contract, files, receipt, lock, locals>>

Publish(t) ==
  /\ stage[t] = "publish"
  /\ IF partial = Absent
     THEN Goto(t, "discard") /\ UNCHANGED <<partial, archive>>
     ELSE Goto(t, "receipt") /\ archive' = partial /\ partial' = Absent
  /\ UNCHANGED <<contract, content, receipt, lock, locals>>

WriteReceipt(t) ==
  /\ stage[t] = "receipt" /\ Goto(t, "unlock") /\ Record(t, "complete")
  /\ UNCHANGED <<contract, files, lock, locals>>

\* The except branch: .partial goes, whoever owns it, also when it was the
\* contract that did not match.
Discard(t) ==
  /\ stage[t] = "discard" /\ Goto(t, "critical") /\ partial' = Absent
  /\ UNCHANGED <<contract, content, archive, receipt, lock, locals>>

WriteCritical(t) ==
  /\ stage[t] = "critical" /\ Goto(t, "unlock")
  /\ receipt' = [receipt EXCEPT ![CampaignOf[t]] =
                   [status |-> "critical", sha256 |-> Nothing]]
  /\ UNCHANGED <<contract, files, lock, locals>>

Release(t) ==
  /\ stage[t] = "unlock" /\ Goto(t, "ended")
  /\ lock' = [lock EXCEPT ![CampaignOf[t]] = Absent]
  /\ UNCHANGED <<contract, files, receipt, locals>>

\* A day that fails or is not verified, an unwritable file, a temporary
\* directory that cannot be removed after the archive was published.
Raise(t) ==
  /\ stage[t] \in Trying /\ Goto(t, "discard")
  /\ UNCHANGED <<contract, files, receipt, lock, locals>>

\* The error of an inspection is taken for an incomplete archive.
Misjudge(t) ==
  /\ stage[t] = "existing" /\ archive # Absent /\ Goto(t, "clear")
  /\ UNCHANGED <<contract, files, receipt, lock, locals>>

\* An interrupt, or an except branch that fails itself.
Abort(t) ==
  /\ stage[t] \in Trying \cup Failing /\ Goto(t, "unlock")
  /\ UNCHANGED <<contract, files, receipt, lock, locals>>

Kill(t) ==
  /\ stage[t] \in Holding /\ Goto(t, "dead")
  /\ lock' = [lock EXCEPT ![CampaignOf[t]] = Absent]
  /\ UNCHANGED <<contract, files, receipt, locals>>

-----------------------------------------------------------------------------
Progress(t) ==
  \/ Acquire(t) \/ Locked(t) \/ CheckContract(t) \/ WriteContract(t)
  \/ InspectExisting(t) \/ HashExisting(t) \/ Vouch(t) \/ ClearPartial(t)
  \/ OpenPartial(t) \/ AppendDay(t) \/ ClosePartial(t) \/ InspectPartial(t)
  \/ Publish(t) \/ WriteReceipt(t) \/ Discard(t) \/ WriteCritical(t)
  \/ Release(t)

Fault(t) == Raise(t) \/ Misjudge(t) \/ Abort(t) \/ Kill(t)

AllOver == (\A t \in Tasks : stage[t] \in Over) /\ UNCHANGED vars

Next ==
  \/ \E t \in Tasks : Progress(t) \/ (t \in Fallible /\ Fault(t))
  \/ AllOver

Spec == Init /\ [][Next]_vars

\* An invocation that is not killed keeps executing.
FairSpec == Spec /\ \A t \in Tasks : WF_vars(Progress(t))

\* A campaign is planned on a root that another one has begun, not while that
\* one is creating it: whoever starts before there is a contract finds no
\* invocation of another campaign running.
CampaignsTakeTurns ==
  \A t \in Tasks : stage[t] = "start" /\ stage'[t] # "start" /\ contract = Absent =>
    \A u \in Tasks : CampaignOf[u] # CampaignOf[t] => stage[u] \in {"start"} \cup Over

SpecInTurn == Init /\ [][Next /\ CampaignsTakeTurns]_vars

\* The contract tells the campaigns apart.
DistinctContracts ==
  \A c, d \in Campaigns : Manifest[c] = Manifest[d] => c = d

-----------------------------------------------------------------------------
(* Properties.                                                             *)

\* The archive is the whole month of the contract, every day of it made by a
\* task of a campaign with that contract.
ArchiveFollowsContract ==
  archive # Absent =>
    /\ contract # Absent /\ Whole(archive, contract)
    /\ \A d \in contract.days : Mine(content[archive][d]) = contract

\* A published archive is replaced by another or stays as it is: it never
\* disappears, and nobody who still has it open writes to it.
PublishedStays ==
  [][archive # Absent =>
       archive' # Absent /\ (archive' = archive => content'[archive] = content[archive])]_vars

\* An ok receipt is only ever written about the archive on disk.
ReceiptsAreTrue ==
  [][\A c \in Campaigns : receipt'[c] # receipt[c] /\ receipt'[c].status # "critical"
       => ReceiptComplete(c)']_vars

\* Whatever was left behind by attempts that failed or were killed, by this
\* campaign or one the contract keeps out, an undisturbed task completes the
\* month.
Undisturbed(t) ==
  /\ stage[t] = "start" /\ contract \in {Absent, Mine(t)}
  /\ \A u \in Tasks \ {t} : stage[u] \in Over

UndisturbedTaskCompletes ==
  \A t \in Tasks \ Fallible : Undisturbed(t) ~> ReceiptComplete(CampaignOf[t])

-----------------------------------------------------------------------------
(* The inductive strengthening: what every campaign that takes turns keeps *)
(* to, by component.                                                       *)

Messages == [Days -> Tasks \cup {Absent}]

BackfillTypeOK ==
  /\ contract \in {Manifest[c] : c \in Campaigns} \cup {Absent}
  /\ content \in [Tasks -> Messages]
  /\ {partial, archive} \subseteq Tasks \cup {Absent}
  /\ receipt \in [Campaigns ->
       [status : {"none", "complete", "verified_existing", "critical"}, sha256 : Messages]]
  /\ lock \in [Campaigns -> Tasks \cup {Absent}]
  /\ stage \in [Tasks -> {"start"} \cup Holding \cup Over]
  /\ handle \in [Tasks -> Tasks \cup {Absent}]
  /\ todo \in [Tasks -> SUBSET Days]
  /\ digest \in [Tasks -> Messages]

LockInv == \A t \in Tasks : stage[t] \in Holding => lock[CampaignOf[t]] = t

\* Past the contract every invocation is of the campaign it names; until there
\* is one, all that run are of one campaign, and one is about to write it.
Admitted == Trying \ {"contract", "writeContract"}
ContractInv ==
  /\ \A t \in Tasks : stage[t] \in Admitted => contract = Mine(t)
  /\ \A t \in Tasks : stage[t] = "writeContract" => contract = Absent
  /\ contract = Absent => \A t, u \in Tasks :
       stage[t] \in Holding /\ stage[u] \in Holding => CampaignOf[t] = CampaignOf[u]

\* An inode has the name its creator gave it, and its content is what the
\* creator appended to it.
After == Failing \cup {"unlock"} \cup Over
Appended(t) ==
  /\ handle[t] = t /\ partial \in {t, Absent} /\ digest[t] = content[t]
  /\ todo[t] \subseteq Mine(t).days
  /\ \A d \in Days : content[t][d] = IF d \in Mine(t).days \ todo[t] THEN t ELSE Absent
PartialInv ==
  /\ partial # Absent => stage[partial] \in Writing \cup {"publish"} \cup After
  /\ archive # Absent => stage[archive] \in {"receipt"} \cup After
  /\ \A t \in Tasks :
       /\ stage[t] = "open" => partial = Absent
       /\ stage[t] \in Writing \cup {"publish"} => Appended(t)
       /\ stage[t] \in {"inspect", "publish"} => todo[t] = {}

\* What an ok receipt is about to say is true of the archive.
ReceiptInv ==
  \A t \in Tasks :
    /\ stage[t] \in {"hash", "vouch", "receipt"} => archive # Absent
    /\ stage[t] \in {"vouch", "receipt"} => digest[t] = content[archive]

BackfillInv ==
  /\ BackfillTypeOK /\ LockInv /\ ContractInv /\ PartialInv /\ ReceiptInv
  /\ ArchiveFollowsContract

=============================================================================
