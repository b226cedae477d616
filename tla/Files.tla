-------------------------------- MODULE Files --------------------------------
(* Uploaded files (api/src/files, with retention and the routes that send,   *)
(* edit and delete messages): a row in the database and an object in the     *)
(* store, written and removed one after the other.  Only a failure may leave *)
(* one without the other.  First is uploaded and sent with a message; Copy   *)
(* is what a forward of that message makes of it.  A thumbnail is written    *)
(* and removed with its file.                                                *)
EXTENDS Naturals, FiniteSets

CONSTANTS
    Handler,      \* requests
    Cleaner,      \* workers: the draft sweeper and the retention job
    FileBudgets   \* bounds: requests at once, messages scheduled with the draft, files that
                  \* come of age, and crashes, failed transactions and deletions

FileBudget == [requests : SUBSET Handler, holds : Nat, ages : Nat, faults : Nat]

ASSUME FileAssumption == FileBudgets \subseteq FileBudget

First == "first"
Copy == "copy"
File == {First, Copy}
Worker == Handler \cup Cleaner

VARIABLES
    object,   \* keys of the objects in the store
    record,   \* [File -> [there, sent, until, key]]
    message,  \* [File -> the message it is for: "new", "none", "live", "deleted"]
    shows,    \* files in the metadata of their message
    aged,     \* files past file_days
    task,     \* [Worker -> [does, at, file, linked: the message it was read with]]
    fileBudget,
    mishap    \* history: <<what happened, file>>

fileVars == <<object, record, message, shows, aged, task, fileBudget, mishap>>

NoRow == [there |-> FALSE, sent |-> FALSE, until |-> "none", key |-> First]
Done == [does |-> "nothing", at |-> "done", file |-> First, linked |-> FALSE]

FileTypeOK ==
    /\ object \subseteq File /\ shows \subseteq File /\ aged \subseteq File
    /\ \A f \in File :
           /\ record[f].there \in BOOLEAN /\ record[f].sent \in BOOLEAN
           /\ record[f].until \in {"none", "ahead", "past"} /\ record[f].key \in File
           /\ message[f] \in {"new", "none", "live", "deleted"}
    /\ \A t \in Worker :
           /\ task[t].at \in {"done", "row", "commit", "copy", "discard", "delete", "rows",
                              "object", "erase", "detach"}
           /\ task[t].file \in File
    /\ fileBudget \in FileBudget

FileInit ==
    /\ object = {} /\ record = [f \in File |-> NoRow]
    /\ message = [f \in File |-> IF f = First THEN "new" ELSE "none"]
    /\ shows = {} /\ aged = {} /\ task = [t \in Worker |-> Done]
    /\ fileBudget \in FileBudgets /\ mishap = {}

Starts(t, does, at, f) ==
    /\ task[t] = Done
    /\ task' = [task EXCEPT ![t] = [does |-> does, at |-> at, file |-> f,
                                     linked |-> does = "delete file" /\ record[f].sent]]
At(t, does, at) == task[t].does = does /\ task[t].at = at
Goes(t, at) == task' = [task EXCEPT ![t] = IF at = "done" THEN Done ELSE [@ EXCEPT !.at = at]]
Fault == fileBudget.faults > 0 /\ fileBudget' = [fileBudget EXCEPT !.faults = @ - 1]
Mishap(what, f) == mishap' = mishap \cup {<<what, f>>}

(* A transaction holds the row it has claimed until it ends. *)
Claimed(f) == \E t \in Worker : At(t, "send", "commit") /\ task[t].file = f

-----------------------------------------------------------------------------
(* upload_file: the object, then the row; a draft has a deadline. *)
Upload(t) ==
    /\ message[First] = "new" /\ message' = [message EXCEPT ![First] = "none"]
    /\ object' = object \cup {First} /\ Starts(t, "upload", "row", First)
    /\ UNCHANGED <<record, shows, aged, fileBudget, mishap>>

CreateRow(t, until) ==
    /\ At(t, "upload", "row") /\ Goes(t, "done")
    /\ record' = [record EXCEPT ![First] = [NoRow EXCEPT !.there = TRUE, !.until = until]]
    /\ UNCHANGED <<object, message, shows, aged, fileBudget, mishap>>

(* draft_deadline is a day ahead; hold_drafts puts it off for a message that *)
(* is scheduled.                                                             *)
DraftExpires ==
    /\ record[First].until = "ahead" /\ record' = [record EXCEPT ![First].until = "past"]
    /\ UNCHANGED <<object, message, shows, aged, task, fileBudget, mishap>>

HoldDraft ==
    /\ record[First].until = "past" /\ ~Claimed(First)
    /\ fileBudget.holds > 0 /\ fileBudget' = [fileBudget EXCEPT !.holds = @ - 1]
    /\ record' = [record EXCEPT ![First].until = "ahead"]
    /\ UNCHANGED <<object, message, shows, aged, task, mishap>>

(* claim_drafts_in: of the sender, not yet sent, whatever its deadline. *)
MayClaimDraft(f) == record[f].there /\ ~record[f].sent /\ record[f].until # "none" /\ ~Claimed(f)

SendDraft(t) ==
    /\ MayClaimDraft(First) /\ message[First] = "none"
    /\ Starts(t, "send", "commit", First)
    /\ UNCHANGED <<object, record, message, shows, aged, fileBudget, mishap>>

CommitSend(t) ==
    /\ At(t, "send", "commit") /\ Goes(t, "done")
    /\ record' = [record EXCEPT ![First].sent = TRUE, ![First].until = "none"]
    /\ message' = [message EXCEPT ![First] = "live"] /\ shows' = shows \cup {First}
    /\ UNCHANGED <<object, aged, fileBudget, mishap>>

-----------------------------------------------------------------------------
(* Forwarding: forwarded_files reads the rows of the message, copy_objects   *)
(* makes the objects, then the message and record_copies_in.                 *)
Forward(t) ==
    /\ message[First] = "live" /\ record[First].there /\ message[Copy] = "none"
    /\ \A o \in Worker : task[o].does # "forward" /\ task[o].file # Copy
    /\ ~record[Copy].there /\ Copy \notin object
    /\ Starts(t, "forward", "copy", First)
    /\ UNCHANGED <<object, record, message, shows, aged, fileBudget, mishap>>

(* Mutant: the copy is a second row for the object of the first. *)
CopyKeyShared == record[First].key

CopyKey == Copy

(* copy_one: nothing to copy is an error. *)
CopyObject(t) ==
    /\ At(t, "forward", "copy")
    /\ IF First \in object
       THEN /\ object' = object \cup {CopyKey}
            /\ task' = [task EXCEPT ![t].at = "commit", ![t].file = Copy]
       ELSE Goes(t, "done") /\ UNCHANGED object
    /\ UNCHANGED <<record, message, shows, aged, fileBudget, mishap>>

CommitForward(t) ==
    /\ At(t, "forward", "commit") /\ Goes(t, "done")
    /\ record' = [record EXCEPT ![Copy] = [there |-> TRUE, sent |-> TRUE, until |-> "none",
                                     key |-> CopyKey]]
    /\ message' = [message EXCEPT ![Copy] = "live"] /\ shows' = shows \cup {Copy}
    /\ UNCHANGED <<object, aged, fileBudget, mishap>>

AfterFailedForward == "discard"

ForwardFails(t) ==
    /\ At(t, "forward", "commit") /\ Fault /\ Goes(t, AfterFailedForward)
    /\ UNCHANGED <<object, record, message, shows, aged, mishap>>

(* discard_copies *)
DiscardCopy(t) ==
    /\ At(t, "forward", "discard") /\ Goes(t, "done") /\ object' = object \ {CopyKey}
    /\ UNCHANGED <<record, message, shows, aged, fileBudget, mishap>>

(* A transaction is rolled back: the message was not sent. *)
SendFails(t) ==
    /\ At(t, "send", "commit") /\ Fault /\ Goes(t, "done")
    /\ UNCHANGED <<object, record, message, shows, aged, mishap>>

-----------------------------------------------------------------------------
(* The rows go first, and what was deleted has its objects purged. *)
DeletesRow(t, f) ==
    /\ record' = [record EXCEPT ![f] = NoRow]
    /\ task' = [task EXCEPT ![t] = IF record[f].there
                                   THEN [does |-> "purge", at |-> "object", file |-> record[f].key,
                                         linked |-> FALSE]
                                   ELSE Done]

ShowsAfterEdit(f) == shows \ {f}

(* update_message without an attachment it had: one transaction. *)
EditMessage(t, f) ==
    /\ task[t] = Done /\ message[f] = "live" /\ f \in shows /\ ~Claimed(f)
    /\ DeletesRow(t, f) /\ shows' = ShowsAfterEdit(f)
    /\ UNCHANGED <<object, message, aged, fileBudget, mishap>>

(* delete_message, then delete_for_channel_message in a statement of its own.*)
DeleteMessage(t, f) ==
    /\ message[f] = "live" /\ message' = [message EXCEPT ![f] = "deleted"]
    /\ Starts(t, "delete message", "rows", f)
    /\ UNCHANGED <<object, record, shows, aged, fileBudget, mishap>>

AttachedTo(f) == record[f].there

DeleteAttachments(t) ==
    /\ At(t, "delete message", "rows")
    /\ IF AttachedTo(task[t].file) THEN DeletesRow(t, task[t].file)
       ELSE Goes(t, "done") /\ UNCHANGED record
    /\ UNCHANGED <<object, message, shows, aged, fileBudget, mishap>>

(* delete_expired_drafts picks the drafts and deletes them by their ids: one *)
(* that is claimed in between is deleted when the claim is committed, as     *)
(* the rows of the inner query are not looked at again.                      *)
(* Mutant: only a draft somebody has sent is expired. *)
MaySweepSent(f) == record[f].there /\ record[f].sent /\ record[f].until = "past"

MaySweep(f) == record[f].there /\ ~record[f].sent /\ record[f].until = "past"

PickDraft(t) ==
    /\ MaySweep(First) /\ Starts(t, "sweep", "delete", First)
    /\ UNCHANGED <<object, record, message, shows, aged, fileBudget, mishap>>

SweepDraft(t) ==
    /\ At(t, "sweep", "delete") /\ ~Claimed(First)
    /\ DeletesRow(t, First)
    /\ IF record[First].sent THEN Mishap("swept", First) ELSE UNCHANGED mishap
    /\ UNCHANGED <<object, message, shows, aged, fileBudget>>

(* purge_objects *)
PurgeObject(t) ==
    /\ At(t, "purge", "object") /\ Goes(t, "done") /\ object' = object \ {task[t].file}
    /\ UNCHANGED <<record, message, shows, aged, fileBudget, mishap>>

-----------------------------------------------------------------------------
(* The other order, where the row must still be found if the object could    *)
(* not be removed: delete_file, with what it knows of the message, and       *)
(* purge_files of the retention job.                                         *)
DeleteFile(t, f) ==
    /\ record[f].there /\ Starts(t, "delete file", "object", f)
    /\ UNCHANGED <<object, record, message, shows, aged, fileBudget, mishap>>

PastFiles == {f \in aged : record[f].there}

RetireFile(t, f) ==
    /\ f \in PastFiles /\ Starts(t, "retire", "object", f)
    /\ UNCHANGED <<object, record, message, shows, aged, fileBudget, mishap>>

Old(t) == task[t].does \in {"delete file", "retire"}

RemoveObject(t) ==
    /\ Old(t) /\ task[t].at = "object" /\ Goes(t, "erase")
    /\ object' = object \ {task[t].file}
    /\ UNCHANGED <<record, message, shows, aged, fileBudget, mishap>>

(* The deletion waits for a claim of the draft.  A draft that was sent since *)
(* it was read is deleted and not taken off the message.                     *)
EraseRow(t) ==
    /\ Old(t) /\ task[t].at = "erase" /\ ~Claimed(task[t].file)
    /\ record' = [record EXCEPT ![task[t].file] = NoRow]
    /\ Goes(t, IF task[t].does = "delete file" /\ task[t].linked THEN "detach" ELSE "done")
    /\ IF record[task[t].file].sent /\ (task[t].does = "retire" \/ ~task[t].linked)
       THEN Mishap("unannounced", task[t].file) ELSE UNCHANGED mishap
    /\ UNCHANGED <<object, message, shows, aged, fileBudget>>

(* detach_from_message *)
DetachFile(t) ==
    /\ At(t, "delete file", "detach") /\ Goes(t, "done") /\ shows' = shows \ {task[t].file}
    /\ UNCHANGED <<object, record, message, aged, fileBudget, mishap>>

FileAges(f) ==
    /\ record[f].there /\ f \notin aged /\ aged' = aged \cup {f}
    /\ fileBudget.ages > 0 /\ fileBudget' = [fileBudget EXCEPT !.ages = @ - 1]
    /\ UNCHANGED <<object, record, message, shows, task, mishap>>

-----------------------------------------------------------------------------
(* The store does not answer: the object stays, and the steps go on.  The    *)
(* log calls it an orphan.                                                   *)
StoreFails(t) ==
    /\ task[t].at \in {"object", "discard"} /\ Fault
    /\ Goes(t, IF Old(t) THEN "erase" ELSE "done")
    /\ Mishap("orphaned", task[t].file)
    /\ UNCHANGED <<object, record, message, shows, aged>>

(* The process dies, or a statement fails and the request with it. *)
TaskDies(t) ==
    /\ task[t] # Done /\ Fault /\ Goes(t, "done")
    /\ Mishap("stopped", task[t].file)
    /\ UNCHANGED <<object, record, message, shows, aged>>

CleanStep(t) ==
    \/ PickDraft(t) \/ SweepDraft(t) \/ PurgeObject(t) \/ RemoveObject(t) \/ EraseRow(t)
    \/ \E f \in File : RetireFile(t, f)

FileNext ==
    \/ DraftExpires \/ HoldDraft \/ \E f \in File : FileAges(f)
    \/ \E t \in Cleaner : CleanStep(t)
    \/ \E t \in fileBudget.requests :
           \/ Upload(t) \/ \E until \in {"none", "ahead"} : CreateRow(t, until)
           \/ SendDraft(t) \/ CommitSend(t) \/ SendFails(t)
           \/ Forward(t) \/ CopyObject(t) \/ CommitForward(t) \/ ForwardFails(t) \/ DiscardCopy(t)
           \/ DeleteAttachments(t) \/ PurgeObject(t) \/ RemoveObject(t) \/ EraseRow(t) \/ DetachFile(t)
           \/ \E f \in File : EditMessage(t, f) \/ DeleteMessage(t, f) \/ DeleteFile(t, f)
    \/ \E t \in Worker : StoreFails(t) \/ TaskDies(t)

(* The sweeper comes every quarter of an hour, retention once a day, and a   *)
(* request that has begun goes on to its end.                                *)
FileFairness ==
    /\ \A t \in Cleaner : WF_fileVars(CleanStep(t))
    /\ \A t \in Handler :
           WF_fileVars(CommitSend(t) \/ SendFails(t) \/ PurgeObject(t) \/ RemoveObject(t) \/ EraseRow(t))

-----------------------------------------------------------------------------
(* Properties. *)

InHand(f, at) == \E t \in Worker : task[t].file = f /\ task[t].at \in at

(* A row can be downloaded: its object is there unless somebody is about to  *)
(* delete the row, or stopped there.  A forwarded file does not depend on     *)
(* what becomes of the one it was made from.                                 *)
RowHasObject ==
    \A f \in File : record[f].there =>
        record[f].key \in object \/ InHand(f, {"erase"}) \/ <<"stopped", f>> \in mishap

(* An object has a row, through which it is found and deleted, unless it is  *)
(* being written or removed, the store failed, or whoever was at it stopped. *)
ObjectHasRow ==
    \A k \in object :
        \/ \E f \in File : record[f].there /\ record[f].key = k
        \/ InHand(k, {"row", "commit", "discard", "object"})
        \/ \E what \in {"orphaned", "stopped"} : <<what, k>> \in mishap

(* A message shows the files it has.  The exceptions are a draft past its    *)
(* deadline that is sent while the sweeper deletes it, a draft that is sent  *)
(* while it is deleted, and retention, which leaves the message as it is.    *)
ShownHasRow ==
    \A f \in shows :
        \/ record[f].there \/ message[f] = "deleted" \/ InHand(f, {"detach"})
        \/ \E what \in {"swept", "unannounced", "stopped"} : <<what, f>> \in mishap

(* What was attached to a deleted message is gone with it, the forwarded     *)
(* copies apart: an attachment without its message could still be downloaded *)
(* by its key.                                                               *)
DeletedIsGone ==
    \A f \in File : message[f] = "deleted" =>
        \/ ~record[f].there \/ InHand(f, {"rows"}) \/ <<"stopped", f>> \in mishap

(* A draft nobody sent is swept, or sent or put off after all. *)
ExpiredIsSwept == record[First].until = "past" ~> record[First].until # "past"

(* What is past file_days is removed, the object too unless the store      *)
(* failed.                                                                 *)
AgedIsRetired ==
    \A f \in File : f \in aged /\ record[f].there ~>
        ~record[f].there /\ (f \notin object \/ \E what \in {"orphaned", "stopped"} : <<what, f>> \in mishap)

(* Rows, stored objects and what messages show agree, but for the          *)
(* circumstances each part names.                                          *)
FileSafety == FileTypeOK /\ RowHasObject /\ ObjectHasRow /\ ShownHasRow /\ DeletedIsGone
=============================================================================
