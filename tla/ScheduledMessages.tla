------------------------- MODULE ScheduledMessages -------------------------
(***************************************************************************)
(* One scheduled message: the dispatcher (scheduled/executor.rs), the      *)
(* author's requests (scheduled/routes.rs) and the loss of access that     *)
(* withdraws it (repo.rs, cancel_pending_for_channel).  The claim marks    *)
(* the row sent before the message exists; a failure is written into the   *)
(* row afterwards and opens it again for the author.                       *)
(***************************************************************************)
EXTENDS Naturals

CONSTANTS
    Sender,             \* dispatchers and send-now requests that can run at once
    MaxEdits,           \* bound: author's requests
    MaxSendFaults       \* bound: crashes and failed writes

ASSUME ScheduledAssumption == MaxEdits \in Nat /\ MaxSendFaults \in Nat

VARIABLES
    item,               \* the row of scheduled_messages
    access,             \* may the author post in the channel?
    sending,            \* each sender's next step
    edit,               \* the author's request that has read the row
    posts,              \* history: messages created from the row
    raced,              \* history: an author's request overlapped a delivery
    withdrawing,        \* the removal that took the access has still to withdraw the row
    lostLate,           \* history: access was lost between the check and the commit
    unsure,             \* history: a commit went through and its answer was lost
    vanished,           \* history: a sender died or could not write the failure
    edits, sendFaults

fates == <<lostLate, unsure, vanished>>
scheduledVars == <<item, access, sending, edit, posts, raced, withdrawing, fates, edits,
                   sendFaults>>

ScheduledInit ==
    /\ item = [exists |-> FALSE, due |-> FALSE, sent |-> FALSE, canceled |-> FALSE,
               failure |-> FALSE]
    /\ access = TRUE
    /\ sending = [s \in Sender |-> "idle"]
    /\ edit = "none"
    /\ posts = 0 /\ raced = FALSE /\ withdrawing = FALSE /\ lostLate = FALSE
    /\ unsure = FALSE /\ vanished = FALSE
    /\ edits = 0 /\ sendFaults = 0

Busy == \E s \in Sender : sending[s] # "idle"
SendFault == sendFaults < MaxSendFaults /\ sendFaults' = sendFaults + 1
Moves(s, label) == sending' = [sending EXCEPT ![s] = label]

(* create_scheduled, require_target_access *)
CreateScheduled ==
    /\ ~item.exists /\ access
    /\ item' = [item EXCEPT !.exists = TRUE]
    /\ UNCHANGED <<access, sending, edit, posts, raced, withdrawing, fates, edits, sendFaults>>

SendTimeComes ==
    /\ item.exists /\ ~item.due
    /\ item' = [item EXCEPT !.due = TRUE]
    /\ UNCHANGED <<access, sending, edit, posts, raced, withdrawing, fates, edits, sendFaults>>

-----------------------------------------------------------------------------
(* Delivery. *)

(* claim_due, its WHERE *)
MayClaimDue == item.exists /\ item.due /\ ~item.canceled /\ ~item.sent

ClaimScheduled(s) ==
    /\ sending[s] = "idle" /\ MayClaimDue
    /\ item' = [item EXCEPT !.sent = TRUE]
    /\ Moves(s, "authorize")
    /\ raced' = (raced \/ edit # "none")
    /\ UNCHANGED <<access, edit, posts, withdrawing, fates, edits, sendFaults>>

(* claim_now, its WHERE *)
MayClaimNow == item.exists /\ ~item.canceled /\ (~item.sent \/ item.failure)

(* send_now: owned_open and claim_now, then the same delivery. *)
ClaimNow(s) ==
    /\ sending[s] = "idle" /\ edits < MaxEdits
    /\ MayClaimNow
    /\ item' = [item EXCEPT !.sent = TRUE, !.failure = FALSE]
    /\ Moves(s, "authorize")
    /\ edits' = edits + 1
    /\ raced' = (raced \/ edit # "none")
    /\ UNCHANGED <<access, edit, posts, withdrawing, fates, sendFaults>>

(* authorize_channel: the predicate of the interactive path *)
Authorized == access

Authorize(s) ==
    /\ sending[s] = "authorize"
    /\ \/ Authorized /\ Moves(s, "post")
       \/ ~Authorized /\ Moves(s, "fail")
    /\ UNCHANGED <<item, access, edit, posts, raced, withdrawing, fates, edits, sendFaults>>

(* deliver_to_channel: the message and its event, in one transaction; an   *)
(* error is a failure like any other, though the commit may have gone      *)
(* through.                                                                *)
Post(s) ==
    /\ sending[s] = "post"
    /\ \/ Moves(s, "idle") /\ posts' = posts + 1 /\ UNCHANGED <<unsure, sendFaults>>
       \/ Moves(s, "fail") /\ SendFault /\ UNCHANGED <<posts, unsure>>
       \/ Moves(s, "fail") /\ SendFault /\ posts' = posts + 1 /\ unsure' = TRUE
    /\ UNCHANGED <<item, access, edit, raced, withdrawing, lostLate, vanished, edits>>

(* record_failure, by id *)
FailedRow == [item EXCEPT !.failure = TRUE]

(* deliver_now: record_failure, whose own error is dropped. *)
RecordFailure(s) ==
    /\ sending[s] = "fail"
    /\ \/ item' = FailedRow /\ UNCHANGED <<vanished, sendFaults>>
       \/ SendFault /\ vanished' = TRUE /\ UNCHANGED item
    /\ Moves(s, "idle")
    /\ UNCHANGED <<access, edit, posts, raced, withdrawing, lostLate, unsure, edits>>

SenderDies(s) ==
    /\ sending[s] # "idle"
    /\ SendFault
    /\ Moves(s, "idle")
    /\ vanished' = TRUE
    /\ UNCHANGED <<item, access, edit, posts, raced, withdrawing, lostLate, unsure, edits>>

-----------------------------------------------------------------------------
(* The author, and the channel. *)

(* Mutant: a message that was sent is open. *)
OpenAlways == item.exists /\ ~item.canceled

(* owned_open *)
Open == item.exists /\ ~(item.sent /\ ~item.failure) /\ ~item.canceled

(* reschedule and cancel_scheduled read the row ... *)
OpenEdit(what) ==
    /\ edit = "none" /\ edits < MaxEdits
    /\ Open
    /\ edit' = what /\ edits' = edits + 1
    /\ raced' = (raced \/ Busy)
    /\ UNCHANGED <<item, access, sending, posts, withdrawing, fates, sendFaults>>

(* reschedule, its SET *)
Rescheduled == [item EXCEPT !.due = FALSE, !.sent = FALSE, !.failure = FALSE]

(* ... and write it by id. *)
Reschedule ==
    /\ edit = "reschedule"
    /\ item' = Rescheduled
    /\ edit' = "none"
    /\ UNCHANGED <<access, sending, posts, raced, withdrawing, fates, edits, sendFaults>>

Cancel ==
    /\ edit = "cancel"
    /\ item' = [item EXCEPT !.canceled = TRUE]
    /\ edit' = "none"
    /\ UNCHANGED <<access, sending, posts, raced, withdrawing, fates, edits, sendFaults>>

(* The author loses the channel: removed from it or from the workspace,    *)
(* which goes on to withdraw what is queued, or suspended, or the channel  *)
(* is archived, which does not.                                            *)
LoseAccess ==
    /\ access
    /\ access' = FALSE
    /\ withdrawing' \in BOOLEAN
    /\ lostLate' = (lostLate \/ \E s \in Sender : sending[s] = "post")
    /\ UNCHANGED <<item, sending, edit, posts, raced, unsure, vanished, edits, sendFaults>>

(* cancel_pending_for_channel and its form for a workspace *)
Withdraw ==
    /\ withdrawing
    /\ withdrawing' = FALSE
    /\ item' = [item EXCEPT !.canceled = @ \/ (item.exists /\ ~item.sent)]
    /\ UNCHANGED <<access, sending, edit, posts, raced, lostLate, unsure, vanished, edits,
                   sendFaults>>

SendStep(s) ==
    ClaimScheduled(s) \/ Authorize(s) \/ Post(s) \/ RecordFailure(s)

ScheduledNext ==
    \/ CreateScheduled \/ SendTimeComes \/ Reschedule \/ Cancel \/ LoseAccess \/ Withdraw
    \/ OpenEdit("reschedule") \/ OpenEdit("cancel")
    \/ \E s \in Sender : SendStep(s) \/ ClaimNow(s) \/ SenderDies(s)

(* start_dispatcher loops for ever, time passes and requests end. *)
ScheduledFairness ==
    /\ WF_scheduledVars(SendTimeComes) /\ WF_scheduledVars(Reschedule \/ Cancel)
    /\ \A s \in Sender : WF_scheduledVars(SendStep(s))

-----------------------------------------------------------------------------
(* Every variable stays in its domain. *)
ScheduledTypeOK ==
    /\ item \in [exists : BOOLEAN, due : BOOLEAN, sent : BOOLEAN, canceled : BOOLEAN,
                 failure : BOOLEAN]
    /\ sending \in [Sender -> {"idle", "authorize", "post", "fail"}]
    /\ edit \in {"none", "reschedule", "cancel"} /\ posts \in Nat
    /\ {access, raced, withdrawing, lostLate, unsure, vanished} \subseteq BOOLEAN
    /\ edits \in 0..MaxEdits /\ sendFaults \in 0..MaxSendFaults

(* "Two api replicas running the dispatcher cannot deliver the same row    *)
(* twice", nor does a send-now on top of it, unless a request of the       *)
(* author's read the row before a delivery and wrote it after, or a commit *)
(* that went through was reported as failed and sent again.                *)
PostedOnce == posts <= 1 \/ raced \/ unsure

(* "The same predicate has to run again here, at the moment of the         *)
(* effect": without access nothing is posted, unless it was lost after the *)
(* check and before the commit.                                            *)
PostedWithAccess == [][posts' > posts => access \/ lostLate]_scheduledVars

(* "A message that silently evaporates is worse than one that fails        *)
(* loudly": a row that reads as sent has been posted or is being sent,     *)
(* unless its sender died or could not write why it failed.                *)
SentIsPosted == item.sent /\ ~item.failure /\ ~Busy => posts > 0 \/ vanished

(* A message whose time has come is posted in the end or reads as failed,  *)
(* unless it is canceled, rescheduled or lost with its sender.             *)
DueIsSettled ==
    item.due ~> posts > 0 \/ item.failure \/ item.canceled \/ ~item.due \/ vanished

(* A scheduled message is posted once, and one marked sent was posted,     *)
(* outside the circumstances each part names.                              *)
ScheduledSafety == ScheduledTypeOK /\ PostedOnce /\ SentIsPosted
=============================================================================
