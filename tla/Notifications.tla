---------------------------- MODULE Notifications ----------------------------
(* Notifications of one person (api/src/notifications): the workers of the   *)
(* group write a row and a pending email for every mention, and the digest   *)
(* job of each worker process mails what is still unread five minutes later. *)
(* The email of a digest is a row of EmailOutbox; the ring of a huddle is    *)
(* announced at once or not at all.  The live frame and the push to devices  *)
(* leave nothing behind and are not followed.                                *)
EXTENDS Naturals, FiniteSets

CONSTANTS
    Mention,          \* messages that mention the person, or are sent to them
    Notifier,         \* workers of the group "notifications"
    Digester,         \* digest jobs
    NotifyBudgets     \* bounds: what happens, who is at work, pauses, and crashes,
                      \* redeliveries and failed statements

Ring == "ring"
Happening == Mention \cup {Ring}
NotifyBudget == [events : SUBSET Happening, notifiers : SUBSET Notifier,
                 digesters : SUBSET Digester, pauses : Nat, faults : Nat]

ASSUME NotifyAssumption == NotifyBudgets \subseteq NotifyBudget /\ Ring \notin Mention

(* A row of pending_mention_emails; another one of a message is queued by a  *)
(* redelivery when the first is gone.                                        *)
Pending == Mention \X (Nat \ {0})

VARIABLES
    happened, stream, \* events, and those that are not acknowledged
    notifier,  \* [Notifier -> [event, at]]
    notice,    \* [Happening -> "none", "unread", "read"] the row in notifications
    ringAge,   \* "fresh" or older than RING_MAX_AGE
    rings,     \* rings announced
    queued, pending, due, \* rows: ever inserted, there, and DIGEST_WINDOW old
    digester,  \* [Digester -> [at, cutoff, counts]]
    paused, notifyBudget,
    seen,      \* messages the person has read
    mails, told, \* history: digests sent, and the rows they counted
    toldRead,  \* history: messages mailed when they had been read
    excused    \* history: read before the row was there or while a pass was
               \* on, or of a pass or a row that failed

notifyVars == <<happened, stream, notifier, notice, ringAge, rings, queued, pending, due, digester,
                paused, notifyBudget, seen, mails, told, toldRead, excused>>

groupVars == <<happened, stream, notifier, rings>>
mailVars == <<queued, pending, due, digester, mails, told, toldRead>>
personVars == <<paused, seen>>

Unoccupied == [event |-> Ring, at |-> "free"]
Resting == [at |-> "rest", cutoff |-> {}, counts |-> {}]

NotifyTypeOK ==
    /\ stream \subseteq happened /\ happened \subseteq Happening
    /\ notice \in [Happening -> {"none", "unread", "read"}]
    /\ \A w \in Notifier : /\ notifier[w].event \in Happening
                           /\ notifier[w].at \in {"free", "row", "pause", "email", "ack"}
    /\ queued \subseteq Pending /\ pending \subseteq queued /\ due \subseteq queued
    /\ \A d \in Digester : /\ digester[d].at \in {"rest", "seen", "read", "claim"}
                           /\ digester[d].counts \subseteq digester[d].cutoff
                           /\ digester[d].cutoff \subseteq queued
    /\ told \subseteq queued /\ toldRead \subseteq Mention /\ excused \subseteq Mention
    /\ notifyBudget \in NotifyBudget

NotifyInit ==
    /\ happened = {} /\ stream = {} /\ notifier = [w \in Notifier |-> Unoccupied]
    /\ notice = [e \in Happening |-> "none"] /\ ringAge = "fresh" /\ rings = 0
    /\ queued = {} /\ pending = {} /\ due = {} /\ digester = [d \in Digester |-> Resting]
    /\ paused = FALSE /\ notifyBudget \in NotifyBudgets
    /\ seen = {} /\ mails = 0 /\ told = {} /\ toldRead = {} /\ excused = {}

Upset == notifyBudget.faults > 0 /\ notifyBudget' = [notifyBudget EXCEPT !.faults = @ - 1]
GoesOn(w, at) == notifier' = [notifier EXCEPT ![w] = IF at = "free" THEN Unoccupied ELSE [@ EXCEPT !.at = at]]
IsAt(w, at) == notifier[w].at = at

-----------------------------------------------------------------------------
(* The consumer. *)

(* message.created of a message that is addressed to them, or huddle.ring. *)
Happens(e) ==
    /\ e \in notifyBudget.events \ happened
    /\ happened' = happened \cup {e} /\ stream' = stream \cup {e}
    /\ UNCHANGED <<notifier, notice, ringAge, rings, notifyBudget, excused>>
    /\ UNCHANGED mailVars /\ UNCHANGED personVars

RingGoesStale ==
    /\ Ring \in stream /\ ringAge = "fresh" /\ ringAge' = "stale"
    /\ UNCHANGED <<notice, notifyBudget, excused>>
    /\ UNCHANGED groupVars /\ UNCHANGED mailVars /\ UNCHANGED personVars

(* next_batch: an event nobody holds, or one whose holder has been at it for *)
(* longer than the group waits.                                              *)
TakeEvent(w, e) ==
    /\ w \in notifyBudget.notifiers /\ IsAt(w, "free") /\ e \in stream
    /\ IF \E o \in Notifier : ~IsAt(o, "free") /\ notifier[o].event = e
       THEN Upset ELSE UNCHANGED notifyBudget
    /\ notifier' = [notifier EXCEPT ![w] = [event |-> e, at |-> IF e = Ring /\ ringAge = "stale"
                                                              THEN "ack" ELSE "row"]]
    /\ UNCHANGED <<happened, stream, notice, ringAge, rings, excused>>
    /\ UNCHANGED mailVars /\ UNCHANGED personVars

(* create: idx_notifications_dedup, idx_notifications_call_dedup *)
WritesRow(e) == notice[e] = "none"

(* A ring that has its row already was announced. *)
AfterRow(e) == IF e = Ring /\ notice[e] # "none" THEN "ack" ELSE "pause"

WriteRow(w) ==
    /\ IsAt(w, "row")
    /\ notice' = [notice EXCEPT ![notifier[w].event] = IF WritesRow(notifier[w].event) THEN "unread" ELSE @]
    /\ GoesOn(w, AfterRow(notifier[w].event))
    /\ UNCHANGED <<happened, stream, ringAge, rings, notifyBudget, excused>>
    /\ UNCHANGED mailVars /\ UNCHANGED personVars

(* Without the row a ring is given up; a mention goes on and its email is    *)
(* dropped as read.                                                          *)
WriteRowFails(w) ==
    /\ IsAt(w, "row") /\ Upset
    /\ GoesOn(w, IF notifier[w].event = Ring THEN "ack" ELSE "pause")
    /\ excused' = excused \cup ({notifier[w].event} \cap Mention)
    /\ UNCHANGED <<happened, stream, notice, ringAge, rings>>
    /\ UNCHANGED mailVars /\ UNCHANGED personVars

(* is_dnd_active, then the live frame. *)
LookAtPause(w) ==
    /\ IsAt(w, "pause")
    /\ GoesOn(w, IF paused \/ notifier[w].event = Ring THEN "ack" ELSE "email")
    /\ rings' = rings + IF ~paused /\ notifier[w].event = Ring THEN 1 ELSE 0
    /\ UNCHANGED <<happened, stream, notice, ringAge, notifyBudget, excused>>
    /\ UNCHANGED mailVars /\ UNCHANGED personVars

RowOf(e) == <<e, Cardinality({r \in queued : r[1] = e}) + 1>>

(* enqueue: one row for a message at a time. *)
QueueEmail(w) ==
    /\ IsAt(w, "email") /\ GoesOn(w, "ack")
    /\ LET e == notifier[w].event
           new == IF \E r \in pending : r[1] = e THEN {} ELSE {RowOf(e)}
       IN  queued' = queued \cup new /\ pending' = pending \cup new
    /\ UNCHANGED <<happened, stream, notice, ringAge, rings, due, digester, notifyBudget, mails, told, toldRead,
                   excused>>
    /\ UNCHANGED personVars

(* The switch is off or the statement fails: there will be no email. *)
QueueNothing(w) ==
    /\ IsAt(w, "email") /\ GoesOn(w, "ack") /\ Upset
    /\ UNCHANGED <<happened, stream, notice, ringAge, rings, excused>>
    /\ UNCHANGED mailVars /\ UNCHANGED personVars

AckEvent(w) ==
    /\ IsAt(w, "ack") /\ GoesOn(w, "free") /\ stream' = stream \ {notifier[w].event}
    /\ UNCHANGED <<happened, notice, ringAge, rings, notifyBudget, excused>>
    /\ UNCHANGED mailVars /\ UNCHANGED personVars

NotifierDies(w) ==
    /\ ~IsAt(w, "free") /\ Upset /\ GoesOn(w, "free")
    /\ UNCHANGED <<happened, stream, notice, ringAge, rings, excused>>
    /\ UNCHANGED mailVars /\ UNCHANGED personVars

-----------------------------------------------------------------------------
(* The person. *)

InPass == \E d \in Digester : digester[d].at \in {"read", "claim"}

(* Reading a channel marks the rows that are there: mark_channel_read. *)
ReadMessage(m) ==
    /\ m \in happened \ seen /\ seen' = seen \cup {m}
    /\ notice' = [notice EXCEPT ![m] = IF @ = "unread" THEN "read" ELSE @]
    /\ excused' = IF notice[m] = "none" \/ InPass THEN excused \cup {m} ELSE excused
    /\ UNCHANGED <<ringAge, paused, notifyBudget>>
    /\ UNCHANGED groupVars /\ UNCHANGED mailVars

(* set_dnd, and the hours of the schedule. *)
Pause ==
    /\ ~paused /\ paused' = TRUE
    /\ notifyBudget.pauses > 0 /\ notifyBudget' = [notifyBudget EXCEPT !.pauses = @ - 1]
    /\ UNCHANGED <<notice, ringAge, seen, excused>>
    /\ UNCHANGED groupVars /\ UNCHANGED mailVars

Unpause ==
    /\ paused /\ paused' = FALSE
    /\ UNCHANGED <<notice, ringAge, seen, notifyBudget, excused>>
    /\ UNCHANGED groupVars /\ UNCHANGED mailVars

-----------------------------------------------------------------------------
(* flush_due, once a minute in every worker process. *)

PendingComesDue(r) ==
    /\ r \in pending \ due /\ due' = due \cup {r}
    /\ UNCHANGED <<notice, ringAge, notifyBudget, queued, pending, digester, mails, told, toldRead, excused>>
    /\ UNCHANGED groupVars /\ UNCHANGED personVars

BeginPass(d) ==
    /\ d \in notifyBudget.digesters /\ digester[d].at = "rest" /\ pending \cap due # {}
    /\ digester' = [digester EXCEPT ![d] = [at |-> "seen", cutoff |-> due, counts |-> {}]]
    /\ UNCHANGED <<notice, ringAge, notifyBudget, queued, pending, due, mails, told, toldRead, excused>>
    /\ UNCHANGED groupVars /\ UNCHANGED personVars

StillUnread(r) == notice[r[1]] = "unread"

(* The statement that drops what has been read; the pass goes on without it. *)
DropSeen(d) ==
    /\ digester[d].at = "seen"
    /\ digester' = [digester EXCEPT ![d].at = "read"]
    /\ \/ /\ pending' = {r \in pending : r \in digester[d].cutoff => StillUnread(r)}
          /\ UNCHANGED <<notifyBudget, excused>>
       \/ Upset /\ excused' = excused \cup seen /\ UNCHANGED pending
    /\ UNCHANGED <<notice, ringAge, queued, due, mails, told, toldRead>>
    /\ UNCHANGED groupVars /\ UNCHANGED personVars

PausedNow == paused

(* What is due for somebody who is not paused; nothing ends the pass. *)
ReadDue(d) ==
    /\ digester[d].at = "read"
    /\ LET counts == IF PausedNow THEN {} ELSE pending \cap digester[d].cutoff
       IN  digester' = [digester EXCEPT ![d] = IF counts = {} THEN Resting
                                               ELSE [@ EXCEPT !.at = "claim", !.counts = counts]]
    /\ UNCHANGED <<notice, ringAge, notifyBudget, queued, pending, due, mails, told, toldRead, excused>>
    /\ UNCHANGED groupVars /\ UNCHANGED personVars

(* Mutant: everything that is pending for the person is deleted. *)
ClaimedByAll(d) == pending

ClaimedBy(d) == pending \cap digester[d].cutoff

SendsIf(d) == ClaimedBy(d) # {}

(* send_digest: the claim and the email in one transaction. *)
SendDigest(d) ==
    /\ digester[d].at = "claim" /\ digester' = [digester EXCEPT ![d] = Resting]
    /\ IF SendsIf(d)
       THEN /\ pending' = pending \ ClaimedBy(d) /\ mails' = mails + 1
            /\ told' = told \cup digester[d].counts
            /\ toldRead' = toldRead \cup ({r[1] : r \in digester[d].counts} \cap seen)
       ELSE UNCHANGED <<pending, mails, told, toldRead>>
    /\ UNCHANGED <<notice, ringAge, notifyBudget, queued, due, excused>>
    /\ UNCHANGED groupVars /\ UNCHANGED personVars

(* The process dies or a statement fails: what was claimed is there again. *)
PassFails(d) ==
    /\ digester[d].at # "rest" /\ Upset /\ digester' = [digester EXCEPT ![d] = Resting]
    /\ UNCHANGED <<notice, ringAge, queued, pending, due, mails, told, toldRead, excused>>
    /\ UNCHANGED groupVars /\ UNCHANGED personVars

NotifyStep(w) ==
    \/ WriteRow(w) \/ LookAtPause(w) \/ QueueEmail(w) \/ AckEvent(w)
    \/ \E e \in Happening : TakeEvent(w, e)

PassStep(d) == BeginPass(d) \/ DropSeen(d) \/ ReadDue(d) \/ SendDigest(d)

NotifyNext ==
    \/ \E e \in Happening : Happens(e)
    \/ \E w \in Notifier : NotifyStep(w) \/ WriteRowFails(w) \/ QueueNothing(w) \/ NotifierDies(w)
    \/ \E m \in Mention : ReadMessage(m)
    \/ Pause \/ Unpause \/ RingGoesStale \/ \E r \in pending : PendingComesDue(r)
    \/ \E d \in Digester : PassStep(d) \/ PassFails(d)

(* The group delivers until an event is acknowledged (StreamGroup), and each *)
(* digest job passes once a minute.                                          *)
NotifyFairness ==
    /\ \A w \in Notifier : WF_notifyVars(NotifyStep(w))
    /\ \A d \in Digester : WF_notifyVars(PassStep(d))

-----------------------------------------------------------------------------
(* Properties. *)

(* A mention whose event is acknowledged has its row, paused or not: what is *)
(* not announced is still listed.  Only a failed insert leaves none.         *)
AckedIsListed ==
    \A m \in (happened \ stream) \cap Mention : notice[m] # "none" \/ m \in excused

(* A ring is announced at most once, redelivered or held by two workers.     *)
RungOnce == rings <= 1

(* A mention queued for the digest is waiting, was told of in an email, or   *)
(* was read; one whose row failed is dropped as if it were read.  The digest *)
(* is put together before its rows are claimed, by two statements.           *)
QueuedIsNotLost ==
    \A r \in queued : r \in pending \/ r \in told \/ r[1] \in seen \cup excused

(* "A second chance for the person to read it, at which point nothing is     *)
(* sent at all": what was read before a pass began is not mailed.  A message *)
(* that was read before the worker had written its row is, as nothing marks  *)
(* the row later, and so is what is read while a pass is on.                 *)
ReadIsNotMailed == toldRead \subseteq excused

(* Every digest tells of something no digest has told of: of two jobs that   *)
(* read the same rows one finds nothing left to claim.                       *)
TellsSomethingNew == [][mails' # mails => ~(told' \subseteq told)]_notifyVars

(* What is due is mailed or dropped, unless the person is paused.            *)
DueIsFlushed == pending \cap due # {} /\ ~paused ~> pending \cap due = {} \/ paused

(* An event the group is done with is in the list, rings once, and waits   *)
(* for the digest until it is mailed or read.                              *)
NoticeSafety ==
    NotifyTypeOK /\ AckedIsListed /\ RungOnce /\ QueuedIsNotLost /\ ReadIsNotMailed
=============================================================================
