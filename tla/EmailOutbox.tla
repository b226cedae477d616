---------------------------- MODULE EmailOutbox ----------------------------
(***************************************************************************)
(* One row of outbound_emails and the workers that flush it                *)
(* (email/outbox.rs).  A claim counts an attempt and leases the row by     *)
(* moving next_attempt_at; the limit is applied when an attempt fails.     *)
(* Whether next_attempt_at has come is all that is told of time: "due",    *)
(* "later" (leased or backing off) or "never" (parked).                    *)
(***************************************************************************)
EXTENDS Naturals

CONSTANTS
    Mailer,         \* worker replicas
    MaxAttempts,    \* MAX_ATTEMPTS
    MaxMailFaults   \* bound: crashes and outcomes that could not be recorded

ASSUME EmailAssumption == MaxAttempts \in Nat \ {0} /\ MaxMailFaults \in Nat

VARIABLES
    mail,           \* the row: sent_at, next_attempt_at, attempts
    flush,          \* each worker: what it is about to do, and the attempts it was told
    deliveries,     \* history: times the mail server took the email
    lapses,         \* history: times next_attempt_at came with a claim's outcome open
    mailFaults

emailVars == <<mail, flush, deliveries, lapses, mailFaults>>

Waiting == [does |-> "wait", attempt |-> 0]

EmailInit ==
    /\ mail = [sent |-> FALSE, next |-> "none", attempts |-> 0, open |-> FALSE]
    /\ flush = [w \in Mailer |-> Waiting]
    /\ deliveries = 0 /\ lapses = 0 /\ mailFaults = 0

MailFault == mailFaults < MaxMailFaults /\ mailFaults' = mailFaults + 1

(* enqueue *)
Enqueue ==
    /\ mail.next = "none"
    /\ mail' = [mail EXCEPT !.next = "due"]
    /\ UNCHANGED <<flush, deliveries, lapses, mailFaults>>

(* Mutant: the claim leaves next_attempt_at alone. *)
ClaimedUnleased == [mail EXCEPT !.attempts = @ + 1, !.open = TRUE]

(* claim_due, its SET; open remembers that this claim has no outcome yet. *)
ClaimedRow == [mail EXCEPT !.attempts = @ + 1, !.next = "later", !.open = TRUE]

(* claim_due, its WHERE *)
MayClaimMail == ~mail.sent /\ mail.next = "due"

ClaimDue(w) ==
    /\ flush[w] = Waiting /\ MayClaimMail
    /\ mail.attempts < MaxAttempts + MaxMailFaults + 2
    /\ mail' = ClaimedRow
    /\ flush' = [flush EXCEPT ![w] = [does |-> "deliver", attempt |-> mail.attempts + 1]]
    /\ UNCHANGED <<deliveries, lapses, mailFaults>>

(* The mail server takes the email or refuses it. *)
Deliver(w) ==
    /\ flush[w].does = "deliver"
    /\ \/ flush' = [flush EXCEPT ![w].does = "sent"] /\ deliveries' = deliveries + 1
       \/ flush' = [flush EXCEPT ![w].does = "failed"] /\ UNCHANGED deliveries
    /\ UNCHANGED <<mail, lapses, mailFaults>>

(* The outcome of the latest claim is known, an older one's tells nothing. *)
Closes(w) == mail.open /\ flush[w].attempt # mail.attempts

MarkSent(w) ==
    /\ flush[w].does = "sent"
    /\ mail' = [mail EXCEPT !.sent = TRUE, !.open = Closes(w)]
    /\ flush' = [flush EXCEPT ![w] = Waiting]
    /\ UNCHANGED <<deliveries, lapses, mailFaults>>

(* mark_failed: attempts < MAX_ATTEMPTS, with the attempts the claim saw. *)
GivesUp(w) == flush[w].attempt >= MaxAttempts

MarkFailed(w) ==
    /\ flush[w].does = "failed"
    /\ mail' = [mail EXCEPT !.next = IF GivesUp(w) THEN "never" ELSE "later",
                            !.open = Closes(w)]
    /\ flush' = [flush EXCEPT ![w] = Waiting]
    /\ UNCHANGED <<deliveries, lapses, mailFaults>>

(* The outcome cannot be recorded, which is logged, or the worker dies. *)
LoseOutcome(w) ==
    /\ flush[w] # Waiting
    /\ MailFault
    /\ flush' = [flush EXCEPT ![w] = Waiting]
    /\ UNCHANGED <<mail, deliveries, lapses>>

(* next_attempt_at comes, whoever holds the row. *)
ComesDue ==
    /\ mail.next = "later"
    /\ mail' = [mail EXCEPT !.next = "due"]
    /\ lapses' = IF mail.open THEN lapses + 1 ELSE lapses
    /\ UNCHANGED <<flush, deliveries, mailFaults>>

FlushStep(w) == ClaimDue(w) \/ Deliver(w) \/ MarkSent(w) \/ MarkFailed(w)

EmailNext ==
    \/ Enqueue \/ ComesDue
    \/ \E w \in Mailer : FlushStep(w) \/ LoseOutcome(w)

(* start_outbox_worker loops for ever, and time passes. *)
EmailFairness == WF_emailVars(ComesDue) /\ \A w \in Mailer : WF_emailVars(FlushStep(w))

-----------------------------------------------------------------------------
(* Every variable stays in its domain. *)
EmailTypeOK ==
    /\ mail \in [sent : BOOLEAN, next : {"none", "due", "later", "never"},
                 attempts : 0..(MaxAttempts + MaxMailFaults + 2), open : BOOLEAN]
    /\ flush \in [Mailer -> [does : {"wait", "deliver", "sent", "failed"},
                             attempt : 0..(MaxAttempts + MaxMailFaults + 2)]]
    /\ deliveries \in Nat /\ lapses \in Nat /\ mailFaults \in 0..MaxMailFaults

(* "Past the attempt limit the email is parked, not retried": it is        *)
(* claimed MAX_ATTEMPTS times, and once more for every time it came due    *)
(* with the outcome of a claim still open (claim_due, mark_failed).        *)
AttemptsBounded == mail.attempts <= MaxAttempts + lapses

(* The email goes out once, and once more for every such time: "a leased   *)
(* email is not handed to a second worker", "a sent email is never claimed *)
(* again".                                                                 *)
DeliveriesBounded == deliveries <= 1 + lapses /\ (mail.sent => deliveries > 0)

(* An email that was queued is sent or parked in the end, whatever workers *)
(* die and outcomes get lost on the way.                                   *)
EmailSettles == mail.next = "due" ~> mail.sent \/ mail.next = "never"

(* The attempts at an email and the copies of it that arrive are bounded,  *)
(* whatever workers die and leases run out.                                *)
EmailSafety == EmailTypeOK /\ AttemptsBounded /\ DeliveriesBounded
=============================================================================
