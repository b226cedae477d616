----------------------------- MODULE Jobs_proof -----------------------------
(***************************************************************************)
(* The background jobs, for any replicas, limits and numbers of faults:    *)
(* emails, scheduled messages, reminders, exports, polls, notifications    *)
(* and slash commands each keep the promise their run checks.  The seven   *)
(* share no table, so each is taken by itself; a behaviour of MCJobs is    *)
(* one of one of these specifications.                                     *)
(***************************************************************************)
EXTENDS EmailOutbox, ScheduledMessages, Reminders, Exports, Polls, Notifications,
        SlashCommands, FiniteSetTheorems, TLAPS

EmailSpec == EmailInit /\ [][EmailNext]_emailVars

-----------------------------------------------------------------------------
(* Counting who is at work. *)

LEMMA JobsNobody == IsFiniteSet({}) /\ Cardinality({}) = 0
  BY FS_EmptySet

LEMMA JobsFewer ==
    ASSUME NEW S, IsFiniteSet(S), NEW T \in SUBSET S
    PROVE  /\ IsFiniteSet(T) /\ Cardinality(S) \in Nat /\ Cardinality(T) \in Nat
           /\ Cardinality(T) <= Cardinality(S)
  BY FS_Subset, FS_CardinalityType

LEMMA JobsOneMore ==
    ASSUME NEW S, IsFiniteSet(S), NEW x, x \notin S
    PROVE  /\ IsFiniteSet(S \cup {x}) /\ Cardinality(S) \in Nat
           /\ Cardinality(S \cup {x}) = Cardinality(S) + 1
  BY FS_AddElement, FS_CardinalityType

LEMMA JobsOneFewer ==
    ASSUME NEW S, IsFiniteSet(S), NEW x \in S
    PROVE  /\ IsFiniteSet(S \ {x}) /\ Cardinality(S) \in Nat
           /\ Cardinality(S \ {x}) = Cardinality(S) - 1
  BY FS_RemoveElement, FS_CardinalityType

(* Of at most one element. *)
LEMMA JobsAtMostOne ==
    ASSUME NEW S, \A x, y \in S : x = y
    PROVE  Cardinality(S) <= 1
  <1>1. CASE S = {}
    BY <1>1, FS_EmptySet
  <1>2. CASE S # {}
    <2>1. PICK x : x \in S
      BY <1>2
    <2>2. S = {x}
      BY <2>1
    <2> QED
      BY <2>2, FS_Singleton
  <1> QED
    BY <1>1, <1>2

-----------------------------------------------------------------------------
(* The email outbox. *)

(* Workers with an email in hand; those of them that were told an attempt  *)
(* below the limit, whose failure puts the email back; those that may yet  *)
(* deliver or put it back.                                                 *)
AtWork == {w \in Mailer : flush[w].does # "wait"}
Early == {w \in AtWork : flush[w].attempt < MaxAttempts}
Hopeful == {w \in AtWork : flush[w].does \in {"deliver", "failed"}}

(* The email will be claimed again unless somebody says otherwise. *)
Reopens == ~mail.sent /\ (mail.next = "due" \/ (mail.next = "later" /\ ~mail.open))
Undelivered == ~mail.sent /\ (mail.next \in {"none", "due"} \/ ~mail.open)

(* When the email is due every worker that holds it has let it lapse. *)
AtWorkOK ==
    /\ IsFiniteSet(AtWork)
    /\ Cardinality(AtWork) <= lapses + (IF mail.next = "due" \/ ~mail.open THEN 0 ELSE 1)
    /\ mail.next = "none" => mail.attempts = 0 /\ AtWork = {}

(* Every attempt that was made or can be brought about by those at work is *)
(* within the limit or has its lapse.                                      *)
AttemptsOK ==
    mail.attempts + Cardinality(Early) + (IF Reopens THEN 1 ELSE 0) <= MaxAttempts + lapses

(* So is every copy that was delivered or can be. *)
DeliveriesOK ==
    /\ deliveries + Cardinality(Hopeful) + (IF Undelivered THEN 1 ELSE 0) <= 1 + lapses
    /\ mail.sent \/ (\E w \in Mailer : flush[w].does = "sent") => deliveries > 0

EmailInv == EmailTypeOK /\ AtWorkOK /\ AttemptsOK /\ DeliveriesOK

LEMMA JobsEmailCounts ==
    ASSUME EmailInv
    PROVE  /\ IsFiniteSet(Early) /\ IsFiniteSet(Hopeful) /\ Cardinality(AtWork) \in Nat
           /\ Cardinality(Early) \in Nat /\ Cardinality(Hopeful) \in Nat
           /\ Cardinality(Early) <= Cardinality(AtWork)
  BY JobsFewer DEF EmailInv, AtWorkOK, Early, Hopeful

LEMMA JobsEmailInit == EmailInit => EmailInv
  <1> SUFFICES ASSUME EmailInit PROVE EmailInv
    OBVIOUS
  <1> USE EmailAssumption DEF EmailInit, Waiting
  <1>1. EmailTypeOK
    BY DEF EmailTypeOK
  <1>2. AtWork = {} /\ Early = {} /\ Hopeful = {}
    BY DEF AtWork, Early, Hopeful
  <1>3. AtWorkOK
    BY <1>2, JobsNobody DEF AtWorkOK
  <1>4. AttemptsOK
    BY <1>2, JobsNobody DEF AttemptsOK, Reopens
  <1>5. DeliveriesOK
    BY <1>2, JobsNobody DEF DeliveriesOK, Undelivered
  <1> QED
    BY <1>1, <1>3, <1>4, <1>5 DEF EmailInv

(* Nobody takes the email or lets go of it. *)
LEMMA JobsEmailRow ==
    ASSUME EmailInv, Enqueue \/ ComesDue
    PROVE  EmailInv'
  <1> USE EmailAssumption DEF Enqueue, ComesDue, EmailInv
  <1>1. EmailTypeOK'
    BY DEF EmailTypeOK
  <1>2. AtWork' = AtWork /\ Early' = Early /\ Hopeful' = Hopeful
    BY DEF AtWork, Early, Hopeful
  <1>3. AtWorkOK'
    BY <1>2, JobsEmailCounts, JobsNobody, SMTT(30) DEF AtWorkOK, EmailTypeOK
  <1>4. AttemptsOK'
    <2>1. mail.next = "none" => Early = {}
      BY DEF AtWorkOK, Early
    <2> QED
      BY <1>2, <2>1, JobsEmailCounts, JobsNobody
         DEF AttemptsOK, AtWorkOK, Reopens, EmailTypeOK
  <1>5. DeliveriesOK'
    BY <1>2, JobsEmailCounts DEF DeliveriesOK, Undelivered, EmailTypeOK
  <1> QED
    BY <1>1, <1>3, <1>4, <1>5

LEMMA JobsEmailClaim ==
    ASSUME EmailInv, NEW w \in Mailer, ClaimDue(w)
    PROVE  EmailInv'
  <1> USE EmailAssumption DEF ClaimDue, ClaimedRow, MayClaimMail, Waiting, EmailInv
  <1>1. EmailTypeOK'
    <2>1. mail.attempts + 1 \in 0..(MaxAttempts + MaxMailFaults + 2)
      BY DEF EmailTypeOK
    <2>2. mail' \in [sent : BOOLEAN, next : {"none", "due", "later", "never"},
                    attempts : 0..(MaxAttempts + MaxMailFaults + 2), open : BOOLEAN]
      BY <2>1 DEF EmailTypeOK
    <2>3. flush' \in [Mailer -> [does : {"wait", "deliver", "sent", "failed"},
                                attempt : 0..(MaxAttempts + MaxMailFaults + 2)]]
      BY <2>1 DEF EmailTypeOK
    <2> QED
      BY <2>2, <2>3 DEF EmailTypeOK
  <1>2. /\ flush'[w].does = "deliver" /\ flush'[w].attempt = mail.attempts + 1
        /\ \A v \in Mailer : v # w => flush'[v] = flush[v]
        /\ mail'.attempts = mail.attempts + 1 /\ mail'.next = "later" /\ mail'.open
        /\ mail'.sent = mail.sent
    BY DEF EmailTypeOK
  <1>3. /\ w \notin AtWork /\ AtWork' = AtWork \cup {w}
        /\ w \notin Early
        /\ Early' = IF mail.attempts + 1 < MaxAttempts THEN Early \cup {w} ELSE Early
        /\ w \notin Hopeful /\ Hopeful' = Hopeful \cup {w}
    BY <1>2 DEF AtWork, Early, Hopeful
  <1>4. /\ IsFiniteSet(AtWork') /\ Cardinality(AtWork') = Cardinality(AtWork) + 1
        /\ Cardinality(Hopeful') = Cardinality(Hopeful) + 1
        /\ mail.attempts + 1 < MaxAttempts => Cardinality(Early') = Cardinality(Early) + 1
        /\ ~(mail.attempts + 1 < MaxAttempts) => Cardinality(Early') = Cardinality(Early)
    BY <1>3, JobsOneMore, JobsEmailCounts DEF AtWorkOK
  <1>5. AtWorkOK'
    BY <1>2, <1>4, JobsEmailCounts DEF AtWorkOK, EmailTypeOK
  <1>6. AttemptsOK'
    BY <1>2, <1>4, JobsEmailCounts DEF AttemptsOK, AtWorkOK, Reopens, EmailTypeOK
  <1>7. DeliveriesOK'
    BY <1>2, <1>4, JobsEmailCounts DEF DeliveriesOK, Undelivered, EmailTypeOK
  <1> QED
    BY <1>1, <1>5, <1>6, <1>7

LEMMA JobsEmailDeliver ==
    ASSUME EmailInv, NEW w \in Mailer, Deliver(w)
    PROVE  EmailInv'
  <1> USE EmailAssumption DEF Deliver, EmailInv
  <1>1. EmailTypeOK'
    BY DEF EmailTypeOK
  <1>2. /\ flush[w].does = "deliver" /\ flush'[w].attempt = flush[w].attempt
        /\ \A v \in Mailer : v # w => flush'[v] = flush[v]
        /\ \/ flush'[w].does = "sent" /\ deliveries' = deliveries + 1
           \/ flush'[w].does = "failed" /\ deliveries' = deliveries
    BY DEF EmailTypeOK
  <1>3. /\ AtWork' = AtWork /\ Early' = Early
        /\ w \in Hopeful
        /\ Hopeful' = IF flush'[w].does = "sent" THEN Hopeful \ {w} ELSE Hopeful
    BY <1>2 DEF AtWork, Early, Hopeful
  <1>4. AtWorkOK' /\ AttemptsOK'
    BY <1>3 DEF AtWorkOK, AttemptsOK, Reopens
  <1>5. DeliveriesOK'
    <2>1. Cardinality(Hopeful \ {w}) = Cardinality(Hopeful) - 1
      BY <1>3, JobsOneFewer, JobsEmailCounts
    <2>2. Cardinality(Hopeful) \in Nat /\ deliveries \in Nat
      BY JobsEmailCounts DEF EmailTypeOK
    <2>3. deliveries' + Cardinality(Hopeful') = deliveries + Cardinality(Hopeful)
      BY <1>2, <1>3, <2>1, <2>2
    <2> QED
      BY <1>2, <2>3 DEF DeliveriesOK, Undelivered, EmailTypeOK
  <1> QED
    BY <1>1, <1>4, <1>5

(* A worker lets go of the email. *)
LEMMA JobsEmailEnd ==
    ASSUME EmailInv, NEW w \in Mailer, MarkSent(w) \/ MarkFailed(w) \/ LoseOutcome(w)
    PROVE  EmailInv'
  <1> USE EmailAssumption DEF EmailInv, Waiting
  <1>1. EmailTypeOK'
    <2>1. flush' \in [Mailer -> [does : {"wait", "deliver", "sent", "failed"},
                                attempt : 0..(MaxAttempts + MaxMailFaults + 2)]]
      BY DEF EmailTypeOK, MarkSent, MarkFailed, LoseOutcome
    <2>2. Closes(w) \in BOOLEAN
      BY DEF Closes, EmailTypeOK
    <2>3. mail' \in [sent : BOOLEAN, next : {"none", "due", "later", "never"},
                    attempts : 0..(MaxAttempts + MaxMailFaults + 2), open : BOOLEAN]
      BY <2>2 DEF EmailTypeOK, MarkSent, MarkFailed, LoseOutcome
    <2> QED
      BY <2>1, <2>3 DEF EmailTypeOK, MarkSent, MarkFailed, LoseOutcome, MailFault
  <1>2. /\ flush'[w].does = "wait" /\ \A v \in Mailer : v # w => flush'[v] = flush[v]
        /\ deliveries' = deliveries /\ lapses' = lapses
    BY DEF MarkSent, MarkFailed, LoseOutcome, EmailTypeOK
  <1>3. AtWork' = AtWork \ {w} /\ Early' = Early \ {w} /\ Hopeful' = Hopeful \ {w}
    BY <1>2 DEF AtWork, Early, Hopeful
  <1>4. /\ IsFiniteSet(AtWork') /\ Cardinality(AtWork') \in Nat /\ Cardinality(Early') \in Nat
        /\ Cardinality(AtWork') <= Cardinality(AtWork)
        /\ Cardinality(Early') <= Cardinality(Early)
        /\ Cardinality(Hopeful') \in Nat /\ Cardinality(Hopeful') <= Cardinality(Hopeful)
    BY <1>3, JobsFewer, JobsEmailCounts DEF AtWorkOK
  <1>5. CASE LoseOutcome(w)
    <2>1. mail' = mail
      BY <1>5 DEF LoseOutcome
    <2>2. AtWorkOK'
      BY <1>3, <1>4, <1>2, <2>1, JobsEmailCounts DEF AtWorkOK, EmailTypeOK
    <2>3. AttemptsOK'
      BY <1>4, <1>2, <2>1, JobsEmailCounts DEF AttemptsOK, Reopens, EmailTypeOK
    <2>4. DeliveriesOK'
      BY <1>4, <1>2, <2>1, JobsEmailCounts DEF DeliveriesOK, Undelivered, EmailTypeOK
    <2> QED
      BY <1>1, <2>2, <2>3, <2>4
  <1>6. CASE MarkSent(w) \/ MarkFailed(w)
    <2>1. /\ w \in AtWork /\ mail'.attempts = mail.attempts /\ mail'.open = Closes(w)
      BY <1>6 DEF MarkSent, MarkFailed, EmailTypeOK, AtWork
    <2>4. Cardinality(AtWork') = Cardinality(AtWork) - 1 /\ (mail'.open => mail.open)
      BY <1>3, <2>1, JobsOneFewer DEF AtWorkOK, Closes
    <2>2. CASE MarkSent(w)
      <3>1. mail'.sent /\ mail'.next = mail.next /\ deliveries > 0
        BY <2>2 DEF MarkSent, EmailTypeOK, DeliveriesOK
      <3>2. AtWorkOK'
        BY <1>2, <1>4, <2>1, <2>4, <3>1, JobsEmailCounts DEF AtWorkOK, EmailTypeOK
      <3>3. AttemptsOK'
        BY <1>2, <1>4, <2>1, <3>1, JobsEmailCounts DEF AttemptsOK, Reopens, EmailTypeOK
      <3>4. DeliveriesOK'
        BY <1>2, <1>4, <3>1, JobsEmailCounts DEF DeliveriesOK, Undelivered, EmailTypeOK
      <3> QED
        BY <1>1, <3>2, <3>3, <3>4
    <2>3. CASE MarkFailed(w)
      <3>1. /\ mail'.sent = mail.sent
            /\ mail'.next = IF flush[w].attempt >= MaxAttempts THEN "never" ELSE "later"
        BY <2>3 DEF MarkFailed, GivesUp, EmailTypeOK
      <3>6. w \in Hopeful /\ (mail'.next = "later" => w \in Early)
        BY <2>3, <3>1 DEF MarkFailed, AtWork, Early, Hopeful, EmailTypeOK
      <3>2. /\ Cardinality(Hopeful') = Cardinality(Hopeful) - 1
            /\ mail'.next = "later" => Cardinality(Early') = Cardinality(Early) - 1
        BY <1>3, <3>6, JobsOneFewer, JobsEmailCounts
      <3>3. AtWorkOK'
        BY <1>2, <1>4, <2>1, <2>4, <3>1, JobsEmailCounts DEF AtWorkOK, EmailTypeOK
      <3>4. AttemptsOK'
        BY <1>2, <1>4, <2>1, <3>1, <3>2, JobsEmailCounts
           DEF AttemptsOK, Reopens, EmailTypeOK
      <3>5. DeliveriesOK'
        BY <1>2, <1>4, <3>1, <3>2, JobsEmailCounts
           DEF DeliveriesOK, Undelivered, EmailTypeOK
      <3> QED
        BY <1>1, <3>3, <3>4, <3>5
    <2> QED
      BY <1>6, <2>2, <2>3
  <1> QED
    BY <1>5, <1>6

(* "Past the attempt limit the email is parked, not retried": whatever     *)
(* workers die and leases run out, claim_due and mark_failed keep within   *)
(* MAX_ATTEMPTS attempts and one copy, and one more of each for every time *)
(* the email came due with a claim's outcome open.                         *)
THEOREM JobsEmailSafety == EmailSpec => []EmailSafety
  <1>1. EmailInit => EmailInv
    BY JobsEmailInit
  <1>2. EmailInv /\ [EmailNext]_emailVars => EmailInv'
    <2> SUFFICES ASSUME EmailInv, [EmailNext]_emailVars PROVE EmailInv'
      OBVIOUS
    <2>1. CASE UNCHANGED emailVars
      BY <2>1 DEF emailVars, EmailInv, EmailTypeOK, AtWorkOK, AttemptsOK, DeliveriesOK,
         AtWork,
             Early, Hopeful, Reopens, Undelivered
    <2>2. CASE EmailNext
      BY <2>2, JobsEmailRow, JobsEmailClaim, JobsEmailDeliver, JobsEmailEnd
         DEF EmailNext, FlushStep
    <2> QED
      BY <2>1, <2>2
  <1>3. EmailInv => EmailSafety
    <2> SUFFICES ASSUME EmailInv PROVE AttemptsBounded /\ DeliveriesBounded
      BY DEF EmailInv, EmailSafety
    <2> QED
      BY EmailAssumption, JobsEmailCounts
         DEF EmailInv, EmailTypeOK, AttemptsOK, DeliveriesOK,
         AttemptsBounded, DeliveriesBounded
  <1> QED
    BY <1>1, <1>2, <1>3, PTL DEF EmailSpec

-----------------------------------------------------------------------------
(* Scheduled messages. *)

ScheduledSpec == ScheduledInit /\ [][ScheduledNext]_scheduledVars

(* While a sender is at it the row reads as sent, nobody else can claim it *)
(* and the author has no request open on it; once it is posted that stays  *)
(* so.                                                                     *)
SendingOK ==
    ~raced /\ ~unsure =>
        /\ posts <= 1
        /\ Busy \/ posts > 0 => item.sent /\ ~item.failure /\ edit = "none"
        /\ posts > 0 => ~Busy
        /\ item.failure => item.sent
        /\ \A s, t \in Sender : sending[s] # "idle" /\ sending[t] # "idle" => s = t

(* Who is about to post was let in. *)
LetIn == \A s \in Sender : sending[s] = "post" => access \/ lostLate

ScheduledInv == ScheduledTypeOK /\ SendingOK /\ SentIsPosted /\ LetIn

ItemType == [exists : BOOLEAN, due : BOOLEAN, sent : BOOLEAN, canceled : BOOLEAN,
             failure : BOOLEAN]

LEMMA JobsScheduledType ==
    ASSUME ScheduledTypeOK, [ScheduledNext]_scheduledVars
    PROVE  ScheduledTypeOK'
  <1> USE ScheduledAssumption DEF fates
  <1>1. CASE UNCHANGED scheduledVars
    BY <1>1 DEF ScheduledTypeOK, scheduledVars
  <1>2. CASE ScheduledNext
    <2>1. /\ item \in ItemType /\ sending \in [Sender -> {"idle", "authorize", "post", "fail"}]
          /\ edit \in {"none", "reschedule", "cancel"} /\ posts \in Nat
          /\ access \in BOOLEAN /\ raced \in BOOLEAN /\ withdrawing \in BOOLEAN
          /\ lostLate \in BOOLEAN /\ unsure \in BOOLEAN /\ vanished \in BOOLEAN
          /\ edits \in 0..MaxEdits /\ sendFaults \in 0..MaxSendFaults
      BY DEF ScheduledTypeOK, ItemType
    <2>2. item' \in ItemType
      <3>1. (item.canceled \/ (item.exists /\ ~item.sent)) \in BOOLEAN
        OBVIOUS
      <3> QED
        BY <1>2, <2>1, <3>1 DEF ItemType, ScheduledNext, SendStep, CreateScheduled,
           SendTimeComes,
           Reschedule, Rescheduled, Cancel, LoseAccess, Withdraw, OpenEdit, ClaimScheduled,
           ClaimNow, Authorize, Post, RecordFailure, FailedRow, SenderDies
    <2>3. sending' \in [Sender -> {"idle", "authorize", "post", "fail"}]
      BY <1>2, <2>1 DEF ScheduledNext, SendStep, CreateScheduled, SendTimeComes,
         Reschedule, Cancel,
         LoseAccess, Withdraw, OpenEdit, ClaimScheduled, ClaimNow, Authorize, Post,
         RecordFailure, SenderDies, Moves
    <2>4. edit' \in {"none", "reschedule", "cancel"} /\ posts' \in Nat
      BY <1>2, <2>1 DEF ScheduledNext, SendStep, CreateScheduled, SendTimeComes,
         Reschedule, Cancel,
         LoseAccess, Withdraw, OpenEdit, ClaimScheduled, ClaimNow, Authorize, Post,
         RecordFailure, SenderDies
    <2>5. /\ access' \in BOOLEAN /\ raced' \in BOOLEAN /\ withdrawing' \in BOOLEAN
          /\ lostLate' \in BOOLEAN /\ unsure' \in BOOLEAN /\ vanished' \in BOOLEAN
      <3>1. /\ (raced \/ edit # "none") \in BOOLEAN /\ (raced \/ Busy) \in BOOLEAN
            /\ (lostLate \/ \E s \in Sender : sending[s] = "post") \in BOOLEAN
        BY Zenon
      <3> QED
        BY <1>2, <2>1, <3>1, ZenonT(40) DEF ScheduledNext, SendStep, CreateScheduled,
           SendTimeComes, Reschedule,
           Cancel, LoseAccess, Withdraw, OpenEdit, ClaimScheduled, ClaimNow, Authorize, Post,
           RecordFailure, SenderDies
    <2>6. edits' \in 0..MaxEdits /\ sendFaults' \in 0..MaxSendFaults
      BY <1>2, <2>1 DEF ScheduledNext, SendStep, CreateScheduled, SendTimeComes,
         Reschedule, Cancel,
         LoseAccess, Withdraw, OpenEdit, ClaimScheduled, ClaimNow, Authorize, Post,
         RecordFailure, SenderDies, SendFault
    <2> QED
      BY <2>2, <2>3, <2>4, <2>5, <2>6 DEF ScheduledTypeOK, ItemType
  <1> QED
    BY <1>1, <1>2

(* The row and the author: no sender moves. *)
LEMMA JobsScheduledRow ==
    ASSUME ScheduledInv,
           \/ CreateScheduled \/ SendTimeComes \/ Reschedule \/ Cancel \/ LoseAccess \/ Withdraw
           \/ OpenEdit("reschedule") \/ OpenEdit("cancel")
    PROVE  SendingOK' /\ SentIsPosted' /\ LetIn'
  <1> USE DEF ScheduledInv, ScheduledTypeOK
  <1>1. sending' = sending /\ posts' = posts /\ unsure' = unsure /\ vanished' = vanished
    BY DEF CreateScheduled, SendTimeComes, Reschedule, Cancel, LoseAccess, Withdraw,
       OpenEdit, fates
  <1>2. Busy' = Busy
    BY <1>1 DEF Busy
  <1>3. \/ item'.sent = item.sent /\ item'.failure = item.failure
        \/ edit # "none" /\ ~item'.sent /\ ~item'.failure
    BY DEF CreateScheduled, SendTimeComes, Reschedule, Rescheduled, Cancel, LoseAccess,
       Withdraw,
       OpenEdit
  <1>4. \/ raced' = raced /\ edit' \in {edit, "none"}
        \/ raced' = (raced \/ Busy) /\ (~item.sent \/ item.failure)
    BY DEF CreateScheduled, SendTimeComes, Reschedule, Cancel, LoseAccess, Withdraw,
       OpenEdit, Open
  <1>5. SendingOK'
    BY <1>1, <1>2, <1>3, <1>4 DEF SendingOK
  <1>6. SentIsPosted'
    BY <1>1, <1>2, <1>3 DEF SentIsPosted
  <1>7. LetIn'
    BY <1>1 DEF LetIn, CreateScheduled, SendTimeComes, Reschedule, Cancel, LoseAccess,
       Withdraw,
       OpenEdit, fates
  <1> QED
    BY <1>5, <1>6, <1>7

LEMMA JobsScheduledClaim ==
    ASSUME ScheduledInv, NEW s \in Sender, ClaimScheduled(s) \/ ClaimNow(s)
    PROVE  SendingOK' /\ SentIsPosted' /\ LetIn'
  <1> USE DEF ScheduledInv, ScheduledTypeOK
  <1>1. /\ UNCHANGED <<posts, unsure, vanished, access, lostLate, edit>>
        /\ ~item.sent \/ item.failure
        /\ item'.sent /\ (~item'.failure \/ (item.failure /\ ~item.sent))
        /\ raced' = (raced \/ edit # "none")
        /\ sending' = [sending EXCEPT ![s] = "authorize"]
    BY DEF ClaimScheduled, ClaimNow, MayClaimDue, MayClaimNow, Moves, fates
  <1>2. SendingOK'
    <2> SUFFICES ASSUME ~raced', ~unsure' PROVE SendingOK'
      BY DEF SendingOK
    <2>1. ~raced /\ ~unsure /\ edit = "none" /\ ~Busy /\ ~(posts > 0) /\ ~item'.failure
      BY <1>1 DEF SendingOK
    <2> QED
      BY <1>1, <2>1 DEF SendingOK, Busy
  <1>3. SentIsPosted' /\ LetIn'
    BY <1>1 DEF SentIsPosted, LetIn, Busy
  <1> QED
    BY <1>2, <1>3

LEMMA JobsScheduledSend ==
    ASSUME ScheduledInv, NEW s \in Sender,
           Authorize(s) \/ Post(s) \/ RecordFailure(s) \/ SenderDies(s)
    PROVE  SendingOK' /\ SentIsPosted' /\ LetIn'
  <1> USE DEF ScheduledInv, ScheduledTypeOK
  <1>1. /\ UNCHANGED <<raced, edit, access, lostLate>> /\ sending[s] # "idle" /\ Busy
        /\ \A t \in Sender : t # s => sending'[t] = sending[t]
    BY DEF Authorize, Post, RecordFailure, SenderDies, Moves, fates, Busy
  <1>2. \/ /\ sending'[s] # "idle" /\ UNCHANGED <<item, posts, unsure>>
        \/ /\ sending'[s] # "idle" /\ unsure' /\ posts' > 0 /\ UNCHANGED item
        \/ /\ sending'[s] = "idle" /\ posts' = posts + 1 /\ UNCHANGED <<item, unsure>>
        \/ /\ sending'[s] = "idle" /\ item' = FailedRow /\ UNCHANGED <<posts, unsure>>
        \/ /\ sending'[s] = "idle" /\ vanished' /\ UNCHANGED <<item, posts, unsure>>
    BY DEF Authorize, Post, RecordFailure, SenderDies, Moves, fates
  <1>3. vanished => vanished'
    BY DEF Authorize, Post, RecordFailure, SenderDies, fates
  <1>4. SendingOK'
    <2> SUFFICES ASSUME ~raced', ~unsure' PROVE SendingOK'
      BY DEF SendingOK
    <2>1. ~raced /\ ~unsure
      BY <1>1, <1>2 DEF Post, Authorize, RecordFailure, SenderDies, fates
    <2>2. /\ posts = 0 /\ item.sent /\ ~item.failure /\ edit = "none"
          /\ \A t \in Sender : t # s => sending'[t] = "idle" /\ sending[t] = "idle"
      BY <1>1, <2>1 DEF SendingOK
    <2>3. CASE sending'[s] # "idle"
      BY <1>1, <1>2, <2>1, <2>2, <2>3 DEF SendingOK, Busy
    <2>4. CASE sending'[s] = "idle"
      <3>1. ~Busy'
        BY <2>2, <2>4 DEF Busy
      <3> QED
        BY <1>1, <1>2, <2>1, <2>2, <2>4, <3>1 DEF SendingOK, FailedRow
    <2> QED
      BY <2>3, <2>4
  <1>5. SentIsPosted'
    BY <1>1, <1>2, <1>3 DEF SentIsPosted, Busy, FailedRow
  <1>6. LetIn'
    BY <1>1 DEF LetIn, Authorize, Authorized, Post, RecordFailure, SenderDies, Moves
  <1> QED
    BY <1>4, <1>5, <1>6

LEMMA JobsScheduledInvariant == ScheduledSpec => []ScheduledInv
  <1>1. ScheduledInit => ScheduledInv
    <2> SUFFICES ASSUME ScheduledInit PROVE ScheduledInv
      OBVIOUS
    <2> USE DEF ScheduledInit
    <2>1. ScheduledTypeOK
      <3>1. {access, raced, withdrawing, lostLate, unsure, vanished} \subseteq BOOLEAN
        BY Zenon
      <3> QED
        BY <3>1, ScheduledAssumption DEF ScheduledTypeOK
    <2>2. SendingOK /\ SentIsPosted /\ LetIn
      BY DEF SendingOK, SentIsPosted, LetIn, Busy
    <2> QED
      BY <2>1, <2>2 DEF ScheduledInv
  <1>2. ScheduledInv /\ [ScheduledNext]_scheduledVars => ScheduledInv'
    <2> SUFFICES ASSUME ScheduledInv, [ScheduledNext]_scheduledVars PROVE ScheduledInv'
      OBVIOUS
    <2>1. ScheduledTypeOK'
      BY JobsScheduledType DEF ScheduledInv
    <2>2. CASE UNCHANGED scheduledVars
      BY <2>1, <2>2 DEF scheduledVars, fates, ScheduledInv, SendingOK, SentIsPosted,
         LetIn, Busy
    <2>3. CASE ScheduledNext
      BY <2>1, <2>3, JobsScheduledRow, JobsScheduledClaim, JobsScheduledSend
         DEF ScheduledNext, SendStep, ScheduledInv
    <2> QED
      BY <2>2, <2>3
  <1> QED
    BY <1>1, <1>2, PTL DEF ScheduledSpec

(* "Two api replicas running the dispatcher cannot deliver the same row    *)
(* twice", and a row that reads as sent was posted or is being sent, with  *)
(* the exceptions the property names (claim_due, claim_now, deliver_now).  *)
THEOREM JobsScheduledSafety == ScheduledSpec => []ScheduledSafety
  <1>1. ScheduledInv => ScheduledSafety
    BY DEF ScheduledInv, SendingOK, ScheduledSafety, PostedOnce
  <1> QED
    BY <1>1, JobsScheduledInvariant, PTL

(* Nothing is posted without access, unless it is lost between the check   *)
(* of deliver_now and its commit.                                          *)
THEOREM JobsPostedWithAccess == ScheduledSpec => PostedWithAccess
  <1>1. ScheduledInv /\ [ScheduledNext]_scheduledVars =>
           [posts' > posts => access \/ lostLate]_scheduledVars
    <2> SUFFICES ASSUME ScheduledInv, ScheduledNext, posts' # posts PROVE access \/ lostLate
      BY DEF ScheduledInv, ScheduledTypeOK
    <2>1. \E s \in Sender : Post(s)
      BY DEF ScheduledNext, SendStep, CreateScheduled, SendTimeComes, Reschedule, Cancel,
         LoseAccess, Withdraw, OpenEdit, ClaimScheduled, ClaimNow, Authorize, RecordFailure,
         SenderDies
    <2> QED
      BY <2>1 DEF Post, ScheduledInv, LetIn
  <1> QED
    BY <1>1, JobsScheduledInvariant, PTL DEF ScheduledSpec, PostedWithAccess

-----------------------------------------------------------------------------
(* Reminders. *)

ReminderSpec == ReminderInit /\ [][ReminderNext]_reminderVars

Holds(c, n) == check[c] # AtRest /\ check[c].setting = n

(* Who delivers or releases has a setting that was made; what is not yet   *)
(* set was not pushed; an item with a time was set.                        *)
HoldingOK ==
    /\ \A c \in Checker : /\ check[c].does = "rest" => check[c] = AtRest
                          /\ check[c] # AtRest => check[c].setting \in 1..later.setting
    /\ \A n \in Setting : n > later.setting => pushes[n] = 0
    /\ later.at # "never" \/ later.reminded => later.setting > 0

(* One checker holds a setting, before it is pushed; meanwhile and ever    *)
(* after the setting cannot be claimed: it is stamped or has no time.      *)
ClaimOK ==
    ~lateRelease => \A n \in Setting :
        /\ pushes[n] <= 1
        /\ \A c, d \in Checker : Holds(c, n) /\ Holds(d, n) => c = d
        /\ \A c \in Checker : Holds(c, n) => pushes[n] = 0
        /\ n = later.setting /\ (pushes[n] > 0 \/ \E c \in Checker : Holds(c, n)) =>
               later.reminded \/ later.at = "never"

ReminderInv == ReminderTypeOK /\ HoldingOK /\ ClaimOK /\ StampedIsPushed

LaterType == [status : {"none", "in_progress", "completed"}, at : {"never", "later", "due"},
              reminded : BOOLEAN, setting : 0..MaxSettings]

LEMMA JobsReminderOwner ==
    ASSUME ReminderInv,
           \/ SetReminder \/ SaveAgain \/ Complete \/ ClearReminder \/ LoseSight \/ RemindTimeComes
    PROVE  ReminderInv'
  <1> USE ReminderAssumption DEF ReminderInv, reminderPast
  <1>1. /\ UNCHANGED <<check, pushes, dropped, forgotten, lateRelease, checkFaults>>
        /\ \/ later'.setting = later.setting + 1 /\ ~later'.reminded
           \/ /\ later'.setting = later.setting /\ (later.reminded <=> later'.reminded)
              /\ later'.at = later.at \/ (later.at = "later" /\ later'.at = "due")
           \/ later'.setting = later.setting /\ later'.at = "never" /\ ~later'.reminded
    <2>1. CASE SetReminder
      BY <2>1 DEF SetReminder, ReminderTypeOK
    <2>2. CASE SaveAgain \/ Complete \/ LoseSight
      BY <2>2 DEF SaveAgain, Complete, LoseSight, ReminderTypeOK
    <2>3. CASE ClearReminder \/ RemindTimeComes
      BY <2>3 DEF ClearReminder, RemindTimeComes, ReminderTypeOK
    <2> QED
      BY <2>1, <2>2, <2>3
  <1>2. ReminderTypeOK'
    <2>3. later \in LaterType /\ canSee \in BOOLEAN /\ lateRelease \in BOOLEAN
      BY DEF ReminderTypeOK, LaterType
    <2>1. later' \in LaterType
      <3>1. CASE SetReminder
        BY <2>3, <3>1 DEF SetReminder, LaterType
      <3>2. CASE SaveAgain \/ Complete \/ LoseSight
        BY <2>3, <3>2 DEF SaveAgain, Complete, LoseSight, LaterType
      <3>3. CASE ClearReminder \/ RemindTimeComes
        BY <2>3, <3>3 DEF ClearReminder, RemindTimeComes, LaterType
      <3> QED
        BY <3>1, <3>2, <3>3
    <2>2. canSee' \in BOOLEAN /\ lateRelease' \in BOOLEAN /\ changes' \in 0..MaxChanges
      <3>1. canSee' \in BOOLEAN
        BY <2>3 DEF SetReminder, SaveAgain, Complete, ClearReminder, LoseSight,
           RemindTimeComes
      <3>2. changes' \in 0..MaxChanges
        BY DEF SetReminder, SaveAgain, Complete, ClearReminder, LoseSight, RemindTimeComes,
           ReminderTypeOK, Change
      <3> QED
        BY <1>1, <2>3, <3>1, <3>2
    <2> QED
      BY <1>1, <2>1, <2>2 DEF ReminderTypeOK, LaterType
  <1>3. HoldingOK'
    BY <1>1, <1>2 DEF HoldingOK, ReminderTypeOK, Setting
  <1>4. ClaimOK'
    <2>1. \A c \in Checker, n \in Setting : Holds(c, n)' = Holds(c, n)
      BY <1>1 DEF Holds, AtRest
    <2>2. later'.setting # later.setting =>
             /\ later'.setting > later.setting
             /\ \A c \in Checker : ~Holds(c, later'.setting)
      BY <1>1 DEF Holds, HoldingOK, ReminderTypeOK
    <2> QED
      BY <1>1, <1>2, <2>1, <2>2 DEF ClaimOK, HoldingOK, ReminderTypeOK, Setting
  <1>5. StampedIsPushed'
    BY <1>1 DEF StampedIsPushed, AtRest
  <1> QED
    BY <1>2, <1>3, <1>4, <1>5

LEMMA JobsReminderClaim ==
    ASSUME ReminderInv, NEW c \in Checker, ClaimReminder(c)
    PROVE  ReminderInv'
  <1> USE ReminderAssumption DEF ReminderInv, reminderPast, ClaimReminder, MayRemind
  <1>1. /\ UNCHANGED <<canSee, pushes, dropped, forgotten, lateRelease, changes, checkFaults>>
        /\ later'.setting = later.setting /\ later'.at = "due" /\ later'.reminded
        /\ later.at = "due" /\ ~later.reminded /\ later.setting > 0 /\ later.setting \in Setting
        /\ check[c] = AtRest /\ check'[c] # AtRest
        /\ check'[c].setting = later.setting /\ check'[c].does = "deliver"
        /\ \A d \in Checker : d # c => check'[d] = check[d]
    BY DEF ReminderTypeOK, HoldingOK, Setting, AtRest
  <1>2. ReminderTypeOK'
    BY DEF ReminderTypeOK, LaterType
  <1>3. HoldingOK'
    BY <1>1, <1>2 DEF HoldingOK, ReminderTypeOK, Setting, AtRest
  <1>4. ClaimOK'
    <2> SUFFICES ASSUME ~lateRelease PROVE ClaimOK'
      BY <1>1 DEF ClaimOK
    <2>1. /\ \A d \in Checker : ~Holds(d, later.setting)
          /\ ~(pushes[later.setting] > 0)
      BY <1>1 DEF ClaimOK
    <2>2. /\ Holds(c, later.setting)' /\ \A n \in Setting : n # later.setting => ~Holds(c, n)'
          /\ \A d \in Checker, n \in Setting : d # c => Holds(d, n)' = Holds(d, n)
          /\ \A n \in Setting : ~Holds(c, n)
      BY <1>1 DEF Holds, AtRest
    <2> QED
      BY <1>1, <2>1, <2>2 DEF ClaimOK, ReminderTypeOK
  <1>5. StampedIsPushed'
    BY <1>1 DEF StampedIsPushed
  <1> QED
    BY <1>2, <1>3, <1>4, <1>5

(* A checker ends, or goes on to release what it could not push. *)
LEMMA JobsReminderEnd ==
    ASSUME ReminderInv, NEW c \in Checker, Push(c) \/ Release(c) \/ CheckerDies(c)
    PROVE  ReminderInv'
  <1> DEFINE n == check[c].setting
  <1> USE ReminderAssumption DEF ReminderInv
  <1>1. /\ check[c] # AtRest /\ n \in Setting /\ n \in 1..later.setting
        /\ check'[c] = AtRest \/ (check'[c].does = "release" /\ check'[c].setting = n)
        /\ \A d \in Checker : d # c => check'[d] = check[d]
    BY DEF Push, Release, CheckerDies, HoldingOK, ReminderTypeOK, Setting, AtRest
  <1>2. \/ /\ UNCHANGED <<later, lateRelease>> /\ check'[c] = AtRest
           /\ pushes' = [pushes EXCEPT ![n] = @ + 1] /\ UNCHANGED <<dropped, forgotten>>
        \/ /\ UNCHANGED <<later, lateRelease, pushes>>
           /\ dropped \subseteq dropped' /\ forgotten \subseteq forgotten'
           /\ check'[c] = AtRest => n \in dropped' \cup forgotten'
        \/ /\ UNCHANGED <<pushes, dropped, forgotten>> /\ check'[c] = AtRest
           /\ later' = Released /\ (lateRelease' <=> lateRelease \/ n # later.setting)
    <2>1. CASE Push(c)
      BY <1>1, <2>1 DEF Push, AtRest, ReminderTypeOK
    <2>2. CASE Release(c)
      BY <1>1, <2>2 DEF Release, ReminderTypeOK
    <2>3. CASE CheckerDies(c)
      BY <1>1, <2>3 DEF CheckerDies, ReminderTypeOK
    <2> QED
      BY <2>1, <2>2, <2>3
  <1>3. ReminderTypeOK'
    <2>1. later' \in LaterType /\ lateRelease' \in BOOLEAN /\ canSee' \in BOOLEAN
      BY DEF Push, Release, Released, CheckerDies, ReminderTypeOK, LaterType
    <2>2. /\ check' \in [Checker -> [does : {"rest", "deliver", "release"}, setting : 0..MaxSettings]]
      BY DEF Push, Release, CheckerDies, ReminderTypeOK, AtRest
    <2>3. /\ pushes' \in [Setting -> Nat] /\ dropped' \subseteq Setting /\ forgotten' \subseteq Setting
      BY <1>1 DEF Push, Release, CheckerDies, ReminderTypeOK
    <2>4. changes' \in 0..MaxChanges /\ checkFaults' \in 0..MaxCheckFaults
      BY DEF Push, Release, CheckerDies, ReminderTypeOK, CheckFault
    <2> QED
      BY <2>1, <2>2, <2>3, <2>4 DEF ReminderTypeOK, LaterType
  <1>4. later'.setting = later.setting /\ later'.at = later.at
    BY <1>2 DEF Released, ReminderTypeOK
  <1>5. HoldingOK'
    <2>1. \A d \in Checker : /\ check'[d].does = "rest" => check'[d] = AtRest
                             /\ check'[d] # AtRest => check'[d].setting \in 1..later.setting
      BY <1>1 DEF HoldingOK
    <2>2. \A m \in Setting : m > later.setting => pushes'[m] = 0
      BY <1>1, <1>2 DEF HoldingOK, ReminderTypeOK
    <2>3. later'.at # "never" \/ later'.reminded => later.setting > 0
      BY <1>1, <1>4 DEF HoldingOK, ReminderTypeOK
    <2> QED
      BY <1>4, <2>1, <2>2, <2>3 DEF HoldingOK
  <1>6. ClaimOK'
    <2> SUFFICES ASSUME ~lateRelease', NEW m \in Setting
                 PROVE  /\ pushes'[m] <= 1
                        /\ \A d, e \in Checker : Holds(d, m)' /\ Holds(e, m)' => d = e
                        /\ \A d \in Checker : Holds(d, m)' => pushes'[m] = 0
                        /\ m = later.setting /\ (pushes'[m] > 0 \/ \E d \in Checker : Holds(d, m)')
                             => later'.reminded \/ later'.at = "never"
      BY <1>4 DEF ClaimOK
    <2>1. ~lateRelease /\ (later' = later \/ n = later.setting)
      BY <1>2
    <2>2. /\ \A d \in Checker : Holds(d, m)' => Holds(d, m)
          /\ check'[c] = AtRest => ~Holds(c, m)'
      BY <1>1 DEF Holds, AtRest
    <2>3. CASE m # n
      BY <1>1, <1>2, <1>4, <2>1, <2>2, <2>3 DEF ClaimOK, ReminderTypeOK, Holds
    <2>4. CASE m = n
      <3>1. /\ Holds(c, m) /\ pushes[m] = 0
            /\ \A d \in Checker : d # c => ~Holds(d, m)
            /\ m = later.setting => later.reminded \/ later.at = "never"
        BY <1>1, <2>1, <2>4 DEF ClaimOK, Holds
      <3> QED
        BY <1>1, <1>2, <1>4, <2>1, <2>2, <2>4, <3>1 DEF ReminderTypeOK
    <2> QED
      BY <2>3, <2>4
  <1>7. StampedIsPushed'
    <2> SUFFICES ASSUME later'.reminded
                 PROVE  \/ pushes'[later.setting] > 0
                        \/ later.setting \in dropped' \cup forgotten'
                        \/ \E d \in Checker : check'[d] # AtRest /\ check'[d].setting = later.setting
      BY <1>4 DEF StampedIsPushed
    <2>1. later' = later
      BY <1>2 DEF Released, ReminderTypeOK
    <2>2. \/ pushes[later.setting] > 0 \/ later.setting \in dropped \cup forgotten
          \/ \E d \in Checker : check[d] # AtRest /\ check[d].setting = later.setting
      BY <2>1 DEF StampedIsPushed
    <2>3. later.setting \in Setting
      BY <1>1 DEF ReminderTypeOK, Setting
    <2>4. CASE n = later.setting
      BY <1>1, <1>2, <2>1, <2>3, <2>4 DEF ReminderTypeOK, AtRest, Released
    <2>5. CASE n # later.setting
      BY <1>1, <1>2, <2>1, <2>2, <2>3, <2>5 DEF ReminderTypeOK, AtRest
    <2> QED
      BY <2>4, <2>5
  <1> QED
    BY <1>3, <1>5, <1>6, <1>7

(* A reminder is pushed once each time it is set, and what is stamped was  *)
(* pushed or is being delivered, with the exceptions the property names    *)
(* (claim_due, deliver, release).                                          *)
THEOREM JobsReminderSafety == ReminderSpec => []ReminderSafety
  <1>1. ReminderInit => ReminderInv
    <2> SUFFICES ASSUME ReminderInit PROVE ReminderInv
      OBVIOUS
    <2> USE ReminderAssumption DEF ReminderInit, AtRest
    <2>1. ReminderTypeOK
      <3>1. {canSee, lateRelease} \subseteq BOOLEAN
        BY Zenon
      <3> QED
        BY <3>1 DEF ReminderTypeOK
    <2>2. HoldingOK /\ ClaimOK /\ StampedIsPushed
      BY DEF HoldingOK, ClaimOK, StampedIsPushed, Holds, Setting
    <2> QED
      BY <2>1, <2>2 DEF ReminderInv
  <1>2. ReminderInv /\ [ReminderNext]_reminderVars => ReminderInv'
    <2> SUFFICES ASSUME ReminderInv, [ReminderNext]_reminderVars PROVE ReminderInv'
      OBVIOUS
    <2>1. CASE UNCHANGED reminderVars
      BY <2>1 DEF reminderVars, ReminderInv, ReminderTypeOK, HoldingOK, ClaimOK,
         StampedIsPushed, Holds
    <2>2. CASE ReminderNext
      BY <2>2, JobsReminderOwner, JobsReminderClaim, JobsReminderEnd
         DEF ReminderNext, CheckStep
    <2> QED
      BY <2>1, <2>2
  <1>3. ReminderInv => ReminderSafety
    BY DEF ReminderInv, ReminderSafety, ClaimOK, RemindedOnce
  <1> QED
    BY <1>1, <1>2, <1>3, PTL DEF ReminderSpec

-----------------------------------------------------------------------------
(* Exports. *)

ExportSpec == ExportInit /\ [][ExportNext]_exportVars

(* A worker that is not free has a job of its own that was asked for, and  *)
(* until it completes the job nobody can have downloaded anything.         *)
WorkerOK(w) ==
    /\ running[w] = Free \/ (running[w].does # "wait" /\ running[w].job \in Job)
    /\ running[w] # Free => export[running[w].job].status \notin {"none", "pending"}
    /\ running[w].does \in {"upload", "complete"} =>
           ~export[running[w].job].link /\ downloads[running[w].job] = 0
    /\ running[w].does = "complete" => running[w].job \in archive

WorkersOK ==
    /\ \A w \in Exporter : WorkerOK(w)
    /\ \A v, w \in Exporter : running[v].job = running[w].job /\ running[v] # Free => v = w

(* A job not yet claimed has no link, and a link was not used. *)
JobsOK ==
    \A j \in Job :
        /\ export[j].status \in {"none", "pending"} => ~export[j].link /\ downloads[j] = 0
        /\ export[j].link => j \in archive /\ downloads[j] = 0
        /\ downloads[j] <= 1
        /\ export[j].status = "running" =>
               j \in orphaned \/ \E w \in Exporter : running[w].job = j

ExportInv == ExportTypeOK /\ WorkersOK /\ JobsOK

LEMMA JobsExportRow ==
    ASSUME ExportInv, NEW j \in Job, RequestExport(j) \/ Download(j) \/ LinkExpires(j)
    PROVE  ExportInv'
  <1> USE ExportAssumption DEF ExportInv
  <1>1. /\ UNCHANGED <<running, archive, orphaned, exportFaults>>
        /\ \A i \in Job : i # j => export'[i] = export[i] /\ downloads'[i] = downloads[i]
        /\ \/ /\ export[j].status = "none" /\ export'[j].status = "pending"
              /\ downloads' = downloads /\ export'[j].link = export[j].link
           \/ /\ export[j].link /\ ~export'[j].link /\ export'[j].status = export[j].status
              /\ downloads'[j] \in {downloads[j], downloads[j] + 1}
    BY DEF RequestExport, Download, LinkTaken, LinkExpires, ExportTypeOK
  <1>2. ExportTypeOK'
    <2>1. CASE RequestExport(j)
      BY <2>1 DEF RequestExport, ExportTypeOK
    <2>2. CASE LinkExpires(j)
      BY <2>2, ZenonT(40) DEF LinkExpires, ExportTypeOK
    <2>3. CASE Download(j)
      <3>1. export' \in [Job -> [status : {"none", "pending", "running", "complete", "failed"},
                                 link : BOOLEAN]]
        BY <2>3 DEF Download, LinkTaken, ExportTypeOK
      <3>2. downloads' \in [Job -> Nat]
        BY <2>3 DEF Download, ExportTypeOK
      <3> QED
        BY <1>1, <3>1, <3>2 DEF ExportTypeOK
    <2> QED
      BY <2>1, <2>2, <2>3
  <1>3. JobsOK'
    BY <1>1, <1>2 DEF JobsOK, ExportTypeOK
  <1>4. WorkersOK'
    <2>1. ASSUME NEW w \in Exporter PROVE WorkerOK(w)'
      <3>1. WorkerOK(w)
        BY DEF WorkersOK
      <3>2. CASE running[w] = Free
        BY <1>1, <3>1, <3>2 DEF WorkerOK, Free
      <3>3. CASE running[w] # Free /\ running[w].job = j
        BY <1>1, <3>1, <3>3 DEF WorkerOK
      <3>4. CASE running[w] # Free /\ running[w].job # j
        BY <1>1, <3>1, <3>4 DEF WorkerOK
      <3> QED
        BY <3>2, <3>3, <3>4
    <2> QED
      BY <1>1, <2>1 DEF WorkersOK
  <1> QED
    BY <1>2, <1>3, <1>4

LEMMA JobsExportClaim ==
    ASSUME ExportInv, NEW w \in Exporter, NEW j \in Job, ClaimJob(w, j)
    PROVE  ExportInv'
  <1> USE ExportAssumption DEF ExportInv
  <1>1. /\ UNCHANGED <<archive, downloads, orphaned, exportFaults>>
        /\ running[w] = Free /\ export[j].status = "pending"
        /\ running'[w].does = "upload" /\ running'[w].job = j /\ running'[w] # Free
        /\ \A v \in Exporter : v # w => running'[v] = running[v]
        /\ \A i \in Job : i # j => export'[i] = export[i]
        /\ export'[j].status = "running" /\ export'[j].link = export[j].link
    BY DEF ClaimJob, MayRun, ExportTypeOK, Free
  <1>2. ExportTypeOK'
    BY DEF ClaimJob, ExportTypeOK
  <1>3. \A v \in Exporter : running[v].job # j
    BY <1>1 DEF WorkersOK, WorkerOK, Free
  <1>4. WorkersOK'
    <2>1. WorkerOK(w)'
      BY <1>1 DEF WorkerOK, JobsOK
    <2>2. ASSUME NEW v \in Exporter, v # w PROVE WorkerOK(v)'
      <3>1. WorkerOK(v) /\ running'[v] = running[v] /\ running[v].job # j
        BY <1>1, <1>3, <2>2 DEF WorkersOK
      <3>2. CASE running[v] = Free
        BY <3>1, <3>2 DEF WorkerOK, Free
      <3>3. CASE running[v] # Free
        BY <1>1, <3>1, <3>3 DEF WorkerOK
      <3> QED
        BY <3>2, <3>3
    <2>3. \A u, v \in Exporter : running'[u].job = running'[v].job /\ running'[u] # Free => u = v
      BY <1>1, <1>3 DEF WorkersOK
    <2> QED
      BY <2>1, <2>2, <2>3 DEF WorkersOK, Free
  <1>5. JobsOK'
    BY <1>1 DEF JobsOK, Free
  <1> QED
    BY <1>2, <1>4, <1>5

LEMMA JobsExportWork ==
    ASSUME ExportInv, NEW w \in Exporter,
           Upload(w) \/ CompleteExport(w) \/ FailExport(w) \/ ExporterDies(w)
    PROVE  ExportInv'
  <1> DEFINE j == running[w].job
  <1> USE ExportAssumption DEF ExportInv
  <1>1. /\ running[w] # Free /\ j \in Job /\ downloads' = downloads
        /\ running'[w] = Free \/ (running'[w].does \in {"complete", "fail"} /\ running'[w].job = j)
        /\ \A v \in Exporter : v # w => running'[v] = running[v] /\ running[v].job # j
        /\ \A i \in Job : i # j => export'[i] = export[i]
    BY DEF Upload, CompleteExport, FailExport, FailedJob, ExporterDies, Frees, ExportTypeOK,
       WorkersOK, WorkerOK, Free
  <1>2. /\ archive \subseteq archive' /\ orphaned \subseteq orphaned'
        /\ \/ running[w].does = "upload" /\ export' = export /\ running'[w] # Free
              /\ (running'[w].does = "complete" => j \in archive')
           \/ /\ running[w].does = "complete" /\ export'[j].status = "complete" /\ export'[j].link
              /\ running'[w] = Free \/ running'[w].does = "fail"
           \/ running'[w].does = "fail" /\ running'[w] # Free /\ export' = export
           \/ /\ running'[w] = Free /\ export'[j].status = "failed"
              /\ export'[j].link = export[j].link
           \/ running'[w] = Free /\ export' = export /\ j \in orphaned'
    <2>1. CASE Upload(w)
      BY <1>1, <2>1 DEF Upload, ExportTypeOK, Free
    <2>2. CASE CompleteExport(w)
      BY <1>1, <2>2 DEF CompleteExport, Frees, ExportTypeOK, Free
    <2>3. CASE FailExport(w)
      BY <1>1, <2>3 DEF FailExport, FailedJob, Frees, ExportTypeOK
    <2>4. CASE ExporterDies(w)
      BY <1>1, <2>4 DEF ExporterDies, Frees, ExportTypeOK
    <2> QED
      BY <2>1, <2>2, <2>3, <2>4
  <1>3. ExportTypeOK'
    <2>1. export' \in [Job -> [status : {"none", "pending", "running", "complete", "failed"},
                               link : BOOLEAN]]
      <3>1. CASE export' = export
        BY <3>1 DEF ExportTypeOK
      <3>2. CASE export' = [export EXCEPT ![j] = [status |-> "complete", link |-> TRUE]]
        BY <1>1, <3>2 DEF ExportTypeOK
      <3>3. CASE export' = FailedJob(j)
        BY <1>1, <3>3 DEF FailedJob, ExportTypeOK
      <3> QED
        BY <3>1, <3>2, <3>3 DEF Upload, CompleteExport, FailExport, ExporterDies
    <2>2. running' \in [Exporter -> [does : {"wait", "upload", "complete", "fail"},
                                     job : Job \cup {0}]]
      BY <1>1 DEF Upload, CompleteExport, FailExport, ExporterDies, Frees, Free,
         ExportTypeOK
    <2>3. archive' \subseteq Job /\ orphaned' \subseteq Job /\ exportFaults' \in 0..MaxExportFaults
      BY <1>1 DEF Upload, CompleteExport, FailExport, ExporterDies, ExportFault,
         ExportTypeOK
    <2> QED
      BY <1>1, <2>1, <2>2, <2>3 DEF ExportTypeOK
  <1>4. export[j].status \notin {"none", "pending"} /\ export'[j].status \notin {"none", "pending"}
    BY <1>1, <1>2 DEF WorkersOK, WorkerOK
  <1>5. WorkersOK'
    <2>1. WorkerOK(w)
      BY DEF WorkersOK
    <2>2. WorkerOK(w)'
      BY <1>1, <1>2, <1>4, <2>1 DEF WorkerOK, Free
    <2>3. ASSUME NEW v \in Exporter, v # w PROVE WorkerOK(v)'
      <3>1. WorkerOK(v) /\ running'[v] = running[v] /\ running[v].job # j
        BY <1>1, <2>3 DEF WorkersOK
      <3>2. CASE running[v] = Free
        BY <3>1, <3>2 DEF WorkerOK, Free
      <3>3. CASE running[v] # Free
        BY <1>1, <1>2, <3>1, <3>3 DEF WorkerOK
      <3> QED
        BY <3>2, <3>3
    <2>4. \A u, v \in Exporter : running'[u].job = running'[v].job /\ running'[u] # Free => u = v
      BY <1>1 DEF WorkersOK, WorkerOK, Free
    <2> QED
      BY <2>2, <2>3, <2>4 DEF WorkersOK, Free
  <1>6. JobsOK'
    <2>1. \A i \in Job : i # j => \A v \in Exporter : running[v].job = i => running'[v].job = i
      BY <1>1
    <2>2. \/ export'[j].link = export[j].link
          \/ export'[j].link /\ j \in archive' /\ downloads[j] = 0
      BY <1>1, <1>2 DEF WorkersOK, WorkerOK
    <2>3. export'[j].status = "running" => j \in orphaned' \/ running'[w].job = j
      BY <1>1, <1>2 DEF WorkersOK, WorkerOK
    <2> QED
      BY <1>1, <1>2, <1>4, <2>1, <2>2, <2>3 DEF JobsOK
  <1> QED
    BY <1>3, <1>5, <1>6

(* "Two worker replicas cannot both run the same export", a running export *)
(* has its worker unless that one died, and "a download link works once",  *)
(* also when complete reports an error for a row it has written.           *)
THEOREM JobsExportSafety == ExportSpec => []ExportSafety
  <1>1. ExportInit => ExportInv
    BY ExportAssumption DEF ExportInit, ExportInv, ExportTypeOK, WorkersOK, WorkerOK,
       JobsOK, Free
  <1>2. ExportInv /\ [ExportNext]_exportVars => ExportInv'
    <2> SUFFICES ASSUME ExportInv, [ExportNext]_exportVars PROVE ExportInv'
      OBVIOUS
    <2>1. CASE UNCHANGED exportVars
      BY <2>1 DEF exportVars, ExportInv, ExportTypeOK, WorkersOK, WorkerOK, JobsOK
    <2>2. CASE ExportNext
      BY <2>2, JobsExportRow, JobsExportClaim, JobsExportWork DEF ExportNext, ExportStep
    <2> QED
      BY <2>1, <2>2
  <1>3. ExportInv => ExportSafety
    <2> SUFFICES ASSUME ExportInv PROVE RunningHasItsWorker /\ LinkWorksOnce
      BY DEF ExportInv, ExportSafety
    <2>1. ASSUME NEW j \in Job PROVE Cardinality({w \in Exporter : running[w].job = j}) <= 1
      <3>1. \A v, w \in {u \in Exporter : running[u].job = j} : v = w
        BY ExportAssumption DEF ExportInv, WorkersOK, WorkerOK, Free
      <3> QED
        BY <3>1, JobsAtMostOne
    <2> QED
      BY <2>1 DEF ExportInv, JobsOK, RunningHasItsWorker, LinkWorksOnce
  <1> QED
    BY <1>1, <1>2, <1>3, PTL DEF ExportSpec

-----------------------------------------------------------------------------
(* Polls. *)

PollSpec == PollInit /\ [][PollNext]_pollVars

InLock(p) == party[p].at \in {"locked", "tallied"}

PartyType == [at : {"idle", "checked", "locked", "tallied"}, choice : SUBSET Option,
              tally : TallyType]

(* Only the holder of the lock commits: nobody holds it with another or on *)
(* a closed poll, so a tally that was taken is still the one to write.     *)
LockOK ==
    /\ \A p, q \in Party : InLock(p) /\ InLock(q) => p = q
    /\ closed => \A p \in Party : ~InLock(p)
    /\ \A p \in Party : party[p].at = "tallied" => party[p].tally = Tally(SeenBy(p))

PollInv ==
    /\ PollTypeOK /\ party \in [Party -> PartyType] /\ LockOK /\ SummaryIsRight
    /\ closings = IF closed THEN 1 ELSE 0

LEMMA JobsTallyType ==
    ASSUME NEW v \in [Voter -> SUBSET Option]
    PROVE  Tally(v) \in TallyType
  <1>1. Cardinality(Voter) \in Nat
    BY PollAssumption, FS_CardinalityType
  <1>2. ASSUME NEW S \in SUBSET Voter PROVE Cardinality(S) \in 0..Cardinality(Voter)
    BY <1>1, PollAssumption, JobsFewer
  <1>3. \A o \in Option : Cardinality({p \in Voter : o \in v[p]}) \in 0..Cardinality(Voter)
    BY <1>2
  <1>4. Cardinality({p \in Voter : v[p] # {}}) \in 0..Cardinality(Voter)
    BY <1>2
  <1> QED
    BY <1>3, <1>4 DEF Tally, TallyType

LEMMA JobsPollIdle == Idle \in PartyType /\ Idle.at = "idle" /\ Idle.choice = {}
  <1>1. [p \in Voter |-> {}] \in [Voter -> SUBSET Option]
    OBVIOUS
  <1>2. NoTally \in TallyType
    BY <1>1, JobsTallyType DEF NoTally
  <1> QED
    BY <1>2 DEF Idle, PartyType

LEMMA JobsCloserCount == Cardinality(Closer) \in Nat /\ Cardinality(Closer) >= 1
  <1>1. Closer = {"job"} \cup {"author"} /\ IsFiniteSet({"job"}) /\ Cardinality({"job"}) = 1
    BY FS_Singleton DEF Closer
  <1> QED
    BY <1>1, FS_AddElement

(* What PollTypeOK says of the parties. *)
LEMMA JobsPartyType ==
    ASSUME party' \in [Party -> PartyType]
    PROVE  \A p \in Party :
             /\ party'[p].at \in {"idle", "checked", "locked", "tallied"}
             /\ party'[p].choice \subseteq Option /\ party'[p].tally \in TallyType
  BY DEF PartyType

(* The poll stays, and a party goes to a place where it holds no lock, or  *)
(* takes it while the poll is open and nobody holds it, or counts.         *)
LEMMA JobsPollStep ==
    ASSUME PollInv, NEW p \in Party, NEW r \in PartyType,
           party' = [party EXCEPT ![p] = r],
           UNCHANGED <<votes, closed, deleted, overdue, summary, closings>>,
           cast' \in 0..MaxVotes, pollFaults' \in 0..MaxPollFaults,
           \/ r.at \in {"idle", "checked"}
           \/ r.at = "locked" /\ ~closed /\ (\A q \in Party : ~InLock(q))
           \/ r.at = "tallied" /\ InLock(p) /\ r.tally = Tally(SeenBy(p)) /\ r.choice = party[p].choice
    PROVE  PollInv'
  <1> USE DEF PollInv
  <1>1. party' \in [Party -> PartyType] /\ party'[p] = r
        /\ \A q \in Party : q # p => party'[q] = party[q]
    OBVIOUS
  <1>2. PollTypeOK'
    BY <1>1, JobsPartyType DEF PollTypeOK
  <1>3. \A q \in Party : q # p => InLock(q)' = InLock(q) /\ SeenBy(q)' = SeenBy(q)
    BY <1>1 DEF InLock, SeenBy
  <1>4. r.at = "tallied" => SeenBy(p)' = SeenBy(p)
    BY <1>1 DEF SeenBy
  <1>5. LockOK'
    BY <1>1, <1>3, <1>4 DEF LockOK, InLock
  <1>6. SummaryIsRight'
    BY DEF SummaryIsRight
  <1> QED
    BY <1>1, <1>2, <1>5, <1>6

LEMMA JobsPollCommit ==
    ASSUME PollInv, NEW p \in Party, CommitPoll(p)
    PROVE  PollInv'
  <1> USE DEF PollInv, CommitPoll
  <1>1. /\ InLock(p) /\ ~closed /\ party[p].tally = Tally(SeenBy(p))
        /\ \A q \in Party : q # p => ~InLock(q)
    BY DEF LockOK, InLock
  <1>2. party' \in [Party -> PartyType] /\ party'[p] = Idle
        /\ \A q \in Party : q # p => party'[q] = party[q]
    BY JobsPollIdle
  <1>3. \A q \in Party : ~InLock(q)' /\ party'[q].at # "tallied"
    BY <1>1, <1>2, JobsPollIdle DEF InLock
  <1>4. LockOK'
    BY <1>3 DEF LockOK
  <1>5. SummaryIsRight'
    BY <1>1 DEF SummaryIsRight
  <1>6. closed' \in BOOLEAN /\ closings' = IF closed' THEN 1 ELSE 0
    <2>1. closed' \in BOOLEAN /\ (closed' <=> p \in Closer)
      BY <1>1, Zenon
    <2>2. closings = 0
      BY <1>1
    <2> QED
      BY <2>1, <2>2
  <1>7. PollTypeOK'
    <2>1. votes' \in [Voter -> SUBSET Option]
      BY <1>2 DEF SeenBy, PollTypeOK, PartyType
    <2>2. summary' \in [tally : TallyType, closed : BOOLEAN]
      BY <1>6 DEF PollTypeOK
    <2>3. closings' \in 0..Cardinality(Closer)
      BY <1>6, JobsCloserCount
    <2> QED
      BY <1>2, <1>6, <2>1, <2>2, <2>3, JobsPartyType DEF PollTypeOK
  <1> QED
    BY <1>2, <1>4, <1>5, <1>6, <1>7

LEMMA JobsPollMoves ==
    ASSUME PollInv, PollNext
    PROVE  PollInv'
  <1> USE PollAssumption
  <1>1. /\ party \in [Party -> PartyType] /\ votes \in [Voter -> SUBSET Option]
        /\ cast \in 0..MaxVotes /\ pollFaults \in 0..MaxPollFaults
        /\ Voter \subseteq Party /\ Closer \subseteq Party
    BY DEF PollInv, PollTypeOK, Party
  <1>2. ASSUME NEW v \in Voter, NEW choice \in SUBSET Option, CheckVote(v, choice)
        PROVE  PollInv'
    <2> DEFINE r == [Idle EXCEPT !.at = "checked", !.choice = choice]
    <2>1. r \in PartyType /\ r.at = "checked"
      BY JobsPollIdle DEF PartyType
    <2>2. cast' \in 0..MaxVotes /\ v \in Party
      BY <1>1, <1>2 DEF CheckVote
    <2> QED
      BY <1>1, <1>2, <2>1, <2>2, JobsPollStep DEF CheckVote
  <1>3. ASSUME NEW c \in Closer, CheckClose(c)
        PROVE  PollInv'
    <2> DEFINE r == [party[c] EXCEPT !.at = "checked"]
    <2>1. r \in PartyType /\ r.at = "checked" /\ c \in Party /\ party' = [party EXCEPT ![c] = r]
      BY <1>1, <1>3 DEF PartyType, CheckClose
    <2> QED
      BY <1>1, <1>3, <2>1, JobsPollStep DEF CheckClose
  <1>4. ASSUME NEW p \in Party, \/ p \in Voter /\ LockVote(p)
                                \/ p \in Closer /\ LockClose(p)
        PROVE  PollInv'
    <2>1. \A q \in Party : ~InLock(q)
      BY <1>4 DEF LockVote, LockClose, MayLock, InLock
    <2>2. CASE party' = [party EXCEPT ![p] = Idle]
      BY <1>1, <1>4, <2>2, JobsPollIdle, JobsPollStep DEF LockVote, LockClose
    <2>3. CASE ~closed /\ party' = [party EXCEPT ![p] = [party[p] EXCEPT !.at = "locked"]]
      <3> DEFINE r == [party[p] EXCEPT !.at = "locked"]
      <3>1. r \in PartyType /\ r.at = "locked"
        BY <1>1 DEF PartyType
      <3> QED
        BY <1>1, <1>4, <2>1, <2>3, <3>1, JobsPollStep DEF LockVote, LockClose
    <2> QED
      BY <1>4, <2>2, <2>3 DEF LockVote, LockClose, IsClosed, AlreadyClosed
  <1>5. ASSUME NEW p \in Party, TakeTally(p)
        PROVE  PollInv'
    <2> DEFINE r == [party[p] EXCEPT !.at = "tallied", !.tally = Tally(SeenBy(p))]
    <2>1. SeenBy(p) \in [Voter -> SUBSET Option]
      BY <1>1 DEF SeenBy, PartyType
    <2>2. /\ r \in PartyType /\ r.at = "tallied" /\ r.tally = Tally(SeenBy(p))
          /\ r.choice = party[p].choice
      BY <1>1, <2>1, JobsTallyType DEF PartyType
    <2>3. InLock(p) /\ party' = [party EXCEPT ![p] = r]
      BY <1>1, <1>5 DEF TakeTally, InLock, PartyType
    <2> QED
      BY <1>1, <1>5, <2>2, <2>3, JobsPollStep DEF TakeTally
  <1>6. ASSUME NEW p \in Party, PollFails(p)
        PROVE  PollInv'
    <2>1. pollFaults' \in 0..MaxPollFaults
      BY <1>1, <1>6 DEF PollFails
    <2> QED
      BY <1>1, <1>6, <2>1, JobsPollIdle, JobsPollStep DEF PollFails
  <1>7. CASE TimeIsUp \/ MessageDeleted
    <2>1. UNCHANGED <<votes, closed, summary, party, closings, cast, pollFaults>>
      BY <1>7 DEF TimeIsUp, MessageDeleted
    <2>2. \A f \in {closed', overdue', deleted'} : f \in BOOLEAN
      BY <1>7 DEF TimeIsUp, MessageDeleted, PollInv, PollTypeOK
    <2>3. PollTypeOK'
      BY <2>1, <2>2 DEF PollInv, PollTypeOK
    <2> QED
      BY <2>1, <2>3 DEF PollInv, LockOK, InLock, SeenBy, SummaryIsRight
  <1> QED
    BY <1>1, <1>2, <1>3, <1>4, <1>5, <1>6, <1>7, JobsPollCommit DEF PollNext

LEMMA JobsPollInvariant == PollSpec => []PollInv
  <1>1. PollInit => PollInv
    <2> SUFFICES ASSUME PollInit PROVE PollInv
      OBVIOUS
    <2> USE PollAssumption DEF PollInit
    <2>1. votes \in [Voter -> SUBSET Option] /\ NoTally = Tally(votes)
      BY DEF NoTally
    <2>2. party \in [Party -> PartyType] /\ \A p \in Party : party[p] = Idle
      BY JobsPollIdle
    <2>3. PollTypeOK
      <3>1. \A f \in {closed, overdue, deleted} : f \in BOOLEAN
        BY Zenon
      <3>2. summary \in [tally : TallyType, closed : BOOLEAN]
        BY <2>1, JobsTallyType
      <3> QED
        BY <2>1, <2>2, <3>1, <3>2, JobsCloserCount DEF PollTypeOK, PartyType
    <2>4. LockOK
      BY <2>2, JobsPollIdle DEF LockOK, InLock
    <2>5. SummaryIsRight
      BY <2>1 DEF SummaryIsRight
    <2> QED
      BY <2>2, <2>3, <2>4, <2>5 DEF PollInv
  <1>2. PollInv /\ [PollNext]_pollVars => PollInv'
    <2>1. PollInv /\ UNCHANGED pollVars => PollInv'
      BY SMTT(30) DEF pollVars, PollInv, PollTypeOK, LockOK, InLock, SeenBy, SummaryIsRight
    <2> QED
      BY <2>1, JobsPollMoves
  <1> QED
    BY <1>1, <1>2, PTL DEF PollSpec

(* The message shows the votes that are there and whether the poll is      *)
(* closed, with any number of people voting and closing at once: the lock  *)
(* of lock_in orders the tallies (write_summary).                          *)
THEOREM JobsPollSafety == PollSpec => []PollSafety
  <1>1. PollInv => PollSafety
    BY DEF PollInv, PollSafety
  <1> QED
    BY <1>1, JobsPollInvariant, PTL

(* No vote changes in a closed poll, and it closes once. *)
THEOREM JobsClosedIsFinal == PollSpec => ClosedIsFinal
  <1>1. PollInv /\ [PollNext]_pollVars =>
           [closed => closed' /\ votes' = votes /\ closings' = closings]_pollVars
    <2> SUFFICES ASSUME PollInv, PollNext, closed
                 PROVE  closed' /\ votes' = votes /\ closings' = closings
      OBVIOUS
    <2>1. \A p \in Party : ~CommitPoll(p)
      BY DEF CommitPoll, PollInv, LockOK, InLock
    <2> QED
      BY <2>1 DEF PollNext, CheckVote, CheckClose, LockVote, LockClose, TakeTally,
         PollFails,
         TimeIsUp, MessageDeleted
  <1> QED
    BY <1>1, JobsPollInvariant, PTL DEF PollSpec, ClosedIsFinal

-----------------------------------------------------------------------------
(* Notifications. *)

NotifySpec == NotifyInit /\ [][NotifyNext]_notifyVars

AtStages == {"free", "row", "pause", "email", "ack"}
Rung == {w \in Notifier : IsAt(w, "pause") /\ notifier[w].event = Ring}

(* The consumer.  Whoever has passed the row of a mention found it or gave *)
(* it up; and one worker at most is about to ring, before anybody rang.    *)
GroupOK ==
    /\ notifier \in [Notifier -> [event : Happening, at : AtStages]]
    /\ stream \subseteq happened /\ happened \subseteq Happening
    /\ notice \in [Happening -> {"none", "unread", "read"}] /\ rings \in Nat
    /\ \A w \in Notifier :
           /\ IsAt(w, "email") => notifier[w].event \in Mention
           /\ notifier[w].at \in {"pause", "email", "ack"} /\ notifier[w].event \in Mention =>
                  notice[notifier[w].event] # "none" \/ notifier[w].event \in excused
    /\ \A v, w \in Rung : v = w
    /\ Rung # {} => rings = 0
    /\ notice[Ring] = "none" => rings = 0 /\ Rung = {}
    /\ AckedIsListed /\ RungOnce

(* The person.  What was read is marked, unless its row was not there. *)
SeenOK ==
    /\ notice \in [Happening -> {"none", "unread", "read"}]
    /\ seen \subseteq Mention /\ excused \subseteq Mention
    /\ \A m \in Mention : /\ m \in seen => notice[m] = "read" \/ m \in excused
                          /\ notice[m] = "read" => m \in seen

RowsOf(e) == {r \in queued : r[1] = e}

(* The rows of a message are numbered as they come, so that one that is    *)
(* new is in nobody's hands.                                               *)
RowsOK ==
    /\ IsFiniteSet(queued) /\ queued \subseteq Pending
    /\ pending \subseteq queued /\ due \subseteq queued /\ told \subseteq queued
    /\ pending \cap told = {}
    /\ \A r \in queued : /\ r[2] <= Cardinality(RowsOf(r[1]))
                         /\ notice[r[1]] # "none" \/ r[1] \in excused

(* A pass that has dropped what was read counts only what was not, or what *)
(* was read since; and it counts everything that it will claim.            *)
PassOK ==
    /\ digester \in [Digester -> [at : {"rest", "seen", "read", "claim"},
                                  cutoff : SUBSET Pending, counts : SUBSET Pending]]
    /\ \A d \in Digester :
           /\ digester[d].counts \subseteq digester[d].cutoff
           /\ digester[d].cutoff \subseteq queued
           /\ digester[d].at = "read" =>
                  \A r \in pending \cap digester[d].cutoff : r[1] \in seen => r[1] \in excused
           /\ digester[d].at = "claim" =>
                  /\ pending \cap digester[d].cutoff \subseteq digester[d].counts
                  /\ \A r \in digester[d].counts : r[1] \in seen => r[1] \in excused

MailOK ==
    RowsOK /\ PassOK /\ mails \in Nat /\ toldRead \subseteq Mention
    /\ QueuedIsNotLost /\ ReadIsNotMailed

NoticeInv == GroupOK /\ SeenOK /\ MailOK /\ notifyBudget \in NotifyBudget

LEMMA NoticeInit == NotifyInit => NoticeInv
  <1> SUFFICES ASSUME NotifyInit PROVE NoticeInv
    OBVIOUS
  <1> USE NotifyAssumption DEF NotifyInit
  <1>1. /\ Unoccupied \in [event : Happening, at : AtStages] /\ Unoccupied.at = "free"
        /\ Ring \in Happening
    BY DEF Unoccupied, AtStages, Happening
  <1>2. \A w \in Notifier : notifier[w].at = "free"
    BY <1>1
  <1>3. Rung = {}
    BY <1>2 DEF Rung, IsAt
  <1>4. GroupOK
    BY <1>1, <1>2, <1>3 DEF GroupOK, AckedIsListed, RungOnce, IsAt
  <1>5. SeenOK
    BY DEF SeenOK, Happening
  <1>6. RowsOK
    BY FS_EmptySet DEF RowsOK
  <1>7. /\ Resting \in [at : {"rest", "seen", "read", "claim"}, cutoff : SUBSET Pending,
                        counts : SUBSET Pending]
        /\ Resting.at = "rest" /\ Resting.cutoff = {} /\ Resting.counts = {}
    BY DEF Resting
  <1>8. PassOK
    BY <1>7 DEF PassOK
  <1> QED
    BY <1>4, <1>5, <1>6, <1>8 DEF NoticeInv, MailOK, QueuedIsNotLost, ReadIsNotMailed

(* A fault is spent. *)
LEMMA NoticeUpset ==
    ASSUME notifyBudget \in NotifyBudget, Upset \/ UNCHANGED notifyBudget
    PROVE  notifyBudget' \in NotifyBudget
  BY DEF Upset, NotifyBudget

(* What the consumer and the digest leave to one another. *)
LEMMA NoticeMailStays ==
    ASSUME MailOK, UNCHANGED mailVars, UNCHANGED seen, excused \subseteq excused',
           \A m \in Mention : notice[m] # "none" => notice'[m] # "none"
    PROVE  MailOK'
  <1>1. /\ UNCHANGED <<queued, pending, due, digester, mails, told, toldRead>>
        /\ RowsOK /\ PassOK
    BY DEF mailVars, MailOK
  <1>2. \A r \in queued : r[1] \in Mention
    BY <1>1 DEF RowsOK, Pending
  <1>3. RowsOK'
    BY <1>1, <1>2 DEF RowsOK, RowsOf
  <1>4. PassOK'
    BY <1>1 DEF PassOK
  <1>5. QueuedIsNotLost' /\ ReadIsNotMailed'
    BY <1>1 DEF MailOK, QueuedIsNotLost, ReadIsNotMailed
  <1> QED
    BY <1>1, <1>3, <1>4, <1>5 DEF MailOK

LEMMA NoticeSeenStays ==
    ASSUME SeenOK, UNCHANGED <<notice, seen>>, excused \subseteq excused', excused' \subseteq Mention
    PROVE  SeenOK'
  BY DEF SeenOK

LEMMA NoticeGroupStays ==
    ASSUME GroupOK, UNCHANGED groupVars, excused \subseteq excused',
           notice' \in [Happening -> {"none", "unread", "read"}], notice'[Ring] = notice[Ring],
           \A m \in Mention : notice[m] # "none" => notice'[m] # "none"
    PROVE  GroupOK'
  <1>1. UNCHANGED <<happened, stream, notifier, rings>> /\ Rung' = Rung
    BY DEF groupVars, Rung, IsAt
  <1>2. AckedIsListed' /\ RungOnce'
    BY <1>1 DEF GroupOK, AckedIsListed, RungOnce
  <1> QED
    BY <1>1, <1>2 DEF GroupOK, IsAt

(* A worker goes on with what it has in hand, or drops it. *)
LEMMA NoticeGoes ==
    ASSUME GroupOK, NEW w \in Notifier, NEW at \in AtStages, GoesOn(w, at)
    PROVE  /\ notifier' \in [Notifier -> [event : Happening, at : AtStages]]
           /\ notifier'[w].at = at /\ (at # "free" => notifier'[w].event = notifier[w].event)
           /\ \A v \in Notifier : v # w => notifier'[v] = notifier[v]
  <1> DEFINE x == IF at = "free" THEN Unoccupied ELSE [notifier[w] EXCEPT !.at = at]
  <1>1. /\ notifier \in [Notifier -> [event : Happening, at : AtStages]]
        /\ notifier' = [notifier EXCEPT ![w] = x]
    BY DEF GroupOK, GoesOn
  <1>2. /\ x \in [event : Happening, at : AtStages] /\ x.at = at
        /\ at # "free" => x.event = notifier[w].event
    BY <1>1 DEF Unoccupied, Happening
  <1> HIDE DEF x
  <1> QED
    BY <1>1, <1>2

(* What is about to ring when worker w moves. *)
LEMMA NoticeRung ==
    ASSUME NEW w \in Notifier, \A v \in Notifier : v # w => notifier'[v] = notifier[v]
    PROVE  /\ notifier'[w].at # "pause" \/ notifier'[w].event # Ring => Rung' = Rung \ {w}
           /\ notifier'[w].at = "pause" /\ notifier'[w].event = Ring => Rung' = Rung \cup {w}
  BY DEF Rung, IsAt

LEMMA NoticeHappens ==
    ASSUME NoticeInv, NEW e \in Happening, Happens(e) PROVE NoticeInv'
  <1>1. /\ UNCHANGED <<notifier, notice, rings, notifyBudget, excused, seen>>
        /\ UNCHANGED mailVars
        /\ happened' = happened \cup {e} /\ stream' = stream \cup {e}
    BY DEF Happens, personVars
  <1>2. Rung' = Rung
    BY <1>1 DEF Rung, IsAt
  <1>3. AckedIsListed' /\ RungOnce'
    BY <1>1 DEF NoticeInv, GroupOK, AckedIsListed, RungOnce
  <1>4. GroupOK'
    BY <1>1, <1>2, <1>3 DEF NoticeInv, GroupOK, IsAt
  <1> QED
    BY <1>1, <1>4, NoticeMailStays, NoticeSeenStays DEF NoticeInv, SeenOK

(* A worker moves, and nobody rings. *)
LEMMA NoticeMoves ==
    ASSUME NoticeInv, NEW w \in Notifier,
           notifier' \in [Notifier -> [event : Happening, at : AtStages]],
           \A v \in Notifier : v # w => notifier'[v] = notifier[v],
           notifier'[w].at # "pause" \/ notifier'[w].event # Ring,
           notifier'[w].at = "email" => notifier'[w].event \in Mention,
           notifier'[w].at \in {"pause", "email", "ack"} /\ notifier'[w].event \in Mention =>
               notice[notifier'[w].event] # "none" \/ notifier'[w].event \in excused',
           UNCHANGED <<happened, rings, notice>>, stream' \subseteq stream,
           excused \subseteq excused',
           \A m \in (stream \ stream') \cap Mention : notice[m] # "none" \/ m \in excused
    PROVE  GroupOK'
  <1>1. Rung' \subseteq Rung
    BY NoticeRung
  <1>2. AckedIsListed' /\ RungOnce'
    BY DEF NoticeInv, GroupOK, AckedIsListed, RungOnce
  <1>3. \A v \in Notifier :
           /\ IsAt(v, "email")' => notifier'[v].event \in Mention
           /\ notifier'[v].at \in {"pause", "email", "ack"} /\ notifier'[v].event \in Mention =>
                  notice'[notifier'[v].event] # "none" \/ notifier'[v].event \in excused'
    BY DEF NoticeInv, GroupOK, IsAt
  <1> QED
    BY <1>1, <1>2, <1>3 DEF NoticeInv, GroupOK

LEMMA NoticeTakes ==
    ASSUME NoticeInv, NEW w \in Notifier, NEW e \in Happening, TakeEvent(w, e)
    PROVE  NoticeInv'
  <1> DEFINE x == [event |-> e, at |-> IF e = Ring /\ ringAge = "stale" THEN "ack" ELSE "row"]
  <1>1. /\ UNCHANGED <<happened, stream, notice, rings, excused, seen>>
        /\ UNCHANGED mailVars
        /\ notifier' = [notifier EXCEPT ![w] = x]
        /\ Upset \/ UNCHANGED notifyBudget
    BY DEF TakeEvent, personVars
  <1>2. /\ x \in [event : Happening, at : AtStages] /\ x.event = e
        /\ x.at = "row" \/ (x.at = "ack" /\ e = Ring)
    BY DEF AtStages
  <1> HIDE DEF x
  <1>3. /\ notifier' \in [Notifier -> [event : Happening, at : AtStages]]
        /\ notifier'[w] = x /\ \A v \in Notifier : v # w => notifier'[v] = notifier[v]
    BY <1>1, <1>2 DEF NoticeInv, GroupOK
  <1>4. GroupOK'
    BY <1>1, <1>2, <1>3, NoticeMoves, NotifyAssumption
  <1> QED
    BY <1>1, <1>4, NoticeUpset, NoticeMailStays, NoticeSeenStays DEF NoticeInv, SeenOK

LEMMA NoticeWrites ==
    ASSUME NoticeInv, NEW w \in Notifier, WriteRow(w) PROVE NoticeInv'
  <1>1. PICK e \in Happening : notifier[w].event = e
    BY DEF NoticeInv, GroupOK
  <1>2. /\ UNCHANGED <<happened, stream, rings, notifyBudget, excused, seen>>
        /\ UNCHANGED mailVars /\ notifier[w].at = "row"
        /\ GoesOn(w, IF e = Ring /\ notice[e] # "none" THEN "ack" ELSE "pause")
    BY <1>1 DEF WriteRow, personVars, IsAt, AfterRow
  <1>3. /\ notice' \in [Happening -> {"none", "unread", "read"}] /\ notice'[e] # "none"
        /\ \A f \in Happening : notice[f] # "none" => notice'[f] = notice[f]
        /\ \A f \in Happening : f # e => notice'[f] = notice[f]
        /\ \A f \in Happening : notice'[f] = "read" => notice[f] = "read"
    BY <1>1 DEF WriteRow, WritesRow, NoticeInv, GroupOK
  <1>4. /\ notifier' \in [Notifier -> [event : Happening, at : AtStages]]
        /\ notifier'[w].event = e
        /\ notifier'[w].at = IF e = Ring /\ notice[e] # "none" THEN "ack" ELSE "pause"
        /\ \A v \in Notifier : v # w => notifier'[v] = notifier[v]
    BY <1>1, <1>2, NoticeGoes DEF NoticeInv, AtStages
  <1>5. /\ \A v, u \in Rung' : v = u
        /\ Rung' # {} => rings' = 0 /\ notice'[Ring] # "none"
        /\ notice'[Ring] = "none" => rings' = 0
    <2>1. CASE e = Ring /\ notice[Ring] = "none"
      BY <1>2, <1>3, <1>4, <2>1, NoticeRung DEF NoticeInv, GroupOK
    <2>2. CASE ~(e = Ring /\ notice[Ring] = "none")
      <3>1. Rung' \subseteq Rung
        BY <1>4, <2>2, NoticeRung
      <3>2. Ring \in Happening
        BY DEF Happening
      <3> QED
        BY <1>2, <1>3, <2>2, <3>1, <3>2 DEF NoticeInv, GroupOK
    <2> QED
      BY <2>1, <2>2
  <1>6. AckedIsListed' /\ RungOnce'
    BY <1>2, <1>3 DEF NoticeInv, GroupOK, AckedIsListed, RungOnce, Happening
  <1>7. \A v \in Notifier :
           /\ IsAt(v, "email")' => notifier'[v].event \in Mention
           /\ notifier'[v].at \in {"pause", "email", "ack"} /\ notifier'[v].event \in Mention =>
                  notice'[notifier'[v].event] # "none" \/ notifier'[v].event \in excused'
    BY <1>1, <1>2, <1>3, <1>4 DEF NoticeInv, GroupOK, IsAt
  <1>8. GroupOK'
    BY <1>2, <1>3, <1>4, <1>5, <1>6, <1>7 DEF NoticeInv, GroupOK
  <1>9. SeenOK'
    BY <1>2, <1>3 DEF NoticeInv, SeenOK, Happening
  <1>10. MailOK'
    BY <1>2, <1>3, NoticeMailStays DEF NoticeInv, Happening
  <1> QED
    BY <1>2, <1>8, <1>9, <1>10 DEF NoticeInv

(* The row fails, the email is not queued, the event is acknowledged, or   *)
(* the worker dies.                                                        *)
LEMMA NoticeLeaves ==
    ASSUME NoticeInv, NEW w \in Notifier,
           WriteRowFails(w) \/ QueueNothing(w) \/ AckEvent(w) \/ NotifierDies(w)
    PROVE  NoticeInv'
  <1>1. PICK e \in Happening : notifier[w].event = e
    BY DEF NoticeInv, GroupOK
  <1>2. /\ UNCHANGED <<happened, notice, rings, seen>> /\ UNCHANGED mailVars
        /\ Upset \/ UNCHANGED notifyBudget
    BY DEF WriteRowFails, QueueNothing, AckEvent, NotifierDies, personVars
  <1>3. \E at \in AtStages :
            /\ GoesOn(w, at)
            /\ at = "pause" => e # Ring /\ e \in excused'
            /\ at = "ack" /\ e \in Mention => notice[e] # "none" \/ e \in excused'
            /\ at \in {"pause", "ack", "free"}
            /\ excused' = excused \/ (excused' = excused \cup ({e} \cap Mention))
            /\ stream' = stream
               \/ /\ stream' = stream \ {e}
                  /\ e \in Mention => notice[e] # "none" \/ e \in excused
    <2>1. CASE WriteRowFails(w)
      BY <1>1, <2>1, NotifyAssumption DEF WriteRowFails, AtStages, Happening
    <2>2. CASE QueueNothing(w)
      BY <1>1, <2>2 DEF QueueNothing, AtStages, NoticeInv, GroupOK, IsAt
    <2>3. CASE AckEvent(w)
      BY <1>1, <2>3 DEF AckEvent, AtStages, NoticeInv, GroupOK, IsAt
    <2>4. CASE NotifierDies(w)
      BY <1>1, <2>4 DEF NotifierDies, AtStages
    <2> QED
      BY <2>1, <2>2, <2>3, <2>4
  <1>4. PICK at \in AtStages :
            /\ GoesOn(w, at)
            /\ at = "pause" => e # Ring /\ e \in excused'
            /\ at = "ack" /\ e \in Mention => notice[e] # "none" \/ e \in excused'
            /\ at \in {"pause", "ack", "free"}
            /\ excused' = excused \/ (excused' = excused \cup ({e} \cap Mention))
            /\ stream' = stream
               \/ /\ stream' = stream \ {e}
                  /\ e \in Mention => notice[e] # "none" \/ e \in excused
    BY <1>3
  <1>5. /\ notifier' \in [Notifier -> [event : Happening, at : AtStages]]
        /\ notifier'[w].at = at /\ (at # "free" => notifier'[w].event = e)
        /\ \A v \in Notifier : v # w => notifier'[v] = notifier[v]
    BY <1>1, <1>4, NoticeGoes DEF NoticeInv
  <1>6. /\ excused \subseteq excused' /\ excused' \subseteq Mention /\ stream' \subseteq stream
        /\ \A m \in (stream \ stream') \cap Mention : notice[m] # "none" \/ m \in excused
    BY <1>4 DEF NoticeInv, SeenOK
  <1>7. GroupOK'
    BY <1>2, <1>4, <1>5, <1>6, NoticeMoves
  <1> QED
    BY <1>2, <1>6, <1>7, NoticeUpset, NoticeMailStays, NoticeSeenStays DEF NoticeInv

LEMMA NoticeLooks ==
    ASSUME NoticeInv, NEW w \in Notifier, LookAtPause(w) PROVE NoticeInv'
  <1>1. PICK e \in Happening : notifier[w].event = e
    BY DEF NoticeInv, GroupOK
  <1>2. /\ UNCHANGED <<happened, stream, notice, notifyBudget, excused, seen>>
        /\ UNCHANGED mailVars /\ notifier[w].at = "pause"
        /\ GoesOn(w, IF paused \/ e = Ring THEN "ack" ELSE "email")
        /\ rings' = rings + IF ~paused /\ e = Ring THEN 1 ELSE 0
    BY <1>1 DEF LookAtPause, personVars, IsAt
  <1>3. /\ notifier' \in [Notifier -> [event : Happening, at : AtStages]]
        /\ notifier'[w].event = e /\ notifier'[w].at \in {"ack", "email"}
        /\ notifier'[w].at = "email" => e # Ring
        /\ \A v \in Notifier : v # w => notifier'[v] = notifier[v]
    BY <1>1, <1>2, NoticeGoes DEF NoticeInv, AtStages
  <1>4. Rung' = Rung \ {w} /\ (e = Ring => w \in Rung) /\ rings \in Nat
    BY <1>1, <1>2, <1>3, NoticeRung DEF Rung, IsAt, NoticeInv, GroupOK
  <1>5. /\ \A v, u \in Rung' : v = u
        /\ Rung' # {} => rings' = 0
        /\ notice'[Ring] = "none" => rings' = 0 /\ Rung' = {}
        /\ rings' \in Nat /\ rings' <= 1
    BY <1>2, <1>4 DEF NoticeInv, GroupOK, RungOnce
  <1>6. AckedIsListed'
    BY <1>2 DEF NoticeInv, GroupOK, AckedIsListed
  <1>7. \A v \in Notifier :
           /\ IsAt(v, "email")' => notifier'[v].event \in Mention
           /\ notifier'[v].at \in {"pause", "email", "ack"} /\ notifier'[v].event \in Mention =>
                  notice'[notifier'[v].event] # "none" \/ notifier'[v].event \in excused'
    BY <1>1, <1>2, <1>3 DEF NoticeInv, GroupOK, IsAt, Happening
  <1>8. GroupOK'
    BY <1>2, <1>3, <1>5, <1>6, <1>7 DEF NoticeInv, GroupOK, RungOnce
  <1> QED
    BY <1>2, <1>8, NoticeMailStays, NoticeSeenStays DEF NoticeInv, SeenOK


(* One more row: it has a number that no row of its message had. *)
LEMMA NoticeNewRow ==
    ASSUME RowsOK, NEW e \in Mention, NEW r, r = RowOf(e), queued' = queued \cup {r}
    PROVE  /\ r \in Pending /\ r \notin queued /\ r[1] = e
           /\ IsFiniteSet(queued') /\ r[2] <= Cardinality(RowsOf(e)')
           /\ \A q \in queued : q[2] <= Cardinality(RowsOf(q[1])')
  <1>1. /\ IsFiniteSet(queued) /\ queued \subseteq Pending
        /\ \A q \in queued : q[2] <= Cardinality(RowsOf(q[1]))
    BY DEF RowsOK
  <1>2. \A x : IsFiniteSet(RowsOf(x)) /\ Cardinality(RowsOf(x)) \in Nat
    <2> TAKE x
    <2>1. RowsOf(x) \subseteq queued
      BY DEF RowsOf
    <2> QED
      BY <1>1, <2>1, FS_Subset, FS_CardinalityType
  <1>3. PICK c \in Nat : c = Cardinality(RowsOf(e))
    BY <1>2
  <1>4. r = <<e, c + 1>>
    BY <1>3 DEF RowOf, RowsOf
  <1>5. r \in Pending /\ r[1] = e /\ r[2] = c + 1
    BY <1>3, <1>4 DEF Pending
  <1>6. r \notin queued
    <2> SUFFICES ASSUME r \in queued PROVE FALSE
      OBVIOUS
    <2>1. r[2] <= c
      BY <1>1, <1>3, <1>5
    <2> QED
      BY <1>3, <1>5, <2>1
  <1>7. IsFiniteSet(queued')
    BY <1>1, FS_AddElement
  <1>8. RowsOf(e)' = RowsOf(e) \cup {r} /\ r \notin RowsOf(e)
    BY <1>5, <1>6 DEF RowsOf
  <1>9. Cardinality(RowsOf(e)') = c + 1
    BY <1>2, <1>3, <1>8, FS_AddElement
  <1>10. \A x : x # e => RowsOf(x)' = RowsOf(x)
    BY <1>5 DEF RowsOf
  <1>11. ASSUME NEW q \in queued PROVE q[2] <= Cardinality(RowsOf(q[1])')
    <2>1. q[2] <= Cardinality(RowsOf(q[1])) /\ q[2] \in Nat
      BY <1>1 DEF Pending
    <2>2. CASE q[1] = e
      BY <1>3, <1>9, <2>1, <2>2
    <2>3. CASE q[1] # e
      <3>1. RowsOf(q[1])' = RowsOf(q[1])
        BY <1>10, <2>3 DEF RowsOf
      <3> QED
        BY <2>1, <3>1
    <2> QED
      BY <2>2, <2>3
  <1> QED
    BY <1>3, <1>5, <1>6, <1>7, <1>9, <1>11

LEMMA NoticeQueues ==
    ASSUME NoticeInv, NEW w \in Notifier, QueueEmail(w) PROVE NoticeInv'
  <1>1. PICK e \in Mention : notifier[w].event = e
    BY DEF NoticeInv, GroupOK, QueueEmail
  <1>2. /\ UNCHANGED <<happened, stream, notice, rings, due, digester, notifyBudget, mails,
                       told, toldRead, excused, seen>>
        /\ notifier[w].at = "email" /\ GoesOn(w, "ack")
        /\ \/ UNCHANGED <<queued, pending>>
           \/ queued' = queued \cup {RowOf(e)} /\ pending' = pending \cup {RowOf(e)}
    BY <1>1 DEF QueueEmail, personVars, IsAt
  <1>3. notice[e] # "none" \/ e \in excused
    BY <1>1, <1>2 DEF NoticeInv, GroupOK
  <1>4. /\ notifier' \in [Notifier -> [event : Happening, at : AtStages]]
        /\ notifier'[w].event = e /\ notifier'[w].at = "ack"
        /\ \A v \in Notifier : v # w => notifier'[v] = notifier[v]
    BY <1>1, <1>2, NoticeGoes DEF NoticeInv, AtStages
  <1>5. GroupOK'
    BY <1>2, <1>3, <1>4, NoticeMoves
  <1>6. CASE UNCHANGED <<queued, pending>>
    <2>1. MailOK'
      BY <1>2, <1>6, NoticeMailStays DEF NoticeInv, mailVars
    <2> QED
      BY <1>2, <1>5, <2>1, NoticeSeenStays DEF NoticeInv, SeenOK
  <1>7. CASE queued' = queued \cup {RowOf(e)} /\ pending' = pending \cup {RowOf(e)}
    <2>1. PICK r : r = RowOf(e)
      OBVIOUS
    <2>2. queued' = queued \cup {r} /\ pending' = pending \cup {r}
      BY <1>7, <2>1
    <2>3. /\ r \in Pending /\ r \notin queued /\ r[1] = e
          /\ IsFiniteSet(queued') /\ r[2] <= Cardinality(RowsOf(e)')
          /\ \A q \in queued : q[2] <= Cardinality(RowsOf(q[1])')
      BY <2>1, <2>2, NoticeNewRow DEF NoticeInv, MailOK
    <2>4. /\ queued \subseteq Pending /\ pending \subseteq queued /\ due \subseteq queued
          /\ told \subseteq queued /\ pending \cap told = {}
          /\ \A q \in queued : notice[q[1]] # "none" \/ q[1] \in excused
      BY DEF NoticeInv, MailOK, RowsOK
    <2>5. RowsOK'
      <3>1. \A q \in queued' : /\ q[2] <= Cardinality(RowsOf(q[1])')
                               /\ notice[q[1]] # "none" \/ q[1] \in excused
        BY <1>3, <2>2, <2>3, <2>4
      <3>2. \A q \in queued' : RowsOf(q[1])' = {p \in queued' : p[1] = q[1]}
        BY DEF RowsOf
      <3>3. \A q \in queued' : q[2] <= Cardinality({p \in queued' : p[1] = q[1]})
        BY <3>1, <3>2
      <3> QED
        BY <1>2, <2>2, <2>3, <2>4, <3>1, <3>3 DEF RowsOK, RowsOf
    <2>6. PassOK'
      BY <1>2, <2>2, <2>3 DEF NoticeInv, MailOK, PassOK
    <2>7. QueuedIsNotLost' /\ ReadIsNotMailed'
      BY <1>2, <2>2 DEF NoticeInv, MailOK, QueuedIsNotLost, ReadIsNotMailed
    <2>8. MailOK'
      BY <1>2, <2>5, <2>6, <2>7 DEF NoticeInv, MailOK
    <2> QED
      BY <1>2, <1>5, <2>8, NoticeSeenStays DEF NoticeInv, SeenOK
  <1> QED
    BY <1>2, <1>6, <1>7

(* The person, and time. *)
LEMMA NoticeWaits ==
    ASSUME NoticeInv, Pause \/ Unpause \/ RingGoesStale PROVE NoticeInv'
  <1>1. UNCHANGED <<notice, seen, excused>> /\ UNCHANGED groupVars /\ UNCHANGED mailVars
    BY DEF Pause, Unpause, RingGoesStale, personVars
  <1>2. notifyBudget' \in NotifyBudget
    BY DEF NoticeInv, Pause, Unpause, RingGoesStale, NotifyBudget
  <1>3. GroupOK'
    BY <1>1, NoticeGroupStays DEF NoticeInv, GroupOK
  <1> QED
    BY <1>1, <1>2, <1>3, NoticeMailStays, NoticeSeenStays DEF NoticeInv, SeenOK

LEMMA NoticeReads ==
    ASSUME NoticeInv, NEW m \in Mention, ReadMessage(m) PROVE NoticeInv'
  <1>1. /\ UNCHANGED notifyBudget /\ UNCHANGED groupVars
        /\ UNCHANGED <<queued, pending, due, digester, mails, told, toldRead>>
        /\ seen' = seen \cup {m}
        /\ excused' = IF notice[m] = "none" \/ InPass THEN excused \cup {m} ELSE excused
        /\ m \in Happening /\ m # Ring /\ Ring \in Happening
    BY NotifyAssumption DEF ReadMessage, mailVars, Happening
  <1>2. /\ notice' \in [Happening -> {"none", "unread", "read"}]
        /\ notice'[m] = IF notice[m] = "unread" THEN "read" ELSE notice[m]
        /\ \A f \in Happening : f # m => notice'[f] = notice[f]
        /\ \A f \in Happening : notice[f] # "none" => notice'[f] # "none"
    BY <1>1 DEF NoticeInv, GroupOK, ReadMessage
  <1>3. /\ excused \subseteq excused' /\ excused' \subseteq Mention
        /\ notice[m] = "none" => m \in excused'
        /\ InPass => m \in excused'
    BY <1>1 DEF NoticeInv, SeenOK
  <1>4. GroupOK'
    BY <1>1, <1>2, <1>3, NoticeGroupStays DEF NoticeInv, Happening
  <1>5. SeenOK'
    BY <1>1, <1>2, <1>3 DEF NoticeInv, SeenOK, Happening
  <1>6. RowsOK'
    <2>1. RowsOK /\ \A r \in queued : r[1] \in Happening
      BY DEF NoticeInv, MailOK, RowsOK, Pending, Happening
    <2> QED
      BY <1>1, <1>2, <1>3, <2>1 DEF RowsOK, RowsOf
  <1>7. PassOK'
    <2>1. \A d \in Digester : digester[d].at \in {"read", "claim"} => m \in excused'
      BY <1>3 DEF InPass
    <2> QED
      BY <1>1, <1>3, <2>1 DEF NoticeInv, MailOK, PassOK
  <1>8. QueuedIsNotLost' /\ ReadIsNotMailed'
    BY <1>1, <1>3 DEF NoticeInv, MailOK, QueuedIsNotLost, ReadIsNotMailed
  <1> QED
    BY <1>1, <1>4, <1>5, <1>6, <1>7, <1>8 DEF NoticeInv, MailOK

(* The digest.  What it does not write. *)
LEMMA NoticeOfDigest ==
    ASSUME NoticeInv, UNCHANGED groupVars, UNCHANGED <<notice, seen>>,
           excused \subseteq excused', excused' \subseteq Mention
    PROVE  GroupOK' /\ SeenOK'
  <1>1. GroupOK'
    BY NoticeGroupStays DEF NoticeInv, GroupOK
  <1>2. SeenOK'
    BY NoticeSeenStays DEF NoticeInv
  <1> QED
    BY <1>1, <1>2

LEMMA NoticeComesDue ==
    ASSUME NoticeInv, NEW r \in pending, PendingComesDue(r) PROVE NoticeInv'
  <1>1. /\ UNCHANGED groupVars /\ UNCHANGED <<notice, seen, notifyBudget, excused>>
        /\ UNCHANGED <<queued, pending, digester, mails, told, toldRead>>
        /\ due' = due \cup {r}
    BY DEF PendingComesDue, personVars
  <1>2. GroupOK' /\ SeenOK'
    BY <1>1, NoticeOfDigest DEF NoticeInv, SeenOK
  <1>3. RowsOK'
    BY <1>1 DEF NoticeInv, MailOK, RowsOK, RowsOf
  <1>4. PassOK' /\ QueuedIsNotLost' /\ ReadIsNotMailed'
    BY <1>1 DEF NoticeInv, MailOK, PassOK, QueuedIsNotLost, ReadIsNotMailed
  <1> QED
    BY <1>1, <1>2, <1>3, <1>4 DEF NoticeInv, MailOK

DigestType == [at : {"rest", "seen", "read", "claim"}, cutoff : SUBSET Pending,
               counts : SUBSET Pending]

(* A digest job begins a pass, reads what is due, or gives the pass up. *)
LEMMA NoticePasses ==
    ASSUME NoticeInv, NEW d \in Digester, BeginPass(d) \/ ReadDue(d) \/ PassFails(d)
    PROVE  NoticeInv'
  <1>1. /\ UNCHANGED groupVars /\ UNCHANGED <<notice, seen, excused>>
        /\ UNCHANGED <<queued, pending, due, mails, told, toldRead>>
        /\ Upset \/ UNCHANGED notifyBudget
    BY DEF BeginPass, ReadDue, PassFails, personVars
  <1>2. GroupOK' /\ SeenOK'
    BY <1>1, NoticeOfDigest DEF NoticeInv, SeenOK
  <1>3. RowsOK' /\ QueuedIsNotLost' /\ ReadIsNotMailed'
    BY <1>1 DEF NoticeInv, MailOK, RowsOK, RowsOf, QueuedIsNotLost, ReadIsNotMailed
  <1>4. /\ Resting \in DigestType /\ Resting.at = "rest" /\ Resting.cutoff = {}
        /\ Resting.counts = {}
    BY DEF Resting, DigestType
  <1>5. digester \in [Digester -> DigestType]
    BY DEF NoticeInv, MailOK, PassOK, DigestType
  <1>6. /\ queued \subseteq Pending /\ pending \subseteq queued /\ due \subseteq queued
        /\ digester[d].cutoff \subseteq queued /\ digester[d].cutoff \subseteq Pending
    BY <1>5 DEF NoticeInv, MailOK, RowsOK, PassOK, DigestType
  <1>7. \E x \in DigestType :
            /\ digester' = [digester EXCEPT ![d] = x]
            /\ x.counts \subseteq x.cutoff /\ x.cutoff \subseteq queued /\ x.at # "read"
            /\ x.at = "claim" =>
                   /\ pending \cap x.cutoff \subseteq x.counts
                   /\ \A r \in x.counts : r[1] \in seen => r[1] \in excused
    <2>1. CASE BeginPass(d)
      <3> DEFINE x == [at |-> "seen", cutoff |-> due, counts |-> {}]
      <3>1. x \in DigestType /\ x.at = "seen" /\ x.cutoff = due /\ x.counts = {}
        BY <1>6 DEF DigestType
      <3>2. digester' = [digester EXCEPT ![d] = x]
        BY <2>1 DEF BeginPass
      <3> HIDE DEF x
      <3> QED
        BY <1>6, <3>1, <3>2
    <2>2. CASE digester' = [digester EXCEPT ![d] = Resting]
      BY <1>4, <2>2
    <2>3. CASE ReadDue(d) /\ digester' # [digester EXCEPT ![d] = Resting]
      <3> DEFINE c == pending \cap digester[d].cutoff
                 x == [digester[d] EXCEPT !.at = "claim", !.counts = c]
      <3>1. digester[d].at = "read" /\ digester' = [digester EXCEPT ![d] = x]
        BY <2>3 DEF ReadDue
      <3>2. digester[d] \in DigestType /\ c \subseteq Pending
        BY <1>5, <1>6
      <3> HIDE DEF c
      <3>3. x \in DigestType /\ x.at = "claim" /\ x.cutoff = digester[d].cutoff /\ x.counts = c
        BY <3>2 DEF DigestType
      <3> HIDE DEF x
      <3>4. \A r \in c : r[1] \in seen => r[1] \in excused
        BY <3>1 DEF c, NoticeInv, MailOK, PassOK
      <3> QED
        BY <1>6, <3>1, <3>3, <3>4 DEF c
    <2> QED
      BY <2>1, <2>2, <2>3 DEF PassFails
  <1>8. PICK x \in DigestType :
            /\ digester' = [digester EXCEPT ![d] = x]
            /\ x.counts \subseteq x.cutoff /\ x.cutoff \subseteq queued /\ x.at # "read"
            /\ x.at = "claim" =>
                   /\ pending \cap x.cutoff \subseteq x.counts
                   /\ \A r \in x.counts : r[1] \in seen => r[1] \in excused
    BY <1>7
  <1>9. /\ digester' \in [Digester -> DigestType] /\ digester'[d] = x
        /\ \A c \in Digester : c # d => digester'[c] = digester[c]
    BY <1>5, <1>8
  <1>10. PassOK'
    <2> SUFFICES ASSUME NEW c \in Digester
                 PROVE  /\ digester'[c].counts \subseteq digester'[c].cutoff
                        /\ digester'[c].cutoff \subseteq queued
                        /\ digester'[c].at = "read" =>
                               \A r \in pending \cap digester'[c].cutoff :
                                   r[1] \in seen => r[1] \in excused
                        /\ digester'[c].at = "claim" =>
                               /\ pending \cap digester'[c].cutoff \subseteq digester'[c].counts
                               /\ \A r \in digester'[c].counts : r[1] \in seen => r[1] \in excused
      BY <1>1, <1>9, Zenon DEF PassOK, DigestType
    <2>1. CASE c = d
      BY <1>8, <1>9, <2>1
    <2>2. CASE c # d
      BY <1>9, <2>2 DEF NoticeInv, MailOK, PassOK
    <2> QED
      BY <2>1, <2>2
  <1> QED
    BY <1>1, <1>2, <1>3, <1>10, NoticeUpset DEF NoticeInv, MailOK

LEMMA NoticeDrops ==
    ASSUME NoticeInv, NEW d \in Digester, DropSeen(d) PROVE NoticeInv'
  <1>1. /\ UNCHANGED groupVars /\ UNCHANGED <<notice, seen>>
        /\ UNCHANGED <<queued, due, mails, told, toldRead>>
        /\ digester[d].at = "seen" /\ digester' = [digester EXCEPT ![d].at = "read"]
        /\ \/ /\ pending' = {r \in pending : r \in digester[d].cutoff => StillUnread(r)}
              /\ UNCHANGED <<notifyBudget, excused>>
           \/ Upset /\ excused' = excused \cup seen /\ UNCHANGED pending
    BY DEF DropSeen, personVars
  <1>2. /\ excused \subseteq excused' /\ excused' \subseteq Mention
        /\ pending' \subseteq pending /\ (Upset \/ UNCHANGED notifyBudget)
    BY <1>1 DEF NoticeInv, SeenOK
  <1>3. GroupOK' /\ SeenOK'
    BY <1>1, <1>2, NoticeOfDigest
  <1>4. \A r \in queued : r[1] \in Mention
    BY DEF NoticeInv, MailOK, RowsOK, Pending
  <1>5. pending \subseteq queued
    BY DEF NoticeInv, MailOK, RowsOK
  <1>6. \A r \in pending' \cap digester[d].cutoff : r[1] \in seen => r[1] \in excused'
    BY <1>1, <1>4, <1>5 DEF NoticeInv, SeenOK, StillUnread
  <1>7. \A r \in pending \ pending' : r[1] \in seen \cup excused
    <2>1. \A r \in pending \ pending' : ~StillUnread(r)
      BY <1>1
    <2>2. \A m \in Mention : notice[m] \in {"none", "unread", "read"}
      BY DEF NoticeInv, SeenOK, Happening
    <2> QED
      BY <1>4, <1>5, <2>1, <2>2 DEF NoticeInv, SeenOK, MailOK, RowsOK, StillUnread
  <1>8. RowsOK'
    BY <1>1, <1>2 DEF NoticeInv, MailOK, RowsOK, RowsOf
  <1>9. /\ digester' \in [Digester -> DigestType]
        /\ digester'[d].at = "read" /\ digester'[d].cutoff = digester[d].cutoff
        /\ digester'[d].counts = digester[d].counts
        /\ \A c \in Digester : c # d => digester'[c] = digester[c]
    <2>1. digester \in [Digester -> DigestType]
      BY DEF NoticeInv, MailOK, PassOK, DigestType
    <2> QED
      BY <1>1, <2>1 DEF DigestType
  <1>10. PassOK'
    <2> SUFFICES ASSUME NEW c \in Digester
                 PROVE  /\ digester'[c].counts \subseteq digester'[c].cutoff
                        /\ digester'[c].cutoff \subseteq queued'
                        /\ digester'[c].at = "read" =>
                               \A r \in pending' \cap digester'[c].cutoff :
                                   r[1] \in seen' => r[1] \in excused'
                        /\ digester'[c].at = "claim" =>
                               /\ pending' \cap digester'[c].cutoff \subseteq digester'[c].counts
                               /\ \A r \in digester'[c].counts : r[1] \in seen' => r[1] \in excused'
      BY <1>9, Zenon DEF PassOK, DigestType
    <2>1. CASE c = d
      BY <1>1, <1>6, <1>9, <2>1 DEF NoticeInv, MailOK, PassOK
    <2>2. CASE c # d
      BY <1>1, <1>2, <1>9, <2>2 DEF NoticeInv, MailOK, PassOK
    <2> QED
      BY <2>1, <2>2
  <1>11. QueuedIsNotLost'
    BY <1>1, <1>2, <1>7 DEF NoticeInv, MailOK, QueuedIsNotLost
  <1>12. ReadIsNotMailed'
    BY <1>1, <1>2 DEF NoticeInv, MailOK, ReadIsNotMailed
  <1> QED
    BY <1>1, <1>2, <1>3, <1>8, <1>10, <1>11, <1>12, NoticeUpset DEF NoticeInv, MailOK

(* What a digest claims it counted, and nobody has told of it. *)
LEMMA NoticeClaims ==
    ASSUME NoticeInv, NEW d \in Digester, digester[d].at = "claim"
    PROVE  /\ ClaimedBy(d) \subseteq digester[d].counts /\ ClaimedBy(d) \cap told = {}
           /\ digester[d].counts \subseteq digester[d].cutoff
           /\ digester[d].counts \subseteq queued
           /\ \A r \in digester[d].counts : r[1] \in Mention /\ (r[1] \in seen => r[1] \in excused)
  <1>1. /\ digester[d].counts \subseteq digester[d].cutoff
        /\ digester[d].cutoff \subseteq queued
        /\ pending \cap digester[d].cutoff \subseteq digester[d].counts
        /\ \A r \in digester[d].counts : r[1] \in seen => r[1] \in excused
    BY DEF NoticeInv, MailOK, PassOK
  <1>2. pending \cap told = {} /\ \A r \in queued : r[1] \in Mention
    BY DEF NoticeInv, MailOK, RowsOK, Pending
  <1> QED
    BY <1>1, <1>2 DEF ClaimedBy

LEMMA NoticeSends ==
    ASSUME NoticeInv, NEW d \in Digester, SendDigest(d) PROVE NoticeInv'
  <1> DEFINE counts == digester[d].counts
  <1>1. /\ UNCHANGED groupVars /\ UNCHANGED <<notice, seen, notifyBudget, excused>>
        /\ UNCHANGED <<queued, due>>
        /\ digester[d].at = "claim" /\ digester' = [digester EXCEPT ![d] = Resting]
        /\ \/ /\ pending' = pending \ ClaimedBy(d) /\ mails' = mails + 1
              /\ told' = told \cup counts
              /\ toldRead' = toldRead \cup ({r[1] : r \in counts} \cap seen)
           \/ UNCHANGED <<pending, mails, told, toldRead>>
    BY DEF SendDigest, personVars
  <1>2. /\ ClaimedBy(d) \subseteq counts
        /\ counts \subseteq digester[d].cutoff /\ counts \subseteq queued
        /\ \A r \in counts : r[1] \in Mention /\ (r[1] \in seen => r[1] \in excused)
    BY <1>1, NoticeClaims
  <1> HIDE DEF counts
  <1>3. GroupOK' /\ SeenOK'
    BY <1>1, NoticeOfDigest DEF NoticeInv, SeenOK
  <1>4. /\ pending' \subseteq pending /\ told \subseteq told'
        /\ pending \ pending' \subseteq told' /\ told' \subseteq queued
        /\ pending' \cap told' = {} /\ mails' \in Nat
    <2>1. told \subseteq queued /\ pending \cap told = {} /\ mails \in Nat
      BY DEF NoticeInv, MailOK, RowsOK
    <2> QED
      BY <1>1, <1>2, <2>1 DEF ClaimedBy
  <1>5. RowsOK'
    BY <1>1, <1>4 DEF NoticeInv, MailOK, RowsOK, RowsOf
  <1>6. /\ Resting \in DigestType /\ Resting.at = "rest" /\ Resting.cutoff = {}
        /\ Resting.counts = {}
    BY DEF Resting, DigestType
  <1>7. /\ digester' \in [Digester -> DigestType] /\ digester'[d] = Resting
        /\ \A c \in Digester : c # d => digester'[c] = digester[c]
    <2>1. digester \in [Digester -> DigestType]
      BY DEF NoticeInv, MailOK, PassOK, DigestType
    <2> QED
      BY <1>1, <1>6, <2>1
  <1>8. PassOK'
    <2> SUFFICES ASSUME NEW c \in Digester
                 PROVE  /\ digester'[c].counts \subseteq digester'[c].cutoff
                        /\ digester'[c].cutoff \subseteq queued'
                        /\ digester'[c].at = "read" =>
                               \A r \in pending' \cap digester'[c].cutoff :
                                   r[1] \in seen' => r[1] \in excused'
                        /\ digester'[c].at = "claim" =>
                               /\ pending' \cap digester'[c].cutoff \subseteq digester'[c].counts
                               /\ \A r \in digester'[c].counts : r[1] \in seen' => r[1] \in excused'
      BY <1>7, Zenon DEF PassOK, DigestType
    <2>1. CASE c = d
      BY <1>6, <1>7, <2>1
    <2>2. CASE c # d
      BY <1>1, <1>4, <1>7, <2>2 DEF NoticeInv, MailOK, PassOK
    <2> QED
      BY <2>1, <2>2
  <1>9. QueuedIsNotLost'
    BY <1>1, <1>4 DEF NoticeInv, MailOK, QueuedIsNotLost
  <1>10. ReadIsNotMailed' /\ toldRead' \subseteq Mention
    BY <1>1, <1>2 DEF NoticeInv, MailOK, ReadIsNotMailed
  <1> QED
    BY <1>1, <1>3, <1>4, <1>5, <1>8, <1>9, <1>10 DEF NoticeInv, MailOK

LEMMA NoticeStep == NoticeInv /\ [NotifyNext]_notifyVars => NoticeInv'
  <1> SUFFICES ASSUME NoticeInv, [NotifyNext]_notifyVars PROVE NoticeInv'
    OBVIOUS
  <1>1. CASE UNCHANGED notifyVars
    BY <1>1, NoticeMailStays, NoticeSeenStays, NoticeGroupStays
    DEF notifyVars, groupVars, mailVars, NoticeInv, GroupOK, SeenOK
  <1>2. CASE \E w \in Notifier : NotifyStep(w) \/ WriteRowFails(w) \/ QueueNothing(w)
                                 \/ NotifierDies(w)
    BY <1>2, NoticeTakes, NoticeWrites, NoticeLeaves, NoticeLooks, NoticeQueues
       DEF NotifyStep
  <1>3. CASE \E d \in Digester : PassStep(d) \/ PassFails(d)
    BY <1>3, NoticePasses, NoticeDrops, NoticeSends DEF PassStep
  <1> QED
    BY <1>1, <1>2, <1>3, NoticeHappens, NoticeReads, NoticeWaits, NoticeComesDue
       DEF NotifyNext

LEMMA NoticeInvariant == NotifySpec => []NoticeInv
  BY NoticeInit, NoticeStep, PTL DEF NotifySpec

(* Whatever is redelivered, held by two workers or fails, a mention whose  *)
(* event is done with is listed, a ring is announced once, and a mention   *)
(* that waits for the digest is mailed or was read, but not both           *)
(* (notifications/consumer.rs, email.rs).                                  *)
THEOREM JobsNoticeSafety == NotifySpec => []NoticeSafety
  <1>1. NoticeInv => NoticeSafety
    <2> SUFFICES ASSUME NoticeInv PROVE NoticeSafety
      OBVIOUS
    <2>1. /\ AckedIsListed /\ RungOnce /\ QueuedIsNotLost /\ ReadIsNotMailed
          /\ stream \subseteq happened /\ happened \subseteq Happening
          /\ notice \in [Happening -> {"none", "unread", "read"}]
          /\ toldRead \subseteq Mention /\ excused \subseteq Mention
          /\ notifyBudget \in NotifyBudget
      BY DEF NoticeInv, GroupOK, SeenOK, MailOK
    <2>2. \A w \in Notifier : /\ notifier[w].event \in Happening
                              /\ notifier[w].at \in {"free", "row", "pause", "email", "ack"}
      BY DEF NoticeInv, GroupOK, AtStages
    <2>3. /\ queued \subseteq Pending /\ pending \subseteq queued /\ due \subseteq queued
          /\ told \subseteq queued
      BY DEF NoticeInv, MailOK, RowsOK
    <2>4. \A d \in Digester : /\ digester[d].at \in {"rest", "seen", "read", "claim"}
                              /\ digester[d].counts \subseteq digester[d].cutoff
                              /\ digester[d].cutoff \subseteq queued
      BY DEF NoticeInv, MailOK, PassOK
    <2> QED
      BY <2>1, <2>2, <2>3, <2>4 DEF NoticeSafety, NotifyTypeOK
  <1> QED
    BY <1>1, NoticeInvariant, PTL

(* Every digest that is sent tells of something none has told of, however  *)
(* many jobs read the same rows: send_digest goes by what it deleted.      *)
THEOREM JobsTellsSomethingNew == NotifySpec => TellsSomethingNew
  <1> DEFINE News == mails' # mails => ~(told' \subseteq told)
  <1>1. NoticeInv /\ [NotifyNext]_notifyVars => [News]_notifyVars
    <2> SUFFICES ASSUME NoticeInv, NotifyNext, mails' # mails PROVE ~(told' \subseteq told)
      BY DEF notifyVars
    <2>1. PICK d \in Digester : SendDigest(d)
      BY DEF NotifyNext, NotifyStep, PassStep, Happens, WriteRowFails, QueueNothing,
             NotifierDies, ReadMessage, Pause, Unpause, RingGoesStale, PendingComesDue,
             PassFails, BeginPass, DropSeen, ReadDue, WriteRow, LookAtPause, QueueEmail,
             AckEvent, TakeEvent, mailVars
    <2>2. /\ ClaimedBy(d) # {} /\ told' = told \cup digester[d].counts
          /\ digester[d].at = "claim"
      BY <2>1 DEF SendDigest, SendsIf
    <2>3. ClaimedBy(d) \subseteq digester[d].counts /\ ClaimedBy(d) \cap told = {}
      BY <2>2, NoticeClaims
    <2> QED
      BY <2>2, <2>3
  <1> QED
    BY <1>1, NoticeInvariant, PTL DEF NotifySpec, TellsSomethingNew

-----------------------------------------------------------------------------
(* Slash commands. *)

CommandSpec == CommandInit /\ [][CommandNext]_commandVars

HandType == [at : {"free", "load", "call", "schedule", "settle", "hook", "check", "post",
                   "record", "tell", "gone"},
             attempt : Nat, seen : Nat, replaces : BOOLEAN,
             kind : {"none", "channel", "asker", "error"},
             may : {"none", "post", "read"}, had : BOOLEAN]
InvType == [there : BOOLEAN, attempts : Nat \ {0}, retry : {"none", "later", "due"},
            uses : 0..Uses, expired : BOOLEAN, answer : Nat]

CommandTypes ==
    /\ inv \in InvType /\ hand \in [Actor -> HandType] /\ posted \in Nat
    /\ calls \in [2..MaxCalls -> Nat] /\ answers \in Nat
    /\ right \in {"post", "read", "none"}
    /\ stained \subseteq {"dropped", "overlapped", "unrecorded"}
    /\ commandChanges \in Nat /\ commandFaults \in Nat
    /\ commandChanges + commandFaults <= MaxDisturbances
    /\ inv.answer <= posted /\ \A a \in Actor : hand[a].seen <= posted

(* Who can still make the app be called as attempt k: a retrier that has   *)
(* not come to it, and the asker, whose call may fail.  Beyond the last    *)
(* attempt: who can still get an answer.                                   *)
Ready(a, h, k) ==
    IF a = Asker THEN h.at \in {"free", "call", "schedule"}
    ELSE \/ h.at \in {"load", "call"} /\ h.attempt <= k
         \/ h.at = "schedule" /\ h.attempt < k
Callers(k) == {a \in Actor : Ready(a, hand[a], k)}

(* ... and the row, when it waits for a retrier, or will when nobody is    *)
(* left that works on it.                                                  *)
RowReady(k) ==
    inv.attempts < k /\ (inv.retry = "due" \/ (inv.retry = "later" /\ Retrying = {}))

(* The calls made and to come. *)
Weight(b) == IF b THEN 1 ELSE 0
Made(k) == IF k \in 2..MaxCalls THEN calls[k] ELSE answers
CallsOK ==
    \A k \in 2..(MaxCalls + 1) :
        /\ IsFiniteSet(Callers(k))
        /\ Made(k) + Cardinality(Callers(k)) + Weight(RowReady(k)) <= 1 + commandFaults

(* Where each actor can be, and what it has in hand. *)
Engaged(h) == h.at \in {"load", "call", "schedule", "settle"}
Fits(a, h) ==
    /\ h.at \in {"load", "settle"} => a \in Retrier
    /\ h.at \in {"call", "schedule"} => a \in Retrier \cup {Asker}
    /\ h.at = "hook" => a \in Responder
    /\ h.at = "gone" => a = Asker
    /\ a \in Retrier /\ Engaged(h) => h.attempt \in 2..MaxCalls
    /\ a \in Retrier /\ h.at = "schedule" => h.attempt < MaxCalls
    /\ h.at \in {"post", "record"} => h.kind = "channel"
    /\ h.at \in {"free", "load", "call", "schedule", "gone"} => h.kind = "none"
    /\ h.at = "record" => h.seen # 0

(* Before the command is invoked there is nothing. *)
Untouched == posted = 0 /\ ~inv.there /\ \A a \in Actor : hand[a].at = "free"
HandOK ==
    /\ inv.retry # "none" => inv.there /\ inv.attempts < MaxCalls
    /\ hand[Asker].at = "free" => Untouched
    /\ \A a \in Actor : Fits(a, hand[a])

(* Who may post now could do so since it began. *)
Entitled(h) ==
    /\ h.at \notin {"free", "gone"} /\ right = "post" => h.had
    /\ h.may = "post" \/ h.at = "post" => h.had
HadOK == \A a \in Actor : Entitled(hand[a])

(* Without overlap one actor at most has an answer for the channel, and    *)
(* what is posted is where the next one looks.                             *)
Clean == stained \cap {"overlapped", "unrecorded"} = {}
Answering(h) == h.kind = "channel" /\ h.at \in {"hook", "check", "post"} /\ h.seen = 0
AnswerOK ==
    Clean =>
        /\ \A a, b \in Actor : hand[a].kind = "channel" /\ hand[b].kind = "channel" => a = b
        /\ posted > 0 /\ inv.there =>
               inv.answer # 0 \/ \E a \in Actor : hand[a].at = "record"
        /\ \A p \in Responder : Answering(hand[p]) => posted = 0

CommandInv == CommandTypes /\ HandOK /\ CallsOK /\ HadOK /\ AnswerOK

LEMMA CommandBegins == CommandInit => CommandInv
  <1> SUFFICES ASSUME CommandInit PROVE CommandInv
    OBVIOUS
  <1>1. /\ AtLeisure \in HandType /\ AtLeisure.at = "free" /\ AtLeisure.kind = "none"
        /\ AtLeisure.may = "none" /\ AtLeisure.seen = 0
    BY DEF AtLeisure, HandType
  <1>2. /\ NotAsked \in InvType /\ NotAsked.retry = "none" /\ ~NotAsked.there
        /\ NotAsked.answer = 0
    BY CommandAssumption DEF NotAsked, InvType
  <1>3. Asker \in Actor /\ Asker \notin Retrier
    BY CommandAssumption DEF Actor
  <1>4. \A a \in Actor : hand[a] = AtLeisure
    BY DEF CommandInit
  <1>5. CommandTypes
    BY <1>1, <1>2, <1>4, CommandAssumption DEF CommandInit, CommandTypes
  <1>6. HandOK
    BY <1>1, <1>2, <1>3, <1>4 DEF CommandInit, HandOK, Untouched, Fits, Engaged
  <1>7. CallsOK
    <2> SUFFICES ASSUME NEW k \in 2..(MaxCalls + 1)
                 PROVE  /\ IsFiniteSet(Callers(k))
                        /\ Made(k) + Cardinality(Callers(k)) + Weight(RowReady(k))
                               <= 1 + commandFaults
      BY DEF CallsOK
    <2>1. Callers(k) = {Asker}
      BY <1>1, <1>3, <1>4 DEF Callers, Ready
    <2>2. IsFiniteSet({Asker}) /\ Cardinality({Asker}) = 1
      BY FS_Singleton
    <2>3. Made(k) = 0
      BY DEF CommandInit, Made
    <2>4. Weight(RowReady(k)) = 0
      BY <1>2 DEF CommandInit, RowReady, Weight
    <2> QED
      BY <2>1, <2>2, <2>3, <2>4 DEF CommandInit
  <1>8. HadOK
    BY <1>1, <1>4 DEF HadOK, Entitled
  <1>9. AnswerOK
    BY <1>1, <1>4 DEF CommandInit, AnswerOK, Answering, Actor
  <1> QED
    BY <1>5, <1>6, <1>7, <1>8, <1>9 DEF CommandInv

-----------------------------------------------------------------------------
(* What one actor does to its own hand. *)

LEMMA CommandActors == Asker \in Actor /\ Asker \notin Retrier /\ Asker \notin Responder
                       /\ Retrier \subseteq Actor /\ Responder \subseteq Actor
  BY CommandAssumption DEF Actor

OneMoves(a) ==
    /\ hand' \in [Actor -> HandType]
    /\ \A b \in Actor : b # a => hand'[b] = hand[b]

LEMMA CommandTakes ==
    ASSUME CommandTypes, NEW a \in Actor, NEW x \in HandType, hand' = [hand EXCEPT ![a] = x]
    PROVE  OneMoves(a) /\ hand'[a] = x
  BY DEF CommandTypes, OneMoves

LEMMA CommandGoes ==
    ASSUME CommandTypes, NEW a \in Actor, NEW at, To(a, at),
           at \in {"check", "post", "record", "tell", "schedule"}
    PROVE  /\ OneMoves(a) /\ hand'[a].at = at
           /\ hand'[a].kind = hand[a].kind /\ hand'[a].seen = hand[a].seen
           /\ hand'[a].may = hand[a].may /\ hand'[a].had = hand[a].had
           /\ hand'[a].attempt = hand[a].attempt
  <1> DEFINE x == [hand[a] EXCEPT !.at = at]
  <1>1. hand[a] \in HandType
    BY DEF CommandTypes
  <1>2. /\ x \in HandType /\ x.at = at /\ x.kind = hand[a].kind /\ x.seen = hand[a].seen
        /\ x.may = hand[a].may /\ x.had = hand[a].had /\ x.attempt = hand[a].attempt
    BY <1>1 DEF HandType
  <1>3. hand' = [hand EXCEPT ![a] = x]
    BY DEF To, CommandTypes
  <1> HIDE DEF x
  <1> QED
    BY <1>2, <1>3, CommandTakes

LEMMA CommandEnds ==
    ASSUME CommandTypes, NEW a \in Actor, Ends(a)
    PROVE  /\ OneMoves(a) /\ hand'[a].at = IF a = Asker THEN "gone" ELSE "free"
           /\ hand'[a].kind = "none" /\ hand'[a].seen = 0 /\ hand'[a].may = "none"
           /\ Fits(a, hand'[a]) /\ ~Engaged(hand'[a])
           /\ \A k : ~Ready(a, hand'[a], k)
  <1> DEFINE x == IF a = Asker THEN [AtLeisure EXCEPT !.at = "gone"] ELSE AtLeisure
  <1>1. /\ x \in HandType /\ x.at = (IF a = Asker THEN "gone" ELSE "free")
        /\ x.kind = "none" /\ x.seen = 0 /\ x.may = "none"
    BY DEF HandType, AtLeisure
  <1>2. hand' = [hand EXCEPT ![a] = x]
    BY DEF Ends
  <1> HIDE DEF x
  <1>3. OneMoves(a) /\ hand'[a] = x
    BY <1>1, <1>2, CommandTakes
  <1>4. Fits(a, hand'[a]) /\ ~Engaged(hand'[a]) /\ \A k : ~Ready(a, hand'[a], k)
    BY <1>1, <1>3 DEF Fits, Engaged, Ready
  <1> QED
    BY <1>1, <1>3, <1>4

-----------------------------------------------------------------------------
(* The parts of the invariant, when actor a moves. *)

LEMMA CommandHandStays ==
    ASSUME HandOK, NEW a \in Actor, OneMoves(a), Fits(a, hand'[a]), hand'[a].at # "free" \/ a # Asker,
           hand[Asker].at = "free" => a = Asker,
           inv'.retry # "none" => inv'.there /\ inv'.attempts < MaxCalls
    PROVE  HandOK'
  <1>1. \A b \in Actor : Fits(b, hand'[b])
    BY DEF HandOK, OneMoves
  <1>2. hand'[Asker].at # "free"
    BY CommandActors DEF OneMoves
  <1>3. \A b \in Actor : Fits(b, hand[b])'
    BY <1>1 DEF Fits, Engaged
  <1> QED
    BY <1>2, <1>3 DEF HandOK

LEMMA CommandHadStays ==
    ASSUME HadOK, NEW a \in Actor, OneMoves(a), right' = right, Entitled(hand'[a])
    PROVE  HadOK'
  BY DEF HadOK, OneMoves, Entitled

(* The calls: the others' part is as it was, so that what the actor and    *)
(* the row give up pays for what they take.                                *)
LEMMA CommandCounts ==
    ASSUME CommandTypes, CommandTypes', CallsOK, NEW a \in Actor, OneMoves(a),
           \A k \in 2..(MaxCalls + 1) :
               Made(k)' + Weight(Ready(a, hand'[a], k)) + Weight(RowReady(k)') + commandFaults
                   <= Made(k) + Weight(Ready(a, hand[a], k)) + Weight(RowReady(k)) + commandFaults'
    PROVE  CallsOK'
  <1> SUFFICES ASSUME NEW k \in 2..(MaxCalls + 1)
               PROVE  /\ IsFiniteSet(Callers(k)')
                      /\ Made(k)' + Cardinality(Callers(k)') + Weight(RowReady(k)')
                             <= 1 + commandFaults'
    BY DEF CallsOK, Weight
  <1> DEFINE S == Callers(k)
             T == Callers(k)'
             R == S \ {a}
  <1>1. T = {b \in Actor : Ready(b, hand'[b], k)}
    BY DEF Callers, Ready
  <1>2. /\ Ready(a, hand[a], k) => S = R \cup {a}
        /\ ~Ready(a, hand[a], k) => S = R
    BY DEF Callers
  <1>3. /\ Ready(a, hand'[a], k) => T = R \cup {a}
        /\ ~Ready(a, hand'[a], k) => T = R
    BY <1>1 DEF Callers, OneMoves
  <1>4. IsFiniteSet(S) /\ Made(k) + Cardinality(S) + Weight(RowReady(k)) <= 1 + commandFaults
    BY DEF CallsOK
  <1>5. IsFiniteSet(R) /\ Cardinality(R) \in Nat
    BY <1>4, FS_Subset, FS_CardinalityType
  <1>6. a \notin R
    OBVIOUS
  <1> HIDE DEF S, T, R
  <1>7. IsFiniteSet(R \cup {a}) /\ Cardinality(R \cup {a}) = Cardinality(R) + 1
    BY <1>5, <1>6, JobsOneMore
  <1>8. Cardinality(S) = Cardinality(R) + Weight(Ready(a, hand[a], k))
    <2>1. CASE Ready(a, hand[a], k)
      <3>1. Weight(Ready(a, hand[a], k)) = 1
        BY <2>1 DEF Weight
      <3> QED
        BY <3>1, <2>1, <1>2, <1>7
    <2>2. CASE ~Ready(a, hand[a], k)
      <3>1. Weight(Ready(a, hand[a], k)) = 0
        BY <2>2 DEF Weight
      <3> QED
        BY <3>1, <2>2, <1>2, <1>5
    <2> QED
      BY <2>1, <2>2
  <1>9. IsFiniteSet(T) /\ Cardinality(T) = Cardinality(R) + Weight(Ready(a, hand'[a], k))
    <2>1. CASE Ready(a, hand'[a], k)
      <3>1. Weight(Ready(a, hand'[a], k)) = 1
        BY <2>1 DEF Weight
      <3> QED
        BY <3>1, <2>1, <1>3, <1>7
    <2>2. CASE ~Ready(a, hand'[a], k)
      <3>1. Weight(Ready(a, hand'[a], k)) = 0
        BY <2>2 DEF Weight
      <3> QED
        BY <3>1, <2>2, <1>3, <1>5
    <2> QED
      BY <2>1, <2>2
  <1>10. /\ Weight(Ready(a, hand'[a], k)) \in Nat /\ Weight(Ready(a, hand[a], k)) \in Nat
         /\ Weight(RowReady(k)) \in Nat /\ Weight(RowReady(k)') \in Nat
    BY DEF Weight
  <1>11. Made(k) \in Nat /\ commandFaults \in Nat
    BY DEF Made, CommandTypes
  <1>12. Made(k)' \in Nat /\ commandFaults' \in Nat
    BY DEF Made, CommandTypes
  <1>13. Made(k)' + Weight(Ready(a, hand'[a], k)) + Weight(RowReady(k)') + commandFaults
             <= Made(k) + Weight(Ready(a, hand[a], k)) + Weight(RowReady(k)) + commandFaults'
    OBVIOUS
  <1>14. Made(k)' + Cardinality(T) + Weight(RowReady(k)') <= 1 + commandFaults'
    BY <1>4, <1>5, <1>8, <1>9, <1>10, <1>11, <1>12, <1>13
  <1> QED
    BY <1>9, <1>14 DEF T

LEMMA CommandRow ==
    ASSUME NEW a \in Actor, OneMoves(a), Engaged(hand'[a]) <=> Engaged(hand[a]),
           inv'.attempts = inv.attempts, inv'.retry = inv.retry
    PROVE  \A k : RowReady(k)' <=> RowReady(k)
  <1>1. Retrying' = Retrying
    BY CommandActors DEF Retrying, OneMoves, Engaged
  <1> QED
    BY <1>1 DEF RowReady

LEMMA CommandRowOfOthers ==
    ASSUME NEW a \in Actor \ Retrier, OneMoves(a),
           inv'.attempts = inv.attempts, inv'.retry = inv.retry
    PROVE  \A k : RowReady(k)' <=> RowReady(k)
  <1>1. Retrying' = Retrying
    BY CommandActors DEF Retrying, OneMoves
  <1> QED
    BY <1>1 DEF RowReady

(* An actor that cannot call, before or after. *)
LEMMA CommandQuiet ==
    ASSUME CommandTypes, CommandTypes', CallsOK, NEW a \in Actor, OneMoves(a),
           ~Engaged(hand[a]), ~Engaged(hand'[a]), a = Asker => hand'[a].at # "free",
           inv'.attempts = inv.attempts, inv'.retry = inv.retry,
           UNCHANGED <<calls, answers>>, commandFaults <= commandFaults'
    PROVE  CallsOK'
  <1>1. \A k : RowReady(k)' <=> RowReady(k)
    BY CommandRow
  <1>2. \A k : ~Ready(a, hand'[a], k)
    BY DEF Ready, Engaged
  <1>3. \A k \in 2..(MaxCalls + 1) : Made(k)' = Made(k) /\ Made(k) \in Nat
    BY DEF Made, CommandTypes
  <1>4. commandFaults \in Nat /\ commandFaults' \in Nat
    BY DEF CommandTypes
  <1>5. \A k \in 2..(MaxCalls + 1) :
               Made(k)' + Weight(Ready(a, hand'[a], k)) + Weight(RowReady(k)') + commandFaults
                   <= Made(k) + Weight(Ready(a, hand[a], k)) + Weight(RowReady(k)) + commandFaults'
    BY <1>1, <1>2, <1>3, <1>4 DEF Weight
  <1> QED
    BY <1>5, CommandCounts

(* An actor that stops: nobody may be left at the row, and a fault pays. *)
LEMMA CommandStops ==
    ASSUME CommandTypes, CommandTypes', CallsOK, NEW a \in Actor, OneMoves(a),
           \A k : ~Ready(a, hand'[a], k),
           UNCHANGED <<calls, answers>>, commandFaults' = commandFaults + 1
    PROVE  CallsOK'
  <1>3. \A k \in 2..(MaxCalls + 1) : Made(k)' = Made(k) /\ Made(k) \in Nat
    BY DEF Made, CommandTypes
  <1>4. commandFaults \in Nat /\ commandFaults' \in Nat
    BY DEF CommandTypes
  <1>5. \A k \in 2..(MaxCalls + 1) :
               Made(k)' + Weight(Ready(a, hand'[a], k)) + Weight(RowReady(k)') + commandFaults
                   <= Made(k) + Weight(Ready(a, hand[a], k)) + Weight(RowReady(k)) + commandFaults'
    BY <1>3, <1>4 DEF Weight
  <1> QED
    BY <1>5, CommandCounts

(* The answers: what the actor does not add, and does not take away. *)
LEMMA CommandAnswersStay ==
    ASSUME AnswerOK, NEW a \in Actor, OneMoves(a), stained \subseteq stained',
           hand'[a].kind = "channel" => hand[a].kind = "channel",
           hand[a].at = "record" => hand'[a].at = "record" \/ ~Clean',
           a \in Responder /\ Answering(hand'[a]) => Answering(hand[a]),
           posted' = posted, inv'.answer = inv.answer, inv'.there => inv.there
    PROVE  AnswerOK'
  <1> SUFFICES ASSUME Clean' PROVE AnswerOK'
    BY DEF AnswerOK
  <1>1. Clean
    BY DEF Clean
  <1>2. \A b, c \in Actor : hand'[b].kind = "channel" /\ hand'[c].kind = "channel" => b = c
    BY <1>1 DEF AnswerOK, OneMoves
  <1>3. posted' > 0 /\ inv'.there => inv'.answer # 0 \/ \E b \in Actor : hand'[b].at = "record"
    BY <1>1 DEF AnswerOK, OneMoves
  <1>4. \A p \in Responder : Answering(hand'[p]) => posted' = 0
    BY <1>1, CommandActors DEF AnswerOK, OneMoves
  <1> QED
    BY <1>2, <1>3, <1>4 DEF AnswerOK, Answering

(* An answer for the channel that begins. *)
LEMMA CommandAnswersBegin ==
    ASSUME AnswerOK, HandOK, NEW a \in Actor, OneMoves(a),
           \A b \in Actor : hand[b].kind # "channel",
           hand'[a].at # "record",
           stained \subseteq stained', posted' = posted, inv'.answer = inv.answer,
           inv'.there => inv.there,
           Answering(hand'[a]) /\ Clean /\ a \in Responder => posted = 0 
    PROVE  AnswerOK'
  <1> SUFFICES ASSUME Clean' PROVE AnswerOK'
    BY DEF AnswerOK
  <1>1. Clean
    BY DEF Clean
  <1>2. \A b, c \in Actor : hand'[b].kind = "channel" /\ hand'[c].kind = "channel" => b = c
    BY <1>1 DEF OneMoves
  <1>3. \A b \in Actor : hand[b].at # "record"
    BY DEF HandOK, Fits
  <1>4. posted' > 0 /\ inv'.there => inv'.answer # 0 \/ \E b \in Actor : hand'[b].at = "record"
    BY <1>1, <1>3 DEF AnswerOK
  <1>5. \A p \in Responder : Answering(hand'[p]) => posted' = 0
    BY <1>1, CommandActors DEF AnswerOK, OneMoves
  <1> QED
    BY <1>2, <1>4, <1>5 DEF AnswerOK, Answering

LEMMA CommandTypesStay ==
    ASSUME CommandTypes, NEW a \in Actor, OneMoves(a),
           inv' \in InvType, posted' \in Nat, posted <= posted', inv'.answer <= posted',
           hand'[a].seen <= posted', calls' \in [2..MaxCalls -> Nat], answers' \in Nat,
           right' = right, stained' \subseteq stained \cup {"dropped", "overlapped", "unrecorded"},
           commandChanges' = commandChanges, Faulty \/ commandFaults' = commandFaults
    PROVE  CommandTypes'
  <1>1. \A b \in Actor : hand[b].seen \in Nat /\ hand[b].seen <= posted
    BY DEF CommandTypes, HandType
  <1>2. \A b \in Actor : hand'[b].seen <= posted'
    <2> SUFFICES ASSUME NEW b \in Actor, b # a PROVE hand'[b].seen <= posted'
      OBVIOUS
    <2>1. hand'[b].seen = hand[b].seen
      BY DEF OneMoves
    <2> QED
      BY <1>1, <2>1 DEF CommandTypes
  <1>3. /\ commandChanges' \in Nat /\ commandFaults' \in Nat
        /\ commandChanges' + commandFaults' <= MaxDisturbances
    BY CommandAssumption DEF CommandTypes, Faulty, Disturbed
  <1>4. stained' \subseteq {"dropped", "overlapped", "unrecorded"}
    BY DEF CommandTypes
  <1>5. right' \in {"post", "read", "none"} /\ hand' \in [Actor -> HandType]
    BY DEF CommandTypes, OneMoves
  <1> QED
    BY <1>2, <1>3, <1>4, <1>5 DEF CommandTypes

(* A step that leaves the row, the calls and the messages alone. *)
LEMMA CommandTypesKept ==
    ASSUME CommandTypes, NEW a \in Actor, OneMoves(a), UNCHANGED <<inv, posted, calls, answers, right>>,
           hand'[a].seen <= posted, stained' \subseteq stained \cup {"dropped", "overlapped", "unrecorded"},
           commandChanges' = commandChanges, Faulty \/ commandFaults' = commandFaults
    PROVE  CommandTypes'
  <1>1. /\ inv' \in InvType /\ posted' \in Nat /\ posted <= posted' /\ inv'.answer <= posted'
        /\ calls' \in [2..MaxCalls -> Nat] /\ answers' \in Nat /\ right' = right
    BY DEF CommandTypes
  <1> QED
    BY <1>1, CommandTypesStay

-----------------------------------------------------------------------------
(* The asker. *)

LEMMA CommandInvoke ==
    ASSUME CommandInv, Invoke PROVE CommandInv'
  <1> DEFINE x == [AtLeisure EXCEPT !.at = "call", !.may = right, !.had = right = "post"]
             i == [NotAsked EXCEPT !.there = TRUE, !.uses = Uses]
  <1>1. /\ hand' = [hand EXCEPT ![Asker] = x] /\ inv' = i /\ hand[Asker] = AtLeisure
        /\ UNCHANGED <<right, posted, calls, answers, stained, commandChanges, commandFaults>>
    BY DEF Invoke
  <1>2. CommandTypes /\ HandOK /\ CallsOK /\ HadOK /\ AnswerOK
    BY DEF CommandInv
  <1>3. (right = "post") \in BOOLEAN
    BY Zenon
  <1>4. /\ x \in HandType /\ x.at = "call" /\ x.kind = "none" /\ x.seen = 0
        /\ x.may = right /\ x.had = (right = "post")
    BY <1>2, <1>3 DEF HandType, AtLeisure, CommandTypes
  <1>5. i \in InvType /\ i.retry = "none" /\ i.answer = 0 /\ i.there
    <2>1. Uses \in 0..Uses
      BY CommandAssumption
    <2>2. NotAsked \in InvType /\ NotAsked.retry = "none" /\ NotAsked.answer = 0
      BY CommandAssumption DEF NotAsked, InvType
    <2> QED
      BY <2>1, <2>2 DEF InvType
  <1> HIDE DEF x, i
  <1>6. OneMoves(Asker) /\ hand'[Asker] = x
    BY <1>1, <1>2, <1>4, CommandActors, CommandTakes
  <1>7. Untouched /\ hand[Asker].at = "free"
    BY <1>1, <1>2 DEF HandOK, AtLeisure
  <1>8. CommandTypes'
    <2>1. /\ inv' \in InvType /\ posted' \in Nat /\ posted <= posted' /\ inv'.answer <= posted'
          /\ hand'[Asker].seen <= posted'
          /\ calls' \in [2..MaxCalls -> Nat] /\ answers' \in Nat
      BY <1>1, <1>2, <1>4, <1>5, <1>6 DEF CommandTypes
    <2> QED
      BY <1>1, <1>2, <1>6, <2>1, CommandActors, CommandTypesStay
  <1>9. HandOK'
    <2>1. Fits(Asker, hand'[Asker])
      BY <1>4, <1>6, CommandActors DEF Fits
    <2> QED
      BY <1>1, <1>2, <1>4, <1>5, <1>6, <2>1, CommandActors, CommandHandStays
  <1>10. CallsOK'
    <2>1. \A k : Ready(Asker, hand'[Asker], k) /\ Ready(Asker, hand[Asker], k)
      BY <1>4, <1>6, <1>7 DEF Ready
    <2>2. \A k : ~RowReady(k)'
      BY <1>1, <1>5 DEF RowReady
    <2>3. \A k \in 2..(MaxCalls + 1) : Made(k)' = Made(k) /\ Made(k) \in Nat
      BY <1>1, <1>2 DEF Made, CommandTypes
    <2>4. commandFaults' = commandFaults /\ commandFaults \in Nat
      BY <1>1, <1>2 DEF CommandTypes
    <2>5. \A k \in 2..(MaxCalls + 1) :
              Made(k)' + Weight(Ready(Asker, hand'[Asker], k)) + Weight(RowReady(k)') + commandFaults
                  <= Made(k) + Weight(Ready(Asker, hand[Asker], k)) + Weight(RowReady(k))
                         + commandFaults'
      BY <2>1, <2>2, <2>3, <2>4 DEF Weight
    <2> QED
      BY <1>2, <1>6, <1>8, <2>5, CommandActors, CommandCounts
  <1>11. HadOK'
    BY <1>1, <1>2, <1>4, <1>6, CommandActors, CommandHadStays DEF Entitled
  <1>12. AnswerOK'
    <2>1. \A b, c \in Actor : hand'[b].kind = "channel" /\ hand'[c].kind = "channel" => b = c
      BY <1>2, <1>4, <1>6, <1>7 DEF OneMoves, Untouched, HandOK, Fits
    <2>2. posted' = 0
      BY <1>1, <1>7 DEF Untouched
    <2> QED
      BY <2>1, <2>2 DEF AnswerOK
  <1> QED
    BY <1>8, <1>9, <1>10, <1>11, <1>12 DEF CommandInv

LEMMA CommandStains ==
    ASSUME NEW what \in {"dropped", "overlapped", "unrecorded"}, NEW if, Stains(what, if)
    PROVE  /\ stained \subseteq stained'
           /\ stained' \subseteq stained \cup {"dropped", "overlapped", "unrecorded"}
           /\ if /\ what # "dropped" => ~Clean'
  BY DEF Stains, Clean

(* An answer for the channel is the first, or is known to overlap. *)
LEMMA CommandOverlaps ==
    ASSUME NEW kind, Overlaps(kind)
    PROVE  /\ stained \subseteq stained'
           /\ stained' \subseteq stained \cup {"dropped", "overlapped", "unrecorded"}
           /\ kind = "channel" => ~Clean' \/ \A b \in Actor : hand[b].kind # "channel"
  <1>1. Stains("overlapped", kind = "channel" /\ \E a \in Actor : hand[a].kind = "channel")
    BY DEF Overlaps
  <1> QED
    BY <1>1 DEF Stains, Clean

LEMMA CommandFirstAnswer ==
    ASSUME CommandInv, NEW kind, FirstAnswer(kind) PROVE CommandInv'
  <1>1. /\ hand[Asker].at = "call" /\ Overlaps(kind)
        /\ UNCHANGED <<inv, right, posted, calls, commandChanges, commandFaults>>
    BY DEF FirstAnswer
  <1>2. CommandTypes /\ HandOK /\ CallsOK /\ HadOK /\ AnswerOK
    BY DEF CommandInv
  <1>3. Asker \in Actor \ Retrier /\ Asker \notin Responder
    BY CommandActors
  <1>4. /\ OneMoves(Asker) /\ Fits(Asker, hand'[Asker]) /\ hand'[Asker].at \notin {"free", "record"}
        /\ hand'[Asker].seen <= posted
        /\ hand'[Asker].kind = "channel" => kind = "channel"
        /\ Entitled(hand'[Asker])
        /\ \/ hand'[Asker].at = "schedule" /\ answers' = answers
           \/ hand'[Asker].at \in {"post", "gone"} /\ answers' \in {answers, answers + 1}
    <2>1. CASE To(Asker, "schedule") /\ UNCHANGED <<answers, resolved>>
      <3>1. /\ OneMoves(Asker) /\ hand'[Asker].at = "schedule" /\ hand'[Asker].kind = hand[Asker].kind
            /\ hand'[Asker].seen = hand[Asker].seen
            /\ hand'[Asker].may = hand[Asker].may /\ hand'[Asker].had = hand[Asker].had
        BY <1>2, <1>3, <2>1, CommandGoes
      <3>2. hand[Asker].kind = "none"
        BY <1>1, <1>2, <1>3 DEF HandOK, Fits
      <3>3. Fits(Asker, hand'[Asker])
        BY <3>1, <3>2, <1>3 DEF Fits
      <3>4. Entitled(hand'[Asker])
        BY <1>1, <1>2, <1>3, <3>1 DEF HadOK, Entitled
      <3> QED
        BY <1>2, <1>3, <2>1, <3>1, <3>2, <3>3, <3>4 DEF CommandTypes
    <2>2. CASE /\ kind = "channel" /\ hand[Asker].may = "post"
               /\ hand' = [hand EXCEPT ![Asker].at = "post", ![Asker].kind = kind]
               /\ answers' = answers + 1
      <3> DEFINE x == [hand[Asker] EXCEPT !.at = "post", !.kind = "channel"]
      <3>1. hand[Asker] \in HandType
        BY <1>2, <1>3 DEF CommandTypes
      <3>2. /\ x \in HandType /\ x.at = "post" /\ x.kind = "channel" /\ x.seen = hand[Asker].seen
            /\ x.may = hand[Asker].may /\ x.had = hand[Asker].had
        BY <3>1 DEF HandType
      <3>3. hand' = [hand EXCEPT ![Asker] = x]
        BY <2>2, <1>2, <1>3 DEF CommandTypes
      <3> HIDE DEF x
      <3>4. OneMoves(Asker) /\ hand'[Asker] = x
        BY <1>2, <1>3, <3>2, <3>3, CommandTakes
      <3>5. Fits(Asker, hand'[Asker])
        BY <3>2, <3>4, <1>3 DEF Fits, Engaged
      <3>6. Entitled(hand'[Asker])
        BY <1>2, <1>3, <2>2, <3>2, <3>4 DEF HadOK, Entitled
      <3>7. hand'[Asker].seen <= posted
        BY <1>2, <1>3, <3>2, <3>4 DEF CommandTypes
      <3> QED
        BY <2>2, <3>2, <3>4, <3>5, <3>6, <3>7
    <2>3. CASE Ends(Asker) /\ answers' \in {answers, answers + 1}
      <3>1. /\ OneMoves(Asker) /\ hand'[Asker].at = "gone" /\ hand'[Asker].kind = "none"
            /\ hand'[Asker].seen = 0 /\ hand'[Asker].may = "none" /\ Fits(Asker, hand'[Asker])
        BY <1>2, <1>3, <2>3, CommandEnds
      <3>2. Entitled(hand'[Asker])
        BY <3>1 DEF Entitled
      <3>3. hand'[Asker].seen <= posted
        BY <1>2, <3>1 DEF CommandTypes
      <3> QED
        BY <2>3, <3>1, <3>2, <3>3
    <2> QED
      BY <2>1, <2>2, <2>3 DEF FirstAnswer
  <1>5. CommandTypes'
    <2>1. /\ inv' \in InvType /\ posted' \in Nat /\ posted <= posted' /\ inv'.answer <= posted'
          /\ hand'[Asker].seen <= posted'
          /\ calls' \in [2..MaxCalls -> Nat] /\ answers' \in Nat
      BY <1>1, <1>2, <1>4 DEF CommandTypes
    <2>2. stained' \subseteq stained \cup {"dropped", "overlapped", "unrecorded"}
      BY <1>1, CommandOverlaps
    <2> QED
      BY <1>1, <1>2, <1>3, <1>4, <2>1, <2>2, CommandTypesStay
  <1>6. HandOK'
    <2>1. inv'.retry # "none" => inv'.there /\ inv'.attempts < MaxCalls
      BY <1>1, <1>2 DEF HandOK
    <2> QED
      BY <1>1, <1>2, <1>3, <1>4, <2>1, CommandHandStays
  <1>7. CallsOK'
    <2>1. \A k : RowReady(k)' <=> RowReady(k)
      BY <1>1, <1>3, <1>4, CommandRowOfOthers
    <2>2. \A k : Ready(Asker, hand[Asker], k)
      BY <1>1 DEF Ready
    <2>3. commandFaults' = commandFaults /\ commandFaults \in Nat
      BY <1>1, <1>2 DEF CommandTypes
    <2>4. \A k : Ready(Asker, hand'[Asker], k) <=> hand'[Asker].at = "schedule"
      BY <1>4 DEF Ready
    <2>5. \A k \in 2..(MaxCalls + 1) :
              /\ Made(k) \in Nat /\ Made(k)' \in {Made(k), Made(k) + 1}
              /\ hand'[Asker].at = "schedule" => Made(k)' = Made(k)
      BY <1>1, <1>2, <1>4 DEF Made, CommandTypes
    <2>6. \A k \in 2..(MaxCalls + 1) :
              Made(k)' + Weight(Ready(Asker, hand'[Asker], k)) + Weight(RowReady(k)') + commandFaults
                  <= Made(k) + Weight(Ready(Asker, hand[Asker], k)) + Weight(RowReady(k))
                         + commandFaults'
      BY <2>1, <2>2, <2>3, <2>4, <2>5 DEF Weight
    <2> QED
      BY <1>2, <1>3, <1>4, <1>5, <2>6, CommandCounts
  <1>8. HadOK'
    BY <1>1, <1>2, <1>3, <1>4, CommandHadStays
  <1>9. AnswerOK'
    <2>1. /\ stained \subseteq stained'
          /\ kind = "channel" => ~Clean' \/ \A b \in Actor : hand[b].kind # "channel"
      BY <1>1, CommandOverlaps
    <2>2. CASE ~Clean'
      BY <2>2 DEF AnswerOK
    <2>3. CASE hand'[Asker].kind # "channel"
      BY <1>1, <1>2, <1>3, <1>4, <2>1, <2>3, CommandAnswersStay
    <2>4. CASE \A b \in Actor : hand[b].kind # "channel"
      BY <1>1, <1>2, <1>3, <1>4, <2>1, <2>4, CommandAnswersBegin
    <2> QED
      BY <1>4, <2>1, <2>2, <2>3, <2>4
  <1> QED
    BY <1>5, <1>6, <1>7, <1>8, <1>9 DEF CommandInv

-----------------------------------------------------------------------------
(* Whoever stops, or goes on with what it has, and leaves the row alone. *)

Elsewhere == /\ UNCHANGED <<inv, right, posted, calls, answers, commandChanges>>
             /\ stained \subseteq stained'
             /\ stained' \subseteq stained \cup {"dropped", "overlapped", "unrecorded"}

LEMMA CommandLeaves ==
    ASSUME CommandInv, NEW a \in Actor, hand[a].at # "free", Ends(a), Elsewhere,
           Faulty \/ (commandFaults' = commandFaults /\ ~Engaged(hand[a])),
           hand[a].at = "record" => ~Clean'
    PROVE  CommandInv'
  <1>1. CommandTypes /\ HandOK /\ CallsOK /\ HadOK /\ AnswerOK
    BY DEF CommandInv
  <1>2. /\ OneMoves(a) /\ hand'[a].at = (IF a = Asker THEN "gone" ELSE "free")
        /\ hand'[a].kind = "none" /\ hand'[a].seen = 0 /\ hand'[a].may = "none"
        /\ Fits(a, hand'[a]) /\ ~Engaged(hand'[a])
        /\ \A k : ~Ready(a, hand'[a], k)
    BY <1>1, CommandEnds
  <1>3. CommandTypes'
    <2>1. hand'[a].seen <= posted
      BY <1>1, <1>2 DEF CommandTypes
    <2> QED
      BY <1>1, <1>2, <2>1, CommandTypesKept DEF Elsewhere
  <1>4. HandOK'
    <2>1. inv'.retry # "none" => inv'.there /\ inv'.attempts < MaxCalls
      BY <1>1 DEF HandOK, Elsewhere
    <2>2. hand[Asker].at # "free"
      BY <1>1 DEF HandOK, Untouched
    <2> QED
      BY <1>1, <1>2, <2>1, <2>2, CommandHandStays
  <1>5. CallsOK'
    <2>1. CASE Faulty
      BY <1>1, <1>2, <1>3, <2>1, CommandStops DEF Elsewhere, Faulty
    <2>2. CASE commandFaults' = commandFaults /\ ~Engaged(hand[a])
      <3>1. commandFaults <= commandFaults'
        BY <1>1, <2>2 DEF CommandTypes
      <3> QED
        BY <1>1, <1>2, <1>3, <2>2, <3>1, CommandQuiet DEF Elsewhere
    <2> QED
      BY <2>1, <2>2
  <1>6. HadOK'
    BY <1>1, <1>2, CommandHadStays DEF Entitled, Elsewhere
  <1>7. AnswerOK'
    BY <1>1, <1>2, CommandAnswersStay DEF Elsewhere, Answering
  <1> QED
    BY <1>3, <1>4, <1>5, <1>6, <1>7 DEF CommandInv

LEMMA CommandGoesOn ==
    ASSUME CommandInv, NEW a \in Actor, NEW at \in {"check", "post", "tell"}, To(a, at),
           hand[a].at \notin {"free", "record"}, Elsewhere,
           Faulty \/ (commandFaults' = commandFaults /\ ~Engaged(hand[a])),
           at = "post" => hand[a].kind = "channel" /\ right = "post",
           a \in Responder => hand[a].at \in {"hook", "check"}, hand[a].at # "gone"
    PROVE  CommandInv'
  <1>1. CommandTypes /\ HandOK /\ CallsOK /\ HadOK /\ AnswerOK
    BY DEF CommandInv
  <1>2. /\ OneMoves(a) /\ hand'[a].at = at
        /\ hand'[a].kind = hand[a].kind /\ hand'[a].seen = hand[a].seen
        /\ hand'[a].may = hand[a].may /\ hand'[a].had = hand[a].had
    BY <1>1, CommandGoes
  <1>3. CommandTypes'
    <2>1. hand'[a].seen <= posted
      BY <1>1, <1>2 DEF CommandTypes
    <2> QED
      BY <1>1, <1>2, <2>1, CommandTypesKept DEF Elsewhere
  <1>4. HandOK'
    <2>1. inv'.retry # "none" => inv'.there /\ inv'.attempts < MaxCalls
      BY <1>1 DEF HandOK, Elsewhere
    <2>2. hand[Asker].at # "free"
      BY <1>1 DEF HandOK, Untouched
    <2>3. Fits(a, hand'[a])
      BY <1>2 DEF Fits, Engaged
    <2> QED
      BY <1>1, <1>2, <2>1, <2>2, <2>3, CommandHandStays
  <1>5. CallsOK'
    <2>1. ~Engaged(hand'[a]) /\ \A k : ~Ready(a, hand'[a], k)
      BY <1>2 DEF Engaged, Ready
    <2>2. CASE Faulty
      BY <1>1, <1>2, <1>3, <2>1, <2>2, CommandStops DEF Elsewhere, Faulty
    <2>3. CASE commandFaults' = commandFaults /\ ~Engaged(hand[a])
      <3>1. commandFaults <= commandFaults'
        BY <1>1, <2>3 DEF CommandTypes
      <3> QED
        BY <1>1, <1>2, <1>3, <2>1, <2>3, <3>1, CommandQuiet DEF Elsewhere
    <2> QED
      BY <2>2, <2>3
  <1>6. HadOK'
    <2>1. Entitled(hand'[a])
      BY <1>1, <1>2 DEF HadOK, Entitled
    <2> QED
      BY <1>1, <1>2, <2>1, CommandHadStays DEF Elsewhere
  <1>7. AnswerOK'
    BY <1>1, <1>2, CommandAnswersStay DEF Elsewhere, Answering
  <1> QED
    BY <1>3, <1>4, <1>5, <1>6, <1>7 DEF CommandInv

LEMMA CommandFails ==
    ASSUME CommandInv, NEW a \in Actor,
           \/ a \in Retrier /\ (LoadFails(a) \/ SettleFails(a))
           \/ ScheduleFails(a) \/ RecordFails(a) \/ ActorDies(a)
    PROVE  CommandInv'
  <1>1. CASE LoadFails(a) \/ ScheduleFails(a)
    <2>1. hand[a].at \in {"load", "schedule"} /\ Ends(a) /\ Faulty /\ Elsewhere
      BY <1>1 DEF LoadFails, ScheduleFails, Elsewhere
    <2> QED
      BY <2>1, CommandLeaves
  <1>2. CASE RecordFails(a) \/ ActorDies(a)
    <2>1. hand[a].at # "free" /\ Ends(a) /\ Faulty
          /\ UNCHANGED <<inv, right, posted, calls, answers, commandChanges>>
      BY <1>2 DEF RecordFails, ActorDies
    <2>2. /\ stained \subseteq stained' /\ ~Clean'
          /\ stained' \subseteq stained \cup {"dropped", "overlapped", "unrecorded"}
      BY <1>2 DEF RecordFails, ActorDies, Stains, Clean
    <2> QED
      BY <2>1, <2>2, CommandLeaves DEF Elsewhere
  <1>3. CASE a \in Retrier /\ SettleFails(a)
    <2>1. hand[a].at = "settle" /\ AfterSettling(a) /\ Faulty /\ Elsewhere
      BY <1>3 DEF SettleFails, Elsewhere
    <2>2. CASE Ends(a)
      BY <2>1, <2>2, CommandLeaves
    <2>3. CASE To(a, "tell") \/ To(a, "check")
      <3>1. a \notin Responder
        BY <1>3, CommandAssumption
      <3> QED
        BY <2>1, <2>3, <3>1, CommandGoesOn
    <2> QED
      BY <2>1, <2>2, <2>3 DEF AfterSettling
  <1> QED
    BY <1>1, <1>2, <1>3

LEMMA CommandChecks ==
    ASSUME CommandInv, NEW a \in Actor,
           \/ a \in Responder /\ CheckHook(a)
           \/ CheckRight(a) \/ Tell(a)
    PROVE  CommandInv'
  <1>1. CASE CheckHook(a) /\ a \in Responder
    <2>1. hand[a].at = "hook" /\ ~Engaged(hand[a]) /\ commandFaults' = commandFaults /\ Elsewhere
      BY <1>1 DEF CheckHook, Elsewhere, Engaged
    <2>2. CASE Ends(a)
      BY <2>1, <2>2, CommandLeaves
    <2>3. CASE To(a, "check")
      BY <2>1, <2>3, CommandGoesOn
    <2> QED
      BY <1>1, <2>2, <2>3 DEF CheckHook
  <1>2. CASE CheckRight(a)
    <2>1. hand[a].at = "check" /\ ~Engaged(hand[a]) /\ commandFaults' = commandFaults
          /\ UNCHANGED <<inv, right, posted, calls, answers, commandChanges>>
      BY <1>2 DEF CheckRight, Engaged
    <2>2. Elsewhere
      BY <1>2, <2>1 DEF CheckRight, Stains, Elsewhere
    <2>3. CASE Ends(a)
      BY <2>1, <2>2, <2>3, CommandLeaves
    <2>4. CASE To(a, "post") /\ right = "post" /\ hand[a].kind = "channel"
      BY <2>1, <2>2, <2>4, CommandGoesOn
    <2>5. CASE To(a, "tell")
      BY <2>1, <2>2, <2>5, CommandGoesOn
    <2> QED
      BY <1>2, <2>3, <2>4, <2>5 DEF CheckRight, RightNow
  <1>3. CASE Tell(a)
    <2>1. hand[a].at = "tell" /\ ~Engaged(hand[a]) /\ commandFaults' = commandFaults /\ Ends(a)
          /\ Elsewhere
      BY <1>3 DEF Tell, Elsewhere, Engaged
    <2> QED
      BY <2>1, CommandLeaves
  <1> QED
    BY <1>1, <1>2, <1>3

-----------------------------------------------------------------------------
(* The retriers. *)

LEMMA CommandClaims ==
    ASSUME CommandInv, NEW r \in Retrier, ClaimRetry(r) PROVE CommandInv'
  <1> DEFINE x == [AtLeisure EXCEPT !.at = "load", !.attempt = inv.attempts + 1,
                                    !.seen = inv.answer, !.had = right = "post"]
             i == [inv EXCEPT !.retry = "later"]
  <1>1. /\ hand' = [hand EXCEPT ![r] = x] /\ inv' = i /\ hand[r] = AtLeisure /\ inv.retry = "due"
        /\ UNCHANGED <<right, posted, calls, answers, stained, commandChanges, commandFaults>>
    BY DEF ClaimRetry, ClaimedRetry
  <1>2. CommandTypes /\ HandOK /\ CallsOK /\ HadOK /\ AnswerOK
    BY DEF CommandInv
  <1>3. r \in Actor /\ r # Asker /\ r \notin Responder
    BY CommandAssumption, CommandActors
  <1>4. /\ inv \in InvType /\ inv.attempts \in Nat \ {0} /\ inv.answer \in Nat
        /\ inv.answer <= posted
    BY <1>2 DEF CommandTypes, InvType
  <1>5. (right = "post") \in BOOLEAN
    BY Zenon
  <1>6. /\ x \in HandType /\ x.at = "load" /\ x.kind = "none" /\ x.seen = inv.answer
        /\ x.may = "none" /\ x.had = (right = "post") /\ x.attempt = inv.attempts + 1
    <2>1. AtLeisure \in HandType /\ AtLeisure.kind = "none" /\ AtLeisure.may = "none"
      BY DEF HandType, AtLeisure
    <2>2. inv.attempts + 1 \in Nat
      BY <1>4
    <2> QED
      BY <1>4, <1>5, <2>1, <2>2 DEF HandType
  <1>7. /\ i \in InvType /\ i.retry = "later" /\ i.answer = inv.answer /\ i.there = inv.there
        /\ i.attempts = inv.attempts
    BY <1>4 DEF InvType
  <1> HIDE DEF x, i
  <1>8. OneMoves(r) /\ hand'[r] = x
    BY <1>1, <1>2, <1>3, <1>6, CommandTakes
  <1>9. inv.there /\ inv.attempts < MaxCalls
    BY <1>1, <1>2 DEF HandOK
  <1>10. CommandTypes'
    <2>1. /\ inv' \in InvType /\ posted' \in Nat /\ posted <= posted' /\ inv'.answer <= posted'
          /\ hand'[r].seen <= posted'
          /\ calls' \in [2..MaxCalls -> Nat] /\ answers' \in Nat
      BY <1>1, <1>2, <1>4, <1>6, <1>7, <1>8 DEF CommandTypes
    <2> QED
      BY <1>1, <1>2, <1>3, <1>8, <2>1, CommandTypesStay
  <1>11. inv.attempts + 1 \in 2..MaxCalls
    BY <1>4, <1>9, CommandAssumption
  <1>12. HandOK'
    <2>1. Fits(r, hand'[r])
      BY <1>3, <1>6, <1>8, <1>11 DEF Fits, Engaged
    <2>2. inv'.there /\ inv'.attempts < MaxCalls
      BY <1>1, <1>7, <1>9
    <2>3. hand[Asker].at # "free"
      BY <1>2, <1>9 DEF HandOK, Untouched
    <2> QED
      BY <1>2, <1>3, <1>6, <1>8, <2>1, <2>2, <2>3, CommandHandStays
  <1>13. CallsOK'
    <2>1. \A k : ~Ready(r, hand[r], k)
      BY <1>1, <1>3 DEF Ready, AtLeisure
    <2>2. \A k : Ready(r, hand'[r], k) <=> inv.attempts + 1 <= k
      BY <1>3, <1>6, <1>8 DEF Ready
    <2>3. \A k : RowReady(k) <=> inv.attempts < k
      BY <1>1 DEF RowReady
    <2>4. \A k : ~RowReady(k)'
      <3>1. r \in Retrying'
        BY <1>6, <1>8 DEF Retrying
      <3> QED
        BY <1>1, <1>7, <3>1 DEF RowReady
    <2>5. \A k \in 2..(MaxCalls + 1) : Made(k)' = Made(k) /\ Made(k) \in Nat
      BY <1>1, <1>2 DEF Made, CommandTypes
    <2>6. commandFaults' = commandFaults /\ commandFaults \in Nat
      BY <1>1, <1>2 DEF CommandTypes
    <2>7. \A k \in 2..(MaxCalls + 1) : inv.attempts + 1 <= k <=> inv.attempts < k
      BY <1>4, CommandAssumption
    <2>8. \A k \in 2..(MaxCalls + 1) :
              Made(k)' + Weight(Ready(r, hand'[r], k)) + Weight(RowReady(k)') + commandFaults
                  <= Made(k) + Weight(Ready(r, hand[r], k)) + Weight(RowReady(k))
                         + commandFaults'
      BY <2>1, <2>2, <2>3, <2>4, <2>5, <2>6, <2>7 DEF Weight
    <2> QED
      BY <1>2, <1>3, <1>8, <1>10, <2>8, CommandCounts
  <1>14. HadOK'
    BY <1>1, <1>2, <1>3, <1>6, <1>8, CommandHadStays DEF Entitled
  <1>15. AnswerOK'
    <2>1. hand[r].at # "record"
      BY <1>1 DEF AtLeisure
    <2> QED
      BY <1>1, <1>2, <1>3, <1>6, <1>7, <1>8, <2>1, CommandAnswersStay
  <1> QED
    BY <1>10, <1>12, <1>13, <1>14, <1>15 DEF CommandInv

(* A retrier looks the hook up, or calls the app. *)
LEMMA CommandTries ==
    ASSUME CommandInv, NEW r \in Retrier, NEW at \in {"call", "schedule", "settle"},
           OneMoves(r), hand'[r].at = at,
           hand'[r].seen = hand[r].seen, hand'[r].attempt = hand[r].attempt,
           hand'[r].may = hand[r].may, hand'[r].had = hand[r].had,
           hand[r].at \in {"load", "call"},
           at = "schedule" => hand[r].attempt < MaxCalls,
           at \in {"call", "schedule"} => hand'[r].kind = "none",
           UNCHANGED <<inv, right, posted, commandChanges, commandFaults>>,
           stained \subseteq stained',
           stained' \subseteq stained \cup {"dropped", "overlapped", "unrecorded"},
           hand'[r].kind = "channel" => ~Clean' \/ \A b \in Actor : hand[b].kind # "channel",
           \/ UNCHANGED <<calls, answers>>
           \/ /\ at # "call" /\ calls' = [calls EXCEPT ![hand[r].attempt] = @ + 1]
              /\ answers' \in {answers, answers + 1}
              /\ at = "schedule" => answers' = answers
    PROVE  CommandInv'
  <1> DEFINE x == hand'[r]
             n == hand[r].attempt
             kind == x.kind
  <1>1. CommandTypes /\ HandOK /\ CallsOK /\ HadOK /\ AnswerOK
    BY DEF CommandInv
  <1>2. r \in Actor /\ r # Asker /\ r \notin Responder
    BY CommandAssumption, CommandActors
  <1>3. hand[r] \in HandType /\ hand[r].seen <= posted /\ Fits(r, hand[r])
    BY <1>1, <1>2 DEF CommandTypes, HandOK
  <1>4. /\ x.at = at /\ x.kind = kind /\ x.seen = hand[r].seen
        /\ x.may = hand[r].may /\ x.had = hand[r].had /\ x.attempt = n
    OBVIOUS
  <1>5. n \in 2..MaxCalls
    BY <1>3 DEF Fits, Engaged
  <1>7. OneMoves(r) /\ hand'[r] = x
    OBVIOUS
  <1>8. CommandTypes'
    <2>1. /\ inv' \in InvType /\ posted' \in Nat /\ posted <= posted' /\ inv'.answer <= posted'
          /\ hand'[r].seen <= posted'
      BY <1>1, <1>3, <1>4, <1>7 DEF CommandTypes
    <2>2. calls' \in [2..MaxCalls -> Nat] /\ answers' \in Nat
      BY <1>1, <1>5 DEF CommandTypes
    <2> QED
      BY <1>1, <1>2, <1>7, <2>1, <2>2, CommandTypesStay
  <1>9. HandOK'
    <2>1. Fits(r, hand'[r])
      BY <1>2, <1>4, <1>5, <1>7 DEF Fits, Engaged
    <2>2. inv'.retry # "none" => inv'.there /\ inv'.attempts < MaxCalls
      BY <1>1 DEF HandOK
    <2>3. hand[Asker].at # "free"
      BY <1>1, <1>2 DEF HandOK, Untouched
    <2> QED
      BY <1>1, <1>2, <1>4, <1>7, <2>1, <2>2, <2>3, CommandHandStays
  <1>10. CallsOK'
    <2>1. \A k : RowReady(k)' <=> RowReady(k)
      BY <1>2, <1>4, <1>7, CommandRow DEF Engaged
    <2>2. \A k : Ready(r, hand[r], k) <=> n <= k
      BY <1>2 DEF Ready
    <2>3. \A k : Ready(r, hand'[r], k) <=> (at = "call" /\ n <= k) \/ (at = "schedule" /\ n < k)
      BY <1>2, <1>4, <1>7 DEF Ready
    <2>4. commandFaults' = commandFaults /\ commandFaults \in Nat
      BY <1>1 DEF CommandTypes
    <2>5. CASE UNCHANGED <<calls, answers>>
      <3>1. \A k \in 2..(MaxCalls + 1) : Made(k)' = Made(k) /\ Made(k) \in Nat
        BY <1>1, <2>5 DEF Made, CommandTypes
      <3>2. \A k \in 2..(MaxCalls + 1) :
                Made(k)' + Weight(Ready(r, hand'[r], k)) + Weight(RowReady(k)') + commandFaults
                    <= Made(k) + Weight(Ready(r, hand[r], k)) + Weight(RowReady(k))
                           + commandFaults'
        <4>1. \A k \in 2..(MaxCalls + 1) : n < k => n <= k
          BY <1>5
        <4> QED
          BY <2>1, <2>2, <2>3, <2>4, <3>1, <4>1 DEF Weight
      <3> QED
        BY <1>1, <1>2, <1>7, <1>8, <3>2, CommandCounts
    <2>6. CASE /\ at # "call" /\ calls' = [calls EXCEPT ![n] = @ + 1]
               /\ answers' \in {answers, answers + 1}
               /\ at = "schedule" => answers' = answers
      <3>1. \A k \in 2..(MaxCalls + 1) :
                Made(k)' + Weight(Ready(r, hand'[r], k)) + Weight(RowReady(k)') + commandFaults
                    <= Made(k) + Weight(Ready(r, hand[r], k)) + Weight(RowReady(k))
                           + commandFaults'
        <4> TAKE k \in 2..(MaxCalls + 1)
        <4>1. k \in 2..MaxCalls => Made(k)' + Weight(Ready(r, hand'[r], k))
                                    <= Made(k) + Weight(Ready(r, hand[r], k))
          <5>0. SUFFICES ASSUME k \in 2..MaxCalls
                         PROVE  Made(k)' + Weight(Ready(r, hand'[r], k))
                                    <= Made(k) + Weight(Ready(r, hand[r], k))
            OBVIOUS
          <5>1. Made(k) = calls[k] /\ Made(k)' = calls'[k] /\ calls[k] \in Nat
            BY <1>1, <5>0 DEF Made, CommandTypes
          <5>2. CASE k = n
            <6>1. calls'[k] = calls[k] + 1
              BY <1>1, <2>6, <5>0, <5>2 DEF CommandTypes
            <6>2. ~Ready(r, hand'[r], k)
              BY <1>5, <2>3, <2>6, <5>2
            <6>3. Ready(r, hand[r], k)
              BY <1>5, <2>2, <5>2
            <6> QED
              BY <5>1, <6>1, <6>2, <6>3 DEF Weight
          <5>3. CASE k # n
            <6>1. calls'[k] = calls[k]
              BY <1>1, <2>6, <5>0, <5>3 DEF CommandTypes
            <6>2. Ready(r, hand'[r], k) => Ready(r, hand[r], k)
              BY <1>5, <2>2, <2>3, <2>6
            <6> QED
              BY <5>1, <6>1, <6>2 DEF Weight
          <5> QED
            BY <5>2, <5>3
        <4>2. k \notin 2..MaxCalls => Made(k)' + Weight(Ready(r, hand'[r], k))
                                       <= Made(k) + Weight(Ready(r, hand[r], k))
          <5>0. SUFFICES ASSUME k \notin 2..MaxCalls
                         PROVE  Made(k)' + Weight(Ready(r, hand'[r], k))
                                    <= Made(k) + Weight(Ready(r, hand[r], k))
            OBVIOUS
          <5>1. Made(k) = answers /\ Made(k)' = answers' /\ answers \in Nat
            BY <1>1, <5>0 DEF Made, CommandTypes
          <5>2. n <= k
            BY <1>5, <5>0, CommandAssumption
          <5>3. Ready(r, hand[r], k)
            BY <2>2, <5>2
          <5>4. Ready(r, hand'[r], k) => answers' = answers
            BY <2>3, <2>6
          <5>5. answers' = answers \/ answers' = answers + 1
            BY <2>6
          <5>6. Weight(Ready(r, hand[r], k)) = 1
            BY <5>3 DEF Weight
          <5>7. CASE Ready(r, hand'[r], k)
            <6>1. Weight(Ready(r, hand'[r], k)) = 1
              BY <5>7 DEF Weight
            <6>2. answers' = answers
              BY <5>4, <5>7
            <6> QED
              BY <5>1, <5>6, <6>1, <6>2
          <5>8. CASE ~Ready(r, hand'[r], k)
            <6>1. Weight(Ready(r, hand'[r], k)) = 0
              BY <5>8 DEF Weight
            <6> QED
              BY <5>1, <5>5, <5>6, <6>1
          <5> QED
            BY <5>7, <5>8
        <4>3. Made(k) \in Nat /\ Made(k)' \in Nat
          BY <1>1, <1>8 DEF Made, CommandTypes
        <4>4. Weight(RowReady(k)') = Weight(RowReady(k)) /\ Weight(RowReady(k)) \in Nat
          BY <2>1 DEF Weight
        <4>5. Weight(Ready(r, hand'[r], k)) \in Nat /\ Weight(Ready(r, hand[r], k)) \in Nat
          BY DEF Weight
        <4>6. Made(k)' + Weight(Ready(r, hand'[r], k)) <= Made(k) + Weight(Ready(r, hand[r], k))
          BY <4>1, <4>2
        <4> QED
          BY <2>4, <4>3, <4>4, <4>5, <4>6
      <3> QED
        BY <1>1, <1>2, <1>7, <1>8, <3>1, CommandCounts
    <2> QED
      BY <2>5, <2>6
  <1>11. HadOK'
    <2>1. Entitled(hand'[r])
      BY <1>1, <1>2, <1>4, <1>7 DEF HadOK, Entitled
    <2> QED
      BY <1>1, <1>2, <1>7, <2>1, CommandHadStays
  <1>12. AnswerOK'
    <2>1. hand[r].at # "record"
      OBVIOUS
    <2>2. CASE ~Clean'
      BY <2>2 DEF AnswerOK
    <2>3. CASE kind # "channel"
      BY <1>1, <1>2, <1>4, <1>7, <2>1, <2>3, CommandAnswersStay
    <2>4. CASE \A b \in Actor : hand[b].kind # "channel"
      BY <1>1, <1>2, <1>4, <1>7, <2>4, CommandAnswersBegin
    <2> QED
      BY <2>2, <2>3, <2>4
  <1> QED
    BY <1>8, <1>9, <1>10, <1>11, <1>12 DEF CommandInv

(* What a retrier changes of its hand when it tries. *)
LEMMA CommandTurns ==
    ASSUME CommandTypes, NEW a \in Actor, NEW at \in {"call", "settle"},
           NEW kind \in {"none", "channel", "asker", "error"},
           hand' = [hand EXCEPT ![a].at = at, ![a].kind = kind]
    PROVE  /\ OneMoves(a) /\ hand'[a].at = at /\ hand'[a].kind = kind
           /\ hand'[a].seen = hand[a].seen /\ hand'[a].attempt = hand[a].attempt
           /\ hand'[a].may = hand[a].may /\ hand'[a].had = hand[a].had
  <1> DEFINE x == [hand[a] EXCEPT !.at = at, !.kind = kind]
  <1>1. hand[a] \in HandType
    BY DEF CommandTypes
  <1>2. /\ x \in HandType /\ x.at = at /\ x.kind = kind /\ x.seen = hand[a].seen
        /\ x.attempt = hand[a].attempt /\ x.may = hand[a].may /\ x.had = hand[a].had
    BY <1>1 DEF HandType
  <1>3. hand' = [hand EXCEPT ![a] = x]
    BY DEF CommandTypes
  <1> HIDE DEF x
  <1> QED
    BY <1>2, <1>3, CommandTakes

LEMMA CommandLoads ==
    ASSUME CommandInv, NEW r \in Retrier, LoadHook(r) PROVE CommandInv'
  <1> DEFINE at == IF hookOn THEN "call" ELSE "settle"
             kind == IF hookOn THEN "none" ELSE "error"
  <1>1. /\ hand[r].at = "load" /\ hand' = [hand EXCEPT ![r].at = at, ![r].kind = kind]
        /\ UNCHANGED <<inv, right, posted, calls, answers, stained, commandChanges, commandFaults>>
    BY DEF LoadHook
  <1>2. /\ at \in {"call", "settle"} /\ kind \in {"none", "channel", "asker", "error"}
        /\ at = "call" => kind = "none"
        /\ kind # "channel"
    OBVIOUS
  <1>3. CommandTypes /\ r \in Actor
    BY CommandActors DEF CommandInv
  <1> HIDE DEF at, kind
  <1>4. /\ OneMoves(r) /\ hand'[r].at = at /\ hand'[r].kind = kind
        /\ hand'[r].seen = hand[r].seen /\ hand'[r].attempt = hand[r].attempt
        /\ hand'[r].may = hand[r].may /\ hand'[r].had = hand[r].had
    BY <1>1, <1>2, <1>3, CommandTurns
  <1> QED
    BY <1>1, <1>2, <1>4, CommandTries

LEMMA CommandCallsAgain ==
    ASSUME CommandInv, NEW r \in Retrier,
           NEW kind \in {"unreachable", "acknowledged", "channel", "asker", "error"},
           CallAgain(r, kind)
    PROVE  CommandInv'
  <1>1. /\ hand[r].at = "call" /\ Overlaps(kind)
        /\ calls' = [calls EXCEPT ![hand[r].attempt] = @ + 1]
        /\ answers' = IF kind \in {"channel", "asker"} THEN answers + 1 ELSE answers
        /\ UNCHANGED <<inv, right, posted, commandChanges, commandFaults>>
    BY DEF CallAgain
  <1>2. CommandTypes /\ HandOK /\ r \in Actor
    BY CommandActors DEF CommandInv
  <1>3. /\ stained \subseteq stained'
        /\ stained' \subseteq stained \cup {"dropped", "overlapped", "unrecorded"}
        /\ kind = "channel" => ~Clean' \/ \A b \in Actor : hand[b].kind # "channel"
    BY <1>1, CommandOverlaps
  <1>4. answers' \in {answers, answers + 1} /\ (kind = "unreachable" => answers' = answers)
    BY <1>1
  <1>5. CASE /\ kind = "unreachable" /\ hand[r].attempt < MaxCalls
             /\ hand' = [hand EXCEPT ![r].at = "schedule"]
    <2>1. /\ OneMoves(r) /\ hand'[r].at = "schedule" /\ hand'[r].kind = hand[r].kind
          /\ hand'[r].seen = hand[r].seen /\ hand'[r].attempt = hand[r].attempt
          /\ hand'[r].may = hand[r].may /\ hand'[r].had = hand[r].had
      BY <1>2, <1>5, CommandGoes DEF To
    <2>2. hand[r].kind = "none"
      BY <1>1, <1>2 DEF HandOK, Fits
    <2> QED
      BY <1>1, <1>3, <1>4, <1>5, <2>1, <2>2, CommandTries
  <1>6. CASE hand' = [hand EXCEPT ![r].at = "settle",
                                  ![r].kind = IF kind = "unreachable" THEN "error"
                                              ELSE IF kind = "acknowledged" THEN "none" ELSE kind]
    <2> DEFINE what == IF kind = "unreachable" THEN "error"
                       ELSE IF kind = "acknowledged" THEN "none" ELSE kind
    <2>1. /\ what \in {"none", "channel", "asker", "error"}
          /\ what = "channel" => kind = "channel"
      OBVIOUS
    <2>2. hand' = [hand EXCEPT ![r].at = "settle", ![r].kind = what]
      BY <1>6
    <2> HIDE DEF what
    <2>3. /\ OneMoves(r) /\ hand'[r].at = "settle" /\ hand'[r].kind = what
          /\ hand'[r].seen = hand[r].seen /\ hand'[r].attempt = hand[r].attempt
          /\ hand'[r].may = hand[r].may /\ hand'[r].had = hand[r].had
      BY <1>2, <2>1, <2>2, CommandTurns
    <2> QED
      BY <1>1, <1>3, <1>4, <2>1, <2>3, CommandTries
  <1> QED
    BY <1>5, <1>6 DEF CallAgain, TriesAgain

(* The row, as a retrier or the asker writes it. *)
LEMMA CommandWritten ==
    ASSUME CommandTypes, NEW n \in Nat \ {0}, NEW retry \in {"none", "later", "due"}
    PROVE  LET i == [inv EXCEPT !.attempts = n, !.retry = retry]
           IN  /\ i \in InvType /\ i.attempts = n /\ i.retry = retry
               /\ i.answer = inv.answer /\ i.there = inv.there
  BY DEF CommandTypes, InvType

LEMMA CommandSchedules ==
    ASSUME CommandInv, NEW a \in Actor, ScheduleRetry(a) PROVE CommandInv'
  <1> DEFINE n == IF a = Asker THEN 1 ELSE hand[a].attempt
             i == [inv EXCEPT !.attempts = n, !.retry = "later"]
  <1>1. /\ hand[a].at = "schedule" /\ Ends(a)
        /\ UNCHANGED <<right, posted, calls, answers, stained, commandChanges, commandFaults>>
    BY DEF ScheduleRetry
  <1>2. CommandTypes /\ HandOK /\ CallsOK /\ HadOK /\ AnswerOK
    BY DEF CommandInv
  <1>3. n \in Nat \ {0} /\ n < MaxCalls
    BY <1>1, <1>2, CommandAssumption DEF HandOK, Fits, Engaged
  <1>4. /\ i \in InvType /\ i.attempts = n /\ i.retry = "later"
        /\ i.answer = inv.answer /\ i.there = inv.there
    BY <1>2, <1>3, CommandWritten
  <1>5. inv' = IF inv.there THEN i ELSE inv
    BY <1>2 DEF ScheduleRetry, CommandTypes, InvType
  <1> HIDE DEF i
  <1>6. /\ OneMoves(a) /\ hand'[a].at = (IF a = Asker THEN "gone" ELSE "free")
        /\ hand'[a].kind = "none" /\ hand'[a].seen = 0 /\ hand'[a].may = "none"
        /\ Fits(a, hand'[a]) /\ \A k : ~Ready(a, hand'[a], k)
    BY <1>1, <1>2, CommandEnds
  <1>7. /\ inv' \in InvType /\ inv'.answer = inv.answer /\ inv'.there = inv.there
    BY <1>2, <1>4, <1>5 DEF CommandTypes
  <1>8. CommandTypes'
    <2>1. /\ posted' \in Nat /\ posted <= posted' /\ inv'.answer <= posted'
          /\ hand'[a].seen <= posted'
          /\ calls' \in [2..MaxCalls -> Nat] /\ answers' \in Nat
      BY <1>1, <1>2, <1>6, <1>7 DEF CommandTypes
    <2> QED
      BY <1>1, <1>2, <1>6, <1>7, <2>1, CommandTypesStay
  <1>9. inv'.retry # "none" => inv'.there /\ inv'.attempts < MaxCalls
    BY <1>2, <1>3, <1>4, <1>5 DEF HandOK
  <1>10. HandOK'
    <2>1. hand[Asker].at # "free"
      BY <1>1, <1>2 DEF HandOK, Untouched
    <2> QED
      BY <1>2, <1>6, <1>9, <2>1, CommandHandStays
  <1>11. CallsOK'
    <2>1. \A k \in 2..(MaxCalls + 1) : RowReady(k)' => n < k
      <3>1. CASE inv.there
        BY <1>4, <1>5, <3>1 DEF RowReady
      <3>2. CASE ~inv.there
        BY <1>2, <1>5, <3>2 DEF RowReady, HandOK
      <3> QED
        BY <3>1, <3>2
    <2>2. \A k \in 2..(MaxCalls + 1) : n < k => Ready(a, hand[a], k)
      BY <1>1 DEF Ready
    <2>3. \A k \in 2..(MaxCalls + 1) : Made(k)' = Made(k) /\ Made(k) \in Nat
      BY <1>1, <1>2 DEF Made, CommandTypes
    <2>4. commandFaults' = commandFaults /\ commandFaults \in Nat
      BY <1>1, <1>2 DEF CommandTypes
    <2>5. \A k \in 2..(MaxCalls + 1) :
              Made(k)' + Weight(Ready(a, hand'[a], k)) + Weight(RowReady(k)') + commandFaults
                  <= Made(k) + Weight(Ready(a, hand[a], k)) + Weight(RowReady(k))
                         + commandFaults'
      BY <1>6, <2>1, <2>2, <2>3, <2>4 DEF Weight
    <2> QED
      BY <1>2, <1>6, <1>8, <2>5, CommandCounts
  <1>12. HadOK'
    BY <1>1, <1>2, <1>6, CommandHadStays DEF Entitled
  <1>13. AnswerOK'
    BY <1>1, <1>2, <1>6, <1>7, CommandAnswersStay DEF Answering
  <1> QED
    BY <1>8, <1>10, <1>11, <1>12, <1>13 DEF CommandInv

LEMMA CommandSettles ==
    ASSUME CommandInv, NEW r \in Retrier, Settle(r) PROVE CommandInv'
  <1> DEFINE i == [inv EXCEPT !.attempts = hand[r].attempt, !.retry = "none"]
  <1>1. /\ hand[r].at = "settle" /\ AfterSettling(r)
        /\ UNCHANGED <<right, posted, calls, answers, stained, commandChanges, commandFaults>>
    BY DEF Settle
  <1>2. CommandTypes /\ HandOK /\ CallsOK /\ HadOK /\ AnswerOK
    BY DEF CommandInv
  <1>3. r \in Actor /\ r # Asker /\ r \notin Responder
    BY CommandAssumption, CommandActors
  <1>4. hand[r].attempt \in Nat \ {0}
    BY <1>1, <1>2, <1>3, CommandAssumption DEF HandOK, Fits, Engaged
  <1>5. /\ i \in InvType /\ i.retry = "none" /\ i.answer = inv.answer /\ i.there = inv.there
    BY <1>2, <1>4, CommandWritten
  <1>6. inv' = IF inv.there THEN i ELSE inv
    BY DEF Settle, SettledRow
  <1> HIDE DEF i
  <1>7. /\ inv' \in InvType /\ inv'.answer = inv.answer /\ inv'.there = inv.there
        /\ inv'.retry = "none"
    BY <1>2, <1>5, <1>6 DEF CommandTypes, HandOK, InvType
  <1>8. /\ OneMoves(r) /\ hand'[r].at \in {"free", "check", "tell"}
        /\ hand'[r].kind = "channel" => hand[r].kind = "channel"
        /\ hand'[r].seen <= posted /\ Fits(r, hand'[r]) /\ Entitled(hand'[r])
    <2>1. CASE Ends(r)
      <3>1. /\ OneMoves(r) /\ hand'[r].at = "free"
            /\ hand'[r].kind = "none" /\ hand'[r].seen = 0 /\ hand'[r].may = "none"
            /\ Fits(r, hand'[r])
        BY <1>2, <1>3, <2>1, CommandEnds
      <3>2. hand'[r].seen <= posted /\ Entitled(hand'[r])
        BY <1>2, <3>1 DEF CommandTypes, Entitled
      <3> QED
        BY <3>1, <3>2
    <2>2. ASSUME NEW at \in {"check", "tell"}, To(r, at)
          PROVE  /\ OneMoves(r) /\ hand'[r].at \in {"free", "check", "tell"}
                 /\ hand'[r].kind = "channel" => hand[r].kind = "channel"
                 /\ hand'[r].seen <= posted /\ Fits(r, hand'[r]) /\ Entitled(hand'[r])
      <3>1. /\ OneMoves(r) /\ hand'[r].at = at
            /\ hand'[r].kind = hand[r].kind /\ hand'[r].seen = hand[r].seen
            /\ hand'[r].may = hand[r].may /\ hand'[r].had = hand[r].had
        BY <1>2, <1>3, <2>2, CommandGoes
      <3>2. hand'[r].seen <= posted
        BY <1>2, <1>3, <3>1 DEF CommandTypes
      <3>3. Fits(r, hand'[r])
        BY <3>1 DEF Fits, Engaged
      <3>4. Entitled(hand'[r])
        BY <1>1, <1>2, <1>3, <3>1 DEF HadOK, Entitled
      <3> QED
        BY <3>1, <3>2, <3>3, <3>4
    <2> QED
      BY <1>1, <2>1, <2>2 DEF AfterSettling
  <1>9. CommandTypes'
    <2>1. /\ posted' \in Nat /\ posted <= posted' /\ inv'.answer <= posted'
          /\ hand'[r].seen <= posted'
          /\ calls' \in [2..MaxCalls -> Nat] /\ answers' \in Nat
      BY <1>1, <1>2, <1>7, <1>8 DEF CommandTypes
    <2> QED
      BY <1>1, <1>2, <1>3, <1>7, <1>8, <2>1, CommandTypesStay
  <1>10. HandOK'
    <2>1. hand[Asker].at # "free"
      BY <1>1, <1>2, <1>3 DEF HandOK, Untouched
    <2> QED
      BY <1>2, <1>3, <1>7, <1>8, <2>1, CommandHandStays
  <1>11. CallsOK'
    <2>1. \A k : ~RowReady(k)' /\ ~Ready(r, hand'[r], k)
      BY <1>3, <1>7, <1>8 DEF RowReady, Ready
    <2>2. \A k \in 2..(MaxCalls + 1) : Made(k)' = Made(k) /\ Made(k) \in Nat
      BY <1>1, <1>2 DEF Made, CommandTypes
    <2>3. commandFaults' = commandFaults /\ commandFaults \in Nat
      BY <1>1, <1>2 DEF CommandTypes
    <2>4. \A k \in 2..(MaxCalls + 1) :
              Made(k)' + Weight(Ready(r, hand'[r], k)) + Weight(RowReady(k)') + commandFaults
                  <= Made(k) + Weight(Ready(r, hand[r], k)) + Weight(RowReady(k))
                         + commandFaults'
      BY <2>1, <2>2, <2>3 DEF Weight
    <2> QED
      BY <1>2, <1>3, <1>8, <1>9, <2>4, CommandCounts
  <1>12. HadOK'
    BY <1>1, <1>2, <1>3, <1>8, CommandHadStays
  <1>13. AnswerOK'
    BY <1>1, <1>2, <1>3, <1>7, <1>8, CommandAnswersStay
  <1> QED
    BY <1>9, <1>10, <1>11, <1>12, <1>13 DEF CommandInv

-----------------------------------------------------------------------------
(* The answers. *)

LEMMA CommandResponds ==
    ASSUME CommandInv, NEW p \in Responder, NEW kind \in {"asker", "channel"},
           NEW replaces \in BOOLEAN, Respond(p, kind, replaces)
    PROVE  CommandInv'
  <1> DEFINE x == [AtLeisure EXCEPT !.at = "hook", !.seen = inv.answer,
                                    !.kind = kind, !.replaces = replaces, !.had = right = "post"]
             i == [inv EXCEPT !.uses = @ - 1]
  <1>1. /\ hand' = [hand EXCEPT ![p] = x] /\ inv' = i /\ hand[p] = AtLeisure /\ MayRespond
        /\ Overlaps(kind)
        /\ UNCHANGED <<right, posted, calls, answers, commandChanges, commandFaults>>
    BY DEF Respond
  <1>2. CommandTypes /\ HandOK /\ CallsOK /\ HadOK /\ AnswerOK
    BY DEF CommandInv
  <1>3. p \in Actor /\ p # Asker /\ p \notin Retrier
    BY CommandAssumption, CommandActors
  <1>4. inv \in InvType /\ inv.answer \in Nat /\ inv.answer <= posted /\ inv.uses \in 0..Uses
    BY <1>2 DEF CommandTypes, InvType
  <1>5. (right = "post") \in BOOLEAN
    BY Zenon
  <1>6. /\ x \in HandType /\ x.at = "hook" /\ x.kind = kind /\ x.seen = inv.answer
        /\ x.may = "none" /\ x.had = (right = "post")
    <2>1. AtLeisure \in HandType /\ AtLeisure.may = "none"
      BY DEF HandType, AtLeisure
    <2> QED
      BY <1>4, <1>5, <2>1 DEF HandType
  <1>7. /\ i \in InvType /\ i.retry = inv.retry /\ i.answer = inv.answer /\ i.there = inv.there
        /\ i.attempts = inv.attempts
    <2>1. inv.uses - 1 \in 0..Uses
      BY <1>1, <1>4, CommandAssumption DEF MayRespond
    <2> QED
      BY <1>4, <2>1 DEF InvType
  <1> HIDE DEF x, i
  <1>8. OneMoves(p) /\ hand'[p] = x
    BY <1>1, <1>2, <1>3, <1>6, CommandTakes
  <1>9. inv.there /\ hand[p].at = "free" /\ hand[p].kind = "none"
    BY <1>1 DEF MayRespond, AtLeisure
  <1>10. /\ stained \subseteq stained'
         /\ stained' \subseteq stained \cup {"dropped", "overlapped", "unrecorded"}
         /\ kind = "channel" => ~Clean' \/ \A b \in Actor : hand[b].kind # "channel"
    BY <1>1, CommandOverlaps
  <1>11. CommandTypes'
    <2>1. /\ inv' \in InvType /\ posted' \in Nat /\ posted <= posted' /\ inv'.answer <= posted'
          /\ hand'[p].seen <= posted'
          /\ calls' \in [2..MaxCalls -> Nat] /\ answers' \in Nat
      BY <1>1, <1>2, <1>4, <1>6, <1>7, <1>8 DEF CommandTypes
    <2> QED
      BY <1>1, <1>2, <1>3, <1>8, <1>10, <2>1, CommandTypesStay
  <1>12. HandOK'
    <2>1. Fits(p, hand'[p])
      BY <1>3, <1>6, <1>8 DEF Fits, Engaged
    <2>2. inv'.retry # "none" => inv'.there /\ inv'.attempts < MaxCalls
      BY <1>1, <1>2, <1>7 DEF HandOK
    <2>3. hand[Asker].at # "free"
      BY <1>2, <1>9 DEF HandOK, Untouched
    <2> QED
      BY <1>2, <1>3, <1>6, <1>8, <2>1, <2>2, <2>3, CommandHandStays
  <1>13. CallsOK'
    <2>1. ~Engaged(hand[p]) /\ ~Engaged(hand'[p])
      BY <1>6, <1>8, <1>9 DEF Engaged
    <2>2. commandFaults <= commandFaults'
      BY <1>1, <1>2 DEF CommandTypes
    <2> QED
      BY <1>1, <1>2, <1>3, <1>7, <1>8, <1>11, <2>1, <2>2, CommandQuiet
  <1>14. HadOK'
    BY <1>1, <1>2, <1>3, <1>6, <1>8, CommandHadStays DEF Entitled
  <1>15. AnswerOK'
    <2>1. CASE ~Clean'
      BY <2>1 DEF AnswerOK
    <2>2. CASE kind # "channel"
      <3>1. ~Answering(hand'[p])
        BY <1>6, <1>8, <2>2 DEF Answering
      <3> QED
        BY <1>1, <1>2, <1>3, <1>6, <1>7, <1>8, <1>9, <1>10, <2>2, <3>1, CommandAnswersStay
    <2>3. CASE \A b \in Actor : hand[b].kind # "channel"
      <3>1. \A b \in Actor : hand[b].at # "record"
        BY <1>2, <2>3 DEF HandOK, Fits
      <3>2. Answering(hand'[p]) /\ Clean => posted = 0
        BY <1>2, <1>4, <1>6, <1>8, <1>9, <3>1 DEF AnswerOK, Answering, CommandTypes
      <3> QED
        BY <1>1, <1>2, <1>3, <1>6, <1>7, <1>8, <1>10, <2>3, <3>2, CommandAnswersBegin
    <2> QED
      BY <1>10, <2>1, <2>2, <2>3
  <1> QED
    BY <1>11, <1>12, <1>13, <1>14, <1>15 DEF CommandInv

LEMMA CommandPosts ==
    ASSUME CommandInv, NEW a \in Actor, PostAnswer(a)
    PROVE  /\ CommandInv'
           /\ posted' # posted => ~Replacing(a)
           /\ \A b \in Actor : b # a => hand'[b] = hand[b]
  <1> DEFINE x == [hand[a] EXCEPT !.at = IF Replacing(a) THEN "tell" ELSE "record",
                                  !.seen = IF Replacing(a) THEN @ ELSE posted + 1]
  <1>1. /\ hand[a].at = "post" /\ posted' = IF Replacing(a) THEN posted ELSE posted + 1
        /\ UNCHANGED <<inv, right, calls, answers, stained, commandChanges, commandFaults>>
    BY DEF PostAnswer
  <1>2. CommandTypes /\ HandOK /\ CallsOK /\ HadOK /\ AnswerOK
    BY DEF CommandInv
  <1>3. /\ hand[a] \in HandType /\ hand[a].seen \in Nat /\ hand[a].seen <= posted /\ posted \in Nat
        /\ hand[a].kind = "channel"
    BY <1>1, <1>2 DEF CommandTypes, HandType, HandOK, Fits
  <1>4. /\ x \in HandType /\ x.at = (IF Replacing(a) THEN "tell" ELSE "record")
        /\ x.seen = (IF Replacing(a) THEN hand[a].seen ELSE posted + 1)
        /\ x.kind = "channel" /\ x.may = hand[a].may /\ x.had = hand[a].had
    <2>1. posted + 1 \in Nat
      BY <1>3
    <2> QED
      BY <1>3, <2>1 DEF HandType
  <1>5. hand' = [hand EXCEPT ![a] = x]
    BY <1>2 DEF PostAnswer, CommandTypes
  <1> HIDE DEF x
  <1>6. OneMoves(a) /\ hand'[a] = x
    BY <1>2, <1>4, <1>5, CommandTakes
  <1>7. CommandTypes'
    <2>1. /\ posted' \in Nat /\ posted <= posted' /\ hand'[a].seen <= posted'
      BY <1>1, <1>3, <1>4, <1>6
    <2>2. inv' \in InvType /\ inv'.answer \in Nat /\ inv'.answer <= posted
          /\ calls' \in [2..MaxCalls -> Nat] /\ answers' \in Nat
      BY <1>1, <1>2 DEF CommandTypes, InvType
    <2>3. inv'.answer <= posted'
      BY <1>3, <2>1, <2>2
    <2> QED
      BY <1>1, <1>2, <1>6, <2>1, <2>2, <2>3, CommandTypesStay
  <1>8. HandOK'
    <2>1. Fits(a, hand'[a])
      BY <1>3, <1>4, <1>6 DEF Fits, Engaged
    <2>2. inv'.retry # "none" => inv'.there /\ inv'.attempts < MaxCalls
      BY <1>1, <1>2 DEF HandOK
    <2>3. hand[Asker].at # "free"
      BY <1>1, <1>2 DEF HandOK, Untouched
    <2> QED
      BY <1>2, <1>4, <1>6, <2>1, <2>2, <2>3, CommandHandStays
  <1>9. CallsOK'
    <2>1. ~Engaged(hand[a]) /\ ~Engaged(hand'[a]) /\ hand'[a].at # "free"
      BY <1>1, <1>4, <1>6 DEF Engaged
    <2>2. commandFaults <= commandFaults'
      BY <1>1, <1>2 DEF CommandTypes
    <2> QED
      BY <1>1, <1>2, <1>6, <1>7, <2>1, <2>2, CommandQuiet
  <1>10. HadOK'
    <2>1. Entitled(hand'[a])
      BY <1>1, <1>2, <1>4, <1>6 DEF HadOK, Entitled
    <2> QED
      BY <1>1, <1>2, <1>6, <2>1, CommandHadStays
  <1>11. AnswerOK'
    <2> SUFFICES ASSUME Clean' PROVE AnswerOK'
      BY DEF AnswerOK
    <2>1. Clean
      BY <1>1 DEF Clean
    <2>2. \A b \in Actor : b # a => hand[b].kind # "channel"
      BY <1>2, <1>3, <2>1 DEF AnswerOK
    <2>3. \A b \in Actor : b # a => hand'[b].kind # "channel"
      BY <1>6, <2>2 DEF OneMoves
    <2>4. \A q \in Responder : ~Answering(hand'[q])
      BY <1>4, <1>6, <2>3, CommandActors DEF Answering
    <2>5. posted' > 0 /\ inv'.there => inv'.answer # 0 \/ \E b \in Actor : hand'[b].at = "record"
      <3>1. CASE ~Replacing(a)
        BY <1>4, <1>6, <3>1
      <3>2. CASE Replacing(a)
        <4>1. posted' = posted /\ inv' = inv
          BY <1>1, <3>2
        <4>2. \A b \in Actor : hand[b].at # "record"
          BY <1>1, <1>2, <2>2 DEF HandOK, Fits
        <4> QED
          BY <1>2, <2>1, <4>1, <4>2 DEF AnswerOK
      <3> QED
        BY <3>1, <3>2
    <2> QED
      BY <2>3, <2>4, <2>5 DEF AnswerOK, Answering
  <1>12. posted' # posted => ~Replacing(a)
    BY <1>1
  <1> QED
    BY <1>6, <1>7, <1>8, <1>9, <1>10, <1>11, <1>12 DEF CommandInv, OneMoves

LEMMA CommandRecords ==
    ASSUME CommandInv, NEW a \in Actor, RecordAnswer(a) PROVE CommandInv'
  <1> DEFINE i == [inv EXCEPT !.answer = hand[a].seen]
  <1>1. /\ hand[a].at = "record" /\ inv' = IF inv.there THEN i ELSE inv
        /\ IF a = Asker THEN Ends(a) ELSE To(a, "tell")
        /\ UNCHANGED <<right, posted, calls, answers, stained, commandChanges, commandFaults>>
    BY DEF RecordAnswer, RecordsAnswer
  <1>2. CommandTypes /\ HandOK /\ CallsOK /\ HadOK /\ AnswerOK
    BY DEF CommandInv
  <1>3. /\ hand[a].seen \in Nat /\ hand[a].seen <= posted /\ hand[a].seen # 0
        /\ hand[a].kind = "channel"
    BY <1>1, <1>2 DEF CommandTypes, HandType, HandOK, Fits
  <1>4. /\ i \in InvType /\ i.retry = inv.retry /\ i.answer = hand[a].seen
        /\ i.there = inv.there /\ i.attempts = inv.attempts
    BY <1>2, <1>3 DEF CommandTypes, InvType
  <1> HIDE DEF i
  <1>5. /\ inv' \in InvType /\ inv'.retry = inv.retry /\ inv'.attempts = inv.attempts
        /\ inv'.there = inv.there /\ inv'.answer <= posted
        /\ inv'.there => inv'.answer # 0
    BY <1>1, <1>2, <1>3, <1>4 DEF CommandTypes
  <1>6. /\ OneMoves(a) /\ hand'[a].at \in {"gone", "tell"} /\ hand'[a].seen <= posted
        /\ hand'[a].kind \in {"none", "channel"}
        /\ Fits(a, hand'[a]) /\ Entitled(hand'[a])
    <2>1. CASE a = Asker
      <3>1. /\ OneMoves(a) /\ hand'[a].at = "gone" /\ hand'[a].kind = "none"
            /\ hand'[a].seen = 0 /\ hand'[a].may = "none" /\ Fits(a, hand'[a])
        BY <1>1, <1>2, <2>1, CommandEnds
      <3>2. hand'[a].seen <= posted /\ Entitled(hand'[a])
        BY <1>2, <3>1 DEF CommandTypes, Entitled
      <3> QED
        BY <3>1, <3>2
    <2>2. CASE a # Asker
      <3>1. /\ OneMoves(a) /\ hand'[a].at = "tell"
            /\ hand'[a].kind = hand[a].kind /\ hand'[a].seen = hand[a].seen
            /\ hand'[a].may = hand[a].may /\ hand'[a].had = hand[a].had
        BY <1>1, <1>2, <2>2, CommandGoes
      <3>2. Fits(a, hand'[a])
        BY <3>1 DEF Fits, Engaged
      <3>3. Entitled(hand'[a])
        BY <1>1, <1>2, <3>1 DEF HadOK, Entitled
      <3> QED
        BY <1>3, <3>1, <3>2, <3>3
    <2> QED
      BY <2>1, <2>2
  <1>7. CommandTypes'
    <2>1. /\ posted' \in Nat /\ posted <= posted' /\ inv'.answer <= posted'
          /\ hand'[a].seen <= posted'
          /\ calls' \in [2..MaxCalls -> Nat] /\ answers' \in Nat
      BY <1>1, <1>2, <1>5, <1>6 DEF CommandTypes
    <2> QED
      BY <1>1, <1>2, <1>5, <1>6, <2>1, CommandTypesStay
  <1>8. HandOK'
    <2>1. inv'.retry # "none" => inv'.there /\ inv'.attempts < MaxCalls
      BY <1>2, <1>5 DEF HandOK
    <2>2. hand[Asker].at # "free"
      BY <1>1, <1>2 DEF HandOK, Untouched
    <2> QED
      BY <1>2, <1>6, <2>1, <2>2, CommandHandStays
  <1>9. CallsOK'
    <2>1. ~Engaged(hand[a]) /\ ~Engaged(hand'[a]) /\ hand'[a].at # "free"
      BY <1>1, <1>6 DEF Engaged
    <2>2. commandFaults <= commandFaults'
      BY <1>1, <1>2 DEF CommandTypes
    <2> QED
      BY <1>1, <1>2, <1>5, <1>6, <1>7, <2>1, <2>2, CommandQuiet
  <1>10. HadOK'
    BY <1>1, <1>2, <1>6, CommandHadStays
  <1>11. AnswerOK'
    <2> SUFFICES ASSUME Clean' PROVE AnswerOK'
      BY DEF AnswerOK
    <2>1. Clean
      BY <1>1 DEF Clean
    <2>2. \A b, c \in Actor : hand'[b].kind = "channel" /\ hand'[c].kind = "channel" => b = c
      BY <1>2, <1>3, <1>6, <2>1 DEF AnswerOK, OneMoves
    <2>3. \A q \in Responder : Answering(hand'[q]) => posted' = 0
      <3>1. \A q \in Responder : Answering(hand'[q]) => q # a
        BY <1>6 DEF Answering
      <3> QED
        BY <1>1, <1>2, <1>6, <2>1, <3>1, CommandActors DEF AnswerOK, OneMoves
    <2> QED
      BY <1>5, <2>2, <2>3 DEF AnswerOK, Answering
  <1> QED
    BY <1>7, <1>8, <1>9, <1>10, <1>11 DEF CommandInv

-----------------------------------------------------------------------------
(* Time, and the people around the command. *)

LEMMA CommandTime ==
    ASSUME CommandInv, UNCHANGED <<right, hand, posted, calls, answers, stained, commandChanges>>,
           inv' \in InvType, inv'.answer <= posted, Faulty \/ commandFaults' = commandFaults,
           inv'.retry # "none" => inv'.there /\ inv'.attempts < MaxCalls,
           inv'.there => inv.there /\ inv'.answer = inv.answer,
           \A k : RowReady(k)' => Faulty \/ RowReady(k)
    PROVE  CommandInv'
  <1>1. CommandTypes /\ HandOK /\ CallsOK /\ HadOK /\ AnswerOK
    BY DEF CommandInv
  <1>2. OneMoves(Asker) /\ hand'[Asker] = hand[Asker] /\ Asker \in Actor
    BY <1>1, CommandActors DEF OneMoves, CommandTypes
  <1>3. CommandTypes'
    <2>1. /\ posted' \in Nat /\ posted <= posted' /\ inv'.answer <= posted'
          /\ hand'[Asker].seen <= posted'
          /\ calls' \in [2..MaxCalls -> Nat] /\ answers' \in Nat
      BY <1>1, <1>2 DEF CommandTypes
    <2> QED
      BY <1>1, <1>2, <2>1, CommandTypesStay
  <1>4. HandOK'
    BY <1>1 DEF HandOK, Untouched, Fits, Engaged
  <1>5. CallsOK'
    <2>1. \A k \in 2..(MaxCalls + 1) : Made(k)' = Made(k) /\ Made(k) \in Nat
      BY <1>1 DEF Made, CommandTypes
    <2>2. /\ commandFaults \in Nat /\ commandFaults' \in {commandFaults, commandFaults + 1}
          /\ Faulty => commandFaults' = commandFaults + 1
      BY <1>1 DEF CommandTypes, Faulty
    <2>3. \A k \in 2..(MaxCalls + 1) :
              Made(k)' + Weight(Ready(Asker, hand'[Asker], k)) + Weight(RowReady(k)') + commandFaults
                  <= Made(k) + Weight(Ready(Asker, hand[Asker], k)) + Weight(RowReady(k))
                         + commandFaults'
      BY <1>2, <2>1, <2>2 DEF Weight
    <2> QED
      BY <1>1, <1>2, <1>3, <2>3, CommandCounts
  <1>6. HadOK'
    BY <1>1 DEF HadOK, Entitled
  <1>7. AnswerOK'
    BY <1>1 DEF AnswerOK, Clean, Answering
  <1> QED
    BY <1>3, <1>4, <1>5, <1>6, <1>7 DEF CommandInv

LEMMA CommandPasses ==
    ASSUME CommandInv, RetryFallsDue \/ LeaseLapses \/ ExpireInvocation \/ PurgeExpired
    PROVE  CommandInv'
  <1>1. CommandTypes /\ HandOK
    BY DEF CommandInv
  <1>2. inv \in InvType /\ inv.answer <= posted /\ posted \in Nat
    BY <1>1 DEF CommandTypes
  <1>3. CASE RetryFallsDue \/ LeaseLapses
    <2> DEFINE i == [inv EXCEPT !.retry = "due"]
    <2>1. /\ inv.retry = "later" /\ inv' = i
          /\ UNCHANGED <<right, hand, posted, calls, answers, stained, commandChanges>>
          /\ Faulty \/ (commandFaults' = commandFaults /\ Retrying = {})
      BY <1>3 DEF RetryFallsDue, LeaseLapses
    <2>2. /\ i \in InvType /\ i.answer = inv.answer /\ i.there = inv.there
          /\ i.attempts = inv.attempts
      BY <1>2 DEF InvType
    <2> HIDE DEF i
    <2>3. \A k : RowReady(k)' => Faulty \/ RowReady(k)
      BY <2>1, <2>2 DEF RowReady
    <2>4. inv'.there /\ inv'.attempts < MaxCalls
      BY <1>1, <2>1, <2>2 DEF HandOK
    <2> QED
      BY <1>2, <2>1, <2>2, <2>3, <2>4, CommandTime
  <1>4. CASE ExpireInvocation
    <2> DEFINE i == [inv EXCEPT !.expired = TRUE]
    <2>1. /\ inv' = i /\ commandFaults' = commandFaults
          /\ UNCHANGED <<right, hand, posted, calls, answers, stained, commandChanges>>
      BY <1>4 DEF ExpireInvocation
    <2>2. /\ i \in InvType /\ i.answer = inv.answer /\ i.there = inv.there
          /\ i.attempts = inv.attempts /\ i.retry = inv.retry
      BY <1>2 DEF InvType
    <2> HIDE DEF i
    <2>3. \A k : RowReady(k)' => RowReady(k)
      BY <2>1, <2>2 DEF RowReady, Retrying
    <2>4. inv'.retry # "none" => inv'.there /\ inv'.attempts < MaxCalls
      BY <1>1, <2>1, <2>2 DEF HandOK
    <2> QED
      BY <1>2, <2>1, <2>2, <2>3, <2>4, CommandTime
  <1>5. CASE PurgeExpired
    <2>1. /\ inv' = NotAsked /\ commandFaults' = commandFaults
          /\ UNCHANGED <<right, hand, posted, calls, answers, stained, commandChanges>>
      BY <1>5 DEF PurgeExpired
    <2>2. /\ NotAsked \in InvType /\ NotAsked.answer = 0 /\ ~NotAsked.there
          /\ NotAsked.retry = "none"
      BY CommandAssumption DEF NotAsked, InvType
    <2>3. \A k : ~RowReady(k)'
      BY <2>1, <2>2 DEF RowReady
    <2>4. inv'.answer <= posted
      BY <1>2, <2>1, <2>2
    <2> QED
      BY <2>1, <2>2, <2>3, <2>4, CommandTime
  <1> QED
    BY <1>3, <1>4, <1>5

LEMMA CommandChangesRight ==
    ASSUME CommandTypes, HadOK, NEW to, right' = to,
           hand' = [a \in Actor |-> IF hand[a].at \in {"free", "gone"} THEN hand[a]
                                    ELSE [hand[a] EXCEPT !.had = @ \/ right' = "post"]]
    PROVE  /\ hand' \in [Actor -> HandType]
           /\ \A a \in Actor :
                  /\ hand'[a].at = hand[a].at /\ hand'[a].kind = hand[a].kind
                  /\ hand'[a].seen = hand[a].seen /\ hand'[a].attempt = hand[a].attempt
           /\ HadOK'
  <1>1. ASSUME NEW a \in Actor
        PROVE  /\ hand'[a] \in HandType
               /\ hand'[a].at = hand[a].at /\ hand'[a].kind = hand[a].kind
               /\ hand'[a].seen = hand[a].seen /\ hand'[a].attempt = hand[a].attempt
               /\ Entitled(hand[a])'
    <2> DEFINE had == hand[a].had \/ right' = "post"
               x == [hand[a] EXCEPT !.had = had]
    <2>1. had \in BOOLEAN
      BY Zenon
    <2>2. hand[a] \in HandType /\ Entitled(hand[a])
      BY DEF CommandTypes, HadOK
    <2>3. CASE hand[a].at \in {"free", "gone"}
      <3>1. hand'[a] = hand[a]
        BY <2>3
      <3> QED
        BY <2>2, <2>3, <3>1 DEF Entitled
    <2>4. CASE hand[a].at \notin {"free", "gone"}
      <3>1. hand'[a] = x
        BY <2>4
      <3>2. (hand[a].had => had) /\ (right' = "post" => had)
        BY Zenon
      <3> HIDE DEF had
      <3>3. /\ x \in HandType /\ x.at = hand[a].at /\ x.kind = hand[a].kind
            /\ x.seen = hand[a].seen /\ x.attempt = hand[a].attempt /\ x.may = hand[a].may
            /\ x.had = had
        BY <2>1, <2>2 DEF HandType
      <3> HIDE DEF x
      <3> QED
        BY <2>2, <3>1, <3>2, <3>3 DEF Entitled
    <2> QED
      BY <2>3, <2>4
  <1>2. hand' \in [Actor -> HandType]
    BY <1>1
  <1> QED
    BY <1>1, <1>2 DEF HadOK

LEMMA CommandChanged ==
    ASSUME CommandInv, ChangeCommand PROVE CommandInv'
  <1>1. /\ Disturbed /\ commandChanges' = commandChanges + 1
        /\ UNCHANGED <<inv, posted, calls, answers, stained, commandFaults>>
    BY DEF ChangeCommand
  <1>2. CommandTypes /\ HandOK /\ CallsOK /\ HadOK /\ AnswerOK
    BY DEF CommandInv
  <1>3. /\ hand' \in [Actor -> HandType] /\ right' \in {"post", "read", "none"}
        /\ \A a \in Actor :
               /\ hand'[a].at = hand[a].at /\ hand'[a].kind = hand[a].kind
               /\ hand'[a].seen = hand[a].seen /\ hand'[a].attempt = hand[a].attempt
        /\ HadOK'
    <2>1. CASE UNCHANGED <<right, hand>>
      BY <1>2, <2>1 DEF CommandTypes, HadOK, Entitled
    <2>2. CASE /\ \E to \in {"post", "read", "none"} \ {right} : right' = to
               /\ hand' = [a \in Actor |-> IF hand[a].at \in {"free", "gone"} THEN hand[a]
                                           ELSE [hand[a] EXCEPT !.had = @ \/ right' = "post"]]
      BY <1>2, <2>2, CommandChangesRight
    <2> QED
      BY <2>1, <2>2 DEF ChangeCommand
  <1>4. CommandTypes'
    <2>1. /\ commandChanges' \in Nat /\ commandFaults' \in Nat
          /\ commandChanges' + commandFaults' <= MaxDisturbances
      BY <1>1, <1>2, CommandAssumption DEF CommandTypes, Disturbed
    <2>2. \A a \in Actor : hand'[a].seen <= posted'
      BY <1>1, <1>2, <1>3 DEF CommandTypes
    <2> QED
      BY <1>1, <1>2, <1>3, <2>1, <2>2 DEF CommandTypes
  <1>5. HandOK'
    <2>1. \A a \in Actor : Fits(a, hand[a])'
      BY <1>2, <1>3 DEF HandOK, Fits, Engaged
    <2>2. Untouched => Untouched'
      BY <1>1, <1>3 DEF Untouched
    <2>3. hand'[Asker].at = hand[Asker].at
      BY <1>3, CommandActors
    <2> QED
      BY <1>1, <1>2, <2>1, <2>2, <2>3 DEF HandOK
  <1>6. CallsOK'
    <2>1. \A k : Callers(k)' = Callers(k)
      BY <1>3 DEF Callers, Ready
    <2>2. Retrying' = Retrying
      BY <1>3, CommandActors DEF Retrying
    <2>3. \A k : RowReady(k)' <=> RowReady(k)
      BY <1>1, <2>2 DEF RowReady
    <2>4. \A k : Made(k)' = Made(k)
      BY <1>1 DEF Made
    <2> QED
      BY <1>1, <1>2, <2>1, <2>3, <2>4 DEF CallsOK, Weight
  <1>7. AnswerOK'
    <2>1. Clean' <=> Clean
      BY <1>1 DEF Clean
    <2>2. \A p \in Responder : Answering(hand[p])' <=> Answering(hand[p])
      BY <1>3, CommandActors DEF Answering
    <2> QED
      BY <1>1, <1>2, <1>3, <2>1, <2>2 DEF AnswerOK
  <1> QED
    BY <1>3, <1>4, <1>5, <1>6, <1>7 DEF CommandInv

LEMMA CommandStep == CommandInv /\ [CommandNext]_commandVars => CommandInv'
  <1> SUFFICES ASSUME CommandInv, [CommandNext]_commandVars PROVE CommandInv'
    OBVIOUS
  <1>1. CASE \E kind \in {"unreachable", "acknowledged", "channel", "asker", "error"} :
                 FirstAnswer(kind)
    BY <1>1, CommandFirstAnswer
  <1>2. CASE \E r \in Retrier : RetryStep(r)
    BY <1>2, CommandClaims, CommandLoads, CommandSettles, CommandCallsAgain DEF RetryStep
  <1>3. CASE \E r \in Retrier : LoadFails(r) \/ SettleFails(r)
    <2>1. PICK r \in Retrier : LoadFails(r) \/ SettleFails(r)
      BY <1>3
    <2>2. r \in Actor
      BY CommandActors
    <2> QED
      BY <2>1, <2>2, CommandFails
  <1>4. CASE \E p \in Responder :
                 \/ CheckHook(p) \/ Respond(p, "asker", FALSE)
                 \/ \E b \in BOOLEAN : Respond(p, "channel", b)
    BY <1>4, CommandChecks, CommandResponds, CommandActors
  <1>5. CASE \E a \in Actor : AnswerStep(a)
    BY <1>5, CommandSchedules, CommandChecks, CommandPosts, CommandRecords DEF AnswerStep
  <1>6. CASE \E a \in Actor : ScheduleFails(a) \/ RecordFails(a) \/ ActorDies(a)
    BY <1>6, CommandFails
  <1>7. CASE UNCHANGED commandVars
    <2>1. UNCHANGED <<inv, right, hand, posted, calls, answers, stained, commandChanges,
                      commandFaults>>
      BY <1>7 DEF commandVars
    <2>2. CommandTypes' /\ HandOK' /\ HadOK' /\ AnswerOK'
      BY <2>1 DEF CommandInv, CommandTypes, HandOK, Untouched, Fits, Engaged, HadOK, Entitled,
                  AnswerOK, Clean, Answering
    <2>3. CallsOK'
      BY <2>1 DEF CommandInv, CallsOK, Callers, Ready, RowReady, Retrying, Made, Weight
    <2> QED
      BY <2>2, <2>3 DEF CommandInv
  <1> QED
    BY <1>1, <1>2, <1>3, <1>4, <1>5, <1>6, <1>7, CommandInvoke, CommandPasses,
       CommandChanged
       DEF CommandNext

LEMMA CommandInvariant == CommandSpec => []CommandInv
  BY CommandBegins, CommandStep, PTL DEF CommandSpec

(* Whoever dies, overtakes or fails, the app is called as each attempt no  *)
(* oftener than once and once for every fault, and nobody posts for an     *)
(* asker who could not post at any time since (commands/delivery.rs,       *)
(* routes.rs).                                                             *)
THEOREM JobsCommandSafety == CommandSpec => []CommandSafety
  <1>1. CommandInv => CommandSafety
    <2> SUFFICES ASSUME CommandInv PROVE CommandSafety
      OBVIOUS
    <2>1. CommandTypes /\ CallsOK /\ HadOK
      BY DEF CommandInv
    <2>2. CommandTypeOK
      <3>1. inv \in InvType /\ inv.answer \in 0..posted
        BY <2>1 DEF CommandTypes, InvType
      <3>2. \A a \in Actor : hand[a] \in HandType /\ hand[a].seen \in 0..posted
        BY <2>1 DEF CommandTypes, HandType
      <3>3. commandChanges + commandFaults \in 0..MaxDisturbances
        BY <2>1, CommandAssumption DEF CommandTypes
      <3>4. inv.attempts \in Nat \ {0} /\ inv.retry \in {"none", "later", "due"}
            /\ inv.uses \in 0..Uses
        BY <3>1 DEF InvType
      <3>5. \A a \in Actor :
                /\ hand[a].at \in {"free", "load", "call", "schedule", "settle", "hook",
                                   "check", "post", "record", "tell", "gone"}
                /\ hand[a].attempt \in Nat
                /\ hand[a].kind \in {"none", "channel", "asker", "error"}
        BY <3>2 DEF HandType
      <3> QED
        BY <2>1, <3>1, <3>2, <3>3, <3>4, <3>5 DEF CommandTypeOK, CommandTypes
    <2>3. \A k \in 2..(MaxCalls + 1) : Made(k) <= 1 + commandFaults
      <3> TAKE k \in 2..(MaxCalls + 1)
      <3>1. Made(k) \in Nat /\ commandFaults \in Nat
        BY <2>1 DEF Made, CommandTypes
      <3>2. Cardinality(Callers(k)) \in Nat /\ Weight(RowReady(k)) \in Nat
        BY <2>1, FS_CardinalityType DEF CallsOK, Weight
      <3>3. Made(k) + Cardinality(Callers(k)) + Weight(RowReady(k)) <= 1 + commandFaults
        BY <2>1 DEF CallsOK
      <3> QED
        BY <3>1, <3>2, <3>3
    <2>4. CommandCallsBounded
      <3>1. \A k \in 2..MaxCalls : k \in 2..(MaxCalls + 1) /\ Made(k) = calls[k]
        BY CommandAssumption DEF Made
      <3>2. MaxCalls + 1 \in 2..(MaxCalls + 1) /\ Made(MaxCalls + 1) = answers
        BY CommandAssumption DEF Made
      <3> QED
        BY <2>3, <3>1, <3>2 DEF CommandCallsBounded
    <2>5. PostedOnlyIfAllowed
      BY <2>1 DEF HadOK, Entitled, PostedOnlyIfAllowed
    <2> QED
      BY <2>2, <2>4, <2>5 DEF CommandSafety
  <1> QED
    BY <1>1, CommandInvariant, PTL

(* An answer that is to replace the one before it makes a message only if  *)
(* there is none, unless two came together or one was not recorded         *)
(* (commands/delivery.rs, answer and post_in_channel).                     *)
THEOREM JobsReplacesUnlessOverlapped == CommandSpec => ReplacesUnlessOverlapped
  <1> DEFINE Replaces == \A p \in Responder :
           posted' # posted /\ hand[p].at = "post" /\ hand'[p].at # "post" /\ hand[p].replaces
           /\ stained \cap {"overlapped", "unrecorded"} = {} => posted = 0
  <1>1. CommandInv /\ [CommandNext]_commandVars => [Replaces]_commandVars
    <2> SUFFICES ASSUME CommandInv, CommandNext, NEW p \in Responder,
                        posted' # posted, hand[p].at = "post", hand'[p].at # "post",
                        hand[p].replaces, Clean
                 PROVE  posted = 0
      BY DEF Clean
    <2>1. PICK a \in Actor : PostAnswer(a)
      BY DEF CommandNext, Invoke, FirstAnswer, RetryStep, ClaimRetry, LoadHook, LoadFails,
         CallAgain,
             ScheduleRetry, ScheduleFails, Settle, SettleFails, Respond, CheckHook, CheckRight,
             RecordAnswer, RecordFails, Tell, ActorDies, AnswerStep, RetryFallsDue, LeaseLapses,
             ExpireInvocation, PurgeExpired, ChangeCommand
    <2>2. ~Replacing(a) /\ \A b \in Actor : b # a => hand'[b] = hand[b]
      BY <2>1, CommandPosts
    <2>3. p = a
      BY <2>2, CommandActors
    <2>4. hand[p].seen = 0
      BY <2>2, <2>3 DEF Replacing
    <2>5. hand[p].kind = "channel"
      BY CommandActors DEF CommandInv, HandOK, Fits
    <2> QED
      BY <2>4, <2>5 DEF CommandInv, AnswerOK, Answering
  <1> QED
    BY <1>1, CommandInvariant, PTL DEF CommandSpec, ReplacesUnlessOverlapped
=============================================================================
