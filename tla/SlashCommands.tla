---------------------------- MODULE SlashCommands ----------------------------
(* One invocation of a registered slash command (api/src/commands): the      *)
(* request that makes it and calls the app, the workers that call an app     *)
(* again that could not be reached, and the answers the app sends later to   *)
(* the response URL.  Whoever has an answer for the channel posts it and     *)
(* writes the message into the invocation, where an answer that shall        *)
(* replace it finds it.                                                      *)
EXTENDS Naturals, FiniteSets

CONSTANTS
    Retrier,          \* workers of start_retrier
    Responder,        \* requests to the response URL
    MaxCalls,         \* MAX_ATTEMPTS
    Uses,             \* RESPONSE_URL_USES
    MaxDisturbances   \* bound: changes of the hook and of the asker's rights,
                      \* crashes, failed writes, claims that lapse

Asker == "asker"

(* A first call that fails is followed by another, whatever the limit. *)
ASSUME CommandAssumption ==
    /\ MaxCalls \in Nat \ {0, 1} /\ Uses \in Nat
    /\ MaxDisturbances \in Nat
    /\ Asker \notin Retrier \cup Responder /\ Retrier \cap Responder = {}

Actor == {Asker} \cup Retrier \cup Responder

VARIABLES
    inv,       \* the row: [there, attempts, retry, uses, expired, answer]
    hookOn,    \* the command is active
    right,     \* what the asker may do in the channel: "post", "read", "none"
    hand,      \* [Actor -> what it is at, and what it read]; history in had:
               \* whether the asker could post at some time since it began
    posted,    \* messages in the channel
    calls,     \* history: [2..MaxCalls -> calls of the app as that attempt]
    answers,   \* history: answers that were received from a call
    resolved,  \* history: the asker or the channel was told how it ended
    stained,   \* history: what the properties excuse
    commandChanges, commandFaults

commandVars == <<inv, hookOn, right, hand, posted, calls, answers, resolved, stained,
                 commandChanges, commandFaults>>

NotAsked == [there |-> FALSE, attempts |-> 1, retry |-> "none", uses |-> 0,
             expired |-> FALSE, answer |-> 0]
AtLeisure == [at |-> "free", attempt |-> 0, seen |-> 0, replaces |-> FALSE,
         kind |-> "none", may |-> "none", had |-> FALSE]

CommandTypeOK ==
    /\ inv.attempts \in Nat \ {0} /\ inv.retry \in {"none", "later", "due"}
    /\ inv.uses \in 0..Uses /\ inv.answer \in 0..posted
    /\ right \in {"post", "read", "none"}
    /\ \A a \in Actor :
           /\ hand[a].at \in {"free", "load", "call", "schedule", "settle", "hook",
                              "check", "post", "record", "tell", "gone"}
           /\ hand[a].attempt \in Nat /\ hand[a].seen \in 0..posted
           /\ hand[a].kind \in {"none", "channel", "asker", "error"}
    /\ stained \subseteq {"dropped", "overlapped", "unrecorded"}
    /\ commandChanges + commandFaults \in 0..MaxDisturbances

CommandInit ==
    /\ inv = NotAsked /\ hookOn = TRUE /\ right = "post"
    /\ hand = [a \in Actor |-> AtLeisure]
    /\ posted = 0 /\ calls = [k \in 2..MaxCalls |-> 0] /\ answers = 0 /\ resolved = FALSE /\ stained = {}
    /\ commandChanges = 0 /\ commandFaults = 0

To(a, at) == hand' = [hand EXCEPT ![a].at = at]
Ends(a) == hand' = [hand EXCEPT ![a] = IF a = Asker THEN [AtLeisure EXCEPT !.at = "gone"] ELSE AtLeisure]
Stains(what, if) == stained' = IF if THEN stained \cup {what} ELSE stained
Overlaps(kind) ==
    Stains("overlapped", kind = "channel" /\ \E a \in Actor : hand[a].kind = "channel")
Disturbed == commandChanges + commandFaults < MaxDisturbances
Faulty == Disturbed /\ commandFaults' = commandFaults + 1
Retrying == {r \in Retrier : hand[r].at \in {"load", "call", "schedule", "settle"}}

-----------------------------------------------------------------------------
(* invoke: the asker's rights, the row, and the first call. *)
Invoke ==
    /\ hand[Asker] = AtLeisure /\ right # "none" /\ hookOn
    /\ inv' = [NotAsked EXCEPT !.there = TRUE, !.uses = Uses]
    /\ hand' = [hand EXCEPT ![Asker] = [AtLeisure EXCEPT !.at = "call", !.may = right,
                                                   !.had = right = "post"]]
    /\ UNCHANGED <<hookOn, right, posted, calls, answers, resolved, stained,
                   commandChanges, commandFaults>>

(* What comes back from the app within the time limit (call, then invoke).   *)
(* An app with a socket open takes the command and answers later, as one     *)
(* that acknowledges it does.                                                *)
FirstAnswer(kind) ==
    /\ hand[Asker].at = "call"
    /\ CASE kind = "unreachable" -> To(Asker, "schedule") /\ UNCHANGED <<answers, resolved>>
         [] kind = "channel" /\ hand[Asker].may = "post" ->
                /\ hand' = [hand EXCEPT ![Asker].at = "post", ![Asker].kind = kind]
                /\ answers' = answers + 1 /\ UNCHANGED resolved
         [] kind \in {"asker", "channel"} /\ (kind = "channel" => hand[Asker].may # "post") ->
                Ends(Asker) /\ answers' = answers + 1 /\ resolved' = TRUE
         [] OTHER -> Ends(Asker) /\ resolved' = TRUE /\ UNCHANGED answers
    /\ Overlaps(kind)
    /\ UNCHANGED <<inv, hookOn, right, posted, calls, commandChanges, commandFaults>>

-----------------------------------------------------------------------------
(* claim_due_retries *)
ClaimedRetry == [inv EXCEPT !.retry = "later"]

ClaimRetry(r) ==
    /\ hand[r] = AtLeisure /\ inv.there /\ inv.retry = "due"
    /\ inv' = ClaimedRetry
    /\ hand' = [hand EXCEPT ![r] = [AtLeisure EXCEPT !.at = "load", !.attempt = inv.attempts + 1,
                                               !.seen = inv.answer,
                                               !.had = right = "post"]]
    /\ UNCHANGED <<hookOn, right, posted, calls, answers, resolved, stained,
                   commandChanges, commandFaults>>

(* retry: the hook is looked up; a failed query leaves the row to its lease. *)
LoadHook(r) ==
    /\ hand[r].at = "load"
    /\ hand' = [hand EXCEPT ![r].at = IF hookOn THEN "call" ELSE "settle",
                            ![r].kind = IF hookOn THEN "none" ELSE "error"]
    /\ UNCHANGED <<inv, hookOn, right, posted, calls, answers, resolved, stained,
                   commandChanges, commandFaults>>

LoadFails(r) ==
    /\ hand[r].at = "load" /\ Faulty /\ Ends(r)
    /\ UNCHANGED <<inv, hookOn, right, posted, calls, answers, resolved, stained, commandChanges>>

TriesAgain(attempt) == attempt < MaxCalls

CallAgain(r, kind) ==
    /\ hand[r].at = "call"
    /\ calls' = [calls EXCEPT ![hand[r].attempt] = @ + 1]
    /\ answers' = IF kind \in {"channel", "asker"} THEN answers + 1 ELSE answers
    /\ hand' = IF kind = "unreachable" /\ TriesAgain(hand[r].attempt)
               THEN [hand EXCEPT ![r].at = "schedule"]
               ELSE [hand EXCEPT ![r].at = "settle",
                                 ![r].kind = IF kind = "unreachable" THEN "error"
                                             ELSE IF kind = "acknowledged" THEN "none" ELSE kind]
    /\ Overlaps(kind)
    /\ UNCHANGED <<inv, hookOn, right, posted, resolved, commandChanges, commandFaults>>

(* schedule_retry, of the first attempt by invoke. *)
ScheduleRetry(a) ==
    /\ hand[a].at = "schedule"
    /\ inv' = IF inv.there THEN [inv EXCEPT !.retry = "later",
                                            !.attempts = IF a = Asker THEN 1 ELSE hand[a].attempt]
              ELSE inv
    /\ Ends(a)
    /\ UNCHANGED <<hookOn, right, posted, calls, answers, resolved, stained,
                   commandChanges, commandFaults>>

(* invoke returns the error to the asker; a retrier logs it. *)
ScheduleFails(a) ==
    /\ hand[a].at = "schedule" /\ Faulty /\ Ends(a)
    /\ resolved' = IF a = Asker THEN TRUE ELSE resolved
    /\ UNCHANGED <<inv, hookOn, right, posted, calls, answers, stained, commandChanges>>

SettledRow(attempt) == [inv EXCEPT !.attempts = attempt, !.retry = "none"]

AfterSettling(r) ==
    IF hand[r].kind = "none" THEN Ends(r) /\ resolved' = TRUE
    ELSE To(r, IF hand[r].kind = "error" THEN "tell" ELSE "check") /\ UNCHANGED resolved

Settle(r) ==
    /\ hand[r].at = "settle"
    /\ inv' = IF inv.there THEN SettledRow(hand[r].attempt) ELSE inv
    /\ AfterSettling(r)
    /\ UNCHANGED <<hookOn, right, posted, calls, answers, stained, commandChanges, commandFaults>>

(* The failure is logged and the answer delivered all the same: the row is   *)
(* still there when its lease runs out.                                      *)
SettleFails(r) ==
    /\ hand[r].at = "settle" /\ Faulty /\ AfterSettling(r)
    /\ UNCHANGED <<inv, hookOn, right, posted, calls, answers, stained, commandChanges>>

-----------------------------------------------------------------------------
(* use_response_url *)
MayRespond == inv.there /\ ~inv.expired /\ inv.uses > 0

Respond(p, kind, replaces) ==
    /\ hand[p] = AtLeisure /\ MayRespond
    /\ inv' = [inv EXCEPT !.uses = @ - 1]
    /\ hand' = [hand EXCEPT ![p] = [AtLeisure EXCEPT !.at = "hook", !.seen = inv.answer,
                                               !.kind = kind, !.replaces = replaces,
                                               !.had = right = "post"]]
    /\ Overlaps(kind)
    /\ UNCHANGED <<hookOn, right, posted, calls, answers, resolved, commandChanges, commandFaults>>

(* respond: a command that was turned off is refused, the use is gone. *)
CheckHook(p) ==
    /\ hand[p].at = "hook"
    /\ IF hookOn THEN To(p, "check") ELSE Ends(p)
    /\ UNCHANGED <<inv, hookOn, right, posted, calls, answers, resolved, stained,
                   commandChanges, commandFaults>>

-----------------------------------------------------------------------------
(* Mutant: an answer is posted on the strength of the invocation. *)
RightNowAssumed == "post"

(* answer: require_channel_access and can_post *)
RightNow == right

CheckRight(a) ==
    /\ hand[a].at = "check"
    /\ IF RightNow = "none" THEN Ends(a)
       ELSE To(a, IF RightNow = "post" /\ hand[a].kind = "channel" THEN "post" ELSE "tell")
    /\ Stains("dropped", RightNow = "none")
    /\ UNCHANGED <<inv, hookOn, right, posted, calls, answers, resolved,
                   commandChanges, commandFaults>>

Replacing(a) == hand[a].replaces /\ hand[a].seen # 0

(* post_in_channel: the message and its event in one transaction. *)
PostAnswer(a) ==
    /\ hand[a].at = "post"
    /\ posted' = IF Replacing(a) THEN posted ELSE posted + 1
    /\ resolved' = TRUE
    /\ hand' = [hand EXCEPT ![a].at = IF Replacing(a) THEN "tell" ELSE "record",
                            ![a].seen = IF Replacing(a) THEN @ ELSE posted + 1]
    /\ UNCHANGED <<inv, hookOn, right, calls, answers, stained, commandChanges, commandFaults>>

RecordsAnswer(a) == TRUE

(* record_answer, of finish or of answer. *)
RecordAnswer(a) ==
    /\ hand[a].at = "record"
    /\ inv' = IF inv.there /\ RecordsAnswer(a) 
              THEN [inv EXCEPT !.answer = hand[a].seen] ELSE inv
    /\ IF a = Asker THEN Ends(a) ELSE To(a, "tell")
    /\ UNCHANGED <<hookOn, right, posted, calls, answers, resolved, stained,
                   commandChanges, commandFaults>>

RecordFails(a) ==
    /\ hand[a].at = "record" /\ Faulty /\ Ends(a)
    /\ Stains("unrecorded", TRUE)
    /\ UNCHANGED <<inv, hookOn, right, posted, calls, answers, resolved, commandChanges>>

(* tell: command.response to the asker, lost if it cannot be published. *)
Tell(a) ==
    /\ hand[a].at = "tell" /\ Ends(a) /\ resolved' = TRUE
    /\ UNCHANGED <<inv, hookOn, right, posted, calls, answers, stained,
                   commandChanges, commandFaults>>

(* The process dies, or the transaction of the message, or publish, fails. *)
ActorDies(a) ==
    /\ hand[a].at \notin {"free", "gone"} /\ Faulty /\ Ends(a)
    /\ stained' = stained \cup {"dropped", "unrecorded"}
    /\ UNCHANGED <<inv, hookOn, right, posted, calls, answers, resolved, commandChanges>>

-----------------------------------------------------------------------------
(* RETRY_DELAYS_SECS, or the lease of a worker that is gone. *)
RetryFallsDue ==
    /\ inv.retry = "later" /\ Retrying = {}
    /\ inv' = [inv EXCEPT !.retry = "due"]
    /\ UNCHANGED <<hookOn, right, hand, posted, calls, answers, resolved, stained,
                   commandChanges, commandFaults>>

(* RETRY_LEASE_SECS under a worker that is still at the twenty it claimed. *)
LeaseLapses ==
    /\ inv.retry = "later" /\ Retrying # {} /\ Faulty
    /\ inv' = [inv EXCEPT !.retry = "due"]
    /\ UNCHANGED <<hookOn, right, hand, posted, calls, answers, resolved, stained,
                   commandChanges>>

(* RESPONSE_URL_TTL_SECS, half an hour: the request that made it is over,    *)
(* and so is whatever was begun with the URL.                                *)
ExpireInvocation ==
    /\ inv.there /\ ~inv.expired /\ hand[Asker].at = "gone"
    /\ \A p \in Responder : hand[p] = AtLeisure
    /\ inv' = [inv EXCEPT !.expired = TRUE]
    /\ UNCHANGED <<hookOn, right, hand, posted, calls, answers, resolved, stained,
                   commandChanges, commandFaults>>

(* purge_expired *)
MayPurge == inv.there /\ inv.expired /\ inv.retry = "none"

PurgeExpired ==
    /\ MayPurge /\ inv' = NotAsked
    /\ UNCHANGED <<hookOn, right, hand, posted, calls, answers, resolved, stained,
                   commandChanges, commandFaults>>

ChangeCommand ==
    /\ Disturbed /\ commandChanges' = commandChanges + 1
    /\ \/ hookOn' = ~hookOn /\ UNCHANGED <<right, hand>>
       \/ /\ \E to \in {"post", "read", "none"} \ {right} : right' = to
          /\ hand' = [a \in Actor |-> IF hand[a].at \in {"free", "gone"} THEN hand[a]
                                      ELSE [hand[a] EXCEPT !.had = @ \/ right' = "post"]]
          /\ UNCHANGED hookOn
    /\ UNCHANGED <<inv, posted, calls, answers, resolved, stained, commandFaults>>

RetryStep(r) ==
    \/ ClaimRetry(r) \/ LoadHook(r) \/ Settle(r)
    \/ \E kind \in {"unreachable", "acknowledged", "channel", "asker", "error"} : CallAgain(r, kind)

AnswerStep(a) ==
    ScheduleRetry(a) \/ CheckRight(a) \/ PostAnswer(a) \/ RecordAnswer(a) \/ Tell(a)

CommandNext ==
    \/ Invoke
    \/ \E kind \in {"unreachable", "acknowledged", "channel", "asker", "error"} : FirstAnswer(kind)
    \/ \E r \in Retrier : RetryStep(r) \/ LoadFails(r) \/ SettleFails(r)
    \/ \E p \in Responder :
           CheckHook(p) \/ Respond(p, "asker", FALSE) \/ \E b \in BOOLEAN : Respond(p, "channel", b)
    \/ \E a \in Actor : AnswerStep(a) \/ ScheduleFails(a) \/ RecordFails(a) \/ ActorDies(a)
    \/ RetryFallsDue \/ LeaseLapses \/ ExpireInvocation \/ PurgeExpired \/ ChangeCommand

(* start_retrier ticks every second and takes what it claimed to its end;    *)
(* time passes.  The asker's request and the app need not go on.             *)
CommandFairness ==
    /\ \A r \in Retrier : WF_commandVars(RetryStep(r) \/ AnswerStep(r))
    /\ WF_commandVars(RetryFallsDue)

-----------------------------------------------------------------------------
(* Properties. *)

(* An app that cannot be reached is called MAX_ATTEMPTS times, the first     *)
(* included, and one that answered is not called again.  Each claim that     *)
(* ran out under a worker still busy with the others it took, each death and *)
(* each write that failed can add one more answer, and one more call of each *)
(* attempt: what schedule_retry writes over a settled row.                   *)
CommandCallsBounded ==
    /\ \A k \in 2..MaxCalls : calls[k] <= 1 + commandFaults
    /\ answers <= 1 + commandFaults

(* Nobody posts for an asker who could not post at any moment since the      *)
(* request, or the retry, began: what the asker might do when the command    *)
(* was invoked, minutes before, does not count.  The first call is between   *)
(* the look and the post, so that "at any moment" is all that can be said.   *)
PostedOnlyIfAllowed == \A a \in Actor : hand[a].at = "post" => hand[a].had

(* An answer that is to replace the original makes a message only if there   *)
(* is none: whoever posts one records it where the next answer looks.  The   *)
(* exceptions are an answer that comes while another is being posted, and a  *)
(* record that was not written.                                              *)
ReplacesUnlessOverlapped ==
    [][\A p \in Responder :
           posted' # posted /\ hand[p].at = "post" /\ hand'[p].at # "post" /\ hand[p].replaces
           /\ stained \cap {"overlapped", "unrecorded"} = {} => posted = 0]_commandVars

(* An invocation that shall be tried again is settled in the end, and the    *)
(* asker has heard of it unless the asker lost the channel, or the worker    *)
(* died after settling it.                                                   *)
RetryIsResolved ==
    inv.retry # "none" ~> (inv.retry = "none" /\ (resolved \/ "dropped" \in stained))

(* A command is called a bounded number of times, and its answer is posted *)
(* only for somebody who may post there.                                   *)
CommandSafety == CommandTypeOK /\ CommandCallsBounded /\ PostedOnlyIfAllowed
=============================================================================
