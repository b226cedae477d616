----------------------------- MODULE EventOutbox -----------------------------
(***************************************************************************)
(* The transactional outbox of backend/api/src/messaging: publisher.rs     *)
(* (stage, dispatch, emit, mark_published) and outbox.rs (relay_once).     *)
(*                                                                         *)
(* A request stages its events as rows of event_outbox inside the          *)
(* transaction that writes the data, commits, and then dispatches them on  *)
(* the fast path, one at a time and in order: XADD to the workspace stream *)
(* (durable types only), PUBLISH on the live channel, then published_at.   *)
(* Every relay (one per chat-worker) claims rows that are unpublished,     *)
(* older than the fast path's grace period and not leased to another       *)
(* relay, and emits them the same way.                                     *)
(*                                                                         *)
(* Each await of the code is a step of its own.  Timestamps are abstracted *)
(* to what the queries ask of them: has the grace period run out (aged),   *)
(* is the lease none, held or lapsed.  Both clocks may run out while the   *)
(* process they are about is merely slow.                                  *)
(***************************************************************************)
EXTENDS Integers, FiniteSets

CONSTANTS
    Event,      \* outbox rows, named by their BIGSERIAL id
    Durable,    \* the events whose type is_durable
    Request,    \* API requests, each with one transaction
    Relay,      \* relay loops, one per chat-worker process
    EventsOf,   \* the events each request stages
    Batch,      \* LIMIT of the claim query
    MaxFaults,  \* bound: failed calls, crashes and cancelled requests
    MaxLapses   \* bound: leases that expire under a relay that still works

ASSUME EventAssumption   == Event \subseteq Nat \ {0} /\ Durable \subseteq Event
ASSUME ProcessAssumption == Request \cap Relay = {}
ASSUME RequestAssumption == EventsOf \in [Request -> SUBSET Event]
ASSUME OwnerAssumption   ==
    \A q1, q2 \in Request : q1 # q2 => EventsOf[q1] \cap EventsOf[q2] = {}
ASSUME BoundAssumption   ==
    Batch \in Nat \ {0} /\ MaxFaults \in Nat /\ MaxLapses \in Nat

Process == Request \cup Relay

NoEvent == 0    \* no row has this id

VARIABLES
    row,        \* each event's row of event_outbox
    aged,       \* rows created more than FAST_PATH_GRACE_SECS ago
    lease,      \* claimed_at of each row
    appended,   \* entries of each event in the workspace stream
    heard,      \* events announced on the live channel
    pc, todo, cur,  \* each process: its next step, its events, the one in hand
    lapses,     \* expired leases of each row
    faults      \* faults so far

tableVars == <<row, aged, lease>>
redisVars == <<appended, heard>>
procVars  == <<pc, todo, cur>>
countVars == <<lapses, faults>>
vars == <<row, aged, lease, appended, heard, pc, todo, cur, lapses, faults>>

RowState == {"absent", "staged", "unpublished", "published", "deleted"}
LeaseState == {"none", "held", "lapsed"}
PcState == {"start", "open", "idle", "next", "append", "publish", "mark",
            "prune", "done"}

Init ==
    /\ row = [e \in Event |-> "absent"]
    /\ aged = {}
    /\ lease = [e \in Event |-> "none"]
    /\ appended = [e \in Event |-> 0]
    /\ heard = {}
    /\ pc = [p \in Process |-> IF p \in Request THEN "start" ELSE "idle"]
    /\ todo = [p \in Process |-> {}]
    /\ cur = [p \in Process |-> NoEvent]
    /\ lapses = [e \in Event |-> 0]
    /\ faults = 0

Fault == faults < MaxFaults /\ faults' = faults + 1

Goto(p, label) == pc' = [pc EXCEPT ![p] = label]

SetRows(S, state) ==
    row' = [e \in Event |-> IF e \in S THEN state ELSE row[e]]

-----------------------------------------------------------------------------
(* The request: stage inside the transaction, commit, then the fast path. *)

Stage(q) ==
    /\ pc[q] = "start"
    /\ SetRows(EventsOf[q], "staged")
    /\ Goto(q, "open")
    /\ UNCHANGED <<aged, lease, redisVars, todo, cur, countVars>>

Commit(q) ==
    /\ pc[q] = "open"
    /\ SetRows(EventsOf[q], "unpublished")
    /\ todo' = [todo EXCEPT ![q] = EventsOf[q]]
    /\ Goto(q, "next")
    /\ UNCHANGED <<aged, lease, redisVars, cur, countVars>>

(* The commit is applied, its answer is lost: the handler returns an error *)
(* and never dispatches.                                                   *)
CommitUnanswered(q) ==
    /\ pc[q] = "open"
    /\ Fault
    /\ SetRows(EventsOf[q], "unpublished")
    /\ Goto(q, "done")
    /\ UNCHANGED <<aged, lease, redisVars, todo, cur, lapses>>

Rollback(q) ==
    /\ pc[q] = "open"
    /\ SetRows(EventsOf[q], "absent")
    /\ Goto(q, "done")
    /\ UNCHANGED <<aged, lease, redisVars, todo, cur, countVars>>

(* The relay: claim due rows, emit them, prune, sleep. *)

Due == {e \in Event : row[e] = "unpublished" /\ e \in aged /\ lease[e] # "held"}

(* Mutant: the LIMIT is one short. *)
ClaimableOffByOne ==
    {e \in Due : Cardinality({f \in Due : f < e}) < Batch - 1}

(* ORDER BY id LIMIT $1 *)
Claimable ==
    {e \in Due : Cardinality({f \in Due : f < e}) < Batch}

Claim(r) ==
    /\ pc[r] = "idle"
    /\ lease' = [e \in Event |-> IF e \in Claimable THEN "held" ELSE lease[e]]
    /\ todo' = [todo EXCEPT ![r] = Claimable]
    /\ Goto(r, "next")
    /\ UNCHANGED <<row, aged, redisVars, cur, countVars>>

(* The UPDATE is applied, its answer is lost: relay_once returns 0. *)
ClaimUnanswered(r) ==
    /\ pc[r] = "idle"
    /\ Claimable # {}
    /\ Fault
    /\ lease' = [e \in Event |-> IF e \in Claimable THEN "held" ELSE lease[e]]
    /\ UNCHANGED <<row, aged, redisVars, procVars, lapses>>

(* Which published rows are older than KEEP_PUBLISHED_HOURS is the clock's *)
(* choice, and so is a failed or a partial (LIMIT 1000) delete.            *)
Prune(r) ==
    /\ pc[r] = "prune"
    /\ \E S \in SUBSET {e \in Event : row[e] = "published"} :
            SetRows(S, "deleted")
    /\ Goto(r, "idle")
    /\ UNCHANGED <<aged, lease, redisVars, todo, cur, countVars>>

-----------------------------------------------------------------------------
(* emit and mark_published, for both kinds of process. *)

(* dispatch_all goes in order; UPDATE ... RETURNING promises no order. *)
Take(p) ==
    /\ pc[p] = "next"
    /\ \E e \in todo[p] :
        /\ p \in Request => \A f \in todo[p] : e <= f
        /\ cur' = [cur EXCEPT ![p] = e]
        /\ todo' = [todo EXCEPT ![p] = @ \ {e}]
        /\ Goto(p, IF e \in Durable THEN "append" ELSE "publish")
    /\ UNCHANGED <<tableVars, redisVars, countVars>>

Finish(p) ==
    /\ pc[p] = "next"
    /\ todo[p] = {}
    /\ cur' = [cur EXCEPT ![p] = NoEvent]
    /\ Goto(p, IF p \in Request THEN "done" ELSE "prune")
    /\ UNCHANGED <<tableVars, redisVars, todo, countVars>>

XAdd(p) ==
    /\ pc[p] = "append"
    /\ appended' = [appended EXCEPT ![cur[p]] = @ + 1]
    /\ Goto(p, "publish")
    /\ UNCHANGED <<tableVars, heard, todo, cur, countVars>>

(* Mutant: a failed XADD is retried at once. *)
XAddErrorRetries(p) ==
    /\ pc[p] = "append"
    /\ Fault
    /\ appended' = [appended EXCEPT ![cur[p]] = @ + 1]
    /\ UNCHANGED <<tableVars, heard, procVars, lapses>>

(* XADD answers with an error; the entry may be there all the same. *)
XAddError(p) ==
    /\ pc[p] = "append"
    /\ Fault
    /\ \/ appended' = [appended EXCEPT ![cur[p]] = @ + 1]
       \/ appended' = appended
    /\ Goto(p, "next")
    /\ UNCHANGED <<tableVars, heard, todo, cur, lapses>>

Publish(p) ==
    /\ pc[p] = "publish"
    /\ heard' = heard \cup {cur[p]}
    /\ Goto(p, "mark")
    /\ UNCHANGED <<tableVars, appended, todo, cur, countVars>>

(* Mutant: a failed PUBLISH is logged and the row marked all the same. *)
PublishErrorIgnored(p) ==
    /\ pc[p] = "publish"
    /\ Fault
    /\ heard' \in {heard, heard \cup {cur[p]}}
    /\ Goto(p, "mark")
    /\ UNCHANGED <<tableVars, appended, todo, cur, lapses>>

PublishError(p) ==
    /\ pc[p] = "publish"
    /\ Fault
    /\ heard' \in {heard, heard \cup {cur[p]}}
    /\ Goto(p, "next")
    /\ UNCHANGED <<tableVars, appended, todo, cur, lapses>>

(* UPDATE ... WHERE id = $1: no row, no effect. *)
MarkPublished(p) ==
    /\ pc[p] = "mark"
    /\ SetRows({cur[p]} \cap {e \in Event : row[e] # "deleted"}, "published")
    /\ Goto(p, "next")
    /\ UNCHANGED <<aged, lease, redisVars, todo, cur, countVars>>

MarkError(p) ==
    /\ pc[p] = "mark"
    /\ Fault
    /\ Goto(p, "next")
    /\ UNCHANGED <<tableVars, redisVars, todo, cur, lapses>>

-----------------------------------------------------------------------------
(* The environment. *)

(* The API process dies or the client hangs up and the handler is dropped: *)
(* an open transaction rolls back, a fast path in progress stops.          *)
Abandon(q) ==
    /\ pc[q] \in {"open", "next", "append", "publish", "mark"}
    /\ Fault
    /\ SetRows({e \in EventsOf[q] : pc[q] = "open"}, "absent")
    /\ todo' = [todo EXCEPT ![q] = {}]
    /\ cur' = [cur EXCEPT ![q] = NoEvent]
    /\ Goto(q, "done")
    /\ UNCHANGED <<aged, lease, redisVars, lapses>>

(* A worker dies and is restarted: what it held in memory is gone. *)
Restart(r) ==
    /\ pc[r] # "idle"
    /\ Fault
    /\ todo' = [todo EXCEPT ![r] = {}]
    /\ cur' = [cur EXCEPT ![r] = NoEvent]
    /\ Goto(r, "idle")
    /\ UNCHANGED <<tableVars, redisVars, lapses>>

(* created_at is set when the event is staged, before the commit. *)
GraceElapses(e) ==
    /\ row[e] \in {"staged", "unpublished"}
    /\ e \notin aged
    /\ aged' = aged \cup {e}
    /\ UNCHANGED <<row, lease, redisVars, procVars, countVars>>

InHand(p) ==
    todo[p] \cup (IF pc[p] \in {"append", "publish", "mark"} THEN {cur[p]} ELSE {})

HoldersOf(e) == {r \in Relay : e \in InHand(r)}

(* MaxLapses bounds only the leases that expire under a working relay. *)
LeaseLapses(e) ==
    /\ lease[e] = "held"
    /\ row[e] = "unpublished"
    /\ HoldersOf(e) = {} \/ lapses[e] < MaxLapses
    /\ lease' = [lease EXCEPT ![e] = "lapsed"]
    /\ lapses' = [lapses EXCEPT ![e] = @ + 1]
    /\ UNCHANGED <<row, aged, redisVars, procVars, faults>>

RequestStep(q) ==
    Stage(q) \/ Commit(q) \/ CommitUnanswered(q) \/ Rollback(q) \/ Abandon(q)

RelayStep(r) == Claim(r) \/ ClaimUnanswered(r) \/ Prune(r) \/ Restart(r)

EmitStep(p) ==
    \/ Take(p) \/ Finish(p)
    \/ XAdd(p) \/ XAddError(p)
    \/ Publish(p) \/ PublishError(p)
    \/ MarkPublished(p) \/ MarkError(p)

Clock == \E e \in Event : GraceElapses(e) \/ LeaseLapses(e)

Next ==
    \/ \E q \in Request : RequestStep(q)
    \/ \E r \in Relay : RelayStep(r)
    \/ \E p \in Process : EmitStep(p)
    \/ Clock

(* Time passes, and a relay is a loop that never returns.  Requests are    *)
(* not assumed to make progress at all.                                    *)
Fairness ==
    /\ \A r \in Relay : WF_vars(RelayStep(r) \/ EmitStep(r))
    /\ \A e \in Event : WF_vars(GraceElapses(e)) /\ WF_vars(LeaseLapses(e))

Safe == Init /\ [][Next]_vars

Spec == Safe /\ Fairness

-----------------------------------------------------------------------------
(* Properties *)

(* Every variable stays in its domain. *)
TypeOK ==
    /\ row \in [Event -> RowState]
    /\ aged \subseteq Event
    /\ lease \in [Event -> LeaseState]
    /\ appended \in [Event -> Nat]
    /\ heard \subseteq Event
    /\ pc \in [Process -> PcState]
    /\ todo \in [Process -> SUBSET Event]
    /\ cur \in [Process -> Event \cup {NoEvent}]
    /\ lapses \in [Event -> Nat]
    /\ faults \in Nat

Emitted(e) == e \in heard /\ (e \in Durable => appended[e] > 0)

Committed(e) == row[e] \in {"unpublished", "published", "deleted"}

(* A row leaves the relay's sight, marked or pruned, only once its event   *)
(* really is in the stream and on the live channel: no order of failures,  *)
(* crashes and overlapping emitters loses one (publisher.rs dispatch,      *)
(* outbox.rs relay_once).                                                  *)
PublishedIsEmitted ==
    \A e \in Event : row[e] \in {"published", "deleted"} => Emitted(e)

(* Nobody ever hears of, and the stream never holds, an event whose        *)
(* transaction is still open or was rolled back (stage is on the caller's  *)
(* connection, dispatch comes after the commit).                           *)
OnlyCommittedIsEmitted ==
    \A e \in Event : e \in heard \/ appended[e] > 0 => Committed(e)

(* Two relays work on one row only after a lease ran out: each lapse adds  *)
(* at most one holder (claimed_at, FOR UPDATE SKIP LOCKED).                *)
LeaseLimitsHolders ==
    \A e \in Event : Cardinality(HoldersOf(e)) <= 1 + lapses[e]

(* The duplicates a consumer must discard are bounded: one entry from the  *)
(* fast path, one from the first claim, one per lapsed lease; a failed     *)
(* emit is not retried before its lease runs out.                          *)
DuplicatesBounded ==
    \A e \in Event : appended[e] <= 2 + lapses[e]

(* The outbox implements at-least-once delivery. *)
Promise == INSTANCE AtLeastOnce WITH
    accepted <- {e \in Event : Committed(e)},
    owed     <- {e \in Event : row[e] = "unpublished"},
    logged   <- {e \in Event : appended[e] > 0},
    heard    <- heard

(* Every behaviour of the outbox, its crashes and duplicate emitters       *)
(* included, is one of the abstract at-least-once delivery.                *)
ImplementsAtLeastOnce == Promise!Spec

(* Emission is bounded: how many hold a row, and how often its event is    *)
(* put into the stream.                                                    *)
EmissionIsBounded == TypeOK /\ LeaseLimitsHolders /\ DuplicatesBounded
=============================================================================
