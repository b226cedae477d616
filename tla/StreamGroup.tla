----------------------------- MODULE StreamGroup -----------------------------
(***************************************************************************)
(* A consumer group over the workspace streams: messaging/stream_group.rs, *)
(* the publisher's SADD and XADD (publisher.rs emit), the trimmer          *)
(* (stream_trim.rs) and the loop every worker consumer runs around the     *)
(* group (hooks/executor.rs start_hook_consumer: next_batch, handle, ack). *)
(*                                                                         *)
(* Redis keeps, for the group, which entries were never delivered, which   *)
(* are pending and how often each was delivered.  A consumer knows some    *)
(* streams, reads new entries, takes over entries that sat unacknowledged  *)
(* for CLAIM_MIN_IDLE, drops what was delivered too often, handles the     *)
(* rest one by one and acknowledges each.                                  *)
(***************************************************************************)
EXTENDS Integers, FiniteSets

CONSTANTS
    Stream,         \* one per workspace
    Entry,          \* the entries that publishers will append
    StreamOf,       \* the stream of each entry
    Garbled,        \* entries whose body does not parse
    Consumer,       \* one per worker replica
    MaxDeliveries,  \* MAX_DELIVERIES
    MaxFaults,      \* bound: failed calls and crashes
    MaxLapses       \* bound: entries that go idle in a working consumer's hands

ASSUME EntryAssumption == Garbled \subseteq Entry /\ StreamOf \in [Entry -> Stream]
ASSUME BoundAssumption ==
    MaxDeliveries \in Nat \ {0} /\ MaxFaults \in Nat /\ MaxLapses \in Nat

VARIABLES
    index,      \* stream:index, the set of streams the workers look at
    entry,      \* each entry on its way through the stream
    groups,     \* streams on which the consumer group exists
    pel,        \* each entry, as the group sees it
    times,      \* times_delivered of each entry
    known,      \* each consumer's cached stream list
    pc, batch, cur,     \* each consumer: next step, deliveries, the one in hand
    trim,       \* the trimmer: streams it listed, the one at hand, its step
    handled,    \* how often each entry was handled
    lapses, faults, blind   \* counters: idle in hand, faults, failed XPENDINGs

redisVars == <<index, entry, groups, pel, times>>
consumerVars == <<known, pc, batch, cur>>
vars == <<index, entry, groups, pel, times, known, pc, batch, cur, trim,
          handled, lapses, faults, blind>>

NoEntry == "none"

EntryState == {"new", "indexed", "live", "trimmed"}
PelState == {"unread", "pending", "idle", "acked"}

Init ==
    /\ index = {}
    /\ entry = [e \in Entry |-> "new"]
    /\ groups = {}
    /\ pel = [e \in Entry |-> "unread"]
    /\ times = [e \in Entry |-> 0]
    /\ known = [c \in Consumer |-> {}]
    /\ pc = [c \in Consumer |-> "refresh"]
    /\ batch = [c \in Consumer |-> {}]
    /\ cur = [c \in Consumer |-> NoEntry]
    /\ trim = [step |-> "sleep", keys |-> {}]
    /\ handled = [e \in Entry |-> 0]
    /\ lapses = [e \in Entry |-> 0]
    /\ faults = 0
    /\ blind = 0

Fault == faults < MaxFaults /\ faults' = faults + 1

Goto(c, label) == pc' = [pc EXCEPT ![c] = label]

LiveIn(s) == {e \in Entry : entry[e] = "live" /\ StreamOf[e] = s}

-----------------------------------------------------------------------------
(* The publisher's two calls: an error of SADD is ignored. *)

SAdd(e) ==
    /\ entry[e] = "new"
    /\ entry' = [entry EXCEPT ![e] = "indexed"]
    /\ \/ index' = index \cup {StreamOf[e]} /\ faults' = faults
       \/ index' = index /\ Fault
    /\ UNCHANGED <<groups, pel, times, consumerVars, trim, handled, lapses, blind>>

XAdd(e) ==
    /\ entry[e] = "indexed"
    /\ entry' = [entry EXCEPT ![e] = "live"]
    /\ UNCHANGED <<index, groups, pel, times, consumerVars, trim, handled, lapses,
                   faults, blind>>

(* The trimmer: SMEMBERS, then for each stream XTRIM, XLEN and SREM. *)

TrimList ==
    /\ trim.step = "sleep"
    /\ index # {}
    /\ trim' = [step |-> "xtrim", keys |-> index]
    /\ UNCHANGED <<redisVars, consumerVars, handled, lapses, faults, blind>>

(* How many entries are older than MAX_AGE is the clock's choice; "~" may  *)
(* keep some of them.                                                      *)
XTrim(s) ==
    /\ trim.step = "xtrim" /\ s \in trim.keys
    /\ \E old \in SUBSET LiveIn(s) :
            entry' = [e \in Entry |-> IF e \in old THEN "trimmed" ELSE entry[e]]
    /\ trim' = [step |-> "xlen", keys |-> trim.keys, at |-> s]
    /\ UNCHANGED <<index, groups, pel, times, consumerVars, handled, lapses, faults, blind>>

NextKey == [step |-> IF trim.keys = {trim.at} THEN "sleep" ELSE "xtrim",
            keys |-> trim.keys \ {trim.at}]

XLen ==
    /\ trim.step = "xlen"
    /\ trim' = IF LiveIn(trim.at) = {}
               THEN [trim EXCEPT !.step = "srem"]
               ELSE NextKey
    /\ UNCHANGED <<redisVars, consumerVars, handled, lapses, faults, blind>>

SRem ==
    /\ trim.step = "srem"
    /\ index' = index \ {trim.at}
    /\ trim' = NextKey
    /\ UNCHANGED <<entry, groups, pel, times, consumerVars, handled, lapses, faults, blind>>

(* XTRIM, XLEN or SREM fails and the key is left as it is. *)
TrimError ==
    /\ trim.step \in {"xlen", "srem"}
    /\ Fault
    /\ trim' = NextKey
    /\ UNCHANGED <<redisVars, consumerVars, handled, lapses, blind>>

-----------------------------------------------------------------------------
(* next_batch *)

(* refresh_streams: groups are created only on streams the cache does not  *)
(* hold yet, and the cache takes every listed stream, created or not.      *)
Refresh(c) ==
    /\ pc[c] = "refresh"
    /\ \/ groups' = groups \cup (index \ known[c]) /\ faults' = faults
       \/ \E s \in (index \ known[c]) \ groups :
            /\ groups' = groups \cup ((index \ known[c]) \ {s})
            /\ Fault
    /\ known' = [known EXCEPT ![c] = index]
    /\ Goto(c, IF index = {} THEN "refresh" ELSE "claim")
    /\ UNCHANGED <<index, entry, pel, times, batch, cur, trim, handled, lapses, blind>>

(* REFRESH_STREAMS_EVERY has not passed, or SMEMBERS failed. *)
RefreshNotDue(c) ==
    /\ pc[c] = "refresh"
    /\ known[c] # {}
    /\ Goto(c, "claim")
    /\ UNCHANGED <<redisVars, known, batch, cur, trim, handled, lapses, faults, blind>>

ClaimNotDue(c) ==
    /\ pc[c] = "claim"
    /\ Goto(c, "read")
    /\ UNCHANGED <<redisVars, known, batch, cur, trim, handled, lapses, faults, blind>>

(* Mutant: a consumer never takes over what another left behind. *)
AbandonedNever(c) == {}

Abandoned(c) ==
    {e \in Entry : pel[e] = "idle" /\ StreamOf[e] \in known[c] \cap groups}

Dropped(S, counted) ==
    {e \in S : e \in Garbled \/ (counted /\ times[e] + 1 > MaxDeliveries)}

(* Entries that were trimmed leave the pending list without a delivery,    *)
(* those beyond MAX_DELIVERIES or unreadable are acknowledged unhandled.   *)
(* `lost` are delivered and stay pending with nobody working on them.      *)
ClaimWith(c, counted, lost) ==
    LET claimed == {e \in Abandoned(c) : entry[e] = "live"}
        kept == (claimed \ lost) \ Dropped(claimed, counted)
    IN  /\ times' = [e \in Entry |-> IF e \in claimed THEN times[e] + 1 ELSE times[e]]
        /\ pel' = [e \in Entry |->
                     IF e \in kept \cup (claimed \cap lost) THEN "pending"
                     ELSE IF e \in Abandoned(c) THEN "acked" ELSE pel[e]]
        /\ batch' = [batch EXCEPT ![c] = kept]
        /\ Goto(c, IF kept = {} THEN "read" ELSE "work")

(* Mutant: an entry is handed out however often it was delivered. *)
ClaimUnlimited(c) ==
    /\ pc[c] = "claim"
    /\ ClaimWith(c, FALSE, {})
    /\ UNCHANGED <<index, entry, groups, known, cur, trim, handled, lapses, faults, blind>>

(* claim_abandoned *)
ClaimAbandoned(c) ==
    /\ pc[c] = "claim"
    /\ ClaimWith(c, TRUE, {})
    /\ UNCHANGED <<index, entry, groups, known, cur, trim, handled, lapses, faults, blind>>

(* XPENDING fails: every count reads as 0 and nothing is dropped for it. *)
ClaimUncounted(c) ==
    /\ pc[c] = "claim"
    /\ Abandoned(c) # {}
    /\ Fault
    /\ blind' = blind + 1
    /\ ClaimWith(c, FALSE, {})
    /\ UNCHANGED <<index, entry, groups, known, cur, trim, handled, lapses>>

(* The answer to one stream's XAUTOCLAIM is lost, or the XACK of an entry  *)
(* that is to be dropped fails.                                            *)
ClaimUnanswered(c) ==
    /\ pc[c] = "claim"
    /\ \E lost \in {{e \in Abandoned(c) : StreamOf[e] = s} : s \in Stream}
                   \cup {{e} : e \in Dropped(Abandoned(c), TRUE)} :
            lost # {} /\ ClaimWith(c, TRUE, lost)
    /\ Fault
    /\ UNCHANGED <<index, entry, groups, known, cur, trim, handled, lapses, blind>>

Unread(c) ==
    {e \in Entry : entry[e] = "live" /\ pel[e] = "unread" /\ StreamOf[e] \in known[c]}

(* Mutant: entries are read with NOACK and never become pending. *)
DeliverNoAck(c, lost) ==
    /\ times' = [e \in Entry |-> IF e \in Unread(c) THEN 1 ELSE times[e]]
    /\ pel' = [e \in Entry |-> IF e \in Unread(c) THEN "acked" ELSE pel[e]]
    /\ batch' = [batch EXCEPT ![c] = (Unread(c) \ lost) \ Garbled]

(* XREADGROUP moves what it returns to the pending list; what cannot be    *)
(* parsed is acknowledged at once.                                         *)
Deliver(c, lost) ==
    /\ times' = [e \in Entry |-> IF e \in Unread(c) THEN 1 ELSE times[e]]
    /\ pel' = [e \in Entry |->
                 IF e \notin Unread(c) THEN pel[e]
                 ELSE IF e \in Garbled \ lost THEN "acked" ELSE "pending"]
    /\ batch' = [batch EXCEPT ![c] = (Unread(c) \ lost) \ Garbled]

Read(c) ==
    /\ pc[c] = "read"
    /\ known[c] \subseteq groups
    /\ Deliver(c, {})
    /\ Goto(c, IF Unread(c) \subseteq Garbled THEN "refresh" ELSE "work")
    /\ UNCHANGED <<index, entry, groups, known, cur, trim, handled, lapses, faults, blind>>

(* The reply does not arrive in time, or the XACK of an unreadable entry   *)
(* fails.                                                                  *)
ReadUnanswered(c) ==
    /\ pc[c] = "read"
    /\ known[c] \subseteq groups
    /\ \E lost \in {Unread(c)} \cup {{e} : e \in Unread(c) \cap Garbled} :
        /\ lost # {}
        /\ Deliver(c, lost)
        /\ Goto(c, IF Unread(c) \subseteq Garbled \cup lost THEN "refresh" ELSE "work")
    /\ Fault
    /\ UNCHANGED <<index, entry, groups, known, cur, trim, handled, lapses, blind>>

(* NOGROUP on one stream fails the whole read; only the time of the last   *)
(* refresh is reset, not the list.                                         *)
ReadNoGroup(c) ==
    /\ pc[c] = "read"
    /\ ~(known[c] \subseteq groups)
    /\ Goto(c, "refresh")
    /\ UNCHANGED <<redisVars, known, batch, cur, trim, handled, lapses, faults, blind>>

-----------------------------------------------------------------------------
(* The consumer's loop over the batch. *)

Handle(c) ==
    /\ pc[c] = "work"
    /\ \E e \in batch[c] :
        /\ cur' = [cur EXCEPT ![c] = e]
        /\ batch' = [batch EXCEPT ![c] = @ \ {e}]
        /\ handled' = [handled EXCEPT ![e] = @ + 1]
    /\ Goto(c, "ack")
    /\ UNCHANGED <<redisVars, known, trim, lapses, faults, blind>>

AfterAck(c) ==
    /\ cur' = [cur EXCEPT ![c] = NoEntry]
    /\ Goto(c, IF batch[c] = {} THEN "refresh" ELSE "work")
    /\ UNCHANGED <<index, entry, groups, times, known, batch, trim, handled, lapses, blind>>

Ack(c) ==
    /\ pc[c] = "ack"
    /\ pel' = [pel EXCEPT ![cur[c]] = "acked"]
    /\ AfterAck(c)
    /\ UNCHANGED faults

AckFails(c) ==
    /\ pc[c] = "ack"
    /\ Fault
    /\ AfterAck(c)
    /\ UNCHANGED pel

(* The worker dies and comes back under a new consumer name. *)
Restart(c) ==
    /\ Fault
    /\ known' = [known EXCEPT ![c] = {}]
    /\ batch' = [batch EXCEPT ![c] = {}]
    /\ cur' = [cur EXCEPT ![c] = NoEntry]
    /\ Goto(c, "refresh")
    /\ UNCHANGED <<redisVars, trim, handled, lapses, blind>>

InHand(c) == batch[c] \cup ({cur[c]} \ {NoEntry})

HoldersOf(e) == {c \in Consumer : e \in InHand(c)}

(* CLAIM_MIN_IDLE passes; MaxLapses bounds only how often that happens to  *)
(* an entry a consumer is still working on.                                *)
IdleElapses(e) ==
    /\ pel[e] = "pending"
    /\ HoldersOf(e) = {} \/ lapses[e] < MaxLapses
    /\ pel' = [pel EXCEPT ![e] = "idle"]
    /\ lapses' = [lapses EXCEPT ![e] = IF HoldersOf(e) = {} THEN @ ELSE @ + 1]
    /\ UNCHANGED <<index, entry, groups, times, consumerVars, trim, handled, faults, blind>>

ConsumerStep(c) ==
    \/ Refresh(c) \/ RefreshNotDue(c)
    \/ ClaimNotDue(c) \/ ClaimAbandoned(c) \/ ClaimUncounted(c) \/ ClaimUnanswered(c)
    \/ Read(c) \/ ReadUnanswered(c) \/ ReadNoGroup(c)
    \/ Handle(c) \/ Ack(c) \/ AckFails(c) \/ Restart(c)

Next ==
    \/ \E e \in Entry : SAdd(e) \/ XAdd(e) \/ IdleElapses(e)
    \/ TrimList \/ (\E s \in Stream : XTrim(s)) \/ XLen \/ SRem \/ TrimError
    \/ \E c \in Consumer : ConsumerStep(c)

(* A supervised loop never stops; refreshes and claim passes come round    *)
(* every 30 seconds, so neither is skipped for ever; time passes.          *)
Fairness ==
    /\ \A c \in Consumer : /\ WF_vars(ConsumerStep(c))
                           /\ SF_vars(Refresh(c))
                           /\ SF_vars(ClaimAbandoned(c))
    /\ \A e \in Entry : WF_vars(IdleElapses(e))
    /\ WF_vars(XLen) /\ WF_vars(SRem)

Safe == Init /\ [][Next]_vars

Spec == Safe /\ Fairness

-----------------------------------------------------------------------------
(* Properties *)

(* Every variable stays in its domain. *)
TypeOK ==
    /\ index \subseteq Stream /\ groups \subseteq Stream
    /\ entry \in [Entry -> EntryState]
    /\ pel \in [Entry -> PelState]
    /\ times \in [Entry -> Nat] /\ handled \in [Entry -> Nat] /\ lapses \in [Entry -> Nat]
    /\ known \in [Consumer -> SUBSET Stream]
    /\ pc \in [Consumer -> {"refresh", "claim", "read", "work", "ack"}]
    /\ batch \in [Consumer -> SUBSET Entry]
    /\ cur \in [Consumer -> Entry \cup {NoEntry}]
    /\ trim.step \in {"sleep", "xtrim", "xlen", "srem"}
    /\ faults \in Nat /\ blind \in Nat

(* An entry leaves the group for good only when it was handled, cannot be  *)
(* parsed, aged out of the stream, or was delivered more than              *)
(* MAX_DELIVERIES times: no lost answer, failed acknowledgement or crash   *)
(* makes it disappear unhandled.                                           *)
AckedIsAccountedFor ==
    \A e \in Entry : pel[e] = "acked" =>
        \/ handled[e] > 0
        \/ e \in Garbled
        \/ entry[e] = "trimmed"
        \/ times[e] > MaxDeliveries

(* An entry that keeps killing its consumer is handled at most             *)
(* MAX_DELIVERIES times, once more for each XPENDING that failed.          *)
HandlingIsBounded ==
    \A e \in Entry : handled[e] <= MaxDeliveries + blind

(* Two replicas hold one entry only after it sat idle in the first's hands *)
(* for CLAIM_MIN_IDLE: each such lapse adds at most one holder.            *)
IdleLimitsHolders ==
    \A e \in Entry : Cardinality(HoldersOf(e)) <= 1 + lapses[e]

Settled(e) == pel[e] = "acked" \/ entry[e] = "trimmed"

Indexed == \A s \in Stream : LiveIn(s) # {} => s \in index

GroupsExist == \A c \in Consumer : known[c] \subseteq groups

(* As long as the index names every stream that holds something and every  *)
(* known stream has the group, each entry is settled in the end, whichever *)
(* replica dies with it and whichever answer is lost.                      *)
EventuallySettled ==
    <>[](Indexed /\ GroupsExist) =>
        \A e \in Entry : (entry[e] = "live") ~> Settled(e)

(* The work of a group is bounded: how often an entry is handled, and how  *)
(* many replicas have it in hand.                                          *)
WorkIsBounded == TypeOK /\ HandlingIsBounded /\ IdleLimitsHolders
=============================================================================
