---------------------------- MODULE HookExecutor ----------------------------
(***************************************************************************)
(* Outgoing webhooks: hooks/executor.rs, the rows it keeps (hooks/repo.rs) *)
(* and the ways a hook is turned off and on again (workspace/membership.rs *)
(* stand_down, hooks/routes.rs update_hook).                               *)
(*                                                                         *)
(* The consumer group delivers a message event at least once, to any       *)
(* worker, and again to another one when the first is slow: here any       *)
(* emitted event that is not acknowledged may be delivered to any idle     *)
(* worker (StreamGroup models the group itself).  A worker lists the       *)
(* active hooks, asks of each whether its creator may still run it, claims *)
(* the (hook, event) pair and calls the endpoint up to MaxAttempts times.  *)
(***************************************************************************)
EXTENDS Integers

CONSTANTS
    Hook,           \* outgoing webhooks of one channel
    User,           \* who can have created a hook
    Maker,          \* who created each hook at first
    Event,          \* the events on the stream
    Messages,       \* those that are message.created with a workspace and channel
    Worker,         \* one per worker replica
    MaxAttempts,    \* HOOK_MAX_ATTEMPTS
    MaxFaults,      \* bound: failed database and Redis calls, and crashes
    MaxTurns        \* bound: times somebody turns a hook on or regains a role

ASSUME HookAssumption == Maker \in [Hook -> User] /\ Messages \subseteq Event
ASSUME HookBoundAssumption ==
    MaxAttempts \in Nat \ {0} /\ MaxFaults \in Nat /\ MaxTurns \in Nat

VARIABLES
    state,      \* hooks.is_active, or that the row is gone
    by,         \* hooks.created_by
    able,       \* users that are active, in the channel and may manage hooks
    owing,      \* users removed from the workspace whose stand_down has yet to run
    claimed,    \* hook_executions rows: the pairs that were claimed
    result,     \* the answer recorded in each row
    emitted, acked,     \* events on the stream, and those acknowledged
    pc, ev,     \* each worker: next step, the event in hand
    listed,     \* hooks it listed, each with the creator it read
    firing,     \* hooks that passed the check
    at, attempt, last,  \* the hook it calls, calls made, the last answer
    calls,      \* history: calls made for each pair
    said,       \* history: the last answer of each pair's endpoint
    wasOn,      \* history: pairs whose hook was on at some time since the event
    wasAble,    \* history: pairs whose creator could run it at some time since then
    steady,     \* history: pairs whose hook could run at all times since the event
    missed,     \* history: pairs that a failed database call passed over
    faults, turns       \* counters

hookVars == <<state, by, able, owing>>
rowVars == <<claimed, result>>
workerVars == <<pc, ev, listed, firing, at, attempt, last>>
callVars == <<calls, said>>
historyVars == <<wasOn, wasAble, steady, missed>>
vars == <<state, by, able, owing, claimed, result, emitted, acked, pc, ev,
          listed, firing, at, attempt, last, calls, said, wasOn, wasAble,
          steady, missed, faults, turns>>

Pair == Hook \X Event
NoEvent == "none"
NoHook == "none"
NoAnswer == "none"

(* A 2xx; a 4xx other than 429; anything else the endpoint said; no answer. *)
Answer == {"ok", "refused", "retry", "lost"}
Final == {"ok", "refused"}

Runs(h) == state[h] = "on" /\ by[h] \in able

Init ==
    /\ state = [h \in Hook |-> "on"]
    /\ by = Maker
    /\ able = User
    /\ owing = {}
    /\ claimed = {}
    /\ result = [p \in Pair |-> NoAnswer]
    /\ emitted = {}
    /\ acked = {}
    /\ pc = [w \in Worker |-> "idle"]
    /\ ev = [w \in Worker |-> NoEvent]
    /\ listed = [w \in Worker |-> {}]
    /\ firing = [w \in Worker |-> {}]
    /\ at = [w \in Worker |-> NoHook]
    /\ attempt = [w \in Worker |-> 0]
    /\ last = [w \in Worker |-> NoAnswer]
    /\ calls = [p \in Pair |-> 0]
    /\ said = [p \in Pair |-> NoAnswer]
    /\ wasOn = {}
    /\ wasAble = {}
    /\ steady = {}
    /\ missed = {}
    /\ faults = 0
    /\ turns = 0

Fault == faults < MaxFaults /\ faults' = faults + 1
Turn == turns < MaxTurns /\ turns' = turns + 1

Goto(w, label) == pc' = [pc EXCEPT ![w] = label]

(* dispatch_hook returns and its locals are gone. *)
Return(w) ==
    /\ at' = [at EXCEPT ![w] = NoHook]
    /\ attempt' = [attempt EXCEPT ![w] = 0]
    /\ last' = [last EXCEPT ![w] = NoAnswer]

(* What a change of a hook, or of its creator's standing, does to history. *)
Remember ==
    /\ wasOn' = wasOn \cup {p \in Pair : p[2] \in emitted /\ state'[p[1]] = "on"}
    /\ wasAble' = wasAble \cup {p \in Pair : p[2] \in emitted /\ by'[p[1]] \in able'}
    /\ steady' = {p \in steady : state'[p[1]] = "on" /\ by'[p[1]] \in able'}
    /\ UNCHANGED missed

-----------------------------------------------------------------------------
(* The world around the workers. *)

Emit(e) ==
    /\ e \notin emitted
    /\ emitted' = emitted \cup {e}
    /\ wasOn' = wasOn \cup {p \in Pair : p[2] = e /\ state[p[1]] = "on"}
    /\ wasAble' = wasAble \cup {p \in Pair : p[2] = e /\ by[p[1]] \in able}
    /\ steady' = steady \cup {p \in Pair : p[2] = e /\ Runs(p[1])}
    /\ UNCHANGED <<hookVars, rowVars, acked, workerVars, callVars, missed, faults, turns>>

(* A creator loses the role or the channel: no hook row changes. *)
Demote(u) ==
    /\ u \in able
    /\ able' = able \ {u}
    /\ UNCHANGED <<state, by, owing>>
    /\ Remember
    /\ UNCHANGED <<rowVars, emitted, acked, workerVars, callVars, faults, turns>>

(* detach commits the removal of a member; stand_down follows. *)
Detach(u) ==
    /\ u \in able
    /\ able' = able \ {u}
    /\ owing' = owing \cup {u}
    /\ UNCHANGED <<state, by>>
    /\ Remember
    /\ UNCHANGED <<rowVars, emitted, acked, workerVars, callVars, faults, turns>>

(* disable_by_creator; an error is only logged. *)
StandDown(u) ==
    /\ u \in owing
    /\ owing' = owing \ {u}
    /\ \/ /\ state' = [h \in Hook |->
                          IF by[h] = u /\ state[h] = "on" THEN "off" ELSE state[h]]
          /\ faults' = faults
       \/ Fault /\ state' = state
    /\ UNCHANGED <<by, able>>
    /\ Remember
    /\ UNCHANGED <<rowVars, emitted, acked, workerVars, callVars, turns>>

(* The creator is promoted, or joins again. *)
Regain(u) ==
    /\ u \notin able
    /\ Turn
    /\ able' = able \cup {u}
    /\ UNCHANGED <<state, by, owing>>
    /\ Remember
    /\ UNCHANGED <<rowVars, emitted, acked, workerVars, callVars, faults>>

(* update_hook: whoever turns a hook on becomes its creator. *)
TurnOn(h, u) ==
    /\ state[h] = "off"
    /\ u \in able
    /\ Turn
    /\ state' = [state EXCEPT ![h] = "on"]
    /\ by' = [by EXCEPT ![h] = u]
    /\ UNCHANGED <<able, owing>>
    /\ Remember
    /\ UNCHANGED <<rowVars, emitted, acked, workerVars, callVars, faults>>

(* delete_hook; its hook_executions rows go with it. *)
Delete(h) ==
    /\ state[h] # "deleted"
    /\ state' = [state EXCEPT ![h] = "deleted"]
    /\ claimed' = {p \in claimed : p[1] # h}
    /\ result' = [p \in Pair |-> IF p[1] = h THEN NoAnswer ELSE result[p]]
    /\ UNCHANGED <<by, able, owing>>
    /\ Remember
    /\ UNCHANGED <<emitted, acked, workerVars, callVars, faults, turns>>

-----------------------------------------------------------------------------
(* A worker: start_hook_consumer, dispatch_delivery, dispatch_hook. *)

Deliver(w, e) ==
    /\ pc[w] = "idle"
    /\ e \in emitted \ acked
    /\ ev' = [ev EXCEPT ![w] = e]
    /\ Goto(w, IF e \in Messages THEN "list" ELSE "ack")
    /\ UNCHANGED <<hookVars, rowVars, emitted, acked, listed, firing, at, attempt,
                   last, callVars, historyVars, faults, turns>>

(* list_active_outgoing_hooks_for_channel; an error lists nothing. *)
List(w) ==
    /\ pc[w] = "list"
    /\ \/ /\ listed' = [listed EXCEPT ![w] =
                            {<<h, by[h]>> : h \in {g \in Hook : state[g] = "on"}}]
          /\ missed' = missed
          /\ faults' = faults
       \/ /\ Fault
          /\ listed' = listed
          /\ missed' = missed \cup {p \in Pair : p[2] = ev[w]}
    /\ Goto(w, "check")
    /\ UNCHANGED <<hookVars, rowVars, emitted, acked, ev, firing, at, attempt, last,
                   callVars, wasOn, wasAble, steady, turns>>

(* hook_still_acting, asked about the creator the list returned. *)
Check(w, h, u) ==
    /\ pc[w] = "check"
    /\ <<h, u>> \in listed[w]
    /\ listed' = [listed EXCEPT ![w] = @ \ {<<h, u>>}]
    /\ \/ /\ u \in able
          /\ firing' = [firing EXCEPT ![w] = @ \cup {h}]
          /\ missed' = missed
          /\ UNCHANGED <<state, faults>>
       \/ /\ u \notin able
          /\ firing' = firing
          /\ missed' = missed
          /\ \/ /\ state' = [state EXCEPT ![h] = IF @ = "on" THEN "off" ELSE @]
                /\ faults' = faults
             \/ Fault /\ state' = state
       \/ /\ Fault
          /\ missed' = missed \cup {<<h, ev[w]>>}
          /\ UNCHANGED <<state, firing>>
    /\ UNCHANGED <<wasOn, wasAble>>
    /\ steady' = {p \in steady : state'[p[1]] = "on"}
    /\ UNCHANGED <<by, able, owing, rowVars, emitted, acked, pc, ev, at, attempt,
                   last, callVars, turns>>

Checked(w) ==
    /\ pc[w] = "check"
    /\ listed[w] = {}
    /\ Goto(w, "fire")
    /\ UNCHANGED <<hookVars, rowVars, emitted, acked, ev, listed, firing, at,
                   attempt, last, callVars, historyVars, faults, turns>>

(* Mutant: a pair that was claimed before ends the dispatch of the others. *)
ClaimOrReturn(w, h) ==
    /\ pc[w] = "fire"
    /\ h \in firing[w]
    /\ state[h] # "deleted"
    /\ \/ /\ <<h, ev[w]>> \notin claimed
          /\ firing' = [firing EXCEPT ![w] = @ \ {h}]
          /\ claimed' = claimed \cup {<<h, ev[w]>>}
          /\ at' = [at EXCEPT ![w] = h]
          /\ Goto(w, "call")
       \/ /\ <<h, ev[w]>> \in claimed
          /\ firing' = [firing EXCEPT ![w] = {}]
          /\ UNCHANGED <<claimed, at, pc>>
    /\ UNCHANGED <<hookVars, result, emitted, acked, ev, listed, attempt, last,
                   callVars, historyVars, faults, turns>>

(* claim_execution: the insert makes a row, finds one, or fails; a failed  *)
(* insert may have been committed.  A hook that is gone fails the insert.  *)
Claim(w, h) ==
    /\ pc[w] = "fire"
    /\ h \in firing[w]
    /\ firing' = [firing EXCEPT ![w] = @ \ {h}]
    /\ \/ /\ state[h] # "deleted"
          /\ <<h, ev[w]>> \notin claimed
          /\ claimed' = claimed \cup {<<h, ev[w]>>}
          /\ at' = [at EXCEPT ![w] = h]
          /\ Goto(w, "call")
          /\ UNCHANGED <<missed, faults>>
       \/ /\ state[h] = "deleted" \/ <<h, ev[w]>> \in claimed
          /\ UNCHANGED <<claimed, at, pc, missed, faults>>
       \/ /\ Fault
          /\ \/ claimed' = claimed
             \/ state[h] # "deleted" /\ claimed' = claimed \cup {<<h, ev[w]>>}
          /\ missed' = missed \cup {<<h, ev[w]>>}
          /\ UNCHANGED <<at, pc>>
    /\ UNCHANGED <<hookVars, result, emitted, acked, ev, listed, attempt, last, callVars, wasOn,
                   wasAble, steady, turns>>

(* The url is missing, or fails validate_outbound_url: nothing is recorded. *)
Skip(w) ==
    /\ pc[w] = "call"
    /\ attempt[w] = 0
    /\ Return(w)
    /\ Goto(w, "fire")
    /\ UNCHANGED <<hookVars, rowVars, emitted, acked, ev, listed, firing, callVars,
                   historyVars, faults, turns>>

(* Mutant: a final answer does not end the attempts. *)
StopsOnlyAtLimit(answer, n) == n = MaxAttempts

StopsAfter(answer, n) == answer \in Final \/ n = MaxAttempts

(* Mutant: an answer that asks for a retry does not count as an attempt. *)
CallUncounted(w, answer) ==
    LET n == attempt[w] + (IF answer = "retry" THEN 0 ELSE 1) IN
    /\ pc[w] = "call"
    /\ attempt' = [attempt EXCEPT ![w] = n]
    /\ last' = [last EXCEPT ![w] = answer]
    /\ calls' = [calls EXCEPT ![<<at[w], ev[w]>>] = @ + 1]
    /\ said' = [said EXCEPT ![<<at[w], ev[w]>>] = answer]
    /\ Goto(w, IF StopsAfter(answer, n) THEN "record" ELSE "call")
    /\ UNCHANGED <<hookVars, rowVars, emitted, acked, ev, listed, firing, at,
                   historyVars, faults, turns>>

(* Mutant: a request that fails keeps the status of the one before. *)
CallKeepsStatus(w, answer) ==
    /\ pc[w] = "call"
    /\ attempt' = [attempt EXCEPT ![w] = @ + 1]
    /\ last' = [last EXCEPT ![w] = IF answer = "lost" THEN @ ELSE answer]
    /\ calls' = [calls EXCEPT ![<<at[w], ev[w]>>] = @ + 1]
    /\ said' = [said EXCEPT ![<<at[w], ev[w]>>] = answer]
    /\ Goto(w, IF StopsAfter(answer, attempt[w] + 1) THEN "record" ELSE "call")
    /\ UNCHANGED <<hookVars, rowVars, emitted, acked, ev, listed, firing, at,
                   historyVars, faults, turns>>

Call(w, answer) ==
    /\ pc[w] = "call"
    /\ attempt' = [attempt EXCEPT ![w] = @ + 1]
    /\ last' = [last EXCEPT ![w] = answer]
    /\ calls' = [calls EXCEPT ![<<at[w], ev[w]>>] = @ + 1]
    /\ said' = [said EXCEPT ![<<at[w], ev[w]>>] = answer]
    /\ Goto(w, IF StopsAfter(answer, attempt[w] + 1) THEN "record" ELSE "call")
    /\ UNCHANGED <<hookVars, rowVars, emitted, acked, ev, listed, firing, at,
                   historyVars, faults, turns>>

(* record_execution_result updates the claimed row, if it is still there. *)
Record(w) ==
    /\ pc[w] = "record"
    /\ \/ /\ result' = [p \in Pair |->
                           IF p = <<at[w], ev[w]>> /\ p \in claimed THEN last[w]
                           ELSE result[p]]
          /\ faults' = faults
       \/ Fault /\ result' = result
    /\ Return(w)
    /\ Goto(w, "fire")
    /\ UNCHANGED <<hookVars, claimed, emitted, acked, ev, listed, firing, callVars,
                   historyVars, turns>>

Dispatched(w) ==
    /\ pc[w] = "fire"
    /\ firing[w] = {}
    /\ Goto(w, "ack")
    /\ UNCHANGED <<hookVars, rowVars, emitted, acked, ev, listed, firing, at,
                   attempt, last, callVars, historyVars, faults, turns>>

(* group.ack: a failed XACK leaves the event to be delivered again. *)
Ack(w) ==
    /\ pc[w] = "ack"
    /\ \/ acked' = acked \cup {ev[w]} /\ faults' = faults
       \/ Fault /\ acked' = acked
    /\ ev' = [ev EXCEPT ![w] = NoEvent]
    /\ Goto(w, "idle")
    /\ UNCHANGED <<hookVars, rowVars, emitted, listed, firing, at, attempt, last,
                   callVars, historyVars, turns>>

(* The worker dies with everything it held and is started again. *)
Crash(w) ==
    /\ pc[w] # "idle"
    /\ Fault
    /\ Goto(w, "idle")
    /\ ev' = [ev EXCEPT ![w] = NoEvent]
    /\ listed' = [listed EXCEPT ![w] = {}]
    /\ firing' = [firing EXCEPT ![w] = {}]
    /\ Return(w)
    /\ UNCHANGED <<hookVars, rowVars, emitted, acked, callVars, historyVars, turns>>

WorkerStep(w) ==
    \/ \E e \in Event : Deliver(w, e)
    \/ List(w)
    \/ \E h \in Hook, u \in User : Check(w, h, u)
    \/ Checked(w)
    \/ \E h \in Hook : Claim(w, h)
    \/ Skip(w)
    \/ \E answer \in Answer : Call(w, answer)
    \/ Record(w)
    \/ Dispatched(w)
    \/ Ack(w)

Next ==
    \/ \E e \in Event : Emit(e)
    \/ \E u \in User : Demote(u) \/ Detach(u) \/ StandDown(u) \/ Regain(u)
    \/ \E h \in Hook, u \in User : TurnOn(h, u)
    \/ \E h \in Hook : Delete(h)
    \/ \E w \in Worker : WorkerStep(w) \/ Crash(w)

Spec == Init /\ [][Next]_vars

-----------------------------------------------------------------------------
(* Properties. *)

TypeOK ==
    /\ state \in [Hook -> {"on", "off", "deleted"}]
    /\ by \in [Hook -> User]
    /\ able \subseteq User
    /\ owing \subseteq User
    /\ claimed \subseteq Pair
    /\ result \in [Pair -> Answer \cup {NoAnswer}]
    /\ emitted \subseteq Event
    /\ acked \subseteq emitted
    /\ pc \in [Worker -> {"idle", "list", "check", "fire", "call", "record", "ack"}]
    /\ ev \in [Worker -> Event \cup {NoEvent}]
    /\ listed \in [Worker -> SUBSET (Hook \X User)]
    /\ firing \in [Worker -> SUBSET Hook]
    /\ at \in [Worker -> Hook \cup {NoHook}]
    /\ attempt \in [Worker -> 0 .. MaxAttempts]
    /\ last \in [Worker -> Answer \cup {NoAnswer}]
    /\ calls \in [Pair -> Nat]
    /\ said \in [Pair -> Answer \cup {NoAnswer}]
    /\ wasOn \subseteq Pair
    /\ wasAble \subseteq Pair
    /\ steady \subseteq Pair
    /\ missed \subseteq Pair
    /\ faults \in 0 .. MaxFaults
    /\ turns \in 0 .. MaxTurns

(* However often an event is delivered, to however many workers, before or *)
(* after a crash, one hook's endpoint is called for it at most MaxAttempts *)
(* times: claim_execution is taken before the first POST and never again.  *)
CallsBounded == \A p \in Pair : calls[p] =< MaxAttempts

(* Once an endpoint has answered 2xx, or refused with a 4xx, no worker     *)
(* calls it again for that event, redelivered or not.                      *)
FinalAnswerIsLast ==
    [][\A p \in Pair : said[p] \in Final => calls'[p] = calls[p]]_vars

(* What hook_executions records of a pair is the answer of the last call   *)
(* ever made for it: no slower worker overwrites it or calls after it.     *)
ResultIsLastAnswer == \A p \in Pair : result[p] # NoAnswer => result[p] = said[p]

(* An endpoint is called for an event only if, since it was posted, the    *)
(* hook was on at some time and its creator was allowed to run it at some  *)
(* time: neither a hook that was off nor one of a demoted creator fires    *)
(* (hooks_to_fire, authz::hook_still_acting).  The two times may differ:   *)
(* the list and the check are separate reads.                              *)
CalledOnlyIfAllowed == \A p \in Pair : calls[p] > 0 => p \in wasOn \cap wasAble

(* An acknowledged message has been claimed for every hook that could run  *)
(* ever since it was posted, unless a failed database call passed it over: *)
(* neither a skip, a redelivery nor another hook's fate loses one.         *)
AckedIsDispatched ==
    \A h \in Hook, e \in acked \cap Messages :
        <<h, e>> \in steady \ missed => <<h, e>> \in claimed

(* A hook is called only if it could run, and one that could run all along *)
(* is not passed over.                                                     *)
DispatchSafety == TypeOK /\ CalledOnlyIfAllowed /\ AckedIsDispatched
=============================================================================
