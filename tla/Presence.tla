------------------------------ MODULE Presence ------------------------------
(* How the others of a workspace see one person (realtime/src/             *)
(* connection_manager.rs, ws_handler.rs, event_consumer.rs and             *)
(* api/src/profile/presence.rs).  Redis keeps a roster for each workspace, *)
(* the moment of the person's last activity and the status announced last; *)
(* every connection of theirs, on whichever node, works the status out     *)
(* when it connects, at each frame of activity and at each heartbeat, and  *)
(* announces it when it differs.                                           *)
(*                                                                         *)
(* A command to Redis is a step.  The two reads a status is worked out     *)
(* from are one, and so are the writes to keys that nobody reads together: *)
(* what matters is what happens between the reads and the SET, and between *)
(* the SET and the PUBLISH.                                                *)
EXTENDS Naturals, FiniteSets

CONSTANTS
    Link,             \* the person's connections, each of them opened once
    Node,             \* the gateways, each with its event consumer
    Placements,       \* on which node each connection is, a choice of these
    PresenceBudgets   \* bounds, of which a behaviour has one: changes of
                      \* manual_away, frames the clients send, changes of
                      \* the membership, faults

ASSUME PresenceAssumption ==
    /\ IsFiniteSet(Link) /\ IsFiniteSet(Node) /\ Link \cap Node = {}
    /\ Placements \subseteq [Link -> Node]
    /\ PresenceBudgets \subseteq
           [toggles : Nat, frames : Nat, moves : Nat, faults : Nat]

VARIABLES
    place,      \* the node of each connection
    belongs,    \* the person's row in workspace_members
    roster,     \* presence:ws, an entry whose score is still ahead
    seen,       \* last_active:user, "recent" for eight minutes
    away,       \* users.manual_away
    status,     \* presence:status
    heard,      \* the status in the last presence.changed the others got
    life,       \* [Link -> off, here (registered), dropped, gone]
    lists,      \* [Link -> is the workspace in its presence_workspaces]
    active,     \* [Link -> InboundState.active]
    inbox,      \* [Node -> events its consumer has not taken]
    pc, doing,  \* each handler's and consumer's step, and what it is at
    saw,        \* the status each has worked out
    mishaps,    \* history: what the properties make an exception of
    left        \* what remains of the budget

presenceVars == <<place, belongs, roster, seen, away, status, heard, life,
                  lists, active, inbox, pc, doing, saw, mishaps, left>>

Runner == Link \cup Node
Shown == {"online", "away", "offline"}
Mishap == {"overlap", "raced", "dropped", "lost", "crash", "unlisted", "new"}

PresenceTypeOK ==
    /\ place \in Placements /\ belongs \in BOOLEAN /\ roster \in BOOLEAN
    /\ seen \in {"none", "recent", "idle"} /\ away \in BOOLEAN
    /\ status \in Shown \cup {"none"} /\ heard \in Shown
    /\ life \in [Link -> {"off", "here", "dropped", "gone"}]
    /\ lists \in [Link -> BOOLEAN] /\ active \in [Link -> BOOLEAN]
    /\ inbox \in [Node -> SUBSET {"recompute", "removed"}]
    /\ pc \in [Runner -> {"idle", "show", "look", "settle", "tell", "clear"}]
    /\ doing \in [Runner -> {"sync", "beat", "connect", "subscribe", "leave"}]
    /\ saw \in [Runner -> Shown] /\ mishaps \subseteq Mishap
    /\ left \in [toggles : Nat, frames : Nat, moves : Nat, faults : Nat]

PresenceInit ==
    /\ place \in Placements /\ left \in PresenceBudgets
    /\ belongs \in BOOLEAN /\ roster = FALSE /\ away = FALSE
    /\ seen \in {"none", "idle"}
    /\ status \in {"none", "offline"} /\ heard = "offline"
    /\ life = [c \in Link |-> "off"]
    /\ lists = [c \in Link |-> FALSE] /\ active = [c \in Link |-> FALSE]
    /\ inbox = [n \in Node |-> {}]
    /\ pc = [t \in Runner |-> "idle"] /\ doing = [t \in Runner |-> "sync"]
    /\ saw = [t \in Runner |-> "offline"]
    /\ mishaps = {}

Pays(what) == left[what] > 0 /\ left' = [left EXCEPT ![what] = @ - 1]

Running(c) == life[c] \in {"here", "dropped"}
HasLocal(n) == \E c \in Link : life[c] = "here" /\ place[c] = n
Nobody == \A c \in Link : ~Running(c)

(* What presence_of_connected makes of the two stores. *)
WorkedOut == IF away \/ seen # "recent" THEN "away" ELSE "online"

keys == <<roster, seen, status>>
people == <<place, belongs, away>>
links == <<life, lists, active>>

Goes(t, step, what) ==
    /\ pc' = [pc EXCEPT ![t] = step]
    /\ doing' = [doing EXCEPT ![t] = what]

Ends(t) == Goes(t, "idle", "sync") /\ saw' = [saw EXCEPT ![t] = "offline"]

-----------------------------------------------------------------------------
(* A connection.  Its handler does one thing at a time. *)

(* handle_ws: add_connection and user_workspace_ids, which is empty when   *)
(* the query fails.                                                        *)
Connect(c) ==
    /\ life[c] = "off"
    /\ life' = [life EXCEPT ![c] = "here"]
    /\ \/ lists' = [lists EXCEPT ![c] = belongs] /\ UNCHANGED left
       \/ Pays("faults") /\ UNCHANGED lists
    /\ Goes(c, "show", "connect")
    /\ UNCHANGED <<people, keys, active, heard, inbox, saw, mishaps>>

(* A subscribe frame, once the membership is found. *)
Subscribe(c) ==
    /\ Running(c) /\ pc[c] = "idle" /\ belongs /\ Pays("frames")
    /\ Goes(c, "show", "subscribe")
    /\ mishaps' = mishaps \ {"new"}
    /\ UNCHANGED <<people, keys, links, heard, inbox, saw>>

(* The heartbeat's tick: every thirty seconds, against scores of sixty. *)
Beat(c) ==
    /\ Running(c) /\ pc[c] = "idle"
    /\ Goes(c, "show", "beat")
    /\ UNCHANGED <<people, keys, links, heard, inbox, saw, mishaps, left>>

(* An activity frame: activity_set, then presence_sync. *)
Report(c, now) ==
    /\ Running(c) /\ pc[c] = "idle" /\ active[c] # now
    /\ Pays("frames")
    /\ active' = [active EXCEPT ![c] = now]
    /\ seen' = IF now THEN "recent" ELSE seen
    /\ Goes(c, "look", "sync")
    /\ UNCHANGED <<people, roster, status, life, lists, heard, inbox, saw, mishaps>>

(* The workspaces presence_set_online and presence_refresh are given: the  *)
(* handler's list, to which subscribe adds the one it names.               *)
Renews(c) == lists[c] \/ doing[c] = "subscribe"

(* presence_arrived sets the last activity if there is none, and           *)
(* renew_activity sets it for a connection that is active.                 *)
Marks(c) == IF doing[c] = "beat" THEN active[c] ELSE seen = "none"

AfterShow(c) == "look"

(* presence_set_online or presence_refresh, presence_arrived or            *)
(* renew_activity; then the status is worked out.                          *)
Show(c) ==
    /\ pc[c] = "show"
    /\ lists' = [lists EXCEPT ![c] = @ \/ doing[c] = "subscribe"]
    /\ roster' = (roster \/ Renews(c))
    /\ seen' = IF Marks(c) THEN "recent" ELSE seen
    /\ Goes(c, AfterShow(c), doing[c])
    /\ UNCHANGED <<people, status, life, active, heard, inbox, saw, mishaps, left>>

(* cleanup.  remove_connection finds nothing of a connection that fan-out  *)
(* dropped, and then the rest is not done.                                 *)
Leave(c) ==
    /\ Running(c) /\ pc[c] = "idle"
    /\ life' = [life EXCEPT ![c] = "gone"]
    /\ LET last == \A d \in Link \ {c} : life[d] = "here" => place[d] # place[c]
       IN  IF life[c] = "here" /\ last THEN Goes(c, "clear", "leave")
           ELSE UNCHANGED <<pc, doing>>
    /\ UNCHANGED <<people, keys, lists, active, heard, inbox, saw, mishaps, left>>

(* Mutant: presence_clear is left to the score. *)
RosterLeft(c) == roster

(* presence_clear: the person leaves the rosters the connection listed,    *)
(* whatever connections they have elsewhere.                               *)
RosterCleared(c) == roster /\ ~lists[c]

(* presence_clear, then presence_settle with Offline unless it failed. *)
Clear(c) ==
    /\ pc[c] = "clear"
    /\ \/ /\ roster' = RosterCleared(c)
          /\ saw' = [saw EXCEPT ![c] = "offline"]
          /\ mishaps' = mishaps \cup {m \in {"unlisted"} : roster /\ ~lists[c]}
          /\ Goes(c, "settle", "leave") /\ UNCHANGED left
       \/ /\ Pays("faults") /\ mishaps' = mishaps \cup {"lost"}
          /\ Ends(c) /\ UNCHANGED roster
    /\ UNCHANGED <<people, seen, status, links, heard, inbox>>

-----------------------------------------------------------------------------
(* presence_sync and presence_settle, of handlers and consumers alike. *)

(* presence_of_connected; subscribe takes a person the roster has lost     *)
(* again for online.                                                       *)
Look(t) ==
    /\ pc[t] = "look"
    /\ saw' = [saw EXCEPT ![t] =
                   IF doing[t] = "subscribe" /\ ~roster THEN "online" ELSE WorkedOut]
    /\ Goes(t, "settle", doing[t])
    /\ UNCHANGED <<people, keys, links, heard, inbox, mishaps, left>>

(* SET ... GET finds another status than the one it writes. *)
Changes(t) == status # saw[t]

Others(t, step) == \E o \in Runner \ {t} : pc[o] = step

(* presence_settle.  A SET that fails counts as a change, whether or not   *)
(* Redis carried it out.  Subscribe announces in any case.                 *)
Settle(t) ==
    /\ pc[t] = "settle"
    /\ \/ status' = saw[t] /\ UNCHANGED left
       \/ Pays("faults") /\ status' \in {status, saw[t]}
    /\ IF Changes(t) \/ left' # left \/ doing[t] = "subscribe"
       THEN Goes(t, "tell", doing[t]) /\ UNCHANGED saw
       ELSE Ends(t)
    /\ mishaps' = mishaps
           \cup (IF Others(t, "tell") THEN {"overlap"} ELSE {})
           \cup (IF t \in Node /\ ~HasLocal(t) THEN {"raced"} ELSE {})
           \cup (IF left' # left THEN {"lost"} ELSE {})
    /\ UNCHANGED <<people, roster, seen, links, heard, inbox>>

(* publish_presence, to the workspaces the person is in now. *)
Tell(t) ==
    /\ pc[t] = "tell"
    /\ \/ heard' = (IF belongs THEN saw[t] ELSE heard) /\ UNCHANGED <<mishaps, left>>
       \/ Pays("faults") /\ mishaps' = mishaps \cup {"lost"} /\ UNCHANGED heard
    /\ Ends(t)
    /\ UNCHANGED <<people, keys, links, inbox>>

-----------------------------------------------------------------------------
(* A node's event consumer. *)

(* presence.recompute, taken by a node that holds one of the sockets. *)
Recompute(n) ==
    /\ pc[n] = "idle" /\ "recompute" \in inbox[n]
    /\ inbox' = [inbox EXCEPT ![n] = @ \ {"recompute"}]
    /\ IF HasLocal(n) THEN Goes(n, "look", "sync") ELSE UNCHANGED <<pc, doing>>
    /\ UNCHANGED <<people, keys, links, heard, saw, mishaps, left>>

(* workspace.member_removed: presence_leave_workspace.  The handlers keep  *)
(* the workspace in their lists.                                           *)
LeaveWorkspace(n) ==
    /\ pc[n] = "idle" /\ "removed" \in inbox[n]
    /\ inbox' = [inbox EXCEPT ![n] = @ \ {"removed"}]
    /\ roster' = FALSE
    /\ UNCHANGED <<people, seen, status, links, heard, pc, doing, saw, mishaps, left>>

Announced(what) == [n \in Node |-> inbox[n] \cup {what}]

-----------------------------------------------------------------------------
(* The API, the clock and what goes wrong. *)

(* set_away and toggle_away, and the event announce publishes. *)
ToggleAway ==
    /\ Pays("toggles") /\ away' = ~away
    /\ inbox' = Announced("recompute")
    /\ UNCHANGED <<place, belongs, keys, links, heard, pc, doing, saw, mishaps>>

(* What Membership does in full: the person joins, or is removed. *)
JoinMember ==
    /\ ~belongs /\ Pays("moves")
    /\ belongs' = TRUE /\ mishaps' = mishaps \cup {"new"}
    /\ UNCHANGED <<place, away, keys, links, heard, inbox, pc, doing, saw>>

RemoveMember ==
    /\ belongs /\ Pays("moves")
    /\ belongs' = FALSE
    /\ inbox' = Announced("removed")
    /\ UNCHANGED <<place, away, keys, links, heard, pc, doing, saw, mishaps>>

(* AWAY_AFTER_IDLE_SECS: longer than any number of missed heartbeats of a  *)
(* connection that lives.                                                  *)
GrowIdle ==
    /\ seen = "recent" /\ \A c \in Link : Running(c) => ~active[c]
    /\ seen' = "idle"
    /\ UNCHANGED <<people, roster, status, links, heard, inbox, pc, doing, saw,
                   mishaps, left>>

(* The score passes, and the next reader trims the entry. *)
Expire ==
    /\ roster /\ \A c \in Link : ~(Running(c) /\ lists[c])
    /\ roster' = FALSE
    /\ UNCHANGED <<people, seen, status, links, heard, inbox, pc, doing, saw,
                   mishaps, left>>

(* enqueue finds the queue full: the connection is unregistered under its  *)
(* handler.                                                                *)
DropLink(c) ==
    /\ life[c] = "here" /\ Pays("faults")
    /\ life' = [life EXCEPT ![c] = "dropped"]
    /\ mishaps' = mishaps \cup {"dropped"}
    /\ UNCHANGED <<people, keys, lists, active, heard, inbox, pc, doing, saw>>

(* A node dies, with its handlers, its consumer and what it had heard. *)
Crash(n) ==
    /\ Pays("faults")
    /\ LET dead == {n} \cup {c \in Link : place[c] = n}
       IN  /\ life' = [c \in Link |-> IF c \in dead /\ Running(c) THEN "gone" ELSE life[c]]
           /\ pc' = [t \in Runner |-> IF t \in dead THEN "idle" ELSE pc[t]]
           /\ doing' = [t \in Runner |-> IF t \in dead THEN "sync" ELSE doing[t]]
           /\ saw' = [t \in Runner |-> IF t \in dead THEN "offline" ELSE saw[t]]
           /\ mishaps' = mishaps \cup {"crash"}
                  \cup {m \in {"lost"} : \E t \in dead :
                             pc[t] = "tell" \/ doing[t] = "subscribe"}
    /\ inbox' = [inbox EXCEPT ![n] = {}]
    /\ UNCHANGED <<people, keys, lists, active, heard>>

RunnerStep(t) == Look(t) \/ Settle(t) \/ Tell(t)
LinkStep(c) == Show(c) \/ Clear(c) \/ RunnerStep(c)
ConsumerStep(n) == Recompute(n) \/ LeaveWorkspace(n) \/ RunnerStep(n)

PresenceNext ==
    \/ \E c \in Link :
           \/ Connect(c) \/ Subscribe(c) \/ Beat(c) \/ Leave(c) \/ DropLink(c)
           \/ LinkStep(c) \/ \E now \in BOOLEAN : Report(c, now)
    \/ \E n \in Node : ConsumerStep(n) \/ Crash(n)
    \/ ToggleAway \/ JoinMember \/ RemoveMember \/ GrowIdle \/ Expire

(* Handlers and consumers go on with what they have begun, heartbeats tick *)
(* and scores pass.  Nobody has to connect, or to leave.                   *)
PresenceFairness ==
    /\ \A c \in Link : WF_presenceVars(LinkStep(c) \/ Beat(c))
    /\ \A n \in Node : WF_presenceVars(ConsumerStep(n))
    /\ WF_presenceVars(Expire)

-----------------------------------------------------------------------------
(* Properties. *)

(* What the others were told last is the status Redis keeps: SET ... GET   *)
(* lets one of those who notice a change announce it, and subscribe tells  *)
(* a workspace the person has joined since.  The exceptions are two        *)
(* announcements that overlap, which Redis may take in the other order (a  *)
(* later heartbeat finds the status unchanged and announces nothing), a    *)
(* failed command, a node that dies before it announces, and a workspace   *)
(* the person has left.                                                    *)
SettledIsTold ==
    /\ belongs /\ status # "none" /\ mishaps \cap {"overlap", "lost", "new"} = {}
    /\ \A t \in Runner : pc[t] # "tell" /\ doing[t] # "subscribe"
    => heard = status

(* When the last connection has been cleaned up the person is offline and  *)
(* out of the roster, unless it was dropped or its node died, so that      *)
(* nobody cleaned up; the clearing failed; a consumer that had found the   *)
(* connection wrote the status it had worked out after the cleanup; or the *)
(* last connection to go was opened before the person was in the workspace *)
(* and never subscribed to it, in which case the score has to pass.        *)
GoneIsOffline ==
    /\ Nobody /\ \E c \in Link : life[c] = "gone"
    /\ \A t \in Runner : pc[t] = "idle"
    => \/ ~roster /\ status = "offline"
       \/ mishaps \cap {"dropped", "crash", "lost", "raced", "unlisted"} # {}

(* The roster heals: a member with a connection that lists the workspace   *)
(* comes to be in it and stays, also when the last connection of another   *)
(* node cleared them out or a node died; a person without connections      *)
(* comes to be out of it.  Of somebody who was removed but is connected    *)
(* nothing is said: the removal takes them out and the next heartbeat puts *)
(* them back.                                                              *)
RosterHeals ==
    <>[](belongs \/ Nobody
            => (roster <=> \E c \in Link : Running(c) /\ lists[c]))

(* The status heals: it comes to be what the activity and manual_away of a *)
(* connected person amount to, whatever stale one was written meanwhile.   *)
StatusHeals == <>[](Nobody \/ status = WorkedOut)

(* What others were told is what is kept, and somebody who left is gone.   *)
PresenceSafety == PresenceTypeOK /\ SettledIsTold /\ GoneIsOffline
=============================================================================
