------------------------------- MODULE Huddle -------------------------------
(***************************************************************************)
(* Who is in a huddle, as the gateway keeps it (ws_handler.rs,             *)
(* connection_manager.rs): a Redis set that is joined through a script,    *)
(* left by SREM and refreshed by heartbeats, a key that says the call has  *)
(* moved to the SFU, and each connection's own subscription.  Joins and    *)
(* leaves are appended to the workspace stream, from which the workers     *)
(* write the call log, and the move to the SFU is broadcast.               *)
(*                                                                         *)
(* Every await is a step of its own: another connection of the same user   *)
(* or another node may run in between.                                     *)
(***************************************************************************)
EXTENDS Integers, FiniteSets

CONSTANTS
    User, Node, Conn,
    UserOf,             \* the user of each connection
    Settings,           \* the deployments considered, see SettingAssumption
    MaxJoins,           \* bound: huddle.join messages in one behaviour
    MaxFaults           \* bound: failed calls, crashes, dropped connections

ASSUME ConnAssumption == UserOf \in [Conn -> User]
(* HUDDLE_MAX_PARTICIPANTS, HUDDLE_SFU_THRESHOLD (-1 where there is no     *)
(* SFU), HUDDLE_SFU_MAX_PARTICIPANTS, and the gateway node that each       *)
(* connection was routed to.                                               *)
ASSUME SettingAssumption ==
    \A s \in Settings :
        /\ s \in [meshMax : Nat, threshold : Int, sfuMax : Nat,
                  nodeOf : [Conn -> Node]]
        /\ s.threshold < s.meshMax /\ s.threshold < s.sfuMax
ASSUME BoundAssumption == MaxJoins \in Nat /\ MaxFaults \in Nat

VARIABLES
    setting,            \* this deployment
    members, sfu,       \* the two Redis keys of the huddle
    conn, sub,          \* each connection; those with the huddle in their record
    pc, got,            \* each handler: next step, and what the script answered
    knows,              \* connections whose client has moved to the SFU
    news,               \* nodes that have yet to deliver huddle.transport
    said,               \* each user's last entry in the workspace stream
    promoted,           \* how many huddle.transport were decided since the key was set
    revived,            \* members a heartbeat put back
    ghosts,             \* users whose leave could not reach the set
    untold,             \* connections that missed huddle.transport
    crossed,            \* users with an entry lost, or a join that crossed a leave
    joins, faults

redisVars == <<setting, members, sfu, promoted, revived>>
connVars == <<conn, sub, pc, got>>
clientVars == <<knows, news, untold>>
huddleVars == <<setting, members, sfu, promoted, revived, conn, sub, pc, got, knows, news,
                untold, said, ghosts, crossed, joins, faults>>

HuddleInit ==
    /\ setting \in Settings
    /\ members = {} /\ sfu = FALSE
    /\ conn = [c \in Conn |-> "open"] /\ sub = {}
    /\ pc = [c \in Conn |-> "idle"] /\ got = [c \in Conn |-> "none"]
    /\ knows = {} /\ news = {}
    /\ promoted = 0 /\ revived = {} /\ ghosts = {} /\ untold = {}
    /\ said = [u \in User |-> "none"] /\ crossed = {}
    /\ joins = 0 /\ faults = 0

Fault == faults < MaxFaults /\ faults' = faults + 1
NoFault == faults' = faults

Goto(c, label) == pc' = [pc EXCEPT ![c] = label]

(* The connections of c's user other than c. *)
Siblings(c) == {d \in Conn \ {c} : UserOf[d] = UserOf[c]}

Joining == {"enter", "joined", "transport", "snapshot"}

NodeOf == setting.nodeOf

Limit == IF sfu THEN setting.sfuMax ELSE setting.meshMax

-----------------------------------------------------------------------------
(* huddle.join *)

(* may_join_huddle.  Who may join, and whether the session is still open,  *)
(* is left to the choice of taking this step.                              *)
Join(c) ==
    /\ pc[c] = "idle"
    /\ joins < MaxJoins /\ joins' = joins + 1
    /\ Goto(c, "script")
    /\ UNCHANGED <<redisVars, conn, sub, got, clientVars, said,
                   ghosts, crossed, faults>>

FullFor(u) == u \notin members /\ Cardinality(members) >= Limit

Promotes(u) ==
    /\ ~sfu
    /\ setting.threshold >= 0
    /\ Cardinality(members \cup {u}) > setting.threshold

(* huddle_redis_try_join, one atomic script; a Redis error counts as a     *)
(* join on the mesh, of somebody who is no member before the next beat.    *)
TryJoin(c) ==
    /\ pc[c] = "script"
    /\ LET u == UserOf[c] IN
       \/ /\ FullFor(u)
          /\ Goto(c, "idle") /\ NoFault
          /\ UNCHANGED <<redisVars, got>>
       \/ /\ ~FullFor(u)
          /\ members' = members \cup {u}
          /\ sfu' = (sfu \/ Promotes(u))
          /\ promoted' = promoted + IF Promotes(u) THEN 1 ELSE 0
          /\ got' = [got EXCEPT ![c] = IF Promotes(u) THEN "promoted"
                                       ELSE IF sfu THEN "sfu" ELSE "mesh"]
          /\ Goto(c, "enter") /\ NoFault
          /\ UNCHANGED <<setting, revived>>
       \/ /\ Fault
          /\ got' = [got EXCEPT ![c] = "mesh"]
          /\ Goto(c, "enter")
          /\ UNCHANGED redisVars
    /\ untold' = IF faults' # faults THEN untold \cup {c} ELSE untold
    /\ crossed' = IF faults' # faults \/ \E d \in Siblings(c) : pc[d] \in {"srem", "left"}
                  THEN crossed \cup {UserOf[c]} ELSE crossed
    /\ UNCHANGED <<conn, sub, knows, news, said, ghosts, joins>>

(* join_huddle finds no record once the connection has been dropped. *)
Enter(c) ==
    /\ pc[c] = "enter"
    /\ \/ /\ conn[c] = "open"
          /\ sub' = sub \cup {c}
          /\ UNCHANGED <<ghosts, crossed>>
       \/ /\ conn[c] = "dropped"
          /\ ghosts' = ghosts \cup {UserOf[c]} /\ crossed' = crossed \cup {UserOf[c]}
          /\ UNCHANGED sub
    /\ Goto(c, "joined")
    /\ UNCHANGED <<redisVars, conn, got, clientVars, said, joins, faults>>

(* publish_huddle for a join or a leave: the entry goes to the stream      *)
(* unless the session lookup or XADD fails, and the handler goes on.       *)
Publish(kind, c) ==
    \/ /\ said' = [said EXCEPT ![UserOf[c]] = kind]
       /\ NoFault /\ UNCHANGED crossed
    \/ Fault /\ said' = said /\ crossed' = crossed \cup {UserOf[c]}

PublishJoined(c) ==
    /\ pc[c] = "joined"
    /\ Publish("joined", c)
    /\ Goto(c, IF got[c] = "promoted" THEN "transport" ELSE "snapshot")
    /\ UNCHANGED <<redisVars, conn, sub, got, clientVars, ghosts, joins>>

(* The promotion is published to every node once. *)
PublishTransport(c) ==
    /\ pc[c] = "transport"
    /\ \/ news' = Node /\ NoFault /\ UNCHANGED untold
       \/ Fault /\ news' = news /\ untold' = Conn
    /\ Goto(c, "snapshot")
    /\ UNCHANGED <<redisVars, conn, sub, got, knows, said, ghosts,
                   crossed, joins>>

(* broadcast_to_huddle on one node: the connections subscribed right then. *)
DeliverTransport(n) ==
    /\ n \in news
    /\ news' = news \ {n}
    /\ LET here == {c \in Conn : NodeOf[c] = n} IN
       /\ knows' = knows \cup (here \cap sub)
       /\ untold' = untold \cup {c \in here : pc[c] = "enter"}
    /\ UNCHANGED <<redisVars, connVars, said, ghosts, crossed, joins,
                   faults>>

(* A client that has joined and not left listens to the snapshot. *)
Listening(c) == c \in sub \/ pc[c] \in Joining

(* huddle.members, to the user's connections on this node, with the        *)
(* transport the script answered.                                          *)
Snapshot(c) ==
    /\ pc[c] = "snapshot"
    /\ knows' = IF got[c] = "mesh" THEN knows
                ELSE knows \cup {d \in Siblings(c) \cup {c} :
                                    /\ NodeOf[d] = NodeOf[c]
                                    /\ conn[d] = "open" /\ Listening(d)}
    /\ got' = [got EXCEPT ![c] = "none"]
    /\ Goto(c, "idle")
    /\ UNCHANGED <<redisVars, conn, sub, news, untold, said, ghosts, crossed, joins,
                   faults>>

-----------------------------------------------------------------------------
(* huddle.leave and the end of a connection *)

Forget(c) == knows' = knows \ {c} /\ untold' = untold \ {c}

(* huddle.leave: the huddle goes from the connection's record, if it has   *)
(* one.  A client says so while it believes to be in the call.             *)
Leave(c) ==
    /\ pc[c] = "idle"
    /\ c \in sub \/ conn[c] = "dropped"
    /\ sub' = sub \ {c}
    /\ Forget(c)
    /\ Goto(c, "check")
    /\ UNCHANGED <<redisVars, conn, got, news, said, ghosts, crossed, joins, faults>>

(* Mutant: the connection is removed before its huddles are read. *)
CloseForgets(c) ==
    /\ pc[c] = "idle"
    /\ c \in sub \/ conn[c] = "dropped"
    /\ sub' = sub \ {c} /\ conn' = [conn EXCEPT ![c] = "open"]
    /\ Forget(c)
    /\ UNCHANGED <<redisVars, pc, got, news, said, ghosts, crossed, joins, faults>>

(* cleanup when the socket closes: the huddles are read from the record,   *)
(* and a connection that was dropped has none.  From here c stands for the *)
(* client's next connection.  A close outside the call changes nothing.    *)
Close(c) ==
    /\ pc[c] = "idle"
    /\ c \in sub \/ conn[c] = "dropped"
    /\ sub' = sub \ {c} /\ conn' = [conn EXCEPT ![c] = "open"]
    /\ Forget(c)
    /\ Goto(c, IF c \in sub THEN "check" ELSE "idle")
    /\ UNCHANGED <<redisVars, got, news, said, ghosts, crossed, joins, faults>>

(* drop_dead_connection: a fan-out removes the record, the handler lives on. *)
Drop(c) ==
    /\ conn[c] = "open"
    /\ Fault
    /\ conn' = [conn EXCEPT ![c] = "dropped"]
    /\ sub' = sub \ {c}
    /\ Forget(c)
    /\ LET lost == IF c \in sub THEN {UserOf[c]} ELSE {} IN
       ghosts' = ghosts \cup lost /\ crossed' = crossed \cup lost
    /\ UNCHANGED <<redisVars, pc, got, news, said, joins>>

(* user_in_huddle_local looks at the connections of this node only.  It    *)
(* misses one on another node and one whose join has not reached its       *)
(* record yet.                                                             *)
CheckLocal(c) ==
    /\ pc[c] = "check"
    /\ Goto(c, IF \E d \in sub : UserOf[d] = UserOf[c] /\ NodeOf[d] = NodeOf[c]
               THEN "idle" ELSE "srem")
    /\ crossed' = IF \E d \in Siblings(c) :
                        \/ pc[d] = "enter"
                        \/ NodeOf[d] # NodeOf[c] /\ Listening(d)
                  THEN crossed \cup {UserOf[c]} ELSE crossed
    /\ UNCHANGED <<redisVars, conn, sub, got, clientVars, said, ghosts, joins, faults>>

(* huddle_redis_leave: only the caller that removed the member publishes;  *)
(* an error counts as a removal.                                           *)
SRem(c) ==
    /\ pc[c] = "srem"
    /\ LET u == UserOf[c] IN
       \/ /\ members' = members \ {u} /\ revived' = revived \ {u}
          /\ Goto(c, IF u \in members THEN "left" ELSE "idle")
          /\ ghosts' = ghosts \ {u} /\ NoFault
       \/ /\ Fault
          /\ Goto(c, "left")
          /\ ghosts' = ghosts \cup {u}
          /\ UNCHANGED <<members, revived>>
    /\ UNCHANGED <<setting, sfu, promoted, conn, sub, got, clientVars, said, crossed,
                   joins>>

PublishLeft(c) ==
    /\ pc[c] = "left"
    /\ Publish("left", c)
    /\ Goto(c, "idle")
    /\ UNCHANGED <<redisVars, conn, sub, got, clientVars, ghosts, joins>>

(* Mutant: the heartbeat only renews the keys' time to live. *)
HeartbeatExpireOnly(c) ==
    /\ FALSE
    /\ UNCHANGED huddleVars

(* huddle_redis_refresh_conn: SADD again, whatever the cap.  A beat that   *)
(* changes nothing is a stuttering step.                                   *)
Heartbeat(c) ==
    /\ pc[c] = "idle" /\ c \in sub
    /\ UserOf[c] \notin members
    /\ members' = members \cup {UserOf[c]}
    /\ revived' = revived \cup {UserOf[c]}
    /\ UNCHANGED <<setting, sfu, promoted, connVars, clientVars, said, ghosts,
                   crossed, joins, faults>>

(* Both keys live for HUDDLE_TTL_SECS, four heartbeats: they go only when  *)
(* nobody beats and nobody is about to.                                    *)
Expire ==
    /\ members # {} \/ sfu
    /\ sub = {} /\ \A c \in Conn : pc[c] = "idle"
    /\ members' = {} /\ sfu' = FALSE /\ promoted' = 0 /\ revived' = {}
    /\ ghosts' = {}
    /\ UNCHANGED <<setting, connVars, clientVars, said, crossed, joins, faults>>

(* A gateway node dies with its connections; no handler cleans up.  The    *)
(* clients come back as new connections.                                   *)
NodeCrash(n) ==
    LET here == {c \in Conn : NodeOf[c] = n}
        lost == {UserOf[c] : c \in {d \in here : d \in sub \/ pc[d] # "idle"}}
    IN
    /\ \E c \in here : c \in sub \/ pc[c] # "idle"
    /\ Fault
    /\ conn' = [c \in Conn |-> IF c \in here THEN "open" ELSE conn[c]]
    /\ pc' = [c \in Conn |-> IF c \in here THEN "idle" ELSE pc[c]]
    /\ got' = [c \in Conn |-> IF c \in here THEN "none" ELSE got[c]]
    /\ sub' = sub \ here
    /\ news' = news \ {n}
    /\ knows' = knows \ here
    /\ untold' = IF \E c \in here : got[c] = "promoted"
                 THEN Conn ELSE untold \ here
    /\ ghosts' = ghosts \cup lost /\ crossed' = crossed \cup lost
    /\ UNCHANGED <<redisVars, said, joins>>

-----------------------------------------------------------------------------
HandlerStep(c) ==
    \/ TryJoin(c) \/ Enter(c) \/ PublishJoined(c) \/ PublishTransport(c) \/ Snapshot(c)
    \/ CheckLocal(c) \/ SRem(c) \/ PublishLeft(c)

HuddleNext ==
    \/ \E c \in Conn :
        HandlerStep(c) \/ Join(c) \/ Leave(c) \/ Close(c) \/ Drop(c) \/ Heartbeat(c)
    \/ \E n \in Node : DeliverTransport(n) \/ NodeCrash(n)
    \/ Expire

(* Handlers run on, heartbeats come while a connection lives, and what     *)
(* Redis published is delivered.  Nobody has to join, leave or fail.       *)
HuddleFairness ==
    /\ \A c \in Conn : WF_huddleVars(HandlerStep(c)) /\ WF_huddleVars(Heartbeat(c))
    /\ \A n \in Node : WF_huddleVars(DeliverTransport(n))

HuddleSpec == HuddleInit /\ [][HuddleNext]_huddleVars /\ HuddleFairness

-----------------------------------------------------------------------------
(* Every variable stays in its domain; only open connections are subscribed. *)
HuddleTypeOK ==
    /\ setting \in Settings
    /\ members \subseteq User /\ revived \subseteq User
    /\ ghosts \subseteq User /\ crossed \subseteq User
    /\ sfu \in BOOLEAN
    /\ promoted \in Nat
    /\ conn \in [Conn -> {"open", "dropped"}]
    /\ sub \subseteq {c \in Conn : conn[c] = "open"}
    /\ pc \in [Conn -> {"idle", "script", "check", "srem", "left"} \cup Joining]
    /\ got \in [Conn -> {"none", "mesh", "sfu", "promoted"}]
    /\ knows \subseteq Conn /\ untold \subseteq Conn /\ news \subseteq Node
    /\ said \in [User -> {"none", "joined", "left"}]
    /\ joins \in 0..MaxJoins /\ faults \in 0..MaxFaults

(* A huddle holds at most the participants its transport allows, except    *)
(* for those a heartbeat put back after they had been taken out            *)
(* (huddle_redis_try_join against huddle_redis_refresh_conn).              *)
CapHolds == Cardinality(members \ revived) <= Limit

(* Two people who join at the threshold move the huddle once: the script   *)
(* decides a promotion at most once while the transport key lives.         *)
PromotedOnce == promoted <= 1

QuietGateway == \A c \in Conn : pc[c] = "idle"
OnCall(u) == \E c \in sub : UserOf[c] = u

(* When every handler is done, a member has a connection in the call:      *)
(* leaving and closing take the user out exactly when the last connection  *)
(* of the node goes.  Not so after an error of SREM, the death of a node   *)
(* or a connection that a full queue dropped.                              *)
NoGhostMember ==
    QuietGateway => \A u \in members \ ghosts : OnCall(u)

(* When every handler is done, the last entry the stream holds for a user  *)
(* says whether the user is in the call: the call log is written from      *)
(* these.  Not so for a user with an entry or a join script that failed,   *)
(* with a connection that was dropped or died, or whose leave on one       *)
(* connection crossed a join on another.                                   *)
StreamTellsTheCall ==
    QuietGateway => \A u \in User \ crossed : OnCall(u) <=> said[u] = "joined"

(* Once the promotion has been delivered everywhere, everyone in a huddle  *)
(* on the SFU was told, by huddle.transport or by the snapshot.  Not so    *)
(* for a join that was between the script and its subscription when        *)
(* huddle.transport passed, or when a call to Redis failed.                *)
TransportIsKnown ==
    QuietGateway /\ news = {} /\ sfu => sub \subseteq knows \cup untold

(* A connection in the call is in the member set again, or leaves: what a  *)
(* race took out of the set, a heartbeat puts back.                        *)
MembershipHeals ==
    \A c \in Conn : c \in sub ~> (c \notin sub \/ UserOf[c] \in members)

(* The script's two decisions, the cap and the single move to the SFU,     *)
(* hold whatever the order in which people join and leave, and the member  *)
(* set, the stream and the clients' transport agree with who is in the     *)
(* call.                                                                   *)
HuddleSafety ==
    /\ HuddleTypeOK /\ CapHolds /\ PromotedOnce
    /\ NoGhostMember /\ StreamTellsTheCall /\ TransportIsKnown
=============================================================================
