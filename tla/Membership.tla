----------------------------- MODULE Membership -----------------------------
(* One person's memberships of a workspace and its channels, as the API    *)
(* writes them (api/src/workspace), and what the gateway still sends their *)
(* sockets (realtime/src/ws_handler.rs, connection_manager.rs).  A socket  *)
(* hears a topic, a channel or the workspace itself, because it once asked *)
(* and its owner was a member then; removal has to reach in and drop the   *)
(* subscription, by an event of the outbox that comes when it comes, in    *)
(* any order and perhaps twice.                                            *)
(*                                                                         *)
(* A database row is a member of rows; the check a handler makes and the   *)
(* write it makes later are two steps.                                     *)
EXTENDS Naturals, FiniteSets

CONSTANTS
    Ws,            \* the workspace, as a topic
    Channel,       \* its channels
    Default,       \* those everybody is put in (channels.is_default)
    Conversation,  \* those of channel_type dm and group_dm
    Socket,        \* the person's connections, each on a gateway of its own
    Request,       \* requests that add them to a channel
    MaxRemovals,   \* bound: removals of the person, of either kind
    MaxDrops       \* bound: sockets that close

ASSUME MembershipAssumption ==
    /\ Ws \notin Channel
    /\ Default \subseteq Channel /\ Conversation \subseteq Channel
    /\ Default \cap Conversation = {}
    /\ IsFiniteSet(Channel) /\ IsFiniteSet(Socket)
    /\ MaxRemovals \in Nat /\ MaxDrops \in Nat

Topic == Channel \cup {Ws}

VARIABLES
    rows,       \* workspace_members and channel_members of the person
    departed,   \* conversation_departures
    adding,     \* [Request -> the channels it is about to add them to]
    notices,    \* [Socket -> removals its gateway has not handled for good]
    known,      \* [Socket -> joinedChannels of the client (lib/ws.ts)]
    asked,      \* [Socket -> topics of frames the gateway has not read]
    joining,    \* [Socket -> topics found allowed, not subscribed yet]
    subs,       \* [Socket -> subscribed_channels and subscribed_workspaces]
    open,       \* [Socket -> BOOLEAN]
    removals, drops,
    straddled,  \* history: an addition was between check and write at a detach
    crossed,    \* history: [Socket -> topics whose removal met a join halfway]
    cut         \* history: [Socket -> topics a removal or a refusal took]

memberVars == <<rows, departed, adding, notices, known, asked, joining, subs,
                open, removals, drops, straddled, crossed, cut>>

MembershipTypeOK ==
    /\ rows \subseteq Topic /\ departed \subseteq Conversation
    /\ adding \in [Request -> SUBSET Channel]
    /\ notices \in [Socket -> SUBSET Topic] /\ known \in [Socket -> SUBSET Topic]
    /\ asked \in [Socket -> SUBSET Topic] /\ joining \in [Socket -> SUBSET Topic]
    /\ subs \in [Socket -> SUBSET Topic]
    /\ crossed \in [Socket -> SUBSET Topic] /\ cut \in [Socket -> SUBSET Topic]
    /\ open \in [Socket -> BOOLEAN]
    /\ removals \in 0..MaxRemovals /\ drops \in 0..MaxDrops
    /\ straddled \subseteq Channel

Nothing == [k \in Socket |-> {}]

MembershipInit ==
    /\ rows = {Ws} \cup Default /\ departed = {}
    /\ adding = [a \in Request |-> {}]
    /\ notices = Nothing /\ known = Nothing /\ asked = Nothing
    /\ joining = Nothing /\ subs = Nothing
    /\ open = [k \in Socket |-> TRUE]
    /\ removals = 0 /\ drops = 0
    /\ straddled = {} /\ crossed = Nothing /\ cut = Nothing

apiVars == <<rows, departed, adding, removals, straddled>>
clientVars == <<known, asked, open, drops>>

-----------------------------------------------------------------------------
(* The API. *)

(* join_channel and add_channel_member: the person is found in the         *)
(* workspace, by a query of its own.                                       *)
MayBeAdded == Ws \in rows

CheckAdd(a, c) ==
    /\ adding[a] = {} /\ MayBeAdded
    /\ adding' = [adding EXCEPT ![a] = {c}]
    /\ UNCHANGED <<rows, departed, removals, straddled, notices, clientVars,
                   joining, subs, crossed, cut>>

(* add_to_channel: the row is inserted, or is there already.  The event it *)
(* stages is not one the gateway subscribes anybody by.                    *)
Add(a) ==
    /\ adding[a] # {}
    /\ rows' = rows \cup adding[a]
    /\ adding' = [adding EXCEPT ![a] = {}]
    /\ UNCHANGED <<departed, removals, straddled, notices, clientVars,
                   joining, subs, crossed, cut>>

(* What settle_in puts a person who arrives into: the default channels and *)
(* the conversations they departed from.                                   *)
SettledIn == {Ws} \cup Default \cup departed

(* join_workspace, redeem_email_invite and accept_invite, one transaction. *)
JoinWorkspace ==
    /\ Ws \notin rows
    /\ rows' = rows \cup SettledIn
    /\ departed' = {}
    /\ UNCHANGED <<adding, removals, straddled, notices, clientVars, joining,
                   subs, crossed, cut>>

(* remove_channel_member, whose event is staged with the row's deletion.   *)
RemoveFromChannel(c) ==
    /\ removals < MaxRemovals /\ c \in rows
    /\ removals' = removals + 1
    /\ rows' = rows \ {c}
    /\ notices' = [k \in Socket |-> notices[k] \cup {c}]
    /\ UNCHANGED <<departed, adding, straddled, clientVars, joining, subs,
                   crossed, cut>>

(* Mutant: remove_member_in deletes the workspace row alone. *)
LeftBehindAlone == rows \cap Channel

(* The rows remove_member_in leaves behind, and the topics detach stages a *)
(* removal for.                                                            *)
LeftBehind == {}
Told == rows \cup {Ws}

(* detach: one transaction, one event for each channel it dropped and one  *)
(* for the workspace.                                                      *)
Detach ==
    /\ removals < MaxRemovals /\ Ws \in rows
    /\ removals' = removals + 1
    /\ departed' = departed \cup (rows \cap Conversation)
    /\ rows' = LeftBehind
    /\ notices' = [k \in Socket |-> notices[k] \cup Told]
    /\ straddled' = straddled \cup UNION {adding[a] : a \in Request}
    /\ UNCHANGED <<adding, clientVars, joining, subs, crossed, cut>>

-----------------------------------------------------------------------------
(* The client (lib/ws.ts). *)

(* joinChannels asks for what it has not asked for on this page, whatever  *)
(* became of it since; subscribe asks every time.                          *)
Fresh(k, t) == t = Ws \/ t \notin known[k]

Ask(k, t) ==
    /\ open[k] /\ Fresh(k, t)
    /\ known' = [known EXCEPT ![k] = @ \cup {t}]
    /\ asked' = [asked EXCEPT ![k] = @ \cup {t}]
    /\ UNCHANGED <<apiVars, open, drops, notices, joining, subs, crossed, cut>>

(* rejoinChannel, after the person's own request to join was granted. *)
Rejoin(k, c) ==
    /\ open[k] /\ c \in rows \ subs[k]
    /\ known' = [known EXCEPT ![k] = @ \cup {c}]
    /\ asked' = [asked EXCEPT ![k] = @ \cup {c}]
    /\ UNCHANGED <<apiVars, open, drops, notices, joining, subs, crossed, cut>>

(* The socket closes: the gateway forgets the connection and what it was   *)
(* in the middle of (remove_connection); the client keeps its set.         *)
Close(k) ==
    /\ open[k] /\ drops < MaxDrops
    /\ drops' = drops + 1
    /\ open' = [open EXCEPT ![k] = FALSE]
    /\ asked' = [asked EXCEPT ![k] = {}]
    /\ joining' = [joining EXCEPT ![k] = {}]
    /\ subs' = [subs EXCEPT ![k] = {}]
    /\ crossed' = [crossed EXCEPT ![k] = {}]
    /\ UNCHANGED <<apiVars, notices, known, cut>>

(* onopen: what the client asks for again when it is connected again. *)
AskedOnOpen(k) == known[k]

Reopen(k) ==
    /\ ~open[k]
    /\ open' = [open EXCEPT ![k] = TRUE]
    /\ asked' = [asked EXCEPT ![k] = AskedOnOpen(k)]
    /\ cut' = [cut EXCEPT ![k] = {}]
    /\ UNCHANGED <<apiVars, drops, notices, known, joining, subs, crossed>>

-----------------------------------------------------------------------------
(* The gateway.  It reads one frame of a socket at a time. *)

(* channel_memberships and is_workspace_member: a query, awaited. *)
CheckJoin(k) ==
    /\ asked[k] # {} /\ joining[k] = {}
    /\ joining' = [joining EXCEPT ![k] = asked[k] \cap rows]
    /\ asked' = [asked EXCEPT ![k] = {}]
    /\ cut' = [cut EXCEPT ![k] = @ \cup (asked[k] \ rows)]
    /\ UNCHANGED <<apiVars, known, open, drops, notices, subs, crossed>>

(* join_channel and subscribe_workspace, on what the query said. *)
FinishJoin(k) ==
    /\ joining[k] # {}
    /\ subs' = [subs EXCEPT ![k] = @ \cup joining[k]]
    /\ cut' = [cut EXCEPT ![k] = @ \ joining[k]]
    /\ joining' = [joining EXCEPT ![k] = {}]
    /\ UNCHANGED <<apiVars, clientVars, notices, crossed>>

(* channel.leave, with which the client forgets the channel too. *)
LeaveChannel(k, c) ==
    /\ open[k] /\ asked[k] = {} /\ joining[k] = {} /\ c \in subs[k]
    /\ subs' = [subs EXCEPT ![k] = @ \ {c}]
    /\ known' = [known EXCEPT ![k] = @ \ {c}]
    /\ crossed' = [crossed EXCEPT ![k] = @ \ {c}]
    /\ UNCHANGED <<apiVars, asked, open, drops, notices, joining, cut>>

(* leave_channel_for_user and leave_workspace_for_user. *)
Dropped(k, t) == subs[k] \ {t}

(* channel.member_removed and workspace.member_removed in handle_event;    *)
(* the outbox may publish the event again.                                 *)
HandleRemoval(k, t, again) ==
    /\ t \in notices[k]
    /\ subs' = [subs EXCEPT ![k] = Dropped(k, t)]
    /\ notices' = [notices EXCEPT ![k] = IF again THEN @ ELSE @ \ {t}]
    /\ crossed' = [crossed EXCEPT ![k] = (@ \ {t}) \cup (joining[k] \cap {t})]
    /\ cut' = [cut EXCEPT ![k] = @ \cup {t}]
    /\ UNCHANGED <<apiVars, clientVars, joining>>

MembershipNext ==
    \/ \E a \in Request : Add(a) \/ \E c \in Channel : CheckAdd(a, c)
    \/ \E c \in Channel : RemoveFromChannel(c)
    \/ JoinWorkspace \/ Detach
    \/ \E k \in Socket :
           \/ Close(k) \/ Reopen(k) \/ CheckJoin(k) \/ FinishJoin(k)
           \/ \E t \in Topic : Ask(k, t)
           \/ \E c \in Channel : Rejoin(k, c) \/ LeaveChannel(k, c)
           \/ \E t \in Topic, again \in BOOLEAN : HandleRemoval(k, t, again)

(* The outbox publishes what was staged until it counts as published       *)
(* (EventOutbox), and a handler that was begun goes on.                    *)
MembershipFairness ==
    /\ \A k \in Socket :
           /\ WF_memberVars(CheckJoin(k)) /\ WF_memberVars(FinishJoin(k))
           /\ \A t \in Topic : WF_memberVars(HandleRemoval(k, t, FALSE))
    /\ \A a \in Request : WF_memberVars(Add(a))

-----------------------------------------------------------------------------
(* Properties. *)

(* A person who is in a channel is in its workspace: detach takes both.    *)
(* The one exception is a request that had found them in the workspace     *)
(* when the detach committed and wrote its row after (add_to_channel looks *)
(* at nothing again); the gateway checks channel_members only, and         *)
(* delivers to them from then on.                                          *)
InChannelIsInWorkspace ==
    Ws \notin rows => rows \subseteq straddled

(* A socket hears a topic its owner was removed from only while the        *)
(* removal has not reached its gateway, or when the removal was handled    *)
(* between the query that allowed a join and the subscription it adds:     *)
(* is_subscribed_to_channel takes the subscription for the membership, and *)
(* its comment says it is withdrawn the moment the membership is.          *)
HeardOnlyByMembers ==
    \A k \in Socket : subs[k] \subseteq rows \cup notices[k] \cup crossed[k]

(* A member's client that has joined a topic goes on hearing it through    *)
(* every reconnection: only a removal, handled in time or after the person *)
(* is back, or a refusal takes it away.  Nothing gives it back then but    *)
(* another connection, because the client keeps the channel in the set it  *)
(* does not ask for twice.                                                 *)
JoinedIsHeard ==
    \A k \in Socket :
        open[k] => known[k] \cap rows \subseteq
                       subs[k] \cup asked[k] \cup joining[k] \cup cut[k]

(* Removal takes effect: the sockets of somebody who was removed stop      *)
(* hearing the topic, unless they are back or the removal crossed a join.  *)
RemovedStopsHearing ==
    \A k \in Socket : \A t \in Topic :
        t \notin rows ~> (t \in rows \cup crossed[k] \/ t \notin subs[k])

(* Rows of channels and workspaces agree, and a socket hears the channels  *)
(* its person is in.                                                       *)
MembershipSafety ==
    MembershipTypeOK /\ InChannelIsInWorkspace /\ HeardOnlyByMembers /\ JoinedIsHeard
=============================================================================
