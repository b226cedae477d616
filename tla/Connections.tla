----------------------------- MODULE Connections -----------------------------
(***************************************************************************)
(* The gateway's registry of sockets: connection_manager.rs (connections,  *)
(* user_connections, enqueue, fan_out_to, send_to_user, disconnect_user),  *)
(* ws_handler.rs (spawn_writer, handle_ws, cleanup) and the handshake's    *)
(* revocation check (main.rs ws_upgrade).                                  *)
(*                                                                         *)
(* Each connection has a handler task and a writer task, and one more task *)
(* consumes events.  They run on several threads, so every access to one   *)
(* of the two maps and every try_send is a step of its own.                *)
(***************************************************************************)
EXTENDS Integers, Sequences, FiniteSets

CONSTANTS
    Conn,       \* connections that will be attempted
    User,       \* the users they belong to
    UserOf,     \* the user of each connection
    Spared,     \* connections of a session a revocation leaves alone (except_jti)
    Consumer,   \* the event consumer's task
    Cap,        \* WRITER_CHANNEL_CAP
    MaxSends    \* bound: fan-outs and answers in one behaviour

ASSUME UserAssumption == UserOf \in [Conn -> User] /\ Consumer \notin Conn /\ Spared \subseteq Conn
ASSUME BoundAssumption == Cap \in Nat \ {0} /\ MaxSends \in Nat

VARIABLES
    live,           \* keys of `connections`
    index, entries, \* user_connections, and which users have an entry in it
    handler,        \* each connection's handle_ws
    writer, queue,  \* each connection's writer task and its channel
    socket,         \* is the client still there
    step, op, at, to,   \* each task: its step, what it sends, to whom next
    revoked,        \* users with a revocation record in Redis
    told,           \* users whose session.revoked event was consumed
    lastOut,        \* users whose last cleanup went on to clear their presence
    excuses, sends

regVars == <<live, index, entries>>
connVars == <<handler, writer, queue, socket>>
taskVars == <<step, op, at, to>>
histVars == <<revoked, told, lastOut, excuses, sends>>
vars == <<live, index, entries, handler, writer, queue, socket, step, op, at, to,
          revoked, told, lastOut, excuses, sends>>

Task == Conn \cup {Consumer}
Frame == {"text", "revoked", "backpressure"}
NoConn == "none"
Excuse == {"handshake", "full", "raced", "ghost", "dropped"}

ConnsOf(u) == {c \in Conn : UserOf[c] = u}

Init ==
    /\ live = {} /\ index = [u \in User |-> {}] /\ entries = {}
    /\ handler = [c \in Conn |-> "off"]
    /\ writer = [c \in Conn |-> FALSE]
    /\ queue = [c \in Conn |-> <<>>]
    /\ socket = [c \in Conn |-> FALSE]
    /\ step = [t \in Task |-> "idle"] /\ op = [t \in Task |-> "send"]
    /\ at = [t \in Task |-> NoConn] /\ to = [t \in Task |-> {}]
    /\ revoked = {} /\ told = {} /\ lastOut = {}
    /\ excuses = {} /\ sends = 0

Excused(why, cond) == excuses' = excuses \cup {w \in {why} : cond}

-----------------------------------------------------------------------------
(* Handshake and registration *)

(* RevocationRecord::covers *)
Covered(c) == UserOf[c] \in revoked /\ c \notin Spared

Upgrade(c) ==
    /\ handler[c] = "off"
    /\ handler' = [handler EXCEPT ![c] = IF Covered(c) THEN "refused" ELSE "checked"]
    /\ UNCHANGED <<regVars, writer, queue, socket, taskVars, histVars>>

(* add_connection, first map *)
AddConnection(c) ==
    /\ handler[c] = "checked"
    /\ live' = live \cup {c}
    /\ handler' = [handler EXCEPT ![c] = "inserted"]
    /\ writer' = [writer EXCEPT ![c] = TRUE]
    /\ socket' = [socket EXCEPT ![c] = TRUE]
    /\ UNCHANGED <<index, entries, queue, taskVars, histVars>>

(* add_connection, second map *)
AddToUser(c) ==
    /\ handler[c] = "inserted"
    /\ index' = [index EXCEPT ![UserOf[c]] = @ \cup {c}]
    /\ entries' = entries \cup {UserOf[c]}
    /\ handler' = [handler EXCEPT ![c] = "open"]
    /\ lastOut' = lastOut \ {UserOf[c]}
    /\ Excused("ghost", c \notin live)
    /\ UNCHANGED <<live, writer, queue, socket, taskVars, revoked, told, sends>>

-----------------------------------------------------------------------------
(* Sending: fan_out_to picks its targets in `connections`, send_to_user in *)
(* user_connections, send_to_conn names one.                               *)

Start(t, what, targets) ==
    /\ step[t] = "idle"
    /\ step' = [step EXCEPT ![t] = IF targets = {} THEN "idle" ELSE "each"]
    /\ op' = [op EXCEPT ![t] = what]
    /\ to' = [to EXCEPT ![t] = targets]
    /\ UNCHANGED at

Send(t) ==
    /\ sends < MaxSends
    /\ t \in Conn => handler[t] = "open"
    /\ \/ t = Consumer /\ \E S \in SUBSET live \ {{}} : Start(t, "send", S)
       \/ \E u \in User : (t \in Conn => UserOf[t] = u) /\ Start(t, "send", index[u])
       \/ t \in Conn /\ Start(t, "send", {t})
    /\ sends' = sends + 1
    /\ UNCHANGED <<regVars, connVars, revoked, told, lastOut, excuses>>

(* The API writes the record, then publishes session.revoked. *)
Revoke(u) ==
    /\ u \notin revoked
    /\ revoked' = revoked \cup {u}
    /\ UNCHANGED <<regVars, connVars, taskVars, told, lastOut, excuses, sends>>

(* disconnect_user *)
Disconnect(u) ==
    /\ u \in revoked \ told
    /\ Start(Consumer, "close", index[u])
    /\ told' = told \cup {u}
    /\ Excused("handshake", \E c \in ConnsOf(u) : handler[c] \in {"checked", "inserted"})
    /\ UNCHANGED <<regVars, connVars, revoked, lastOut, sends>>

After(t, rest) ==
    /\ to' = [to EXCEPT ![t] = rest]
    /\ step' = [step EXCEPT ![t] = IF rest = {} THEN "idle" ELSE "each"]
    /\ at' = [at EXCEPT ![t] = NoConn]
    /\ UNCHANGED op

Goto(t, label, c) ==
    /\ step' = [step EXCEPT ![t] = label]
    /\ at' = [at EXCEPT ![t] = c]
    /\ to' = [to EXCEPT ![t] = @ \ {c}]
    /\ UNCHANGED op

Full(c) == Len(queue[c]) >= Cap

TrySend(c, frame) ==
    queue' = IF writer[c] /\ ~Full(c) THEN [queue EXCEPT ![c] = Append(@, frame)] ELSE queue

(* enqueue *)
Enqueue(t, c) ==
    /\ step[t] = "each" /\ op[t] = "send" /\ c \in to[t]
    /\ \/ c \notin live /\ After(t, to[t] \ {c})
       \/ c \in live /\ ~writer[c] /\ Goto(t, "map", c)
       \/ c \in live /\ writer[c] /\ Full(c) /\ Goto(t, "full", c)
       \/ c \in live /\ writer[c] /\ ~Full(c) /\ After(t, to[t] \ {c})
    /\ queue' = IF c \in live /\ writer[c] /\ ~Full(c)
                THEN [queue EXCEPT ![c] = Append(@, "text")] ELSE queue
    /\ UNCHANGED <<regVars, handler, writer, socket, histVars>>

(* The writer may have drained the queue since it was found full. *)
TellWhy(t) ==
    /\ step[t] = "full"
    /\ TrySend(at[t], "backpressure")
    /\ Goto(t, "map", at[t])
    /\ UNCHANGED <<regVars, handler, writer, socket, revoked, told, lastOut, excuses, sends>>

(* disconnect_user's loop: the result of try_send is discarded. *)
SendClose(t, c) ==
    /\ step[t] = "each" /\ op[t] = "close" /\ c \in to[t]
    /\ IF c \in live \ Spared THEN TrySend(c, "revoked") ELSE UNCHANGED queue
    /\ Excused("full", c \in live \ Spared /\ writer[c] /\ Full(c))
    /\ After(t, to[t] \ {c})
    /\ UNCHANGED <<regVars, handler, writer, socket, revoked, told, lastOut, sends>>

-----------------------------------------------------------------------------
(* remove_connection, by a handler's cleanup or by whoever could not send *)

Cleaning(t) == t \in Conn /\ handler[t] = "closing"

(* What the caller does with the answer: cleanup clears the user's         *)
(* presence after the last connection and ends the handler and its writer. *)
Removed(t, wasLast) ==
    /\ After(t, to[t])
    /\ IF Cleaning(t)
       THEN /\ handler' = [handler EXCEPT ![t] = "done"]
            /\ writer' = [writer EXCEPT ![t] = FALSE]
            /\ socket' = [socket EXCEPT ![t] = FALSE]
            /\ lastOut' = IF wasLast THEN lastOut \cup {UserOf[t]} ELSE lastOut
       ELSE UNCHANGED <<handler, writer, socket, lastOut>>

RemoveFromMap(t) ==
    /\ step[t] = "map"
    /\ \/ /\ at[t] \notin live
          /\ Removed(t, FALSE)
          /\ UNCHANGED <<live, excuses>>
       \/ /\ at[t] \in live
          /\ live' = live \ {at[t]}
          /\ Excused("dropped", ~Cleaning(t))
          /\ Goto(t, "index", at[t])
          /\ UNCHANGED <<handler, writer, socket, lastOut>>
    /\ UNCHANGED <<index, entries, queue, revoked, told, sends>>

(* Mutant: an emptied entry stays in the map. *)
RemoveFromUserOnly(t) ==
    /\ step[t] = "index"
    /\ LET u == UserOf[at[t]]
           rest == index[u] \ {at[t]}
       IN  /\ index' = [index EXCEPT ![u] = rest]
           /\ Removed(t, u \in entries /\ rest = {})
    /\ UNCHANGED <<live, entries, queue, revoked, told, excuses, sends>>

RemoveFromUser(t) ==
    /\ step[t] = "index"
    /\ LET u == UserOf[at[t]]
           rest == index[u] \ {at[t]}
       IN  /\ index' = [index EXCEPT ![u] = rest]
           /\ IF u \in entries /\ rest = {}
              THEN Goto(t, "entry", at[t]) /\ UNCHANGED <<handler, writer, socket, lastOut>>
              ELSE Removed(t, FALSE)
    /\ UNCHANGED <<live, entries, queue, revoked, told, excuses, sends>>

(* The lock was released: what was added to the entry since goes with it. *)
RemoveEntry(t) ==
    /\ step[t] = "entry"
    /\ LET u == UserOf[at[t]]
       IN  /\ entries' = entries \ {u}
           /\ index' = [index EXCEPT ![u] = {}]
           /\ Excused("raced", index[u] # {})
    /\ Removed(t, TRUE)
    /\ UNCHANGED <<live, queue, revoked, told, sends>>

-----------------------------------------------------------------------------
(* The writer, the client and the end of a handler *)

Write(c) ==
    /\ writer[c] /\ queue[c] # <<>>
    /\ queue' = [queue EXCEPT ![c] = Tail(@)]
    /\ writer' = [writer EXCEPT ![c] = socket[c] /\ Head(queue[c]) = "text"]
    /\ socket' = [socket EXCEPT ![c] = @ /\ Head(queue[c]) = "text"]
    /\ UNCHANGED <<regVars, handler, taskVars, histVars>>

ClientLeaves(c) ==
    /\ socket[c]
    /\ socket' = [socket EXCEPT ![c] = FALSE]
    /\ UNCHANGED <<regVars, handler, writer, queue, taskVars, histVars>>

Break(c) ==
    /\ handler[c] = "open" /\ step[c] = "idle"
    /\ handler' = [handler EXCEPT ![c] = "closing"]
    /\ Goto(c, "map", c)
    /\ UNCHANGED <<regVars, writer, queue, socket, histVars>>

(* The socket is gone, no pong came, or the heartbeat could not be queued. *)
HeartbeatFails(c) == (~socket[c] \/ ~writer[c] \/ Full(c)) /\ Break(c)

(* The access token has expired. *)
TokenExpires(c) == Break(c)

TaskStep(t) ==
    \/ \E c \in Conn : Enqueue(t, c) \/ SendClose(t, c)
    \/ TellWhy(t) \/ RemoveFromMap(t) \/ RemoveFromUser(t) \/ RemoveEntry(t)

ConnStep(c) ==
    \/ Upgrade(c) \/ AddConnection(c) \/ AddToUser(c)
    \/ Write(c) \/ ClientLeaves(c) \/ HeartbeatFails(c) \/ TokenExpires(c)

Next ==
    \/ \E t \in Task : Send(t) \/ TaskStep(t)
    \/ \E u \in User : Revoke(u) \/ Disconnect(u)
    \/ \E c \in Conn : ConnStep(c)

(* Tasks keep running, and the heartbeat ticks every HEARTBEAT_INTERVAL. *)
Fairness ==
    /\ \A t \in Task : WF_vars(TaskStep(t))
    /\ \A c \in Conn : WF_vars(AddToUser(c)) /\ WF_vars(HeartbeatFails(c))

Safe == Init /\ [][Next]_vars

Spec == Safe /\ Fairness

-----------------------------------------------------------------------------
(* Properties *)

(* Every variable stays in its domain. *)
TypeOK ==
    /\ live \subseteq Conn /\ index \in [User -> SUBSET Conn] /\ entries \subseteq User
    /\ handler \in [Conn -> {"off", "refused", "checked", "inserted", "open", "closing", "done"}]
    /\ writer \in [Conn -> BOOLEAN] /\ socket \in [Conn -> BOOLEAN]
    /\ queue \in [Conn -> Seq(Frame)] /\ \A c \in Conn : Len(queue[c]) <= Cap
    /\ step \in [Task -> {"idle", "each", "full", "map", "index", "entry"}]
    /\ op \in [Task -> {"send", "close"}]
    /\ at \in [Task -> Conn \cup {NoConn}] /\ to \in [Task -> SUBSET Conn]
    /\ revoked \subseteq User /\ told \subseteq revoked /\ lastOut \subseteq User
    /\ excuses \subseteq Excuse

CloseComing(c) ==
    ~writer[c] \/ \E i \in 1..Len(queue[c]) : queue[c][i] # "text"

(* "A revoked session must not linger until its token deadline": once the  *)
(* event was consumed, every open connection of the user is being closed.  *)
RevokedIsClosed ==
    \A c \in Conn \ Spared :
        UserOf[c] \in told /\ ~(op[Consumer] = "close" /\ step[Consumer] = "each")
            /\ handler[c] = "open"
        => CloseComing(c)

(* The same, outside the circumstances recorded in `excuses`. *)
RevokedIsClosedUnlessExcused ==
    excuses \cap {"handshake", "full", "raced", "dropped"} = {} => RevokedIsClosed

(* A registered connection can be reached through its user, so events to   *)
(* one user, removals and revocations find it.                             *)
ReachableUnlessRaced ==
    "raced" \notin excuses =>
        \A c \in live : handler[c] = "open" => c \in index[UserOf[c]]

(* When a user's last handler has ended, nothing of the user is left in    *)
(* either map.                                                             *)
NothingLeftUnlessGhost ==
    "ghost" \notin excuses =>
        \A u \in User :
            (\A c \in ConnsOf(u) : handler[c] \in {"off", "refused", "checked", "done"})
                /\ (\A t \in Task : step[t] \notin {"index", "entry"})
            => ConnsOf(u) \cap live = {} /\ index[u] = {} /\ u \notin entries

(* Of several cleanups of one user racing each other one is the last, and  *)
(* it clears the user's presence.                                          *)
LastOneClearsPresence ==
    excuses \cap {"raced", "dropped", "ghost"} = {} =>
        \A u \in User :
            (\A c \in ConnsOf(u) : handler[c] \in {"off", "refused", "checked", "done"})
                /\ (\E c \in ConnsOf(u) : handler[c] = "done")
            => u \in lastOut

(* A connection whose client is gone leaves the registry. *)
GoneIsRemoved ==
    \A c \in Conn : (c \in live /\ ~socket[c]) ~> (c \notin live)

(* The two maps of the registry agree, nothing is left in either behind    *)
(* the last handler, exactly that one clears the presence, and a revoked   *)
(* session's connections close.                                            *)
RegistrySafety ==
    /\ TypeOK /\ ReachableUnlessRaced /\ NothingLeftUnlessGhost /\ LastOneClearsPresence
    /\ RevokedIsClosedUnlessExcused
=============================================================================
