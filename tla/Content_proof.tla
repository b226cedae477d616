---------------------------- MODULE Content_proof ----------------------------
(***************************************************************************)
(* The gateway's registry, uploaded files, the Slack import and the order  *)
(* of a list: the safety of Connections, Files, SlackImport and Lists, for *)
(* any connections, requests, workers, exports, items and sizes.           *)
(***************************************************************************)
EXTENDS Connections, Files, SlackImport, Lists, SequenceTheorems, FiniteSetTheorems,
        WellFoundedInduction, TLAPS

-----------------------------------------------------------------------------
(* Connections. *)

(* Where a task can be: one with nothing to do has nobody left to send to, *)
(* and only the consumer closes sessions, without stopping to remove any.  *)
TaskOK ==
    \A t \in Task :
        /\ step[t] = "idle" => to[t] = {}
        /\ step[t] \in {"full", "map", "index", "entry"} => at[t] \in Conn
        /\ op[t] = "close" => t = Consumer /\ step[t] \in {"idle", "each"}

(* A handler has tasks while it is open, and in the end removes itself. *)
HandlerOK ==
    \A c \in Conn :
        /\ step[c] # "idle" => handler[c] \in {"open", "closing"}
        /\ handler[c] = "closing" =>
               step[c] \in {"map", "index", "entry"} /\ at[c] = c /\ to[c] = {}
        /\ c \in live => handler[c] \in {"inserted", "open", "closing"}

(* Whoever goes on to the second map has taken the connection out of the   *)
(* first, for good.                                                        *)
PendingOK ==
    \A t \in Task : step[t] \in {"index", "entry"} =>
        at[t] \notin live /\ handler[at[t]] \in {"inserted", "open", "closing", "done"}

(* A user has an entry as long as it holds something or is about to go. *)
IndexOK ==
    \A u \in User :
        /\ \A c \in index[u] : UserOf[c] = u /\ handler[c] \in {"open", "closing", "done"}
        /\ index[u] # {} => u \in entries
        /\ u \in entries => \/ index[u] # {}
                            \/ \E t \in Task : step[t] = "entry" /\ UserOf[at[t]] = u

(* What is in the second map is in the first, or about to go. *)
GhostOK ==
    "ghost" \notin excuses =>
        \A c \in Conn : c \in index[UserOf[c]] =>
            c \in live \/ \E t \in Task : step[t] = "index" /\ at[t] = c

(* Unless one was dropped, connections are removed by their own handlers   *)
(* alone.                                                                  *)
DroppedOK ==
    "dropped" \notin excuses =>
        /\ \A t \in Task : step[t] \in {"index", "entry"} =>
               t \in Conn /\ handler[t] = "closing"
        /\ \A c \in Conn :
               \/ handler[c] \in {"inserted", "open"}
               \/ handler[c] = "closing" /\ step[c] = "map"
               => c \in live

(* What is in the first map is in the second, up to the step that removes  *)
(* it.                                                                     *)
ReachOK ==
    "raced" \notin excuses =>
        /\ \A c \in live :
               handler[c] \in {"open", "closing"} => c \in index[UserOf[c]]
        /\ "dropped" \notin excuses =>
               \A c \in Conn : handler[c] = "closing" /\ step[c] = "index" =>
                   c \in index[UserOf[c]]

(* When one of a user's handlers is done, another is there or the presence *)
(* was cleared.                                                            *)
LastOK ==
    excuses \cap {"raced", "dropped", "ghost"} = {} =>
        \A c \in Conn : handler[c] = "done" =>
            \/ UserOf[c] \in lastOut
            \/ \E d \in ConnsOf(UserOf[c]) : handler[d] \in {"open", "closing"}

(* Who was disconnected is let in no more. *)
ToldOK ==
    "handshake" \notin excuses =>
        \A c \in Conn \ Spared :
            UserOf[c] \in told => handler[c] \notin {"checked", "inserted"}

(* A connection that has to close is told, or about to be. *)
CloseOK ==
    excuses \cap {"handshake", "full", "raced", "dropped"} = {} =>
        \A c \in Conn \ Spared :
            UserOf[c] \in told /\ handler[c] = "open" =>
                CloseComing(c) \/ (op[Consumer] = "close" /\ c \in to[Consumer])

RegistryInv ==
    /\ TypeOK /\ TaskOK /\ HandlerOK /\ PendingOK /\ IndexOK /\ GhostOK
    /\ DroppedOK /\ ReachOK /\ LastOK /\ ToldOK /\ CloseOK

HandlerState == {"off", "refused", "checked", "inserted", "open", "closing", "done"}
StepState == {"idle", "each", "full", "map", "index", "entry"}

(* Task t alone moves. *)
Moves(t) ==
    /\ step' \in [Task -> StepState] /\ op' \in [Task -> {"send", "close"}]
    /\ at' \in [Task -> Conn \cup {NoConn}] /\ to' \in [Task -> SUBSET Conn]
    /\ \A s \in Task : s # t =>
           step'[s] = step[s] /\ op'[s] = op[s] /\ at'[s] = at[s] /\ to'[s] = to[s]

LEMMA RegistryInit == Init => RegistryInv
  <1> SUFFICES ASSUME Init PROVE RegistryInv
    OBVIOUS
  <1> USE UserAssumption, BoundAssumption DEF Init, Task
  <1>1. writer \in [Conn -> BOOLEAN] /\ socket \in [Conn -> BOOLEAN]
    BY Zenon
  <1>2. queue \in [Conn -> Seq(Frame)] /\ \A c \in Conn : Len(queue[c]) <= Cap
    <2>1. <<>> \in Seq(Frame) /\ Len(<<>>) = 0 /\ Cap >= 0
      OBVIOUS
    <2> QED
      BY <2>1
  <1>3. TypeOK
    BY <1>1, <1>2 DEF TypeOK, Excuse
  <1>4. TaskOK /\ HandlerOK /\ PendingOK /\ IndexOK /\ GhostOK /\ DroppedOK
    BY DEF TaskOK, HandlerOK, PendingOK, IndexOK, GhostOK, DroppedOK
  <1> QED
    BY <1>3, <1>4 DEF RegistryInv, ReachOK, LastOK, ToldOK, CloseOK

(* Frames are appended within the limit, and none is lost by it. *)
LEMMA RegistryAppends ==
    ASSUME TypeOK, NEW c \in Conn, NEW f \in Frame,
           \/ queue' = queue
           \/ queue' = [queue EXCEPT ![c] = Append(queue[c], f)] /\ ~Full(c)
    PROVE  /\ queue' \in [Conn -> Seq(Frame)] /\ \A d \in Conn : Len(queue'[d]) <= Cap
           /\ \A d \in Conn : (\E i \in 1..Len(queue[d]) : queue[d][i] # "text") =>
                                  \E i \in 1..Len(queue'[d]) : queue'[d][i] # "text"
           /\ queue' # queue /\ f # "text" =>
                  \E i \in 1..Len(queue'[c]) : queue'[c][i] # "text"
  <1>1. CASE queue' = queue
    BY <1>1 DEF TypeOK
  <1>2. CASE queue' = [queue EXCEPT ![c] = Append(queue[c], f)] /\ ~Full(c)
    <2> DEFINE q == queue[c]
               r == Append(q, f)
    <2>1. q \in Seq(Frame) /\ Len(q) \in Nat /\ Len(q) < Cap /\ Cap \in Nat
      BY <1>2, BoundAssumption DEF TypeOK, Full
    <2>2. /\ r \in Seq(Frame) /\ Len(r) = Len(q) + 1 /\ r[Len(q) + 1] = f
          /\ \A i \in 1..Len(q) : r[i] = q[i]
      BY <2>1
    <2>3. queue'[c] = r /\ \A d \in Conn : d # c => queue'[d] = queue[d]
      BY <1>2 DEF TypeOK
    <2>4. queue' \in [Conn -> Seq(Frame)]
      BY <1>2, <2>2 DEF TypeOK
    <2> HIDE DEF r
    <2>5. Len(r) <= Cap
      BY <2>1, <2>2
    <2>6. (\E i \in 1..Len(q) : q[i] # "text") => \E i \in 1..Len(r) : r[i] # "text"
      BY <2>1, <2>2
    <2>7. f # "text" => \E i \in 1..Len(r) : r[i] # "text"
      BY <2>1, <2>2
    <2>8. \A d \in Conn : Len(queue'[d]) <= Cap
      BY <2>3, <2>5 DEF TypeOK
    <2> QED
      BY <2>3, <2>4, <2>6, <2>7, <2>8
  <1> QED
    BY <1>1, <1>2

(* A task sends, or stops sending, and the maps stay as they are. *)
LEMMA RegistryMoved ==
    ASSUME RegistryInv, NEW t \in Task, Moves(t),
           UNCHANGED <<live, index, entries, handler, lastOut>>, excuses \subseteq excuses',
           step[t] \in {"idle", "each", "full"},
           step'[t] \in {"idle", "each", "full", "map"},
           step'[t] = "idle" => to'[t] = {},
           step'[t] \in {"full", "map"} => at'[t] \in Conn,
           op'[t] = "close" => t = Consumer /\ step'[t] \in {"idle", "each"},
           t \in Conn /\ step'[t] # "idle" => handler[t] = "open"
    PROVE  /\ TaskOK' /\ HandlerOK' /\ PendingOK' /\ IndexOK' /\ GhostOK' /\ DroppedOK'
           /\ ReachOK' /\ LastOK'
  <1> USE DEF Moves
  <1>1. TaskOK'
    BY DEF RegistryInv, TaskOK
  <1>2. \A s \in Task : step[s] \in {"index", "entry"} => s # t
    OBVIOUS
  <1>3. \A s \in Task : step'[s] \in {"index", "entry"} => s # t
    OBVIOUS
  <1>4. HandlerOK'
    <2> SUFFICES ASSUME NEW c \in Conn
                 PROVE  /\ step'[c] # "idle" => handler[c] \in {"open", "closing"}
                        /\ handler[c] = "closing" =>
                             step'[c] \in {"map", "index", "entry"} /\ at'[c] = c /\ to'[c] = {}
                        /\ c \in live => handler[c] \in {"inserted", "open", "closing"}
      BY DEF HandlerOK
    <2>1. c \in Task /\ (c = t => handler[c] # "closing")
      BY DEF Task, RegistryInv, HandlerOK
    <2> QED
      BY <2>1 DEF RegistryInv, HandlerOK
  <1>5. PendingOK'
    BY <1>3 DEF RegistryInv, PendingOK
  <1>6. IndexOK'
    <2> SUFFICES ASSUME NEW u \in User, u \in entries, index[u] = {}
                 PROVE  \E s \in Task : step'[s] = "entry" /\ UserOf[at'[s]] = u
      BY DEF RegistryInv, IndexOK
    <2>1. PICK s \in Task : step[s] = "entry" /\ UserOf[at[s]] = u
      BY DEF RegistryInv, IndexOK
    <2> QED
      BY <1>2, <2>1
  <1>7. GhostOK'
    <2> SUFFICES ASSUME "ghost" \notin excuses, NEW c \in Conn, c \in index[UserOf[c]],
                        c \notin live
                 PROVE  \E s \in Task : step'[s] = "index" /\ at'[s] = c
      BY DEF GhostOK
    <2>1. PICK s \in Task : step[s] = "index" /\ at[s] = c
      BY DEF RegistryInv, GhostOK
    <2> QED
      BY <1>2, <2>1
  <1>8. DroppedOK'
    <2>1. \A c \in Conn : handler[c] = "closing" => c \in Task /\ c # t
      BY DEF Task, RegistryInv, HandlerOK
    <2> QED
      BY <1>3, <2>1 DEF RegistryInv, DroppedOK
  <1>9. ReachOK'
    BY <1>3 DEF RegistryInv, ReachOK, Task
  <1>10. LastOK'
    BY DEF RegistryInv, LastOK
  <1> QED
    BY <1>1, <1>4, <1>5, <1>6, <1>7, <1>8, <1>9, <1>10

(* What was to be closed still is. *)
LEMMA RegistryClosing ==
    ASSUME RegistryInv, told' = told, excuses \subseteq excuses',
           \A c \in Conn : handler'[c] = "open" => handler[c] = "open",
           \A c \in Conn : CloseComing(c) => CloseComing(c)',
           \A c \in Conn \ Spared :
               op[Consumer] = "close" /\ c \in to[Consumer] /\ handler[c] = "open" =>
                   \/ op'[Consumer] = "close" /\ c \in to'[Consumer]
                   \/ CloseComing(c)'
                   \/ excuses' \cap {"handshake", "full", "raced", "dropped"} # {}
    PROVE  CloseOK'
  <1> SUFFICES ASSUME excuses' \cap {"handshake", "full", "raced", "dropped"} = {},
                      NEW c \in Conn \ Spared, UserOf[c] \in told, handler'[c] = "open"
               PROVE  CloseComing(c)' \/ (op'[Consumer] = "close" /\ c \in to'[Consumer])
    BY DEF CloseOK
  <1>1. CloseComing(c) \/ (op[Consumer] = "close" /\ c \in to[Consumer])
    BY DEF RegistryInv, CloseOK
  <1> QED
    BY <1>1

LEMMA RegistryStart ==
    ASSUME TypeOK, NEW t \in Task, NEW S \in SUBSET Conn, NEW what \in {"send", "close"},
           Start(t, what, S)
    PROVE  /\ Moves(t) /\ step[t] = "idle" /\ op'[t] = what /\ to'[t] = S
           /\ step'[t] = IF S = {} THEN "idle" ELSE "each"
  BY DEF TypeOK, Start, Moves, StepState

LEMMA RegistryAfter ==
    ASSUME TypeOK, NEW t \in Task, NEW rest \in SUBSET Conn, After(t, rest)
    PROVE  /\ Moves(t) /\ op'[t] = op[t] /\ to'[t] = rest
           /\ step'[t] = IF rest = {} THEN "idle" ELSE "each"
  BY DEF TypeOK, After, Moves, StepState

LEMMA RegistryGoto ==
    ASSUME TypeOK, NEW t \in Task, NEW label \in StepState, NEW c \in Conn,
           Goto(t, label, c)
    PROVE  /\ Moves(t) /\ op'[t] = op[t] /\ to'[t] = to[t] \ {c}
           /\ step'[t] = label /\ at'[t] = c
  BY DEF TypeOK, Goto, Moves, StepState

LEMMA RegistrySend == ASSUME RegistryInv, NEW t \in Task, Send(t) PROVE RegistryInv'
  <1>1. TypeOK /\ Consumer \in Task /\ Conn \subseteq Task
    BY DEF RegistryInv, Task
  <1>2. PICK S \in SUBSET Conn : Start(t, "send", S)
    <2>1. live \subseteq Conn /\ \A u \in User : index[u] \subseteq Conn
      BY <1>1 DEF TypeOK
    <2> QED
      BY <2>1 DEF Send
  <1>3. /\ Moves(t) /\ step[t] = "idle" /\ op'[t] = "send" /\ to'[t] = S
        /\ step'[t] = IF S = {} THEN "idle" ELSE "each"
    BY <1>1, <1>2, RegistryStart
  <1>4. /\ UNCHANGED <<live, index, entries, handler, writer, queue, socket>>
        /\ UNCHANGED <<revoked, told, lastOut, excuses>>
        /\ t \in Conn => handler[t] = "open"
    BY DEF Send, regVars, connVars
  <1>5. TypeOK'
    BY <1>1, <1>3, <1>4 DEF TypeOK, Moves, StepState
  <1>6. /\ TaskOK' /\ HandlerOK' /\ PendingOK' /\ IndexOK' /\ GhostOK' /\ DroppedOK'
        /\ ReachOK' /\ LastOK'
    BY <1>3, <1>4, RegistryMoved
  <1>7. ToldOK'
    BY <1>4 DEF RegistryInv, ToldOK
  <1>8. t = Consumer => to[t] = {}
    BY <1>3 DEF RegistryInv, TaskOK
  <1>9. CloseOK'
    BY <1>1, <1>3, <1>4, <1>8, RegistryClosing DEF CloseComing, Moves
  <1> QED
    BY <1>5, <1>6, <1>7, <1>9 DEF RegistryInv

LEMMA RegistryDisconnect ==
    ASSUME RegistryInv, NEW u \in User, Disconnect(u) PROVE RegistryInv'
  <1>1. TypeOK /\ Consumer \in Task /\ Consumer \notin Conn
    BY UserAssumption DEF RegistryInv, Task
  <1>2. index[u] \in SUBSET Conn
    BY <1>1 DEF TypeOK
  <1>3. /\ Moves(Consumer) /\ step[Consumer] = "idle" /\ op'[Consumer] = "close"
        /\ to'[Consumer] = index[u]
        /\ step'[Consumer] = IF index[u] = {} THEN "idle" ELSE "each"
    BY <1>1, <1>2, RegistryStart DEF Disconnect
  <1>4. /\ UNCHANGED <<live, index, entries, handler, writer, queue, socket>>
        /\ UNCHANGED <<revoked, lastOut>> /\ told' = told \cup {u} /\ u \in revoked
    BY DEF Disconnect, regVars, connVars
  <1>5. /\ excuses \subseteq excuses' /\ excuses' \subseteq excuses \cup {"handshake"}
        /\ "handshake" \notin excuses' =>
               \A c \in Conn : UserOf[c] = u => handler[c] \notin {"checked", "inserted"}
    BY DEF Disconnect, Excused, ConnsOf
  <1>6. TypeOK'
    BY <1>1, <1>3, <1>4, <1>5 DEF TypeOK, Moves, StepState, Excuse
  <1>7. /\ TaskOK' /\ HandlerOK' /\ PendingOK' /\ IndexOK' /\ GhostOK' /\ DroppedOK'
        /\ ReachOK' /\ LastOK'
    BY <1>1, <1>3, <1>4, <1>5, RegistryMoved
  <1>8. ToldOK'
    BY <1>4, <1>5 DEF RegistryInv, ToldOK
  <1>9. CloseOK'
    <2> SUFFICES ASSUME excuses' \cap {"handshake", "full", "raced", "dropped"} = {},
                        NEW c \in Conn \ Spared, UserOf[c] \in told', handler[c] = "open"
                 PROVE  CloseComing(c) \/ c \in index[u]
      BY <1>3, <1>4 DEF CloseOK, CloseComing
    <2>1. CASE UserOf[c] = u
      <3>1. c \in live
        BY <1>5 DEF RegistryInv, DroppedOK
      <3> QED
        BY <1>5, <2>1, <3>1 DEF RegistryInv, ReachOK
    <2>2. CASE UserOf[c] \in told
      <3>1. to[Consumer] = {}
        BY <1>1, <1>3 DEF RegistryInv, TaskOK
      <3> QED
        BY <1>5, <2>2, <3>1 DEF RegistryInv, CloseOK
    <2> QED
      BY <1>4, <2>1, <2>2
  <1> QED
    BY <1>6, <1>7, <1>8, <1>9 DEF RegistryInv

(* A send that goes on, with what it puts in a queue. *)
LEMMA RegistrySends ==
    ASSUME RegistryInv, NEW t \in Task, NEW c \in Conn, NEW f \in Frame, Moves(t),
           \/ queue' = queue
           \/ queue' = [queue EXCEPT ![c] = Append(queue[c], f)] /\ ~Full(c),
           UNCHANGED <<live, index, entries, handler, writer, socket>>,
           UNCHANGED <<revoked, told, lastOut, excuses>>,
           step[t] \in {"each", "full"}, op[t] = "send", op'[t] = op[t],
           step'[t] \in {"idle", "each", "full", "map"},
           step'[t] = "idle" => to'[t] = {},
           step'[t] \in {"full", "map"} => at'[t] \in Conn
    PROVE  RegistryInv'
  <1>1. TypeOK /\ Consumer \in Task /\ Conn \subseteq Task
    BY DEF RegistryInv, Task
  <1>2. /\ queue' \in [Conn -> Seq(Frame)] /\ \A d \in Conn : Len(queue'[d]) <= Cap
        /\ \A d \in Conn : (\E i \in 1..Len(queue[d]) : queue[d][i] # "text") =>
                               \E i \in 1..Len(queue'[d]) : queue'[d][i] # "text"
    BY <1>1, RegistryAppends
  <1>3. TypeOK'
    BY <1>1, <1>2 DEF TypeOK, Moves, StepState
  <1>4. t \in Conn => handler[t] = "open"
    BY DEF RegistryInv, HandlerOK
  <1>5. /\ TaskOK' /\ HandlerOK' /\ PendingOK' /\ IndexOK' /\ GhostOK' /\ DroppedOK'
        /\ ReachOK' /\ LastOK'
    BY <1>4, RegistryMoved
  <1>6. ToldOK'
    BY DEF RegistryInv, ToldOK
  <1>7. \A d \in Conn : CloseComing(d) => CloseComing(d)'
    BY <1>2 DEF CloseComing
  <1>8. CloseOK'
    BY <1>1, <1>7, RegistryClosing DEF Moves
  <1> QED
    BY <1>3, <1>5, <1>6, <1>8 DEF RegistryInv

LEMMA RegistryEnqueue ==
    ASSUME RegistryInv, NEW t \in Task, NEW c \in Conn, Enqueue(t, c) PROVE RegistryInv'
  <1>1. TypeOK /\ to[t] \ {c} \in SUBSET Conn /\ "text" \in Frame
    BY DEF RegistryInv, TypeOK, Frame
  <1>2. /\ UNCHANGED <<live, index, entries, handler, writer, socket>>
        /\ UNCHANGED <<revoked, told, lastOut, excuses>>
        /\ step[t] = "each" /\ op[t] = "send"
        /\ \/ queue' = queue
           \/ queue' = [queue EXCEPT ![c] = Append(queue[c], "text")] /\ ~Full(c)
    BY DEF Enqueue, regVars, histVars
  <1>3. CASE After(t, to[t] \ {c})
    BY <1>1, <1>2, <1>3, RegistryAfter, RegistrySends
  <1>4. CASE \E label \in {"map", "full"} : Goto(t, label, c)
    <2>1. PICK label \in {"map", "full"} : Goto(t, label, c)
      BY <1>4
    <2>2. label \in StepState
      BY DEF StepState
    <2>3. /\ Moves(t) /\ op'[t] = op[t] /\ to'[t] = to[t] \ {c}
          /\ step'[t] = label /\ at'[t] = c
      BY <1>1, <2>1, <2>2, RegistryGoto
    <2> QED
      BY <1>1, <1>2, <2>3, RegistrySends
  <1> QED
    BY <1>3, <1>4 DEF Enqueue

LEMMA RegistryTellWhy == ASSUME RegistryInv, NEW t \in Task, TellWhy(t) PROVE RegistryInv'
  <1>1. /\ TypeOK /\ at[t] \in Conn /\ op[t] = "send"
        /\ "backpressure" \in Frame /\ "map" \in StepState
    BY DEF RegistryInv, TaskOK, TypeOK, TellWhy, Frame, StepState
  <1>2. /\ UNCHANGED <<live, index, entries, handler, writer, socket>>
        /\ UNCHANGED <<revoked, told, lastOut, excuses>> /\ step[t] = "full"
        /\ \/ queue' = queue
           \/ /\ queue' = [queue EXCEPT ![at[t]] = Append(queue[at[t]], "backpressure")]
              /\ ~Full(at[t])
    BY DEF TellWhy, TrySend, regVars
  <1>3. /\ Moves(t) /\ op'[t] = op[t] /\ step'[t] = "map" /\ at'[t] = at[t]
    BY <1>1, RegistryGoto DEF TellWhy
  <1> QED
    BY <1>1, <1>2, <1>3, RegistrySends

LEMMA RegistrySendClose ==
    ASSUME RegistryInv, NEW t \in Task, NEW c \in Conn, SendClose(t, c) PROVE RegistryInv'
  <1>1. /\ TypeOK /\ to[t] \ {c} \in SUBSET Conn /\ "revoked" \in Frame
        /\ Consumer \in Task /\ Conn \subseteq Task
    BY DEF RegistryInv, TypeOK, Frame, Task
  <1>2. /\ UNCHANGED <<live, index, entries, handler, writer, socket>>
        /\ UNCHANGED <<revoked, told, lastOut>>
        /\ step[t] = "each" /\ op[t] = "close"
        /\ \/ queue' = queue
           \/ queue' = [queue EXCEPT ![c] = Append(queue[c], "revoked")] /\ ~Full(c)
        /\ c \in live \ Spared /\ writer[c] /\ ~Full(c) =>
               queue' = [queue EXCEPT ![c] = Append(queue[c], "revoked")]
        /\ excuses \subseteq excuses' /\ excuses' \subseteq excuses \cup {"full"}
        /\ c \in live \ Spared /\ writer[c] /\ Full(c) => "full" \in excuses'
    BY DEF SendClose, TrySend, Excused, regVars
  <1>3. /\ Moves(t) /\ op'[t] = op[t] /\ to'[t] = to[t] \ {c}
        /\ step'[t] = IF to[t] \ {c} = {} THEN "idle" ELSE "each"
    BY <1>1, RegistryAfter DEF SendClose
  <1>4. /\ queue' \in [Conn -> Seq(Frame)] /\ \A d \in Conn : Len(queue'[d]) <= Cap
        /\ \A d \in Conn : (\E i \in 1..Len(queue[d]) : queue[d][i] # "text") =>
                               \E i \in 1..Len(queue'[d]) : queue'[d][i] # "text"
        /\ queue' # queue => \E i \in 1..Len(queue'[c]) : queue'[c][i] # "text"
    BY <1>1, <1>2, RegistryAppends
  <1>5. TypeOK'
    BY <1>1, <1>2, <1>3, <1>4 DEF TypeOK, Moves, StepState, Excuse
  <1>6. t = Consumer /\ (t \in Conn => handler[t] = "open")
    BY <1>2 DEF RegistryInv, HandlerOK, TaskOK
  <1>7. /\ TaskOK' /\ HandlerOK' /\ PendingOK' /\ IndexOK' /\ GhostOK' /\ DroppedOK'
        /\ ReachOK' /\ LastOK'
    BY <1>2, <1>3, <1>6, RegistryMoved
  <1>8. ToldOK'
    BY <1>2 DEF RegistryInv, ToldOK
  <1>9. \A d \in Conn : CloseComing(d) => CloseComing(d)'
    BY <1>2, <1>4 DEF CloseComing
  <1>10. queue' = [queue EXCEPT ![c] = Append(queue[c], "revoked")] => queue' # queue
    <2>1. queue[c] \in Seq(Frame)
      BY <1>1 DEF TypeOK
    <2>2. Append(queue[c], "revoked") # queue[c]
      <3>1. Len(Append(queue[c], "revoked")) = Len(queue[c]) + 1 /\ Len(queue[c]) \in Nat
        BY <2>1
      <3> QED
        BY <3>1
    <2> QED
      BY <1>1, <2>2 DEF TypeOK
  <1>11. c \notin Spared /\ handler[c] = "open" =>
           CloseComing(c)' \/ excuses' \cap {"handshake", "full", "raced", "dropped"} # {}
    <2> SUFFICES ASSUME c \notin Spared, handler[c] = "open", writer[c],
                        excuses' \cap {"handshake", "full", "raced", "dropped"} = {}
                 PROVE  \E i \in 1..Len(queue'[c]) : queue'[c][i] # "text"
      BY <1>2 DEF CloseComing
    <2>1. c \in live
      BY <1>2 DEF RegistryInv, DroppedOK
    <2> QED
      BY <1>2, <1>4, <1>10, <2>1
  <1>12. CloseOK'
    BY <1>1, <1>2, <1>3, <1>9, <1>11, RegistryClosing DEF Moves
  <1> QED
    BY <1>5, <1>7, <1>8, <1>12 DEF RegistryInv

(* Nothing of the registry or the tasks changes. *)
LEMMA RegistryStill ==
    ASSUME RegistryInv, UNCHANGED <<live, index, entries, handler, step, op, at, to>>,
           UNCHANGED <<told, lastOut, excuses>>,
           queue' \in [Conn -> Seq(Frame)], \A d \in Conn : Len(queue'[d]) <= Cap,
           writer' \in [Conn -> BOOLEAN], socket' \in [Conn -> BOOLEAN],
           revoked \subseteq revoked', revoked' \subseteq User,
           \A d \in Conn : CloseComing(d) => CloseComing(d)'
    PROVE  RegistryInv'
  <1>1. TypeOK'
    BY DEF RegistryInv, TypeOK
  <1>2. TaskOK' /\ HandlerOK' /\ PendingOK'
    BY DEF RegistryInv, TaskOK, HandlerOK, PendingOK
  <1>5. IndexOK' /\ GhostOK'
    BY Zenon DEF RegistryInv, IndexOK, GhostOK
  <1>3. DroppedOK' /\ ReachOK' /\ LastOK' /\ ToldOK'
    BY Zenon DEF RegistryInv, DroppedOK, ReachOK, LastOK, ToldOK
  <1>4. CloseOK'
    BY RegistryClosing
  <1> QED
    BY <1>1, <1>2, <1>3, <1>4, <1>5 DEF RegistryInv

LEMMA RegistryRevoke == ASSUME RegistryInv, NEW u \in User, Revoke(u) PROVE RegistryInv'
  <1>1. TypeOK
    BY DEF RegistryInv
  <1>2. /\ UNCHANGED <<live, index, entries, handler, step, op, at, to>>
        /\ UNCHANGED <<told, lastOut, excuses, queue, writer, socket>>
        /\ revoked' = revoked \cup {u}
    BY DEF Revoke, regVars, connVars, taskVars
  <1> QED
    BY <1>1, <1>2, RegistryStill DEF TypeOK, CloseComing

LEMMA RegistryClientLeaves ==
    ASSUME RegistryInv, NEW c \in Conn, ClientLeaves(c) PROVE RegistryInv'
  <1>1. TypeOK
    BY DEF RegistryInv
  <1>2. /\ UNCHANGED <<live, index, entries, handler, step, op, at, to>>
        /\ UNCHANGED <<told, lastOut, excuses, queue, writer, revoked>>
    BY DEF ClientLeaves, regVars, taskVars, histVars
  <1>3. socket' \in [Conn -> BOOLEAN]
    BY <1>1 DEF ClientLeaves, TypeOK
  <1> QED
    BY <1>1, <1>2, <1>3, RegistryStill DEF TypeOK, CloseComing

LEMMA RegistryWrite == ASSUME RegistryInv, NEW c \in Conn, Write(c) PROVE RegistryInv'
  <1>1. TypeOK
    BY DEF RegistryInv
  <1>2. /\ UNCHANGED <<live, index, entries, handler, step, op, at, to>>
        /\ UNCHANGED <<told, lastOut, excuses, revoked>>
    BY DEF Write, regVars, taskVars, histVars
  <1> DEFINE q == queue[c]
             r == Tail(q)
  <1>3. q \in Seq(Frame) /\ q # <<>> /\ Len(q) \in Nat /\ Len(q) > 0 /\ Len(q) <= Cap
    BY <1>1 DEF TypeOK, Write
  <1>4. /\ r \in Seq(Frame) /\ Len(r) = Len(q) - 1 /\ Head(q) = q[1]
        /\ \A i \in 1..Len(r) : r[i] = q[i + 1]
    BY <1>3
  <1>5. queue'[c] = r /\ \A d \in Conn : d # c => queue'[d] = queue[d]
    BY <1>1 DEF Write, TypeOK
  <1>6. queue' \in [Conn -> Seq(Frame)]
    BY <1>1, <1>4 DEF Write, TypeOK
  <1>7. Len(r) <= Cap
    BY <1>3, <1>4, BoundAssumption
  <1>8. \A d \in Conn : Len(queue'[d]) <= Cap
    BY <1>1, <1>5, <1>7 DEF TypeOK
  <1>9. /\ (socket[c] /\ Head(q) = "text") \in BOOLEAN
        /\ writer' = [writer EXCEPT ![c] = socket[c] /\ Head(q) = "text"]
        /\ socket' = [socket EXCEPT ![c] = socket[c] /\ Head(q) = "text"]
    BY Zenon DEF Write
  <1>10. /\ writer' \in [Conn -> BOOLEAN] /\ socket' \in [Conn -> BOOLEAN]
         /\ \A d \in Conn : d # c => writer'[d] = writer[d]
         /\ writer'[c] => Head(q) = "text"
    <2> DEFINE b == socket[c] /\ Head(q) = "text"
    <2> HIDE DEF b
    <2>1. b \in BOOLEAN /\ writer' = [writer EXCEPT ![c] = b] /\ socket' = [socket EXCEPT ![c] = b]
      BY <1>9 DEF b
    <2>2. /\ writer' \in [Conn -> BOOLEAN] /\ socket' \in [Conn -> BOOLEAN]
          /\ \A d \in Conn : d # c => writer'[d] = writer[d]
          /\ writer'[c] = b
      BY <1>1, <2>1 DEF TypeOK
    <2> QED
      BY <2>2, Zenon DEF b
  <1>11. q[1] = "text" /\ (\E i \in 1..Len(q) : q[i] # "text") => \E i \in 1..Len(r) : r[i] # "text"
    <2> SUFFICES ASSUME q[1] = "text", NEW i \in 1..Len(q), q[i] # "text"
                 PROVE  \E j \in 1..Len(r) : r[j] # "text"
      OBVIOUS
    <2> HIDE DEF r
    <2>1. i - 1 \in 1..Len(r) /\ (i - 1) + 1 = i
      BY <1>3, <1>4
    <2> QED
      BY <1>4, <2>1
  <1>12. \A d \in Conn : CloseComing(d) => CloseComing(d)'
    <2> HIDE DEF r, q
    <2>1. CloseComing(c) => CloseComing(c)'
      BY <1>4, <1>5, <1>10, <1>11 DEF CloseComing, Write, q
    <2>2. \A d \in Conn : d # c /\ CloseComing(d) => CloseComing(d)'
      BY <1>5, <1>10 DEF CloseComing
    <2> QED
      BY <2>1, <2>2
  <1> HIDE DEF r, q
  <1>13. revoked \subseteq User
    BY <1>1 DEF TypeOK
  <1> QED
    BY <1>2, <1>6, <1>8, <1>10, <1>12, <1>13, RegistryStill

(* A connection comes in, before it is in the second map. *)
LEMMA RegistryEnters ==
    ASSUME RegistryInv, NEW c \in Conn, Upgrade(c) \/ AddConnection(c) PROVE RegistryInv'
  <1>1. TypeOK /\ Conn \subseteq Task
    BY DEF RegistryInv, Task
  <1>2. /\ UNCHANGED <<index, entries, queue, step, op, at, to>>
        /\ UNCHANGED <<revoked, told, lastOut, excuses>>
        /\ live' \subseteq live \cup {c} /\ live \subseteq live'
        /\ handler[c] \in {"off", "checked"}
    BY DEF Upgrade, AddConnection, regVars, taskVars, histVars
  <1>3. /\ handler' \in [Conn -> HandlerState]
        /\ handler'[c] \in {"refused", "checked", "inserted"}
        /\ \A d \in Conn : d # c => handler'[d] = handler[d]
        /\ c \in live' <=> handler'[c] = "inserted"
    <2>1. CASE Upgrade(c)
      <3>1. c \notin live /\ live' = live
        BY <2>1 DEF Upgrade, regVars, RegistryInv, HandlerOK
      <3>2. PICK h \in {"refused", "checked"} : handler' = [handler EXCEPT ![c] = h]
        BY <2>1 DEF Upgrade
      <3> QED
        BY <1>1, <3>1, <3>2 DEF TypeOK, HandlerState
    <2>2. CASE AddConnection(c)
      <3>1. c \in live' /\ handler' = [handler EXCEPT ![c] = "inserted"]
        BY <2>2 DEF AddConnection
      <3> QED
        BY <1>1, <3>1 DEF TypeOK, HandlerState
    <2> QED
      BY <2>1, <2>2
  <1>4. /\ writer' \in [Conn -> BOOLEAN] /\ socket' \in [Conn -> BOOLEAN]
        /\ \A d \in Conn : d # c => writer'[d] = writer[d]
    BY <1>1 DEF Upgrade, AddConnection, TypeOK
  <1>5. TypeOK'
    BY <1>1, <1>2, <1>3, <1>4 DEF TypeOK, HandlerState
  <1>6. TaskOK'
    BY <1>2 DEF RegistryInv, TaskOK
  <1>7. HandlerOK'
    BY <1>2, <1>3 DEF RegistryInv, HandlerOK
  <1>8. PendingOK'
    <2> SUFFICES ASSUME NEW t \in Task, step[t] \in {"index", "entry"}
                 PROVE  /\ at[t] \notin live'
                        /\ handler'[at[t]] \in {"inserted", "open", "closing", "done"}
      BY <1>2 DEF PendingOK
    <2>1. at[t] \in Conn /\ at[t] # c
      BY <1>2 DEF RegistryInv, TaskOK, PendingOK
    <2> QED
      BY <1>2, <1>3, <2>1 DEF RegistryInv, PendingOK
  <1>9. IndexOK'
    <2>1. \A u \in User : \A d \in index[u] :
              d # c /\ UserOf[d] = u /\ handler'[d] \in {"open", "closing", "done"}
      BY <1>1, <1>2, <1>3 DEF RegistryInv, IndexOK, TypeOK
    <2> QED
      BY <1>2, <2>1, Zenon DEF RegistryInv, IndexOK
  <1>10. GhostOK'
    BY <1>2, Zenon DEF RegistryInv, GhostOK
  <1>11. DroppedOK'
    BY <1>2, <1>3 DEF RegistryInv, DroppedOK
  <1>12. ReachOK'
    BY <1>1, <1>2, <1>3 DEF RegistryInv, ReachOK, TypeOK
  <1>13. LastOK'
    BY <1>2, <1>3 DEF RegistryInv, LastOK, ConnsOf
  <1>14. ToldOK'
    <2> SUFFICES ASSUME "handshake" \notin excuses, c \notin Spared, UserOf[c] \in told
                 PROVE  handler'[c] \notin {"checked", "inserted"}
      BY <1>2, <1>3 DEF RegistryInv, ToldOK
    <2>1. UserOf[c] \in revoked /\ handler[c] # "checked"
      BY <1>1 DEF TypeOK, RegistryInv, ToldOK
    <2> QED
      BY <1>1, <2>1 DEF Upgrade, Covered, AddConnection, TypeOK
  <1>15. CloseOK'
    <2>1. \A d \in Conn : d # c => (CloseComing(d)' <=> CloseComing(d))
      BY <1>2, <1>4 DEF CloseComing
    <2> QED
      BY <1>2, <1>3, <2>1 DEF RegistryInv, CloseOK
  <1> QED
    BY <1>5, <1>6, <1>7, <1>8, <1>9, <1>10, <1>11, <1>12, <1>13, <1>14, <1>15
       DEF RegistryInv

LEMMA RegistryAddToUser ==
    ASSUME RegistryInv, NEW c \in Conn, AddToUser(c) PROVE RegistryInv'
  <1>1. TypeOK /\ Conn \subseteq Task /\ UserOf[c] \in User
    BY UserAssumption DEF RegistryInv, Task
  <1>2. /\ UNCHANGED <<live, queue, writer, socket, step, op, at, to, revoked, told>>
        /\ handler[c] = "inserted" /\ entries' = entries \cup {UserOf[c]}
        /\ lastOut' = lastOut \ {UserOf[c]}
        /\ excuses \subseteq excuses' /\ excuses' \subseteq excuses \cup {"ghost"}
        /\ c \in live \/ "ghost" \in excuses'
    BY DEF AddToUser, Excused, taskVars
  <1>3. /\ handler' \in [Conn -> HandlerState] /\ handler'[c] = "open"
        /\ \A d \in Conn : d # c => handler'[d] = handler[d]
    BY <1>1 DEF AddToUser, TypeOK, HandlerState
  <1>4. /\ index' \in [User -> SUBSET Conn] /\ index'[UserOf[c]] = index[UserOf[c]] \cup {c}
        /\ \A u \in User : u # UserOf[c] => index'[u] = index[u]
    BY <1>1 DEF AddToUser, TypeOK
  <1>5. TypeOK'
    BY <1>1, <1>2, <1>3, <1>4 DEF TypeOK, HandlerState, Excuse
  <1>6. TaskOK'
    BY <1>2 DEF RegistryInv, TaskOK
  <1>7. HandlerOK'
    BY <1>1, <1>2, <1>3 DEF RegistryInv, HandlerOK
  <1>8. PendingOK'
    BY <1>2, <1>3 DEF RegistryInv, PendingOK, TaskOK
  <1>9. IndexOK'
    <2> SUFFICES ASSUME NEW u \in User
                 PROVE  /\ \A d \in index'[u] :
                               UserOf[d] = u /\ handler'[d] \in {"open", "closing", "done"}
                        /\ index'[u] # {} => u \in entries'
                        /\ u \in entries' =>
                             \/ index'[u] # {}
                             \/ \E t \in Task : step'[t] = "entry" /\ UserOf[at'[t]] = u
      BY DEF IndexOK
    <2>1. \A d \in index[u] :
              d \in Conn /\ UserOf[d] = u /\ handler[d] \in {"open", "closing", "done"}
      BY <1>1 DEF TypeOK, RegistryInv, IndexOK
    <2>2. CASE u = UserOf[c]
      BY <1>2, <1>3, <1>4, <2>1, <2>2
    <2>3. CASE u # UserOf[c]
      <3>1. \A d \in index'[u] : UserOf[d] = u /\ handler'[d] \in {"open", "closing", "done"}
        BY <1>2, <1>3, <1>4, <2>1, <2>3
      <3>2. u \in entries' <=> u \in entries
        BY <1>2, <2>3
      <3>3. /\ index[u] # {} => u \in entries
            /\ u \in entries => \/ index[u] # {}
                                \/ \E t \in Task : step[t] = "entry" /\ UserOf[at[t]] = u
        BY DEF RegistryInv, IndexOK
      <3> QED
        BY <1>2, <1>4, <2>3, <3>1, <3>2, <3>3, Zenon
    <2> QED
      BY <2>2, <2>3
  <1>10. GhostOK'
    <2> SUFFICES ASSUME "ghost" \notin excuses', NEW d \in Conn, d \in index'[UserOf[d]],
                        d \notin live
                 PROVE  \E t \in Task : step[t] = "index" /\ at[t] = d
      BY <1>2 DEF GhostOK
    <2>1. d \in index[UserOf[d]] /\ "ghost" \notin excuses
      BY <1>2, <1>4, UserAssumption
    <2> QED
      BY <2>1 DEF RegistryInv, GhostOK
  <1>11. DroppedOK'
    BY <1>1, <1>2, <1>3 DEF RegistryInv, DroppedOK
  <1>12. ReachOK'
    BY <1>1, <1>2, <1>3, <1>4, UserAssumption DEF RegistryInv, ReachOK, TypeOK
  <1>13. LastOK'
    <2> SUFFICES ASSUME excuses' \cap {"raced", "dropped", "ghost"} = {},
                        NEW d \in Conn, handler'[d] = "done"
                 PROVE  \/ UserOf[d] \in lastOut'
                        \/ \E e \in ConnsOf(UserOf[d]) : handler'[e] \in {"open", "closing"}
      BY DEF LastOK
    <2>1. CASE UserOf[d] = UserOf[c]
      BY <1>3, <2>1 DEF ConnsOf
    <2>2. CASE UserOf[d] # UserOf[c]
      BY <1>2, <1>3, <2>2 DEF RegistryInv, LastOK, ConnsOf
    <2> QED
      BY <2>1, <2>2
  <1>14. ToldOK'
    BY <1>2, <1>3 DEF RegistryInv, ToldOK
  <1>15. CloseOK'
    <2>1. \A d \in Conn : CloseComing(d)' <=> CloseComing(d)
      BY <1>2 DEF CloseComing
    <2>2. "handshake" \notin excuses' /\ c \notin Spared => UserOf[c] \notin told
      BY <1>2 DEF RegistryInv, ToldOK
    <2> QED
      BY <1>2, <1>3, <2>1, <2>2 DEF RegistryInv, CloseOK
  <1> QED
    BY <1>5, <1>6, <1>7, <1>8, <1>9, <1>10, <1>11, <1>12, <1>13, <1>14, <1>15
       DEF RegistryInv

LEMMA RegistryBreak == ASSUME RegistryInv, NEW c \in Conn, Break(c) PROVE RegistryInv'
  <1>1. TypeOK /\ Conn \subseteq Task /\ "map" \in StepState /\ Consumer # c
    BY UserAssumption DEF RegistryInv, Task, StepState
  <1>2. /\ UNCHANGED <<live, index, entries, queue, writer, socket>>
        /\ UNCHANGED <<revoked, told, lastOut, excuses>>
        /\ handler[c] = "open" /\ step[c] = "idle"
    BY DEF Break, regVars, histVars
  <1>3. to[c] = {} /\ Moves(c) /\ op'[c] = op[c] /\ to'[c] = {} /\ step'[c] = "map" /\ at'[c] = c
    <2>1. to[c] = {}
      BY <1>1, <1>2 DEF RegistryInv, TaskOK
    <2> QED
      BY <1>1, <2>1, RegistryGoto DEF Break
  <1>4. /\ handler' \in [Conn -> HandlerState] /\ handler'[c] = "closing"
        /\ \A d \in Conn : d # c => handler'[d] = handler[d]
    BY <1>1 DEF Break, TypeOK, HandlerState
  <1>5. TypeOK'
    BY <1>1, <1>2, <1>3, <1>4 DEF TypeOK, HandlerState, Moves, StepState
  <1>6. TaskOK'
    <2>1. op[c] # "close"
      BY <1>1 DEF RegistryInv, TaskOK
    <2> QED
      BY <1>1, <1>3, <2>1 DEF RegistryInv, TaskOK, Moves
  <1>7. HandlerOK'
    BY <1>1, <1>2, <1>3, <1>4 DEF RegistryInv, HandlerOK, Moves
  <1>8. PendingOK'
    BY <1>2, <1>3, <1>4 DEF RegistryInv, PendingOK, TaskOK, Moves
  <1>9. IndexOK'
    <2> SUFFICES ASSUME NEW u \in User
                 PROVE  /\ \A d \in index[u] :
                               UserOf[d] = u /\ handler'[d] \in {"open", "closing", "done"}
                        /\ index[u] # {} => u \in entries
                        /\ u \in entries =>
                             \/ index[u] # {}
                             \/ \E t \in Task : step'[t] = "entry" /\ UserOf[at'[t]] = u
      BY <1>2 DEF IndexOK
    <2>1. \A d \in index[u] : UserOf[d] = u /\ handler'[d] \in {"open", "closing", "done"}
      BY <1>1, <1>4 DEF RegistryInv, IndexOK, TypeOK
    <2>2. \A t \in Task : step[t] = "entry" => step'[t] = "entry" /\ at'[t] = at[t]
      BY <1>2, <1>3 DEF Moves
    <2>3. /\ index[u] # {} => u \in entries
          /\ u \in entries => \/ index[u] # {}
                              \/ \E t \in Task : step[t] = "entry" /\ UserOf[at[t]] = u
      BY DEF RegistryInv, IndexOK
    <2> QED
      BY <2>1, <2>2, <2>3
  <1>10. GhostOK'
    <2>1. \A t \in Task : step[t] = "index" => step'[t] = "index" /\ at'[t] = at[t]
      BY <1>2, <1>3 DEF Moves
    <2> QED
      BY <1>2, <2>1 DEF RegistryInv, GhostOK
  <1>11. DroppedOK'
    BY <1>1, <1>2, <1>3, <1>4 DEF RegistryInv, DroppedOK, Moves
  <1>12. ReachOK'
    BY <1>1, <1>2, <1>3, <1>4 DEF RegistryInv, ReachOK, Moves, TypeOK
  <1>13. LastOK'
    BY <1>2, <1>4 DEF RegistryInv, LastOK, ConnsOf
  <1>14. ToldOK'
    BY <1>2, <1>4 DEF RegistryInv, ToldOK
  <1>15. Consumer \in Task /\ op'[Consumer] = op[Consumer] /\ to'[Consumer] = to[Consumer]
    BY <1>1, <1>3 DEF Moves, Task
  <1>16. CloseOK'
    BY <1>2, <1>4, <1>15, RegistryClosing DEF CloseComing
  <1> QED
    BY <1>5, <1>6, <1>7, <1>8, <1>9, <1>10, <1>11, <1>12, <1>13, <1>14, <1>16
       DEF RegistryInv

(* The end of a removal, and of the handler whose cleanup it was. *)
LEMMA RegistryRemoved ==
    ASSUME RegistryInv, NEW t \in Task, NEW wasLast \in BOOLEAN, Removed(t, wasLast)
    PROVE  /\ Moves(t) /\ op'[t] = op[t] /\ to'[t] = to[t]
           /\ step'[t] = IF to[t] = {} THEN "idle" ELSE "each"
           /\ handler' \in [Conn -> HandlerState]
           /\ writer' \in [Conn -> BOOLEAN] /\ socket' \in [Conn -> BOOLEAN]
           /\ lastOut' \subseteq User /\ lastOut \subseteq lastOut'
           /\ \A d \in Conn : d # t => handler'[d] = handler[d]
           /\ t \in Conn /\ handler[t] = "closing" => handler'[t] = "done"
           /\ t \in Conn /\ handler[t] # "closing" => handler'[t] = handler[t]
           /\ \A d \in Conn : ~writer[d] => ~writer'[d]
           /\ t \in Conn /\ handler[t] = "closing" /\ wasLast => UserOf[t] \in lastOut'
  <1>1. TypeOK /\ to[t] \in SUBSET Conn /\ After(t, to[t])
    BY DEF RegistryInv, TypeOK, Removed
  <1>2. /\ Moves(t) /\ op'[t] = op[t] /\ to'[t] = to[t]
        /\ step'[t] = IF to[t] = {} THEN "idle" ELSE "each"
    BY <1>1, RegistryAfter
  <1>3. CASE Cleaning(t)
    <2>1. t \in Conn /\ handler[t] = "closing" /\ UserOf[t] \in User
      BY <1>3, UserAssumption DEF Cleaning
    <2>2. /\ handler' = [handler EXCEPT ![t] = "done"]
          /\ writer' = [writer EXCEPT ![t] = FALSE]
          /\ socket' = [socket EXCEPT ![t] = FALSE]
          /\ lastOut' = IF wasLast THEN lastOut \cup {UserOf[t]} ELSE lastOut
      BY <1>3 DEF Removed
    <2>3. /\ handler' \in [Conn -> HandlerState] /\ handler'[t] = "done"
          /\ \A d \in Conn : d # t => handler'[d] = handler[d]
      BY <1>1, <2>1, <2>2 DEF TypeOK, HandlerState
    <2>4. /\ writer' \in [Conn -> BOOLEAN] /\ writer'[t] = FALSE
          /\ \A d \in Conn : d # t => writer'[d] = writer[d]
          /\ socket' \in [Conn -> BOOLEAN]
      BY <1>1, <2>1, <2>2 DEF TypeOK
    <2>5. /\ lastOut' \subseteq User /\ lastOut \subseteq lastOut'
          /\ wasLast => UserOf[t] \in lastOut'
      BY <1>1, <2>1, <2>2 DEF TypeOK
    <2>6. \A d \in Conn : ~writer[d] => ~writer'[d]
      BY <2>4, Zenon
    <2> QED
      BY <1>2, <2>1, <2>3, <2>4, <2>5, <2>6
  <1>4. CASE ~Cleaning(t)
    BY <1>1, <1>2, <1>4 DEF Removed, Cleaning, TypeOK, HandlerState
  <1> QED
    BY <1>3, <1>4

(* A task that removes does not close sessions. *)
LEMMA RegistryRemover ==
    ASSUME RegistryInv, NEW t \in Task, step[t] \in {"map", "index", "entry"},
           Moves(t), op'[t] = op[t], told' = told, excuses \subseteq excuses', queue' = queue,
           \A d \in Conn : ~writer[d] => ~writer'[d],
           \A d \in Conn : handler'[d] = "open" => handler[d] = "open",
           \A d \in Conn : handler'[d] \in {"checked", "inserted"} => handler'[d] = handler[d]
    PROVE  CloseOK' /\ ToldOK'
  <1>1. op[t] # "close" /\ Consumer \in Task
    BY DEF RegistryInv, TaskOK, Task
  <1>2. op[Consumer] = "close" => op'[Consumer] = "close" /\ to'[Consumer] = to[Consumer]
    BY <1>1 DEF Moves
  <1>3. CloseOK'
    BY <1>2, RegistryClosing DEF CloseComing
  <1> QED
    BY <1>3 DEF RegistryInv, ToldOK

(* What holds after a removal whatever became of the second map. *)
LEMMA RegistryEnds ==
    ASSUME RegistryInv, NEW t \in Task, step[t] \in {"map", "index", "entry"},
           at[t] \notin live, NEW wasLast \in BOOLEAN, Removed(t, wasLast),
           UNCHANGED <<live, queue, revoked, told>>,
           excuses \subseteq excuses', excuses' \subseteq excuses \cup {"raced"},
           index' \in [User -> SUBSET Conn], entries' \subseteq User
    PROVE  /\ TypeOK' /\ TaskOK' /\ HandlerOK' /\ PendingOK' /\ DroppedOK'
           /\ CloseOK' /\ ToldOK'
  <1>1. TypeOK /\ Conn \subseteq Task /\ at[t] \in Conn
    BY DEF RegistryInv, Task, TaskOK
  <1>2. /\ Moves(t) /\ op'[t] = op[t] /\ to'[t] = to[t]
        /\ step'[t] = IF to[t] = {} THEN "idle" ELSE "each"
        /\ handler' \in [Conn -> HandlerState]
        /\ writer' \in [Conn -> BOOLEAN] /\ socket' \in [Conn -> BOOLEAN]
        /\ lastOut' \subseteq User
        /\ \A d \in Conn : d # t => handler'[d] = handler[d]
        /\ t \in Conn /\ handler[t] = "closing" => handler'[t] = "done"
        /\ t \in Conn /\ handler[t] # "closing" => handler'[t] = handler[t]
        /\ \A d \in Conn : ~writer[d] => ~writer'[d]
    BY RegistryRemoved
  <1>3. TypeOK'
    BY <1>1, <1>2 DEF TypeOK, Moves, StepState, HandlerState, Excuse
  <1>4. TaskOK'
    BY <1>2 DEF RegistryInv, TaskOK, Moves
  <1>5. t \in Conn => /\ handler[t] \in {"open", "closing"}
                      /\ handler[t] = "closing" => t \notin live /\ to[t] = {}
    BY DEF RegistryInv, HandlerOK
  <1>6. HandlerOK'
    <2> SUFFICES ASSUME NEW c \in Conn
                 PROVE  /\ step'[c] # "idle" => handler'[c] \in {"open", "closing"}
                        /\ handler'[c] = "closing" =>
                             step'[c] \in {"map", "index", "entry"} /\ at'[c] = c /\ to'[c] = {}
                        /\ c \in live => handler'[c] \in {"inserted", "open", "closing"}
      BY DEF HandlerOK
    <2>1. CASE c = t
      BY <1>2, <1>5, <2>1
    <2>2. CASE c # t
      BY <1>1, <1>2, <2>2 DEF RegistryInv, HandlerOK, Moves
    <2> QED
      BY <2>1, <2>2
  <1>7. \A s \in Task : step'[s] \in {"map", "index", "entry"} =>
            s # t /\ step[s] = step'[s] /\ at'[s] = at[s]
    BY <1>2 DEF Moves
  <1>8. PendingOK'
    <2> SUFFICES ASSUME NEW s \in Task, step'[s] \in {"index", "entry"}
                 PROVE  /\ at[s] \notin live
                        /\ handler'[at[s]] \in {"inserted", "open", "closing", "done"}
      BY <1>7 DEF PendingOK
    <2>1. /\ at[s] \in Conn /\ at[s] \notin live
          /\ handler[at[s]] \in {"inserted", "open", "closing", "done"}
      BY <1>7 DEF RegistryInv, PendingOK, TaskOK
    <2> QED
      BY <1>2, <2>1
  <1>9. DroppedOK'
    <2> SUFFICES ASSUME "dropped" \notin excuses
                 PROVE  /\ \A s \in Task : step'[s] \in {"index", "entry"} =>
                               s \in Conn /\ handler'[s] = "closing"
                        /\ \A c \in Conn : \/ handler'[c] \in {"inserted", "open"}
                                           \/ handler'[c] = "closing" /\ step'[c] = "map"
                                           => c \in live
      BY DEF DroppedOK
    <2>1. \A s \in Task : step'[s] \in {"index", "entry"} =>
              s \in Conn /\ handler'[s] = "closing"
      BY <1>2, <1>7 DEF RegistryInv, DroppedOK
    <2>2. \A c \in Conn : \/ handler'[c] \in {"inserted", "open"}
                          \/ handler'[c] = "closing" /\ step'[c] = "map"
                          => c \in live
      BY <1>1, <1>2, <1>7 DEF RegistryInv, DroppedOK
    <2> QED
      BY <2>1, <2>2
  <1>10. /\ \A d \in Conn : handler'[d] = "open" => handler[d] = "open"
         /\ \A d \in Conn : handler'[d] \in {"checked", "inserted"} => handler'[d] = handler[d]
    BY <1>2
  <1>11. CloseOK' /\ ToldOK'
    BY <1>2, <1>10, RegistryRemover
  <1> QED
    BY <1>3, <1>4, <1>6, <1>8, <1>9, <1>11

(* What the second map holds. *)
LEMMA RegistryMembers ==
    ASSUME RegistryInv
    PROVE  \A u \in User : \A c \in index[u] :
               c \in Conn /\ UserOf[c] = u /\ handler[c] \in {"open", "closing", "done"}
  <1>1. \A u \in User : \A c \in index[u] : c \in Conn
    BY DEF RegistryInv, TypeOK
  <1> QED
    BY <1>1 DEF RegistryInv, IndexOK

LEMMA RegistryRemoveFromMap ==
    ASSUME RegistryInv, NEW t \in Task, RemoveFromMap(t) PROVE RegistryInv'
  <1>1. /\ TypeOK /\ Conn \subseteq Task /\ at[t] \in Conn /\ "index" \in StepState
        /\ step[t] = "map"
    BY DEF RegistryInv, Task, TaskOK, StepState, RemoveFromMap
  <1>2. UNCHANGED <<index, entries, queue, revoked, told>>
    BY DEF RemoveFromMap
  <1>3. CASE at[t] \notin live
    <2>1. Removed(t, FALSE) /\ UNCHANGED <<live, excuses>> /\ FALSE \in BOOLEAN
      BY <1>3 DEF RemoveFromMap
    <2>2. index' \in [User -> SUBSET Conn] /\ entries' \subseteq User
      BY <1>1, <1>2 DEF TypeOK
    <2>3. /\ TypeOK' /\ TaskOK' /\ HandlerOK' /\ PendingOK' /\ DroppedOK'
          /\ CloseOK' /\ ToldOK'
      BY <1>1, <1>2, <1>3, <2>1, <2>2, RegistryEnds
    <2>4. /\ Moves(t) /\ lastOut \subseteq lastOut' /\ step'[t] \in {"idle", "each"}
          /\ \A d \in Conn : d # t => handler'[d] = handler[d]
          /\ t \in Conn /\ handler[t] = "closing" => handler'[t] = "done"
          /\ t \in Conn /\ handler[t] # "closing" => handler'[t] = handler[t]
      BY <2>1, RegistryRemoved
    <2>5. \A s \in Task : step[s] \in {"index", "entry"} => step'[s] = step[s] /\ at'[s] = at[s]
      BY <1>1, <2>4 DEF Moves
    <2>6. IndexOK'
      <3>1. \A u \in User : \A c \in index[u] :
                c \in Conn /\ UserOf[c] = u /\ handler'[c] \in {"open", "closing", "done"}
        <4>1. \A u \in User : \A c \in index[u] :
                  c \in Conn /\ UserOf[c] = u /\ handler[c] \in {"open", "closing", "done"}
          BY RegistryMembers
        <4> QED
          BY <2>4, <4>1
      <3>2. \A u \in User : u \in entries => \/ index[u] # {}
                              \/ \E s \in Task : step'[s] = "entry" /\ UserOf[at'[s]] = u
        BY <2>5 DEF RegistryInv, IndexOK
      <3> QED
        BY <1>2, <3>1, <3>2 DEF RegistryInv, IndexOK
    <2>7. GhostOK'
      BY <1>2, <2>1, <2>5 DEF RegistryInv, GhostOK
    <2>8. ReachOK'
      BY <1>1, <1>2, <2>1, <2>4 DEF RegistryInv, ReachOK, TypeOK, Moves
    <2>9. "dropped" \notin excuses => \A d \in Conn : handler'[d] = handler[d]
      BY <1>1, <1>3, <2>4 DEF RegistryInv, DroppedOK, HandlerOK
    <2>10. LastOK'
      BY <2>1, <2>4, <2>9 DEF RegistryInv, LastOK, ConnsOf
    <2> QED
      BY <2>3, <2>6, <2>7, <2>8, <2>10 DEF RegistryInv
  <1>4. CASE at[t] \in live
    <2>1. /\ live' = live \ {at[t]} /\ Goto(t, "index", at[t])
          /\ UNCHANGED <<handler, writer, socket, lastOut>>
          /\ excuses \subseteq excuses' /\ excuses' \subseteq excuses \cup {"dropped"}
          /\ "dropped" \notin excuses' => t \in Conn /\ handler[t] = "closing"
      BY <1>4 DEF RemoveFromMap, Excused, Cleaning
    <2>2. /\ Moves(t) /\ op'[t] = op[t] /\ to'[t] = to[t] \ {at[t]}
          /\ step'[t] = "index" /\ at'[t] = at[t]
      BY <1>1, <2>1, RegistryGoto
    <2>3. TypeOK'
      BY <1>1, <1>2, <2>1, <2>2 DEF TypeOK, Moves, StepState, Excuse
    <2>4. TaskOK'
      BY <1>1, <2>2 DEF RegistryInv, TaskOK, Moves
    <2>5. \A s \in Task : step[s] \in {"index", "entry"} =>
              s # t /\ step'[s] = step[s] /\ at'[s] = at[s]
      BY <1>1, <2>2 DEF Moves
    <2>6. \A s \in Task : step'[s] \in {"index", "entry"} /\ s # t =>
              step'[s] = step[s] /\ at'[s] = at[s]
      BY <2>2 DEF Moves
    <2>7. HandlerOK'
      <3> SUFFICES ASSUME NEW c \in Conn
                   PROVE  /\ step'[c] # "idle" => handler[c] \in {"open", "closing"}
                          /\ handler[c] = "closing" =>
                               step'[c] \in {"map", "index", "entry"} /\ at'[c] = c /\ to'[c] = {}
                          /\ c \in live' => handler[c] \in {"inserted", "open", "closing"}
        BY <2>1 DEF HandlerOK
      <3>1. CASE c = t
        BY <1>1, <2>1, <2>2, <3>1 DEF RegistryInv, HandlerOK
      <3>2. CASE c # t
        BY <1>1, <2>1, <2>2, <3>2 DEF RegistryInv, HandlerOK, Moves
      <3> QED
        BY <3>1, <3>2
    <2>8. PendingOK'
      <3>1. handler[at[t]] \in {"inserted", "open", "closing"}
        BY <1>1, <1>4 DEF RegistryInv, HandlerOK
      <3> QED
        BY <2>1, <2>2, <2>6, <3>1 DEF RegistryInv, PendingOK
    <2>9. IndexOK'
      <3>1. \A u \in User : u \in entries => \/ index[u] # {}
                              \/ \E s \in Task : step'[s] = "entry" /\ UserOf[at'[s]] = u
        BY <2>5 DEF RegistryInv, IndexOK
      <3> QED
        BY <1>2, <2>1, <3>1 DEF RegistryInv, IndexOK
    <2>10. GhostOK'
      <3> SUFFICES ASSUME "ghost" \notin excuses, NEW c \in Conn, c \in index[UserOf[c]],
                          c \notin live'
                   PROVE  \E s \in Task : step'[s] = "index" /\ at'[s] = c
        BY <1>2, <2>1 DEF GhostOK
      <3>1. CASE c = at[t]
        BY <2>2, <3>1
      <3>2. CASE c # at[t]
        <4>1. PICK s \in Task : step[s] = "index" /\ at[s] = c
          BY <2>1, <3>2 DEF RegistryInv, GhostOK
        <4> QED
          BY <2>5, <4>1
      <3> QED
        BY <3>1, <3>2
    <2>11. "dropped" \notin excuses' => t \in Conn /\ handler[t] = "closing" /\ at[t] = t
      BY <2>1 DEF RegistryInv, HandlerOK
    <2>12. DroppedOK'
      <3> SUFFICES ASSUME "dropped" \notin excuses'
                   PROVE  /\ \A s \in Task : step'[s] \in {"index", "entry"} =>
                                 s \in Conn /\ handler[s] = "closing"
                          /\ \A c \in Conn : \/ handler[c] \in {"inserted", "open"}
                                             \/ handler[c] = "closing" /\ step'[c] = "map"
                                             => c \in live'
        BY <2>1 DEF DroppedOK
      <3>1. \A s \in Task : step'[s] \in {"index", "entry"} =>
                s \in Conn /\ handler[s] = "closing"
        BY <2>1, <2>6, <2>11 DEF RegistryInv, DroppedOK
      <3>2. \A c \in Conn : \/ handler[c] \in {"inserted", "open"}
                            \/ handler[c] = "closing" /\ step'[c] = "map"
                            => c \in live'
        BY <1>1, <2>1, <2>2, <2>11 DEF RegistryInv, DroppedOK, Moves
      <3> QED
        BY <3>1, <3>2
    <2>13. ReachOK'
      <3> SUFFICES ASSUME "raced" \notin excuses
                   PROVE  /\ \A c \in live' :
                                 handler[c] \in {"open", "closing"} => c \in index[UserOf[c]]
                          /\ "dropped" \notin excuses' =>
                                 \A c \in Conn : handler[c] = "closing" /\ step'[c] = "index" =>
                                     c \in index[UserOf[c]]
        BY <1>2, <2>1 DEF ReachOK
      <3>1. \A c \in live : handler[c] \in {"open", "closing"} => c \in index[UserOf[c]]
        BY DEF RegistryInv, ReachOK
      <3>2. ASSUME "dropped" \notin excuses', NEW c \in Conn, handler[c] = "closing",
                   step'[c] = "index"
            PROVE  c \in index[UserOf[c]]
        <4>1. CASE c = t
          BY <1>4, <2>11, <3>1, <3>2, <4>1
        <4>2. CASE c # t
          BY <1>1, <2>1, <2>6, <3>2, <4>2 DEF RegistryInv, ReachOK
        <4> QED
          BY <4>1, <4>2
      <3> QED
        BY <2>1, <3>1, <3>2
    <2>14. LastOK'
      BY <2>1 DEF RegistryInv, LastOK
    <2>15. CloseOK' /\ ToldOK'
      BY <1>1, <1>2, <2>1, <2>2, RegistryRemover
    <2> QED
      BY <2>3, <2>4, <2>7, <2>8, <2>9, <2>10, <2>12, <2>13, <2>14, <2>15 DEF RegistryInv
  <1> QED
    BY <1>3, <1>4

LEMMA RegistryRemoveFromUser ==
    ASSUME RegistryInv, NEW t \in Task, RemoveFromUser(t) PROVE RegistryInv'
  <1> DEFINE a == at[t]
             u == UserOf[a]
             rest == index[u] \ {a}
  <1>1. /\ TypeOK /\ Conn \subseteq Task /\ step[t] = "index"
        /\ a \in Conn /\ u \in User /\ a \notin live /\ "entry" \in StepState
    BY UserAssumption DEF RegistryInv, Task, TaskOK, PendingOK, StepState, RemoveFromUser
  <1>2. UNCHANGED <<live, entries, queue, revoked, told, excuses>>
    BY DEF RemoveFromUser
  <1>3. /\ index' \in [User -> SUBSET Conn] /\ index'[u] = rest
        /\ \A v \in User : v # u => index'[v] = index[v]
    BY <1>1 DEF RemoveFromUser, TypeOK
  <1>4. \A c \in Conn : c \in index'[UserOf[c]] <=> c \in index[UserOf[c]] /\ c # a
    BY <1>1, <1>3, UserAssumption DEF RegistryInv, IndexOK
  <1>5. "dropped" \notin excuses => t \in Conn /\ handler[t] = "closing" /\ a = t
    BY <1>1 DEF RegistryInv, DroppedOK, HandlerOK
  <1> HIDE DEF a, u, rest
  <1>6. /\ \A v \in User : \A c \in index[v] :
               c \in Conn /\ UserOf[c] = v /\ handler[c] \in {"open", "closing", "done"}
        /\ \A v \in User : \A c \in index'[v] : c \in index[v]
    BY <1>3, RegistryMembers DEF rest
  <1>7. CASE u \in entries /\ rest = {}
    <2>1. Goto(t, "entry", a) /\ UNCHANGED <<handler, writer, socket, lastOut>>
      BY <1>7 DEF RemoveFromUser, a, u, rest
    <2>2. /\ Moves(t) /\ op'[t] = op[t] /\ to'[t] = to[t] \ {a}
          /\ step'[t] = "entry" /\ at'[t] = a
      BY <1>1, <2>1, RegistryGoto
    <2>3. TypeOK'
      BY <1>1, <1>2, <1>3, <2>1, <2>2 DEF TypeOK, Moves, StepState
    <2>4. TaskOK'
      BY <1>1, <2>2 DEF RegistryInv, TaskOK, Moves
    <2>5. \A s \in Task : s # t => step'[s] = step[s] /\ at'[s] = at[s]
      BY <2>2 DEF Moves
    <2>6. HandlerOK'
      <3> SUFFICES ASSUME NEW c \in Conn
                   PROVE  /\ step'[c] # "idle" => handler[c] \in {"open", "closing"}
                          /\ handler[c] = "closing" =>
                               step'[c] \in {"map", "index", "entry"} /\ at'[c] = c /\ to'[c] = {}
                          /\ c \in live => handler[c] \in {"inserted", "open", "closing"}
        BY <1>2, <2>1 DEF HandlerOK
      <3>1. CASE c = t
        BY <1>1, <2>2, <3>1 DEF RegistryInv, HandlerOK, a
      <3>2. CASE c # t
        BY <1>1, <2>2, <3>2 DEF RegistryInv, HandlerOK, Moves
      <3> QED
        BY <3>1, <3>2
    <2>7. PendingOK'
      BY <1>1, <1>2, <2>1, <2>2, <2>5 DEF RegistryInv, PendingOK, a
    <2>8. IndexOK'
      <3> SUFFICES ASSUME NEW v \in User
                   PROVE  /\ index'[v] # {} => v \in entries
                          /\ v \in entries =>
                               \/ index'[v] # {}
                               \/ \E s \in Task : step'[s] = "entry" /\ UserOf[at'[s]] = v
        BY <1>2, <1>6, <2>1 DEF IndexOK
      <3>1. CASE v = u
        BY <1>3, <1>7, <2>2, <3>1 DEF u
      <3>2. CASE v # u
        <4>1. \A s \in Task : step[s] = "entry" => step'[s] = "entry" /\ at'[s] = at[s]
          BY <1>1, <2>5
        <4> QED
          BY <1>3, <3>2, <4>1 DEF RegistryInv, IndexOK
      <3> QED
        BY <3>1, <3>2
    <2>9. GhostOK'
      <3> SUFFICES ASSUME "ghost" \notin excuses, NEW c \in Conn, c \in index'[UserOf[c]],
                          c \notin live
                   PROVE  \E s \in Task : step'[s] = "index" /\ at'[s] = c
        BY <1>2 DEF GhostOK
      <3>1. c \in index[UserOf[c]] /\ c # a
        BY <1>4
      <3>2. PICK s \in Task : step[s] = "index" /\ at[s] = c
        BY <3>1 DEF RegistryInv, GhostOK
      <3> QED
        BY <2>5, <3>1, <3>2 DEF a
    <2>10. DroppedOK'
      <3>1. \A s \in Task : step'[s] \in {"index", "entry"} => step[s] \in {"index", "entry"}
        BY <1>1, <2>5
      <3>2. \A s \in Task : step'[s] = "map" => step[s] = "map"
        BY <2>2, <2>5
      <3> QED
        BY <1>1, <1>2, <2>1, <3>1, <3>2 DEF RegistryInv, DroppedOK
    <2>11. ReachOK'
      <3> SUFFICES ASSUME "raced" \notin excuses
                   PROVE  /\ \A c \in live :
                                 handler[c] \in {"open", "closing"} => c \in index'[UserOf[c]]
                          /\ "dropped" \notin excuses =>
                                 \A c \in Conn : handler[c] = "closing" /\ step'[c] = "index" =>
                                     c \in index'[UserOf[c]]
        BY <1>2, <2>1 DEF ReachOK
      <3>1. \A c \in live :
                handler[c] \in {"open", "closing"} => c \in index'[UserOf[c]]
        BY <1>1, <1>4 DEF RegistryInv, ReachOK, TypeOK
      <3>2. ASSUME "dropped" \notin excuses, NEW c \in Conn, handler[c] = "closing",
                   step'[c] = "index"
            PROVE  c \in index'[UserOf[c]]
        <4>1. c # t
          BY <2>2, <3>2
        <4> QED
          BY <1>1, <1>4, <1>5, <2>5, <3>2, <4>1 DEF RegistryInv, ReachOK
      <3> QED
        BY <3>1, <3>2
    <2>12. LastOK'
      BY <1>2, <2>1 DEF RegistryInv, LastOK
    <2>13. CloseOK' /\ ToldOK'
      BY <1>1, <1>2, <2>1, <2>2, RegistryRemover
    <2> QED
      BY <2>3, <2>4, <2>6, <2>7, <2>8, <2>9, <2>10, <2>11, <2>12, <2>13 DEF RegistryInv
  <1>8. CASE ~(u \in entries /\ rest = {})
    <2>1. Removed(t, FALSE) /\ FALSE \in BOOLEAN
      BY <1>8 DEF RemoveFromUser, a, u, rest
    <2>2. entries' \subseteq User /\ at[t] \notin live
      BY <1>1, <1>2 DEF TypeOK, a
    <2>3. /\ TypeOK' /\ TaskOK' /\ HandlerOK' /\ PendingOK' /\ DroppedOK'
          /\ CloseOK' /\ ToldOK'
      BY <1>1, <1>2, <1>3, <2>1, <2>2, RegistryEnds
    <2>4. /\ Moves(t) /\ lastOut \subseteq lastOut' /\ step'[t] \in {"idle", "each"}
          /\ \A d \in Conn : d # t => handler'[d] = handler[d]
          /\ t \in Conn /\ handler[t] = "closing" => handler'[t] = "done"
          /\ t \in Conn /\ handler[t] # "closing" => handler'[t] = handler[t]
      BY <2>1, RegistryRemoved
    <2>5. \A s \in Task : s # t => step'[s] = step[s] /\ at'[s] = at[s]
      BY <2>4 DEF Moves
    <2>6. IndexOK'
      <3> SUFFICES ASSUME NEW v \in User
                   PROVE  /\ index'[v] # {} => v \in entries
                          /\ v \in entries =>
                               \/ index'[v] # {}
                               \/ \E s \in Task : step'[s] = "entry" /\ UserOf[at'[s]] = v
        <4>1. \A v \in User : \A c \in index'[v] :
                  UserOf[c] = v /\ handler'[c] \in {"open", "closing", "done"}
          BY <1>6, <2>4
        <4> QED
          BY <1>2, <4>1 DEF IndexOK
      <3>1. index[v] # {} => v \in entries
        BY DEF RegistryInv, IndexOK
      <3>2. CASE v = u
        BY <1>3, <1>6, <1>8, <3>1, <3>2
      <3>3. CASE v # u
        <4>1. \A s \in Task : step[s] = "entry" => step'[s] = "entry" /\ at'[s] = at[s]
          BY <1>1, <2>5
        <4> QED
          BY <1>3, <3>3, <4>1 DEF RegistryInv, IndexOK
      <3> QED
        BY <3>2, <3>3
    <2>7. GhostOK'
      <3> SUFFICES ASSUME "ghost" \notin excuses, NEW c \in Conn, c \in index'[UserOf[c]],
                          c \notin live
                   PROVE  \E s \in Task : step'[s] = "index" /\ at'[s] = c
        BY <1>2 DEF GhostOK
      <3>1. c \in index[UserOf[c]] /\ c # a
        BY <1>4
      <3>2. PICK s \in Task : step[s] = "index" /\ at[s] = c
        BY <3>1 DEF RegistryInv, GhostOK
      <3> QED
        BY <2>5, <3>1, <3>2 DEF a
    <2>8. ReachOK'
      <3> SUFFICES ASSUME "raced" \notin excuses
                   PROVE  /\ \A c \in live :
                                 handler'[c] \in {"open", "closing"} => c \in index'[UserOf[c]]
                          /\ "dropped" \notin excuses =>
                                 \A c \in Conn : handler'[c] = "closing" /\ step'[c] = "index" =>
                                     c \in index'[UserOf[c]]
        BY <1>2 DEF ReachOK
      <3>1. \A c \in live :
                handler'[c] \in {"open", "closing"} => c \in index'[UserOf[c]]
        BY <1>1, <1>4, <2>4 DEF RegistryInv, ReachOK, TypeOK
      <3>2. ASSUME "dropped" \notin excuses, NEW c \in Conn, handler'[c] = "closing",
                   step'[c] = "index"
            PROVE  c \in index'[UserOf[c]]
        <4>1. c # t
          BY <2>4, <3>2
        <4> QED
          BY <1>1, <1>4, <1>5, <2>4, <2>5, <3>2, <4>1 DEF RegistryInv, ReachOK
      <3> QED
        BY <3>1, <3>2
    <2>9. LastOK'
      <3> SUFFICES ASSUME excuses \cap {"raced", "dropped", "ghost"} = {},
                          NEW c \in Conn, handler'[c] = "done"
                   PROVE  \/ UserOf[c] \in lastOut'
                          \/ \E e \in ConnsOf(UserOf[c]) : handler'[e] \in {"open", "closing"}
        BY <1>2 DEF LastOK
      <3>1. t \in Conn /\ handler[t] = "closing" /\ a = t /\ UserOf[t] = u
        BY <1>5 DEF u
      <3>2. t \in index[u]
        BY <1>1, <3>1 DEF RegistryInv, ReachOK
      <3>3. u \in entries
        BY <1>1, <3>2 DEF RegistryInv, IndexOK
      <3>4. PICK d \in Conn : d \in index[u] /\ d # t
        BY <1>6, <1>1, <1>8, <3>1, <3>3 DEF rest
      <3>5. UserOf[d] = u /\ handler[d] \in {"open", "closing", "done"}
        BY <1>1, <1>6, <3>4
      <3>6. d \in live \/ \E s \in Task : step[s] = "index" /\ at[s] = d
        BY <3>4, <3>5 DEF RegistryInv, GhostOK
      <3>7. handler[d] \in {"open", "closing"}
        <4>1. CASE d \in live
          BY <3>5, <4>1 DEF RegistryInv, HandlerOK
        <4>2. ASSUME NEW s \in Task, step[s] = "index", at[s] = d
              PROVE  handler[d] = "closing"
          <5>1. s \in Conn /\ handler[s] = "closing"
            BY <4>2 DEF RegistryInv, DroppedOK
          <5> QED
            BY <4>2, <5>1 DEF RegistryInv, HandlerOK
        <4> QED
          BY <3>6, <4>1, <4>2
      <3>8. CASE UserOf[c] = u
        BY <2>4, <3>4, <3>5, <3>7, <3>8 DEF ConnsOf
      <3>9. CASE UserOf[c] # u
        <4>1. c # t /\ handler[c] = "done"
          BY <2>4, <3>1, <3>9
        <4>2. \/ UserOf[c] \in lastOut
              \/ \E e \in ConnsOf(UserOf[c]) : handler[e] \in {"open", "closing"}
          BY <4>1 DEF RegistryInv, LastOK
        <4>3. \A e \in ConnsOf(UserOf[c]) : e \in Conn /\ e # t
          BY <3>1, <3>9 DEF ConnsOf
        <4> QED
          BY <2>4, <4>2, <4>3
      <3> QED
        BY <3>8, <3>9
    <2> QED
      BY <2>3, <2>6, <2>7, <2>8, <2>9 DEF RegistryInv
  <1> QED
    BY <1>7, <1>8

LEMMA RegistryRemoveEntry ==
    ASSUME RegistryInv, NEW t \in Task, RemoveEntry(t) PROVE RegistryInv'
  <1> DEFINE u == UserOf[at[t]]
  <1>1. /\ TypeOK /\ Conn \subseteq Task /\ step[t] = "entry"
        /\ at[t] \in Conn /\ u \in User /\ at[t] \notin live
    BY UserAssumption DEF RegistryInv, Task, TaskOK, PendingOK, RemoveEntry
  <1>2. /\ UNCHANGED <<live, queue, revoked, told>> /\ entries' = entries \ {u}
        /\ excuses \subseteq excuses' /\ excuses' \subseteq excuses \cup {"raced"}
        /\ "raced" \notin excuses' => index[u] = {}
    BY DEF RemoveEntry, Excused
  <1>3. /\ index' \in [User -> SUBSET Conn] /\ index'[u] = {}
        /\ \A v \in User : v # u => index'[v] = index[v]
    BY <1>1 DEF RemoveEntry, TypeOK
  <1>4. Removed(t, TRUE) /\ TRUE \in BOOLEAN /\ entries' \subseteq User
    BY <1>1, <1>2 DEF RemoveEntry, TypeOK
  <1>5. "dropped" \notin excuses => t \in Conn /\ handler[t] = "closing" /\ UserOf[t] = u
    BY <1>1 DEF RegistryInv, DroppedOK, HandlerOK
  <1>6. \A s \in Task : step[s] = "entry" /\ UserOf[at[s]] # u => s # t
    OBVIOUS
  <1> HIDE DEF u
  <1>7. /\ TypeOK' /\ TaskOK' /\ HandlerOK' /\ PendingOK' /\ DroppedOK'
        /\ CloseOK' /\ ToldOK'
    BY <1>1, <1>2, <1>3, <1>4, RegistryEnds
  <1>8. /\ Moves(t) /\ lastOut \subseteq lastOut' /\ step'[t] \in {"idle", "each"}
        /\ \A d \in Conn : d # t => handler'[d] = handler[d]
        /\ t \in Conn /\ handler[t] = "closing" => handler'[t] = "done"
        /\ t \in Conn /\ handler[t] # "closing" => handler'[t] = handler[t]
        /\ t \in Conn /\ handler[t] = "closing" => UserOf[t] \in lastOut'
    BY <1>4, RegistryRemoved
  <1>9. \A s \in Task : s # t => step'[s] = step[s] /\ at'[s] = at[s]
    BY <1>8 DEF Moves
  <1>10. IndexOK'
    <2> SUFFICES ASSUME NEW v \in User
                 PROVE  /\ \A c \in index'[v] :
                               UserOf[c] = v /\ handler'[c] \in {"open", "closing", "done"}
                        /\ index'[v] # {} => v \in entries'
                        /\ v \in entries' =>
                             \/ index'[v] # {}
                             \/ \E s \in Task : step'[s] = "entry" /\ UserOf[at'[s]] = v
      BY DEF IndexOK
    <2>1. CASE v = u
      BY <1>2, <1>3, <2>1
    <2>2. CASE v # u
      <3>1. \A c \in index[v] :
                c \in Conn /\ UserOf[c] = v /\ handler[c] \in {"open", "closing", "done"}
        BY <1>1 DEF TypeOK, RegistryInv, IndexOK
      <3>2. /\ index[v] # {} => v \in entries
            /\ v \in entries => \/ index[v] # {}
                                \/ \E s \in Task : step[s] = "entry" /\ UserOf[at[s]] = v
        BY DEF RegistryInv, IndexOK
      <3>3. \A s \in Task : step[s] = "entry" /\ UserOf[at[s]] = v =>
                step'[s] = "entry" /\ at'[s] = at[s]
        BY <1>6, <1>9, <2>2
      <3>4. \A c \in index'[v] : UserOf[c] = v /\ handler'[c] \in {"open", "closing", "done"}
        BY <1>3, <1>8, <2>2, <3>1
      <3> QED
        BY <1>2, <1>3, <2>2, <3>2, <3>3, <3>4
    <2> QED
      BY <2>1, <2>2
  <1>11. \A c \in Conn : c \in index'[UserOf[c]] => c \in index[UserOf[c]]
    BY <1>3, UserAssumption
  <1>12. GhostOK'
    <2> SUFFICES ASSUME "ghost" \notin excuses, NEW c \in Conn, c \in index'[UserOf[c]],
                        c \notin live
                 PROVE  \E s \in Task : step'[s] = "index" /\ at'[s] = c
      BY <1>2 DEF GhostOK
    <2>1. PICK s \in Task : step[s] = "index" /\ at[s] = c
      BY <1>11 DEF RegistryInv, GhostOK
    <2> QED
      BY <1>1, <1>9, <2>1
  <1>13. "raced" \notin excuses' => \A v \in User : index'[v] = index[v]
    BY <1>2, <1>3
  <1>14. ReachOK'
    <2> SUFFICES ASSUME "raced" \notin excuses'
                 PROVE  /\ \A c \in live :
                               handler'[c] \in {"open", "closing"} => c \in index[UserOf[c]]
                        /\ "dropped" \notin excuses =>
                               \A c \in Conn : handler'[c] = "closing" /\ step'[c] = "index" =>
                                   c \in index[UserOf[c]]
      BY <1>1, <1>2, <1>13, UserAssumption DEF ReachOK, TypeOK
    <2>1. \A c \in live : handler'[c] \in {"open", "closing"} => c \in index[UserOf[c]]
      BY <1>1, <1>2, <1>8 DEF RegistryInv, ReachOK, TypeOK
    <2>2. "dropped" \notin excuses =>
              \A c \in Conn : handler'[c] = "closing" /\ step'[c] = "index" =>
                  c \in index[UserOf[c]]
      BY <1>1, <1>2, <1>8, <1>9 DEF RegistryInv, ReachOK
    <2> QED
      BY <2>1, <2>2
  <1>15. LastOK'
    <2> SUFFICES ASSUME excuses' \cap {"raced", "dropped", "ghost"} = {},
                        NEW c \in Conn, handler'[c] = "done"
                 PROVE  \/ UserOf[c] \in lastOut'
                        \/ \E e \in ConnsOf(UserOf[c]) : handler'[e] \in {"open", "closing"}
      BY DEF LastOK
    <2>1. t \in Conn /\ handler[t] = "closing" /\ UserOf[t] = u
      BY <1>2, <1>5
    <2>2. CASE UserOf[c] = u
      BY <1>8, <2>1, <2>2
    <2>3. CASE UserOf[c] # u
      <3>1. c # t /\ handler[c] = "done"
        BY <1>8, <2>1, <2>3
      <3>2. \/ UserOf[c] \in lastOut
            \/ \E e \in ConnsOf(UserOf[c]) : handler[e] \in {"open", "closing"}
        BY <1>2, <3>1 DEF RegistryInv, LastOK
      <3>3. \A e \in ConnsOf(UserOf[c]) : e \in Conn /\ e # t
        BY <2>1, <2>3 DEF ConnsOf
      <3> QED
        BY <1>8, <3>2, <3>3
    <2> QED
      BY <2>2, <2>3
  <1> QED
    BY <1>7, <1>10, <1>12, <1>14, <1>15 DEF RegistryInv

LEMMA RegistryStep == RegistryInv /\ [Next]_vars => RegistryInv'
  <1> SUFFICES ASSUME RegistryInv, [Next]_vars PROVE RegistryInv'
    OBVIOUS
  <1>1. ASSUME NEW t \in Task, Send(t) PROVE RegistryInv'
    BY <1>1, RegistrySend
  <1>2. ASSUME NEW t \in Task, TaskStep(t) PROVE RegistryInv'
    BY <1>2, RegistryEnqueue, RegistrySendClose, RegistryTellWhy, RegistryRemoveFromMap,
       RegistryRemoveFromUser, RegistryRemoveEntry, Zenon DEF TaskStep
  <1>3. ASSUME NEW u \in User, Revoke(u) \/ Disconnect(u) PROVE RegistryInv'
    BY <1>3, RegistryRevoke, RegistryDisconnect
  <1>4. ASSUME NEW c \in Conn, ConnStep(c) PROVE RegistryInv'
    BY <1>4, RegistryEnters, RegistryAddToUser, RegistryWrite, RegistryClientLeaves,
       RegistryBreak, Zenon DEF ConnStep, HeartbeatFails, TokenExpires
  <1>5. CASE UNCHANGED vars
    <2>1. /\ UNCHANGED <<live, index, entries, handler, step, op, at, to>>
          /\ UNCHANGED <<told, lastOut, excuses>>
          /\ UNCHANGED <<queue, writer, socket, revoked>>
      BY <1>5 DEF vars
    <2> QED
      BY <2>1, RegistryStill DEF RegistryInv, TypeOK, CloseComing
  <1> QED
    BY <1>1, <1>2, <1>3, <1>4, <1>5 DEF Next

LEMMA RegistryIsSafe == RegistryInv => RegistrySafety
  <1> SUFFICES ASSUME RegistryInv PROVE RegistrySafety
    OBVIOUS
  <1>1. TypeOK /\ ReachableUnlessRaced
    BY DEF RegistryInv, ReachOK, ReachableUnlessRaced
  <1>2. NothingLeftUnlessGhost
    <2> SUFFICES ASSUME "ghost" \notin excuses, NEW u \in User,
                        \A c \in ConnsOf(u) : handler[c] \in {"off", "refused", "checked", "done"},
                        \A t \in Task : step[t] \notin {"index", "entry"}
                 PROVE  ConnsOf(u) \cap live = {} /\ index[u] = {} /\ u \notin entries
      BY DEF NothingLeftUnlessGhost
    <2>1. ConnsOf(u) \cap live = {}
      BY DEF ConnsOf, RegistryInv, HandlerOK
    <2>2. index[u] = {}
      <3> SUFFICES ASSUME NEW c \in index[u] PROVE FALSE
        OBVIOUS
      <3>1. c \in Conn /\ UserOf[c] = u
        BY <1>1 DEF TypeOK, RegistryInv, IndexOK
      <3> QED
        BY <2>1, <3>1 DEF ConnsOf, RegistryInv, GhostOK
    <2> QED
      BY <2>1, <2>2 DEF RegistryInv, IndexOK
  <1>3. LastOneClearsPresence
    BY DEF LastOneClearsPresence, RegistryInv, LastOK, ConnsOf
  <1>4. RevokedIsClosedUnlessExcused
    <2>1. Consumer \in Task
      BY DEF Task
    <2>2. op[Consumer] = "close" /\ step[Consumer] # "each" => to[Consumer] = {}
      BY <2>1 DEF RegistryInv, TaskOK
    <2> QED
      BY <2>2 DEF RevokedIsClosedUnlessExcused, RevokedIsClosed, RegistryInv, CloseOK
  <1> QED
    BY <1>1, <1>2, <1>3, <1>4 DEF RegistrySafety

(* However the tasks of any number of connections interleave: outside the  *)
(* races the model names, add_connection and remove_connection keep the    *)
(* two maps of the registry in step, nothing of a user is left in either   *)
(* behind the last handler, whose cleanup clears the presence, and         *)
(* disconnect_user has every open connection of a revoked session close.   *)
THEOREM ConnectionRegistrySafety == Safe => []RegistrySafety
  <1>1. Init => RegistryInv
    BY RegistryInit
  <1>2. RegistryInv /\ [Next]_vars => RegistryInv'
    BY RegistryStep
  <1>3. RegistryInv => RegistrySafety
    BY RegistryIsSafe
  <1> QED
    BY <1>1, <1>2, <1>3, PTL DEF Safe

-----------------------------------------------------------------------------
(* Files. *)

(* A file that was not written yet: no row was made for it, and none of    *)
(* what happens to files has begun.                                        *)
Fresh(f) ==
    IF f = First
    THEN message[First] = "new" \/ \E t \in Worker : task[t].does = "upload"
    ELSE message[Copy] = "none"

(* Where a request or worker can be, and what it relies on there.          *)
Fits(t) ==
    \/ task[t] = Done
    \/ /\ At(t, "upload", "row") /\ task[t].file = First
       /\ message[First] = "none" /\ First \in object
    \/ /\ At(t, "send", "commit") /\ task[t].file = First /\ message[First] = "none"
       /\ record[First].there /\ ~record[First].sent
    \/ At(t, "forward", "copy") /\ task[t].file = First /\ message[Copy] = "none"
    \/ /\ At(t, "forward", "commit") /\ task[t].file = Copy
       /\ message[Copy] = "none" /\ Copy \in object
    \/ At(t, "forward", "discard") /\ task[t].file = Copy /\ message[Copy] = "none"
    \/ At(t, "purge", "object") /\ ~Fresh(task[t].file) /\ ~record[task[t].file].there
    \/ Old(t) /\ task[t].at = "object" /\ ~Fresh(task[t].file)
    \/ /\ Old(t) /\ task[t].at = "erase" /\ ~Fresh(task[t].file)
       /\ task[t].file \notin object \/ <<"orphaned", task[t].file>> \in mishap
    \/ At(t, "delete file", "detach") /\ ~Fresh(task[t].file)
    \/ At(t, "delete message", "rows") /\ message[task[t].file] = "deleted"
    \/ At(t, "sweep", "delete") /\ task[t].file = First /\ ~Fresh(First)

(* A file is uploaded, sent and forwarded by one request at a time. *)
OneAtATime ==
    \A s, t \in Worker :
        task[s].does = task[t].does /\ task[s].does \in {"upload", "send", "forward"} => s = t

(* A row is made once, under its own key, and what a message shows was     *)
(* sent with it.                                                           *)
RowOK ==
    \A f \in File :
        /\ record[f].there => ~Fresh(f) /\ record[f].key = f
        /\ f \in shows => /\ message[f] \in {"live", "deleted"}
                          /\ record[f].there => record[f].sent

FileRow == [there : BOOLEAN, sent : BOOLEAN, until : {"none", "ahead", "past"}, key : File]
Does == {"nothing", "upload", "send", "forward", "purge", "delete file", "retire",
         "delete message", "sweep"}
Stage == {"done", "row", "commit", "copy", "discard", "delete", "rows", "object", "erase",
          "detach"}
Work == [does : Does, at : Stage, file : File, linked : BOOLEAN]

FileTypes ==
    /\ object \subseteq File /\ shows \subseteq File /\ aged \subseteq File
    /\ record \in [File -> FileRow] /\ message \in [File -> {"new", "none", "live", "deleted"}]
    /\ task \in [Worker -> Work] /\ fileBudget \in FileBudget

FilesInv ==
    /\ FileTypes /\ (\A t \in Worker : Fits(t)) /\ OneAtATime /\ RowOK
    /\ RowHasObject /\ ObjectHasRow /\ ShownHasRow /\ DeletedIsGone

(* Worker t alone moves. *)
Turns(t) ==
    /\ task' \in [Worker -> Work]
    /\ \A s \in Worker : s # t => task'[s] = task[s]

InStore == {"row", "commit", "discard", "object"}

LEMMA FilesInit == FileInit => FilesInv
  <1> SUFFICES ASSUME FileInit PROVE FilesInv
    OBVIOUS
  <1> USE DEF FileInit, File, First, Copy
  <1>1. Done \in Work /\ NoRow \in FileRow /\ Done.does = "nothing" /\ NoRow.there = FALSE
    BY DEF Done, NoRow, Work, Does, Stage, FileRow
  <1>2. FileTypes
    BY <1>1, FileAssumption DEF FileTypes
  <1>3. \A t \in Worker : Fits(t)
    BY DEF Fits
  <1>4. OneAtATime /\ RowOK
    BY <1>1 DEF OneAtATime, RowOK
  <1>5. RowHasObject /\ ObjectHasRow /\ ShownHasRow /\ DeletedIsGone
    BY <1>1 DEF RowHasObject, ObjectHasRow, ShownHasRow, DeletedIsGone
  <1> QED
    BY <1>2, <1>3, <1>4, <1>5 DEF FilesInv

LEMMA FilesGoes ==
    ASSUME FileTypes, NEW t \in Worker, NEW stage \in Stage, Goes(t, stage)
    PROVE  /\ Turns(t) /\ task'[t] \in Work /\ task'[t].at = stage
           /\ stage = "done" => task'[t] = Done
           /\ stage # "done" => task'[t].does = task[t].does /\ task'[t].file = task[t].file
  <1>1. Done \in Work /\ Done.at = "done"
    BY DEF Done, Work, Does, Stage, File
  <1> DEFINE w == IF stage = "done" THEN Done ELSE [task[t] EXCEPT !.at = stage]
  <1>2. task[t] \in Work
    BY DEF FileTypes
  <1>3. /\ w \in Work /\ w.at = stage /\ (stage = "done" => w = Done)
        /\ stage # "done" => w.does = task[t].does /\ w.file = task[t].file
    BY <1>1, <1>2 DEF Work
  <1>4. task' = [task EXCEPT ![t] = w]
    BY DEF Goes
  <1> HIDE DEF w
  <1> QED
    BY <1>3, <1>4 DEF FileTypes, Turns

LEMMA FilesStarts ==
    ASSUME FileTypes, NEW t \in Worker, NEW what \in Does, NEW stage \in Stage, NEW f \in File,
           Starts(t, what, stage, f)
    PROVE  /\ Turns(t) /\ task[t] = Done
           /\ task'[t].does = what /\ task'[t].at = stage /\ task'[t].file = f
  <1> DEFINE b == what = "delete file" /\ record[f].sent
             w == [does |-> what, at |-> stage, file |-> f, linked |-> b]
  <1>1. b \in BOOLEAN
    BY Zenon
  <1>2. task[t] = Done /\ task' = [task EXCEPT ![t] = w]
    BY DEF Starts
  <1> HIDE DEF b
  <1>3. w \in Work /\ w.does = what /\ w.at = stage /\ w.file = f
    BY <1>1 DEF Work
  <1> HIDE DEF w
  <1> QED
    BY <1>2, <1>3 DEF FileTypes, Turns

(* What the others have in hand they keep. *)
LEMMA FilesHands ==
    ASSUME NEW t \in Worker, Turns(t), NEW f, NEW A
    PROVE  /\ InHand(f, A) => InHand(f, A)' \/ (task[t].file = f /\ task[t].at \in A)
           /\ task'[t].file = f /\ task'[t].at \in A => InHand(f, A)'
  BY DEF Turns, InHand

LEMMA FilesFresh ==
    ASSUME NEW t \in Worker, Turns(t),
           message'[First] = "new" => message[First] = "new",
           message'[Copy] = "none" => message[Copy] = "none",
           task'[t].does = "upload" => Fresh(First)
    PROVE  \A f \in File : ~Fresh(f) => ~Fresh(f)'
  BY DEF Turns, Fresh

(* Task s fits in as before if nothing it relies on has changed. *)
LEMMA FilesFits ==
    ASSUME NEW s \in Worker, Fits(s), task'[s] = task[s], task[s] \in Work,
           \A f \in File : ~Fresh(f) =>
               /\ ~Fresh(f)' /\ (f \notin object => f \notin object')
               /\ ~record[f].there => ~record'[f].there,
           \A f \in File : message[f] = "deleted" => message'[f] = "deleted",
           mishap \subseteq mishap',
           task[s].does = "upload" => message'[First] = "none" /\ First \in object',
           task[s].does = "send" =>
               message'[First] = "none" /\ record'[First].there /\ ~record'[First].sent,
           task[s].does = "forward" =>
               message'[Copy] = "none" /\ (Copy \in object => Copy \in object')
    PROVE  Fits(s)'
  <1>1. PICK f \in File : task[s].file = f /\ task'[s].file = f
    BY DEF Work
  <1>2. CASE task[s] = Done
    BY <1>2 DEF Fits
  <1>3. CASE task[s].does \in {"upload", "send", "forward"}
    <2>1. task[s] # Done
      BY <1>3 DEF Done
    <2> QED
      BY <1>3, <2>1 DEF Fits, At, Old
  <1>4. CASE \/ At(s, "purge", "object") /\ ~Fresh(f) /\ ~record[f].there
             \/ Old(s) /\ task[s].at = "object" /\ ~Fresh(f)
    <2>1. ~Fresh(f)' /\ (~record[f].there => ~record'[f].there)
      BY <1>4
    <2>2. \/ At(s, "purge", "object")' /\ ~Fresh(f)' /\ ~record'[f].there
          \/ Old(s)' /\ task'[s].at = "object" /\ ~Fresh(f)'
      BY <1>4, <2>1 DEF At, Old
    <2> QED
      BY <1>1, <2>2 DEF Fits, Old
  <1>5. CASE /\ Old(s) /\ task[s].at = "erase" /\ ~Fresh(f)
             /\ f \notin object \/ <<"orphaned", f>> \in mishap
    <2>1. ~Fresh(f)' /\ (f \notin object' \/ <<"orphaned", f>> \in mishap')
      BY <1>1, <1>5
    <2> QED
      BY <1>1, <1>5, <2>1 DEF Fits, Old
  <1>6. CASE At(s, "delete file", "detach") /\ ~Fresh(f)
    BY <1>1, <1>6 DEF Fits, At
  <1>7. CASE At(s, "delete message", "rows") /\ message[f] = "deleted"
    BY <1>1, <1>7 DEF Fits, At
  <1>8. CASE At(s, "sweep", "delete") /\ f = First /\ ~Fresh(First)
    BY <1>1, <1>8 DEF Fits, At
  <1> QED
    BY <1>1, <1>2, <1>3, <1>4, <1>5, <1>6, <1>7, <1>8 DEF Fits, At

(* What the deeds of a task tell of where it is. *)
LEMMA FilesTells ==
    ASSUME FilesInv, NEW s \in Worker
    PROVE  /\ task[s] \in Work
           /\ task[s].does = "upload" => message[First] = "none" /\ First \in object
           /\ task[s].does = "send" =>
                  /\ message[First] = "none" /\ record[First].there /\ ~record[First].sent
                  /\ task[s].at = "commit" /\ task[s].file = First
           /\ task[s].does = "forward" => message[Copy] = "none"
           /\ task[s].at = "erase" => Old(s)
           /\ task[s].at = "done" => task[s] = Done
           /\ task[s].at = "row" => task[s].does = "upload" /\ task[s].file = First
           /\ task[s].at = "rows" => /\ task[s].does = "delete message"
                                     /\ message[task[s].file] = "deleted"
  <1>1. Fits(s) /\ task[s] \in Work
    BY DEF FilesInv, FileTypes
  <1>2. Done.does = "nothing" /\ Done.at = "done"
    BY DEF Done
  <1> QED
    BY <1>1, <1>2 DEF Fits, At, Old

LEMMA FilesTasks ==
    ASSUME FilesInv, NEW t \in Worker, Turns(t), Fits(t)',
           \A f \in File : ~Fresh(f) =>
               /\ ~Fresh(f)' /\ (f \notin object => f \notin object')
               /\ ~record[f].there => ~record'[f].there,
           \A f \in File : message[f] = "deleted" => message'[f] = "deleted",
           mishap \subseteq mishap',
           \A s \in Worker : s # t =>
               /\ task[s].does = "upload" => message'[First] = "none" /\ First \in object'
               /\ task[s].does = "send" =>
                      message'[First] = "none" /\ record'[First].there /\ ~record'[First].sent
               /\ task[s].does = "forward" =>
                      message'[Copy] = "none" /\ (Copy \in object => Copy \in object')
               /\ task'[t].does \in {"upload", "send", "forward"} =>
                      task[s].does # task'[t].does
    PROVE  (\A s \in Worker : Fits(s)') /\ OneAtATime'
  <1>1. ASSUME NEW s \in Worker, s # t PROVE Fits(s)'
    <2>1. Fits(s) /\ task[s] \in Work /\ task'[s] = task[s]
      BY <1>1 DEF FilesInv, FileTypes, Turns
    <2> QED
      BY <1>1, <2>1, FilesFits
  <1>2. OneAtATime'
    BY DEF FilesInv, OneAtATime, Turns
  <1> QED
    BY <1>1, <1>2

(* A step of a request that changes nothing but where it is. *)
LEMMA FilesTaskOnly ==
    ASSUME FilesInv, NEW t \in Worker, Turns(t), Fits(t)',
           UNCHANGED <<object, record, message, shows, aged>>,
           fileBudget' \in FileBudget, mishap \subseteq mishap',
           task'[t].does # "upload",
           \A s \in Worker : s # t /\ task'[t].does \in {"send", "forward"} =>
               task[s].does # task'[t].does,
           NEW f \in File, task[t].file = f,
           task[t].at \in {"erase", "detach", "rows"} =>
               \/ <<"stopped", f>> \in mishap'
               \/ task[t].at = "rows" /\ ~record[f].there,
           task[t].at \in InStore =>
               \/ task'[t].file = f /\ task'[t].at \in InStore
               \/ record[f].there \/ f \notin object
               \/ \E what \in {"orphaned", "stopped"} : <<what, f>> \in mishap'
    PROVE  FilesInv'
  <1>1. FileTypes'
    BY DEF FilesInv, FileTypes, Turns
  <1>2. \A g \in File : ~Fresh(g) => ~Fresh(g)'
    BY FilesFresh
  <1>3. \A s \in Worker : /\ task[s].does = "upload" => message[First] = "none" /\ First \in object
                          /\ task[s].does = "send" => /\ message[First] = "none"
                                                      /\ record[First].there
                                                      /\ ~record[First].sent
                          /\ task[s].does = "forward" => message[Copy] = "none"
    BY FilesTells
  <1>4. (\A s \in Worker : Fits(s)') /\ OneAtATime'
    BY <1>2, <1>3, FilesTasks
  <1>5. RowOK'
    BY <1>2 DEF FilesInv, RowOK
  <1>6. \A g, A : /\ InHand(g, A) => InHand(g, A)' \/ (f = g /\ task[t].at \in A)
                  /\ task'[t].file = g /\ task'[t].at \in A => InHand(g, A)'
    BY FilesHands
  <1>7. RowHasObject' /\ DeletedIsGone'
    BY <1>6 DEF FilesInv, RowHasObject, DeletedIsGone
  <1>8. ObjectHasRow'
    <2> SUFFICES ASSUME NEW k \in object
                 PROVE  \/ \E g \in File : record[g].there /\ record[g].key = k
                        \/ InHand(k, InStore)'
                        \/ \E what \in {"orphaned", "stopped"} : <<what, k>> \in mishap'
      BY DEF ObjectHasRow, InStore
    <2>1. \/ \E g \in File : record[g].there /\ record[g].key = k
          \/ InHand(k, InStore)
          \/ \E what \in {"orphaned", "stopped"} : <<what, k>> \in mishap
      BY DEF FilesInv, ObjectHasRow, InStore
    <2>2. InHand(k, InStore) => InHand(k, InStore)' \/ (f = k /\ task[t].at \in InStore)
      BY <1>6
    <2>3. task'[t].file = k /\ task'[t].at \in InStore => InHand(k, InStore)'
      BY <1>6
    <2>4. record[f].there => record[f].key = f
      BY DEF FilesInv, RowOK
    <2> QED
      BY <2>1, <2>2, <2>3, <2>4
  <1>9. ShownHasRow'
    <2> SUFFICES ASSUME NEW g \in shows
                 PROVE  \/ record[g].there \/ message[g] = "deleted" \/ InHand(g, {"detach"})'
                        \/ \E what \in {"swept", "unannounced", "stopped"} : <<what, g>> \in mishap'
      BY DEF ShownHasRow
    <2>1. \/ record[g].there \/ message[g] = "deleted" \/ InHand(g, {"detach"})
          \/ \E what \in {"swept", "unannounced", "stopped"} : <<what, g>> \in mishap
      BY DEF FilesInv, ShownHasRow
    <2>2. InHand(g, {"detach"}) => InHand(g, {"detach"})' \/ (f = g /\ task[t].at = "detach")
      BY <1>6
    <2> QED
      BY <2>1, <2>2
  <1> QED
    BY <1>1, <1>4, <1>5, <1>7, <1>8, <1>9 DEF FilesInv

LEMMA FileSpends == ASSUME FileTypes, Fault PROVE fileBudget' \in FileBudget
  BY DEF FileTypes, Fault, FileBudget

LEMMA FilesBegins ==
    ASSUME FilesInv, NEW t \in Worker, NEW f \in File,
           \/ SendDraft(t) \/ Forward(t) \/ PickDraft(t) \/ DeleteFile(t, f) \/ RetireFile(t, f)
    PROVE  FilesInv'
  <1> USE DEF File, Does, Stage
  <1>1. FileTypes /\ fileBudget \in FileBudget
    BY DEF FilesInv, FileTypes
  <1>2. UNCHANGED <<object, record, message, shows, aged, fileBudget, mishap>>
    BY DEF SendDraft, Forward, PickDraft, DeleteFile, RetireFile
  <1>3. PICK g \in File : task[t].file = g
    BY DEF FilesInv, FileTypes, Work
  <1>4. \A h \in File : record[h].there => ~Fresh(h)
    BY DEF FilesInv, RowOK
  <1>5. ASSUME Turns(t), task[t] = Done, Fits(t)', task'[t].does # "upload",
               \A s \in Worker : s # t /\ task'[t].does \in {"send", "forward"} =>
                   task[s].does # task'[t].does
        PROVE  FilesInv'
    <2>1. task[t].at = "done"
      BY <1>5 DEF Done
    <2> QED
      BY <1>1, <1>2, <1>3, <1>5, <2>1, FilesTaskOnly DEF InStore
  <1>6. CASE SendDraft(t)
    <2>1. /\ Turns(t) /\ task[t] = Done
          /\ task'[t].does = "send" /\ task'[t].at = "commit" /\ task'[t].file = First
      BY <1>1, <1>6, FilesStarts DEF SendDraft
    <2>2. \A s \in Worker : task[s].does # "send"
      <3>1. \A s \in Worker : task[s].does = "send" =>
                At(s, "send", "commit") /\ task[s].file = First
        BY FilesTells DEF At
      <3> QED
        BY <1>6, <3>1 DEF SendDraft, MayClaimDraft, Claimed
    <2>3. Fits(t)'
      BY <1>2, <1>6, <2>1 DEF SendDraft, MayClaimDraft, Fits, At
    <2> QED
      BY <1>5, <2>1, <2>2, <2>3
  <1>7. CASE Forward(t)
    <2>1. /\ Turns(t) /\ task[t] = Done
          /\ task'[t].does = "forward" /\ task'[t].at = "copy" /\ task'[t].file = First
      BY <1>1, <1>7, FilesStarts DEF Forward
    <2>2. \A s \in Worker : task[s].does # "forward"
      BY <1>7 DEF Forward
    <2>3. Fits(t)'
      BY <1>2, <1>7, <2>1 DEF Forward, Fits, At
    <2> QED
      BY <1>5, <2>1, <2>2, <2>3
  <1>8. CASE PickDraft(t)
    <2>1. /\ Turns(t) /\ task[t] = Done
          /\ task'[t].does = "sweep" /\ task'[t].at = "delete" /\ task'[t].file = First
      BY <1>1, <1>8, FilesStarts DEF PickDraft
    <2>2. ~Fresh(First)
      BY <1>4, <1>8 DEF PickDraft, MaySweep
    <2>3. ~Fresh(First)'
      BY <1>2, <2>1, <2>2, FilesFresh
    <2>4. Fits(t)'
      BY <2>1, <2>3 DEF Fits, At
    <2> QED
      BY <1>5, <2>1, <2>4
  <1>9. CASE DeleteFile(t, f) \/ RetireFile(t, f)
    <2>1. /\ Turns(t) /\ task[t] = Done /\ task'[t].at = "object" /\ task'[t].file = f
          /\ task'[t].does \in {"delete file", "retire"}
      <3>0. "delete file" \in Does /\ "retire" \in Does /\ "object" \in Stage
        OBVIOUS
      <3> HIDE DEF File, Does, Stage
      <3>1. CASE Starts(t, "delete file", "object", f)
        BY <1>1, <3>0, <3>1, FilesStarts
      <3>2. CASE Starts(t, "retire", "object", f)
        BY <1>1, <3>0, <3>2, FilesStarts
      <3> QED
        BY <1>9, <3>1, <3>2 DEF DeleteFile, RetireFile
    <2>2. ~Fresh(f)
      BY <1>4, <1>9 DEF DeleteFile, RetireFile, PastFiles
    <2>3. ~Fresh(f)'
      BY <1>2, <2>1, <2>2, FilesFresh
    <2>4. Fits(t)'
      BY <2>1, <2>3 DEF Fits, Old
    <2> QED
      BY <1>5, <2>1, <2>4
  <1> QED
    BY <1>6, <1>7, <1>8, <1>9

LEMMA FilesEnds ==
    ASSUME FilesInv, NEW t \in Worker,
           SendFails(t) \/ ForwardFails(t) \/ StoreFails(t) \/ TaskDies(t)
    PROVE  FilesInv'
  <1> USE DEF File
  <1>1. FileTypes /\ {"done", "erase", "discard"} \subseteq Stage
    BY DEF FilesInv, Stage
  <1>2. UNCHANGED <<object, record, message, shows, aged>> /\ mishap \subseteq mishap'
    BY DEF SendFails, ForwardFails, StoreFails, TaskDies, Mishap
  <1>3. fileBudget' \in FileBudget
    BY <1>1, FileSpends DEF SendFails, ForwardFails, StoreFails, TaskDies
  <1>4. PICK f \in File : task[t].file = f
    BY <1>1 DEF FileTypes, Work
  <1>5. Done.at = "done" /\ Done.does = "nothing" /\ Fits(t)
    BY DEF Done, FilesInv
  <1>6. ASSUME Goes(t, "done"),
               task[t].at \in {"erase", "detach", "rows"} => <<"stopped", f>> \in mishap',
               task[t].at \in InStore =>
                   \/ record[f].there
                   \/ \E what \in {"orphaned", "stopped"} : <<what, f>> \in mishap'
        PROVE  FilesInv'
    <2>1. Turns(t) /\ task'[t] = Done
      BY <1>1, <1>6, FilesGoes
    <2>2. Fits(t)'
      BY <2>1 DEF Fits
    <2> QED
      BY <1>2, <1>3, <1>4, <1>5, <1>6, <2>1, <2>2, FilesTaskOnly
  <1>7. CASE SendFails(t)
    <2>1. At(t, "send", "commit") /\ Goes(t, "done")
      BY <1>7 DEF SendFails
    <2>2. record[f].there
      BY <1>4, <2>1, FilesTells DEF At
    <2> QED
      BY <1>6, <2>1, <2>2 DEF At
  <1>8. CASE TaskDies(t)
    BY <1>4, <1>6, <1>8 DEF TaskDies, Mishap
  <1>9. CASE ForwardFails(t)
    <2>1. At(t, "forward", "commit") /\ Goes(t, "discard")
      BY <1>9 DEF ForwardFails, AfterFailedForward
    <2>2. /\ Turns(t) /\ task'[t].does = "forward" /\ task'[t].at = "discard"
          /\ task'[t].file = f
      BY <1>1, <1>4, <2>1, FilesGoes DEF At
    <2>3. f = Copy /\ message[Copy] = "none"
      BY <1>4, <1>5, <2>1 DEF Fits, At, Old
    <2>4. Fits(t)'
      BY <1>2, <2>2, <2>3 DEF Fits, At
    <2>5. \A s \in Worker : s # t => task[s].does # "forward"
      BY <2>1 DEF FilesInv, OneAtATime, At
    <2> QED
      BY <1>2, <1>3, <1>4, <2>1, <2>2, <2>4, <2>5, FilesTaskOnly DEF At, InStore
  <1>10. CASE StoreFails(t)
    <2>1. /\ task[t].at \in {"object", "discard"} /\ <<"orphaned", f>> \in mishap'
          /\ Goes(t, IF Old(t) THEN "erase" ELSE "done")
      BY <1>4, <1>10 DEF StoreFails, Mishap
    <2>2. CASE ~Old(t)
      BY <1>6, <2>1, <2>2
    <2>3. CASE Old(t)
      <3>1. /\ Turns(t) /\ task'[t].does = task[t].does /\ task'[t].at = "erase"
            /\ task'[t].file = f
        BY <1>1, <1>4, <2>1, <2>3, FilesGoes
      <3>2. ~Fresh(f)
        BY <1>4, <1>5, <2>1, <2>3 DEF Fits, At, Old
      <3>3. ~Fresh(f)'
        BY <1>2, <2>3, <3>1, <3>2, FilesFresh DEF Old
      <3>4. Fits(t)'
        BY <2>1, <2>3, <3>1, <3>3 DEF Fits, Old
      <3> QED
        BY <1>2, <1>3, <1>4, <2>1, <2>3, <3>1, <3>4, FilesTaskOnly DEF Old
    <2> QED
      BY <2>2, <2>3
  <1> QED
    BY <1>7, <1>8, <1>9, <1>10

(* A row goes, with its object to be purged. *)
LEMMA FilesDeletesRow ==
    ASSUME FilesInv, NEW t \in Worker, NEW f \in File, DeletesRow(t, f), ~Claimed(f),
           UNCHANGED <<object, message, aged, fileBudget>>, mishap \subseteq mishap',
           shows' \subseteq shows,
           task[t].at \in {"done", "rows", "delete"},
           task[t].at = "rows" => task[t].file = f,
           f \in shows' /\ record[f].there => message[f] = "deleted" \/ <<"swept", f>> \in mishap'
    PROVE  FilesInv'
  <1> USE DEF File
  <1>1. FileTypes /\ (\A s \in Worker : Fits(s)) /\ OneAtATime /\ RowOK
    BY DEF FilesInv
  <1>2. /\ record' \in [File -> FileRow] /\ ~record'[f].there
        /\ \A g \in File : g # f => record'[g] = record[g]
    <2>1. NoRow \in FileRow /\ ~NoRow.there
      BY DEF NoRow, FileRow
    <2> QED
      BY <1>1, <2>1 DEF FileTypes, DeletesRow
  <1>3. /\ Turns(t)
        /\ IF record[f].there
           THEN task'[t].does = "purge" /\ task'[t].at = "object" /\ task'[t].file = f
           ELSE task'[t] = Done
    <2> DEFINE w == [does |-> "purge", at |-> "object", file |-> record[f].key, linked |-> FALSE]
    <2>1. /\ record[f].key \in File /\ record[f].there \in BOOLEAN
          /\ record[f].there => record[f].key = f
      BY <1>1 DEF FileTypes, FileRow, RowOK
    <2>2. Done \in Work
      BY DEF Done, Work, Does, Stage
    <2>3. w \in Work /\ w.does = "purge" /\ w.at = "object" /\ w.file = record[f].key
      BY <2>1 DEF Work, Does, Stage
    <2>4. task' = [task EXCEPT ![t] = IF record[f].there THEN w ELSE Done]
      BY DEF DeletesRow
    <2> HIDE DEF w
    <2> QED
      BY <1>1, <2>1, <2>2, <2>3, <2>4 DEF FileTypes, Turns
  <1>4. Done.does = "nothing" /\ Done.at = "done"
    BY DEF Done
  <1>5. FileTypes'
    BY <1>1, <1>2, <1>3 DEF FileTypes, Turns
  <1>6. \A g \in File : ~Fresh(g) => ~Fresh(g)'
    BY <1>3, <1>4, FilesFresh
  <1>7. Fits(t)'
    <2>1. CASE record[f].there
      <3>1. ~Fresh(f)'
        BY <1>1, <1>6, <2>1 DEF RowOK
      <3> QED
        BY <1>2, <1>3, <2>1, <3>1 DEF Fits, At
    <2>2. CASE ~record[f].there
      BY <1>3, <2>2 DEF Fits
    <2> QED
      BY <2>1, <2>2
  <1>8. \A s \in Worker :
           /\ task[s].does = "upload" => message[First] = "none" /\ First \in object
           /\ task[s].does = "send" =>
                  message[First] = "none" /\ record'[First].there /\ ~record'[First].sent
           /\ task[s].does = "forward" => message[Copy] = "none"
    <2>1. \A s \in Worker :
             /\ task[s].does = "upload" => message[First] = "none" /\ First \in object
             /\ task[s].does = "send" =>
                    /\ message[First] = "none" /\ record[First].there /\ ~record[First].sent
                    /\ task[s].at = "commit" /\ task[s].file = First
             /\ task[s].does = "forward" => message[Copy] = "none"
      BY FilesTells
    <2>2. \A s \in Worker : task[s].does = "send" => f # First
      BY <2>1 DEF Claimed, At
    <2> QED
      BY <1>2, <2>1, <2>2
  <1>9. (\A s \in Worker : Fits(s)') /\ OneAtATime'
    <2>1. \A g \in File : ~record[g].there => ~record'[g].there
      BY <1>2
    <2>2. task'[t].does \notin {"upload", "send", "forward"}
      BY <1>3, <1>4
    <2> QED
      BY <1>3, <1>6, <1>7, <1>8, <2>1, <2>2, FilesTasks
  <1>10. RowOK'
    BY <1>1, <1>2, <1>6 DEF RowOK
  <1>11. \A g, A : /\ InHand(g, A) => InHand(g, A)' \/ (task[t].file = g /\ task[t].at \in A)
                   /\ task'[t].file = g /\ task'[t].at \in A => InHand(g, A)'
    BY <1>3, FilesHands
  <1>12. RowHasObject'
    BY <1>2, <1>11 DEF FilesInv, RowHasObject
  <1>13. DeletedIsGone'
    BY <1>2, <1>11 DEF FilesInv, DeletedIsGone
  <1>14. ObjectHasRow'
    <2> SUFFICES ASSUME NEW k \in object
                 PROVE  \/ \E g \in File : record'[g].there /\ record'[g].key = k
                        \/ InHand(k, InStore)'
                        \/ \E what \in {"orphaned", "stopped"} : <<what, k>> \in mishap'
      BY DEF ObjectHasRow, InStore
    <2>1. \/ \E g \in File : record[g].there /\ record[g].key = k
          \/ InHand(k, InStore)
          \/ \E what \in {"orphaned", "stopped"} : <<what, k>> \in mishap
      BY DEF FilesInv, ObjectHasRow, InStore
    <2>2. InHand(k, InStore) => InHand(k, InStore)'
      BY <1>11 DEF InStore
    <2>3. record[f].there => InHand(f, InStore)'
      BY <1>3, <1>11 DEF InStore
    <2>4. record[f].there => record[f].key = f
      BY <1>1 DEF RowOK
    <2> QED
      BY <1>2, <2>1, <2>2, <2>3, <2>4
  <1>15. ShownHasRow'
    <2> SUFFICES ASSUME NEW g \in shows'
                 PROVE  \/ record'[g].there \/ message[g] = "deleted" \/ InHand(g, {"detach"})'
                        \/ \E what \in {"swept", "unannounced", "stopped"} : <<what, g>> \in mishap'
      BY DEF ShownHasRow
    <2>1. /\ g \in File
          /\ \/ record[g].there \/ message[g] = "deleted" \/ InHand(g, {"detach"})
             \/ \E what \in {"swept", "unannounced", "stopped"} : <<what, g>> \in mishap
      BY <1>1 DEF FilesInv, ShownHasRow, FileTypes
    <2>2. InHand(g, {"detach"}) => InHand(g, {"detach"})'
      BY <1>11
    <2> QED
      BY <1>2, <2>1, <2>2
  <1> QED
    BY <1>5, <1>9, <1>10, <1>12, <1>13, <1>14, <1>15 DEF FilesInv

LEMMA FilesEdits ==
    ASSUME FilesInv, NEW t \in Worker, NEW f \in File,
           EditMessage(t, f) \/ DeleteAttachments(t) \/ SweepDraft(t)
    PROVE  FilesInv'
  <1> USE DEF File
  <1>1. FileTypes /\ "done" \in Stage
    BY DEF FilesInv, Stage
  <1>2. CASE EditMessage(t, f)
    <2>1. task[t].at = "done"
      BY <1>2 DEF EditMessage, Done
    <2> QED
      BY <1>2, <2>1, FilesDeletesRow DEF EditMessage, ShowsAfterEdit
  <1>3. CASE SweepDraft(t)
    <2>1. First \in shows /\ record[First].there => <<"swept", First>> \in mishap'
      <3>1. First \in shows /\ record[First].there => record[First].sent
        BY DEF FilesInv, RowOK
      <3> QED
        BY <1>3, <3>1 DEF SweepDraft, Mishap
    <2>2. mishap \subseteq mishap' /\ task[t].at = "delete"
      BY <1>3 DEF SweepDraft, Mishap, At
    <2> QED
      BY <1>3, <2>1, <2>2, FilesDeletesRow DEF SweepDraft
  <1>4. CASE DeleteAttachments(t)
    <2>1. PICK g \in File : task[t].file = g
      BY <1>1 DEF FileTypes, Work
    <2>2. task[t].at = "rows" /\ message[g] = "deleted"
      BY <1>4, <2>1, FilesTells DEF DeleteAttachments, At
    <2>3. UNCHANGED <<object, message, shows, aged, fileBudget, mishap>>
      BY <1>4 DEF DeleteAttachments
    <2>4. CASE record[g].there
      <3>1. ~Claimed(g)
        <4>1. \A s \in Worker : At(s, "send", "commit") /\ task[s].file = g =>
                  message[g] = "none"
          BY FilesTells DEF At
        <4> QED
          BY <2>2, <4>1 DEF Claimed
      <3> QED
        BY <1>4, <2>1, <2>2, <2>3, <2>4, <3>1, FilesDeletesRow
           DEF DeleteAttachments, AttachedTo
    <2>5. CASE ~record[g].there
      <3>1. Goes(t, "done") /\ UNCHANGED record
        BY <1>4, <2>1, <2>5 DEF DeleteAttachments, AttachedTo
      <3>2. Turns(t) /\ task'[t] = Done
        BY <1>1, <3>1, FilesGoes
      <3>3. Fits(t)' /\ Done.does = "nothing"
        BY <3>2 DEF Fits, Done
      <3> QED
        BY <1>1, <2>1, <2>2, <2>3, <2>5, <3>1, <3>2, <3>3, FilesTaskOnly
           DEF FileTypes, InStore
    <2> QED
      BY <2>4, <2>5
  <1> QED
    BY <1>2, <1>3, <1>4

(* An object goes, the row after it or before. *)
LEMMA FilesRemoves ==
    ASSUME FilesInv, NEW t \in Worker, DiscardCopy(t) \/ PurgeObject(t) \/ RemoveObject(t)
    PROVE  FilesInv'
  <1> USE DEF File
  <1>1. /\ FileTypes /\ (\A s \in Worker : Fits(s)) /\ OneAtATime /\ RowOK
        /\ {"done", "erase"} \subseteq Stage
    BY DEF FilesInv, Stage
  <1>2. PICK f \in File : task[t].file = f
    BY <1>1 DEF FileTypes, Work
  <1>3. UNCHANGED <<record, message, shows, aged, fileBudget, mishap>>
    BY DEF DiscardCopy, PurgeObject, RemoveObject
  <1>4. Done.does = "nothing" /\ Done.at = "done"
    BY DEF Done
  <1>5. /\ Turns(t) /\ object' = object \ {f} /\ task[t].at \in {"object", "discard"}
        /\ \/ /\ Old(t) /\ ~Fresh(f) /\ task'[t].does = task[t].does
              /\ task'[t].at = "erase" /\ task'[t].file = f
           \/ task'[t] = Done /\ ~Fresh(f) /\ ~record[f].there
           \/ task'[t] = Done /\ f = Copy /\ task[t].does = "forward" /\ ~record[f].there
    <2>1. CASE RemoveObject(t)
      <3>1. Old(t) /\ task[t].at = "object" /\ Goes(t, "erase") /\ object' = object \ {f}
        BY <1>2, <2>1 DEF RemoveObject
      <3>2. /\ Turns(t) /\ task'[t].does = task[t].does
            /\ task'[t].at = "erase" /\ task'[t].file = f
        BY <1>1, <1>2, <3>1, FilesGoes
      <3>3. ~Fresh(f)
        BY <1>1, <1>2, <1>4, <3>1 DEF Fits, At, Old
      <3> QED
        BY <3>1, <3>2, <3>3
    <2>2. CASE PurgeObject(t)
      <3>1. At(t, "purge", "object") /\ Goes(t, "done") /\ object' = object \ {f}
        BY <1>2, <2>2 DEF PurgeObject
      <3>2. Turns(t) /\ task'[t] = Done
        BY <1>1, <3>1, FilesGoes
      <3>3. ~Fresh(f) /\ ~record[f].there
        BY <1>1, <1>2, <1>4, <3>1 DEF Fits, At, Old
      <3> QED
        BY <3>1, <3>2, <3>3 DEF At
    <2>3. CASE DiscardCopy(t)
      <3>1. At(t, "forward", "discard") /\ Goes(t, "done") /\ object' = object \ {Copy}
        BY <2>3 DEF DiscardCopy, CopyKey
      <3>2. Turns(t) /\ task'[t] = Done
        BY <1>1, <3>1, FilesGoes
      <3>3. f = Copy /\ message[Copy] = "none"
        BY <1>1, <1>2, <1>4, <3>1 DEF Fits, At, Old
      <3>4. ~record[Copy].there
        BY <1>1, <3>3 DEF RowOK, Fresh, First, Copy
      <3> QED
        BY <3>1, <3>2, <3>3, <3>4 DEF At
    <2> QED
      BY <2>1, <2>2, <2>3
  <1>6. FileTypes'
    BY <1>1, <1>3, <1>5 DEF FileTypes, Turns
  <1>7. task'[t].does \notin {"upload", "send", "forward"}
    BY <1>4, <1>5 DEF Old
  <1>8. \A g \in File : ~Fresh(g) => ~Fresh(g)'
    BY <1>3, <1>5, <1>7, FilesFresh
  <1>9. Fits(t)'
    <2>1. CASE task'[t] = Done
      BY <2>1 DEF Fits
    <2>2. CASE Old(t) /\ ~Fresh(f) /\ task'[t].does = task[t].does
               /\ task'[t].at = "erase" /\ task'[t].file = f
      <3>1. ~Fresh(f)' /\ f \notin object'
        BY <1>5, <1>8, <2>2
      <3> QED
        BY <2>2, <3>1 DEF Fits, Old
    <2> QED
      BY <1>5, <2>1, <2>2
  <1>10. (\A s \in Worker : Fits(s)') /\ OneAtATime'
    <2>1. \A s \in Worker :
             /\ task[s].does = "upload" => message[First] = "none" /\ First \in object
             /\ task[s].does = "send" =>
                    message[First] = "none" /\ record[First].there /\ ~record[First].sent
             /\ task[s].does = "forward" => message[Copy] = "none"
      BY FilesTells
    <2>2. \A s \in Worker : s # t /\ task[s].does = "upload" => f # First
      BY <1>5 DEF Fresh, First, Copy
    <2>3. \A s \in Worker : s # t /\ task[s].does = "forward" => f # Copy
      BY <1>1, <1>5, <2>1 DEF OneAtATime, Fresh, First, Copy
    <2> QED
      BY <1>3, <1>5, <1>7, <1>8, <1>9, <2>1, <2>2, <2>3, FilesTasks
  <1>11. RowOK'
    BY <1>1, <1>3, <1>8 DEF RowOK
  <1>12. \A g, A : /\ InHand(g, A) => InHand(g, A)' \/ (f = g /\ task[t].at \in A)
                   /\ task'[t].file = g /\ task'[t].at \in A => InHand(g, A)'
    BY <1>2, <1>5, FilesHands
  <1>13. RowHasObject'
    <2> SUFFICES ASSUME NEW g \in File, record[g].there
                 PROVE  \/ record[g].key \in object' \/ InHand(g, {"erase"})'
                        \/ <<"stopped", g>> \in mishap
      BY <1>3 DEF RowHasObject
    <2>1. record[g].key = g /\ (g \in object \/ InHand(g, {"erase"}) \/ <<"stopped", g>> \in mishap)
      BY <1>1 DEF RowOK, FilesInv, RowHasObject
    <2>2. InHand(g, {"erase"}) => InHand(g, {"erase"})'
      BY <1>5, <1>12
    <2>3. g = f => InHand(f, {"erase"})'
      BY <1>5, <1>12
    <2> QED
      BY <1>5, <2>1, <2>2, <2>3
  <1>14. ObjectHasRow'
    <2> SUFFICES ASSUME NEW k \in object, k # f
                 PROVE  \/ \E g \in File : record[g].there /\ record[g].key = k
                        \/ InHand(k, InStore)'
                        \/ \E what \in {"orphaned", "stopped"} : <<what, k>> \in mishap
      BY <1>3, <1>5 DEF ObjectHasRow, InStore
    <2>1. \/ \E g \in File : record[g].there /\ record[g].key = k
          \/ InHand(k, InStore)
          \/ \E what \in {"orphaned", "stopped"} : <<what, k>> \in mishap
      BY DEF FilesInv, ObjectHasRow, InStore
    <2>2. InHand(k, InStore) => InHand(k, InStore)'
      BY <1>12
    <2> QED
      BY <2>1, <2>2
  <1>15. ShownHasRow'
    <2> SUFFICES ASSUME NEW g \in shows
                 PROVE  \/ record[g].there \/ message[g] = "deleted" \/ InHand(g, {"detach"})'
                        \/ \E what \in {"swept", "unannounced", "stopped"} : <<what, g>> \in mishap
      BY <1>3 DEF ShownHasRow
    <2>1. InHand(g, {"detach"}) => InHand(g, {"detach"})'
      BY <1>5, <1>12
    <2> QED
      BY <2>1 DEF FilesInv, ShownHasRow
  <1>16. DeletedIsGone'
    <2>1. \A g : InHand(g, {"rows"}) => InHand(g, {"rows"})'
      BY <1>5, <1>12
    <2> QED
      BY <1>3, <2>1 DEF FilesInv, DeletedIsGone
  <1> QED
    BY <1>6, <1>10, <1>11, <1>13, <1>14, <1>15, <1>16 DEF FilesInv

(* Only a deadline passes, or is put off. *)
LEMMA FilesQuiet ==
    ASSUME FilesInv, UNCHANGED <<object, message, shows, task, mishap>>, FileTypes',
           \A f \in File : /\ record'[f].there = record[f].there
                           /\ record'[f].sent = record[f].sent
                           /\ record'[f].key = record[f].key
    PROVE  FilesInv'
  <1> USE DEF File
  <1>1. \A f : Fresh(f)' <=> Fresh(f)
    BY DEF Fresh
  <1>2. \A f, A : InHand(f, A)' <=> InHand(f, A)
    BY DEF InHand
  <1>3. ASSUME NEW s \in Worker PROVE Fits(s)'
    <2>1. Fits(s) /\ task[s] \in Work /\ task'[s] = task[s]
      BY DEF FilesInv, FileTypes
    <2>2. /\ task[s].does = "upload" => message[First] = "none" /\ First \in object
          /\ task[s].does = "send" =>
                 message[First] = "none" /\ record[First].there /\ ~record[First].sent
          /\ task[s].does = "forward" => message[Copy] = "none"
      BY FilesTells
    <2> QED
      BY <1>1, <2>1, <2>2, FilesFits
  <1>4. OneAtATime' /\ RowOK'
    BY <1>1 DEF FilesInv, OneAtATime, RowOK
  <1>5. RowHasObject' /\ ObjectHasRow'
    BY <1>2 DEF FilesInv, RowHasObject, ObjectHasRow
  <1>6. ShownHasRow'
    <2>1. \A f \in shows : f \in File
      BY DEF FilesInv, FileTypes
    <2> QED
      BY <1>2, <2>1 DEF FilesInv, ShownHasRow
  <1>7. DeletedIsGone'
    BY <1>2 DEF FilesInv, DeletedIsGone
  <1> QED
    BY <1>3, <1>4, <1>5, <1>6, <1>7 DEF FilesInv

LEMMA FilesDeadlines ==
    ASSUME FilesInv, DraftExpires \/ HoldDraft \/ \E f \in File : FileAges(f)
    PROVE  FilesInv'
  <1> USE DEF File
  <1>1. FileTypes
    BY DEF FilesInv
  <1>2. CASE DraftExpires \/ HoldDraft
    <2>1. PICK until \in {"ahead", "past"} : record' = [record EXCEPT ![First].until = until]
      BY <1>2 DEF DraftExpires, HoldDraft
    <2>2. record[First] \in FileRow
      BY <1>1 DEF FileTypes
    <2> DEFINE r == [record[First] EXCEPT !.until = until]
    <2>3. /\ r \in FileRow /\ r.there = record[First].there /\ r.sent = record[First].sent
          /\ r.key = record[First].key
      BY <2>2 DEF FileRow
    <2>4. record' = [record EXCEPT ![First] = r]
      BY <2>1
    <2> HIDE DEF r
    <2>5. /\ record' \in [File -> FileRow] /\ record'[First] = r
          /\ \A f \in File : f # First => record'[f] = record[f]
      BY <1>1, <2>3, <2>4 DEF FileTypes
    <2>6. fileBudget' \in FileBudget
      BY <1>1, <1>2 DEF FileTypes, DraftExpires, HoldDraft, FileBudget
    <2>7. UNCHANGED <<object, message, shows, aged, task, mishap>>
      BY <1>2 DEF DraftExpires, HoldDraft
    <2>8. FileTypes'
      BY <1>1, <2>5, <2>6, <2>7 DEF FileTypes
    <2> QED
      BY <2>3, <2>5, <2>7, <2>8, FilesQuiet
  <1>3. CASE \E f \in File : FileAges(f)
    <2>1. PICK f \in File : FileAges(f)
      BY <1>3
    <2>2. /\ UNCHANGED <<object, record, message, shows, task, mishap>>
          /\ aged' = aged \cup {f}
      BY <2>1 DEF FileAges
    <2>3. fileBudget' \in FileBudget
      BY <1>1, <2>1 DEF FileTypes, FileAges, FileBudget
    <2>4. FileTypes'
      BY <1>1, <2>2, <2>3 DEF FileTypes
    <2> QED
      BY <2>2, <2>4, FilesQuiet
  <1> QED
    BY <1>2, <1>3

LEMMA FilesUpload == ASSUME FilesInv, NEW t \in Worker, Upload(t) PROVE FilesInv'
  <1> USE DEF File, First, Copy
  <1>1. FileTypes /\ RowOK /\ message[First] = "new"
    BY DEF FilesInv, Upload
  <1>2. /\ object' = object \cup {First} /\ UNCHANGED <<record, shows, aged, fileBudget, mishap>>
        /\ message' \in [File -> {"new", "none", "live", "deleted"}]
        /\ message'[First] = "none" /\ message'[Copy] = message[Copy]
    BY <1>1 DEF Upload, FileTypes
  <1>3. /\ Turns(t) /\ task[t] = Done
        /\ task'[t].does = "upload" /\ task'[t].at = "row" /\ task'[t].file = First
    BY <1>1, FilesStarts DEF Upload, Does, Stage
  <1>4. FileTypes'
    BY <1>1, <1>2, <1>3 DEF FileTypes, Turns
  <1>5. Fresh(First)
    BY <1>1 DEF Fresh
  <1>6. \A f \in File : ~Fresh(f) => ~Fresh(f)'
    BY <1>2, <1>3, <1>5, FilesFresh
  <1>7. \A s \in Worker : /\ task[s].does \notin {"upload", "send"}
                          /\ task[s].does = "forward" => message[Copy] = "none"
    <2>1. \A s \in Worker : /\ task[s].does \in {"upload", "send"} => message[First] = "none"
                            /\ task[s].does = "forward" => message[Copy] = "none"
      BY FilesTells
    <2> QED
      BY <1>1, <2>1
  <1>8. Fits(t)'
    BY <1>2, <1>3 DEF Fits, At
  <1>9. (\A s \in Worker : Fits(s)') /\ OneAtATime'
    BY <1>1, <1>2, <1>3, <1>5, <1>6, <1>7, <1>8, FilesTasks
  <1>10. RowOK'
    BY <1>1, <1>2, <1>6 DEF RowOK
  <1>11. \A g, A : /\ InHand(g, A) => InHand(g, A)' \/ (task[t].file = g /\ task[t].at \in A)
                   /\ task'[t].file = g /\ task'[t].at \in A => InHand(g, A)'
    BY <1>3, FilesHands
  <1>12. task[t].at = "done"
    <2>1. Done.at = "done"
      BY DEF Done
    <2> QED
      BY <1>3, <2>1
  <1>13. RowHasObject' /\ ShownHasRow' /\ DeletedIsGone'
    <2>1. RowHasObject'
      BY <1>2, <1>11, <1>12 DEF FilesInv, RowHasObject
    <2>2. ShownHasRow'
      <3> SUFFICES ASSUME NEW g \in shows
                   PROVE  \/ record[g].there \/ message'[g] = "deleted" \/ InHand(g, {"detach"})'
                          \/ \E what \in {"swept", "unannounced", "stopped"} : <<what, g>> \in mishap
        BY <1>2 DEF ShownHasRow
      <3>1. g = Copy
        BY <1>1 DEF RowOK, FileTypes
      <3>2. InHand(g, {"detach"}) => InHand(g, {"detach"})'
        BY <1>11, <1>12
      <3> QED
        BY <1>2, <3>1, <3>2 DEF FilesInv, ShownHasRow
    <2>3. DeletedIsGone'
      BY <1>1, <1>2, <1>11, <1>12 DEF FilesInv, DeletedIsGone
    <2> QED
      BY <2>1, <2>2, <2>3
  <1>14. ObjectHasRow'
    <2>1. \A k : InHand(k, InStore) => InHand(k, InStore)'
      BY <1>11, <1>12 DEF InStore
    <2>2. InHand(First, InStore)'
      BY <1>3, <1>11 DEF InStore
    <2> QED
      BY <1>2, <2>1, <2>2 DEF FilesInv, ObjectHasRow, InStore
  <1> QED
    BY <1>4, <1>9, <1>10, <1>13, <1>14 DEF FilesInv

(* A row is made, or made a message's. *)
LEMMA FilesWritesRow ==
    ASSUME FilesInv, NEW t \in Worker, NEW f \in File, NEW r \in FileRow,
           record' = [record EXCEPT ![f] = r], r.there, r.key = f,
           Goes(t, "done"), task[t].file = f, task[t].at \in {"row", "commit"},
           UNCHANGED <<object, aged, fileBudget, mishap>>, ~Fresh(f)',
           f \in object \/ record[f].there,
           \/ message' = message /\ shows' = shows /\ message[f] = "none"
           \/ /\ message' = [message EXCEPT ![f] = "live"] /\ shows' = shows \cup {f}
              /\ r.sent /\ message[f] = "none",
           \A s \in Worker : s # t =>
               /\ f = First => task[s].does \notin {"upload", "send"}
               /\ f = Copy => task[s].does # "forward"
    PROVE  FilesInv'
  <1> USE DEF File, First, Copy
  <1>1. FileTypes /\ RowOK /\ "done" \in Stage
    BY DEF FilesInv, Stage
  <1>2. /\ record' \in [File -> FileRow] /\ record'[f] = r
        /\ \A g \in File : g # f => record'[g] = record[g]
    BY <1>1 DEF FileTypes
  <1>3. /\ message' \in [File -> {"new", "none", "live", "deleted"}]
        /\ \A g \in File : g # f => message'[g] = message[g]
        /\ message'[f] \in {"none", "live"}
        /\ f \in shows' => message'[f] = "live" /\ r.sent
        /\ shows' \subseteq shows \cup {f}
    BY <1>1 DEF FileTypes, RowOK
  <1>4. Turns(t) /\ task'[t] = Done
    BY <1>1, FilesGoes
  <1>5. Done.does = "nothing" /\ Done.at = "done"
    BY DEF Done
  <1>6. FileTypes'
    BY <1>1, <1>2, <1>3, <1>4 DEF FileTypes, Turns
  <1>7. \A g \in File : ~Fresh(g) => ~Fresh(g)'
    BY <1>3, <1>4, <1>5, FilesFresh
  <1>8. Fits(t)'
    BY <1>4 DEF Fits
  <1>9. (\A s \in Worker : Fits(s)') /\ OneAtATime'
    <2>1. \A s \in Worker :
             /\ task[s].does = "upload" => message[First] = "none" /\ First \in object
             /\ task[s].does = "send" =>
                    message[First] = "none" /\ record[First].there /\ ~record[First].sent
             /\ task[s].does = "forward" => message[Copy] = "none"
      BY FilesTells
    <2>2. \A s \in Worker : s # t =>
             /\ task[s].does = "upload" => message'[First] = "none" /\ First \in object'
             /\ task[s].does = "send" =>
                    message'[First] = "none" /\ record'[First].there /\ ~record'[First].sent
             /\ task[s].does = "forward" =>
                    message'[Copy] = "none" /\ (Copy \in object => Copy \in object')
      BY <1>2, <1>3, <2>1
    <2>3. \A g \in File : ~Fresh(g) /\ ~record[g].there => ~record'[g].there
      <3> SUFFICES ASSUME ~Fresh(f), ~record[f].there PROVE FALSE
        BY <1>2
      <3>1. Fits(t) /\ task[t] # Done
        BY <1>5 DEF FilesInv
      <3>2. task[t].at = "row" => task[t].does = "upload" /\ f = First
        BY FilesTells
      <3>3. task[t].at # "row"
        BY <3>2 DEF Fresh
      <3>4. f = Copy /\ message[Copy] = "none"
        BY <3>1, <3>3 DEF Fits, At, Old
      <3> QED
        BY <3>4 DEF Fresh
    <2>4. \A g \in File : message[g] = "deleted" => message'[g] = "deleted"
      BY <1>3
    <2> QED
      BY <1>4, <1>5, <1>7, <1>8, <2>2, <2>3, <2>4, FilesTasks
  <1>10. RowOK'
    <2>1. \A g \in File : g # f /\ record'[g].there => ~Fresh(g)' /\ record'[g].key = g
      BY <1>1, <1>2, <1>7 DEF RowOK
    <2>2. \A g \in File : g # f /\ g \in shows' => /\ message'[g] \in {"live", "deleted"}
                                                   /\ record'[g].there => record'[g].sent
      BY <1>1, <1>2, <1>3 DEF RowOK
    <2> QED
      BY <1>2, <1>3, <2>1, <2>2 DEF RowOK
  <1>11. \A g, A : InHand(g, A) => InHand(g, A)' \/ (f = g /\ task[t].at \in A)
    BY <1>4, FilesHands
  <1>12. RowHasObject'
    <2>1. \A g : InHand(g, {"erase"}) => InHand(g, {"erase"})'
      BY <1>11
    <2>2. \A g \in File : record[g].there =>
              g \in object \/ InHand(g, {"erase"}) \/ <<"stopped", g>> \in mishap
      BY <1>1 DEF FilesInv, RowHasObject, RowOK
    <2>3. \A g \in File : record'[g].there => record[g].there \/ g \in object
      BY <1>2
    <2>4. \A g \in File : record'[g].there => record'[g].key = g
      BY <1>10 DEF RowOK
    <2> QED
      BY <2>1, <2>2, <2>3, <2>4 DEF RowHasObject
  <1>13. ObjectHasRow'
    <2> SUFFICES ASSUME NEW k \in object, k # f
                 PROVE  \/ \E g \in File : record'[g].there /\ record'[g].key = k
                        \/ InHand(k, InStore)'
                        \/ \E what \in {"orphaned", "stopped"} : <<what, k>> \in mishap
      BY <1>2 DEF ObjectHasRow, InStore
    <2>1. InHand(k, InStore) => InHand(k, InStore)'
      BY <1>11
    <2>2. \A g \in File : record[g].there => record[g].key = g
      BY <1>1 DEF RowOK
    <2>3. k \in File
      BY <1>1 DEF FileTypes
    <2> QED
      BY <1>2, <2>1, <2>2, <2>3 DEF FilesInv, ObjectHasRow, InStore
  <1>14. ShownHasRow'
    <2> SUFFICES ASSUME NEW g \in shows, g # f
                 PROVE  \/ record'[g].there \/ message'[g] = "deleted" \/ InHand(g, {"detach"})'
                        \/ \E what \in {"swept", "unannounced", "stopped"} : <<what, g>> \in mishap
      BY <1>2, <1>3 DEF ShownHasRow
    <2>1. InHand(g, {"detach"}) => InHand(g, {"detach"})'
      BY <1>11
    <2>2. g \in File
      BY <1>1 DEF FileTypes
    <2> QED
      BY <1>2, <1>3, <2>1, <2>2 DEF FilesInv, ShownHasRow
  <1>15. DeletedIsGone'
    <2>1. \A g : InHand(g, {"rows"}) => InHand(g, {"rows"})'
      BY <1>11
    <2> QED
      BY <1>2, <1>3, <2>1 DEF FilesInv, DeletedIsGone
  <1> QED
    BY <1>6, <1>9, <1>10, <1>12, <1>13, <1>14, <1>15 DEF FilesInv

LEMMA FilesWrites ==
    ASSUME FilesInv, NEW t \in Worker,
           \/ \E until \in {"none", "ahead"} : CreateRow(t, until)
           \/ CommitSend(t) \/ CommitForward(t)
    PROVE  FilesInv'
  <1> USE DEF File, First, Copy
  <1>1. FileTypes /\ Fits(t) /\ OneAtATime /\ "done" \in Stage
    BY DEF FilesInv, Stage
  <1>2. Done.does = "nothing" /\ Done.at = "done"
    BY DEF Done
  <1>3. \A s \in Worker :
           /\ task[s].does = "upload" => Fresh(First)
           /\ task[s].does = "send" => ~Fresh(First)
    BY FilesTells DEF Fresh, FilesInv, RowOK
  <1>4. Goes(t, "done") /\ UNCHANGED <<object, aged, fileBudget, mishap>>
    BY DEF CreateRow, CommitSend, CommitForward
  <1>5. Turns(t) /\ task'[t] = Done
    BY <1>1, <1>4, FilesGoes
  <1>6. ASSUME NEW until \in {"none", "ahead"}, CreateRow(t, until) PROVE FilesInv'
    <2> DEFINE r == [NoRow EXCEPT !.there = TRUE, !.until = until]
    <2>1. r \in FileRow /\ r.there /\ r.key = First
      BY DEF NoRow, FileRow
    <2>2. task[t].does = "upload" /\ task[t].at = "row"
      BY <1>6 DEF CreateRow, At
    <2>3. task[t].file = First /\ message[First] = "none" /\ First \in object
      BY <2>2, FilesTells
    <2>4. record' = [record EXCEPT ![First] = r] /\ message' = message /\ shows' = shows
      BY <1>6 DEF CreateRow
    <2>5. \A s \in Worker : s # t => task[s].does \notin {"upload", "send"}
      BY <1>1, <1>3, <2>2 DEF OneAtATime
    <2>6. ~Fresh(First)'
      BY <1>2, <1>5, <2>3, <2>4, <2>5 DEF Fresh, Turns
    <2> HIDE DEF r
    <2> QED
      BY <1>4, <2>1, <2>2, <2>3, <2>4, <2>5, <2>6, FilesWritesRow
  <1>7. CASE CommitSend(t)
    <2> DEFINE r == [record[First] EXCEPT !.sent = TRUE, !.until = "none"]
    <2>1. task[t].does = "send" /\ task[t].at = "commit"
      BY <1>7 DEF CommitSend, At
    <2>2. task[t].file = First /\ message[First] = "none" /\ record[First].there
      BY <2>1, FilesTells
    <2>3. record[First] \in FileRow /\ record[First].key = First
      BY <1>1, <2>2 DEF FileTypes, FilesInv, RowOK
    <2>4. r \in FileRow /\ r.there = record[First].there /\ r.key = First /\ r.sent
      BY <2>3 DEF FileRow
    <2>5. /\ record' = [record EXCEPT ![First] = r]
          /\ message' = [message EXCEPT ![First] = "live"] /\ shows' = shows \cup {First}
      BY <1>1, <1>7 DEF CommitSend, FileTypes
    <2>6. \A s \in Worker : s # t => task[s].does \notin {"upload", "send"}
      BY <1>1, <1>3, <2>1 DEF OneAtATime
    <2>7. ~Fresh(First)'
      BY <1>1, <1>2, <1>5, <2>5, <2>6 DEF Fresh, Turns, FileTypes
    <2> HIDE DEF r
    <2> QED
      BY <1>4, <2>1, <2>2, <2>4, <2>5, <2>6, <2>7, FilesWritesRow
  <1>8. CASE CommitForward(t)
    <2> DEFINE r == [there |-> TRUE, sent |-> TRUE, until |-> "none", key |-> Copy]
    <2>1. r \in FileRow /\ r.there /\ r.key = Copy /\ r.sent
      BY DEF FileRow
    <2>2. task[t].does = "forward" /\ task[t].at = "commit"
      BY <1>8 DEF CommitForward, At
    <2>3. task[t].file = Copy /\ message[Copy] = "none" /\ Copy \in object
      BY <1>1, <1>2, <2>2 DEF Fits, At, Old
    <2>4. /\ record' = [record EXCEPT ![Copy] = r]
          /\ message' = [message EXCEPT ![Copy] = "live"] /\ shows' = shows \cup {Copy}
      BY <1>8 DEF CommitForward, CopyKey
    <2>5. \A s \in Worker : s # t => task[s].does # "forward"
      BY <1>1, <2>2 DEF OneAtATime
    <2>6. ~Fresh(Copy)'
      BY <1>1, <2>4 DEF Fresh, FileTypes
    <2> HIDE DEF r
    <2> QED
      BY <1>4, <2>1, <2>2, <2>3, <2>4, <2>5, <2>6, FilesWritesRow
  <1> QED
    BY <1>6, <1>7, <1>8

LEMMA FilesCopyObject == ASSUME FilesInv, NEW t \in Worker, CopyObject(t) PROVE FilesInv'
  <1> USE DEF File, First, Copy
  <1>1. FileTypes /\ Fits(t) /\ OneAtATime /\ RowOK /\ "done" \in Stage
    BY DEF FilesInv, Stage
  <1>2. Done.does = "nothing" /\ Done.at = "done"
    BY DEF Done
  <1>3. UNCHANGED <<record, message, shows, aged, fileBudget, mishap>>
    BY DEF CopyObject
  <1>4. task[t].does = "forward" /\ task[t].at = "copy" /\ task[t] \in Work
    BY <1>1 DEF CopyObject, At, FileTypes
  <1>5. message[Copy] = "none" /\ task[t].file = First
    BY <1>1, <1>2, <1>4 DEF Fits, At, Old
  <1>6. CASE First \notin object
    <2>1. Goes(t, "done") /\ UNCHANGED object
      BY <1>6 DEF CopyObject
    <2>2. Turns(t) /\ task'[t] = Done
      BY <1>1, <2>1, FilesGoes
    <2>3. Fits(t)'
      BY <2>2 DEF Fits
    <2> QED
      BY <1>1, <1>2, <1>3, <1>4, <1>5, <2>1, <2>2, <2>3, FilesTaskOnly
         DEF FileTypes, InStore
  <1>7. CASE First \in object
    <2> DEFINE w == [task[t] EXCEPT !.at = "commit", !.file = Copy]
    <2>1. w \in Work /\ w.does = "forward" /\ w.at = "commit" /\ w.file = Copy
      BY <1>4 DEF Work, Stage
    <2>2. object' = object \cup {Copy} /\ task' = [task EXCEPT ![t] = w]
      BY <1>1, <1>7 DEF CopyObject, CopyKey, FileTypes
    <2> HIDE DEF w
    <2>3. /\ Turns(t) /\ task'[t].does = "forward" /\ task'[t].at = "commit"
          /\ task'[t].file = Copy
      BY <1>1, <2>1, <2>2 DEF FileTypes, Turns
    <2>4. FileTypes'
      BY <1>1, <1>3, <2>2, <2>3 DEF FileTypes, Turns
    <2>5. Fresh(Copy) /\ \A f \in File : ~Fresh(f) => ~Fresh(f)'
      <3>1. \A f \in File : ~Fresh(f) => ~Fresh(f)'
        BY <1>3, <2>3, FilesFresh
      <3> QED
        BY <1>5, <3>1 DEF Fresh
    <2>6. Fits(t)'
      BY <1>3, <1>5, <2>2, <2>3 DEF Fits, At
    <2>7. \A s \in Worker : /\ task[s].does = "upload" => message[First] = "none" /\ First \in object
                            /\ task[s].does = "send" => /\ message[First] = "none"
                                                        /\ record[First].there
                                                        /\ ~record[First].sent
                            /\ s # t => task[s].does # "forward"
      BY <1>1, <1>4, FilesTells DEF OneAtATime
    <2>8. (\A s \in Worker : Fits(s)') /\ OneAtATime'
      BY <1>3, <2>2, <2>3, <2>5, <2>6, <2>7, FilesTasks
    <2>9. RowOK'
      BY <1>1, <1>3, <2>5 DEF RowOK
    <2>10. \A g, A : /\ InHand(g, A) => InHand(g, A)' \/ (First = g /\ task[t].at \in A)
                     /\ Copy = g /\ task'[t].at \in A => InHand(g, A)'
      BY <1>5, <2>3, FilesHands
    <2>11. RowHasObject' /\ DeletedIsGone'
      BY <1>3, <1>4, <2>2, <2>10 DEF FilesInv, RowHasObject, DeletedIsGone
    <2>12. ShownHasRow'
      BY <1>3, <1>4, <2>10 DEF FilesInv, ShownHasRow
    <2>13. ObjectHasRow'
      <3>1. \A k : InHand(k, InStore) => InHand(k, InStore)'
        BY <1>4, <2>10 DEF InStore
      <3>2. InHand(Copy, InStore)'
        BY <2>3, <2>10 DEF InStore
      <3> QED
        BY <1>3, <2>2, <3>1, <3>2 DEF FilesInv, ObjectHasRow, InStore
    <2> QED
      BY <2>4, <2>8, <2>9, <2>11, <2>12, <2>13 DEF FilesInv
  <1> QED
    BY <1>6, <1>7

LEMMA FilesDeleteMessage ==
    ASSUME FilesInv, NEW t \in Worker, NEW f \in File, DeleteMessage(t, f) PROVE FilesInv'
  <1> USE DEF File, First, Copy
  <1>1. FileTypes /\ RowOK /\ message[f] = "live"
    BY DEF FilesInv, DeleteMessage
  <1>2. /\ UNCHANGED <<object, record, shows, aged, fileBudget, mishap>>
        /\ message' \in [File -> {"new", "none", "live", "deleted"}]
        /\ message'[f] = "deleted" /\ \A g \in File : g # f => message'[g] = message[g]
    BY <1>1 DEF DeleteMessage, FileTypes
  <1>3. /\ Turns(t) /\ task[t] = Done
        /\ task'[t].does = "delete message" /\ task'[t].at = "rows" /\ task'[t].file = f
    <2>1. /\ "delete message" \in Does /\ "rows" \in Stage
          /\ Starts(t, "delete message", "rows", f)
      BY DEF DeleteMessage, Does, Stage
    <2> HIDE DEF File, First, Copy
    <2> QED
      BY <1>1, <2>1, FilesStarts
  <1>4. FileTypes'
    BY <1>1, <1>2, <1>3 DEF FileTypes, Turns
  <1>5. \A g \in File : ~Fresh(g) => ~Fresh(g)'
    BY <1>1, <1>2, <1>3, FilesFresh
  <1>6. Fits(t)'
    BY <1>2, <1>3 DEF Fits, At
  <1>7. \A s \in Worker : /\ task[s].does = "upload" => message'[First] = "none" /\ First \in object
                          /\ task[s].does = "send" => /\ message'[First] = "none"
                                                      /\ record[First].there
                                                      /\ ~record[First].sent
                          /\ task[s].does = "forward" => message'[Copy] = "none"
    <2>1. \A s \in Worker : /\ task[s].does = "upload" => message[First] = "none" /\ First \in object
                            /\ task[s].does = "send" => /\ message[First] = "none"
                                                        /\ record[First].there
                                                        /\ ~record[First].sent
                            /\ task[s].does = "forward" => message[Copy] = "none"
      BY FilesTells
    <2> QED
      BY <1>1, <1>2, <2>1
  <1>8. (\A s \in Worker : Fits(s)') /\ OneAtATime'
    BY <1>1, <1>2, <1>3, <1>5, <1>6, <1>7, FilesTasks
  <1>9. RowOK'
    BY <1>1, <1>2, <1>5 DEF RowOK
  <1>10. task[t].at = "done"
    <2>1. Done.at = "done"
      BY DEF Done
    <2> QED
      BY <1>3, <2>1
  <1>11. \A g, A : /\ InHand(g, A) => InHand(g, A)' \/ (task[t].file = g /\ task[t].at \in A)
                   /\ f = g /\ task'[t].at \in A => InHand(g, A)'
    BY <1>3, FilesHands
  <1>12. RowHasObject'
    BY <1>2, <1>10, <1>11 DEF FilesInv, RowHasObject
  <1>13. ObjectHasRow'
    <2>1. \A k : InHand(k, InStore) => InHand(k, InStore)'
      BY <1>10, <1>11 DEF InStore
    <2> QED
      BY <1>2, <2>1 DEF FilesInv, ObjectHasRow, InStore
  <1>14. ShownHasRow'
    <2> SUFFICES ASSUME NEW g \in shows
                 PROVE  \/ record[g].there \/ message'[g] = "deleted" \/ InHand(g, {"detach"})'
                        \/ \E what \in {"swept", "unannounced", "stopped"} : <<what, g>> \in mishap
      BY <1>2 DEF ShownHasRow
    <2>1. g \in File /\ (InHand(g, {"detach"}) => InHand(g, {"detach"})')
      BY <1>1, <1>10, <1>11 DEF FileTypes
    <2> QED
      BY <1>2, <2>1 DEF FilesInv, ShownHasRow
  <1>15. DeletedIsGone'
    <2>1. InHand(f, {"rows"})'
      BY <1>3, <1>11
    <2>2. \A g : InHand(g, {"rows"}) => InHand(g, {"rows"})'
      BY <1>10, <1>11
    <2> QED
      BY <1>2, <2>1, <2>2 DEF FilesInv, DeletedIsGone
  <1> QED
    BY <1>4, <1>8, <1>9, <1>12, <1>13, <1>14, <1>15 DEF FilesInv

(* Nothing is written but what a message shows, or the row that goes. *)
LEMMA FilesErases ==
    ASSUME FilesInv, NEW t \in Worker, EraseRow(t) \/ DetachFile(t) PROVE FilesInv'
  <1> USE DEF File, First, Copy
  <1>1. FileTypes /\ Fits(t) /\ RowOK /\ {"done", "detach"} \subseteq Stage
    BY DEF FilesInv, Stage
  <1>2. PICK f \in File : task[t].file = f
    BY <1>1 DEF FileTypes, Work
  <1>3. Done.does = "nothing" /\ Done.at = "done"
    BY DEF Done
  <1>4. UNCHANGED <<object, message, aged, fileBudget>> /\ mishap \subseteq mishap'
    BY DEF EraseRow, DetachFile, Mishap
  <1>5. /\ task[t].at \in {"erase", "detach"} /\ ~Fresh(f)
        /\ task[t].does \in {"delete file", "retire"}
        /\ task[t].at = "erase" => f \notin object \/ <<"orphaned", f>> \in mishap
    BY <1>1, <1>2, <1>3 DEF EraseRow, DetachFile, Fits, At, Old
  <1>6. /\ record' \in [File -> FileRow]
        /\ task[t].at = "erase" => ~record'[f].there
        /\ task[t].at = "detach" => record' = record
        /\ \A g \in File : g # f => record'[g] = record[g]
    <2>1. NoRow \in FileRow /\ ~NoRow.there
      BY DEF NoRow, FileRow
    <2>2. \/ task[t].at = "erase" /\ record' = [record EXCEPT ![f] = NoRow]
          \/ task[t].at = "detach" /\ record' = record
      BY <1>2, <1>5 DEF EraseRow, DetachFile, At
    <2>3. record \in [File -> FileRow]
      BY <1>1 DEF FileTypes
    <2> HIDE DEF File, First, Copy, FileRow, NoRow
    <2> QED
      BY <1>2, <1>5, <2>1, <2>2, <2>3
  <1>7. /\ Turns(t)
        /\ \/ task'[t] = Done
           \/ /\ task'[t].does = "delete file" /\ task'[t].at = "detach" /\ task'[t].file = f
              /\ task[t].at = "erase"
    <2>1. CASE Goes(t, "done")
      BY <1>1, <2>1, FilesGoes
    <2>2. CASE Goes(t, "detach") /\ task[t].does = "delete file" /\ task[t].at = "erase"
      BY <1>1, <1>2, <2>2, FilesGoes
    <2> QED
      BY <2>1, <2>2 DEF EraseRow, DetachFile
  <1>8. shows' \subseteq shows /\ (task[t].at = "detach" => f \notin shows')
    BY <1>2 DEF EraseRow, DetachFile, Old
  <1>9. FileTypes'
    BY <1>1, <1>4, <1>6, <1>7, <1>8 DEF FileTypes, Turns
  <1>10. task'[t].does \notin {"upload", "send", "forward"}
    BY <1>3, <1>7
  <1>11. \A g \in File : ~Fresh(g) => ~Fresh(g)'
    BY <1>4, <1>7, <1>10, FilesFresh
  <1>12. Fits(t)'
    <2>1. ~Fresh(f)'
      BY <1>5, <1>11
    <2> QED
      BY <1>7, <2>1 DEF Fits, At
  <1>13. \A s \in Worker : /\ task[s].does = "upload" => message[First] = "none" /\ First \in object
                           /\ task[s].does = "send" => /\ message[First] = "none"
                                                       /\ record'[First].there
                                                       /\ ~record'[First].sent
                           /\ task[s].does = "forward" => message[Copy] = "none"
    <2>1. \A s \in Worker : /\ task[s].does = "upload" => message[First] = "none" /\ First \in object
                            /\ task[s].does = "send" =>
                                   /\ message[First] = "none" /\ record[First].there
                                   /\ ~record[First].sent
                                   /\ task[s].at = "commit" /\ task[s].file = First
                            /\ task[s].does = "forward" => message[Copy] = "none"
      BY FilesTells
    <2>2. \A s \in Worker : task[s].does = "send" /\ task[t].at = "erase" => f # First
      BY <1>2, <2>1 DEF EraseRow, DetachFile, Claimed, At
    <2> QED
      BY <1>5, <1>6, <2>1, <2>2
  <1>14. (\A s \in Worker : Fits(s)') /\ OneAtATime'
    <2>1. \A g \in File : ~record[g].there => ~record'[g].there
      BY <1>5, <1>6
    <2> QED
      BY <1>4, <1>7, <1>10, <1>11, <1>12, <1>13, <2>1, FilesTasks
  <1>15. RowOK'
    <2>1. \A g \in File : record'[g].there => record'[g] = record[g]
      BY <1>5, <1>6
    <2> QED
      BY <1>1, <1>4, <1>8, <1>11, <2>1 DEF RowOK
  <1>16. \A g, A : /\ InHand(g, A) => InHand(g, A)' \/ (f = g /\ task[t].at \in A)
                   /\ task'[t].file = g /\ task'[t].at \in A => InHand(g, A)'
    BY <1>2, <1>7, FilesHands
  <1>17. RowHasObject'
    BY <1>4, <1>5, <1>6, <1>16 DEF FilesInv, RowHasObject
  <1>18. ObjectHasRow'
    <2> SUFFICES ASSUME NEW k \in object
                 PROVE  \/ \E g \in File : record'[g].there /\ record'[g].key = k
                        \/ InHand(k, InStore)'
                        \/ \E what \in {"orphaned", "stopped"} : <<what, k>> \in mishap'
      BY <1>4 DEF ObjectHasRow, InStore
    <2>1. \/ \E g \in File : record[g].there /\ record[g].key = k
          \/ InHand(k, InStore)
          \/ \E what \in {"orphaned", "stopped"} : <<what, k>> \in mishap
      BY DEF FilesInv, ObjectHasRow, InStore
    <2>2. InHand(k, InStore) => InHand(k, InStore)'
      BY <1>5, <1>16 DEF InStore
    <2>3. record[f].there => record[f].key = f
      BY <1>1 DEF RowOK
    <2> QED
      BY <1>4, <1>5, <1>6, <2>1, <2>2, <2>3
  <1>19. ShownHasRow'
    <2> SUFFICES ASSUME NEW g \in shows'
                 PROVE  \/ record'[g].there \/ message[g] = "deleted" \/ InHand(g, {"detach"})'
                        \/ \E what \in {"swept", "unannounced", "stopped"} : <<what, g>> \in mishap'
      BY <1>4 DEF ShownHasRow
    <2>1. /\ g \in File /\ g \in shows
          /\ \/ record[g].there \/ message[g] = "deleted" \/ InHand(g, {"detach"})
             \/ \E what \in {"swept", "unannounced", "stopped"} : <<what, g>> \in mishap
      BY <1>1, <1>8 DEF FilesInv, ShownHasRow, FileTypes
    <2>2. InHand(g, {"detach"}) => InHand(g, {"detach"})'
      BY <1>8, <1>16
    <2>3. CASE g # f \/ ~record[g].there
      BY <1>4, <1>6, <2>1, <2>2, <2>3
    <2>4. CASE g = f /\ record[f].there
      <3>1. record[f].sent /\ task[t].at = "erase"
        BY <1>1, <1>5, <1>8, <2>1, <2>4 DEF RowOK
      <3>2. CASE task[t].does = "delete file" /\ task[t].linked
        <4>1. Goes(t, "detach")
          BY <3>1, <3>2 DEF EraseRow, DetachFile, At
        <4>2. task'[t].at = "detach"
          BY <1>1, <4>1, FilesGoes
        <4>3. task'[t].file = f
          BY <1>3, <1>7, <4>2
        <4> QED
          BY <1>16, <2>4, <4>2, <4>3
      <3>3. CASE ~(task[t].does = "delete file" /\ task[t].linked)
        <4>1. EraseRow(t)
          BY <3>1 DEF DetachFile, At
        <4>2. task[t].does = "retire" \/ ~task[t].linked
          BY <1>5, <3>3
        <4>3. <<"unannounced", f>> \in mishap'
          BY <1>2, <3>1, <4>1, <4>2 DEF EraseRow, Mishap
        <4> QED
          BY <2>4, <4>3
      <3> QED
        BY <3>2, <3>3
    <2> QED
      BY <2>3, <2>4
  <1>20. DeletedIsGone'
    <2>1. \A g : InHand(g, {"rows"}) => InHand(g, {"rows"})'
      BY <1>5, <1>16
    <2>2. \A g \in File : ~record[g].there => ~record'[g].there
      BY <1>5, <1>6
    <2> QED
      BY <1>4, <2>1, <2>2 DEF FilesInv, DeletedIsGone
  <1> QED
    BY <1>9, <1>14, <1>15, <1>17, <1>18, <1>19, <1>20 DEF FilesInv

LEMMA FilesStep == FilesInv /\ [FileNext]_fileVars => FilesInv'
  <1> SUFFICES ASSUME FilesInv, [FileNext]_fileVars PROVE FilesInv'
    OBVIOUS
  <1>1. fileBudget.requests \subseteq Worker /\ Cleaner \subseteq Worker /\ First \in File
    BY DEF FilesInv, FileTypes, FileBudget, Worker, File
  <1>2. ASSUME NEW t \in Worker, CleanStep(t) PROVE FilesInv'
    BY <1>1, <1>2, FilesBegins, FilesEdits, FilesRemoves, FilesErases, Zenon DEF CleanStep
  <1>3. ASSUME NEW t \in Worker,
               \/ Upload(t) \/ \E until \in {"none", "ahead"} : CreateRow(t, until)
               \/ SendDraft(t) \/ CommitSend(t) \/ SendFails(t)
               \/ Forward(t) \/ CopyObject(t) \/ CommitForward(t)
        PROVE  FilesInv'
    BY <1>1, <1>3, FilesUpload, FilesWrites, FilesBegins, FilesEnds, FilesCopyObject, Zenon
  <1>4. ASSUME NEW t \in Worker,
               \/ ForwardFails(t) \/ DiscardCopy(t) \/ DeleteAttachments(t) \/ PurgeObject(t)
               \/ RemoveObject(t) \/ EraseRow(t) \/ DetachFile(t)
               \/ StoreFails(t) \/ TaskDies(t)
        PROVE  FilesInv'
    BY <1>1, <1>4, FilesEnds, FilesRemoves, FilesEdits, FilesErases, Zenon
  <1>5. ASSUME NEW t \in Worker, NEW f \in File,
               EditMessage(t, f) \/ DeleteMessage(t, f) \/ DeleteFile(t, f)
        PROVE  FilesInv'
    BY <1>5, FilesEdits, FilesDeleteMessage, FilesBegins, Zenon
  <1>6. CASE DraftExpires \/ HoldDraft \/ \E f \in File : FileAges(f)
    BY <1>6, FilesDeadlines
  <1>7. CASE UNCHANGED fileVars
    <2>1. UNCHANGED <<object, record, message, shows, aged, task, fileBudget, mishap>>
      BY <1>7 DEF fileVars
    <2>2. FileTypes'
      BY <2>1 DEF FilesInv, FileTypes
    <2> QED
      BY <2>1, <2>2, FilesQuiet
  <1> QED
    BY <1>1, <1>2, <1>3, <1>4, <1>5, <1>6, <1>7 DEF FileNext

(* For any number of requests and workers, whatever is uploaded, sent,     *)
(* forwarded, edited away, deleted, swept or retired at once, and whatever *)
(* fails: a row has its object and an object its row, a message shows what *)
(* it has, and what was attached to a deleted message is gone, with the    *)
(* exceptions the properties name.                                         *)
THEOREM ContentFileSafety == FileInit /\ [][FileNext]_fileVars => []FileSafety
  <1>1. FileInit => FilesInv
    BY FilesInit
  <1>2. FilesInv /\ [FileNext]_fileVars => FilesInv'
    BY FilesStep
  <1>3. FilesInv => FileSafety
    <2> SUFFICES ASSUME FilesInv PROVE FileTypeOK
      BY DEF FilesInv, FileSafety
    <2> QED
      BY DEF FilesInv, FileTypes, FileTypeOK, FileRow, Work, Stage
  <1> QED
    BY <1>1, <1>2, <1>3, PTL

-----------------------------------------------------------------------------
(* SlackImport. *)

ImportSteps == ImportInit /\ [][ImportNext]_importVars

(* What is known of a run from the step it is at: which channel it writes  *)
(* to and whether an import made it, and how many files it has counted.    *)
Placing == {"download", "load", "place", "create"}
Mapped == Writing \cup {"list", "close"}
Phases == Writing \cup {"poll", "download", "load", "place", "create", "map", "list",
                         "close", "finish", "discard", "fail"}
ImportRun ==
    [does : Phases,
     job : ImportJob \cup {0}, home : Nat, fresh : BOOLEAN,
     seen : SUBSET ((1 .. LastTs) \X (Text .. LastTs - 1)),
     at : Nat, files : 0 .. LastTs, alone : BOOLEAN]

RunType(w) ==
    /\ Busy(w) => importer[w].job \in ImportJob
    /\ importer[w].does \in Writing =>
           importer[w].at \in 1 .. LastTs /\ importer[w].files < importer[w].at
    /\ importer[w].does \in Placing \cup {"map", "list"} => importer[w].files = 0
RunTypes == importer \in [Importer -> ImportRun] /\ \A w \in Importer : RunType(w)

ImportTypes ==
    /\ imports \in [ImportJob -> [status : {"none", "pending", "running", "complete", "failed"},
                                  silent : BOOLEAN, archive : BOOLEAN]]
    /\ homes \in Seq([name : Nat, kind : {"public", "private"}])
    /\ kind \in {"public", "private"}
    /\ mapping \in [home : Nat, made : BOOLEAN]
    /\ strays \in Nat /\ crossed \in BOOLEAN
    /\ importBudget \in [workers : SUBSET Importer, uploads : SUBSET ImportJob,
                         dry : SUBSET ImportJob, retries : Int, faults : Int, lapses : Int]
    /\ rows \subseteq (DOMAIN homes) \X (1 .. LastTs) \X (Text .. LastTs - 1)
    /\ dressed \subseteq (DOMAIN homes) \X (1 .. LastTs) /\ attached \subseteq rows

(* Channels an import made are never taken for others: a run that goes on  *)
(* as the maker of a channel writes to one of those.                       *)
HomeOK ==
    /\ made \subseteq DOMAIN homes /\ closed \subseteq made
    /\ mapping.home \in DOMAIN homes \cup {NoHome}
    /\ mapping.made => mapping.home \in made
    /\ \A w \in Importer :
           /\ importer[w].home \in DOMAIN homes \cup {NoHome}
           /\ importer[w].does \in Mapped \cup {"map"} => importer[w].home \in DOMAIN homes
           /\ importer[w].does \in Placing => ~importer[w].fresh
           /\ importer[w].fresh => importer[w].home \in made

(* As RowIsWhole, by the file's number too. *)
WholeOK ==
    \A r \in rows \ torn :
        IF r[3] = Text
        THEN \/ <<r[1], r[2]>> \in dressed
             \/ \E w \in Importer : importer[w].does = "dress" /\ Row(w, Text) = r
        ELSE \/ r \in attached
             \/ \E w \in Importer : importer[w].does = "attach" /\ Row(w, importer[w].files) = r

(* Up to where it is, the messages of the export are in a run's channel,   *)
(* the mapped one unless runs crossed.                                     *)
Through(h, n) == \A m \in 1 .. n : <<h, m, Text>> \in rows
RunWritten(w) ==
    LET run == importer[w] IN
    /\ run.does \in Writing => Through(run.home, run.at - 1)
    /\ run.does \in Writing \ {"message"} => Row(w, Text) \in rows
    /\ run.does = "attach" => Row(w, run.files) \in rows
    /\ run.does \in Writing =>
           \A m, n \in Int : <<m, n>> \in run.seen => <<run.home, m, n>> \in rows
    /\ run.does = "close" => Through(run.home, LastTs)
    /\ run.does \in Mapped => crossed \/ (run.home = mapping.home /\ run.fresh = mapping.made)
    /\ run.does = "finish" /\ run.job \notin importBudget.dry =>
           /\ run.home \in DOMAIN homes /\ Through(run.home, LastTs)
           /\ crossed \/ (run.home = mapping.home /\ (mapping.made => run.home \in closed))
WrittenOK ==
    /\ ~crossed => \A r \in rows : r[1] = mapping.home
    /\ \A w \in Importer : RunWritten(w)

(* As OneHome: the mapped channel counts once there is one. *)
Strays == {w \in Importer : importer[w].does = "map" /\ importer[w].fresh}
MadeOK ==
    /\ IsFiniteSet(made)
    /\ ~crossed => Cardinality(made) <= (IF mapping.home = NoHome THEN 0 ELSE 1)
                                            + strays + Cardinality(Strays)

(* A run that has the workspace to itself knows what its channel holds.    *)
Foreseen(w, r) ==
    \/ <<r[2], r[3]>> \in importer[w].seen
    \/ r[2] < importer[w].at
    \/ r[2] = importer[w].at /\ r[3] = Text /\ importer[w].does # "message"
    \/ r[2] = importer[w].at /\ importer[w].does = "attach"
RunAlone(w) ==
    LET run == importer[w] IN
    /\ run.does \in Writing =>
           \A m, n \in Int : <<m, n>> \in run.seen => <<m, Text>> \in run.seen
    /\ run.does \in {"dress", "fetch", "attachment"} => <<run.at, 0>> \notin run.seen
    /\ run.does \in Writing /\ run.alone =>
           \A r \in rows : r[1] = run.home => Foreseen(w, r)
AloneOK ==
    /\ \A r \in rows : <<r[1], r[2], Text>> \in rows
    /\ \A w \in Importer :
           /\ RunAlone(w)
           /\ Busy(w) /\ importer[w].alone => \A v \in Importer \ {w} : ~Busy(v)

(* A job is run by one worker, which has its archive, unless doubled. *)
SoleOK ==
    \A w \in Importer : Busy(w) =>
        LET j == importer[w].job IN
        /\ imports[j].status # "none"
        /\ j \notin doubled =>
               /\ imports[j].archive
               /\ importer[w].does = "discard" => imports[j].status = "complete"
               /\ \A v \in Importer \ {w} : Busy(v) => importer[v].job # j

ImportInv ==
    /\ ImportTypes /\ RunTypes /\ HomeOK /\ WholeOK /\ WrittenOK /\ CompleteIsThere /\ MadeOK
    /\ AloneOK /\ FileOnceUnlessCounted /\ SoleOK /\ ArchiveFitsStatus

(* The updates of a run, as records. *)
LEMMA RunGoes ==
    ASSUME NEW r \in ImportRun, NEW d
    PROVE  [r EXCEPT !.does = d] =
               [does |-> d, job |-> r.job, home |-> r.home, fresh |-> r.fresh,
                seen |-> r.seen, at |-> r.at, files |-> r.files, alone |-> r.alone]
<1> DEFINE x == [r EXCEPT !.does = d]
<1>1. x = [does |-> d, job |-> r.job, home |-> r.home, fresh |-> r.fresh,
           seen |-> r.seen, at |-> r.at, files |-> r.files, alone |-> r.alone]
  BY DEF ImportRun
<1> QED BY <1>1 DEF x

LEMMA RunFindsHome ==
    ASSUME NEW r \in ImportRun, NEW d, NEW h
    PROVE  [r EXCEPT !.does = d, !.home = h] =
               [does |-> d, job |-> r.job, home |-> h, fresh |-> r.fresh,
                seen |-> r.seen, at |-> r.at, files |-> r.files, alone |-> r.alone]
<1> DEFINE x == [r EXCEPT !.does = d]
           y == [x EXCEPT !.home = h]
<1>1. x = [does |-> d, job |-> r.job, home |-> r.home, fresh |-> r.fresh,
           seen |-> r.seen, at |-> r.at, files |-> r.files, alone |-> r.alone]
  BY DEF ImportRun
<1> HIDE DEF x
<1>2. y = [does |-> d, job |-> r.job, home |-> h, fresh |-> r.fresh,
           seen |-> r.seen, at |-> r.at, files |-> r.files, alone |-> r.alone]
  BY <1>1
<1> QED BY <1>2 DEF x, y

LEMMA RunHasHome ==
    ASSUME NEW r \in ImportRun, NEW d, NEW h, NEW f
    PROVE  [r EXCEPT !.does = d, !.home = h, !.fresh = f] =
               [does |-> d, job |-> r.job, home |-> h, fresh |-> f,
                seen |-> r.seen, at |-> r.at, files |-> r.files, alone |-> r.alone]
<1> DEFINE x == [r EXCEPT !.does = d]
           y == [x EXCEPT !.home = h]
           z == [y EXCEPT !.fresh = f]
<1>1. x = [does |-> d, job |-> r.job, home |-> r.home, fresh |-> r.fresh,
           seen |-> r.seen, at |-> r.at, files |-> r.files, alone |-> r.alone]
  BY DEF ImportRun
<1> HIDE DEF x
<1>2. y = [does |-> d, job |-> r.job, home |-> h, fresh |-> r.fresh,
           seen |-> r.seen, at |-> r.at, files |-> r.files, alone |-> r.alone]
  BY <1>1
<1> HIDE DEF y
<1>3. z = [does |-> d, job |-> r.job, home |-> h, fresh |-> f,
           seen |-> r.seen, at |-> r.at, files |-> r.files, alone |-> r.alone]
  BY <1>2
<1> QED BY <1>3 DEF x, y, z

LEMMA RunFindsName ==
    ASSUME NEW r \in ImportRun, NEW d, NEW a
    PROVE  [r EXCEPT !.does = d, !.at = a] =
               [does |-> d, job |-> r.job, home |-> r.home, fresh |-> r.fresh,
                seen |-> r.seen, at |-> a, files |-> r.files, alone |-> r.alone]
<1> DEFINE x == [r EXCEPT !.does = d]
           y == [x EXCEPT !.at = a]
<1>1. x = [does |-> d, job |-> r.job, home |-> r.home, fresh |-> r.fresh,
           seen |-> r.seen, at |-> r.at, files |-> r.files, alone |-> r.alone]
  BY DEF ImportRun
<1> HIDE DEF x
<1>2. y = [does |-> d, job |-> r.job, home |-> r.home, fresh |-> r.fresh,
           seen |-> r.seen, at |-> a, files |-> r.files, alone |-> r.alone]
  BY <1>1
<1> QED BY <1>2 DEF x, y

LEMMA RunLists ==
    ASSUME NEW r \in ImportRun, NEW d, NEW a, NEW s
    PROVE  [r EXCEPT !.does = d, !.at = a, !.seen = s] =
               [does |-> d, job |-> r.job, home |-> r.home, fresh |-> r.fresh,
                seen |-> s, at |-> a, files |-> r.files, alone |-> r.alone]
<1> DEFINE x == [r EXCEPT !.does = d]
           y == [x EXCEPT !.at = a]
           z == [y EXCEPT !.seen = s]
<1>1. x = [does |-> d, job |-> r.job, home |-> r.home, fresh |-> r.fresh,
           seen |-> r.seen, at |-> r.at, files |-> r.files, alone |-> r.alone]
  BY DEF ImportRun
<1> HIDE DEF x
<1>2. y = [does |-> d, job |-> r.job, home |-> r.home, fresh |-> r.fresh,
           seen |-> r.seen, at |-> a, files |-> r.files, alone |-> r.alone]
  BY <1>1
<1> HIDE DEF y
<1>3. z = [does |-> d, job |-> r.job, home |-> r.home, fresh |-> r.fresh,
           seen |-> s, at |-> a, files |-> r.files, alone |-> r.alone]
  BY <1>2
<1> QED BY <1>3 DEF x, y, z

LEMMA RunGoesOn ==
    ASSUME NEW r \in ImportRun, NEW d, NEW a, NEW n
    PROVE  [r EXCEPT !.does = d, !.at = a, !.files = n] =
               [does |-> d, job |-> r.job, home |-> r.home, fresh |-> r.fresh,
                seen |-> r.seen, at |-> a, files |-> n, alone |-> r.alone]
<1> DEFINE x == [r EXCEPT !.does = d]
           y == [x EXCEPT !.at = a]
           z == [y EXCEPT !.files = n]
<1>1. x = [does |-> d, job |-> r.job, home |-> r.home, fresh |-> r.fresh,
           seen |-> r.seen, at |-> r.at, files |-> r.files, alone |-> r.alone]
  BY DEF ImportRun
<1> HIDE DEF x
<1>2. y = [does |-> d, job |-> r.job, home |-> r.home, fresh |-> r.fresh,
           seen |-> r.seen, at |-> a, files |-> r.files, alone |-> r.alone]
  BY <1>1
<1> HIDE DEF y
<1>3. z = [does |-> d, job |-> r.job, home |-> r.home, fresh |-> r.fresh,
           seen |-> r.seen, at |-> a, files |-> n, alone |-> r.alone]
  BY <1>2
<1> QED BY <1>3 DEF x, y, z

(* A step of worker w, field by field. *)
Moved(w, d, h, f, s, a, n) ==
    /\ importer'[w] = [does |-> d, job |-> importer[w].job, home |-> h, fresh |-> f,
                       seen |-> s, at |-> a, files |-> n, alone |-> importer[w].alone]
    /\ \A v \in Importer \ {w} : importer'[v] = importer[v]
    /\ importer' = [v \in Importer |-> importer'[v]]
Advances(w, d) ==
    LET run == importer[w] IN Moved(w, d, run.home, run.fresh, run.seen, run.at, run.files)
Ended(w) ==
    /\ importer'[w] = Idling
    /\ \A v \in Importer \ {w} : importer'[v] = importer[v]
    /\ importer' = [v \in Importer |-> importer'[v]]

(* What the steps of a run share. *)
LEMMA ImportMoves ==
    ASSUME RunTypes, NEW w \in Importer
    PROVE  /\ \A d : Then(w, d) => Advances(w, d)
           /\ \A n : Onward(w, n) =>
                  Moved(w, IF importer[w].at = LastTs THEN "close" ELSE "message",
                        importer[w].home, importer[w].fresh, importer[w].seen,
                        importer[w].at + 1, n)
           /\ Stops(w) => Ended(w)
<1>1. importer[w] \in ImportRun /\ importer \in [Importer -> ImportRun]
  BY DEF RunTypes
<1>2. ASSUME NEW d, Then(w, d) PROVE Advances(w, d)
  <2>1. importer' = [importer EXCEPT ![w] = [importer[w] EXCEPT !.does = d]]
    BY <1>1, <1>2 DEF Then
  <2>2. [importer[w] EXCEPT !.does = d] =
            [does |-> d, job |-> importer[w].job, home |-> importer[w].home,
             fresh |-> importer[w].fresh, seen |-> importer[w].seen, at |-> importer[w].at,
             files |-> importer[w].files, alone |-> importer[w].alone]
    BY <1>1, RunGoes, Zenon
  <2> QED BY <1>1, <2>1, <2>2 DEF Advances, Moved
<1>3. ASSUME NEW n, Onward(w, n)
      PROVE  Moved(w, IF importer[w].at = LastTs THEN "close" ELSE "message",
                   importer[w].home, importer[w].fresh, importer[w].seen,
                   importer[w].at + 1, n)
  <2> DEFINE d == IF importer[w].at = LastTs THEN "close" ELSE "message"
             a == importer[w].at + 1
             x == [importer[w] EXCEPT !.does = d, !.at = a, !.files = n]
  <2>1. importer' = [importer EXCEPT ![w] = x]
    BY <1>1, <1>3 DEF Onward
  <2> HIDE DEF d, a
  <2>2. x = [does |-> d, job |-> importer[w].job, home |-> importer[w].home,
             fresh |-> importer[w].fresh, seen |-> importer[w].seen,
             at |-> a, files |-> n, alone |-> importer[w].alone]
    BY <1>1, RunGoesOn, Zenon DEF x
  <2> HIDE DEF x
  <2>3. Moved(w, d, importer[w].home, importer[w].fresh, importer[w].seen, a, n)
    BY <1>1, <2>1, <2>2 DEF Moved
  <2> QED BY <2>3 DEF d, a
<1>4. Stops(w) => Ended(w)
  BY <1>1 DEF Stops, Ended
<1> QED BY <1>2, <1>3, <1>4

LEMMA ImportMovedRun ==
    ASSUME RunTypes, NEW w \in Importer, NEW d \in Phases, NEW h \in Nat, NEW f \in BOOLEAN,
           NEW s \in SUBSET ((1 .. LastTs) \X (Text .. LastTs - 1)), NEW a \in Nat,
           NEW n \in 0 .. LastTs, Moved(w, d, h, f, s, a, n)
    PROVE  importer'[w] \in ImportRun
<1>1. importer[w] \in ImportRun
  BY DEF RunTypes
<1>2. importer[w].job \in ImportJob \cup {0} /\ importer[w].alone \in BOOLEAN
  BY <1>1 DEF ImportRun
<1> QED BY <1>2 DEF Moved, ImportRun

LEMMA ImportGoesRun ==
    ASSUME RunTypes, NEW w \in Importer, NEW d \in Phases, Advances(w, d)
    PROVE  importer'[w] \in ImportRun
<1>1. importer[w] \in ImportRun
  BY DEF RunTypes
<1>2. /\ importer[w].home \in Nat /\ importer[w].fresh \in BOOLEAN /\ importer[w].at \in Nat
      /\ importer[w].seen \in SUBSET ((1 .. LastTs) \X (Text .. LastTs - 1))
      /\ importer[w].files \in 0 .. LastTs
  BY <1>1 DEF ImportRun
<1>3. LET run == importer[w] IN Moved(w, d, run.home, run.fresh, run.seen, run.at, run.files)
  BY DEF Advances
<1> QED BY <1>2, <1>3, ImportMovedRun

(* A row is a triple. *)
LEMMA ImportRowShape ==
    ASSUME ImportTypes, NEW r \in rows
    PROVE  /\ r = <<r[1], r[2], r[3]>> /\ r[1] \in DOMAIN homes
           /\ r[2] \in 1 .. LastTs /\ r[3] \in Text .. LastTs - 1
BY DEF ImportTypes

LEMMA ImportRuns ==
    ASSUME RunTypes, ImportTypes, ImportAssumption, NEW w \in Importer
    PROVE  /\ importer[w] \in ImportRun /\ DOMAIN homes = 1 .. Len(homes)
           /\ LastTs \in Nat /\ LastTs > 0 /\ Text = -1 /\ NoHome = 0
           /\ Idling \in ImportRun
<1>1. importer[w] \in ImportRun
  BY DEF RunTypes
<1>2. DOMAIN homes = 1 .. Len(homes)
  BY DEF ImportTypes
<1>3. LastTs \in Nat /\ LastTs > 0 /\ Text = -1 /\ NoHome = 0
  BY DEF ImportAssumption, Text, NoHome
<1>4. Idling \in ImportRun
  BY <1>3 DEF Idling, ImportRun, Phases, NoHome
<1> QED BY <1>1, <1>2, <1>3, <1>4

(* Nothing but the phase of a run, and what is not of the channel, changed. *)
LEMMA ImportSpends ==
    ASSUME ImportTypes, NEW what \in {"retries", "faults", "lapses"}, Spend(what)
    PROVE  /\ importBudget'.dry = importBudget.dry
           /\ importBudget' \in [workers : SUBSET Importer, uploads : SUBSET ImportJob,
                         dry : SUBSET ImportJob, retries : Int, faults : Int, lapses : Int]
<1> DEFINE B == [workers : SUBSET Importer, uploads : SUBSET ImportJob,
                 dry : SUBSET ImportJob, retries : Int, faults : Int, lapses : Int]
<1>1. importBudget \in B
  BY DEF ImportTypes
<1>2. importBudget' = [importBudget EXCEPT ![what] = @ - 1]
  BY DEF Spend
<1>3. CASE what = "retries"
  <2>1. importBudget' = [importBudget EXCEPT !.retries = @ - 1]
    BY <1>2, <1>3
  <2> QED BY <1>1, <2>1
<1>4. CASE what = "faults"
  <2>1. importBudget' = [importBudget EXCEPT !.faults = @ - 1]
    BY <1>2, <1>4
  <2> QED BY <1>1, <2>1
<1>5. CASE what = "lapses"
  <2>1. importBudget' = [importBudget EXCEPT !.lapses = @ - 1]
    BY <1>2, <1>5
  <2> QED BY <1>1, <2>1
<1> QED BY <1>3, <1>4, <1>5

LEMMA ImportBegins ==
    ASSUME ImportInit, ImportAssumption PROVE ImportInv
<1> USE DEF ImportInit
<1>1. ImportTypes
  <2>1. homes \in Seq([name : Nat, kind : {"public", "private"}])
    <3>1. CASE homes = <<>>
      BY <3>1
    <3>2. CASE homes \in [{1} -> [name : {0}, kind : {"public", "private"}]]
      <4>1. {1} = 1 .. 1
        OBVIOUS
      <4>2. homes \in [1 .. 1 -> [name : Nat, kind : {"public", "private"}]]
        BY <3>2, <4>1
      <4> DEFINE S == [name : Nat, kind : {"public", "private"}]
      <4>3. homes \in [1 .. 1 -> S]
        BY <4>2
      <4> HIDE DEF S
      <4>4. homes \in Seq(S)
        <5>1. Seq(S) = UNION {[1 .. n -> S] : n \in Nat}
          BY SeqDef
        <5>2. [1 .. 1 -> S] \in {[1 .. n -> S] : n \in Nat}
          OBVIOUS
        <5> QED BY <4>3, <5>1, <5>2, Zenon
      <4> QED BY <4>4 DEF S
    <3> QED BY <3>1, <3>2
  <2>2. importBudget \in [workers : SUBSET Importer, uploads : SUBSET ImportJob,
                         dry : SUBSET ImportJob, retries : Int, faults : Int, lapses : Int]
    BY DEF ImportAssumption
  <2> QED BY <2>1, <2>2 DEF ImportTypes, NoHome
<1>2. RunTypes
  <2>1. Idling \in ImportRun
    BY DEF Idling, ImportRun, Phases, NoHome, ImportAssumption
  <2> QED BY <2>1 DEF RunTypes, RunType, Busy, Idling, Writing, Placing
<1>3. HomeOK
  BY DEF HomeOK, Idling, Writing, Placing, Mapped
<1>4. WholeOK /\ CompleteIsThere /\ FileOnceUnlessCounted /\ SoleOK
  BY DEF WholeOK, CompleteIsThere, FileOnceUnlessCounted, SoleOK, Busy, Idling
<1>5. WrittenOK
  BY DEF WrittenOK, RunWritten, Idling, Writing, Mapped
<1>6. MadeOK
  <2>1. Strays = {}
    BY DEF Strays, Idling
  <2> QED BY <2>1, FS_EmptySet DEF MadeOK
<1>7. AloneOK /\ ArchiveFitsStatus
  BY DEF AloneOK, RunAlone, ArchiveFitsStatus, Busy, Idling, Writing
<1> QED BY <1>1, <1>2, <1>3, <1>4, <1>5, <1>6, <1>7 DEF ImportInv

(* The steps of a run that write neither a channel nor a message. *)
Listed(h) == {<<r[2], r[3]>> : r \in {x \in rows : x[1] = h}}
Passes(w, n) ==
    Moved(w, IF importer[w].at = LastTs THEN "close" ELSE "message", importer[w].home,
          importer[w].fresh, importer[w].seen, importer[w].at + 1, n)
Loads(w, d) ==
    Moved(w, d, mapping.home, mapping.made, importer[w].seen, importer[w].at, importer[w].files)
Control(w) ==
    LET run == importer[w] IN
    \/ Busy(w) /\ Advances(w, "fail")
    \/ Ended(w)
    \/ run.does = "download" /\ Advances(w, "load")
    \/ run.does = "load" /\ run.job \in importBudget.dry /\ Loads(w, "finish")
    \/ run.does = "load" /\ mapping.home # NoHome /\ Loads(w, "list")
    \/ run.does = "load" /\ mapping.home = NoHome /\ Loads(w, "place")
    \/ /\ run.does = "place"
       /\ \E n \in Nat : Moved(w, "create", run.home, run.fresh, run.seen, n, run.files)
    \/ /\ run.does = "place"
       /\ \E h \in DOMAIN homes : Moved(w, "map", h, run.fresh, run.seen, run.at, run.files)
    \/ /\ run.does = "list"
       /\ Moved(w, "message", run.home, run.fresh, Listed(run.home), 1, run.files)
    \/ /\ run.does = "message" /\ <<run.at, Text>> \in run.seen /\ <<run.at, 0>> \notin run.seen
       /\ Advances(w, "fetch")
    \/ run.does = "dress" /\ Advances(w, "fetch")
    \/ run.does = "fetch" /\ Advances(w, "attachment")
    \/ /\ run.does \in Writing /\ (run.does = "message" => <<run.at, Text>> \in run.seen)
       /\ Passes(w, run.files) \/ Passes(w, run.files + 1)
    \/ run.does = "finish" /\ Advances(w, "discard")

LEMMA ImportControl ==
    ASSUME ImportAssumption, ImportTypes, RunTypes, HomeOK, WrittenOK, MadeOK, AloneOK,
           UNCHANGED <<homes, made, closed, mapping, rows, crossed>>,
           importBudget'.dry = importBudget.dry,
           NEW w \in Importer, Control(w), strays' = strays + Stray(w)
    PROVE  RunTypes' /\ HomeOK' /\ WrittenOK' /\ MadeOK' /\ AloneOK'
<1> DEFINE run == importer[w]
<1>0. /\ run \in ImportRun /\ DOMAIN homes = 1 .. Len(homes)
      /\ LastTs \in Nat /\ LastTs > 0 /\ Text = -1 /\ NoHome = 0 /\ Idling \in ImportRun
  BY ImportRuns
<1>1. /\ \A v \in Importer \ {w} : importer'[v] = importer[v]
      /\ importer' = [v \in Importer |-> importer'[v]]
  BY DEF Control, Advances, Moved, Ended, Loads, Passes
<1>2. /\ RunType(w) /\ RunWritten(w) /\ RunAlone(w)
      /\ run.does \in Mapped \cup {"map"} => run.home \in DOMAIN homes
      /\ run.does \in Placing => ~run.fresh
      /\ mapping.home \in Nat /\ mapping.made \in BOOLEAN
      /\ mapping.home \in DOMAIN homes \cup {NoHome} /\ (mapping.made => mapping.home \in made)
  BY DEF RunTypes, WrittenOK, AloneOK, HomeOK, ImportTypes
<1>3. /\ (importer'[w]) \in ImportRun
      /\ RunType(w)' /\ RunWritten(w)' /\ RunAlone(w)'
      /\ Busy(w)' => Busy(w) /\ (importer'[w]).alone = run.alone
      /\ w \notin Strays'
  <2>1. CASE Busy(w) /\ Advances(w, "fail")
    <3>1. (importer'[w]) \in ImportRun /\ RunType(w)'
      <4>1. importer'[w] \in ImportRun
        BY <2>1, ImportGoesRun DEF Phases, Writing
      <4> QED BY <1>0, <1>2, <2>1, <4>1 DEF Advances, Moved, RunType, Writing, Placing, Busy
    <3>2. RunWritten(w)'
      BY <1>0, <1>2, <2>1 DEF Advances, Moved, ImportRun, RunType, RunWritten, Through, Row,
         Writing, Mapped
    <3>3. RunAlone(w)'
      BY <1>0, <1>2, <2>1 DEF Advances, Moved, ImportRun, RunType, RunWritten, RunAlone,
         Foreseen, Writing
    <3>4. (Busy(w)' => Busy(w) /\ (importer'[w]).alone = run.alone) /\ w \notin Strays'
      BY <1>0, <1>2, <2>1 DEF Advances, Moved, Busy, Strays, Placing
    <3> QED BY <3>1, <3>2, <3>3, <3>4
  <2>2. CASE Ended(w)
    <3>1. (importer'[w]) \in ImportRun /\ RunType(w)'
      BY <1>0, <1>2, <2>2 DEF Ended, Idling, ImportRun, Phases, RunType, Writing, Placing,
         Busy
    <3>2. RunWritten(w)'
      BY <1>0, <1>2, <2>2 DEF Ended, Idling, ImportRun, RunType, RunWritten, Through, Row,
         Writing, Mapped
    <3>3. RunAlone(w)'
      BY <1>0, <1>2, <2>2 DEF Ended, Idling, ImportRun, RunType, RunWritten, RunAlone,
         Foreseen, Writing
    <3>4. (Busy(w)' => Busy(w) /\ (importer'[w]).alone = run.alone) /\ w \notin Strays'
      BY <1>0, <1>2, <2>2 DEF Ended, Idling, Busy, Strays, Placing
    <3> QED BY <3>1, <3>2, <3>3, <3>4
  <2>3. CASE run.does = "download" /\ Advances(w, "load")
    <3>1. (importer'[w]) \in ImportRun /\ RunType(w)'
      <4>1. importer'[w] \in ImportRun
        BY <2>3, ImportGoesRun DEF Phases, Writing
      <4> QED BY <1>0, <1>2, <2>3, <4>1 DEF Advances, Moved, RunType, Writing, Placing, Busy
    <3>2. RunWritten(w)'
      BY <1>0, <1>2, <2>3 DEF Advances, Moved, ImportRun, RunType, RunWritten, Through, Row,
         Writing, Mapped
    <3>3. RunAlone(w)'
      BY <1>0, <1>2, <2>3 DEF Advances, Moved, ImportRun, RunType, RunWritten, RunAlone,
         Foreseen, Writing
    <3>4. (Busy(w)' => Busy(w) /\ (importer'[w]).alone = run.alone) /\ w \notin Strays'
      BY <1>0, <1>2, <2>3 DEF Advances, Moved, Busy, Strays, Placing
    <3> QED BY <3>1, <3>2, <3>3, <3>4
  <2>4. CASE run.does = "load" /\ run.job \in importBudget.dry /\ Loads(w, "finish")
    <3>1. (importer'[w]) \in ImportRun /\ RunType(w)'
      BY <1>0, <1>2, <2>4 DEF Loads, Moved, ImportRun, Phases, RunType, Writing, Placing,
         Busy
    <3>2. RunWritten(w)'
      BY <1>0, <1>2, <2>4 DEF Loads, Moved, ImportRun, RunType, RunWritten, Through, Row,
         Writing, Mapped
    <3>3. RunAlone(w)'
      BY <1>0, <1>2, <2>4 DEF Loads, Moved, ImportRun, RunType, RunWritten, RunAlone,
         Foreseen, Writing
    <3>4. (Busy(w)' => Busy(w) /\ (importer'[w]).alone = run.alone) /\ w \notin Strays'
      BY <1>0, <1>2, <2>4 DEF Loads, Moved, Busy, Strays, Placing
    <3> QED BY <3>1, <3>2, <3>3, <3>4
  <2>5. CASE run.does = "load" /\ mapping.home # NoHome /\ Loads(w, "list")
    <3>1. (importer'[w]) \in ImportRun /\ RunType(w)'
      BY <1>0, <1>2, <2>5 DEF Loads, Moved, ImportRun, Phases, RunType, Writing, Placing,
         Busy
    <3>2. RunWritten(w)'
      BY <1>0, <1>2, <2>5 DEF Loads, Moved, ImportRun, RunType, RunWritten, Through, Row,
         Writing, Mapped
    <3>3. RunAlone(w)'
      BY <1>0, <1>2, <2>5 DEF Loads, Moved, ImportRun, RunType, RunWritten, RunAlone,
         Foreseen, Writing
    <3>4. (Busy(w)' => Busy(w) /\ (importer'[w]).alone = run.alone) /\ w \notin Strays'
      BY <1>0, <1>2, <2>5 DEF Loads, Moved, Busy, Strays, Placing
    <3> QED BY <3>1, <3>2, <3>3, <3>4
  <2>6. CASE run.does = "load" /\ mapping.home = NoHome /\ Loads(w, "place")
    <3>1. (importer'[w]) \in ImportRun /\ RunType(w)'
      BY <1>0, <1>2, <2>6 DEF Loads, Moved, ImportRun, Phases, RunType, Writing, Placing,
         Busy
    <3>2. RunWritten(w)'
      BY <1>0, <1>2, <2>6 DEF Loads, Moved, ImportRun, RunType, RunWritten, Through, Row,
         Writing, Mapped
    <3>3. RunAlone(w)'
      BY <1>0, <1>2, <2>6 DEF Loads, Moved, ImportRun, RunType, RunWritten, RunAlone,
         Foreseen, Writing
    <3>4. (Busy(w)' => Busy(w) /\ (importer'[w]).alone = run.alone) /\ w \notin Strays'
      BY <1>0, <1>2, <2>6 DEF Loads, Moved, Busy, Strays, Placing
    <3> QED BY <3>1, <3>2, <3>3, <3>4
  <2>7. CASE run.does = "place"
        /\ \E n \in Nat : Moved(w, "create", run.home, run.fresh, run.seen, n, run.files)
    <3>1. (importer'[w]) \in ImportRun /\ RunType(w)'
      BY <1>0, <1>2, <2>7 DEF Moved, ImportRun, Phases, RunType, Writing, Placing, Busy
    <3>2. RunWritten(w)'
      BY <1>0, <1>2, <2>7 DEF Moved, ImportRun, RunType, RunWritten, Through, Row,
         Writing, Mapped
    <3>3. RunAlone(w)'
      BY <1>0, <1>2, <2>7 DEF Moved, ImportRun, RunType, RunWritten, RunAlone, Foreseen,
         Writing
    <3>4. (Busy(w)' => Busy(w) /\ (importer'[w]).alone = run.alone) /\ w \notin Strays'
      BY <1>0, <1>2, <2>7 DEF Moved, Busy, Strays, Placing
    <3> QED BY <3>1, <3>2, <3>3, <3>4
  <2>8. CASE run.does = "place"
        /\ \E h \in DOMAIN homes : Moved(w, "map", h, run.fresh, run.seen, run.at, run.files)
    <3>1. (importer'[w]) \in ImportRun /\ RunType(w)'
      BY <1>0, <1>2, <2>8 DEF Moved, ImportRun, Phases, RunType, Writing, Placing, Busy
    <3>2. RunWritten(w)'
      BY <1>0, <1>2, <2>8 DEF Moved, ImportRun, RunType, RunWritten, Through, Row,
         Writing, Mapped
    <3>3. RunAlone(w)'
      BY <1>0, <1>2, <2>8 DEF Moved, ImportRun, RunType, RunWritten, RunAlone, Foreseen,
         Writing
    <3>4. (Busy(w)' => Busy(w) /\ (importer'[w]).alone = run.alone) /\ w \notin Strays'
      BY <1>0, <1>2, <2>8 DEF Moved, Busy, Strays, Placing
    <3> QED BY <3>1, <3>2, <3>3, <3>4
  <2>9. CASE run.does = "list"
        /\ Moved(w, "message", run.home, run.fresh, Listed(run.home), 1, run.files)
    <3>shape. Listed(run.home) \in SUBSET ((1 .. LastTs) \X (Text .. LastTs - 1))
      BY <1>0, ImportRowShape DEF Listed
    <3>kept. \A m, n \in Int : <<m, n>> \in Listed(run.home) => <<run.home, m, n>> \in rows
      <4>1. TAKE m, n \in Int
      <4>2. HAVE <<m, n>> \in Listed(run.home)
      <4>3. PICK r \in rows : r[1] = run.home /\ <<m, n>> = <<r[2], r[3]>>
        BY <4>2 DEF Listed
      <4>4. r = <<r[1], r[2], r[3]>>
        BY <4>3, ImportRowShape
      <4> QED BY <4>3, <4>4
    <3>text. \A m, n \in Int : <<m, n>> \in Listed(run.home) => <<m, Text>> \in Listed(run.home)
      <4>1. TAKE m, n \in Int
      <4>2. HAVE <<m, n>> \in Listed(run.home)
      <4>3. <<run.home, m, n>> \in rows
        BY <3>kept, <4>2
      <4> DEFINE t == <<run.home, m, Text>>
      <4>4. t \in rows
        BY <4>3 DEF AloneOK
      <4> QED BY <4>4 DEF Listed
    <3>seen. \A r \in rows : r[1] = run.home => <<r[2], r[3]>> \in Listed(run.home)
      BY DEF Listed
    <3>1. (importer'[w]) \in ImportRun /\ RunType(w)'
      BY <1>0, <1>2, <2>9, <3>shape DEF Moved, ImportRun, Phases, RunType, Writing,
         Placing, Busy
    <3>2. RunWritten(w)'
      BY <1>0, <1>2, <2>9, <3>kept DEF Moved, ImportRun, RunType, RunWritten, Through,
         Row, Writing, Mapped
    <3>3. RunAlone(w)'
      BY <1>0, <1>2, <2>9, <3>seen, <3>text
         DEF Moved, ImportRun, RunType, RunWritten, RunAlone, Foreseen, Writing
    <3>4. (Busy(w)' => Busy(w) /\ (importer'[w]).alone = run.alone) /\ w \notin Strays'
      BY <1>0, <1>2, <2>9, <3>shape DEF Moved, Busy, Strays, Placing
    <3> QED BY <3>1, <3>2, <3>3, <3>4
  <2>10. CASE run.does = "message" /\ <<run.at, Text>> \in run.seen
        /\ <<run.at, 0>> \notin run.seen /\ Advances(w, "fetch")
    <3>1. (importer'[w]) \in ImportRun /\ RunType(w)'
      <4>1. importer'[w] \in ImportRun
        BY <2>10, ImportGoesRun DEF Phases, Writing
      <4> QED
        BY <1>0, <1>2, <2>10, <4>1 DEF Advances, Moved, RunType, Writing, Placing, Busy
    <3>2. RunWritten(w)'
      BY <1>0, <1>2, <2>10 DEF Advances, Moved, ImportRun, RunType, RunWritten, Through, Row,
         Writing, Mapped
    <3>3. RunAlone(w)'
      BY <1>0, <1>2, <2>10 DEF Advances, Moved, ImportRun, RunType, RunWritten, RunAlone,
         Foreseen, Writing
    <3>4. (Busy(w)' => Busy(w) /\ (importer'[w]).alone = run.alone) /\ w \notin Strays'
      BY <1>0, <1>2, <2>10 DEF Advances, Moved, Busy, Strays, Placing
    <3> QED BY <3>1, <3>2, <3>3, <3>4
  <2>11. CASE run.does = "dress" /\ Advances(w, "fetch")
    <3>1. (importer'[w]) \in ImportRun /\ RunType(w)'
      <4>1. importer'[w] \in ImportRun
        BY <2>11, ImportGoesRun DEF Phases, Writing
      <4> QED
        BY <1>0, <1>2, <2>11, <4>1 DEF Advances, Moved, RunType, Writing, Placing, Busy
    <3>2. RunWritten(w)'
      BY <1>0, <1>2, <2>11 DEF Advances, Moved, ImportRun, RunType, RunWritten, Through, Row,
         Writing, Mapped
    <3>3. RunAlone(w)'
      BY <1>0, <1>2, <2>11 DEF Advances, Moved, ImportRun, RunType, RunWritten, RunAlone,
         Foreseen, Writing
    <3>4. (Busy(w)' => Busy(w) /\ (importer'[w]).alone = run.alone) /\ w \notin Strays'
      BY <1>0, <1>2, <2>11 DEF Advances, Moved, Busy, Strays, Placing
    <3> QED BY <3>1, <3>2, <3>3, <3>4
  <2>12. CASE run.does = "fetch" /\ Advances(w, "attachment")
    <3>1. (importer'[w]) \in ImportRun /\ RunType(w)'
      <4>1. importer'[w] \in ImportRun
        BY <2>12, ImportGoesRun DEF Phases, Writing
      <4> QED
        BY <1>0, <1>2, <2>12, <4>1 DEF Advances, Moved, RunType, Writing, Placing, Busy
    <3>2. RunWritten(w)'
      BY <1>0, <1>2, <2>12 DEF Advances, Moved, ImportRun, RunType, RunWritten, Through, Row,
         Writing, Mapped
    <3>3. RunAlone(w)'
      BY <1>0, <1>2, <2>12 DEF Advances, Moved, ImportRun, RunType, RunWritten, RunAlone,
         Foreseen, Writing
    <3>4. (Busy(w)' => Busy(w) /\ (importer'[w]).alone = run.alone) /\ w \notin Strays'
      BY <1>0, <1>2, <2>12 DEF Advances, Moved, Busy, Strays, Placing
    <3> QED BY <3>1, <3>2, <3>3, <3>4
  <2>13. CASE run.does \in Writing /\ (run.does = "message" => <<run.at, Text>> \in run.seen)
        /\ (Passes(w, run.files) \/ Passes(w, run.files + 1))
    <3> DEFINE d == IF run.at = LastTs THEN "close" ELSE "message"
    <3>1. /\ run.at \in 1 .. LastTs /\ run.files < run.at
          /\ run.home \in Nat /\ run.files \in Nat /\ run.fresh \in BOOLEAN
          /\ run.seen \in SUBSET ((1 .. LastTs) \X (Text .. LastTs - 1))
      BY <1>0, <1>2, <2>13 DEF RunType, ImportRun
    <3>2. PICK k \in {run.files, run.files + 1} :
              Moved(w, d, run.home, run.fresh, run.seen, run.at + 1, k)
      BY <2>13 DEF Passes
    <3>3. importer'[w] \in ImportRun
      <4>1. k \in 0 .. LastTs /\ run.at + 1 \in Nat /\ d \in Phases
        BY <1>0, <3>1, <3>2 DEF Phases, Writing
      <4> HIDE DEF d, run
      <4> QED BY <3>1, <3>2, <4>1, ImportMovedRun
    <3>4. /\ (importer'[w]).files = k /\ k \in {run.files, run.files + 1}
           /\ (importer'[w]).at = run.at + 1 /\ (importer'[w]).home = run.home
           /\ (importer'[w]).fresh = run.fresh /\ (importer'[w]).seen = run.seen
           /\ (importer'[w]).job = run.job /\ (importer'[w]).alone = run.alone
           /\ (importer'[w]).does = d
      <4> HIDE DEF d
      <4> QED BY <3>2 DEF Moved
    <3>5. <<run.home, run.at, Text>> \in rows
      BY <1>0, <1>2, <2>13, <3>1, <3>4 DEF RunWritten, Row, Writing
    <3>6. Through(run.home, run.at)
      BY <1>2, <2>13, <3>1, <3>4, <3>5 DEF RunWritten, Through
    <3>7. \A m \in 1 .. run.at : <<run.home, m, Text>> \in rows'
      BY <3>6 DEF Through
    <3>8. run.does \in Mapped
      BY <2>13 DEF Mapped
    <3>9. RunType(w)'
      <4>1. /\ (importer'[w]).does \in {"close", "message"}
            /\ (importer'[w]).does = "message" => run.at + 1 \in 1 .. LastTs
        BY <1>0, <3>1, <3>4
      <4>2. k < run.at + 1
        BY <3>1, <3>4
      <4>3. run.job \in ImportJob
        BY <1>2, <2>13 DEF RunType, Busy, Writing
      <4> QED BY <3>1, <3>4, <4>1, <4>2, <4>3 DEF RunType, Writing, Placing, Busy
    <3>10. RunWritten(w)'
      <4>1. CASE run.at = LastTs
        BY <1>0, <1>2, <3>1, <3>4, <3>7, <3>8, <4>1
           DEF RunWritten, Through, Row, Writing, Mapped
      <4>2. CASE run.at # LastTs
        <5>1. run.at + 1 - 1 = run.at
          BY <3>1, <3>4
        <5> QED
          BY <1>0, <1>2, <2>13, <3>1, <3>4, <3>7, <3>8, <4>2, <5>1 DEF RunWritten, Through,
             Row, Writing, Mapped
      <4> QED BY <4>1, <4>2
    <3>11. RunAlone(w)'
      <4>1. \A r \in rows : r[2] \in Int
        BY ImportRowShape
      <4>2. run.does \in Writing /\ RunAlone(w)
        BY <1>2, <2>13
      <4>3. (importer'[w]).does \notin {"dress", "fetch", "attachment", "attach"}
        BY <3>4
      <4>4. ASSUME NEW r \in rows, run.alone, r[1] = run.home
            PROVE  <<r[2], r[3]>> \in run.seen \/ r[2] < run.at + 1
        BY <3>1, <4>1, <4>2, <4>4 DEF RunAlone, Foreseen
      <4>5. \A m, n \in Int : <<m, n>> \in run.seen => <<m, Text>> \in run.seen
        BY <4>2 DEF RunAlone
      <4>6. \A r \in rows' : r \in rows
        BY <1>0, <2>13
      <4> HIDE DEF run, d
      <4>7. run.alone => \A r \in rows' : r[1] = run.home => Foreseen(w, r)'
        BY <3>4, <4>4, <4>6 DEF Foreseen
      <4> QED BY <3>4, <4>3, <4>5, <4>7 DEF RunAlone, Writing
    <3>12. (Busy(w)' => Busy(w) /\ (importer'[w]).alone = run.alone) /\ w \notin Strays'
      BY <2>13, <3>1, <3>4 DEF Busy, Strays, Writing
    <3> QED BY <3>3, <3>9, <3>10, <3>11, <3>12
  <2>14. CASE run.does = "finish" /\ Advances(w, "discard")
    <3>1. (importer'[w]) \in ImportRun /\ RunType(w)'
      <4>1. importer'[w] \in ImportRun
        BY <2>14, ImportGoesRun DEF Phases, Writing
      <4> QED
        BY <1>0, <1>2, <2>14, <4>1 DEF Advances, Moved, RunType, Writing, Placing, Busy
    <3>2. RunWritten(w)'
      BY <1>0, <1>2, <2>14 DEF Advances, Moved, ImportRun, RunType, RunWritten, Through, Row,
         Writing, Mapped
    <3>3. RunAlone(w)'
      BY <1>0, <1>2, <2>14 DEF Advances, Moved, ImportRun, RunType, RunWritten, RunAlone,
         Foreseen, Writing
    <3>4. (Busy(w)' => Busy(w) /\ (importer'[w]).alone = run.alone) /\ w \notin Strays'
      BY <1>0, <1>2, <2>14 DEF Advances, Moved, Busy, Strays, Placing
    <3> QED BY <3>1, <3>2, <3>3, <3>4
  <2> QED
    BY <2>1, <2>2, <2>3, <2>4, <2>5, <2>6, <2>7, <2>8, <2>9, <2>10, <2>11, <2>12, <2>13,
       <2>14 DEF Control
<1>4. RunTypes'
  <2>1. \A v \in Importer \ {w} : RunType(v)'
    BY <1>1 DEF RunTypes, RunType, Busy
  <2>2. \A v \in Importer : importer'[v] \in ImportRun
    BY <1>1, <1>3 DEF RunTypes
  <2>3. importer' \in [Importer -> ImportRun]
    BY <1>1, <2>2 DEF RunTypes
  <2> QED BY <1>3, <2>1, <2>3 DEF RunTypes
<1>5. HomeOK'
  BY <1>0, <1>1 DEF HomeOK, Control, Advances, Moved, Ended, Loads, Passes, Writing, Placing,
     Mapped, Idling
<1>6. WrittenOK'
  <2>1. \A v \in Importer \ {w} : RunWritten(v)'
    BY <1>1 DEF WrittenOK, RunWritten, Through, Row
  <2> QED BY <1>3, <2>1 DEF WrittenOK
<1>7. AloneOK'
  <2>1. \A v \in Importer \ {w} : RunAlone(v)'
    BY <1>1 DEF AloneOK, RunAlone, Foreseen
  <2> QED BY <1>1, <1>3, <2>1 DEF AloneOK, Busy
<1>8. MadeOK'
  <2>1. Strays' = Strays \ {w}
    BY <1>1, <1>3 DEF Strays
  <2>2. IsFiniteSet(Strays) /\ Cardinality(Strays) \in Nat
    BY FS_Subset, FS_CardinalityType DEF ImportAssumption, Strays
  <2>3. Cardinality(made) \in Nat
    BY FS_CardinalityType DEF MadeOK
  <2>4. Cardinality(Strays') = Cardinality(Strays) - Stray(w)
    <3>1. CASE w \in Strays
      BY <2>1, <2>2, <3>1, FS_RemoveElement DEF Stray, Strays
    <3>2. CASE w \notin Strays
      <4>1. Strays' = Strays /\ Stray(w) = 0
        BY <2>1, <3>2 DEF Stray, Strays
      <4> QED BY <2>2, <4>1
    <3> QED BY <3>1, <3>2
  <2>5. Stray(w) \in {0, 1}
    BY DEF Stray
  <2> HIDE DEF run
  <2> QED BY <2>2, <2>3, <2>4, <2>5 DEF MadeOK, ImportTypes
<1> QED BY <1>4, <1>5, <1>6, <1>7, <1>8

(* The steps in which a run learns of channels and messages. *)
LEMMA ImportLearns ==
    ASSUME ImportAssumption, ImportTypes, RunTypes, NEW w \in Importer
    PROVE  /\ LoadMapping(w) => Control(w)
           /\ PlaceChannel(w) => Control(w)
           /\ importer' = [importer EXCEPT
                  ![w].does = "message", ![w].at = 1,
                  ![w].seen = Listed(importer[w].home)] =>
                  Moved(w, "message", importer[w].home, importer[w].fresh,
                        Listed(importer[w].home), 1, importer[w].files)
           /\ \A h : importer' = [importer EXCEPT ![w].does = "map", ![w].home = h,
                                                  ![w].fresh = TRUE] =>
                  Moved(w, "map", h, TRUE, importer[w].seen, importer[w].at, importer[w].files)
<1> DEFINE run == importer[w]
<1>0. run \in ImportRun /\ importer \in [Importer -> ImportRun]
  BY DEF RunTypes
<1>1. ASSUME LoadMapping(w) PROVE Control(w)
  <2> DEFINE d == CASE importer[w].job \in importBudget.dry -> "finish"
                    [] mapping.home # NoHome -> "list"
                    [] OTHER -> "place"
             x == [run EXCEPT !.does = d, !.home = mapping.home, !.fresh = mapping.made]
  <2>0. importer' = [importer EXCEPT ![w].does = d, ![w].home = mapping.home,
                                     ![w].fresh = mapping.made]
    BY <1>1, Zenon DEF LoadMapping
  <2> HIDE DEF d
  <2>1. importer' = [importer EXCEPT ![w] = x]
    BY <1>0, <2>0
  <2>2. x = [does |-> d, job |-> run.job, home |-> mapping.home, fresh |-> mapping.made,
             seen |-> run.seen, at |-> run.at, files |-> run.files, alone |-> run.alone]
    BY <1>0, RunHasHome, Zenon DEF x
  <2> HIDE DEF x
  <2>3. Loads(w, d)
    BY <1>0, <2>1, <2>2 DEF Loads, Moved
  <2>4. run.does = "load"
    BY <1>1 DEF LoadMapping
  <2>5. \/ run.job \in importBudget.dry /\ d = "finish"
        \/ mapping.home # NoHome /\ d = "list"
        \/ mapping.home = NoHome /\ d = "place"
    BY DEF d
  <2> HIDE DEF run
  <2> QED BY <2>3, <2>4, <2>5, Zenon DEF Control, run
<1>2. ASSUME PlaceChannel(w) PROVE Control(w)
  <2>1. PICK n \in 0 .. Len(homes) :
            /\ run.does = "place"
            /\ \/ importer' = [importer EXCEPT ![w].does = "create", ![w].at = n]
               \/ \E h \in Named(n) :
                      importer' = [importer EXCEPT ![w].does = "map", ![w].home = h]
    BY <1>2 DEF PlaceChannel
  <2>2. CASE importer' = [importer EXCEPT ![w].does = "create", ![w].at = n]
    <3> DEFINE x == [run EXCEPT !.does = "create", !.at = n]
    <3>1. importer' = [importer EXCEPT ![w] = x]
      BY <1>0, <2>2
    <3>2. x = [does |-> "create", job |-> run.job, home |-> run.home, fresh |-> run.fresh,
               seen |-> run.seen, at |-> n, files |-> run.files, alone |-> run.alone]
      BY <1>0, RunFindsName, Zenon DEF x
    <3> HIDE DEF x
    <3>3. Moved(w, "create", run.home, run.fresh, run.seen, n, run.files)
      BY <1>0, <3>1, <3>2 DEF Moved
    <3>4. n \in Nat
      BY DEF ImportTypes
    <3> HIDE DEF run
    <3> QED BY <2>1, <3>3, <3>4, Zenon DEF Control, run
  <2>3. ASSUME NEW h \in Named(n),
               importer' = [importer EXCEPT ![w].does = "map", ![w].home = h]
        PROVE  Control(w)
    <3> DEFINE x == [run EXCEPT !.does = "map", !.home = h]
    <3>1. importer' = [importer EXCEPT ![w] = x]
      BY <1>0, <2>3
    <3>2. x = [does |-> "map", job |-> run.job, home |-> h, fresh |-> run.fresh,
               seen |-> run.seen, at |-> run.at, files |-> run.files, alone |-> run.alone]
      BY <1>0, RunFindsHome, Zenon DEF x
    <3> HIDE DEF x
    <3>3. Moved(w, "map", h, run.fresh, run.seen, run.at, run.files)
      BY <1>0, <3>1, <3>2 DEF Moved
    <3>4. h \in DOMAIN homes
      BY <2>3 DEF Named
    <3> HIDE DEF run
    <3> QED BY <2>1, <3>3, <3>4, Zenon DEF Control, run
  <2> QED BY <2>1, <2>2, <2>3
<1>3. ASSUME NEW s, importer' = [importer EXCEPT ![w].does = "message", ![w].at = 1, ![w].seen = s]
      PROVE  Moved(w, "message", run.home, run.fresh, s, 1, run.files)
  <2> DEFINE x == [run EXCEPT !.does = "message", !.at = 1, !.seen = s]
  <2>1. importer' = [importer EXCEPT ![w] = x]
    BY <1>0, <1>3
  <2>2. x = [does |-> "message", job |-> run.job, home |-> run.home, fresh |-> run.fresh,
             seen |-> s, at |-> 1, files |-> run.files, alone |-> run.alone]
    BY <1>0, RunLists, Zenon DEF x
  <2> HIDE DEF x
  <2> QED BY <1>0, <2>1, <2>2 DEF Moved
<1>4. ASSUME NEW h, importer' = [importer EXCEPT ![w].does = "map", ![w].home = h, ![w].fresh = TRUE]
      PROVE  Moved(w, "map", h, TRUE, run.seen, run.at, run.files)
  <2> DEFINE x == [run EXCEPT !.does = "map", !.home = h, !.fresh = TRUE]
  <2>1. importer' = [importer EXCEPT ![w] = x]
    BY <1>0, <1>4
  <2>2. x = [does |-> "map", job |-> run.job, home |-> h, fresh |-> TRUE,
             seen |-> run.seen, at |-> run.at, files |-> run.files, alone |-> run.alone]
    BY <1>0, RunHasHome, Zenon DEF x
  <2> HIDE DEF x
  <2> QED BY <1>0, <2>1, <2>2 DEF Moved
<1> QED BY <1>1, <1>2, <1>3, <1>4

(* The other steps that leave channels and messages alone. *)
LEMMA ImportControls ==
    ASSUME ImportAssumption, ImportTypes, RunTypes, NEW w \in Importer
    PROVE  /\ Fails(w) /\ Busy(w) => Control(w)
           /\ DownloadExport(w) => Control(w)
           /\ ListImported(w) => Control(w)
           /\ importer[w].does = "message" /\ <<importer[w].at, Text>> \in importer[w].seen
              /\ (IF MissesFile(w) THEN AfterText(w) ELSE Onward(w, importer[w].files))
              => Control(w)
           /\ importer[w].does = "dress" /\ AfterText(w) => Control(w)
           /\ FetchFile(w) => Control(w)
           /\ importer[w].does \in Writing \ {"message"}
              /\ (Onward(w, importer[w].files) \/ Onward(w, importer[w].files + 1)) => Control(w)
           /\ FinishRun(w) => Control(w)
           /\ Stops(w) => Control(w)
<1> DEFINE run == importer[w]
<1>0. /\ \A d : Then(w, d) => Advances(w, d)
      /\ \A n : Onward(w, n) => Passes(w, n)
      /\ Stops(w) => Ended(w)
  BY ImportMoves DEF Passes
<1>1. Fails(w) /\ Busy(w) => Control(w)
  BY <1>0 DEF Fails, Control
<1>2. DownloadExport(w) => Control(w)
  BY <1>0, <1>1 DEF DownloadExport, Control, Busy
<1>3. ListImported(w) => Control(w)
  BY <1>1, ImportLearns DEF ListImported, Control, Listed, Busy
<1>4. /\ importer[w].does = "message" /\ <<importer[w].at, Text>> \in importer[w].seen
      /\ (IF MissesFile(w) THEN AfterText(w) ELSE Onward(w, importer[w].files))
      => Control(w)
  BY <1>0 DEF Control, MissesFile, AfterText, Writing
<1>5. importer[w].does = "dress" /\ AfterText(w) => Control(w)
  BY <1>0 DEF Control, AfterText, Writing
<1>6. FetchFile(w) => Control(w)
  BY <1>0 DEF Control, FetchFile, Writing
<1>7. importer[w].does \in Writing \ {"message"}
      /\ (Onward(w, importer[w].files) \/ Onward(w, importer[w].files + 1)) => Control(w)
  BY <1>0 DEF Control
<1>8. FinishRun(w) => Control(w)
  BY <1>0, <1>1 DEF FinishRun, Control, Busy
<1>9. Stops(w) => Control(w)
  BY <1>0 DEF Control
<1> QED BY <1>1, <1>2, <1>3, <1>4, <1>5, <1>6, <1>7, <1>8, <1>9

(* A claim starts a run, and ends what the others had to themselves. *)
LEMMA ImportClaims ==
    ASSUME ImportAssumption, ImportTypes, RunTypes, HomeOK, WrittenOK, MadeOK, AloneOK,
           NEW w \in Importer, NEW j \in ImportJob, ClaimImport(w, j)
    PROVE  /\ RunTypes' /\ HomeOK' /\ WrittenOK' /\ MadeOK' /\ AloneOK'
           /\ \A v \in Importer \ {w} :
                  /\ (importer'[v]).does = importer[v].does
                  /\ (importer'[v]).job = importer[v].job
                  /\ (importer'[v]).home = importer[v].home
                  /\ (importer'[v]).at = importer[v].at
                  /\ (importer'[v]).files = importer[v].files
           /\ (importer'[w]).does = "download" /\ (importer'[w]).job = j
           /\ importer[w].does = "poll"
<1> DEFINE Others == {v \in Importer : Busy(v)}
           x == [Idling EXCEPT !.does = "download", !.job = j, !.alone = Others = {}]
<1>0. /\ importer[w] \in ImportRun /\ DOMAIN homes = 1 .. Len(homes)
      /\ LastTs \in Nat /\ LastTs > 0 /\ Text = -1 /\ NoHome = 0 /\ Idling \in ImportRun
  BY ImportRuns
<1>1. /\ importer' = [v \in Importer |-> IF v = w THEN x ELSE [importer[v] EXCEPT !.alone = ~Busy(v)]]
      /\ importer[w].does = "poll"
  BY DEF ClaimImport, Busy
<1>2. /\ x.does = "download" /\ x.job = j /\ x.home = NoHome /\ x.fresh = FALSE
      /\ x.files = 0 /\ x.alone = (Others = {}) /\ x.at = 0 /\ x.seen = {}
  BY DEF Idling
<1>3. x \in ImportRun
  <2>1. (Others = {}) \in BOOLEAN
    BY Zenon
  <2> DEFINE b == Others = {}
  <2>2. x = [Idling EXCEPT !.does = "download", !.job = j, !.alone = b]
    OBVIOUS
  <2>3. b \in BOOLEAN
    BY <2>1
  <2> HIDE DEF x, b
  <2>4. j \in ImportJob \cup {0} /\ "download" \in Phases
    BY DEF Phases
  <2>5. x = [does |-> "download", job |-> j, home |-> 0, fresh |-> FALSE, seen |-> {},
             at |-> 0, files |-> 0, alone |-> b]
    BY <2>2 DEF Idling, NoHome
  <2> QED BY <1>0, <2>3, <2>4, <2>5 DEF ImportRun
<1> HIDE DEF x
<1>4. ASSUME NEW v \in Importer \ {w}
      PROVE  /\ importer'[v] \in ImportRun
             /\ (importer'[v]).does = importer[v].does /\ (importer'[v]).job = importer[v].job
             /\ (importer'[v]).home = importer[v].home /\ (importer'[v]).fresh = importer[v].fresh
             /\ (importer'[v]).seen = importer[v].seen /\ (importer'[v]).at = importer[v].at
             /\ (importer'[v]).files = importer[v].files /\ (importer'[v]).alone = ~Busy(v)
  <2> DEFINE b == ~Busy(v)
  <2>1. b \in BOOLEAN
    BY Zenon
  <2>2. importer'[v] = [importer[v] EXCEPT !.alone = b]
    BY <1>1
  <2>3. importer[v] \in ImportRun
    BY DEF RunTypes
  <2> HIDE DEF b
  <2>4. /\ importer'[v] \in ImportRun
        /\ (importer'[v]).does = importer[v].does /\ (importer'[v]).job = importer[v].job
        /\ (importer'[v]).home = importer[v].home /\ (importer'[v]).fresh = importer[v].fresh
        /\ (importer'[v]).seen = importer[v].seen /\ (importer'[v]).at = importer[v].at
        /\ (importer'[v]).files = importer[v].files /\ (importer'[v]).alone = b
    BY <2>1, <2>2, <2>3 DEF ImportRun
  <2> QED BY <2>4 DEF b
<1>5. importer'[w] = x /\ DOMAIN importer' = Importer
  BY <1>1
<1>6. UNCHANGED <<homes, made, closed, mapping, rows, crossed, strays, importBudget>>
  BY DEF ClaimImport, channelVars, messageVars
<1>7. RunTypes'
  <2>1. importer' \in [Importer -> ImportRun]
    BY <1>1, <1>3, <1>4, <1>5
  <2>2. \A v \in Importer \ {w} : RunType(v)'
    BY <1>4 DEF RunTypes, RunType, Busy
  <2>3. RunType(w)'
    BY <1>2, <1>5 DEF RunType, Busy, Writing
  <2> QED BY <2>1, <2>2, <2>3 DEF RunTypes
<1>8. HomeOK'
  BY <1>2, <1>4, <1>5, <1>6 DEF HomeOK, Writing, Mapped
<1>9. WrittenOK'
  <2>1. \A v \in Importer \ {w} : RunWritten(v)'
    BY <1>4, <1>6 DEF WrittenOK, RunWritten, Through, Row
  <2>2. RunWritten(w)'
    BY <1>2, <1>5 DEF RunWritten, Writing, Mapped
  <2> QED BY <1>6, <2>1, <2>2 DEF WrittenOK
<1>10. MadeOK'
  <2>1. Strays' = Strays
    BY <1>1, <1>2, <1>4, <1>5 DEF Strays
  <2> QED BY <1>6, <2>1 DEF MadeOK
<1>11. AloneOK'
  <2>1. ASSUME NEW v \in Importer \ {w} PROVE RunAlone(v)'
    <3>1. RunAlone(v) /\ (importer[v].does \in Writing => Busy(v))
      BY DEF AloneOK, Busy, Writing
    <3>2. importer[v].does \in Writing => ~(importer'[v]).alone
      BY <1>4, <3>1
    <3> QED BY <1>4, <1>6, <3>1, <3>2 DEF RunAlone
  <2>2. RunAlone(w)'
    BY <1>2, <1>5 DEF RunAlone, Writing
  <2>3. \A v \in Importer \ {w} : (importer'[v]).alone => ~Busy(v)'
    BY <1>4 DEF Busy
  <2>4. (importer'[w]).alone => \A v \in Importer \ {w} : ~Busy(v)'
    <3>1. (importer'[w]).alone = (Others = {})
      BY <1>2, <1>5
    <3>2. Others = {} => \A v \in Importer \ {w} : ~Busy(v)
      BY Zenon
    <3>3. \A v \in Importer \ {w} : Busy(v)' <=> Busy(v)
      BY <1>4 DEF Busy
    <3> HIDE DEF Others
    <3> QED BY <3>1, <3>2, <3>3, Zenon
  <2>5. \A r \in rows' : <<r[1], r[2], Text>> \in rows'
    BY <1>6 DEF AloneOK
  <2> QED BY <2>1, <2>2, <2>3, <2>4, <2>5 DEF AloneOK
<1> QED BY <1>1, <1>2, <1>4, <1>5, <1>7, <1>8, <1>9, <1>10, <1>11

(* A channel is made. *)
LEMMA ImportCreates ==
    ASSUME ImportAssumption, ImportTypes, RunTypes, HomeOK, WrittenOK, MadeOK, AloneOK,
           NEW w \in Importer, importer[w].does = "create",
           NEW c \in [name : Nat, kind : {"public", "private"}],
           homes' = Append(homes, c), made' = made \cup {Len(homes) + 1},
           Moved(w, "map", Len(homes) + 1, TRUE, importer[w].seen, importer[w].at, importer[w].files),
           UNCHANGED <<closed, mapping, rows, crossed, strays, importBudget>>
    PROVE  RunTypes' /\ HomeOK' /\ WrittenOK' /\ MadeOK' /\ AloneOK' /\ DOMAIN homes \subseteq DOMAIN homes'
<1> DEFINE h == Len(homes) + 1
<1>0. /\ importer[w] \in ImportRun /\ DOMAIN homes = 1 .. Len(homes)
      /\ LastTs \in Nat /\ LastTs > 0 /\ Text = -1 /\ NoHome = 0 /\ Idling \in ImportRun
  BY ImportRuns
<1>1. /\ \A v \in Importer \ {w} : importer'[v] = importer[v]
      /\ (importer'[w]).does = "map" /\ (importer'[w]).home = h /\ (importer'[w]).fresh = TRUE
      /\ (importer'[w]).job = importer[w].job /\ (importer'[w]).files = importer[w].files
      /\ (importer'[w]).alone = importer[w].alone
      /\ importer' = [v \in Importer |-> importer'[v]]
  BY DEF Moved
<1>2. h \in Nat /\ h \notin DOMAIN homes /\ DOMAIN homes' = DOMAIN homes \cup {h}
  <2>1. Len(homes) \in Nat
    BY DEF ImportTypes
  <2>2. DOMAIN homes' = 1 .. Len(homes) + 1
    BY DEF ImportTypes
  <2> QED BY <1>0, <2>1, <2>2
<1>3. RunTypes'
  <2>1. importer'[w] \in ImportRun
    <3>1. /\ importer[w].at \in Nat /\ importer[w].files \in 0 .. LastTs /\ "map" \in Phases
          /\ importer[w].seen \in SUBSET ((1 .. LastTs) \X (Text .. LastTs - 1))
      BY <1>0 DEF ImportRun, Phases
    <3> QED BY <1>2, <3>1, ImportMovedRun
  <2>2. \A v \in Importer : importer'[v] \in ImportRun
    BY <1>1, <2>1 DEF RunTypes
  <2>3. importer' \in [Importer -> ImportRun]
    BY <1>1, <2>2
  <2>4. \A v \in Importer \ {w} : RunType(v)'
    BY <1>1 DEF RunTypes, RunType, Busy
  <2>5. RunType(w)'
    BY <1>1 DEF RunTypes, RunType, Busy, Writing, Placing
  <2> QED BY <2>3, <2>4, <2>5 DEF RunTypes
<1>4. HomeOK'
  BY <1>1, <1>2 DEF HomeOK, Writing, Mapped, Placing
<1>5. WrittenOK'
  <2>1. \A v \in Importer \ {w} : RunWritten(v)'
    BY <1>1, <1>2 DEF WrittenOK, RunWritten, Through, Row
  <2>2. RunWritten(w)'
    BY <1>1 DEF RunWritten, Writing, Mapped
  <2> QED BY <2>1, <2>2 DEF WrittenOK
<1>6. MadeOK'
  <2>1. Strays' = Strays \cup {w} /\ w \notin Strays
    BY <1>1 DEF Strays
  <2>2. IsFiniteSet(Strays) /\ Cardinality(Strays) \in Nat
    BY FS_Subset, FS_CardinalityType DEF ImportAssumption, Strays
  <2>3. Cardinality(made) \in Nat /\ h \notin made
    BY <1>2, FS_CardinalityType DEF MadeOK, HomeOK
  <2>4. Cardinality(Strays') = Cardinality(Strays) + 1
    BY <2>1, <2>2, FS_AddElement
  <2>5. IsFiniteSet(made') /\ Cardinality(made') = Cardinality(made) + 1
    BY <2>3, FS_AddElement DEF MadeOK
  <2> HIDE DEF h
  <2>6. mapping' = mapping /\ strays' = strays /\ crossed' = crossed /\ strays \in Nat
    BY DEF ImportTypes
  <2> QED BY <2>2, <2>3, <2>4, <2>5, <2>6 DEF MadeOK
<1>7. AloneOK'
  <2>1. ASSUME NEW v \in Importer \ {w} PROVE RunAlone(v)'
    <3>1. RunAlone(v) /\ importer'[v] = importer[v]
      BY <1>1 DEF AloneOK
    <3> QED BY <3>1 DEF RunAlone, Foreseen
  <2>2. RunAlone(w)'
    BY <1>1 DEF RunAlone, Writing
  <2> QED BY <1>1, <2>1, <2>2 DEF AloneOK, Busy
<1> QED BY <1>2, <1>3, <1>4, <1>5, <1>6, <1>7

(* A channel is mapped: the first time nothing was written before. *)
LEMMA ImportMaps ==
    ASSUME ImportAssumption, ImportTypes, RunTypes, HomeOK, WrittenOK, MadeOK, AloneOK,
           NEW w \in Importer, importer[w].does = "map", Advances(w, "list"),
           mapping' = [home |-> importer[w].home, made |-> importer[w].fresh],
           crossed' = (crossed \/ mapping.home # NoHome),
           UNCHANGED <<homes, made, closed, rows, strays, importBudget>>
    PROVE  RunTypes' /\ HomeOK' /\ WrittenOK' /\ MadeOK' /\ AloneOK'
<1> DEFINE run == importer[w]
<1>0. /\ run \in ImportRun /\ DOMAIN homes = 1 .. Len(homes)
      /\ LastTs \in Nat /\ LastTs > 0 /\ Text = -1 /\ NoHome = 0 /\ Idling \in ImportRun
  BY ImportRuns
<1>1. /\ \A v \in Importer \ {w} : importer'[v] = importer[v]
      /\ (importer'[w]).does = "list" /\ (importer'[w]).home = run.home
      /\ (importer'[w]).fresh = run.fresh
      /\ (importer'[w]).job = run.job /\ (importer'[w]).files = run.files
      /\ (importer'[w]).alone = run.alone
      /\ importer' = [v \in Importer |-> importer'[v]]
  BY DEF Advances, Moved
<1>2. mapping'.home = run.home /\ mapping'.made = run.fresh /\ run.home \in DOMAIN homes
  BY DEF HomeOK
<1>3. RunTypes'
  <2>1. importer'[w] \in ImportRun
    BY ImportGoesRun DEF Phases
  <2>2. \A v \in Importer : importer'[v] \in ImportRun
    BY <1>1, <2>1 DEF RunTypes
  <2>3. importer' \in [Importer -> ImportRun]
    BY <1>1, <2>2
  <2>4. \A v \in Importer \ {w} : RunType(v)'
    BY <1>1 DEF RunTypes, RunType, Busy
  <2>5. RunType(w)'
    BY <1>1 DEF RunTypes, RunType, Busy, Writing, Placing
  <2> QED BY <2>3, <2>4, <2>5 DEF RunTypes
<1>4. HomeOK'
  BY <1>1, <1>2 DEF HomeOK, Writing, Mapped, Placing
<1>5. ASSUME ~crossed' PROVE ~crossed /\ mapping.home = NoHome
  BY <1>5
<1>6. WrittenOK'
  <2>1. ASSUME NEW v \in Importer \ {w} PROVE RunWritten(v)'
    <3>1. RunWritten(v) /\ importer'[v] = importer[v]
      BY <1>1 DEF WrittenOK
    <3>2. ~crossed' => importer[v].does \notin Mapped
      BY <1>0, <1>5, <3>1 DEF RunWritten, HomeOK
    <3>3. ~crossed' => ~(importer[v].does = "finish" /\ importer[v].job \notin importBudget.dry)
      BY <1>0, <1>5, <3>1 DEF RunWritten, HomeOK
    <3> QED BY <3>1, <3>2, <3>3 DEF RunWritten, Through, Row
  <2>2. RunWritten(w)'
    BY <1>1, <1>2 DEF RunWritten, Writing, Mapped
  <2>3. ~crossed' => rows = {}
    BY <1>0, <1>5 DEF WrittenOK, ImportTypes
  <2> QED BY <2>1, <2>2, <2>3 DEF WrittenOK
<1>7. MadeOK'
  <2>1. Strays' = Strays \ {w}
    BY <1>1 DEF Strays
  <2>2. IsFiniteSet(Strays) /\ Cardinality(Strays) \in Nat
    BY FS_Subset, FS_CardinalityType DEF ImportAssumption, Strays
  <2>3. Cardinality(made) \in Nat
    BY FS_CardinalityType DEF MadeOK
  <2>4. Cardinality(Strays') >= Cardinality(Strays) - 1 /\ Cardinality(Strays') \in Nat
    <3>1. Cardinality(Strays \ {w}) =
              IF w \in Strays THEN Cardinality(Strays) - 1 ELSE Cardinality(Strays)
      BY <2>2, FS_RemoveElement
    <3>2. IsFiniteSet(Strays \ {w}) /\ Cardinality(Strays \ {w}) \in Nat
      BY <2>2, FS_RemoveElement, FS_CardinalityType
    <3>3. Cardinality(Strays') = Cardinality(Strays \ {w})
      BY <2>1
    <3> HIDE DEF run
    <3> QED BY <2>2, <3>1, <3>2, <3>3
  <2>5. mapping'.home # NoHome
    BY <1>0, <1>2
  <2> HIDE DEF run
  <2> QED BY <1>5, <2>2, <2>3, <2>4, <2>5 DEF MadeOK, ImportTypes
<1>8. AloneOK'
  <2>1. ASSUME NEW v \in Importer \ {w} PROVE RunAlone(v)'
    <3>1. RunAlone(v) /\ importer'[v] = importer[v]
      BY <1>1 DEF AloneOK
    <3> QED BY <3>1 DEF RunAlone, Foreseen
  <2>2. RunAlone(w)'
    BY <1>1 DEF RunAlone, Writing
  <2> QED BY <1>1, <2>1, <2>2 DEF AloneOK, Busy
<1> QED BY <1>3, <1>4, <1>6, <1>7, <1>8

(* A row is written, of a message or of a file. *)
LEMMA ImportWrites ==
    ASSUME ImportAssumption, ImportTypes, RunTypes, HomeOK, WrittenOK, MadeOK, AloneOK,
           NEW w \in Importer, NEW n, NEW d, rows' = rows \cup {Row(w, n)}, Advances(w, d),
           \/ /\ importer[w].does = "message" /\ n = Text /\ d \in {"dress", "fail"}
              /\ <<importer[w].at, Text>> \notin importer[w].seen
           \/ importer[w].does = "attachment" /\ n = importer[w].files /\ d = "attach",
           UNCHANGED <<homes, made, closed, mapping, crossed, strays>>,
           importBudget'.dry = importBudget.dry
    PROVE  /\ RunTypes' /\ HomeOK' /\ WrittenOK' /\ MadeOK' /\ AloneOK'
           /\ rows' \subseteq (DOMAIN homes) \X (1 .. LastTs) \X (Text .. LastTs - 1)
<1> DEFINE run == importer[w]
<1>0. /\ run \in ImportRun /\ DOMAIN homes = 1 .. Len(homes)
      /\ LastTs \in Nat /\ LastTs > 0 /\ Text = -1 /\ NoHome = 0 /\ Idling \in ImportRun
  BY ImportRuns
<1>1. /\ \A v \in Importer \ {w} : importer'[v] = importer[v]
      /\ (importer'[w]).does = d /\ (importer'[w]).home = run.home
      /\ (importer'[w]).fresh = run.fresh /\ (importer'[w]).seen = run.seen
      /\ (importer'[w]).job = run.job /\ (importer'[w]).files = run.files
      /\ (importer'[w]).at = run.at /\ (importer'[w]).alone = run.alone
      /\ importer' = [v \in Importer |-> importer'[v]]
  BY DEF Advances, Moved
<1>2. /\ run.does \in Writing /\ run.does \in Mapped /\ run.home \in DOMAIN homes
      /\ run.at \in 1 .. LastTs /\ run.files < run.at /\ run.files \in 0 .. LastTs
      /\ d \in {"dress", "fail", "attach"} /\ run.job \in ImportJob
  BY <1>0 DEF RunTypes, RunType, HomeOK, Writing, Mapped, ImportRun, Busy
<1>3. n \in Text .. LastTs - 1
  BY <1>0, <1>2
<1>4. rows' \subseteq (DOMAIN homes) \X (1 .. LastTs) \X (Text .. LastTs - 1)
  <2>1. Row(w, n) \in (DOMAIN homes) \X (1 .. LastTs) \X (Text .. LastTs - 1)
    BY <1>2, <1>3 DEF Row
  <2> QED BY <2>1 DEF ImportTypes
<1>5. RunTypes'
  <2>1. importer'[w] \in ImportRun
    BY <1>2, ImportGoesRun DEF Phases, Writing
  <2>2. \A v \in Importer : importer'[v] \in ImportRun
    BY <1>1, <2>1 DEF RunTypes
  <2>3. importer' \in [Importer -> ImportRun]
    BY <1>1, <2>2
  <2>4. \A v \in Importer \ {w} : RunType(v)'
    BY <1>1 DEF RunTypes, RunType, Busy
  <2>5. RunType(w)'
    BY <1>1, <1>2 DEF RunType, Busy, Writing, Placing
  <2> QED BY <2>3, <2>4, <2>5 DEF RunTypes
<1>6. HomeOK'
  BY <1>1, <1>2 DEF HomeOK, Writing, Mapped, Placing
<1>7. WrittenOK'
  <2>1. ASSUME NEW v \in Importer \ {w} PROVE RunWritten(v)'
    <3>1. RunWritten(v) /\ importer'[v] = importer[v]
      BY <1>1 DEF WrittenOK
    <3> QED BY <3>1 DEF RunWritten, Through, Row
  <2>2. RunWritten(w)'
    <3>1. RunWritten(w)
      BY DEF WrittenOK
    <3>2. Row(w, Text) \in rows'
      BY <3>1 DEF RunWritten, Writing
    <3>3. /\ Row(w, Text)' = Row(w, Text)
          /\ <<(importer'[w]).home, (importer'[w]).at, (importer'[w]).files>> = Row(w, run.files)
      BY <1>1 DEF Row, Text
    <3>4. d = "attach" => <<(importer'[w]).home, (importer'[w]).at, (importer'[w]).files>> \in rows'
      BY <3>3
    <3>5. d = "attach" => Row(w, importer[w].files)' \in rows'
      BY <3>4 DEF Row
    <3>6. (importer'[w]).does \in Writing =>
              /\ Through(importer[w].home, importer[w].at - 1)'
              /\ \A i, k \in Int : <<i, k>> \in (importer'[w]).seen =>
                                     <<(importer'[w]).home, i, k>> \in rows'
      BY <1>1, <1>2, <3>1 DEF RunWritten, Through, Text
    <3>7. /\ (importer'[w]).does \in Mapped => crossed' \/ (/\ (importer'[w]).home = mapping'.home
                                                           /\ (importer'[w]).fresh = mapping'.made)
          /\ (importer'[w]).does \notin {"close", "finish"}
      BY <1>1, <1>2, <3>1 DEF RunWritten
    <3> QED BY <1>1, <3>2, <3>3, <3>5, <3>6, <3>7 DEF RunWritten
  <2>3. ~crossed => run.home = mapping.home
    BY <1>2 DEF WrittenOK, RunWritten
  <2>4. ~crossed' => \A r \in rows' : r[1] = mapping'.home
    BY <2>3 DEF WrittenOK, Row
  <2> QED BY <2>1, <2>2, <2>4 DEF WrittenOK
<1>8. MadeOK'
  <2>1. Strays' = Strays
    BY <1>1, <1>2 DEF Strays, Writing
  <2> QED BY <2>1 DEF MadeOK
<1>9. AloneOK'
  <2>1. ASSUME NEW v \in Importer \ {w} PROVE RunAlone(v)'
    <3>1. RunAlone(v) /\ importer'[v] = importer[v]
      BY <1>1 DEF AloneOK
    <3>2. ~(importer[v].does \in Writing /\ importer[v].alone)
      BY <1>2 DEF AloneOK, Busy, Writing
    <3> QED BY <3>1, <3>2 DEF RunAlone
  <2>2. RunAlone(w)'
    <3>1. RunAlone(w)
      BY DEF AloneOK
    <3>2. <<run.at, 0>> \notin run.seen
      BY <1>0, <1>2, <3>1 DEF RunAlone, Writing
    <3>3. \A r \in rows : run.alone /\ r[1] = run.home => Foreseen(w, r)
      BY <1>2, <3>1 DEF RunAlone
    <3>4. ASSUME NEW r \in rows', d # "fail", run.alone, r[1] = run.home
          PROVE  Foreseen(w, r)'
      <4>1. CASE r = Row(w, n)
        BY <1>0, <1>1, <1>2, <3>4, <4>1 DEF Foreseen, Row
      <4>2. CASE r \in rows
        BY <1>1, <1>2, <3>3, <3>4, <4>2 DEF Foreseen
      <4> QED BY <4>1, <4>2
    <3> QED BY <1>1, <1>2, <3>1, <3>2, <3>4 DEF RunAlone, Writing
  <2>3. \A r \in rows' : <<r[1], r[2], Text>> \in rows'
    <3>1. Row(w, Text) \in rows'
      BY DEF WrittenOK, RunWritten, Writing
    <3> QED BY <3>1 DEF AloneOK, Row
  <2> QED BY <1>1, <1>2, <2>1, <2>2, <2>3 DEF AloneOK, Busy, Writing
<1> QED BY <1>4, <1>5, <1>6, <1>7, <1>8, <1>9

(* The channel of a run is archived, if an import made it. *)
LEMMA ImportArchives ==
    ASSUME ImportAssumption, ImportTypes, RunTypes, HomeOK, WrittenOK, MadeOK, AloneOK,
           NEW w \in Importer, importer[w].does = "close", Advances(w, "finish"),
           closed' = closed \cup ToArchive(w),
           UNCHANGED <<homes, made, mapping, rows, crossed, strays, importBudget>>
    PROVE  RunTypes' /\ HomeOK' /\ WrittenOK' /\ MadeOK' /\ AloneOK'
<1> DEFINE run == importer[w]
<1>0. /\ run \in ImportRun /\ DOMAIN homes = 1 .. Len(homes)
      /\ LastTs \in Nat /\ LastTs > 0 /\ Text = -1 /\ NoHome = 0 /\ Idling \in ImportRun
  BY ImportRuns
<1>1. /\ \A v \in Importer \ {w} : importer'[v] = importer[v]
      /\ (importer'[w]).does = "finish" /\ (importer'[w]).home = run.home
      /\ (importer'[w]).fresh = run.fresh
      /\ (importer'[w]).job = run.job /\ (importer'[w]).files = run.files
      /\ (importer'[w]).alone = run.alone
      /\ importer' = [v \in Importer |-> importer'[v]]
  BY DEF Advances, Moved
<1>2. /\ run.home \in DOMAIN homes /\ closed \subseteq closed'
      /\ (run.fresh => run.home \in closed') /\ closed' \subseteq made
  BY DEF HomeOK, Mapped, ToArchive
<1>3. RunTypes'
  <2>1. importer'[w] \in ImportRun
    BY ImportGoesRun DEF Phases
  <2>2. \A v \in Importer : importer'[v] \in ImportRun
    BY <1>1, <2>1 DEF RunTypes
  <2>3. importer' \in [Importer -> ImportRun]
    BY <1>1, <2>2
  <2>4. \A v \in Importer \ {w} : RunType(v)'
    BY <1>1 DEF RunTypes, RunType, Busy
  <2>5. RunType(w)'
    BY <1>1 DEF RunTypes, RunType, Busy, Writing, Placing
  <2> QED BY <2>3, <2>4, <2>5 DEF RunTypes
<1>4. HomeOK'
  BY <1>1, <1>2 DEF HomeOK, Writing, Mapped, Placing
<1>5. WrittenOK'
  <2>1. ASSUME NEW v \in Importer \ {w} PROVE RunWritten(v)'
    <3>1. RunWritten(v) /\ importer'[v] = importer[v]
      BY <1>1 DEF WrittenOK
    <3> QED BY <1>2, <3>1 DEF RunWritten, Through, Row
  <2>2. RunWritten(w)'
    BY <1>1, <1>2 DEF WrittenOK, RunWritten, Through, Writing, Mapped
  <2> QED BY <2>1, <2>2 DEF WrittenOK
<1>6. MadeOK'
  <2>1. Strays' = Strays
    BY <1>1 DEF Strays
  <2> QED BY <2>1 DEF MadeOK
<1>7. AloneOK'
  <2>1. ASSUME NEW v \in Importer \ {w} PROVE RunAlone(v)'
    <3>1. RunAlone(v) /\ importer'[v] = importer[v]
      BY <1>1 DEF AloneOK
    <3> QED BY <3>1 DEF RunAlone, Foreseen
  <2>2. RunAlone(w)'
    BY <1>1 DEF RunAlone, Writing
  <2> QED BY <1>1, <2>1, <2>2 DEF AloneOK, Busy
<1> QED BY <1>3, <1>4, <1>5, <1>6, <1>7

(* The budget loses counts alone. *)
BudgetKept ==
    /\ importBudget'.dry = importBudget.dry
    /\ importBudget' \in [workers : SUBSET Importer, uploads : SUBSET ImportJob,
                          dry : SUBSET ImportJob, retries : Int, faults : Int, lapses : Int]
LEMMA ImportBudgetKept ==
    ASSUME ImportTypes
    PROVE  /\ UNCHANGED importBudget => BudgetKept
           /\ \A w \in Importer : Fails(w) => BudgetKept
           /\ Spend("faults") \/ Spend("retries") \/ Spend("lapses") => BudgetKept
<1>1. UNCHANGED importBudget => BudgetKept
  BY DEF ImportTypes, BudgetKept
<1>2. ASSUME NEW what \in {"retries", "faults", "lapses"}, Spend(what) PROVE BudgetKept
  BY <1>2, ImportSpends DEF BudgetKept
<1> QED BY <1>1, <1>2 DEF Fails

RunsOK == RunTypes /\ HomeOK /\ WrittenOK /\ MadeOK /\ AloneOK

(* The steps of the queue leave runs, channels and messages alone. *)
LEMMA ImportQueue ==
    ASSUME ImportTypes,
           \/ \E j \in ImportJob : UploadExport(j) \/ RetryImport(j) \/ FallSilent(j)
           \/ \E w \in Importer : FailStale(w) \/ BeatImport(w)
    PROVE  /\ UNCHANGED <<importer, kind, homes, made, closed, mapping, rows, dressed, attached>>
           /\ UNCHANGED <<torn, strays, crossed, doubled, again>>
           /\ BudgetKept
<1>1. UNCHANGED <<importer, kind, homes, made, closed, mapping, rows, dressed, attached>>
  BY DEF UploadExport, RetryImport, FallSilent, FailStale, BeatImport, channelVars,
     messageVars
<1>2. UNCHANGED <<torn, strays, crossed, doubled, again>>
  BY DEF UploadExport, RetryImport, FallSilent, FailStale, BeatImport, pastVars
<1>3. BudgetKept
  BY ImportBudgetKept DEF UploadExport, RetryImport, FallSilent, FailStale, BeatImport
<1> QED BY <1>1, <1>2, <1>3

LEMMA ImportRunsStay ==
    ASSUME RunsOK, BudgetKept,
           UNCHANGED <<importer, homes, made, closed, mapping, rows, strays, crossed>>
    PROVE  RunsOK'
<1>1. RunTypes' /\ HomeOK'
  BY DEF RunsOK, RunTypes, RunType, HomeOK, Busy
<1>2. WrittenOK'
  BY DEF RunsOK, WrittenOK, RunWritten, Through, Row, BudgetKept
<1>3. MadeOK'
  BY DEF RunsOK, MadeOK, Strays
<1>4. AloneOK'
  BY DEF RunsOK, AloneOK, RunAlone, Foreseen, Busy
<1> QED BY <1>1, <1>2, <1>3, <1>4 DEF RunsOK

(* Every step of a run leaves runs in order. *)
LEMMA ImportRunsStep ==
    ASSUME ImportAssumption, ImportTypes, RunsOK, ImportNext
    PROVE  RunsOK'
<1> USE DEF RunsOK
<1>1. ASSUME \/ \E j \in ImportJob : UploadExport(j) \/ RetryImport(j) \/ FallSilent(j)
             \/ \E w \in Importer : FailStale(w) \/ BeatImport(w)
      PROVE  RunsOK'
  <2> USE DEF RunsOK
  <2> HIDE DEF RunsOK
  <2> QED BY <1>1, ImportQueue, ImportRunsStay
<1> SUFFICES ASSUME NEW w \in Importer,
                    ~(FailStale(w) \/ BeatImport(w)),
                    ImportStep(w) \/ ImporterDies(w)
             PROVE  RunsOK'
  BY <1>1 DEF ImportNext
<1> DEFINE Still == UNCHANGED <<homes, made, closed, mapping, rows, crossed>>
<1>2. ASSUME Still, BudgetKept, Control(w), strays' = strays + Stray(w) PROVE RunsOK'
  BY <1>2, ImportControl DEF BudgetKept
<1>3. ASSUME Still, BudgetKept, Control(w), UNCHANGED strays, importer[w].does # "map"
      PROVE  RunsOK'
  <2>1. strays' = strays + Stray(w)
    BY <1>3 DEF Stray, ImportTypes
  <2> QED BY <1>2, <1>3, <2>1
<1>4. /\ \A d : Then(w, d) => Advances(w, d)
      /\ \A n : Onward(w, n) => Passes(w, n)
  BY ImportMoves DEF Passes
<1>5. CASE \E j \in ImportJob : ClaimImport(w, j)
  BY <1>5, ImportClaims
<1>6. CASE DownloadExport(w)
  <2>1. Still /\ UNCHANGED strays /\ importer[w].does # "map" /\ BudgetKept
    BY <1>6, ImportBudgetKept DEF DownloadExport, channelVars, messageVars, pastVars
  <2> QED BY <1>3, <1>6, <2>1, ImportControls
<1>7. CASE LoadMapping(w) \/ PlaceChannel(w)
  <2>1. Still /\ UNCHANGED strays /\ importer[w].does # "map" /\ BudgetKept
    BY <1>7, ImportBudgetKept DEF LoadMapping, PlaceChannel, channelVars, messageVars,
       pastVars
  <2> QED BY <1>3, <1>7, <2>1, ImportLearns
<1>8. CASE CreateChannel(w)
  <2> DEFINE h == Len(homes) + 1
             c == [name |-> importer[w].at, kind |-> kind]
  <2>1. importer[w].does = "create" /\ UNCHANGED <<closed, mapping, rows, crossed, strays>>
    BY <1>8 DEF CreateChannel, messageVars, pastVars
  <2>2. CASE /\ homes' = Append(homes, c) /\ made' = made \cup {h} /\ UNCHANGED importBudget
             /\ importer' = [importer EXCEPT ![w].does = "map", ![w].home = h, ![w].fresh = TRUE]
    <3>1. c \in [name : Nat, kind : {"public", "private"}]
      BY DEF ImportTypes, RunTypes, ImportRun
    <3>2. Moved(w, "map", h, TRUE, importer[w].seen, importer[w].at, importer[w].files)
      BY <2>2, ImportLearns
    <3> HIDE DEF c
    <3> QED BY <2>1, <2>2, <3>1, <3>2, ImportCreates
  <2>3. CASE Then(w, "fail") /\ UNCHANGED <<homes, made, importBudget>>
    <3>1. Control(w)
      BY <1>4, <2>1, <2>3 DEF Control, Busy
    <3> QED BY <1>3, <2>1, <2>3, <3>1, ImportBudgetKept
  <2>4. CASE Fails(w) /\ UNCHANGED <<homes, made>>
    <3>1. Control(w)
      BY <2>1, <2>4, ImportControls DEF Busy
    <3> QED BY <1>3, <2>1, <2>4, <3>1, ImportBudgetKept
  <2> QED BY <1>8, <2>2, <2>3, <2>4 DEF CreateChannel
<1>9. CASE MapChannel(w)
  <2>1. importer[w].does = "map" /\ UNCHANGED <<homes, made, closed, rows>>
    BY <1>9 DEF MapChannel, messageVars
  <2>2. CASE /\ mapping' = [home |-> importer[w].home, made |-> importer[w].fresh]
             /\ crossed' = (crossed \/ mapping.home # NoHome)
             /\ Then(w, "list") /\ UNCHANGED <<strays, importBudget>>
    BY <1>4, <2>1, <2>2, ImportMaps
  <2>3. CASE Fails(w) /\ strays' = strays + Stray(w) /\ UNCHANGED <<mapping, crossed>>
    <3>1. Control(w)
      BY <2>1, <2>3, ImportControls DEF Busy
    <3> QED BY <1>2, <2>1, <2>3, <3>1, ImportBudgetKept
  <2> QED BY <1>9, <2>2, <2>3 DEF MapChannel
<1>10. CASE ListImported(w)
  <2>1. Still /\ UNCHANGED strays /\ importer[w].does # "map" /\ BudgetKept
    BY <1>10, ImportBudgetKept DEF ListImported, channelVars, messageVars, pastVars
  <2> QED BY <1>3, <1>10, <2>1, ImportControls
<1>11. CASE WriteMessage(w)
  <2> DEFINE known == <<importer[w].at, Text>> \in importer[w].seen
  <2>1. importer[w].does = "message" /\ UNCHANGED <<homes, made, closed, mapping, crossed, strays>>
    BY <1>11 DEF WriteMessage, channelVars
  <2>2. CASE /\ known /\ UNCHANGED <<rows, importBudget>>
             /\ IF MissesFile(w) THEN AfterText(w) ELSE Onward(w, importer[w].files)
    <3>1. Control(w)
      BY <2>1, <2>2, ImportControls
    <3> QED BY <1>3, <2>1, <2>2, <3>1, ImportBudgetKept
  <2>3. CASE ~known /\ rows' = rows \cup {Row(w, Text)} /\ Then(w, "dress") /\ UNCHANGED importBudget
    <3>1. Advances(w, "dress") /\ importBudget'.dry = importBudget.dry
      BY <1>4, <2>3
    <3> QED BY <2>1, <2>3, <3>1, ImportWrites
  <2>4. CASE ~known /\ rows' = rows \cup {Row(w, Text)} /\ Fails(w)
    <3>1. Advances(w, "fail") /\ importBudget'.dry = importBudget.dry
      BY <1>4, <2>4, ImportBudgetKept DEF Fails, BudgetKept
    <3> QED BY <2>1, <2>4, <3>1, ImportWrites
  <2>5. CASE Then(w, "fail") /\ UNCHANGED <<rows, importBudget>>
    <3>1. Control(w)
      BY <1>4, <2>1, <2>5 DEF Control, Busy
    <3> QED BY <1>3, <2>1, <2>5, <3>1, ImportBudgetKept
  <2>6. CASE Fails(w) /\ UNCHANGED rows
    <3>1. Control(w)
      BY <2>1, <2>6, ImportControls DEF Busy
    <3> QED BY <1>3, <2>1, <2>6, <3>1, ImportBudgetKept
  <2> QED BY <1>11, <2>2, <2>3, <2>4, <2>5, <2>6 DEF WriteMessage
<1>12. CASE Dress(w)
  <2>1. /\ Still /\ UNCHANGED strays /\ importer[w].does = "dress" /\ BudgetKept
        /\ AfterText(w) \/ Fails(w)
    BY <1>12, ImportBudgetKept DEF Dress, channelVars
  <2>2. Control(w)
    BY <2>1, ImportControls DEF Busy
  <2> QED BY <1>3, <2>1, <2>2
<1>13. CASE FetchFile(w)
  <2>1. Still /\ UNCHANGED strays /\ importer[w].does # "map" /\ BudgetKept
    BY <1>13, ImportBudgetKept DEF FetchFile, channelVars, messageVars, pastVars
  <2> QED BY <1>3, <1>13, <2>1, ImportControls
<1>14. CASE WriteAttachment(w)
  <2>1. importer[w].does = "attachment" /\ UNCHANGED <<homes, made, closed, mapping, crossed, strays>>
    BY <1>14 DEF WriteAttachment, channelVars
  <2>2. CASE rows' = rows \cup {Row(w, importer[w].files)} /\ Then(w, "attach") /\ UNCHANGED importBudget
    <3>1. Advances(w, "attach") /\ importBudget'.dry = importBudget.dry
      BY <1>4, <2>2
    <3> QED BY <2>1, <2>2, <3>1, ImportWrites
  <2>3. CASE Onward(w, importer[w].files) /\ UNCHANGED rows /\ BudgetKept
    <3>1. Control(w)
      BY <2>1, <2>3, ImportControls DEF Writing
    <3> QED BY <1>3, <2>1, <2>3, <3>1
  <2> QED BY <1>14, <2>2, <2>3, ImportBudgetKept DEF WriteAttachment
<1>15. CASE AttachFile(w)
  <2>1. /\ Still /\ UNCHANGED strays /\ importer[w].does = "attach" /\ BudgetKept
        /\ Onward(w, importer[w].files) \/ Onward(w, importer[w].files + 1)
    BY <1>15, ImportBudgetKept DEF AttachFile, channelVars
  <2>2. Control(w)
    BY <2>1, ImportControls DEF Writing
  <2> QED BY <1>3, <2>1, <2>2
<1>16. CASE ArchiveChannel(w)
  <2>1. importer[w].does = "close" /\ UNCHANGED <<homes, made, mapping, rows, crossed, strays>>
    BY <1>16 DEF ArchiveChannel, messageVars, pastVars
  <2>2. CASE closed' = closed \cup ToArchive(w) /\ Then(w, "finish") /\ UNCHANGED importBudget
    BY <1>4, <2>1, <2>2, ImportArchives
  <2>3. CASE Fails(w) /\ UNCHANGED closed
    <3>1. Control(w)
      BY <2>1, <2>3, ImportControls DEF Busy
    <3> QED BY <1>3, <2>1, <2>3, <3>1, ImportBudgetKept
  <2> QED BY <1>16, <2>2, <2>3 DEF ArchiveChannel
<1>17. CASE FinishRun(w)
  <2>1. Still /\ UNCHANGED strays /\ importer[w].does # "map" /\ BudgetKept
    BY <1>17, ImportBudgetKept DEF FinishRun, channelVars, messageVars, pastVars
  <2> QED BY <1>3, <1>17, <2>1, ImportControls
<1>18. CASE DiscardArchive(w) \/ FailRun(w)
  <2>1. Still /\ UNCHANGED strays /\ importer[w].does # "map" /\ BudgetKept /\ Stops(w)
    BY <1>18, ImportBudgetKept DEF DiscardArchive, FailRun, channelVars, messageVars
  <2> QED BY <1>3, <2>1, ImportControls
<1>19. CASE ImporterDies(w)
  <2>1. Still /\ strays' = strays + Stray(w) /\ BudgetKept /\ Stops(w)
    BY <1>19, ImportBudgetKept DEF ImporterDies, channelVars, messageVars
  <2> QED BY <1>2, <2>1, ImportControls
<1> QED
  BY <1>5, <1>6, <1>7, <1>8, <1>9, <1>10, <1>11, <1>12, <1>13, <1>14, <1>15, <1>16, <1>17,
     <1>18, <1>19 DEF ImportStep

(* A step of a worker is no step of another. *)
LEMMA ImportOthers ==
    ASSUME RunTypes, NEW w \in Importer, ImportStep(w) \/ BeatImport(w) \/ ImporterDies(w),
           NEW v \in Importer \ {w}
    PROVE  /\ (importer'[v]).does = importer[v].does /\ (importer'[v]).job = importer[v].job
           /\ (importer'[v]).home = importer[v].home /\ (importer'[v]).at = importer[v].at
           /\ (importer'[v]).files = importer[v].files
<1>0. importer \in [Importer -> ImportRun] /\ importer[v] \in ImportRun
  BY DEF RunTypes
<1>1. ASSUME NEW j \in ImportJob, ClaimImport(w, j)
      PROVE  /\ (importer'[v]).does = importer[v].does /\ (importer'[v]).job = importer[v].job
             /\ (importer'[v]).home = importer[v].home /\ (importer'[v]).at = importer[v].at
             /\ (importer'[v]).files = importer[v].files
  <2> DEFINE b == ~Busy(v)
  <2>1. importer'[v] = [importer[v] EXCEPT !.alone = b]
    BY <1>1 DEF ClaimImport
  <2> HIDE DEF b
  <2> QED BY <1>0, <2>1 DEF ImportRun
<1>2. ASSUME FailStale(w) \/ BeatImport(w) PROVE importer' = importer
  BY <1>2 DEF FailStale, BeatImport
<1>3. ASSUME Then(w, "fail") \/ Stops(w) \/ (\E d, n : Then(w, d) \/ Onward(w, n))
      PROVE  importer'[v] = importer[v]
  BY <1>0, <1>3 DEF Then, Stops, Onward
<1>4. DownloadExport(w) \/ MapChannel(w) \/ WriteMessage(w) \/ Dress(w) => importer'[v] = importer[v]
  BY <1>3 DEF DownloadExport, MapChannel, WriteMessage, Dress, Fails, AfterText
<1>5. FetchFile(w) \/ WriteAttachment(w) \/ AttachFile(w) => importer'[v] = importer[v]
  BY <1>3 DEF FetchFile, WriteAttachment, AttachFile
<1>6. ArchiveChannel(w) \/ FinishRun(w) \/ DiscardArchive(w) \/ FailRun(w) \/ ImporterDies(w)
      => importer'[v] = importer[v]
  BY <1>3 DEF ArchiveChannel, FinishRun, DiscardArchive, FailRun, ImporterDies, Fails
<1>7. LoadMapping(w) => importer'[v] = importer[v]
  <2>1. \A d, h, f : importer' = [importer EXCEPT ![w].does = d, ![w].home = h, ![w].fresh = f]
                      => importer'[v] = importer[v]
    BY <1>0
  <2> DEFINE d == CASE importer[w].job \in importBudget.dry -> "finish"
                    [] mapping.home # NoHome -> "list"
                    [] OTHER -> "place"
  <2>2. LoadMapping(w) => importer' = [importer EXCEPT ![w].does = d, ![w].home = mapping.home,
                                                       ![w].fresh = mapping.made]
    BY Zenon DEF LoadMapping
  <2> HIDE DEF d
  <2> QED BY <2>1, <2>2, Zenon
<1>8. PlaceChannel(w) => importer'[v] = importer[v]
  <2>1. \A n : importer' = [importer EXCEPT ![w].does = "create", ![w].at = n]
               => importer'[v] = importer[v]
    BY <1>0
  <2>2. \A h : importer' = [importer EXCEPT ![w].does = "map", ![w].home = h]
               => importer'[v] = importer[v]
    BY <1>0
  <2> QED BY <2>1, <2>2 DEF PlaceChannel
<1>9. CreateChannel(w) \/ ListImported(w) => importer'[v] = importer[v]
  <2>1. \A h : importer' = [importer EXCEPT ![w].does = "map", ![w].home = h, ![w].fresh = TRUE]
               => importer'[v] = importer[v]
    BY <1>0
  <2>2. \A s : importer' = [importer EXCEPT ![w].does = "message", ![w].at = 1, ![w].seen = s]
               => importer'[v] = importer[v]
    BY <1>0
  <2> QED BY <1>3, <2>1, <2>2 DEF CreateChannel, ListImported, Fails
<1> QED BY <1>1, <1>2, <1>4, <1>5, <1>6, <1>7, <1>8, <1>9 DEF ImportStep

(* A row stays whole when the run at it finishes or is recorded as torn. *)
LEMMA ImportWholeKept ==
    ASSUME WholeOK, NEW w \in Importer,
           \A v \in Importer \ {w} :
               /\ (importer'[v]).does = importer[v].does /\ (importer'[v]).home = importer[v].home
               /\ (importer'[v]).at = importer[v].at /\ (importer'[v]).files = importer[v].files,
           dressed \subseteq dressed', attached \subseteq attached', torn \subseteq torn',
           \A r \in rows' \ (rows \cup torn') :
               \/ r[3] = Text /\ (importer'[w]).does = "dress" /\ Row(w, Text)' = r
               \/ /\ r[3] # Text /\ (importer'[w]).does = "attach"
                  /\ Row(w, importer[w].files)' = r,
           importer[w].does = "dress" => Here(w) \in dressed' \/ Row(w, Text) \in torn',
           importer[w].does = "attach" => Row(w, importer[w].files) \in attached' \cup torn'
    PROVE  WholeOK'
<1>1. SUFFICES ASSUME NEW r \in rows' \ torn'
      PROVE  IF r[3] = Text
             THEN \/ <<r[1], r[2]>> \in dressed'
                  \/ \E v \in Importer : (importer'[v]).does = "dress" /\ Row(v, Text)' = r
             ELSE \/ r \in attached'
                  \/ \E v \in Importer : (importer'[v]).does = "attach"
                                         /\ Row(v, importer[v].files)' = r
  BY DEF WholeOK, Text, Row
<1>2. CASE r \notin rows
  BY <1>2
<1>3. CASE r \in rows /\ r[3] = Text
  <2>1. CASE <<r[1], r[2]>> \in dressed
    BY <1>3, <2>1
  <2>2. ASSUME NEW v \in Importer, importer[v].does = "dress", Row(v, Text) = r
        PROVE  \/ <<r[1], r[2]>> \in dressed'
               \/ \E x \in Importer : (importer'[x]).does = "dress" /\ Row(x, Text)' = r
    <3>1. CASE v = w
      BY <2>2, <3>1 DEF Row, Here
    <3>2. CASE v # w
      BY <2>2, <3>2 DEF Row, Text
    <3> QED BY <3>1, <3>2
  <2> QED BY <1>3, <2>1, <2>2 DEF WholeOK
<1>4. CASE r \in rows /\ r[3] # Text
  <2>1. CASE r \in attached
    BY <1>4, <2>1
  <2>2. ASSUME NEW v \in Importer, importer[v].does = "attach", Row(v, importer[v].files) = r
        PROVE  \/ r \in attached'
               \/ \E x \in Importer : (importer'[x]).does = "attach"
                                      /\ Row(x, importer[x].files)' = r
    <3>1. CASE v = w
      BY <2>2, <3>1 DEF Row
    <3>2. CASE v # w
      BY <2>2, <3>2 DEF Row
    <3> QED BY <3>1, <3>2
  <2> QED BY <1>4, <2>1, <2>2 DEF WholeOK
<1> QED BY <1>2, <1>3, <1>4

LEMMA ImportSpent ==
    ASSUME ImportTypes, ImportNext PROVE BudgetKept
<1>1. ASSUME NEW w \in Importer, ImportStep(w) PROVE BudgetKept
  <2>1. (\E j \in ImportJob : ClaimImport(w, j)) \/ FailStale(w) \/ DownloadExport(w)
        \/ LoadMapping(w) \/ PlaceChannel(w) \/ CreateChannel(w) \/ MapChannel(w)
        \/ ListImported(w) => BudgetKept
    BY ImportBudgetKept DEF ClaimImport, FailStale, DownloadExport, LoadMapping,
       PlaceChannel,
       CreateChannel, MapChannel, ListImported
  <2>2. WriteMessage(w) \/ Dress(w) \/ FetchFile(w) \/ WriteAttachment(w) \/ AttachFile(w)
        => BudgetKept
    BY ImportBudgetKept DEF WriteMessage, Dress, FetchFile, WriteAttachment, AttachFile
  <2>3. ArchiveChannel(w) \/ FinishRun(w) \/ DiscardArchive(w) \/ FailRun(w) => BudgetKept
    BY ImportBudgetKept DEF ArchiveChannel, FinishRun, DiscardArchive, FailRun
  <2> QED BY <1>1, <2>1, <2>2, <2>3 DEF ImportStep
<1>2. ASSUME NEW w \in Importer, BeatImport(w) \/ ImporterDies(w) PROVE BudgetKept
  BY <1>2, ImportBudgetKept DEF BeatImport, ImporterDies
<1>3. ASSUME NEW j \in ImportJob, UploadExport(j) \/ RetryImport(j) \/ FallSilent(j)
      PROVE  BudgetKept
  BY <1>3, ImportQueue
<1> QED BY <1>1, <1>2, <1>3 DEF ImportNext

(* The steps that write neither rows nor what belongs to them. *)
Silent(w) ==
    \/ \E j \in ImportJob : ClaimImport(w, j)
    \/ FailStale(w) \/ DownloadExport(w) \/ LoadMapping(w) \/ PlaceChannel(w)
    \/ CreateChannel(w) \/ MapChannel(w) \/ ListImported(w) \/ FetchFile(w)
    \/ ArchiveChannel(w) \/ FinishRun(w) \/ DiscardArchive(w) \/ FailRun(w) \/ BeatImport(w)
LEMMA ImportSilent ==
    ASSUME NEW w \in Importer, Silent(w)
    PROVE  /\ UNCHANGED <<rows, dressed, attached, torn, again>>
           /\ importer[w].does \notin {"dress", "attach"} \/ importer' = importer
<1>1. (\E j \in ImportJob : ClaimImport(w, j)) \/ FailStale(w) \/ DownloadExport(w)
      \/ LoadMapping(w) \/ PlaceChannel(w) \/ CreateChannel(w) \/ MapChannel(w)
      => /\ UNCHANGED <<rows, dressed, attached, torn, again>>
         /\ importer[w].does \notin {"dress", "attach"} \/ importer' = importer
  BY DEF ClaimImport, FailStale, DownloadExport, LoadMapping, PlaceChannel, CreateChannel,
     MapChannel, Busy, messageVars, pastVars
<1>2. ListImported(w) \/ FetchFile(w) \/ ArchiveChannel(w) \/ FinishRun(w) \/ DiscardArchive(w)
      \/ FailRun(w) \/ BeatImport(w)
      => /\ UNCHANGED <<rows, dressed, attached, torn, again>>
         /\ importer[w].does \notin {"dress", "attach"} \/ importer' = importer
  BY DEF ListImported, FetchFile, ArchiveChannel, FinishRun, DiscardArchive, FailRun,
     BeatImport, messageVars, pastVars
<1> QED BY <1>1, <1>2 DEF Silent

LEMMA ImportWholeStep ==
    ASSUME ImportAssumption, ImportTypes, RunsOK, WholeOK, ImportNext
    PROVE  WholeOK'
<1>1. CASE \E j \in ImportJob : UploadExport(j) \/ RetryImport(j) \/ FallSilent(j)
  <2>1. UNCHANGED <<importer, rows, dressed, attached, torn>>
    BY <1>1, ImportQueue
  <2> QED BY <2>1 DEF WholeOK, Row
<1> SUFFICES ASSUME NEW w \in Importer, ImportStep(w) \/ BeatImport(w) \/ ImporterDies(w)
             PROVE  WholeOK'
  BY <1>1 DEF ImportNext
<1>2. \A v \in Importer \ {w} :
          /\ (importer'[v]).does = importer[v].does /\ (importer'[v]).home = importer[v].home
          /\ (importer'[v]).at = importer[v].at /\ (importer'[v]).files = importer[v].files
  BY ImportOthers DEF RunsOK
<1>3. /\ \A d : Then(w, d) => Advances(w, d)
      /\ \A n : Onward(w, n) => Passes(w, n)
  BY ImportMoves DEF Passes, RunsOK
<1>4. CASE Silent(w)
  <2>1. UNCHANGED <<rows, dressed, attached, torn>>
    BY <1>4, ImportSilent
  <2>2. CASE importer' = importer
    BY <2>1, <2>2 DEF WholeOK, Row
  <2>3. CASE importer[w].does \notin {"dress", "attach"}
    BY <1>2, <2>1, <2>3, ImportWholeKept
  <2> QED BY <1>4, <2>2, <2>3, ImportSilent
<1>5. CASE WriteMessage(w)
  <2>1. importer[w].does = "message" /\ UNCHANGED <<dressed, attached>>
    BY <1>5 DEF WriteMessage
  <2>2. CASE UNCHANGED <<rows, torn>>
    BY <1>2, <2>1, <2>2, ImportWholeKept
  <2>3. CASE rows' = rows \cup {Row(w, Text)} /\ Then(w, "dress") /\ UNCHANGED torn
    <3>0. Advances(w, "dress")
      BY <1>3, <2>3
    <3>1. (importer'[w]).does = "dress" /\ Row(w, Text)' = Row(w, Text) /\ Row(w, Text)[3] = Text
      BY <3>0 DEF Advances, Moved, Row, Text
    <3>2. \A r \in rows' \ (rows \cup torn') :
              r[3] = Text /\ (importer'[w]).does = "dress" /\ Row(w, Text)' = r
      BY <2>3, <3>1
    <3> QED BY <1>2, <2>1, <2>3, <3>2, ImportWholeKept
  <2>4. CASE rows' = rows \cup {Row(w, Text)} /\ torn' = torn \cup {Row(w, Text)}
    <3>1. \A r \in rows' : r \in rows \cup torn'
      BY <2>4
    <3> QED BY <1>2, <2>1, <2>4, <3>1, ImportWholeKept
  <2> QED BY <1>5, <2>2, <2>3, <2>4 DEF WriteMessage
<1>6. CASE Dress(w)
  <2>1. /\ importer[w].does = "dress" /\ UNCHANGED <<rows, attached>>
        /\ \/ dressed' = dressed \cup {Here(w)} /\ UNCHANGED torn
           \/ UNCHANGED dressed /\ torn' = torn \cup {Row(w, Text)}
    BY <1>6 DEF Dress
  <2>2. CASE dressed' = dressed \cup {Here(w)} /\ UNCHANGED torn
    BY <1>2, <2>1, <2>2, ImportWholeKept
  <2>3. CASE UNCHANGED dressed /\ torn' = torn \cup {Row(w, Text)}
    BY <1>2, <2>1, <2>3, ImportWholeKept
  <2> QED BY <2>1, <2>2, <2>3
<1>7. CASE WriteAttachment(w)
  <2>1. importer[w].does = "attachment" /\ UNCHANGED <<dressed, attached, torn>>
    BY <1>7 DEF WriteAttachment
  <2>2. CASE UNCHANGED rows
    BY <1>2, <2>1, <2>2, ImportWholeKept
  <2>3. CASE rows' = rows \cup {Row(w, importer[w].files)} /\ Then(w, "attach")
    <3>0. importer[w].files \in Nat
      BY DEF RunsOK, RunTypes, ImportRun, ImportAssumption
    <3>4. Advances(w, "attach")
      BY <1>3, <2>3
    <3>1. /\ (importer'[w]).does = "attach"
          /\ Row(w, importer[w].files)' = Row(w, importer[w].files)
      BY <3>4 DEF Advances, Moved, Row
    <3>2. Row(w, importer[w].files)[3] # Text
      BY <3>0 DEF Row, Text
    <3>3. \A r \in rows' \ (rows \cup torn') :
              /\ r[3] # Text /\ (importer'[w]).does = "attach"
              /\ Row(w, importer[w].files)' = r
      BY <2>3, <3>1, <3>2
    <3> QED BY <1>2, <2>1, <2>3, <3>3, ImportWholeKept
  <2> QED BY <1>7, <2>2, <2>3 DEF WriteAttachment
<1>8. CASE AttachFile(w)
  <2>1. /\ importer[w].does = "attach" /\ UNCHANGED <<rows, dressed>>
        /\ \/ attached' = attached \cup {Row(w, importer[w].files)} /\ UNCHANGED torn
           \/ UNCHANGED attached /\ torn' = torn \cup {Row(w, importer[w].files)}
    BY <1>8 DEF AttachFile
  <2>2. CASE attached' = attached \cup {Row(w, importer[w].files)} /\ UNCHANGED torn
    BY <1>2, <2>1, <2>2, ImportWholeKept
  <2>3. CASE UNCHANGED attached /\ torn' = torn \cup {Row(w, importer[w].files)}
    BY <1>2, <2>1, <2>3, ImportWholeKept
  <2> QED BY <2>1, <2>2, <2>3
<1>9. CASE ImporterDies(w)
  <2>1. UNCHANGED <<rows, dressed, attached>> /\ torn \subseteq torn'
    BY <1>9 DEF ImporterDies, messageVars
  <2>2. importer[w].does = "dress" => Row(w, Text) \in torn'
    BY <1>9 DEF ImporterDies
  <2>3. importer[w].does = "attach" => Row(w, importer[w].files) \in torn'
    BY <1>9 DEF ImporterDies
  <2> QED BY <1>2, <2>1, <2>2, <2>3, ImportWholeKept
<1> QED BY <1>4, <1>5, <1>6, <1>7, <1>8, <1>9 DEF ImportStep, Silent

(* What a step makes of the row of a job. *)
ImportRow == [status : {"none", "pending", "running", "complete", "failed"},
              silent : BOOLEAN, archive : BOOLEAN]
Becomes(j, s, b, a) ==
    imports' = [imports EXCEPT ![j] = [status |-> s, silent |-> b, archive |-> a]]

LEMMA ImportRowUpdates ==
    ASSUME NEW r \in ImportRow, NEW s, NEW b, NEW a
    PROVE  /\ [r EXCEPT !.status = s] = [status |-> s, silent |-> r.silent, archive |-> r.archive]
           /\ [r EXCEPT !.silent = b] = [status |-> r.status, silent |-> b, archive |-> r.archive]
           /\ [r EXCEPT !.archive = a] = [status |-> r.status, silent |-> r.silent, archive |-> a]
BY DEF ImportRow

LEMMA ImportRowRestarts ==
    ASSUME NEW r \in ImportRow, NEW s, NEW b
    PROVE  [r EXCEPT !.status = s, !.silent = b] =
               [status |-> s, silent |-> b, archive |-> r.archive]
<1> DEFINE x == [r EXCEPT !.status = s]
<1>1. x = [status |-> s, silent |-> r.silent, archive |-> r.archive]
  BY DEF ImportRow
<1> HIDE DEF x
<1>2. [x EXCEPT !.silent = b] = [status |-> s, silent |-> b, archive |-> r.archive]
  BY <1>1
<1> QED BY <1>2 DEF x

LEMMA ImportRowArrives ==
    ASSUME NEW r \in ImportRow, NEW s, NEW a
    PROVE  [r EXCEPT !.archive = a, !.status = s] =
               [status |-> s, silent |-> r.silent, archive |-> a]
<1> DEFINE x == [r EXCEPT !.archive = a]
<1>1. x = [status |-> r.status, silent |-> r.silent, archive |-> a]
  BY DEF ImportRow
<1> HIDE DEF x
<1>2. [x EXCEPT !.status = s] = [status |-> s, silent |-> r.silent, archive |-> a]
  BY <1>1
<1> QED BY <1>2 DEF x

LEMMA ImportJobUpdates ==
    ASSUME ImportTypes, NEW j \in ImportJob, NEW s, NEW b, NEW a
    PROVE  LET r == imports[j] IN
           /\ imports' = [imports EXCEPT ![j].status = s] => Becomes(j, s, r.silent, r.archive)
           /\ imports' = [imports EXCEPT ![j].silent = b] => Becomes(j, r.status, b, r.archive)
           /\ imports' = [imports EXCEPT ![j].archive = a] => Becomes(j, r.status, r.silent, a)
           /\ imports' = [imports EXCEPT ![j].status = s, ![j].silent = b] =>
                  Becomes(j, s, b, r.archive)
           /\ imports' = [imports EXCEPT ![j].archive = a, ![j].status = s] =>
                  Becomes(j, s, r.silent, a)
<1> DEFINE r == imports[j]
<1>1. imports \in [ImportJob -> ImportRow] /\ r \in ImportRow
  BY DEF ImportTypes, ImportRow
<1>2. /\ [imports EXCEPT ![j].status = s] = [imports EXCEPT ![j] = [r EXCEPT !.status = s]]
      /\ [imports EXCEPT ![j].silent = b] = [imports EXCEPT ![j] = [r EXCEPT !.silent = b]]
      /\ [imports EXCEPT ![j].archive = a] = [imports EXCEPT ![j] = [r EXCEPT !.archive = a]]
  BY <1>1
<1>3. [imports EXCEPT ![j].status = s, ![j].silent = b] =
          [imports EXCEPT ![j] = [r EXCEPT !.status = s, !.silent = b]]
  BY <1>1
<1>4. [imports EXCEPT ![j].archive = a, ![j].status = s] =
          [imports EXCEPT ![j] = [r EXCEPT !.archive = a, !.status = s]]
  BY <1>1
<1>5. /\ [r EXCEPT !.status = s] = [status |-> s, silent |-> r.silent, archive |-> r.archive]
      /\ [r EXCEPT !.silent = b] = [status |-> r.status, silent |-> b, archive |-> r.archive]
      /\ [r EXCEPT !.archive = a] = [status |-> r.status, silent |-> r.silent, archive |-> a]
  BY <1>1, ImportRowUpdates
<1>6. [r EXCEPT !.status = s, !.silent = b] =
          [status |-> s, silent |-> b, archive |-> r.archive]
  BY <1>1, ImportRowRestarts
<1>7. [r EXCEPT !.archive = a, !.status = s] =
          [status |-> s, silent |-> r.silent, archive |-> a]
  BY <1>1, ImportRowArrives
<1>8. /\ imports' = [imports EXCEPT ![j].status = s] => Becomes(j, s, r.silent, r.archive)
      /\ imports' = [imports EXCEPT ![j].silent = b] => Becomes(j, r.status, b, r.archive)
      /\ imports' = [imports EXCEPT ![j].archive = a] => Becomes(j, r.status, r.silent, a)
  BY <1>2, <1>5 DEF Becomes
<1>9. imports' = [imports EXCEPT ![j].status = s, ![j].silent = b] => Becomes(j, s, b, r.archive)
  BY <1>3, <1>6 DEF Becomes
<1>10. imports' = [imports EXCEPT ![j].archive = a, ![j].status = s] => Becomes(j, s, r.silent, a)
  BY <1>4, <1>7 DEF Becomes
<1> QED BY <1>8, <1>9, <1>10

LEMMA ImportJobs ==
    ASSUME ImportTypes, RunsOK, NEW j \in ImportJob, NEW w \in Importer
    PROVE  LET r == imports[j]
               q == imports[importer[w].job] IN
           /\ r \in ImportRow
           /\ UploadExport(j) => Becomes(j, "pending", r.silent, TRUE)
                                  \/ Becomes(j, r.status, r.silent, TRUE)
           /\ RetryImport(j) => Becomes(j, "pending", FALSE, r.archive)
           /\ FallSilent(j) => Becomes(j, r.status, TRUE, r.archive)
           /\ ClaimImport(w, j) => Becomes(j, "running", FALSE, r.archive)
           /\ Busy(w) => importer[w].job \in ImportJob /\ q \in ImportRow
           /\ BeatImport(w) => Becomes(importer[w].job, q.status, FALSE, q.archive)
           /\ FinishRun(w) => \/ Becomes(importer[w].job, "complete", q.silent, q.archive)
                              \/ UNCHANGED imports
           /\ DiscardArchive(w) => \/ Becomes(importer[w].job, q.status, q.silent, FALSE)
                                   \/ UNCHANGED imports
           /\ FailRun(w) => \/ Becomes(importer[w].job, "failed", q.silent, q.archive)
                            \/ UNCHANGED imports
<1>1. imports[j] \in ImportRow
  BY DEF ImportTypes, ImportRow
<1>2. Busy(w) => importer[w].job \in ImportJob /\ imports[importer[w].job] \in ImportRow
  BY DEF RunsOK, RunTypes, RunType, ImportTypes, ImportRow
<1>3. /\ UploadExport(j) => Becomes(j, "pending", imports[j].silent, TRUE)
                             \/ Becomes(j, imports[j].status, imports[j].silent, TRUE)
      /\ RetryImport(j) => Becomes(j, "pending", FALSE, imports[j].archive)
      /\ FallSilent(j) => Becomes(j, imports[j].status, TRUE, imports[j].archive)
      /\ ClaimImport(w, j) => Becomes(j, "running", FALSE, imports[j].archive)
  BY ImportJobUpdates DEF UploadExport, RetryImport, FallSilent, ClaimImport
<1>4. ASSUME Busy(w)
      PROVE  LET i == importer[w].job
                 q == imports[importer[w].job] IN
             /\ BeatImport(w) => Becomes(i, q.status, FALSE, q.archive)
             /\ FinishRun(w) => Becomes(i, "complete", q.silent, q.archive) \/ UNCHANGED imports
             /\ DiscardArchive(w) => Becomes(i, q.status, q.silent, FALSE) \/ UNCHANGED imports
             /\ FailRun(w) => Becomes(i, "failed", q.silent, q.archive) \/ UNCHANGED imports
  <2>1. importer[w].job \in ImportJob
    BY <1>2, <1>4
  <2> QED BY <2>1, ImportJobUpdates DEF BeatImport, FinishRun, DiscardArchive, FailRun
<1>5. BeatImport(w) \/ FinishRun(w) \/ DiscardArchive(w) \/ FailRun(w) => Busy(w)
  BY DEF BeatImport, FinishRun, DiscardArchive, FailRun, Busy
<1> QED BY <1>1, <1>2, <1>3, <1>4, <1>5

(* The actions that touch a job, and what no action touches. *)
LEMMA ImportTouches ==
    ASSUME ImportNext
    PROVE  /\ UNCHANGED kind
           /\ \/ UNCHANGED imports
              \/ \E j \in ImportJob : UploadExport(j) \/ RetryImport(j) \/ FallSilent(j)
              \/ \E w \in Importer : \/ FailStale(w) \/ FinishRun(w) \/ DiscardArchive(w)
                                     \/ FailRun(w) \/ BeatImport(w)
                                     \/ \E j \in ImportJob : ClaimImport(w, j)
<1>1. ASSUME NEW j \in ImportJob, UploadExport(j) \/ RetryImport(j) \/ FallSilent(j)
      PROVE  UNCHANGED kind
  BY <1>1 DEF UploadExport, RetryImport, FallSilent
<1>2. ASSUME NEW w \in Importer, NEW j \in ImportJob, ClaimImport(w, j)
      PROVE  UNCHANGED kind
  BY <1>2 DEF ClaimImport
<1>3. ASSUME NEW w \in Importer,
             FailStale(w) \/ FinishRun(w) \/ DiscardArchive(w) \/ FailRun(w) \/ BeatImport(w)
      PROVE  UNCHANGED kind
  BY <1>3 DEF FailStale, FinishRun, DiscardArchive, FailRun, BeatImport
<1>4. ASSUME NEW w \in Importer,
             DownloadExport(w) \/ LoadMapping(w) \/ PlaceChannel(w) \/ CreateChannel(w)
      PROVE  UNCHANGED <<kind, imports>>
  BY <1>4 DEF DownloadExport, LoadMapping, PlaceChannel, CreateChannel
<1>5. ASSUME NEW w \in Importer,
             MapChannel(w) \/ ListImported(w) \/ WriteMessage(w) \/ Dress(w)
      PROVE  UNCHANGED <<kind, imports>>
  BY <1>5 DEF MapChannel, ListImported, WriteMessage, Dress
<1>6. ASSUME NEW w \in Importer,
             \/ FetchFile(w) \/ WriteAttachment(w) \/ AttachFile(w) \/ ArchiveChannel(w)
             \/ ImporterDies(w)
      PROVE  UNCHANGED <<kind, imports>>
  BY <1>6 DEF FetchFile, WriteAttachment, AttachFile, ArchiveChannel, ImporterDies
<1> QED BY <1>1, <1>2, <1>3, <1>4, <1>5, <1>6 DEF ImportNext, ImportStep

LEMMA ImportTypesStep ==
    ASSUME ImportAssumption, ImportTypes, RunsOK, ImportNext
    PROVE  ImportTypes'
<1> DEFINE Row3 == (DOMAIN homes) \X (1 .. LastTs) \X (Text .. LastTs - 1)
           Kept == UNCHANGED <<homes, mapping, strays, crossed, rows, dressed, attached>>
<1>0. BudgetKept
  BY ImportSpent
<1>1. imports' \in [ImportJob -> ImportRow]
  <2>1. imports \in [ImportJob -> ImportRow]
    BY DEF ImportTypes, ImportRow
  <2>2. \/ UNCHANGED imports
        \/ \E j \in ImportJob : UploadExport(j) \/ RetryImport(j) \/ FallSilent(j)
        \/ \E w \in Importer : \/ FailStale(w) \/ FinishRun(w) \/ DiscardArchive(w) \/ FailRun(w)
                               \/ BeatImport(w)
                               \/ \E j \in ImportJob : ClaimImport(w, j)
    BY ImportTouches
  <2>3. ASSUME NEW j \in ImportJob, NEW x \in ImportRow, imports' = [imports EXCEPT ![j] = x]
        PROVE  imports' \in [ImportJob -> ImportRow]
    BY <2>1, <2>3
  <2>4. ASSUME NEW j \in ImportJob, NEW s \in {"none", "pending", "running", "complete", "failed"},
               NEW b \in BOOLEAN, NEW a \in BOOLEAN, Becomes(j, s, b, a)
        PROVE  imports' \in [ImportJob -> ImportRow]
    BY <2>3, <2>4 DEF Becomes, ImportRow
  <2>5. ASSUME NEW j \in ImportJob,
               UploadExport(j) \/ RetryImport(j) \/ FallSilent(j)
               \/ \E w \in Importer : ClaimImport(w, j)
        PROVE  imports' \in [ImportJob -> ImportRow]
    <3>1. /\ imports[j] \in ImportRow
          /\ \/ Becomes(j, "pending", imports[j].silent, TRUE)
             \/ Becomes(j, imports[j].status, imports[j].silent, TRUE)
             \/ Becomes(j, "pending", FALSE, imports[j].archive)
             \/ Becomes(j, imports[j].status, TRUE, imports[j].archive)
             \/ Becomes(j, "running", FALSE, imports[j].archive)
      BY <2>1, <2>5, ImportJobUpdates DEF UploadExport, RetryImport, FallSilent, ClaimImport
    <3> QED BY <2>4, <3>1 DEF ImportRow
  <2>6. ASSUME NEW w \in Importer,
               FinishRun(w) \/ DiscardArchive(w) \/ FailRun(w) \/ BeatImport(w)
        PROVE  imports' \in [ImportJob -> ImportRow]
    <3> DEFINE i == importer[w].job
    <3>1. i \in ImportJob /\ imports[i] \in ImportRow
      BY <2>1, <2>6 DEF FinishRun, DiscardArchive, FailRun, BeatImport, RunsOK, RunTypes,
         RunType, Busy
    <3>2. \/ Becomes(i, imports[i].status, FALSE, imports[i].archive)
          \/ Becomes(i, "complete", imports[i].silent, imports[i].archive)
          \/ Becomes(i, imports[i].status, imports[i].silent, FALSE)
          \/ Becomes(i, "failed", imports[i].silent, imports[i].archive)
          \/ UNCHANGED imports
      BY <2>6, <3>1, ImportJobs
    <3>3. /\ imports[i].status \in {"none", "pending", "running", "complete", "failed"}
          /\ imports[i].silent \in BOOLEAN /\ imports[i].archive \in BOOLEAN
      BY <3>1 DEF ImportRow
    <3> HIDE DEF i
    <3> QED BY <2>1, <2>4, <3>1, <3>2, <3>3
  <2>7. ASSUME NEW w \in Importer, FailStale(w)
        PROVE  imports' \in [ImportJob -> ImportRow]
    BY <2>1, <2>7 DEF FailStale, ImportRow
  <2> QED BY <2>1, <2>2, <2>5, <2>6, <2>7
<1>2. UNCHANGED kind
  BY ImportTouches
<1>3. CASE Kept
  BY <1>0, <1>1, <1>2, <1>3 DEF ImportTypes, BudgetKept, ImportRow
<1> SUFFICES ASSUME NEW w \in Importer,
                    CreateChannel(w) \/ MapChannel(w) \/ WriteMessage(w) \/ Dress(w)
                    \/ WriteAttachment(w) \/ AttachFile(w) \/ ImporterDies(w)
             PROVE  ImportTypes'
  <2>1. ASSUME NEW j \in ImportJob, UploadExport(j) \/ RetryImport(j) \/ FallSilent(j)
        PROVE  Kept
    BY <2>1, ImportQueue
  <2>2. ASSUME NEW w \in Importer,
               \/ \E j \in ImportJob : ClaimImport(w, j)
               \/ FailStale(w) \/ DownloadExport(w) \/ LoadMapping(w) \/ PlaceChannel(w)
               \/ ListImported(w) \/ FetchFile(w) \/ ArchiveChannel(w) \/ FinishRun(w)
               \/ DiscardArchive(w) \/ FailRun(w) \/ BeatImport(w)
        PROVE  Kept
    BY <2>2 DEF ClaimImport, FailStale, DownloadExport, LoadMapping, PlaceChannel,
       ListImported,
       FetchFile, ArchiveChannel, FinishRun, DiscardArchive, FailRun, BeatImport,
       channelVars, messageVars, pastVars
  <2> HIDE DEF Kept
  <2> QED BY <1>3, <2>1, <2>2 DEF ImportNext, ImportStep
<1>4. /\ importer[w] \in ImportRun /\ DOMAIN homes = 1 .. Len(homes)
      /\ LastTs \in Nat /\ LastTs > 0 /\ Text = -1 /\ NoHome = 0
  BY ImportRuns DEF RunsOK
<1>5. CASE CreateChannel(w)
  <2>1. UNCHANGED <<mapping, strays, crossed, rows, dressed, attached>>
    BY <1>5 DEF CreateChannel, messageVars, pastVars
  <2> DEFINE c == [name |-> importer[w].at, kind |-> kind]
  <2>2. CASE UNCHANGED homes
    BY <1>3, <2>1, <2>2
  <2>3. CASE homes' = Append(homes, c)
    <3>1. c \in [name : Nat, kind : {"public", "private"}]
      BY <1>4 DEF ImportTypes, ImportRun
    <3> HIDE DEF c
    <3>2. homes' \in Seq([name : Nat, kind : {"public", "private"}])
      BY <2>3, <3>1 DEF ImportTypes
    <3>3. DOMAIN homes \subseteq DOMAIN homes'
      BY <1>4, <2>3, <3>1 DEF ImportTypes
    <3>4. rows' \subseteq (DOMAIN homes') \X (1 .. LastTs) \X (Text .. LastTs - 1)
      BY <2>1, <3>3 DEF ImportTypes
    <3>5. dressed' \subseteq (DOMAIN homes') \X (1 .. LastTs) /\ attached' \subseteq rows'
      BY <2>1, <3>3 DEF ImportTypes
    <3> QED
      BY <1>0, <1>1, <1>2, <2>1, <3>2, <3>4, <3>5 DEF ImportTypes, BudgetKept, ImportRow
  <2> QED BY <1>5, <2>2, <2>3 DEF CreateChannel
<1>6. CASE MapChannel(w)
  <2>1. UNCHANGED <<homes, rows, dressed, attached>>
    BY <1>6 DEF MapChannel, messageVars
  <2>2. mapping' \in [home : Nat, made : BOOLEAN]
    BY <1>4, <1>6 DEF MapChannel, ImportTypes, ImportRun
  <2>3. strays' \in Nat
    BY <1>6 DEF MapChannel, ImportTypes, Stray
  <2>4. crossed' \in BOOLEAN
    <3>1. (crossed \/ mapping.home # NoHome) \in BOOLEAN
      BY Zenon
    <3> QED BY <1>6, <3>1 DEF MapChannel, ImportTypes
  <2> QED BY <1>0, <1>1, <1>2, <2>1, <2>2, <2>3, <2>4 DEF ImportTypes, BudgetKept, ImportRow
<1>7. CASE WriteMessage(w) \/ WriteAttachment(w)
  <2>1. UNCHANGED <<homes, mapping, strays, crossed, dressed, attached>>
    BY <1>7 DEF WriteMessage, WriteAttachment, channelVars
  <2>2. /\ importer[w].home \in DOMAIN homes /\ importer[w].at \in 1 .. LastTs
        /\ importer[w].files \in 0 .. LastTs - 1
    <3>1. importer[w].does \in {"message", "attachment"}
      BY <1>7 DEF WriteMessage, WriteAttachment
    <3> QED BY <1>4, <3>1 DEF RunsOK, RunTypes, RunType, HomeOK, Writing, Mapped, ImportRun
  <2>3. rows' \subseteq rows \cup {Row(w, Text), Row(w, importer[w].files)} /\ rows \subseteq rows'
    BY <1>7 DEF WriteMessage, WriteAttachment
  <2>4. Row(w, Text) \in Row3 /\ Row(w, importer[w].files) \in Row3
    BY <1>4, <2>2 DEF Row
  <2>5. rows' \subseteq Row3
    BY <2>3, <2>4 DEF ImportTypes
  <2> QED BY <1>0, <1>1, <1>2, <2>1, <2>3, <2>5 DEF ImportTypes, BudgetKept, ImportRow
<1>8. CASE Dress(w)
  <2>1. UNCHANGED <<homes, mapping, strays, crossed, rows, attached>>
    BY <1>8 DEF Dress, channelVars
  <2>2. importer[w].home \in DOMAIN homes /\ importer[w].at \in 1 .. LastTs
    BY <1>8 DEF Dress, RunsOK, RunTypes, RunType, HomeOK, Writing, Mapped
  <2>3. dressed' \subseteq (DOMAIN homes) \X (1 .. LastTs)
    BY <1>8, <2>2 DEF Dress, Here, ImportTypes
  <2> QED BY <1>0, <1>1, <1>2, <2>1, <2>3 DEF ImportTypes, BudgetKept, ImportRow
<1>9. CASE AttachFile(w)
  <2>1. UNCHANGED <<homes, mapping, strays, crossed, rows, dressed>>
    BY <1>9 DEF AttachFile, channelVars
  <2>2. Row(w, importer[w].files) \in rows
    BY <1>9 DEF AttachFile, RunsOK, WrittenOK, RunWritten
  <2>3. attached' \subseteq rows
    BY <1>9, <2>2 DEF AttachFile, ImportTypes
  <2> QED BY <1>0, <1>1, <1>2, <2>1, <2>3 DEF ImportTypes, BudgetKept, ImportRow
<1>10. CASE ImporterDies(w)
  <2>1. UNCHANGED <<homes, mapping, crossed, rows, dressed, attached>>
    BY <1>10 DEF ImporterDies, channelVars, messageVars
  <2>2. strays' \in Nat
    BY <1>10 DEF ImporterDies, ImportTypes, Stray
  <2> QED BY <1>0, <1>1, <1>2, <2>1, <2>2 DEF ImportTypes, BudgetKept, ImportRow
<1> QED BY <1>5, <1>6, <1>7, <1>8, <1>9, <1>10

LEMMA ImportFileStep ==
    ASSUME ImportAssumption, ImportTypes, RunsOK, FileOnceUnlessCounted, ImportNext
    PROVE  FileOnceUnlessCounted'
<1>1. CASE UNCHANGED <<rows, again>>
  BY <1>1 DEF FileOnceUnlessCounted
<1> SUFFICES ASSUME NEW w \in Importer, WriteMessage(w) \/ WriteAttachment(w)
             PROVE  FileOnceUnlessCounted'
  <2>1. ASSUME NEW j \in ImportJob, UploadExport(j) \/ RetryImport(j) \/ FallSilent(j)
        PROVE  UNCHANGED <<rows, again>>
    BY <2>1, ImportQueue
  <2>2. ASSUME NEW w \in Importer, Silent(w) PROVE UNCHANGED <<rows, again>>
    BY <2>2, ImportSilent
  <2>3. ASSUME NEW w \in Importer, Dress(w) \/ AttachFile(w) \/ ImporterDies(w)
        PROVE  UNCHANGED <<rows, again>>
    BY <2>3 DEF Dress, AttachFile, ImporterDies, messageVars
  <2> QED BY <1>1, <2>1, <2>2, <2>3 DEF ImportNext, ImportStep, Silent
<1>2. CASE WriteMessage(w)
  <2>1. rows' \subseteq rows \cup {Row(w, Text)} /\ UNCHANGED again
    BY <1>2 DEF WriteMessage
  <2>2. Row(w, Text)[3] = Text
    BY DEF Row
  <2> QED BY <2>1, <2>2 DEF FileOnceUnlessCounted, Text
<1>3. CASE WriteAttachment(w)
  <2> DEFINE r == Row(w, importer[w].files)
             copies == {x \in rows : <<x[1], x[2]>> = Here(w) /\ x[3] # Text}
  <2>1. importer[w].does = "attachment"
    BY <1>3 DEF WriteAttachment
  <2>2. CASE rows' = rows \cup {r} /\ again \subseteq again'
             /\ (copies # {} /\ (Row(w, 0) \notin copies \/ ~importer[w].alone) => Here(w) \in again')
    <3>1. copies # {} => Here(w) \in again'
      <4>1. ASSUME Row(w, 0) \in copies, importer[w].alone PROVE FALSE
        <5>1. RunAlone(w) /\ Row(w, 0) \in rows /\ importer[w].at \in Int
          BY <4>1 DEF RunsOK, AloneOK, RunTypes, ImportRun
        <5>2. /\ Row(w, 0)[1] = importer[w].home /\ Row(w, 0)[2] = importer[w].at
              /\ Row(w, 0)[3] = 0
          BY DEF Row
        <5>3. Foreseen(w, Row(w, 0))
          BY <2>1, <4>1, <5>1, <5>2 DEF RunAlone, Writing
        <5>4. <<importer[w].at, 0>> \notin importer[w].seen
          BY <2>1, <5>1 DEF RunAlone
        <5> QED BY <2>1, <5>1, <5>2, <5>3, <5>4 DEF Foreseen, Text
      <4> QED BY <2>2, <4>1
    <3>2. <<r[1], r[2]>> = Here(w)
      BY DEF Row, Here
    <3>3. ASSUME NEW x \in rows, <<x[1], x[2]>> = Here(w), x[3] # Text
          PROVE  Here(w) \in again'
      BY <3>1, <3>3
    <3> HIDE DEF r, copies
    <3> SUFFICES ASSUME NEW p \in rows', NEW q \in rows', p[1] = q[1], p[2] = q[2],
                        p[3] # Text, q[3] # Text, p # q
                 PROVE  <<p[1], p[2]>> \in again'
      BY DEF FileOnceUnlessCounted, Text
    <3>4. CASE p \in rows /\ q \in rows
      BY <2>2, <3>4 DEF FileOnceUnlessCounted
    <3>5. CASE p = r /\ q \in rows
      BY <3>2, <3>3, <3>5
    <3>6. CASE q = r /\ p \in rows
      BY <3>2, <3>3, <3>6
    <3> QED BY <2>2, <3>4, <3>5, <3>6
  <2> QED BY <1>1, <1>3, <2>2 DEF WriteAttachment
<1> QED BY <1>2, <1>3

(* Nothing written is lost, and the mapping changes once unless runs cross. *)
LEMMA ImportGrows ==
    ASSUME ImportAssumption, ImportTypes, RunsOK, ImportNext
    PROVE  /\ rows \subseteq rows' /\ closed \subseteq closed'
           /\ DOMAIN homes \subseteq DOMAIN homes'
           /\ ~crossed' => ~crossed /\ (mapping' = mapping \/ mapping.home = NoHome)
<1>1. CASE \E j \in ImportJob : UploadExport(j) \/ RetryImport(j) \/ FallSilent(j)
  BY <1>1, ImportQueue
<1> SUFFICES ASSUME NEW w \in Importer, ImportStep(w) \/ BeatImport(w) \/ ImporterDies(w)
             PROVE  /\ rows \subseteq rows' /\ closed \subseteq closed'
                    /\ DOMAIN homes \subseteq DOMAIN homes'
                    /\ ~crossed' => ~crossed /\ (mapping' = mapping \/ mapping.home = NoHome)
  BY <1>1 DEF ImportNext
<1>2. rows \subseteq rows'
  BY ImportSilent DEF ImportStep, Silent, WriteMessage, Dress, WriteAttachment, AttachFile,
     ImporterDies, messageVars
<1>3. CASE CreateChannel(w)
  <2>1. UNCHANGED <<closed, mapping, crossed>>
    BY <1>3 DEF CreateChannel, pastVars
  <2> DEFINE c == [name |-> importer[w].at, kind |-> kind]
  <2>2. homes' = homes \/ homes' = Append(homes, c)
    BY <1>3 DEF CreateChannel
  <2> HIDE DEF c
  <2>3. DOMAIN homes \subseteq DOMAIN homes'
    BY <2>2 DEF ImportTypes
  <2> QED BY <1>2, <2>1, <2>3
<1>4. CASE MapChannel(w)
  <2>1. closed' = closed /\ homes' = homes
    BY <1>4 DEF MapChannel
  <2>2. \/ crossed' = (crossed \/ mapping.home # NoHome)
        \/ crossed' = crossed /\ mapping' = mapping
    BY <1>4 DEF MapChannel
  <2>3. ~crossed' => ~crossed /\ (mapping' = mapping \/ mapping.home = NoHome)
    BY <2>2, Zenon
  <2> QED BY <1>2, <2>1, <2>3
<1>5. CASE ArchiveChannel(w)
  BY <1>2, <1>5 DEF ArchiveChannel, pastVars
<1>6. CASE ~(CreateChannel(w) \/ MapChannel(w) \/ ArchiveChannel(w))
  <2>1. UNCHANGED <<homes, closed, mapping, crossed>>
    BY <1>6 DEF ImportStep, ClaimImport, FailStale, DownloadExport, LoadMapping,
       PlaceChannel,
       ListImported, WriteMessage, Dress, FetchFile, WriteAttachment, AttachFile, FinishRun,
       DiscardArchive, FailRun, BeatImport, ImporterDies, channelVars, pastVars
  <2> QED BY <1>2, <2>1
<1> QED BY <1>3, <1>4, <1>5, <1>6

(* Only a run that went through to its end completes a job. *)
LEMMA ImportCompletes ==
    ASSUME ImportTypes, RunsOK, ImportNext, NEW j \in ImportJob,
           (imports'[j]).status = "complete", imports[j].status # "complete"
    PROVE  \E w \in Importer : importer[w].does = "finish" /\ importer[w].job = j
<1>0. imports \in [ImportJob -> ImportRow]
  BY DEF ImportTypes, ImportRow
<1>1. ASSUME NEW i \in ImportJob, NEW s, NEW b, NEW a, Becomes(i, s, b, a)
      PROVE  i = j /\ s = "complete"
  BY <1>0, <1>1 DEF Becomes
<1>2. ASSUME NEW i \in ImportJob,
             UploadExport(i) \/ RetryImport(i) \/ FallSilent(i) \/ \E w \in Importer : ClaimImport(w, i)
      PROVE  FALSE
  <2>1. \/ Becomes(i, "pending", imports[i].silent, TRUE)
        \/ Becomes(i, imports[i].status, imports[i].silent, TRUE)
        \/ Becomes(i, "pending", FALSE, imports[i].archive)
        \/ Becomes(i, imports[i].status, TRUE, imports[i].archive)
        \/ Becomes(i, "running", FALSE, imports[i].archive)
    BY <1>2, ImportJobUpdates DEF UploadExport, RetryImport, FallSilent, ClaimImport
  <2>2. ASSUME NEW s, NEW b, NEW a, Becomes(i, s, b, a),
               s \in {imports[i].status, "pending", "running"}
        PROVE  FALSE
    <3>1. i = j /\ s = "complete"
      BY <1>1, <2>2, Zenon
    <3> QED BY <2>2, <3>1
  <2> QED BY <2>1, <2>2
<1>3. ASSUME NEW w \in Importer, FailStale(w) PROVE FALSE
  BY <1>0, <1>3 DEF FailStale, Stale, ImportRow
<1>4. ASSUME NEW w \in Importer,
             FinishRun(w) \/ DiscardArchive(w) \/ FailRun(w) \/ BeatImport(w)
      PROVE  importer[w].does = "finish" /\ importer[w].job = j
  <2> DEFINE i == importer[w].job
  <2>1. i \in ImportJob
    BY <1>4 DEF FinishRun, DiscardArchive, FailRun, BeatImport, RunsOK, RunTypes, RunType,
       Busy
  <2>2. \/ Becomes(i, imports[i].status, FALSE, imports[i].archive)
        \/ Becomes(i, "complete", imports[i].silent, imports[i].archive) /\ FinishRun(w)
        \/ Becomes(i, imports[i].status, imports[i].silent, FALSE)
        \/ Becomes(i, "failed", imports[i].silent, imports[i].archive)
        \/ UNCHANGED imports
    BY <1>4, <2>1, ImportJobs
  <2> HIDE DEF i
  <2>5. ASSUME NEW s, NEW b, NEW a, Becomes(i, s, b, a), s \in {imports[i].status, "failed"}
        PROVE  FALSE
    <3>1. i = j /\ s = "complete"
      BY <1>1, <2>1, <2>5, Zenon
    <3> QED BY <2>5, <3>1
  <2>3. Becomes(i, "complete", imports[i].silent, imports[i].archive) /\ FinishRun(w)
    <3>1. imports' # imports
      OBVIOUS
    <3> QED BY <2>2, <2>5, <3>1
  <2>4. i = j /\ importer[w].does = "finish"
    BY <1>1, <2>1, <2>3 DEF FinishRun
  <2> QED BY <2>4 DEF i
<1>5. ASSUME UNCHANGED imports PROVE FALSE
  BY <1>5
<1>6. \/ UNCHANGED imports
      \/ \E i \in ImportJob : UploadExport(i) \/ RetryImport(i) \/ FallSilent(i)
      \/ \E w \in Importer : \/ FailStale(w) \/ FinishRun(w) \/ DiscardArchive(w) \/ FailRun(w)
                             \/ BeatImport(w)
                             \/ \E i \in ImportJob : ClaimImport(w, i)
  BY ImportTouches
<1> QED BY <1>2, <1>3, <1>4, <1>5, <1>6

LEMMA ImportCompleteStep ==
    ASSUME ImportAssumption, ImportTypes, RunsOK, CompleteIsThere, ImportNext
    PROVE  CompleteIsThere'
<1>1. /\ rows \subseteq rows' /\ closed \subseteq closed'
      /\ DOMAIN homes \subseteq DOMAIN homes'
      /\ ~crossed' => ~crossed /\ (mapping' = mapping \/ mapping.home = NoHome)
  BY ImportGrows
<1>2. importBudget'.dry = importBudget.dry
  BY ImportSpent DEF BudgetKept
<1>3. DOMAIN homes = 1 .. Len(homes) /\ NoHome = 0
  BY DEF ImportTypes, NoHome
<1>4. SUFFICES ASSUME NEW j \in ImportJob, j \notin importBudget.dry,
                      (imports'[j]).status = "complete"
      PROVE  \E h \in DOMAIN homes :
                 /\ \A m \in 1 .. LastTs : <<h, m, Text>> \in rows
                 /\ crossed \/ (h = mapping.home /\ (mapping.made => h \in closed))
  <2>1. ASSUME NEW j \in ImportJob \ importBudget.dry, (imports'[j]).status = "complete"
        PROVE  \E h \in DOMAIN homes' :
                   /\ \A m \in 1 .. LastTs : <<h, m, Text>> \in rows'
                   /\ crossed' \/ (h = mapping'.home /\ (mapping'.made => h \in closed'))
    <3>1. PICK h \in DOMAIN homes :
              /\ \A m \in 1 .. LastTs : <<h, m, Text>> \in rows
              /\ crossed \/ (h = mapping.home /\ (mapping.made => h \in closed))
      BY <1>4, <2>1
    <3>2. h # NoHome
      BY <1>3
    <3>3. crossed' \/ (h = mapping'.home /\ (mapping'.made => h \in closed'))
      BY <1>1, <3>1, <3>2
    <3> QED BY <1>1, <3>1, <3>3
  <2> QED BY <1>2, <2>1 DEF CompleteIsThere, Text
<1>5. CASE imports[j].status = "complete"
  BY <1>4, <1>5 DEF CompleteIsThere
<1>6. CASE imports[j].status # "complete"
  <2>1. PICK w \in Importer : importer[w].does = "finish" /\ importer[w].job = j
    BY <1>4, <1>6, ImportCompletes
  <2>2. /\ importer[w].home \in DOMAIN homes /\ Through(importer[w].home, LastTs)
        /\ crossed \/ (/\ importer[w].home = mapping.home
                       /\ (mapping.made => importer[w].home \in closed))
    BY <1>4, <2>1 DEF RunsOK, WrittenOK, RunWritten
  <2> QED BY <2>2 DEF Through
<1> QED BY <1>5, <1>6

JobsOK == SoleOK /\ ArchiveFitsStatus

LEMMA ImportBecomes ==
    ASSUME ImportTypes, NEW j \in ImportJob, NEW s, NEW b, NEW a, Becomes(j, s, b, a)
    PROVE  /\ (imports'[j]).status = s /\ (imports'[j]).archive = a
           /\ \A i \in ImportJob \ {j} : imports'[i] = imports[i]
BY DEF ImportTypes, Becomes

(* A run at work, up to its last step, leaves the job's row alone. *)
Works(w) ==
    \/ DownloadExport(w) \/ LoadMapping(w) \/ PlaceChannel(w) \/ CreateChannel(w)
    \/ MapChannel(w) \/ ListImported(w) \/ WriteMessage(w) \/ Dress(w) \/ FetchFile(w)
    \/ WriteAttachment(w) \/ AttachFile(w) \/ ArchiveChannel(w)
LEMMA ImportWorks ==
    ASSUME ImportAssumption, ImportTypes, RunsOK, NEW w \in Importer, Works(w)
    PROVE  /\ UNCHANGED <<imports, kept, doubled>>
           /\ importer[w].does \notin {"poll", "discard", "fail"}
           /\ (importer'[w]).job = importer[w].job
           /\ (importer'[w]).does \notin {"poll", "discard"}
<1>1. UNCHANGED <<imports, kept, doubled>>
  BY DEF Works, DownloadExport, LoadMapping, PlaceChannel, CreateChannel, MapChannel,
     ListImported, WriteMessage, Dress, FetchFile, WriteAttachment, AttachFile, ArchiveChannel,
     pastVars
<1>2. importer[w].does \notin {"poll", "discard", "fail", "finish"}
  BY DEF Works, DownloadExport, LoadMapping, PlaceChannel, CreateChannel, MapChannel,
     ListImported, WriteMessage, Dress, FetchFile, WriteAttachment, AttachFile, ArchiveChannel
<1>3. /\ \A d : Then(w, d) => Advances(w, d)
      /\ \A n : Onward(w, n) => Passes(w, n)
  BY ImportMoves DEF Passes, RunsOK
<1>4. ASSUME NEW d, NEW h, NEW f, NEW s, NEW a, NEW n, Moved(w, d, h, f, s, a, n),
             d \notin {"poll", "discard"}
      PROVE  (importer'[w]).job = importer[w].job /\ (importer'[w]).does \notin {"poll", "discard"}
  BY <1>4 DEF Moved
<1>5. ASSUME NEW d, Advances(w, d), d \notin {"poll", "discard"}
      PROVE  (importer'[w]).job = importer[w].job /\ (importer'[w]).does \notin {"poll", "discard"}
  BY <1>4, <1>5 DEF Advances
<1>6. ASSUME NEW n, Passes(w, n)
      PROVE  (importer'[w]).job = importer[w].job /\ (importer'[w]).does \notin {"poll", "discard"}
  <2> DEFINE d == IF importer[w].at = LastTs THEN "close" ELSE "message"
  <2>1. d \notin {"poll", "discard"}
    OBVIOUS
  <2>2. Moved(w, d, importer[w].home, importer[w].fresh, importer[w].seen, importer[w].at + 1, n)
    BY <1>6 DEF Passes
  <2> HIDE DEF d
  <2> QED BY <1>4, <2>1, <2>2
<1>7. CASE LoadMapping(w) \/ PlaceChannel(w)
  <2>1. Control(w) /\ importer[w].does \in {"load", "place"}
    BY <1>7, ImportLearns DEF LoadMapping, PlaceChannel, RunsOK
  <2>2. ~Ended(w)
    <3>1. (importer'[w]).does # "poll"
      <4>0. importer \in [Importer -> ImportRun] /\ importer[w] \in ImportRun
        BY DEF RunsOK, RunTypes
      <4>1. \A n : importer' = [importer EXCEPT ![w].does = "create", ![w].at = n]
                   => (importer'[w]).does = "create"
        BY <4>0 DEF ImportRun
      <4>2. \A h : importer' = [importer EXCEPT ![w].does = "map", ![w].home = h]
                   => (importer'[w]).does = "map"
        BY <4>0 DEF ImportRun
      <4>3. \A d, h, f : importer' = [importer EXCEPT ![w].does = d, ![w].home = h, ![w].fresh = f]
                          => (importer'[w]).does = d
        BY <4>0 DEF ImportRun
      <4> DEFINE d == CASE importer[w].job \in importBudget.dry -> "finish"
                        [] mapping.home # NoHome -> "list"
                        [] OTHER -> "place"
      <4>4. LoadMapping(w) => importer' = [importer EXCEPT ![w].does = d, ![w].home = mapping.home,
                                                           ![w].fresh = mapping.made]
        BY Zenon DEF LoadMapping
      <4>5. d # "poll"
        OBVIOUS
      <4> HIDE DEF d
      <4> QED BY <1>7, <4>1, <4>2, <4>3, <4>4, <4>5 DEF PlaceChannel
    <3> QED BY <3>1 DEF Ended, Idling
  <2>3. \/ \E d : d \notin {"poll", "discard"} /\ (Advances(w, d) \/ Loads(w, d))
        \/ \E n : Moved(w, "create", importer[w].home, importer[w].fresh, importer[w].seen, n,
                        importer[w].files)
        \/ \E h : Moved(w, "map", h, importer[w].fresh, importer[w].seen, importer[w].at,
                        importer[w].files)
    BY <2>1, <2>2 DEF Control, Writing
  <2> QED BY <1>1, <1>2, <1>4, <1>5, <2>3 DEF Loads
<1>8. CASE CreateChannel(w) \/ ListImported(w)
  <2>1. \/ Advances(w, "fail")
        \/ Moved(w, "map", Len(homes) + 1, TRUE, importer[w].seen, importer[w].at, importer[w].files)
        \/ Moved(w, "message", importer[w].home, importer[w].fresh,
                 Listed(importer[w].home), 1, importer[w].files)
    BY <1>3, <1>8, ImportLearns DEF CreateChannel, ListImported, Fails, Listed, RunsOK
  <2> QED BY <1>1, <1>2, <2>1 DEF Advances, Moved
<1>9. CASE \/ DownloadExport(w) \/ MapChannel(w) \/ WriteMessage(w) \/ Dress(w) \/ FetchFile(w)
           \/ WriteAttachment(w) \/ AttachFile(w) \/ ArchiveChannel(w)
  <2>1. \/ \E d : d \in {"fail", "load", "list", "dress", "fetch", "attachment", "attach", "finish"}
                  /\ Then(w, d)
        \/ \E n : Onward(w, n)
    BY <1>9 DEF DownloadExport, MapChannel, WriteMessage, Dress, FetchFile, WriteAttachment,
       AttachFile, ArchiveChannel, Fails, AfterText
  <2>2. ASSUME NEW d \in {"fail", "load", "list", "dress", "fetch", "attachment", "attach", "finish"},
               Then(w, d)
        PROVE  (importer'[w]).job = importer[w].job /\ (importer'[w]).does \notin {"poll", "discard"}
    <3>1. Advances(w, d)
      BY <1>3, <2>2
    <3> QED BY <1>5, <3>1
  <2>3. ASSUME NEW n, Onward(w, n)
        PROVE  (importer'[w]).job = importer[w].job /\ (importer'[w]).does \notin {"poll", "discard"}
    <3>1. Passes(w, n)
      BY <1>3, <2>3
    <3> QED BY <1>6, <3>1
  <2> QED BY <1>1, <1>2, <2>1, <2>2, <2>3
<1> QED BY <1>7, <1>8, <1>9 DEF Works

(* The rows of jobs, their archives and the runs at them stay in step. *)
LEMMA ImportJobsStep ==
    ASSUME ImportAssumption, ImportTypes, RunsOK, JobsOK, ImportNext
    PROVE  JobsOK'
<1> DEFINE Open == {"pending", "running", "failed"}
<1>0. /\ \A v \in Importer : Busy(v) => importer[v].job \in ImportJob
      /\ \A i \in ImportJob : imports[i] \in ImportRow
  BY DEF RunsOK, RunTypes, RunType, ImportTypes, ImportRow
<1>1. ASSUME NEW j \in ImportJob, UploadExport(j) PROVE JobsOK'
  <2>1. UNCHANGED <<importer, doubled>> /\ imports[j].status = "none" /\ kept \subseteq kept'
    BY <1>1 DEF UploadExport
  <2>2. /\ (imports'[j]).archive = TRUE
        /\ (imports'[j]).status = "pending" \/ ((imports'[j]).status = "none" /\ j \in kept')
        /\ \A i \in ImportJob \ {j} : imports'[i] = imports[i]
    <3>1. \/ Becomes(j, "pending", imports[j].silent, TRUE)
          \/ Becomes(j, imports[j].status, imports[j].silent, TRUE) /\ j \in kept'
      BY <1>1, ImportJobUpdates DEF UploadExport
    <3> QED BY <2>1, <3>1, ImportBecomes
  <2>3. \A v \in Importer : Busy(v) => importer[v].job # j
    BY <2>1 DEF JobsOK, SoleOK
  <2>4. SoleOK'
    BY <1>0, <2>1, <2>2, <2>3 DEF JobsOK, SoleOK, Busy
  <2>5. ArchiveFitsStatus'
    BY <2>1, <2>2 DEF JobsOK, ArchiveFitsStatus
  <2> QED BY <2>4, <2>5 DEF JobsOK
<1>2. ASSUME NEW j \in ImportJob, RetryImport(j) PROVE JobsOK'
  <2>1. UNCHANGED <<importer, doubled, kept>> /\ imports[j].status = "failed"
    BY <1>2 DEF RetryImport, pastVars
  <2>2. /\ (imports'[j]).archive = imports[j].archive /\ (imports'[j]).status = "pending"
        /\ \A i \in ImportJob \ {j} : imports'[i] = imports[i]
    <3>1. Becomes(j, "pending", FALSE, imports[j].archive)
      BY <1>2, ImportJobUpdates DEF RetryImport
    <3> QED BY <3>1, ImportBecomes
  <2>3. SoleOK'
    BY <1>0, <2>1, <2>2 DEF JobsOK, SoleOK, Busy
  <2>4. ArchiveFitsStatus'
    <3>1. j \notin doubled => imports[j].archive
      BY <2>1 DEF JobsOK, ArchiveFitsStatus
    <3>2. \A i \in ImportJob : i = j \/ imports'[i] = imports[i]
      BY <2>2
    <3> QED BY <2>1, <2>2, <3>1, <3>2 DEF JobsOK, ArchiveFitsStatus
  <2> QED BY <2>3, <2>4 DEF JobsOK
<1>3. ASSUME UNCHANGED <<importer, doubled, kept>>,
             \A i \in ImportJob : /\ (imports'[i]).archive = imports[i].archive
                                  /\ \/ (imports'[i]).status = imports[i].status
                                     \/ /\ imports[i].status = "running"
                                        /\ (imports'[i]).status = "failed"
      PROVE  JobsOK'
  <2>1. SoleOK'
    <3> SUFFICES ASSUME NEW v \in Importer, Busy(v)
                 PROVE  LET i == importer[v].job IN
                        /\ (imports'[i]).status # "none"
                        /\ i \notin doubled =>
                               /\ (imports'[i]).archive
                               /\ importer[v].does = "discard" => (imports'[i]).status = "complete"
                               /\ \A u \in Importer \ {v} : Busy(u) => importer[u].job # i
      BY <1>3 DEF SoleOK, Busy
    <3>1. importer[v].job \in ImportJob
      BY <1>0
    <3> QED BY <1>3, <3>1 DEF JobsOK, SoleOK
  <2>2. ArchiveFitsStatus'
    BY <1>3 DEF JobsOK, ArchiveFitsStatus
  <2> QED BY <2>1, <2>2 DEF JobsOK
<1>4. ASSUME NEW j \in ImportJob, FallSilent(j) PROVE JobsOK'
  <2>1. UNCHANGED <<importer, doubled, kept>>
    BY <1>4 DEF FallSilent, pastVars
  <2>2. Becomes(j, imports[j].status, TRUE, imports[j].archive)
    BY <1>4, ImportJobUpdates DEF FallSilent
  <2>3. \A i \in ImportJob : /\ (imports'[i]).archive = imports[i].archive
                             /\ (imports'[i]).status = imports[i].status
    BY <2>2, ImportBecomes
  <2> QED BY <1>3, <2>1, <2>3
<1>5. ASSUME NEW w \in Importer, BeatImport(w) PROVE JobsOK'
  <2> DEFINE j == importer[w].job
  <2>1. UNCHANGED <<importer, doubled, kept>> /\ j \in ImportJob
    BY <1>0, <1>5 DEF BeatImport, pastVars
  <2>2. Becomes(j, imports[j].status, FALSE, imports[j].archive)
    BY <1>5, <2>1, ImportJobUpdates DEF BeatImport
  <2> HIDE DEF j
  <2>3. \A i \in ImportJob : /\ (imports'[i]).archive = imports[i].archive
                             /\ (imports'[i]).status = imports[i].status
    BY <2>1, <2>2, ImportBecomes
  <2> QED BY <1>3, <2>1, <2>3
<1>6. ASSUME NEW w \in Importer, FailStale(w) PROVE JobsOK'
  <2>1. UNCHANGED <<importer, doubled, kept>>
    BY <1>6 DEF FailStale, pastVars
  <2>2. \A i \in ImportJob : /\ (imports'[i]).archive = imports[i].archive
                             /\ \/ (imports'[i]).status = imports[i].status
                                \/ /\ imports[i].status = "running"
                                   /\ (imports'[i]).status = "failed"
    BY <1>0, <1>6 DEF FailStale, Stale, ImportRow
  <2> QED BY <1>3, <2>1, <2>2
<1>7. ASSUME NEW w \in Importer, NEW j \in ImportJob, ClaimImport(w, j) PROVE JobsOK'
  <2>1. /\ imports[j].status = "pending" /\ UNCHANGED kept /\ doubled \subseteq doubled'
        /\ doubled' \subseteq doubled \cup {j}
        /\ (\E v \in Importer : Busy(v) /\ importer[v].job = j) => j \in doubled'
    BY <1>7 DEF ClaimImport
  <2>2. /\ (imports'[j]).archive = imports[j].archive /\ (imports'[j]).status = "running"
        /\ \A i \in ImportJob \ {j} : imports'[i] = imports[i]
    <3>1. Becomes(j, "running", FALSE, imports[j].archive)
      BY <1>7, ImportJobUpdates DEF ClaimImport
    <3> QED BY <3>1, ImportBecomes
  <2>3. /\ \A v \in Importer \ {w} : /\ (importer'[v]).does = importer[v].does
                                      /\ (importer'[v]).job = importer[v].job
        /\ (importer'[w]).does = "download" /\ (importer'[w]).job = j
        /\ importer[w].does = "poll"
    BY <1>7, ImportClaims DEF RunsOK
  <2>4. SoleOK'
    <3> SUFFICES ASSUME NEW v \in Importer, Busy(v)'
                 PROVE  LET i == (importer'[v]).job IN
                        /\ (imports'[i]).status # "none"
                        /\ i \notin doubled' =>
                               /\ (imports'[i]).archive
                               /\ (importer'[v]).does = "discard" => (imports'[i]).status = "complete"
                               /\ \A u \in Importer \ {v} : Busy(u)' => (importer'[u]).job # i
      BY DEF SoleOK
    <3>1. CASE v = w
      BY <2>1, <2>2, <2>3, <3>1 DEF JobsOK, ArchiveFitsStatus, Busy
    <3>2. CASE v # w /\ importer[v].job = j
      BY <2>1, <2>2, <2>3, <3>2 DEF Busy
    <3>3. CASE v # w /\ importer[v].job # j
      <4>1. Busy(v) /\ (importer'[v]).job = importer[v].job /\ (importer'[v]).does = importer[v].does
        BY <2>3, <3>3 DEF Busy
      <4>2. imports'[importer[v].job] = imports[importer[v].job] /\ importer[v].job \in ImportJob
        BY <1>0, <2>2, <3>3, <4>1
      <4>3. \A u \in Importer \ {v} : Busy(u)' =>
                \/ Busy(u) /\ (importer'[u]).job = importer[u].job
                \/ (importer'[u]).job = j
        BY <2>3 DEF Busy
      <4> QED BY <2>1, <3>3, <4>1, <4>2, <4>3 DEF JobsOK, SoleOK
    <3> QED BY <3>1, <3>2, <3>3
  <2>5. ArchiveFitsStatus'
    <3>1. \A i \in ImportJob, v \in Importer :
              importer[v].job = i /\ importer[v].does \in {"discard", "fail"} =>
                  (importer'[v]).job = i /\ (importer'[v]).does \in {"discard", "fail"}
      BY <2>3
    <3> QED BY <2>1, <2>2, <3>1 DEF JobsOK, ArchiveFitsStatus
  <2> QED BY <2>4, <2>5 DEF JobsOK
<1>8. ASSUME NEW w \in Importer, Works(w) PROVE JobsOK'
  <2>1. /\ UNCHANGED <<imports, kept, doubled>>
        /\ importer[w].does \notin {"poll", "discard", "fail"}
        /\ (importer'[w]).job = importer[w].job
        /\ (importer'[w]).does \notin {"poll", "discard"}
    BY <1>8, ImportWorks
  <2>2. \A v \in Importer \ {w} : /\ (importer'[v]).does = importer[v].does
                                   /\ (importer'[v]).job = importer[v].job
    BY <1>8, ImportOthers DEF Works, ImportStep, RunsOK
  <2>3. SoleOK'
    BY <2>1, <2>2 DEF JobsOK, SoleOK, Busy
  <2>4. ArchiveFitsStatus'
    <3>1. \A i \in ImportJob, v \in Importer :
              importer[v].job = i /\ importer[v].does \in {"discard", "fail"} =>
                  (importer'[v]).job = i /\ (importer'[v]).does \in {"discard", "fail"}
      BY <2>1, <2>2
    <3> QED BY <2>1, <3>1 DEF JobsOK, ArchiveFitsStatus
  <2> QED BY <2>3, <2>4 DEF JobsOK
<1>9. ASSUME NEW w \in Importer, FinishRun(w) \/ DiscardArchive(w) \/ FailRun(w) \/ ImporterDies(w)
      PROVE  JobsOK'
  <2> DEFINE j == importer[w].job
  <2>1. /\ j \in ImportJob /\ Busy(w) /\ doubled' = doubled /\ kept \subseteq kept'
        /\ imports[j].status # "none" /\ imports[j] \in ImportRow
    BY <1>0, <1>9 DEF FinishRun, DiscardArchive, FailRun, ImporterDies, Busy, Keeps,
       pastVars, JobsOK, SoleOK
  <2>2. \A v \in Importer \ {w} : /\ (importer'[v]).does = importer[v].does
                                   /\ (importer'[v]).job = importer[v].job
    BY <1>9, ImportOthers DEF ImportStep, RunsOK
  <2>3. j \notin doubled =>
            /\ imports[j].archive
            /\ importer[w].does = "discard" => imports[j].status = "complete"
            /\ \A v \in Importer \ {w} : Busy(v) => importer[v].job # j
    BY <2>1 DEF JobsOK, SoleOK
  <2>4. \A i \in ImportJob \ {j} : imports'[i] = imports[i]
    <3>1. \/ Becomes(j, "complete", imports[j].silent, imports[j].archive)
          \/ Becomes(j, imports[j].status, imports[j].silent, FALSE)
          \/ Becomes(j, "failed", imports[j].silent, imports[j].archive)
          \/ UNCHANGED imports
      BY <1>9, <2>1, ImportJobs DEF ImporterDies
    <3> HIDE DEF j
    <3> QED BY <2>1, <3>1, ImportBecomes
  <2>5. /\ (importer'[w]).does = "poll" \/ (/\ (importer'[w]).job = j
                                            /\ (importer'[w]).does \in {"discard", "fail"})
        /\ (imports'[j]).status # "none"
        /\ j \notin doubled =>
               /\ (importer'[w]).does = "discard" => (imports'[j]).status = "complete"
               /\ (importer'[w]).does # "poll" => (imports'[j]).archive
               /\ (imports'[j]).status \in Open => (imports'[j]).archive
               /\ (imports'[j]).archive /\ (importer'[w]).does = "poll" =>
                      (imports'[j]).status \in Open \/ j \in kept'
    <3>1. /\ \A d : Then(w, d) => Advances(w, d)
          /\ Stops(w) => Ended(w)
      BY ImportMoves DEF RunsOK
    <3>6. ASSUME NEW s, NEW b, NEW a, Becomes(j, s, b, a)
          PROVE  (imports'[j]).status = s /\ (imports'[j]).archive = a
      <4> HIDE DEF j
      <4> QED BY <2>1, <3>6, ImportBecomes
    <3>7. Keeps(w) => (imports[j].status = "complete" => j \in kept')
      BY DEF Keeps
    <3>2. CASE FinishRun(w)
      <4>1. \/ /\ Becomes(j, "complete", imports[j].silent, imports[j].archive)
               /\ Advances(w, "discard") \/ Advances(w, "fail")
            \/ UNCHANGED imports /\ Advances(w, "fail")
        BY <2>1, <3>1, <3>2, ImportJobUpdates DEF FinishRun, Fails
      <4>2. \/ /\ (imports'[j]).status = "complete" /\ (imports'[j]).archive = imports[j].archive
               /\ (importer'[w]).does \in {"discard", "fail"} /\ (importer'[w]).job = j
            \/ /\ imports' = imports /\ (importer'[w]).does = "fail" /\ (importer'[w]).job = j
        BY <2>1, <4>1, ImportBecomes DEF Advances, Moved
      <4> QED BY <2>1, <2>3, <4>2
    <3>3. CASE DiscardArchive(w)
      <4>1. /\ (importer'[w]).does = "poll" /\ importer[w].does = "discard"
            /\ \/ Becomes(j, imports[j].status, imports[j].silent, FALSE)
               \/ UNCHANGED imports /\ (imports[j].status = "complete" => j \in kept')
        <5>1. Stops(w) /\ importer[w].does = "discard"
          BY <3>3 DEF DiscardArchive
        <5>2. \/ imports' = [imports EXCEPT ![j].archive = FALSE]
              \/ UNCHANGED imports /\ Keeps(w)
          BY <3>3 DEF DiscardArchive
        <5>3. (importer'[w]).does = "poll"
          BY <3>1, <5>1 DEF Ended, Idling
        <5> HIDE DEF j
        <5> QED BY <2>1, <3>7, <5>1, <5>2, <5>3, ImportJobUpdates
      <4>2. \/ (imports'[j]).status = imports[j].status /\ (imports'[j]).archive = FALSE
            \/ UNCHANGED imports /\ (imports[j].status = "complete" => j \in kept')
        BY <3>6, <4>1
      <4> QED BY <2>1, <2>3, <4>1, <4>2
    <3>4. CASE FailRun(w)
      <4>1. /\ (importer'[w]).does = "poll"
            /\ \/ Becomes(j, "failed", imports[j].silent, imports[j].archive)
               \/ UNCHANGED imports /\ (imports[j].status = "complete" => j \in kept')
        <5>1. Stops(w)
          BY <3>4 DEF FailRun
        <5>2. \/ imports' = [imports EXCEPT ![j].status = "failed"]
              \/ UNCHANGED imports /\ Keeps(w)
          BY <3>4 DEF FailRun
        <5>3. (importer'[w]).does = "poll"
          BY <3>1, <5>1 DEF Ended, Idling
        <5> HIDE DEF j
        <5> QED BY <2>1, <3>7, <5>2, <5>3, ImportJobUpdates
      <4>2. \/ (imports'[j]).status = "failed" /\ (imports'[j]).archive = imports[j].archive
            \/ UNCHANGED imports /\ (imports[j].status = "complete" => j \in kept')
        BY <3>6, <4>1
      <4> QED BY <2>1, <2>3, <4>1, <4>2 DEF ImportRow
    <3>5. CASE ImporterDies(w)
      <4>1. /\ (importer'[w]).does = "poll" /\ UNCHANGED imports
            /\ (imports[j].status = "complete" => j \in kept')
        BY <3>1, <3>5 DEF ImporterDies, Ended, Idling, Keeps
      <4> QED BY <2>1, <2>3, <4>1 DEF ImportRow
    <3> QED BY <1>9, <3>2, <3>3, <3>4, <3>5
  <2> HIDE DEF j
  <2>6. SoleOK'
    <3> SUFFICES ASSUME NEW v \in Importer, Busy(v)'
                 PROVE  LET i == (importer'[v]).job IN
                        /\ (imports'[i]).status # "none"
                        /\ i \notin doubled' =>
                               /\ (imports'[i]).archive
                               /\ (importer'[v]).does = "discard" => (imports'[i]).status = "complete"
                               /\ \A u \in Importer \ {v} : Busy(u)' => (importer'[u]).job # i
      BY DEF SoleOK
    <3>1. CASE v = w
      BY <2>1, <2>2, <2>3, <2>5, <3>1 DEF Busy
    <3>2. CASE v # w /\ importer[v].job = j
      <4>1. j \in doubled /\ (importer'[v]).job = j
        BY <2>2, <2>3, <3>2 DEF Busy
      <4> QED BY <2>1, <2>5, <4>1
    <3>3. CASE v # w /\ importer[v].job # j
      <4>1. Busy(v) /\ (importer'[v]).job = importer[v].job /\ (importer'[v]).does = importer[v].does
        BY <2>2, <3>3 DEF Busy
      <4>2. imports'[importer[v].job] = imports[importer[v].job] /\ importer[v].job \in ImportJob
        BY <1>0, <2>4, <3>3, <4>1
      <4>3. \A u \in Importer \ {v} : Busy(u)' =>
                \/ Busy(u) /\ (importer'[u]).job = importer[u].job
                \/ (importer'[u]).job = j
        BY <2>2, <2>5 DEF Busy
      <4> QED BY <2>1, <3>3, <4>1, <4>2, <4>3 DEF JobsOK, SoleOK
    <3> QED BY <3>1, <3>2, <3>3
  <2>7. ArchiveFitsStatus'
    <3> SUFFICES ASSUME NEW i \in ImportJob, i \notin doubled
                 PROVE  IF (imports'[i]).status \in Open
                        THEN (imports'[i]).archive
                        ELSE (imports'[i]).archive =>
                                 \/ i \in kept'
                                 \/ \E v \in Importer : (importer'[v]).job = i
                                        /\ (importer'[v]).does \in {"discard", "fail"}
      BY <2>1 DEF ArchiveFitsStatus
    <3>1. CASE i = j
      <4>1. CASE (importer'[w]).does = "poll"
        BY <2>1, <2>5, <3>1, <4>1
      <4>2. CASE (importer'[w]).does # "poll"
        <5>1. (importer'[w]).job = j /\ (importer'[w]).does \in {"discard", "fail"}
          BY <2>5, <4>2
        <5>2. (imports'[j]).status \in Open => (imports'[j]).archive
          BY <2>5, <3>1
        <5> QED BY <3>1, <5>1, <5>2
      <4> QED BY <4>1, <4>2
    <3>2. CASE i # j
      <4>1. imports'[i] = imports[i]
        BY <2>4, <3>2
      <4>2. \A v \in Importer : importer[v].job = i => (importer'[v]).job = i
                                 /\ (importer'[v]).does = importer[v].does
        BY <2>2, <3>2 DEF j
      <4>3. IF imports[i].status \in Open
            THEN imports[i].archive
            ELSE imports[i].archive =>
                     \/ i \in kept
                     \/ \E v \in Importer : importer[v].job = i
                                            /\ importer[v].does \in {"discard", "fail"}
        BY DEF JobsOK, ArchiveFitsStatus
      <4> HIDE DEF Open
      <4> QED BY <2>1, <4>1, <4>2, <4>3
    <3> QED BY <3>1, <3>2
  <2> QED BY <2>6, <2>7 DEF JobsOK
<1> QED BY <1>1, <1>2, <1>4, <1>5, <1>6, <1>7, <1>8, <1>9 DEF ImportNext, ImportStep, Works

LEMMA ImportStays ==
    ASSUME ImportInv, UNCHANGED importVars PROVE ImportInv'
<1>1. ImportTypes' /\ RunTypes' /\ HomeOK' /\ WholeOK' /\ CompleteIsThere' /\ MadeOK'
  BY DEF ImportInv, importVars, ImportTypes, RunTypes, RunType, HomeOK, WholeOK,
     CompleteIsThere,
     MadeOK, Strays, Busy, Row
<1>2. WrittenOK' /\ AloneOK'
  BY DEF ImportInv, importVars, WrittenOK, RunWritten, Through, AloneOK, RunAlone,
     Foreseen, Busy, Row
<1>3. FileOnceUnlessCounted' /\ SoleOK' /\ ArchiveFitsStatus'
  BY DEF ImportInv, importVars, FileOnceUnlessCounted, SoleOK, ArchiveFitsStatus, Busy
<1> QED BY <1>1, <1>2, <1>3 DEF ImportInv

LEMMA ImportInvStep ==
    ASSUME ImportAssumption, ImportInv, ImportNext PROVE ImportInv'
<1>1. ImportTypes /\ RunsOK /\ WholeOK /\ CompleteIsThere /\ FileOnceUnlessCounted /\ JobsOK
  BY DEF ImportInv, RunsOK, JobsOK
<1>2. ImportTypes' /\ RunsOK' /\ WholeOK'
  BY <1>1, ImportTypesStep, ImportRunsStep, ImportWholeStep
<1>3. CompleteIsThere' /\ FileOnceUnlessCounted' /\ JobsOK'
  BY <1>1, ImportCompleteStep, ImportFileStep, ImportJobsStep
<1> QED BY <1>2, <1>3 DEF ImportInv, RunsOK, JobsOK

LEMMA ImportInvSafety ==
    ASSUME ImportAssumption, ImportInv PROVE ImportSafety
<1>1. ImportTypeOK
  BY DEF ImportInv, ImportTypes, RunTypes, RunType, ImportRun, Phases, HomeOK, ImportTypeOK
<1>2. RowIsWhole
  <2>1. \A w \in Importer, n \in Int : <<Row(w, n)[1], Row(w, n)[2]>> = Here(w)
    BY DEF Row, Here
  <2>2. \A w \in Importer : importer[w].files \in Int /\ Text \in Int
    BY DEF ImportInv, RunTypes, ImportRun, Text, ImportAssumption
  <2>3. SUFFICES ASSUME NEW r \in rows \ torn
        PROVE  IF r[3] = Text THEN <<r[1], r[2]>> \in dressed \/ AtWork(r, "dress")
                              ELSE r \in attached \/ AtWork(r, "attach")
    BY DEF RowIsWhole
  <2>4. CASE r[3] = Text
    <3>1. \/ <<r[1], r[2]>> \in dressed
          \/ \E w \in Importer : importer[w].does = "dress" /\ Row(w, Text) = r
      BY <2>4 DEF ImportInv, WholeOK
    <3> QED BY <2>1, <2>2, <2>4, <3>1 DEF AtWork
  <2>5. CASE r[3] # Text
    <3>1. \/ r \in attached
          \/ \E w \in Importer : importer[w].does = "attach" /\ Row(w, importer[w].files) = r
      BY <2>5 DEF ImportInv, WholeOK
    <3> QED BY <2>1, <2>2, <2>5, <3>1 DEF AtWork
  <2> QED BY <2>4, <2>5
<1>3. OneHome
  <2>1. Strays = {w \in Importer : Stray(w) = 1}
    BY DEF Strays, Stray
  <2>2. IsFiniteSet(Strays) /\ Cardinality(Strays) \in Nat
    BY FS_Subset, FS_CardinalityType DEF ImportAssumption, Strays
  <2>3. Cardinality(made) \in Nat /\ strays \in Nat
    BY FS_CardinalityType DEF ImportInv, MadeOK, ImportTypes
  <2>4. ~crossed => Cardinality(made) <= 1 + strays + Cardinality(Strays)
    BY <2>2, <2>3 DEF ImportInv, MadeOK
  <2> QED BY <2>1, <2>4 DEF OneHome, ImportInv, WrittenOK
<1>4. OthersStayOpen
  BY DEF ImportInv, HomeOK, OthersStayOpen
<1> QED BY <1>1, <1>2, <1>3, <1>4 DEF ImportInv, ImportSafety

(* Running an import again, after failures anywhere and beside other runs, *)
(* completes it and repeats nothing outside the circumstances the parts of *)
(* ImportSafety name: for any workers, jobs, messages and files.           *)
THEOREM ContentImportSafety == ImportSteps => []ImportSafety
<1>1. ImportInit => ImportInv
  BY ImportBegins, ImportAssumption
<1>2. ImportInv /\ [ImportNext]_importVars => ImportInv'
  BY ImportInvStep, ImportStays, ImportAssumption
<1>3. ImportInv => ImportSafety
  BY ImportInvSafety, ImportAssumption
<1> QED BY <1>1, <1>2, <1>3, PTL DEF ImportSteps

-----------------------------------------------------------------------------
(* Lists. *)

(* The numbers are well-ordered. *)
Under == {ss \in Nat \X Nat : ss[1] < ss[2]}

(* The library's theorem on the order of the numbers, for that set. *)
LEMMA UnderIsWellFounded == IsWellFoundedOn(Under, Nat)
  <1>1. OpToRel(<, Nat) = Under
    BY DEF OpToRel, Under
  <1> QED
    BY <1>1, NatLessThanWellFounded

(* A set of numbers that is not empty has a least one: what a recursion     *)
(* over digits stops at exists.                                             *)
LEMMA LeastNumber ==
    ASSUME NEW T \in SUBSET Nat, T # {}
    PROVE  \E x \in T : \A y \in T : x <= y
  <1>1. PICK x \in T : \A y \in T : <<y, x>> \notin Under
    BY UnderIsWellFounded, WFMin
  <1>2. \A y \in T : ~(y < x)
    BY <1>1 DEF Under
  <1> QED
    BY <1>2

Rank == Seq(Digit)

(* Digits are numbers. *)
LEMMA DigitsAreNumbers ==
    /\ Base \in Nat /\ Base >= 2
    /\ \A d : d \in Digit <=> d \in Nat /\ d < Base
  BY ListAssumption DEF Digit

(* What a rank is: its length, its digits and the digits past its end.      *)
LEMMA RankIs ==
    ASSUME NEW s \in Rank
    PROVE  /\ Len(s) \in Nat /\ DOMAIN s = 1..Len(s)
           /\ \A k \in 1..Len(s) : s[k] \in Digit /\ DigitAt(s, k) = s[k]
           /\ \A k \in Nat : DigitAt(s, k) \in Digit
           /\ \A k \in Nat : k > Len(s) => DigitAt(s, k) = 0
  <1>1. /\ Len(s) \in Nat /\ DOMAIN s = 1..Len(s)
        /\ \A k \in 1..Len(s) : s[k] \in Digit
    BY DEF Rank
  <1>2. 0 \in Digit
    BY DigitsAreNumbers
  <1> QED
    BY <1>1, <1>2 DEF DigitAt

(* Two ranks with the same digits are one. *)
LEMMA SameDigits ==
    ASSUME NEW s \in Rank, NEW t \in Rank, Len(s) = Len(t),
           \A k \in 1..Len(s) : s[k] = t[k]
    PROVE  s = t
  BY SeqEqual DEF Rank

-----------------------------------------------------------------------------
(* The order of ranks is total. *)

(* No rank is below itself. *)
LEMMA LessIrreflexive == ASSUME NEW s \in Rank PROVE ~Less(s, s)
  <1>1. \A k \in DOMAIN s : s[k] \in Nat
    BY RankIs, DigitsAreNumbers
  <1> QED
    BY <1>1 DEF Less

(* What is below a lower rank is below a higher one: by the first of the   *)
(* two places they differ in.                                              *)
LEMMA LessTransitive ==
    ASSUME NEW s \in Rank, NEW t \in Rank, NEW u \in Rank, Less(s, t), Less(t, u)
    PROVE  Less(s, u)
  <1>1. PICK n \in DOMAIN t :
            /\ \A k \in 1..(n - 1) : k \in DOMAIN s /\ s[k] = t[k]
            /\ n \in DOMAIN s => s[n] < t[n]
    BY DEF Less
  <1>2. PICK m \in DOMAIN u :
            /\ \A k \in 1..(m - 1) : k \in DOMAIN t /\ t[k] = u[k]
            /\ m \in DOMAIN t => t[m] < u[m]
    BY DEF Less
  <1>3. /\ Len(s) \in Nat /\ Len(t) \in Nat /\ Len(u) \in Nat
        /\ DOMAIN s = 1..Len(s) /\ DOMAIN t = 1..Len(t) /\ DOMAIN u = 1..Len(u)
        /\ \A k \in 1..Len(s) : s[k] \in Nat
        /\ \A k \in 1..Len(t) : t[k] \in Nat
        /\ \A k \in 1..Len(u) : u[k] \in Nat
    BY RankIs, DigitsAreNumbers
  <1>4. CASE n < m
    <2>1. n \in DOMAIN u /\ t[n] = u[n]
      BY <1>2, <1>3, <1>4
    <2>2. \A k \in 1..(n - 1) : k \in DOMAIN s /\ s[k] = u[k]
      BY <1>1, <1>2, <1>3, <1>4
    <2> QED
      BY <1>1, <2>1, <2>2 DEF Less
  <1>5. CASE n >= m
    <2>1. \A k \in 1..(m - 1) : k \in DOMAIN s /\ s[k] = u[k]
      BY <1>1, <1>2, <1>3, <1>5
    <2>2. m \in DOMAIN t /\ t[m] < u[m]
      BY <1>1, <1>2, <1>3, <1>5
    <2>3. m \in DOMAIN s => s[m] < u[m]
      <3>1. CASE n = m
        BY <1>1, <1>3, <2>2, <3>1
      <3>2. CASE m < n
        <4>1. s[m] = t[m]
          BY <1>1, <1>2, <1>3, <3>2
        <4> QED
          BY <4>1, <2>2
      <3> QED
        BY <1>3, <1>5, <3>1, <3>2
    <2> QED
      BY <2>1, <2>3 DEF Less
  <1> QED
    BY <1>3, <1>4, <1>5

(* Of two ranks one is below the other: at the first digit they differ in. *)
LEMMA LessTotal ==
    ASSUME NEW s \in Rank, NEW t \in Rank
    PROVE  s = t \/ Less(s, t) \/ Less(t, s)
  <1> DEFINE T == {n \in Nat : n >= 1 /\ (n \in DOMAIN s /\ n \in DOMAIN t => s[n] # t[n])}
  <1>1. /\ Len(s) \in Nat /\ Len(t) \in Nat
        /\ DOMAIN s = 1..Len(s) /\ DOMAIN t = 1..Len(t)
        /\ \A k \in 1..Len(s) : s[k] \in Nat
        /\ \A k \in 1..Len(t) : t[k] \in Nat
    BY RankIs, DigitsAreNumbers
  <1>2. Len(s) + 1 \in T
    BY <1>1
  <1>3. PICK n \in T : \A m \in T : n <= m
    BY <1>2, LeastNumber
  <1>4. n \in Nat /\ n >= 1 /\ n <= Len(s) + 1 /\ (n \in DOMAIN s /\ n \in DOMAIN t => s[n] # t[n])
    BY <1>2, <1>3
  <1>5. \A k \in 1..(n - 1) : k \in DOMAIN s /\ k \in DOMAIN t /\ s[k] = t[k]
    <2> SUFFICES ASSUME NEW k \in 1..(n - 1) PROVE k \notin T
      BY DEF T
    <2> QED
      BY <1>3, <1>4
  <1> HIDE DEF T
  <1>6. CASE n \in DOMAIN s /\ n \in DOMAIN t
    <2>1. s[n] < t[n] \/ t[n] < s[n]
      BY <1>1, <1>4, <1>6
    <2> QED
      BY <1>5, <1>6, <2>1 DEF Less
  <1>7. CASE n \notin DOMAIN s /\ n \in DOMAIN t
    BY <1>5, <1>7 DEF Less
  <1>8. CASE n \in DOMAIN s /\ n \notin DOMAIN t
    BY <1>5, <1>8 DEF Less
  <1>9. CASE n \notin DOMAIN s /\ n \notin DOMAIN t
    <2>1. Len(s) = n - 1 /\ Len(t) = n - 1
      <3>1. n > Len(s) /\ n > Len(t)
        BY <1>1, <1>4, <1>9
      <3>2. n = 1 \/ n - 1 \in 1..(n - 1)
        BY <1>4
      <3>3. n - 1 <= Len(s) /\ n - 1 <= Len(t)
        BY <1>1, <1>4, <1>5, <3>2
      <3> QED
        BY <1>1, <1>4, <3>1, <3>3
    <2> QED
      BY <1>1, <1>5, <2>1, SameDigits
  <1> QED
    BY <1>6, <1>7, <1>8, <1>9

(* Every rank that is not empty is above the empty one. *)
LEMMA EmptyIsLeast ==
    ASSUME NEW s \in Rank, s # <<>>
    PROVE  Less(<<>>, s)
  <1>1. Len(s) \in Nat /\ Len(s) >= 1 /\ DOMAIN s = 1..Len(s)
    BY RankIs, EmptySeq DEF Rank
  <1>2. 1 \in DOMAIN s /\ 1 \notin DOMAIN <<>>
    BY <1>1
  <1> QED
    BY <1>2 DEF Less

-----------------------------------------------------------------------------
(* Of finitely many ranks one is the lowest, and one is the highest: the    *)
(* one with the fewest below it, or above.                                  *)

(* The upper neighbour neighbours_in finds. *)
LEMMA LowestIs ==
    ASSUME NEW R, R \subseteq Rank, IsFiniteSet(R), R # {}
    PROVE  Lowest(R) \in R /\ \A q \in R : ~Less(q, Lowest(R))
  <1> DEFINE B(r) == {q \in R : Less(q, r)}
             T == {n \in Nat : \E r \in R : n = Cardinality(B(r))}
  <1>1. \A r \in R : IsFiniteSet(B(r)) /\ Cardinality(B(r)) \in Nat
    <2> TAKE r \in R
    <2>1. B(r) \subseteq R
      OBVIOUS
    <2> QED
      BY <2>1, FS_Subset, FS_CardinalityType
  <1>2. T # {}
    BY <1>1
  <1>3. PICK n \in T : \A m \in T : n <= m
    BY <1>2, LeastNumber
  <1>4. PICK r \in R : n = Cardinality(B(r))
    BY <1>3
  <1>5. ASSUME NEW q \in R, Less(q, r) PROVE FALSE
    <2>1. B(q) \subseteq B(r)
      BY <1>4, <1>5, LessTransitive
    <2>2. q \in B(r) /\ q \notin B(q)
      BY <1>5, LessIrreflexive
    <2>3. B(q) # B(r)
      BY <2>2
    <2> HIDE DEF B
    <2>4. Cardinality(B(q)) <= Cardinality(B(r)) /\ Cardinality(B(q)) # Cardinality(B(r))
      BY <1>1, <2>1, <2>3, FS_Subset
    <2>5. Cardinality(B(q)) \in T
      BY <1>1
    <2> QED
      BY <1>1, <1>3, <1>4, <2>4, <2>5
  <1>6. \E x \in R : \A q \in R : ~Less(q, x)
    BY <1>5
  <1> QED
    BY <1>6 DEF Lowest

(* The last rank last_rank_in finds. *)
LEMMA HighestIs ==
    ASSUME NEW R, R \subseteq Rank, IsFiniteSet(R), R # {}
    PROVE  Highest(R) \in R /\ \A q \in R : ~Less(Highest(R), q)
  <1> DEFINE B(r) == {q \in R : Less(r, q)}
             T == {n \in Nat : \E r \in R : n = Cardinality(B(r))}
  <1>1. \A r \in R : IsFiniteSet(B(r)) /\ Cardinality(B(r)) \in Nat
    <2> TAKE r \in R
    <2>1. B(r) \subseteq R
      OBVIOUS
    <2> QED
      BY <2>1, FS_Subset, FS_CardinalityType
  <1>2. T # {}
    BY <1>1
  <1>3. PICK n \in T : \A m \in T : n <= m
    BY <1>2, LeastNumber
  <1>4. PICK r \in R : n = Cardinality(B(r))
    BY <1>3
  <1>5. ASSUME NEW q \in R, Less(r, q) PROVE FALSE
    <2>1. B(q) \subseteq B(r)
      BY <1>4, <1>5, LessTransitive
    <2>2. q \in B(r) /\ q \notin B(q)
      BY <1>5, LessIrreflexive
    <2>3. B(q) # B(r)
      BY <2>2
    <2> HIDE DEF B
    <2>4. Cardinality(B(q)) <= Cardinality(B(r)) /\ Cardinality(B(q)) # Cardinality(B(r))
      BY <1>1, <2>1, <2>3, FS_Subset
    <2>5. Cardinality(B(q)) \in T
      BY <1>1
    <2> QED
      BY <1>1, <1>3, <1>4, <2>4, <2>5
  <1>6. \E x \in R : \A q \in R : ~Less(x, q)
    BY <1>5
  <1> QED
    BY <1>6 DEF Highest

-----------------------------------------------------------------------------
(* Midpoint: where the neighbours part and where there is room exist. *)

(* The count of shared digits ends at the latest where the higher one does. *)
LEMMA PartsIs ==
    ASSUME NEW low \in Rank, NEW high \in Rank
    PROVE  LET n == Parts(low, high) IN
           /\ n \in 1..(Len(high) + 1)
           /\ \A k \in 1..(n - 1) : DigitAt(low, k) = high[k]
           /\ n \in DOMAIN high => DigitAt(low, n) # high[n]
  <1> DEFINE T == {n \in Nat : n >= 1 /\ (n \in DOMAIN high => DigitAt(low, n) # high[n])}
  <1>1. Len(high) \in Nat /\ DOMAIN high = 1..Len(high)
    BY RankIs
  <1>2. Len(high) + 1 \in T
    BY <1>1
  <1>3. PICK n \in T : \A m \in T : n <= m
    BY <1>2, LeastNumber
  <1>4. n \in Nat /\ n >= 1 /\ n <= Len(high) + 1 /\ (n \in DOMAIN high => DigitAt(low, n) # high[n])
    BY <1>2, <1>3
  <1>5. \A k \in 1..(n - 1) : DigitAt(low, k) = high[k]
    <2> SUFFICES ASSUME NEW k \in 1..(n - 1) PROVE k \notin T
      BY DEF T
    <2> QED
      BY <1>3, <1>4
  <1>6. \E x \in 1..(Len(high) + 1) :
            /\ \A k \in 1..(x - 1) : DigitAt(low, k) = high[k]
            /\ x \in DOMAIN high => DigitAt(low, x) # high[x]
    BY <1>1, <1>4, <1>5
  <1> QED
    BY <1>6 DEF Parts

(* The calls midpoint makes of itself end, at the latest where the lower    *)
(* rank does.                                                               *)
LEMMA FirstRoomIs ==
    ASSUME NEW low \in Rank, NEW n \in Nat, n >= 1
    PROVE  LET m == FirstRoom(low, n) IN
           /\ m \in n..(n + Len(low))
           /\ DigitAt(low, m) < Base - 1
           /\ \A k \in n..(m - 1) : DigitAt(low, k) = Base - 1
  <1> DEFINE T == {m \in Nat : m >= n /\ DigitAt(low, m) < Base - 1}
  <1>1. /\ Len(low) \in Nat /\ \A k \in Nat : DigitAt(low, k) \in Nat /\ DigitAt(low, k) < Base
        /\ Base \in Nat /\ Base >= 2 /\ DigitAt(low, n + Len(low)) = 0
    BY RankIs, DigitsAreNumbers
  <1>2. n + Len(low) \in T
    BY <1>1
  <1>3. PICK m \in T : \A x \in T : m <= x
    BY <1>2, LeastNumber
  <1>4. m \in Nat /\ m >= n /\ m <= n + Len(low) /\ DigitAt(low, m) < Base - 1
    BY <1>2, <1>3
  <1>5. \A k \in n..(m - 1) : DigitAt(low, k) = Base - 1
    <2> TAKE k \in n..(m - 1)
    <2>1. k \in Nat /\ k \notin T
      BY <1>3, <1>4
    <2>2. ~(DigitAt(low, k) < Base - 1)
      BY <2>1
    <2> QED
      BY <1>1, <2>1, <2>2
  <1>6. \E x \in n..(n + Len(low)) :
            /\ DigitAt(low, x) < Base - 1
            /\ \A k \in n..(x - 1) : DigitAt(low, k) = Base - 1
    BY <1>1, <1>4, <1>5
  <1> QED
    BY <1>6 DEF FirstRoom

(* A rank cut off and raised in its last digit is a rank above it. *)
LEMMA CutIs ==
    ASSUME NEW low \in Rank, NEW n \in Nat, n >= 1, NEW d \in Digit
    PROVE  LET c == Cut(low, n, d) IN
           /\ c \in Rank /\ Len(c) = n /\ c # <<>> /\ c[n] = d
           /\ \A k \in 1..(n - 1) : c[k] = DigitAt(low, k)
           /\ DigitAt(low, n) < d => Less(low, c)
  <1> DEFINE c == Cut(low, n, d)
  <1>1. /\ DOMAIN c = 1..n /\ c[n] = d
        /\ \A k \in 1..(n - 1) : c[k] = DigitAt(low, k)
    BY DEF Cut
  <1>2. \A k \in 1..n : c[k] \in Digit
    BY RankIs DEF Cut
  <1>3. c \in [1..n -> Digit]
    BY <1>2 DEF Cut
  <1>4. c \in Rank /\ Len(c) = n
    BY <1>3 DEF Rank
  <1>5. c # <<>>
    BY <1>4
  <1>6. ASSUME DigitAt(low, n) < d PROVE Less(low, c)
    <2>1. /\ Len(low) \in Nat /\ DOMAIN low = 1..Len(low)
          /\ \A k \in 1..Len(low) : DigitAt(low, k) = low[k]
          /\ \A k \in Nat : k > Len(low) => DigitAt(low, k) = 0
      BY RankIs
    <2>2. CASE n <= Len(low)
      <3>1. \A k \in 1..(n - 1) : k \in DOMAIN low /\ low[k] = c[k]
        BY <1>1, <2>1, <2>2
      <3>2. n \in DOMAIN low /\ low[n] < c[n]
        BY <1>1, <1>6, <2>1, <2>2
      <3>3. n \in DOMAIN c
        BY <1>1
      <3> QED
        BY <3>1, <3>2, <3>3 DEF Less
    <2>3. CASE Len(low) < n
      <3>1. \A k \in 1..Len(low) : k \in DOMAIN low /\ low[k] = c[k]
        BY <1>1, <2>1, <2>3
      <3>2. Len(low) + 1 \in DOMAIN c /\ Len(low) + 1 \notin DOMAIN low
        BY <1>1, <2>1, <2>3
      <3>3. (Len(low) + 1) - 1 = Len(low)
        BY <2>1
      <3> QED
        BY <3>1, <3>2, <3>3 DEF Less
    <2> QED
      BY <2>1, <2>2, <2>3
  <1> QED
    BY <1>1, <1>4, <1>5, <1>6

(* A rank there can be another one below. *)
EndsAboveZero(s) == s[Len(s)] # 0

(* Where a rank and a higher one part, the higher one has the higher digit, *)
(* so that the subtraction of midpoint stays above zero.                    *)
LEMMA PartsBelow ==
    ASSUME NEW low \in Rank, NEW high \in Rank, Less(low, high), EndsAboveZero(high)
    PROVE  LET n == Parts(low, high) IN n \in DOMAIN high /\ DigitAt(low, n) < high[n]
  <1> DEFINE n == Parts(low, high)
  <1>1. /\ Len(low) \in Nat /\ DOMAIN low = 1..Len(low)
        /\ \A k \in 1..Len(low) : DigitAt(low, k) = low[k]
        /\ \A k \in Nat : k > Len(low) => DigitAt(low, k) = 0
        /\ \A k \in Nat : DigitAt(low, k) \in Nat
    BY RankIs, DigitsAreNumbers
  <1>2. /\ Len(high) \in Nat /\ DOMAIN high = 1..Len(high)
        /\ \A k \in 1..Len(high) : high[k] \in Nat
    BY RankIs, DigitsAreNumbers
  <1>3. /\ n \in 1..(Len(high) + 1)
        /\ \A k \in 1..(n - 1) : DigitAt(low, k) = high[k]
        /\ n \in DOMAIN high => DigitAt(low, n) # high[n]
    BY PartsIs
  <1>4. PICK p \in DOMAIN high :
            /\ \A k \in 1..(p - 1) : k \in DOMAIN low /\ low[k] = high[k]
            /\ p \in DOMAIN low => low[p] < high[p]
    BY DEF Less
  <1> HIDE DEF n
  <1>5. n >= p
    <2>1. \A k \in 1..(p - 1) : k \in DOMAIN high /\ DigitAt(low, k) = high[k]
      BY <1>1, <1>2, <1>4
    <2> QED
      BY <1>2, <1>3, <1>4, <2>1
  <1>6. CASE p \in DOMAIN low
    <2>1. DigitAt(low, p) < high[p]
      BY <1>1, <1>4, <1>6
    <2>2. ~(p < n)
      <3> SUFFICES ASSUME p < n PROVE FALSE
        OBVIOUS
      <3>1. DigitAt(low, p) = high[p]
        BY <1>2, <1>3, <1>4
      <3> QED
        BY <1>1, <1>2, <1>4, <2>1, <3>1
    <2>3. n = p
      BY <1>2, <1>3, <1>4, <1>5, <2>2
    <2> QED
      BY <1>4, <2>1, <2>3 DEF n
  <1>7. CASE p \notin DOMAIN low
    <2>1. p > Len(low)
      BY <1>1, <1>2, <1>4, <1>7
    <2>2. Len(high) >= 1 /\ Len(high) > Len(low)
      <3>1. p \in 1..Len(high) /\ Len(high) \in Nat /\ Len(low) \in Nat
        BY <1>1, <1>2
      <3> QED
        BY <2>1, <3>1
    <2>3. high[Len(high)] # 0 /\ DigitAt(low, Len(high)) = 0
      BY <1>1, <1>2, <2>2 DEF EndsAboveZero
    <2>4. n # Len(high) + 1
      <3> SUFFICES ASSUME n = Len(high) + 1 PROVE FALSE
        OBVIOUS
      <3>1. Len(high) \in 1..(n - 1)
        BY <1>2, <2>2
      <3>2. DigitAt(low, Len(high)) = high[Len(high)]
        BY <1>3, <3>1
      <3> QED
        BY <2>3, <3>2
    <2>5. n \in DOMAIN high
      BY <1>2, <1>3, <2>4
    <2>6. DigitAt(low, n) = 0
      BY <1>1, <1>2, <1>4, <1>5, <2>1, <2>5
    <2>7. high[n] # 0 /\ high[n] \in Nat
      BY <1>2, <1>3, <2>5, <2>6
    <2> QED
      BY <2>5, <2>6, <2>7 DEF n
  <1> QED
    BY <1>6, <1>7

(* Halving. *)
LEMMA HalfwayIs ==
    ASSUME NEW l \in Nat, NEW h \in Nat, RoomBetween(l, h)
    PROVE  Halfway(l, h) \in Nat /\ l < Halfway(l, h) /\ Halfway(l, h) < h
  BY DEF RoomBetween, Halfway

(* Between two ranks in order, and above any one, midpoint finds a rank     *)
(* that leaves room below it: for any number of digits and ranks of any     *)
(* length, so however often one gap is halved (rank.rs).                    *)
THEOREM ContentRankBetween ==
    ASSUME NEW low \in Rank, NEW high \in Rank,
           high = <<>> \/ (Less(low, high) /\ EndsAboveZero(high))
    PROVE  LET r == Midpoint(low, high) IN
           /\ r \in Rank /\ r # <<>> /\ EndsAboveZero(r)
           /\ Less(low, r) /\ (high # <<>> => Less(r, high))
  <1> DEFINE n == Parts(low, high)
             l == DigitAt(low, n)
             h == IF n \in DOMAIN high THEN high[n] ELSE Base
             m == FirstRoom(low, n + 1)
             d == DigitAt(low, m)
  <1>1. /\ Base \in Nat /\ Base >= 2
        /\ \A k \in Nat : DigitAt(low, k) \in Nat /\ DigitAt(low, k) < Base
        /\ Len(high) \in Nat /\ DOMAIN high = 1..Len(high)
        /\ \A k \in 1..Len(high) : high[k] \in Nat /\ high[k] < Base
    BY RankIs, DigitsAreNumbers
  <1>2. /\ n \in 1..(Len(high) + 1)
        /\ \A k \in 1..(n - 1) : DigitAt(low, k) = high[k]
    BY PartsIs
  <1>3. n \in Nat /\ n >= 1 /\ n + 1 \in Nat /\ n + 1 >= 1
    <2>1. \A x \in 1..(Len(high) + 1) : x \in Nat /\ x >= 1 /\ x + 1 \in Nat /\ x + 1 >= 1
      BY <1>1
    <2> QED
      BY <1>2, <2>1
  <1>4. high # <<>> => n \in DOMAIN high
    BY PartsBelow
  <1>5. l < h /\ l \in Nat /\ h \in Nat /\ h <= Base
    <2>1. CASE high = <<>>
      <3>1. n \notin DOMAIN high
        BY <2>1
      <3> QED
        BY <1>1, <1>3, <3>1
    <2>2. CASE high # <<>>
      BY <1>1, <1>3, <1>4, <2>2, PartsBelow
    <2> QED
      BY <2>1, <2>2
  <1>6. /\ m \in Nat /\ m >= n + 1 /\ d < Base - 1 /\ d \in Nat
    <2>1. m \in (n + 1)..(n + 1 + Len(low)) /\ d < Base - 1
      BY <1>3, FirstRoomIs
    <2>2. Len(low) \in Nat
      BY RankIs
    <2>3. m \in Nat /\ m >= n + 1
      BY <1>3, <2>1, <2>2
    <2> QED
      BY <1>1, <2>1, <2>3
  <1>7. Midpoint(low, high) = IF RoomBetween(l, h) THEN Cut(low, n, Halfway(l, h))
                              ELSE IF Len(high) > n THEN Cut(low, n, h)
                              ELSE Cut(low, m, Halfway(d, Base))
    BY DEF Midpoint
  <1> HIDE DEF n, l, h, m, d
  (* A rank that has the digits of the lower one before the n-th, and there  *)
  (* a digit below that of the higher one.                                   *)
  <1>8. ASSUME NEW r \in Rank, Len(r) >= n, high # <<>>, r[n] < h,
               \A k \in 1..(n - 1) : r[k] = DigitAt(low, k)
        PROVE  Less(r, high)
    <2>1. Len(r) \in Nat /\ DOMAIN r = 1..Len(r)
      BY RankIs
    <2>2. \A k \in 1..(n - 1) : k \in DOMAIN r /\ r[k] = high[k]
      BY <1>2, <1>3, <1>8, <2>1
    <2>3. n \in DOMAIN high /\ r[n] < high[n]
      BY <1>4, <1>8 DEF h
    <2> QED
      BY <2>2, <2>3 DEF Less
  <1>9. CASE RoomBetween(l, h)
    <2> DEFINE x == Halfway(l, h)
               r == Cut(low, n, x)
    <2>1. x \in Nat /\ l < x /\ x < h
      BY <1>5, <1>9, HalfwayIs
    <2>2. x \in Digit
      BY <1>1, <1>5, <2>1, DigitsAreNumbers
    <2> HIDE DEF x
    <2>3. /\ r \in Rank /\ Len(r) = n /\ r # <<>> /\ r[n] = x /\ Less(low, r)
          /\ \A k \in 1..(n - 1) : r[k] = DigitAt(low, k)
      BY <1>3, <2>1, <2>2, CutIs DEF l
    <2> HIDE DEF r
    <2>4. EndsAboveZero(r)
      BY <1>5, <2>1, <2>3 DEF EndsAboveZero
    <2>5. high # <<>> => Less(r, high)
      BY <1>3, <1>8, <2>1, <2>3
    <2>6. Midpoint(low, high) = r
      BY <1>7, <1>9 DEF r, x
    <2> QED
      BY <2>3, <2>4, <2>5, <2>6
  <1>10. CASE ~RoomBetween(l, h) /\ Len(high) > n
    <2> DEFINE r == Cut(low, n, h)
    <2>1. n \in DOMAIN high /\ h = high[n] /\ h \in Digit
      BY <1>1, <1>3, <1>10, DigitsAreNumbers DEF h
    <2>2. /\ r \in Rank /\ Len(r) = n /\ r # <<>> /\ r[n] = h /\ Less(low, r)
          /\ \A k \in 1..(n - 1) : r[k] = DigitAt(low, k)
      BY <1>3, <1>5, <2>1, CutIs DEF l
    <2> HIDE DEF r
    <2>3. EndsAboveZero(r)
      BY <1>5, <2>2 DEF EndsAboveZero
    <2>4. Less(r, high)
      <3>1. DOMAIN r = 1..n
        BY <2>2, RankIs
      <3>2. \A k \in 1..n : k \in DOMAIN r /\ r[k] = high[k]
        BY <1>2, <1>3, <2>1, <2>2, <3>1
      <3>3. n + 1 \in DOMAIN high /\ n + 1 \notin DOMAIN r /\ (n + 1) - 1 = n
        BY <1>1, <1>3, <1>10, <3>1
      <3> QED
        BY <3>2, <3>3 DEF Less
    <2>5. Midpoint(low, high) = r
      BY <1>7, <1>10 DEF r
    <2> QED
      BY <2>2, <2>3, <2>4, <2>5
  <1>11. CASE ~RoomBetween(l, h) /\ ~(Len(high) > n)
    <2> DEFINE x == Halfway(d, Base)
               r == Cut(low, m, x)
    <2>1. x \in Nat /\ d < x /\ x < Base
      <3>1. RoomBetween(d, Base)
        BY <1>1, <1>6 DEF RoomBetween
      <3> QED
        BY <1>1, <1>6, <3>1, HalfwayIs
    <2>2. x \in Digit
      BY <1>1, <2>1, DigitsAreNumbers
    <2>3. m >= 1
      BY <1>3, <1>6
    <2> HIDE DEF x
    <2>4. /\ r \in Rank /\ Len(r) = m /\ r # <<>> /\ r[m] = x /\ Less(low, r)
          /\ \A k \in 1..(m - 1) : r[k] = DigitAt(low, k)
      BY <1>6, <2>1, <2>2, <2>3, CutIs DEF d
    <2> HIDE DEF r
    <2>5. EndsAboveZero(r)
      BY <1>6, <2>1, <2>4 DEF EndsAboveZero
    <2>6. high # <<>> => Less(r, high)
      <3>1. n \in 1..(m - 1) /\ \A k \in 1..(n - 1) : k \in 1..(m - 1)
        BY <1>3, <1>6
      <3>2. r[n] = l /\ \A k \in 1..(n - 1) : r[k] = DigitAt(low, k)
        BY <2>4, <3>1 DEF l
      <3>3. Len(r) >= n /\ r[n] < h
        BY <1>3, <1>5, <1>6, <2>4, <3>2
      <3> QED
        BY <1>8, <2>4, <3>2, <3>3
    <2>7. Midpoint(low, high) = r
      BY <1>7, <1>11 DEF r, x
    <2> QED
      BY <2>4, <2>5, <2>6, <2>7
  <1> QED
    BY <1>9, <1>10, <1>11

-----------------------------------------------------------------------------
(* The invariant. *)

Edit == [does : {"nothing", "create", "move", "delete", "write"},
         item : Item \cup {NoItem}, after : Item \cup {NoItem}, to : Rank]

ListTypes ==
    /\ rank \in [Item -> Rank] /\ removed \subseteq Item
    /\ shown \subseteq Item /\ strayed \subseteq Item
    /\ editor \in [Editor -> Edit] /\ listWrites \in 0..MaxListWrites

(* What a request is about: an item nobody else has heard of, or one that   *)
(* was made.                                                                *)
EditsOK ==
    \A w \in Editor :
        /\ editor[w].does # "nothing" => editor[w].item \in Item /\ editor[w].after # editor[w].item
        /\ editor[w].does = "create" =>
               /\ rank[editor[w].item] = <<>>
               /\ \A o \in Editor \ {w} : editor[o].item # editor[w].item
        /\ editor[w].does = "move" => rank[editor[w].item] # <<>>

(* The lock on the list. *)
OneWriter ==
    \A v, w \in Editor : editor[v].does = "write" /\ editor[w].does = "write" => v = w

(* The rank that is about to be written still is where it should be. *)
WriterOK ==
    \A w \in Editor : editor[w].does = "write" =>
        /\ editor[w].to # <<>> /\ EndsAboveZero(editor[w].to)
        /\ editor[w].after \in Live \cup {NoItem} /\ Lands(editor[w], editor[w].to)
        /\ editor[w].item \in removed => editor[w].item \in strayed

ListInv ==
    /\ ListTypes /\ RanksAreSound /\ ShownIsThereUnlessStrayed
    /\ EditsOK /\ OneWriter /\ WriterOK

ListSpec == ListInit /\ [][ListNext]_listVars

(* The invariant has the properties of the runs. *)
LEMMA ListInvSafe == ListInv => ListSafety
  <1> SUFFICES ASSUME ListInv PROVE ListTypeOK
    BY DEF ListInv, ListSafety
  <1>1. \A w \in Editor :
           /\ editor[w].does \in {"nothing", "create", "move", "delete", "write"}
           /\ editor[w].item \in Item \cup {NoItem} /\ editor[w].after \in Item \cup {NoItem}
           /\ editor[w].to \in Rank
    <2> TAKE w \in Editor
    <2>1. editor[w] \in Edit
      BY DEF ListInv, ListTypes
    <2> QED
      BY <2>1 DEF Edit
  <1> QED
    BY <1>1 DEF ListInv, ListTypes, ListTypeOK, Rank

(* An empty list has it. *)
LEMMA ListInvInit == ListInit => ListInv
  <1> SUFFICES ASSUME ListInit PROVE ListInv
    OBVIOUS
  <1> USE DEF ListInit
  <1>1. <<>> \in Rank
    BY DEF Rank
  <1>2. NoEdit \in Edit /\ NoEdit.does = "nothing"
    BY <1>1 DEF NoEdit, Edit
  <1>3. ListTypes
    BY <1>1, <1>2, ListAssumption DEF ListTypes
  <1>4. Live = {}
    BY DEF Live
  <1>5. EditsOK /\ OneWriter /\ WriterOK
    BY <1>2 DEF EditsOK, OneWriter, WriterOK
  <1> QED
    BY <1>3, <1>4, <1>5 DEF ListInv, RanksAreSound, ShownIsThereUnlessStrayed

(* The ranks of items are finitely many. *)
LEMMA RanksAreFinite ==
    ASSUME ListTypes, NEW S \in SUBSET Item
    PROVE  IsFiniteSet({rank[j] : j \in S}) /\ {rank[j] : j \in S} \subseteq Rank
  <1> DEFINE R == {rank[j] : j \in S}
             f == [j \in S |-> rank[j]]
  <1>1. R \subseteq Rank
    BY DEF ListTypes
  <1>2. f \in Surjection(S, R)
    <2>1. f \in [S -> R]
      OBVIOUS
    <2>2. \A r \in R : \E j \in S : f[j] = r
      OBVIOUS
    <2> QED
      BY <2>1, <2>2 DEF Surjection
  <1>3. IsFiniteSet(S)
    BY ListAssumption, FS_Subset
  <1> HIDE DEF f, R
  <1>4. IsFiniteSet(R)
    BY <1>2, <1>3, FS_Surjection
  <1> QED
    BY <1>1, <1>4 DEF R

(* What is there has a rank that ends above zero. *)
LEMMA LiveIs ==
    ASSUME ListTypes, RanksAreSound, NEW j \in Live
    PROVE  j \in Item /\ rank[j] \in Rank /\ rank[j] # <<>> /\ EndsAboveZero(rank[j])
  BY DEF ListTypes, RanksAreSound, Live, EndsAboveZero

(* neighbours_in, and midpoint of what it finds: above the item to follow   *)
(* and what is before it, below all else.                                   *)
LEMMA BetweenIs ==
    ASSUME ListTypes, RanksAreSound, NEW i \in Item, NEW after \in Live \cup {NoItem},
           after # i
    PROVE  LET r == Between(i, after)
               low == IF after = NoItem THEN <<>> ELSE rank[after]
           IN  /\ r \in Rank /\ r # <<>> /\ EndsAboveZero(r) /\ Less(low, r)
               /\ \A j \in Live \ {i, after} :
                      IF Less(low, rank[j]) THEN Less(r, rank[j]) ELSE Less(rank[j], r)
  <1> DEFINE low == IF after = NoItem THEN <<>> ELSE rank[after]
             S == {k \in Live \ {i, after} : Less(low, rank[k])}
             above == {rank[j] : j \in S}
             high == IF above = {} THEN <<>> ELSE Lowest(above)
             r == Midpoint(low, high)
  <1>1. r = Between(i, after)
    BY DEF Between
  <1>2. <<>> \in Rank
    BY DEF Rank
  <1>3. low \in Rank
    BY <1>2, LiveIs
  <1>4. S \in SUBSET Item
    BY DEF Live
  <1>5. IsFiniteSet(above) /\ above \subseteq Rank
    BY <1>4, RanksAreFinite
  <1>6. \A q \in above : q # <<>> /\ EndsAboveZero(q) /\ Less(low, q)
    BY LiveIs
  <1>7. above # {} => high \in above /\ \A q \in above : ~Less(q, high)
    <2> HIDE DEF above
    <2> QED
      BY <1>5, LowestIs
  <1>8. high \in Rank /\ (high = <<>> \/ (Less(low, high) /\ EndsAboveZero(high)))
    <2>1. CASE above = {}
      BY <1>2, <2>1
    <2>2. CASE above # {}
      <3> HIDE DEF above, low, high
      <3> QED
        BY <1>5, <1>6, <1>7, <2>2
    <2> QED
      BY <2>1, <2>2
  <1>9. /\ r \in Rank /\ r # <<>> /\ EndsAboveZero(r) /\ Less(low, r)
        /\ high # <<>> => Less(r, high)
    <2> HIDE DEF low, high
    <2> QED
      BY <1>3, <1>8, ContentRankBetween
  <1> HIDE DEF r, high
  <1>10. ASSUME NEW j \in Live \ {i, after}
         PROVE  IF Less(low, rank[j]) THEN Less(r, rank[j]) ELSE Less(rank[j], r)
    <2>1. rank[j] \in Rank /\ rank[j] # <<>>
      BY <1>10, LiveIs
    <2>2. CASE Less(low, rank[j])
      <3>1. rank[j] \in above
        BY <1>10, <2>2
      <3> HIDE DEF above, low
      <3>2. high \in above /\ ~Less(rank[j], high)
        BY <1>7, <3>1
      <3>3. high # <<>> /\ Less(r, high)
        BY <1>6, <1>9, <3>2
      <3>4. rank[j] = high \/ Less(high, rank[j])
        BY <1>8, <2>1, <3>2, LessTotal
      <3>5. Less(r, rank[j])
        BY <1>8, <1>9, <2>1, <3>3, <3>4, LessTransitive
      <3> QED
        BY <2>2, <3>5
    <2>3. CASE ~Less(low, rank[j])
      <3>1. after # NoItem /\ after \in Live /\ low = rank[after]
        BY <2>1, <2>3, EmptyIsLeast
      <3>2. rank[j] # low
        BY <1>10, <3>1 DEF RanksAreSound
      <3> HIDE DEF low
      <3>3. Less(rank[j], low)
        BY <1>3, <2>1, <2>3, <3>2, LessTotal
      <3>4. Less(rank[j], r)
        BY <1>3, <1>9, <2>1, <3>3, LessTransitive
      <3> QED
        BY <2>3, <3>4
    <2> QED
      BY <2>2, <2>3
  <1> QED
    BY <1>1, <1>9, <1>10

(* last_rank_in, and midpoint of what it finds: above all. *)
LEMMA AfterTheLastIs ==
    ASSUME ListTypes, RanksAreSound
    PROVE  LET r == AfterTheLast IN
           /\ r \in Rank /\ r # <<>> /\ EndsAboveZero(r)
           /\ \A j \in Live : Less(rank[j], r)
  <1> DEFINE all == {rank[j] : j \in Live}
             low == IF Live = {} THEN <<>> ELSE Highest(all)
             r == Midpoint(low, <<>>)
  <1>1. r = AfterTheLast
    BY DEF AfterTheLast
  <1>2. <<>> \in Rank
    BY DEF Rank
  <1>3. Live \in SUBSET Item
    BY DEF Live
  <1>4. IsFiniteSet(all) /\ all \subseteq Rank
    BY <1>3, RanksAreFinite
  <1>5. Live # {} => all # {}
    OBVIOUS
  <1>6. Live # {} => low \in all /\ \A q \in all : ~Less(low, q)
    <2> HIDE DEF all
    <2> QED
      BY <1>4, <1>5, HighestIs
  <1>7. low \in Rank
    <2> HIDE DEF all
    <2> QED
      BY <1>2, <1>4, <1>6
  <1>8. r \in Rank /\ r # <<>> /\ EndsAboveZero(r) /\ Less(low, r)
    <2>1. \A e \in Rank : e = <<>> =>
              LET x == Midpoint(low, e) IN
              x \in Rank /\ x # <<>> /\ EndsAboveZero(x) /\ Less(low, x)
      <3> HIDE DEF low
      <3> QED
        BY <1>7, ContentRankBetween
    <2> QED
      BY <1>2, <2>1
  <1> HIDE DEF r, low
  <1>9. ASSUME NEW j \in Live PROVE Less(rank[j], r)
    <2>1. rank[j] \in Rank /\ rank[j] \in all
      BY LiveIs
    <2>2. ~Less(low, rank[j])
      BY <1>6, <1>9, <2>1
    <2>3. rank[j] = low \/ Less(rank[j], low)
      BY <1>7, <2>1, <2>2, LessTotal
    <2> QED
      BY <1>7, <1>8, <2>1, <2>3, LessTransitive
  <1> QED
    BY <1>1, <1>8, <1>9

(* The rank that ChooseRank settles on. *)
Chosen(e) ==
    IF e.does = "create" /\ e.after = NoItem THEN AfterTheLast ELSE Between(e.item, e.after)

(* It is where the item shall go. *)
LEMMA ChosenLands ==
    ASSUME ListInv, NEW w \in Editor, editor[w].does \in {"create", "move"}, ~Refused(w)
    PROVE  LET e == editor[w] IN
           /\ Chosen(e) \in Rank /\ Chosen(e) # <<>> /\ EndsAboveZero(Chosen(e))
           /\ e.after \in Live \cup {NoItem} /\ Lands(e, Chosen(e))
  <1> DEFINE e == editor[w]
             r == Chosen(e)
  <1>1. ListTypes /\ RanksAreSound
    BY DEF ListInv
  <1>2. /\ e.item \in Item /\ e.after # e.item
        /\ e.does = "create" => rank[e.item] = <<>>
        /\ e.does = "move" => rank[e.item] # <<>>
    BY DEF ListInv, EditsOK
  <1>3. e.after \in Live \cup {NoItem}
    BY DEF Refused
  <1>4. NoItem \notin Live
    BY ListAssumption DEF Live
  <1>5. CASE e.does = "create" /\ e.after = NoItem
    <2>1. r = AfterTheLast
      BY <1>5 DEF Chosen
    <2>2. /\ r \in Rank /\ r # <<>> /\ EndsAboveZero(r)
          /\ \A j \in Live : Less(rank[j], r)
      BY <1>1, <2>1, AfterTheLastIs
    <2> HIDE DEF r, e
    <2>3. Lands(e, r)
      BY <1>2, <1>5, <2>2 DEF Lands, StaysBefore
    <2> QED
      BY <1>3, <2>2, <2>3 DEF r, e
  <1>6. CASE ~(e.does = "create" /\ e.after = NoItem)
    <2> DEFINE low == IF e.after = NoItem THEN <<>> ELSE rank[e.after]
    <2>1. r = Between(e.item, e.after)
      BY <1>6 DEF Chosen
    <2>2. /\ r \in Rank /\ r # <<>> /\ EndsAboveZero(r) /\ Less(low, r)
          /\ \A j \in Live \ {e.item, e.after} :
                 IF Less(low, rank[j]) THEN Less(r, rank[j]) ELSE Less(rank[j], r)
      <3> HIDE DEF e
      <3> QED
        BY <1>1, <1>2, <1>3, <2>1, BetweenIs
    <2>3. ASSUME NEW j \in Live \ {e.item}
          PROVE  IF StaysBefore(j, e) THEN Less(rank[j], r) ELSE Less(r, rank[j])
      <3> HIDE DEF r
      <3>1. rank[j] \in Rank /\ rank[j] # <<>>
        BY <1>1, <2>3, LiveIs
      <3>2. CASE e.after = NoItem
        <4>1. ~StaysBefore(j, e)
          BY <1>2, <1>6, <3>2 DEF StaysBefore
        <4>2. Less(low, rank[j])
          BY <3>1, <3>2, EmptyIsLeast
        <4>3. j \in Live \ {e.item, e.after}
          BY <1>4, <2>3, <3>2
        <4> HIDE DEF low
        <4> QED
          BY <2>2, <4>1, <4>2, <4>3
      <3>3. CASE e.after # NoItem /\ j = e.after
        BY <2>2, <3>3 DEF StaysBefore
      <3>4. CASE e.after # NoItem /\ j # e.after
        <4>1. low = rank[e.after] /\ e.after \in Live /\ low \in Rank
          BY <1>1, <1>3, <3>4, LiveIs
        <4>2. rank[j] # low
          BY <1>1, <2>3, <3>4, <4>1 DEF RanksAreSound
        <4>3. StaysBefore(j, e) <=> Less(rank[j], low)
          BY <3>4, <4>1 DEF StaysBefore
        <4> HIDE DEF low
        <4>4. Less(rank[j], low) \/ Less(low, rank[j])
          BY <3>1, <4>1, <4>2, LessTotal
        <4>5. ~(Less(rank[j], low) /\ Less(low, rank[j]))
          BY <3>1, <4>1, LessTransitive, LessIrreflexive
        <4>6. j \in Live \ {e.item, e.after}
          BY <2>3, <3>4
        <4> QED
          BY <2>2, <4>3, <4>4, <4>5, <4>6
      <3> QED
        BY <3>2, <3>3, <3>4
    <2>4. Lands(e, r)
      <3> HIDE DEF e, r
      <3> QED
        BY <2>3 DEF Lands
    <2> QED
      BY <1>3, <2>2, <2>4
  <1> QED
    BY <1>5, <1>6

(* What a step does to one request alone. *)
LEMMA EditsIs ==
    ASSUME ListInv, NEW w \in Editor, NEW e \in Edit, Edits(w, e)
    PROVE  /\ editor' \in [Editor -> Edit] /\ editor'[w] = e
           /\ \A o \in Editor \ {w} : editor'[o] = editor[o]
           /\ \A o \in Editor : editor[o] \in Edit
  BY DEF ListInv, ListTypes, Edits

(* A request that is over. *)
LEMMA NoEditIs ==
    NoEdit \in Edit /\ NoEdit.does = "nothing" /\ NoEdit.item = NoItem /\ NoItem \notin Item
  <1>1. <<>> \in Rank
    BY DEF Rank
  <1> QED
    BY <1>1, ListAssumption DEF NoEdit, Edit

(* What is there depends on the ranks and deleted_at alone. *)
LEMMA LiveUnchanged == UNCHANGED <<rank, removed>> => Live' = Live
  BY DEF Live

(* A request that begins. *)
LEMMA BeginKeeps ==
    ASSUME ListInv, NEW w \in Editor, NEW e \in Edit, Edits(w, e),
           editor[w] = NoEdit, e.does \in {"create", "move", "delete"},
           e.item \in Item, e.after # e.item,
           e.does = "create" => /\ rank[e.item] = <<>>
                                /\ \A o \in Editor : editor[o].item # e.item,
           e.does # "create" => rank[e.item] # <<>>,
           listWrites' \in 0..MaxListWrites,
           UNCHANGED <<rank, removed, shown, strayed>>
    PROVE  ListInv'
  <1>1. /\ editor' \in [Editor -> Edit] /\ editor'[w] = e
        /\ \A o \in Editor \ {w} : editor'[o] = editor[o]
    BY EditsIs
  <1>2. Live' = Live
    BY LiveUnchanged
  <1>3. ListTypes'
    BY <1>1 DEF ListInv, ListTypes
  <1>4. RanksAreSound' /\ ShownIsThereUnlessStrayed'
    BY <1>2 DEF ListInv, RanksAreSound, ShownIsThereUnlessStrayed
  <1>5. EditsOK'
    <2> SUFFICES ASSUME NEW v \in Editor
                 PROVE  /\ editor'[v].does # "nothing" =>
                               editor'[v].item \in Item /\ editor'[v].after # editor'[v].item
                        /\ editor'[v].does = "create" =>
                               /\ rank[editor'[v].item] = <<>>
                               /\ \A o \in Editor \ {v} : editor'[o].item # editor'[v].item
                        /\ editor'[v].does = "move" => rank[editor'[v].item] # <<>>
      BY DEF EditsOK
    <2>1. CASE v = w
      BY <1>1, <2>1
    <2>2. CASE v # w
      <3>1. editor'[v] = editor[v]
        BY <1>1, <2>2
      <3>2. editor[v].does = "create" => e.item # editor[v].item
        BY DEF ListInv, EditsOK
      <3> QED
        BY <1>1, <2>2, <3>1, <3>2 DEF ListInv, EditsOK
    <2> QED
      BY <2>1, <2>2
  <1>6. OneWriter'
    BY <1>1 DEF ListInv, OneWriter
  <1>7. WriterOK'
    <2> SUFFICES ASSUME NEW v \in Editor, editor'[v].does = "write"
                 PROVE  /\ editor'[v].to # <<>> /\ EndsAboveZero(editor'[v].to)
                        /\ editor'[v].after \in Live' \cup {NoItem}
                        /\ Lands(editor[v], editor[v].to)'
                        /\ editor'[v].item \in removed' => editor'[v].item \in strayed'
      BY DEF WriterOK
    <2>1. editor'[v] = editor[v]
      BY <1>1
    <2>2. Lands(editor[v], editor[v].to)
      BY <2>1 DEF ListInv, WriterOK
    <2>3. Lands(editor[v], editor[v].to)'
      BY <1>2, <2>1, <2>2 DEF Lands, StaysBefore
    <2> QED
      BY <1>2, <2>1, <2>3 DEF ListInv, WriterOK
  <1> QED
    BY <1>3, <1>4, <1>5, <1>6, <1>7 DEF ListInv

(* A request that ends and leaves the list as it is. *)
LEMMA EndKeeps ==
    ASSUME ListInv, NEW w \in Editor, Edits(w, NoEdit),
           UNCHANGED <<rank, removed, shown, listWrites, strayed>>
    PROVE  ListInv'
  <1>1. /\ editor' \in [Editor -> Edit] /\ editor'[w] = NoEdit
        /\ \A o \in Editor \ {w} : editor'[o] = editor[o]
    BY EditsIs, NoEditIs
  <1>2. Live' = Live
    BY LiveUnchanged
  <1>3. ListTypes'
    BY <1>1 DEF ListInv, ListTypes
  <1>4. RanksAreSound' /\ ShownIsThereUnlessStrayed'
    BY <1>2 DEF ListInv, RanksAreSound, ShownIsThereUnlessStrayed
  <1>5. EditsOK'
    BY <1>1, NoEditIs DEF ListInv, EditsOK
  <1>6. OneWriter'
    BY <1>1, NoEditIs DEF ListInv, OneWriter
  <1>7. WriterOK'
    <2> SUFFICES ASSUME NEW v \in Editor, editor'[v].does = "write"
                 PROVE  /\ editor'[v].to # <<>> /\ EndsAboveZero(editor'[v].to)
                        /\ editor'[v].after \in Live' \cup {NoItem}
                        /\ Lands(editor[v], editor[v].to)'
                        /\ editor'[v].item \in removed' => editor'[v].item \in strayed'
      BY DEF WriterOK
    <2>1. editor'[v] = editor[v]
      BY <1>1, NoEditIs
    <2>2. Lands(editor[v], editor[v].to)
      BY <2>1 DEF ListInv, WriterOK
    <2>3. Lands(editor[v], editor[v].to)'
      BY <1>2, <2>1, <2>2 DEF Lands, StaysBefore
    <2> QED
      BY <1>2, <2>1, <2>3 DEF ListInv, WriterOK
  <1> QED
    BY <1>3, <1>4, <1>5, <1>6, <1>7 DEF ListInv

(* create_item_in and move_item take the lock and choose a rank. *)
LEMMA ChooseKeeps == ASSUME ListInv, NEW w \in Editor, ChooseRank(w) PROVE ListInv'
  <1>1. CASE Refused(w)
    BY <1>1, EndKeeps DEF ChooseRank
  <1>2. CASE ~Refused(w)
    <2> DEFINE e == editor[w]
               f == [e EXCEPT !.does = "write", !.to = Chosen(e)]
    <2>1. /\ e.does \in {"create", "move"} /\ \A v \in Editor : editor[v].does # "write"
          /\ UNCHANGED <<rank, removed, shown, listWrites>>
          /\ strayed' = IF e.item \in removed THEN strayed \cup {e.item} ELSE strayed
          /\ Edits(w, f)
      BY <1>2 DEF ChooseRank, MayLockList, Chosen
    <2>2. /\ Chosen(e) \in Rank /\ Chosen(e) # <<>> /\ EndsAboveZero(Chosen(e))
          /\ e.after \in Live \cup {NoItem} /\ Lands(e, Chosen(e))
      BY <1>2, <2>1, ChosenLands
    <2>3. e \in Edit
      BY DEF ListInv, ListTypes
    <2>4. /\ f \in Edit /\ f.does = "write" /\ f.to = Chosen(e)
          /\ f.item = e.item /\ f.after = e.after
      <3> HIDE DEF e
      <3> QED
        BY <2>2, <2>3 DEF Edit
    <2>5. e.item \in Item /\ e.after # e.item
      BY <2>1 DEF ListInv, EditsOK
    <2> HIDE DEF f
    <2>6. /\ editor' \in [Editor -> Edit] /\ editor'[w] = f
          /\ \A o \in Editor \ {w} : editor'[o] = editor[o]
      BY <2>1, <2>4, EditsIs
    <2>7. Live' = Live
      BY <2>1, LiveUnchanged
    <2>8. ListTypes'
      BY <2>1, <2>5, <2>6 DEF ListInv, ListTypes
    <2>9. RanksAreSound'
      BY <2>1, <2>7 DEF ListInv, RanksAreSound
    <2>10. ShownIsThereUnlessStrayed'
      BY <2>1, <2>7 DEF ListInv, ShownIsThereUnlessStrayed
    <2>11. EditsOK'
      <3> SUFFICES ASSUME NEW v \in Editor
                   PROVE  /\ editor'[v].does # "nothing" =>
                                 editor'[v].item \in Item /\ editor'[v].after # editor'[v].item
                          /\ editor'[v].does = "create" =>
                                 /\ rank[editor'[v].item] = <<>>
                                 /\ \A o \in Editor \ {v} : editor'[o].item # editor'[v].item
                          /\ editor'[v].does = "move" => rank[editor'[v].item] # <<>>
        BY <2>1 DEF EditsOK
      <3>1. CASE v = w
        BY <2>4, <2>5, <2>6, <3>1
      <3>2. CASE v # w
        <4>1. editor'[v] = editor[v] /\ \A o \in Editor : editor'[o].item = editor[o].item
          BY <2>4, <2>6, <3>2
        <4> QED
          BY <4>1 DEF ListInv, EditsOK
      <3> QED
        BY <3>1, <3>2
    <2>12. OneWriter'
      BY <2>1, <2>6 DEF OneWriter
    <2>13. WriterOK'
      <3> SUFFICES ASSUME NEW v \in Editor, editor'[v].does = "write"
                   PROVE  /\ editor'[v].to # <<>> /\ EndsAboveZero(editor'[v].to)
                          /\ editor'[v].after \in Live' \cup {NoItem}
                          /\ Lands(editor[v], editor[v].to)'
                          /\ editor'[v].item \in removed' => editor'[v].item \in strayed'
        BY DEF WriterOK
      <3>1. v = w /\ editor'[v] = f
        BY <2>1, <2>6
      <3>2. Lands(f, Chosen(e))
        BY <2>2, <2>4 DEF Lands, StaysBefore
      <3>3. Lands(editor[v], editor[v].to)'
        BY <2>1, <2>4, <2>7, <3>1, <3>2 DEF Lands, StaysBefore
      <3> QED
        BY <2>1, <2>2, <2>4, <2>7, <3>1, <3>3
    <2> QED
      BY <2>8, <2>9, <2>10, <2>11, <2>12, <2>13 DEF ListInv
  <1> QED
    BY <1>1, <1>2

(* insert_item_in or move_item_in: the rank is another than those there, as *)
(* it is between them.                                                      *)
LEMMA WriteKeeps == ASSUME ListInv, NEW w \in Editor, WriteRank(w) PROVE ListInv'
  <1> DEFINE i == editor[w].item
             new == editor[w].to
  <1>1. /\ editor[w].does = "write" /\ rank' = [rank EXCEPT ![i] = new]
        /\ shown' = shown \cup {i} /\ Edits(w, NoEdit)
        /\ UNCHANGED <<removed, listWrites, strayed>>
    BY DEF WriteRank
  <1>2. i \in Item /\ new \in Rank
    <2>1. editor[w] \in Edit
      BY DEF ListInv, ListTypes
    <2> QED
      BY <1>1, <2>1 DEF Edit, ListInv, EditsOK
  <1>3. /\ new # <<>> /\ EndsAboveZero(new) /\ Lands(editor[w], new)
        /\ i \in removed => i \in strayed
    BY <1>1 DEF ListInv, WriterOK
  <1>4. /\ rank' \in [Item -> Rank] /\ rank'[i] = new
        /\ \A j \in Item \ {i} : rank'[j] = rank[j]
    BY <1>1, <1>2 DEF ListInv, ListTypes
  <1>5. /\ editor' \in [Editor -> Edit] /\ editor'[w] = NoEdit
        /\ \A o \in Editor \ {w} : editor'[o] = editor[o]
    BY <1>1, EditsIs, NoEditIs
  <1>6. \A j \in Live \ {i} : rank[j] # new
    <2> TAKE j \in Live \ {i}
    <2>1. Less(rank[j], new) \/ Less(new, rank[j])
      BY <1>3 DEF Lands
    <2> QED
      BY <1>2, <2>1, LessIrreflexive
  <1> HIDE DEF i, new
  <1>7. /\ Live' \subseteq Live \cup {i} /\ Live \subseteq Live'
        /\ i \notin removed => i \in Live'
    BY <1>1, <1>2, <1>3, <1>4 DEF Live
  <1>8. ListTypes'
    BY <1>1, <1>2, <1>4, <1>5 DEF ListInv, ListTypes
  <1>9. RanksAreSound'
    <2>1. \A j \in Live' : j \in Item /\ (j # i => j \in Live /\ rank'[j] = rank[j])
      BY <1>4, <1>7 DEF Live
    <2>2. ASSUME NEW j \in Live', NEW k \in Live', rank'[j] = rank'[k] PROVE j = k
      BY <1>4, <1>6, <2>1, <2>2 DEF ListInv, RanksAreSound
    <2>3. ASSUME NEW j \in Live' PROVE EndsAboveZero(rank'[j])
      BY <1>3, <1>4, <2>1, <2>3 DEF ListInv, RanksAreSound, EndsAboveZero
    <2> QED
      BY <2>2, <2>3 DEF RanksAreSound, EndsAboveZero
  <1>10. ShownIsThereUnlessStrayed'
    BY <1>1, <1>3, <1>7 DEF ListInv, ShownIsThereUnlessStrayed
  <1>11. EditsOK'
    <2> SUFFICES ASSUME NEW v \in Editor
                 PROVE  /\ editor'[v].does # "nothing" =>
                               editor'[v].item \in Item /\ editor'[v].after # editor'[v].item
                        /\ editor'[v].does = "create" =>
                               /\ rank'[editor'[v].item] = <<>>
                               /\ \A o \in Editor \ {v} : editor'[o].item # editor'[v].item
                        /\ editor'[v].does = "move" => rank'[editor'[v].item] # <<>>
      BY DEF EditsOK
    <2>1. CASE v = w
      BY <1>5, <2>1, NoEditIs
    <2>2. CASE v # w
      <3>1. editor'[v] = editor[v]
        BY <1>5, <2>2
      <3>2. /\ editor[v].does # "nothing" => editor[v].item \in Item /\ editor[v].after # editor[v].item
            /\ editor[v].does = "create" =>
                   /\ rank[editor[v].item] = <<>>
                   /\ \A o \in Editor \ {v} : editor[o].item # editor[v].item
            /\ editor[v].does = "move" => rank[editor[v].item] # <<>>
        BY DEF ListInv, EditsOK
      <3>3. editor[v].does = "create" => editor[v].item # i
        BY <2>2, <3>2 DEF i
      <3>4. editor[v].does = "create" => rank'[editor[v].item] = <<>>
        BY <1>4, <3>2, <3>3
      <3>5. editor[v].does = "move" => rank'[editor[v].item] # <<>>
        BY <1>3, <1>4, <3>2
      <3>6. editor[v].does = "create" => \A o \in Editor \ {v} : editor'[o].item # editor[v].item
        BY <1>5, <3>2, NoEditIs
      <3> QED
        BY <3>1, <3>2, <3>4, <3>5, <3>6
    <2> QED
      BY <2>1, <2>2
  <1>12. \A v \in Editor : editor'[v].does # "write"
    BY <1>1, <1>5, NoEditIs DEF ListInv, OneWriter
  <1>13. OneWriter' /\ WriterOK'
    BY <1>12 DEF OneWriter, WriterOK
  <1> QED
    BY <1>8, <1>9, <1>10, <1>11, <1>13 DEF ListInv

(* delete_item_in, while nobody writes a rank. *)
LEMMA DeleteKeeps == ASSUME ListInv, NEW w \in Editor, DeleteItem(w) PROVE ListInv'
  <1> DEFINE i == editor[w].item
  <1>1. /\ editor[w].does = "delete" /\ \A v \in Editor : editor[v].does # "write"
        /\ removed' = removed \cup {i} /\ Edits(w, NoEdit)
        /\ shown' = IF i \in removed THEN shown ELSE shown \ {i}
        /\ UNCHANGED <<rank, listWrites, strayed>>
    BY DEF DeleteItem, MayShareList, MayLockList
  <1>2. i \in Item
    BY <1>1 DEF ListInv, EditsOK
  <1>3. /\ editor' \in [Editor -> Edit] /\ editor'[w] = NoEdit
        /\ \A o \in Editor \ {w} : editor'[o] = editor[o]
    BY <1>1, EditsIs, NoEditIs
  <1> HIDE DEF i
  <1>4. Live' = Live \ {i} /\ (i \in removed => Live' = Live)
    BY <1>1 DEF Live
  <1>5. ListTypes'
    BY <1>1, <1>2, <1>3 DEF ListInv, ListTypes
  <1>6. RanksAreSound'
    BY <1>1, <1>4 DEF ListInv, RanksAreSound
  <1>7. ShownIsThereUnlessStrayed'
    BY <1>1, <1>4 DEF ListInv, ShownIsThereUnlessStrayed
  <1>8. EditsOK'
    BY <1>1, <1>3, NoEditIs DEF ListInv, EditsOK
  <1>9. \A v \in Editor : editor'[v].does # "write"
    BY <1>1, <1>3, NoEditIs
  <1>10. OneWriter' /\ WriterOK'
    BY <1>9 DEF OneWriter, WriterOK
  <1> QED
    BY <1>5, <1>6, <1>7, <1>8, <1>10 DEF ListInv

(* create_item, move_item and delete_item find what they are about. *)
LEMMA BeginsKeep ==
    ASSUME ListInv, NEW w \in Editor, NEW i \in Item, NEW after \in Item \cup {NoItem},
           BeginCreate(w, i, after) \/ BeginMove(w, i, after) \/ BeginDelete(w, i)
    PROVE  ListInv'
  <1> DEFINE C == [NoEdit EXCEPT !.does = "create", !.item = i, !.after = after]
             M == [NoEdit EXCEPT !.does = "move", !.item = i, !.after = after]
             D == [NoEdit EXCEPT !.does = "delete", !.item = i]
  <1>1. <<>> \in Rank
    BY DEF Rank
  <1>2. /\ C \in Edit /\ C.does = "create" /\ C.item = i /\ C.after = after
        /\ M \in Edit /\ M.does = "move" /\ M.item = i /\ M.after = after
        /\ D \in Edit /\ D.does = "delete" /\ D.item = i /\ D.after = NoItem
    BY <1>1 DEF NoEdit, Edit
  <1> HIDE DEF C, M, D
  <1>3. listWrites \in 0..MaxListWrites /\ MaxListWrites \in Nat
    BY ListAssumption DEF ListInv, ListTypes
  <1>4. CASE BeginCreate(w, i, after)
    <2>1. /\ editor[w] = NoEdit /\ rank[i] = <<>> /\ after # i
          /\ \A o \in Editor : editor[o].item # i
          /\ listWrites < MaxListWrites /\ listWrites' = listWrites + 1
          /\ Edits(w, C) /\ UNCHANGED <<rank, removed, shown, strayed>>
      BY <1>4 DEF BeginCreate, C
    <2>2. listWrites' \in 0..MaxListWrites
      BY <1>3, <2>1
    <2> QED
      BY <1>2, <2>1, <2>2, BeginKeeps
  <1>5. CASE BeginMove(w, i, after)
    <2>1. /\ editor[w] = NoEdit /\ rank[i] # <<>> /\ after # i
          /\ listWrites < MaxListWrites /\ listWrites' = listWrites + 1
          /\ Edits(w, M) /\ UNCHANGED <<rank, removed, shown, strayed>>
      BY <1>5 DEF BeginMove, M, Live
    <2>2. listWrites' \in 0..MaxListWrites
      BY <1>3, <2>1
    <2> QED
      BY <1>2, <2>1, <2>2, BeginKeeps
  <1>6. CASE BeginDelete(w, i)
    <2>1. /\ editor[w] = NoEdit /\ rank[i] # <<>> /\ NoItem # i
          /\ Edits(w, D) /\ UNCHANGED <<rank, removed, shown, listWrites, strayed>>
      BY <1>6, ListAssumption DEF BeginDelete, D, Live
    <2>2. listWrites' \in 0..MaxListWrites
      BY <1>3, <2>1
    <2> QED
      BY <1>2, <2>1, <2>2, BeginKeeps
  <1> QED
    BY <1>4, <1>5, <1>6

(* Every step keeps the invariant. *)
LEMMA ListInvStep == ListInv /\ [ListNext]_listVars => ListInv'
  <1> SUFFICES ASSUME ListInv, [ListNext]_listVars PROVE ListInv'
    OBVIOUS
  <1>1. CASE UNCHANGED listVars
    BY <1>1 DEF listVars, ListInv, ListTypes, RanksAreSound, ShownIsThereUnlessStrayed,
                EditsOK, OneWriter, WriterOK, Live, Lands, StaysBefore
  <1>2. CASE ListNext
    <2>1. PICK w \in Editor :
              \/ ChooseRank(w) \/ WriteRank(w) \/ EditFails(w) \/ DeleteItem(w)
              \/ \E i \in Item :
                     \/ BeginDelete(w, i)
                     \/ \E after \in Item \cup {NoItem} :
                            BeginCreate(w, i, after) \/ BeginMove(w, i, after)
      BY <1>2 DEF ListNext
    <2>2. CASE ChooseRank(w)
      BY <2>2, ChooseKeeps
    <2>3. CASE WriteRank(w)
      BY <2>3, WriteKeeps
    <2>4. CASE EditFails(w)
      BY <2>4, EndKeeps DEF EditFails
    <2>5. CASE DeleteItem(w)
      BY <2>5, DeleteKeeps
    <2>6. CASE \E i \in Item :
                   \/ BeginDelete(w, i)
                   \/ \E after \in Item \cup {NoItem} :
                          BeginCreate(w, i, after) \/ BeginMove(w, i, after)
      <3>1. NoItem \in Item \cup {NoItem}
        OBVIOUS
      <3> QED
        BY <2>6, <3>1, BeginsKeep
    <2> QED
      BY <2>1, <2>2, <2>3, <2>4, <2>5, <2>6
  <1> QED
    BY <1>1, <1>2

(* The invariant holds for any items, requests, digits and limits: one      *)
(* request at a time is between choosing a rank and writing it, and what it *)
(* chose still is where it should be (lock_in, share_lock_in).              *)
THEOREM ContentListInvariant == ListSpec => []ListInv
  <1> QED
    BY ListInvInit, ListInvStep, PTL DEF ListSpec

(* For any items, requests, digits and limits: no two items of a list have  *)
(* one rank, none ends in the lowest digit, so that there is always a rank  *)
(* between two, and a client shows what is there unless a move overtook the *)
(* deletion of its item (service.rs, repo.rs, rank.rs).                     *)
THEOREM ContentListSafety == ListSpec => []ListSafety
  <1> QED
    BY ContentListInvariant, ListInvSafe, PTL

(* Writing a rank puts the item exactly where it was asked to go and moves  *)
(* no other, though the neighbours were read in an earlier step: the lock   *)
(* on the list keeps every other writer, and every deletion, away.          *)
THEOREM ContentPlacedWhereAsked == ListSpec => PlacedWhereAsked
  <1> DEFINE P == \A w \in Editor : LET e == editor[w] IN
                      e.does = "write" /\ rank' # rank =>
                          /\ e.after \in Live \cup {NoItem} /\ Lands(e, rank'[e.item])
                          /\ \A j \in Item \ {e.item} : rank'[j] = rank[j]
  <1>1. ListInv /\ [ListNext]_listVars => [P]_listVars
    <2> SUFFICES ASSUME ListInv, [ListNext]_listVars,
                        NEW v \in Editor, editor[v].does = "write", rank' # rank
                 PROVE  /\ editor[v].after \in Live \cup {NoItem}
                        /\ Lands(editor[v], rank'[editor[v].item])
                        /\ \A j \in Item \ {editor[v].item} : rank'[j] = rank[j]
      OBVIOUS
    <2>1. \E w \in Editor : WriteRank(w)
      BY DEF ListNext, listVars, ChooseRank, EditFails, DeleteItem, BeginCreate, BeginMove,
             BeginDelete
    <2>2. WriteRank(v)
      BY <2>1 DEF WriteRank, ListInv, OneWriter
    <2>3. editor[v].item \in Item
      BY DEF ListInv, EditsOK
    <2>4. /\ rank'[editor[v].item] = editor[v].to
          /\ \A j \in Item \ {editor[v].item} : rank'[j] = rank[j]
      BY <2>2, <2>3 DEF WriteRank, ListInv, ListTypes
    <2> QED
      BY <2>4 DEF ListInv, WriterOK
  <1> QED
    BY <1>1, ContentListInvariant, PTL DEF ListSpec, PlacedWhereAsked
=============================================================================
