------------------------------- MODULE CallLog -------------------------------
(***************************************************************************)
(* The call log of one huddle: the workers of the group "huddle"           *)
(* (huddle/consumer.rs) write the stream's joins and leaves into           *)
(* huddle_participants and end the session when nobody is left             *)
(* (huddle/repo.rs).  An entry is acknowledged however its handling went.  *)
(*                                                                         *)
(* The entries are those Huddle publishes: each user's joins and leaves    *)
(* alternate.  Delivery is StreamGroup's: in order the first time, and     *)
(* again to anybody while it is not acknowledged.                          *)
(***************************************************************************)
EXTENDS Naturals, Sequences

CONSTANTS
    Caller,             \* users
    Scribe,             \* worker replicas
    MaxEntries,         \* bound: joins and leaves
    MaxBatch,           \* entries of one read
    MaxLogFaults        \* bound: failed writes, crashes and reclaimed entries

ASSUME CallLogAssumption ==
    MaxEntries \in Nat /\ MaxBatch \in Nat \ {0} /\ MaxLogFaults \in Nat

VARIABLES
    calls,              \* the stream: who joined or left, in order
    cursor,               \* entries delivered for the first time
    acked,              \* entries acknowledged
    scribe,             \* each worker: its entries and its step with the first of them
    participant,        \* huddle_participants: "none", "in" or "out"
    session,            \* huddle_sessions.ended_at
    endings,            \* history: huddle.ended events
    written,            \* history: the last entry written of each user
    disordered,         \* history: users an older entry was written after a newer one for
    unwritten,          \* history: users a write failed for
    joinRaced,              \* history: a join was written between the count and the end
    logFaults

callVars == <<calls, cursor, acked, scribe, participant, session, endings, written,
              disordered, unwritten, joinRaced, logFaults>>

Resting == [does |-> "read", batch |-> <<>>]

CallInit ==
    /\ calls = <<>> /\ cursor = 1 /\ acked = {}
    /\ scribe = [w \in Scribe |-> Resting]
    /\ participant = [u \in Caller |-> "none"]
    /\ session = "open" /\ endings = 0
    /\ written = [u \in Caller |-> 0]
    /\ disordered = {} /\ unwritten = {} /\ joinRaced = FALSE /\ logFaults = 0

LogFault == logFaults < MaxLogFaults /\ logFaults' = logFaults + 1
Entries(u) == {i \in DOMAIN calls : calls[i].user = u}
InCall(u) == \E i \in Entries(u) : calls[i].joins /\ \A k \in Entries(u) : k <= i
AllLeft == calls # <<>> /\ \A u \in Caller : ~InCall(u)

Does(w, step) == scribe' = [scribe EXCEPT ![w].does = step]
Entry(w) == Head(scribe[w].batch)

(* What is remembered of a write: whether it came in order. *)
Writes(w) ==
    LET i == Entry(w)  u == calls[i].user IN
    /\ written' = [written EXCEPT ![u] = i]
    /\ disordered' = IF written[u] > i THEN disordered \cup {u} ELSE disordered

-----------------------------------------------------------------------------
(* Somebody joins or leaves (publish_huddle).  A huddle whose session has  *)
(* ended cannot be joined (may_join_huddle).                               *)
TellCall(u) ==
    /\ Len(calls) < MaxEntries
    /\ InCall(u) \/ session = "open"
    /\ calls' = Append(calls, [user |-> u, joins |-> ~InCall(u)])
    /\ UNCHANGED <<cursor, acked, scribe, participant, session, endings, written, disordered,
                   unwritten, joinRaced, logFaults>>

(* next_batch: new entries, in order *)
ReadBatch(w) ==
    /\ scribe[w] = Resting
    /\ \E n \in 1..MaxBatch :
        /\ cursor + n - 1 <= Len(calls)
        /\ scribe' = [scribe EXCEPT ![w] = [does |-> "handle",
                                            batch |-> [i \in 1..n |-> cursor + i - 1]]]
        /\ cursor' = cursor + n
    /\ UNCHANGED <<calls, acked, participant, session, endings, written, disordered,
                   unwritten, joinRaced, logFaults>>

(* next_batch: an entry whose worker is dead, or slower than the idle time *)
Reclaim(w) ==
    /\ scribe[w] = Resting
    /\ \E i \in 1..(cursor - 1) :
        /\ i \notin acked
        /\ \/ UNCHANGED logFaults /\ \A v \in Scribe : \A k \in DOMAIN scribe[v].batch :
                                        scribe[v].batch[k] # i
           \/ LogFault
        /\ scribe' = [scribe EXCEPT ![w] = [does |-> "handle", batch |-> <<i>>]]
    /\ UNCHANGED <<calls, cursor, acked, participant, session, endings, written, disordered,
                   unwritten, joinRaced>>

(* Mutant: the row that is there is left alone. *)
JoinedFirst(u) == IF participant[u] = "none" THEN "in" ELSE participant[u]

(* record_join: ON CONFLICT DO UPDATE SET left_at = NULL *)
Joined(u) == "in"

(* handle: a join *)
RecordJoin(w) ==
    LET u == calls[Entry(w)].user IN
    /\ scribe[w].does = "handle" /\ calls[Entry(w)].joins
    /\ \/ /\ participant' = [participant EXCEPT ![u] = Joined(u)]
          /\ Writes(w)
          /\ joinRaced' = (joinRaced \/ session = "ended" \/ \E v \in Scribe : scribe[v].does = "end")
          /\ UNCHANGED <<unwritten, logFaults>>
       \/ /\ LogFault /\ unwritten' = unwritten \cup {u}
          /\ UNCHANGED <<participant, written, disordered, joinRaced>>
    /\ Does(w, "ack")
    /\ UNCHANGED <<calls, cursor, acked, session, endings>>

(* handle: a leave, the update of record_leave *)
RecordLeave(w) ==
    LET u == calls[Entry(w)].user IN
    /\ scribe[w].does = "handle" /\ ~calls[Entry(w)].joins
    /\ \/ /\ participant' = [participant EXCEPT ![u] = IF @ = "in" THEN "out" ELSE @]
          /\ Writes(w) /\ Does(w, "count")
          /\ UNCHANGED <<unwritten, logFaults>>
       \/ /\ LogFault /\ unwritten' = unwritten \cup {u} /\ Does(w, "ack")
          /\ UNCHANGED <<participant, written, disordered>>
    /\ UNCHANGED <<calls, cursor, acked, session, endings, joinRaced>>

(* record_leave, its count *)
NobodyLeft == \A u \in Caller : participant[u] # "in"

CountLeft(w) ==
    /\ scribe[w].does = "count"
    /\ Does(w, IF NobodyLeft THEN "end" ELSE "ack")
    /\ UNCHANGED <<calls, cursor, acked, participant, session, endings, written, disordered,
                   unwritten, joinRaced, logFaults>>

(* end_session, its WHERE *)
MayEnd == session = "open"

(* end_session, and huddle.ended for the one whose update it was *)
EndSession(w) ==
    /\ scribe[w].does = "end"
    /\ \/ /\ session' = "ended" /\ endings' = IF MayEnd THEN endings + 1 ELSE endings
          /\ UNCHANGED <<unwritten, logFaults>>
       \/ /\ LogFault /\ unwritten' = Caller /\ UNCHANGED <<session, endings>>
    /\ Does(w, "ack")
    /\ UNCHANGED <<calls, cursor, acked, participant, written, disordered, joinRaced>>

AckEntry(w) ==
    /\ scribe[w].does = "ack"
    /\ acked' = acked \cup {Entry(w)}
    /\ scribe' = [scribe EXCEPT ![w] =
                    IF Len(@.batch) = 1 THEN Resting
                    ELSE [does |-> "handle", batch |-> Tail(@.batch)]]
    /\ UNCHANGED <<calls, cursor, participant, session, endings, written, disordered, unwritten,
                   joinRaced, logFaults>>

ScribeDies(w) ==
    /\ scribe[w] # Resting /\ LogFault
    /\ scribe' = [scribe EXCEPT ![w] = Resting]
    /\ UNCHANGED <<calls, cursor, acked, participant, session, endings, written, disordered,
                   unwritten, joinRaced>>

ScribeStep(w) ==
    \/ ReadBatch(w) \/ RecordJoin(w) \/ RecordLeave(w) \/ CountLeft(w)
    \/ EndSession(w) \/ AckEntry(w)

CallNext ==
    \/ \E u \in Caller : TellCall(u)
    \/ \E w \in Scribe : ScribeStep(w) \/ Reclaim(w) \/ ScribeDies(w)

(* start_consumer loops for ever, reads what is new and takes over what is *)
(* left.                                                                   *)
CallFairness == \A w \in Scribe : WF_callVars(ScribeStep(w)) /\ WF_callVars(Reclaim(w))

-----------------------------------------------------------------------------
(* Every variable stays in its domain. *)
CallTypeOK ==
    /\ calls \in Seq([user : Caller, joins : BOOLEAN]) /\ cursor \in 1..(MaxEntries + 1)
    /\ acked \subseteq 1..MaxEntries
    /\ scribe \in [Scribe -> [does : {"read", "handle", "count", "end", "ack"},
                              batch : Seq(1..MaxEntries)]]
    /\ \A w \in Scribe : scribe[w].does = "read" <=> scribe[w].batch = <<>>
    /\ participant \in [Caller -> {"none", "in", "out"}]
    /\ session \in {"open", "ended"} /\ endings \in Nat
    /\ written \in [Caller -> 0..MaxEntries]
    /\ disordered \subseteq Caller /\ unwritten \subseteq Caller /\ joinRaced \in BOOLEAN
    /\ logFaults \in 0..MaxLogFaults

(* "A redelivery is a no-op rather than a second row": once everything is  *)
(* acknowledged the log says who is in the call, except of users whose     *)
(* entries were written out of order or not at all (consumer.rs handle).   *)
LogIsRight ==
    1..Len(calls) \subseteq acked /\ (\A w \in Scribe : scribe[w] = Resting) =>
        \A u \in Caller \ (disordered \cup unwritten) :
            participant[u] = "in" <=> InCall(u)

(* "Two replicas racing on the last participant still end it once": one    *)
(* huddle.ended for a session (end_session).                               *)
EndedOnce == endings <= 1

(* A session that has ended has nobody in it, unless a join was written    *)
(* between the count and the end, or after it.                             *)
EndedIsEmpty ==
    session = "ended" => joinRaced \/ \A u \in Caller : participant[u] # "in"

(* When everyone has left, the session ends, though workers die in the     *)
(* middle of the last leave, unless writes failed or came out of order.    *)
LeftIsEnded ==
    AllLeft ~> session = "ended" \/ ~AllLeft \/ disordered # {} \/ unwritten # {}

(* The log of a call agrees with who was in it, and a call ends once and   *)
(* empty.                                                                  *)
CallLogSafety == CallTypeOK /\ LogIsRight /\ EndedOnce /\ EndedIsEmpty
=============================================================================
