----------------------------- MODULE ResumeCursor ----------------------------
(***************************************************************************)
(* How one client keeps up with one workspace: the publisher's XADD and    *)
(* PUBLISH (publisher.rs emit), the gateway's live fan-out                 *)
(* (event_consumer.rs), the subscribe frame and the replay of a gap        *)
(* (ws_handler.rs, replay.rs), and the browser's position bookkeeping      *)
(* (frontend/src/lib/ws.ts).                                               *)
(*                                                                         *)
(* Stream ids are 1, 2, ... in XADD order; 0 is "no position".  The live   *)
(* channel delivers in PUBLISH order.  A connection's frames reach the     *)
(* client in the order they were queued, until the socket is lost.         *)
(*                                                                         *)
(* `excuses` records the circumstances under which the overlap of replay   *)
(* and live tail is not seamless: the properties say that outside them the *)
(* client misses nothing and applies nothing twice.                        *)
(***************************************************************************)
EXTENDS Integers, FiniteSets, Sequences

CONSTANTS
    Publisher,      \* tasks that may be inside emit at the same time
    Ring,           \* ids of huddle.ring events, which are not replayed
    ReplayMax,      \* REPLAY_MAX_EVENTS
    MaxId,          \* bound: events published
    MaxLost,        \* bound: sockets lost
    MaxTrims,       \* bound: passes of the stream trimmer
    MaxOutages      \* bound: restarts of the gateway's event consumer

ASSUME ReplayAssumption == ReplayMax \in Nat /\ Ring \subseteq Nat
ASSUME BoundAssumption ==
    /\ MaxId \in Nat /\ MaxLost \in Nat /\ MaxTrims \in Nat /\ MaxOutages \in Nat

VARIABLES
    last, log,      \* newest stream id; ids still in the stream
    held,           \* each publisher: the id it appended and has yet to publish
    consuming, bus, \* the gateway's pub/sub connection and what waits in it
    gw, resume, backlog, replayed,  \* the connection's handler in the gateway
    out,            \* frames queued for the socket
    cursor,         \* lastEventId of the client
    applied,        \* how often the client applied each event
    fetched,        \* events the client has from a page load or a refetch
    loaded,         \* the page has loaded
    excuses,
    lost, trims, outages

streamVars == <<last, log, held>>
busVars    == <<consuming, bus>>
gwVars     == <<gw, resume, backlog, replayed>>
browserVars == <<cursor, applied, fetched, loaded>>
countVars  == <<lost, trims, outages>>
vars == <<last, log, held, consuming, bus, gw, resume, backlog, replayed, out,
          cursor, applied, fetched, loaded, excuses, lost, trims, outages>>

Id == 1..MaxId
Excuse == {"reordered", "overlap", "emptied", "trimmed", "outage", "unpositioned"}

Event(i) == [kind |-> "event", id |-> i]
SyncComplete(i) == [kind |-> "sync", id |-> i]
RefetchRequired == [kind |-> "refetch", id |-> 0]

Init ==
    /\ last = 0 /\ log = {}
    /\ held = [p \in Publisher |-> 0]
    /\ consuming = TRUE /\ bus = <<>>
    /\ gw = "off" /\ resume = 0 /\ backlog = {} /\ replayed = 0
    /\ out = <<>>
    /\ cursor = 0
    /\ applied = [i \in Id |-> 0]
    /\ fetched = {} /\ loaded = FALSE
    /\ excuses = {}
    /\ lost = 0 /\ trims = 0 /\ outages = 0

Excused(why, cond) == excuses' = excuses \cup {w \in {why} : cond}

-----------------------------------------------------------------------------
(* emit: two calls, other publishers in between. *)

XAdd(p) ==
    /\ held[p] = 0 /\ last < MaxId
    /\ last' = last + 1
    /\ log' = log \cup {last + 1}
    /\ held' = [held EXCEPT ![p] = last + 1]
    /\ UNCHANGED <<busVars, gwVars, out, browserVars, excuses, countVars>>

Overtakes(p) == \E p2 \in Publisher : held[p2] \in 1 .. held[p] - 1

Publish(p) ==
    /\ held[p] # 0
    /\ bus' = IF consuming THEN Append(bus, held[p]) ELSE bus
    /\ Excused("reordered", Overtakes(p))
    /\ held' = [held EXCEPT ![p] = 0]
    /\ UNCHANGED <<last, log, consuming, gwVars, out, browserVars, countVars>>

(* stream_trim.rs: the oldest entries go, possibly all of them. *)
Trim ==
    /\ trims < MaxTrims
    /\ \E oldest \in log :
        /\ log' = {i \in log : i > oldest}
        /\ Excused("trimmed", gw = "probed" /\ oldest > resume)
    /\ trims' = trims + 1
    /\ UNCHANGED <<last, held, busVars, gwVars, out, browserVars, lost, outages>>

-----------------------------------------------------------------------------
(* The gateway *)

(* Mutant: a connection is left out of the fan-out until its replay ends. *)
FanOutWhenLive ==
    /\ bus # <<>>
    /\ bus' = Tail(bus)
    /\ out' = IF gw = "live" THEN Append(out, Event(Head(bus))) ELSE out
    /\ UNCHANGED <<streamVars, consuming, gwVars, browserVars, excuses, countVars>>

(* handle_event_for(Audience::Everyone): to every connection in the channel. *)
FanOut ==
    /\ bus # <<>>
    /\ bus' = Tail(bus)
    /\ IF gw \in {"off", "fresh"}
       THEN UNCHANGED <<out, excuses>>
       ELSE /\ out' = Append(out, Event(Head(bus)))
            /\ Excused("overlap", gw # "live")
    /\ UNCHANGED <<streamVars, consuming, gwVars, browserVars, countVars>>

(* start_event_consumer returns and is restarted; connections stay up. *)
ConsumerEnds ==
    /\ consuming /\ outages < MaxOutages
    /\ consuming' = FALSE /\ bus' = <<>>
    /\ outages' = outages + 1
    /\ Excused("outage", TRUE)
    /\ UNCHANGED <<streamVars, gwVars, out, browserVars, lost, trims>>

ConsumerRestarts ==
    /\ ~consuming
    /\ consuming' = TRUE
    /\ UNCHANGED <<streamVars, bus, gwVars, out, browserVars, excuses, countVars>>

(* The browser's onopen sends channel.join and then subscribe. *)
DoConnect ==
    /\ gw = "off"
    /\ gw' = "fresh" /\ resume' = cursor
    /\ UNCHANGED <<streamVars, busVars, backlog, replayed, out, browserVars, excuses, countVars>>

JoinChannels ==
    /\ gw = "fresh"
    /\ gw' = "joined"
    /\ UNCHANGED <<streamVars, busVars, resume, backlog, replayed, out, browserVars, excuses, countVars>>

Newest == IF log = {} THEN 0 ELSE CHOOSE i \in log : \A j \in log : j <= i

(* A page that loaded before the tail was read, and has no position, has   *)
(* no way to learn of what was appended in between.                        *)
LoadedTooEarly == loaded /\ ~(1..last \subseteq fetched)

(* subscribe without a position reads the current tail; an error reads as  *)
(* no tail.                                                                *)
ReadTail ==
    /\ gw = "joined" /\ resume = 0
    /\ replayed' \in {Newest, 0}
    /\ gw' = "tail"
    /\ Excused("unpositioned", LoadedTooEarly)
    /\ UNCHANGED <<streamVars, busVars, resume, backlog, out, browserVars, countVars>>

Refuse ==
    /\ out' = Append(out, RefetchRequired)
    /\ gw' = "live"
    /\ UNCHANGED <<backlog, replayed, excuses>>

(* replay_workspace: is the position older than the oldest entry? *)
Probe ==
    /\ gw = "joined" /\ resume # 0
    /\ \/ /\ log # {} /\ \A i \in log : resume < i
          /\ Refuse
       \/ /\ ~(log # {} /\ \A i \in log : resume < i)
          /\ gw' = "probed"
          /\ Excused("emptied", log = {} /\ resume < last)
          /\ UNCHANGED <<backlog, replayed, out>>
    /\ UNCHANGED <<streamVars, busVars, resume, browserVars, countVars>>

Missed == {i \in log : i > resume}

ReadBacklog ==
    /\ gw = "probed"
    /\ IF Cardinality(Missed) > ReplayMax
       THEN Refuse
       ELSE /\ backlog' = Missed
            /\ replayed' = 0
            /\ gw' = "sending"
            /\ UNCHANGED <<out, excuses>>
    /\ UNCHANGED <<streamVars, busVars, resume, browserVars, countVars>>

(* Either XRANGE fails. *)
ReplayError ==
    /\ gw \in {"joined", "probed"} /\ resume # 0
    /\ Refuse
    /\ UNCHANGED <<streamVars, busVars, resume, browserVars, countVars>>

(* In the order of the stream. *)
ReplayOne ==
    \E i \in backlog :
        /\ gw = "sending" /\ \A j \in backlog : i <= j
        /\ out' = IF i \in Ring THEN out ELSE Append(out, Event(i))
        /\ replayed' = i
        /\ backlog' = backlog \ {i}
        /\ UNCHANGED <<streamVars, busVars, gw, resume, browserVars, excuses, countVars>>

(* The answer to subscribe, with the tail or the last replayed position. *)
ReplayDone ==
    /\ gw \in {"tail", "sending"} /\ backlog = {}
    /\ out' = Append(out, SyncComplete(replayed))
    /\ gw' = "live"
    /\ UNCHANGED <<streamVars, busVars, resume, backlog, replayed, browserVars, excuses, countVars>>

(* The socket dies, with whatever was queued for it. *)
Drop ==
    /\ gw # "off" /\ lost < MaxLost
    /\ gw' = "off" /\ out' = <<>> /\ backlog' = {}
    /\ lost' = lost + 1
    /\ UNCHANGED <<streamVars, busVars, resume, replayed, browserVars, excuses, trims, outages>>

-----------------------------------------------------------------------------
(* The browser *)

(* The views are fetched over HTTP, before or after the socket is up. *)
LoadPage ==
    /\ ~loaded
    /\ loaded' = TRUE /\ fetched' = 1..last
    /\ UNCHANGED <<streamVars, busVars, gwVars, out, cursor, applied, excuses, countVars>>

(* dispatch *)

ReceiveEvent ==
    /\ out # <<>> /\ Head(out).kind = "event"
    /\ LET i == Head(out).id
       IN  IF cursor # 0 /\ i <= cursor
           THEN UNCHANGED <<cursor, applied>>
           ELSE /\ cursor' = i
                /\ applied' = [applied EXCEPT ![i] = @ + 1]
    /\ UNCHANGED <<fetched, loaded>>

ReceiveSync ==
    /\ out # <<>> /\ Head(out).kind = "sync"
    /\ cursor' = IF Head(out).id # 0 THEN Head(out).id ELSE cursor
    /\ UNCHANGED <<applied, fetched, loaded>>

(* Mutant: sync.refetch_required has no listener. *)
ReceiveRefetchUnheard ==
    /\ out # <<>> /\ Head(out).kind = "refetch"
    /\ UNCHANGED <<cursor, applied, fetched, loaded>>

ReceiveRefetch ==
    /\ out # <<>> /\ Head(out).kind = "refetch"
    /\ fetched' = 1..last
    /\ UNCHANGED <<cursor, applied, loaded>>

Receive ==
    /\ ReceiveEvent \/ ReceiveSync \/ ReceiveRefetch
    /\ out' = Tail(out)
    /\ UNCHANGED <<streamVars, busVars, gwVars, excuses, countVars>>

Gateway ==
    \/ FanOut \/ ConsumerRestarts
    \/ JoinChannels \/ ReadTail \/ Probe \/ ReadBacklog \/ ReplayError
    \/ ReplayOne \/ ReplayDone

Next ==
    \/ \E p \in Publisher : XAdd(p) \/ Publish(p)
    \/ Gateway \/ DoConnect \/ LoadPage \/ Receive
    \/ Trim \/ ConsumerEnds \/ Drop

(* Every task keeps running and a browser that lost its socket reconnects. *)
Fairness ==
    /\ \A p \in Publisher : WF_vars(Publish(p))
    /\ WF_vars(FanOut) /\ WF_vars(ConsumerRestarts)
    /\ WF_vars(JoinChannels \/ ReadTail \/ Probe \/ ReadBacklog
               \/ ReplayOne \/ ReplayDone)
    /\ WF_vars(DoConnect) /\ WF_vars(LoadPage) /\ WF_vars(Receive)

Safe == Init /\ [][Next]_vars

Spec == Safe /\ Fairness

-----------------------------------------------------------------------------
(* Properties *)

(* Every variable stays in its domain. *)
TypeOK ==
    /\ last \in 0..MaxId /\ log \subseteq 1..last
    /\ held \in [Publisher -> 0..MaxId]
    /\ bus \in Seq(Id) /\ consuming \in BOOLEAN
    /\ gw \in {"off", "fresh", "joined", "tail", "probed", "sending", "live"}
    /\ resume \in 0..MaxId /\ backlog \subseteq Id /\ replayed \in 0..MaxId
    /\ out \in Seq([kind : {"event", "sync", "refetch"}, id : 0..MaxId])
    /\ cursor \in 0..last
    /\ applied \in [Id -> Nat] /\ fetched \subseteq Id /\ loaded \in BOOLEAN
    /\ excuses \subseteq Excuse

Has(i) == applied[i] > 0 \/ i \in fetched \/ i \in Ring

(* lastEventId is "the last position this client has processed" (ws.ts):   *)
(* everything up to it was applied or fetched.                             *)
CursorMeansProcessed == loaded => \A i \in 1..cursor : Has(i)

(* "two of them increment ... and those would double.  Anything at or      *)
(* behind the position already processed is dropped here" (ws.ts).         *)
AppliedOnce == \A i \in Id : applied[i] <= 1

(* Nothing is on its way to the client. *)
Quiet == gw = "live" /\ bus = <<>> /\ out = <<>> /\ \A p \in Publisher : held[p] = 0

(* "the replay simply overlaps the tail and the client discards what it    *)
(* has already applied" (publisher.rs): and nothing else.                  *)
OverlapIsHarmless == Quiet /\ excuses \subseteq {"overlap"} => CursorMeansProcessed

(* Replay joins the live tail without a gap in the client's position,      *)
(* through any number of drops, refetches and refused replays, unless one  *)
(* of the recorded circumstances arose.                                    *)
NoGapUnlessExcused == excuses = {} => CursorMeansProcessed

(* ... and without applying an event a second time. *)
OnceUnlessExcused == excuses = {} => AppliedOnce

(* A replay that answers sync.complete covers the whole gap: nothing after *)
(* the client's position has been trimmed away ("say so rather than        *)
(* silently delivering a partial backlog", replay.rs), outside the stream  *)
(* that was emptied and the trim that falls between the two XRANGEs.       *)
TrimmedGapIsReportedUnlessExcused ==
    [][gw = "probed" /\ gw' = "sending" /\ excuses \cap {"emptied", "trimmed"} = {}
        => \A i \in resume + 1 .. last : i \in log]_vars

(* Once publishing and drops end, the client has every event. *)
EventuallyCaughtUp == <>[](excuses # {} \/ \A i \in 1..last : Has(i))

(* Outside the recorded circumstances the browser's position means that    *)
(* everything up to it was processed, and nothing was processed twice.     *)
ResumeSafety == TypeOK /\ NoGapUnlessExcused /\ OnceUnlessExcused

(* A replay that cannot cover the gap says so, and with replays, refetches *)
(* and live events the browser comes to have every event.                  *)
CatchesUp == TrimmedGapIsReportedUnlessExcused /\ EventuallyCaughtUp
=============================================================================
