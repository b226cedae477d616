------------------------------ MODULE AppEvents ------------------------------
(***************************************************************************)
(* The events of one channel on their way to one app: the fan-out          *)
(* (app_events/consumer.rs), the HTTP senders (app_events/sender.rs), the  *)
(* app socket of the gateway (realtime app_socket.rs) and the sweep, over  *)
(* the rows of app_deliveries (app_events/repo.rs).                        *)
(*                                                                         *)
(* Only the head of a channel, its first row that is not settled, is sent. *)
(* A lease that has run out, a retry whose time has come and an hour that  *)
(* has passed are steps that time takes.  The purge of rows settled a day  *)
(* ago, long after any redelivery, is left out.                            *)
(***************************************************************************)
EXTENDS Naturals, Sequences, SequencesExt

CONSTANTS
    AppEvent,           \* events of the channel
    Poster,             \* HTTP sender replicas
    MaxSends,           \* bound: claims of one row
    MaxSwitches         \* bound: changes between request URL and socket mode

NoEvent == "none"

ASSUME AppEventAssumption ==
    MaxSends \in Nat \ {0} /\ MaxSwitches \in Nat /\ NoEvent \notin AppEvent

VARIABLES
    queue,              \* app_deliveries, by seq
    delivery,           \* each row's columns
    socketMode,         \* bot_apps.socket_mode
    failing,            \* bot_apps.failing_since
    post,               \* each poster: its next step and its event
    frames,             \* frames the app's sockets hold or have read and not acknowledged
    received,           \* history: events in the order the app first got them
    lapsed,             \* history: events whose lease ran out while they were being sent
    switches

appEventVars == <<queue, delivery, socketMode, failing, post, frames, received, lapsed,
                  switches>>

Unposted == [does |-> "wait", event |-> NoEvent]

AppEventInit ==
    /\ queue = <<>>
    /\ delivery = [e \in AppEvent |->
                     [state |-> "open", leased |-> FALSE, ready |-> TRUE, expired |-> FALSE,
                      attempts |-> 0]]
    /\ socketMode \in BOOLEAN /\ failing = FALSE
    /\ post = [p \in Poster |-> Unposted]
    /\ frames = {} /\ received = <<>> /\ lapsed = {} /\ switches = 0

InQueue == ToSet(queue)
Unsettled(e) == e \in InQueue /\ delivery[e].state = "open"

(* Mutant: any row that is not settled. *)
HeadsAll == {e \in InQueue : Unsettled(e)}

(* The CTE heads of claim_http and of deliver_once *)
Heads == {queue[i] : i \in {k \in DOMAIN queue :
             Unsettled(queue[k]) /\ \A n \in 1..(k - 1) : ~Unsettled(queue[n])}}

Claimable(e) ==
    /\ e \in Heads /\ ~delivery[e].expired /\ ~delivery[e].leased
    /\ delivery[e].attempts < MaxSends

Lease(e) == [delivery EXCEPT ![e].leased = TRUE, ![e].attempts = @ + 1]
Receive(e) == received' = IF e \in ToSet(received) THEN received ELSE Append(received, e)

(* delivered and ack: WHERE delivered_at IS NULL *)
MarkDelivered(e) ==
    IF delivery[e].state = "delivered" THEN delivery
    ELSE [delivery EXCEPT ![e].state = "delivered", ![e].leased = FALSE]
Recovers(e) == failing' = (failing /\ delivery[e].state = "delivered")

-----------------------------------------------------------------------------

(* enqueue, ON CONFLICT DO NOTHING *)
Queued(e) == IF e \in InQueue THEN queue ELSE Append(queue, e)

(* fan_out, for every delivery of the event by the stream *)
FanOut(e) ==
    /\ queue' = Queued(e)
    /\ UNCHANGED <<delivery, socketMode, failing, post, frames, received, lapsed, switches>>

(* claim_http *)
ClaimHttp(p, e) ==
    /\ post[p] = Unposted /\ ~socketMode
    /\ Claimable(e) /\ delivery[e].ready
    /\ delivery' = Lease(e)
    /\ post' = [post EXCEPT ![p] = [does |-> "post", event |-> e]]
    /\ UNCHANGED <<queue, socketMode, failing, frames, received, lapsed, switches>>

(* attempt: the app gets the request or does not, and the answer is good,  *)
(* bad or lost.                                                            *)
Attempt(p) ==
    LET e == post[p].event IN
    /\ post[p].does = "post"
    /\ \/ Receive(e) /\ post' = [post EXCEPT ![p].does = "delivered"]
       \/ Receive(e) /\ post' = [post EXCEPT ![p].does = "retry"]
       \/ UNCHANGED received /\ post' = [post EXCEPT ![p].does = "retry"]
    /\ UNCHANGED <<queue, delivery, socketMode, failing, frames, lapsed, switches>>

(* delivered *)
RecordDelivered(p) ==
    LET e == post[p].event IN
    /\ post[p].does = "delivered"
    /\ delivery' = MarkDelivered(e) /\ Recovers(e)
    /\ post' = [post EXCEPT ![p] = Unposted]
    /\ UNCHANGED <<queue, socketMode, frames, received, lapsed, switches>>

(* retry_later: WHERE delivered_at IS NULL; it takes the lease away, whose *)
(* ever it is.                                                             *)
RetryLater(p) ==
    LET e == post[p].event IN
    /\ post[p].does = "retry"
    /\ delivery' = IF delivery[e].state = "delivered" THEN delivery
                   ELSE [delivery EXCEPT ![e].leased = FALSE, ![e].ready = FALSE]
    /\ lapsed' = IF \E q \in Poster \ {p} : post[q].event = e THEN lapsed \cup {e} ELSE lapsed
    /\ post' = [post EXCEPT ![p] = Unposted]
    /\ UNCHANGED <<queue, socketMode, failing, frames, received, switches>>

(* The poster dies, or cannot record the outcome. *)
PosterDies(p) ==
    /\ post[p] # Unposted
    /\ post' = [post EXCEPT ![p] = Unposted]
    /\ UNCHANGED <<queue, delivery, socketMode, failing, frames, received, lapsed, switches>>

-----------------------------------------------------------------------------
(* deliver_once: the claim, and a frame if a socket of the app takes it. *)
DeliverOnce(e) ==
    /\ socketMode /\ Claimable(e)
    /\ delivery' = Lease(e)
    /\ frames' \in {frames, frames \cup {e}}
    /\ UNCHANGED <<queue, socketMode, failing, post, received, lapsed, switches>>

(* The app reads a frame, which it may not have done when its socket is    *)
(* lost ...                                                                *)
ReadFrame(e) ==
    /\ e \in frames
    /\ \/ Receive(e) /\ UNCHANGED frames
       \/ frames' = frames \ {e} /\ UNCHANGED received
    /\ UNCHANGED <<queue, delivery, socketMode, failing, post, lapsed, switches>>

(* ... and acknowledges it. *)
Ack(e) ==
    /\ e \in frames /\ e \in ToSet(received)
    /\ frames' = frames \ {e}
    /\ delivery' = MarkDelivered(e) /\ Recovers(e)
    /\ UNCHANGED <<queue, socketMode, post, received, lapsed, switches>>

-----------------------------------------------------------------------------
(* Time, the sweep and the app's settings. *)

LeaseEnds(e) ==
    /\ delivery[e].leased
    /\ delivery' = [delivery EXCEPT ![e].leased = FALSE]
    /\ lapsed' = IF e \in frames \/ \E p \in Poster : post[p].event = e
                 THEN lapsed \cup {e} ELSE lapsed
    /\ UNCHANGED <<queue, socketMode, failing, post, frames, received, switches>>

RetryComes(e) ==
    /\ ~delivery[e].ready
    /\ delivery' = [delivery EXCEPT ![e].ready = TRUE]
    /\ UNCHANGED <<queue, socketMode, failing, post, frames, received, lapsed, switches>>

HourPasses(e) ==
    /\ e \in InQueue /\ ~delivery[e].expired
    /\ delivery' = [delivery EXCEPT ![e].expired = TRUE]
    /\ UNCHANGED <<queue, socketMode, failing, post, frames, received, lapsed, switches>>

(* Mutant: a row is given up only if it was never claimed. *)
GivenUpUntried == {e \in InQueue : Unsettled(e) /\ delivery[e].expired
                      /\ delivery[e].attempts = 0}

(* give_up_on_expired, its WHERE *)
GivenUp == {e \in InQueue : Unsettled(e) /\ delivery[e].expired /\ ~delivery[e].leased}

(* sweep *)
Sweep ==
    /\ GivenUp # {}
    /\ delivery' = [e \in AppEvent |->
                      IF e \in GivenUp THEN [delivery[e] EXCEPT !.state = "failed"]
                      ELSE delivery[e]]
    /\ failing' = TRUE
    /\ UNCHANGED <<queue, socketMode, post, frames, received, lapsed, switches>>

SwitchMode ==
    /\ switches < MaxSwitches /\ switches' = switches + 1
    /\ socketMode' = ~socketMode
    /\ UNCHANGED <<queue, delivery, failing, post, frames, received, lapsed>>

PostStep(p) ==
    Attempt(p) \/ RecordDelivered(p) \/ RetryLater(p) \/ \E e \in AppEvent : ClaimHttp(p, e)

AppEventNext ==
    \/ Sweep \/ SwitchMode
    \/ \E p \in Poster : PostStep(p) \/ PosterDies(p)
    \/ \E e \in AppEvent :
        \/ FanOut(e) \/ DeliverOnce(e) \/ ReadFrame(e) \/ Ack(e)
        \/ LeaseEnds(e) \/ RetryComes(e) \/ HourPasses(e)

(* start_sender sweeps every ten seconds, for ever, and time passes. *)
AppEventFairness ==
    /\ WF_appEventVars(Sweep)
    /\ \A e \in AppEvent : WF_appEventVars(LeaseEnds(e)) /\ WF_appEventVars(HourPasses(e))

-----------------------------------------------------------------------------
(* Every variable stays in its domain, and no event is queued twice. *)
AppEventTypeOK ==
    /\ IsInjective(queue) /\ InQueue \subseteq AppEvent
    /\ delivery \in [AppEvent -> [state : {"open", "delivered", "failed"}, leased : BOOLEAN,
                                  ready : BOOLEAN, expired : BOOLEAN,
                                  attempts : 0..MaxSends]]
    /\ post \in [Poster -> [does : {"wait", "post", "delivered", "retry"},
                            event : AppEvent \cup {NoEvent}]]
    /\ frames \subseteq AppEvent /\ ToSet(received) \subseteq AppEvent
    /\ lapsed \subseteq AppEvent /\ {socketMode, failing} \subseteq BOOLEAN
    /\ switches \in 0..MaxSwitches

(* The app first gets the events of a channel in the order they were       *)
(* queued, through retries, crashes and changes of the mode, except an     *)
(* event whose lease ran out under the send (claim_http, deliver_once).    *)
InOrderUnlessLapsed ==
    \A i, k \in DOMAIN received :
        i < k /\ received[k] \notin lapsed =>
            \E a, b \in DOMAIN queue :
                a < b /\ queue[a] = received[i] /\ queue[b] = received[k]

(* What reads as delivered was received: a lost answer, a dead socket or a *)
(* full one never settles a row as delivered (send_one, ack).              *)
DeliveredIsReceived ==
    \A e \in AppEvent : delivery[e].state = "delivered" => e \in ToSet(received)

(* No event stands in the way of the ones behind it for ever: a queued one *)
(* is delivered or given up in the end, though nothing takes it.           *)
QueuedIsSettled == \A e \in AppEvent : e \in InQueue ~> delivery[e].state # "open"

(* An app receives its events in order, and what is marked as delivered    *)
(* was received.                                                           *)
AppEventSafety == AppEventTypeOK /\ InOrderUnlessLapsed /\ DeliveredIsReceived
=============================================================================
