----------------------------- MODULE AtLeastOnce -----------------------------
(***************************************************************************)
(* What the transactional outbox promises the rest of the system, with no  *)
(* transactions, leases or processes in it: an event whose transaction     *)
(* committed is owed to the subscribers until it has been delivered, to    *)
(* the workspace stream when its type is durable and to the live channel   *)
(* always.  Delivery may repeat; it may neither be skipped nor happen for  *)
(* an event nobody committed.                                              *)
(***************************************************************************)
EXTENDS FiniteSets

CONSTANTS
    Event,      \* the events that requests may commit
    Durable     \* those that also belong in the workspace stream

VARIABLES
    accepted,   \* events whose transaction has committed
    owed,       \* accepted events still recorded as undelivered
    logged,     \* events in the workspace stream
    heard       \* events announced on the live channel

vars == <<accepted, owed, logged, heard>>

Delivered(e) == e \in heard /\ (e \in Durable => e \in logged)

Init ==
    /\ accepted = {}
    /\ owed = {}
    /\ logged = {}
    /\ heard = {}

Accept(S) ==
    /\ S # {}
    /\ S \cap accepted = {}
    /\ accepted' = accepted \cup S
    /\ owed' = owed \cup S
    /\ UNCHANGED <<logged, heard>>

Log(e) ==
    /\ e \in accepted \cap Durable
    /\ logged' = logged \cup {e}
    /\ UNCHANGED <<accepted, owed, heard>>

Announce(e) ==
    /\ e \in accepted
    /\ heard' = heard \cup {e}
    /\ UNCHANGED <<accepted, owed, logged>>

Discharge(e) ==
    /\ e \in owed
    /\ Delivered(e)
    /\ owed' = owed \ {e}
    /\ UNCHANGED <<accepted, logged, heard>>

Next ==
    \/ \E S \in SUBSET Event : Accept(S)
    \/ \E e \in Event : Log(e) \/ Announce(e) \/ Discharge(e)

(* Whatever is accepted is eventually logged and announced. *)
Fairness == \A e \in Event : WF_vars(Log(e)) /\ WF_vars(Announce(e))

Safe == Init /\ [][Next]_vars

Spec == Safe /\ Fairness
==============================================================================
