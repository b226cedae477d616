---------------------------- MODULE MCEventOutbox ----------------------------
(* One request that stages a durable and a transient event together, and   *)
(* two relays that are ready to take them over.                            *)
EXTENDS EventOutbox, TLC

CONSTANTS q1, r1, r2

MCEvent    == {1, 2}
MCDurable  == {1}
MCRequest  == {q1}
MCRelay    == {r1, r2}
MCEventsOf == q1 :> {1, 2}
=============================================================================
