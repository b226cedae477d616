---------------------------- MODULE MCStreamGroup ----------------------------
(* Two entries, in a stream each or both in the first, one of them        *)
(* possibly garbled, and two replicas of one consumer.                     *)
EXTENDS StreamGroup, TLC

CONSTANTS s1, s2, e1, e2, c1, c2

(* Every entry in the first stream. *)
MCOneStream == [e \in Entry |-> s1]
=============================================================================
