---------------------------- MODULE MCConnections ----------------------------
(* Two connections of one user and the event consumer; a queue of one. *)
EXTENDS Connections, TLC

CONSTANTS c1, c2, u1

MCUserOf == [c \in Conn |-> u1]
=============================================================================
