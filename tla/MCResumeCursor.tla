--------------------------- MODULE MCResumeCursor ----------------------------
(* One client; the cfgs choose how many publishers overlap and how many    *)
(* sockets, trims and outages a behaviour holds.                           *)
EXTENDS ResumeCursor

CONSTANTS p1, p2
=============================================================================
