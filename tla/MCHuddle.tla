------------------------------- MODULE MCHuddle -------------------------------
(* Two users, one with two connections, in two deployments: a mesh without *)
(* an SFU that is full with one participant, whose devices are on two      *)
(* nodes, and a huddle that moves to the SFU when the second one joins,    *)
(* with both devices of the first user on one node.                        *)
EXTENDS Huddle, TLC

CONSTANTS u1, u2, ca, cb, cc, n1, n2

MCUserOf == ca :> u1 @@ cb :> u1 @@ cc :> u2

Apart    == ca :> n1 @@ cb :> n2 @@ cc :> n2
Together == ca :> n1 @@ cb :> n1 @@ cc :> n2

MCSettings ==
    {[meshMax |-> 1, threshold |-> -1, sfuMax |-> 1, nodeOf |-> Apart],
     [meshMax |-> 2, threshold |-> 1, sfuMax |-> 2, nodeOf |-> Together]}
=============================================================================
