----------------------------- MODULE MCChannels -----------------------------
(* Instances of Membership, Unread and Presence for TLC.  A behaviour      *)
(* follows one of them: who may hear a channel, what its badge counts and  *)
(* who is shown there are written to rows and keys of their own.           *)
EXTENDS Membership, Unread, Presence, TLC

CONSTANTS l1, l2, n1, n2

VARIABLE focus

vars == <<focus, memberVars, unreadVars, presenceVars>>

(* Two connections of one person, on two nodes or on one. *)
Apart == (l1 :> n1) @@ (l2 :> n2)
Together == (l1 :> n1) @@ (l2 :> n1)
MCPlacements == {Apart, Together}

(* A frame; a change of manual_away; a removal; a person who joins and     *)
(* subscribes; a fault.                                                    *)
Quiet == [toggles |-> 0, frames |-> 1, moves |-> 0, faults |-> 0]
MCPresenceBudgets ==
    {Quiet,
     [Quiet EXCEPT !.frames = 0, !.toggles = 1],
     [Quiet EXCEPT !.frames = 0, !.moves = 1],
     [Quiet EXCEPT !.moves = 1],
     [Quiet EXCEPT !.frames = 0, !.faults = 1]}

MCInit ==
    /\ focus \in {"members", "unread", "presence"}
    /\ MembershipInit /\ UnreadInit /\ PresenceInit
    /\ focus # "unread" => spare.faults = 0
    /\ focus # "presence" =>
           /\ left = Quiet /\ place = Apart /\ seen = "none"
    /\ seen = "none" <=> status = "none"
    /\ belongs <=> left.moves = 0 \/ left.frames = 0
    /\ left.toggles + left.moves > 0 => place = Together /\ seen = "none"
    /\ left.faults > 0 => place = Apart

MCNext ==
    \/ focus = "members" /\ MembershipNext /\ UNCHANGED <<focus, unreadVars, presenceVars>>
    \/ focus = "unread" /\ UnreadNext /\ UNCHANGED <<focus, memberVars, presenceVars>>
    \/ focus = "presence" /\ PresenceNext /\ UNCHANGED <<focus, memberVars, unreadVars>>

(* Of those that are not followed nothing is begun; only the reconciler   *)
(* looks at a channel nobody has posted in.                                *)
Spec ==
    /\ MCInit /\ [][MCNext]_vars
    /\ MembershipFairness /\ PresenceFairness
    /\ focus = "unread" => UnreadFairness

(* Everything that writes the counter, in a channel with two messages; and *)
(* a root with two replies, of which two people delete one.                *)
MCBudgets ==
    {[posts |-> 2, marks |-> 2, deletes |-> 1, faults |-> 1],
     [posts |-> 3, marks |-> 0, deletes |-> 2, faults |-> 0]}

(* Who was removed stops hearing the channel, a counter that drifted is    *)
(* put right, and roster and status come to tell who is there.             *)
ChannelsProgress == RemovedStopsHearing /\ DriftIsCorrected /\ RosterHeals /\ StatusHeals
=============================================================================
