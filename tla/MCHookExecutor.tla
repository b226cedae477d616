--------------------------- MODULE MCHookExecutor ---------------------------
(* Instances of HookExecutor and Previews for TLC, two consumers of the    *)
(* streams that call other services.  A behaviour follows one of them.     *)
(* The hooks are made by one admin.                                        *)
EXTENDS HookExecutor, Previews, TLC

CONSTANTS h1, h2, u1, e1, w1, w2
VARIABLE focus

MCMaker == [h \in Hook |-> u1]

MCInit == focus \in {"hooks", "previews"} /\ Init /\ PreviewInit

MCNext ==
    \/ focus = "hooks" /\ Next /\ UNCHANGED <<focus, previewVars>>
    \/ focus = "previews" /\ PreviewNext /\ UNCHANGED <<focus, vars>>

MCSpec == MCInit /\ [][MCNext]_<<focus, vars, previewVars>>

ReplicaSymmetry == Permutations({w1, w2}) \cup Permutations({h1, h2})
=============================================================================
