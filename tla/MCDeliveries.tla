---------------------------- MODULE MCDeliveries ----------------------------
(* Instances of AppEvents, CallLog and Workflows for TLC.  A behaviour     *)
(* follows one of them: three consumers of the streams with tables of      *)
(* their own.                                                              *)
EXTENDS AppEvents, CallLog, Workflows

VARIABLE focus

vars == <<focus, appEventVars, callVars, workflowVars>>

MCInit ==
    /\ focus \in {"apps", "calls", "workflows"}
    /\ AppEventInit /\ CallInit /\ WorkflowInit
    /\ focus # "apps" => ~socketMode

MCNext ==
    \/ /\ focus = "apps" /\ AppEventNext
       /\ UNCHANGED <<focus, callVars, workflowVars>>
    \/ /\ focus = "calls" /\ CallNext
       /\ UNCHANGED <<focus, appEventVars, workflowVars>>
    \/ /\ focus = "workflows" /\ WorkflowNext
       /\ UNCHANGED <<focus, appEventVars, callVars>>

(* Those that are not followed have no entry, and nothing to be fair to. *)
Spec == MCInit /\ [][MCNext]_vars /\ AppEventFairness /\ CallFairness
                /\ WorkflowFairness

(* A workflow that says something, asks, and says something more. *)
MCStepKinds == <<"send", "form", "send">>

(* A queued event is settled, a call that everybody left is ended and a    *)
(* run comes to its end, which no step takes back.                         *)
DeliveriesProgress == QueuedIsSettled /\ LeftIsEnded /\ RunSettles /\ EndedIsFinalUnlessShared
=============================================================================
