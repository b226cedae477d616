------------------------------ MODULE Workflows ------------------------------
(* One run of a workflow (api/src/workflows): queued by an event, claimed   *)
(* by a worker for five minutes, carried out step by step, halted at a form *)
(* until somebody fills it in, and taken up again.  A step and the record   *)
(* that it was done are one transaction; the claim, the steps and the end   *)
(* of the run are transactions of their own, and a worker that is slow (it  *)
(* claims a batch of runs and takes them one after the other) goes on when  *)
(* its claim has lapsed and another one has the run.                        *)
EXTENDS Naturals, Sequences, FiniteSets

CONSTANTS
    Runner,      \* workers
    StepKinds,   \* the steps of the workflow: "send" or "form", at most one form
    MaxLapses,   \* bound: claims that grow older than five minutes
    MaxRevisions, \* bound: versions of the workflow after the first
    MaxRunFaults \* bound: workers that die and steps that fail

Pos == DOMAIN StepKinds

ASSUME WorkflowAssumption ==
    /\ StepKinds \in Seq({"send", "form"})
    /\ Cardinality({i \in Pos : StepKinds[i] = "form"}) <= 1
    /\ MaxLapses \in Nat /\ MaxRevisions \in Nat /\ MaxRunFaults \in Nat

Settled == {"succeeded", "failed", "expired"}
Status == {"none", "pending", "running", "waiting"} \cup Settled

VARIABLES
    enabled, version,   \* of the workflow
    acting,             \* whether its creator may still act (still_acting)
    run,                \* [status, version, fresh] of the workflow_runs row
    steps,              \* [Pos -> "none" | "ok" | "failed"] workflow_run_steps
    form,               \* "none" | "open" | "answered"
    formDue,            \* expires_at of the form has passed
    runner,             \* [Runner -> [at, version, ran, done]]
    sent,               \* history: [Pos -> the versions it was carried out in]
    lapses, runFaults,
    shared              \* history: a run was claimed while another worker had it

workflowVars == <<enabled, version, acting, run, steps, form, formDue, runner,
                  sent, lapses, runFaults, shared>>

NoRun == [at |-> "idle", version |-> 0, ran |-> 0, done |-> {}]

WorkflowTypeOK ==
    /\ \A f \in {enabled, formDue, shared} : f \in BOOLEAN
    /\ acting \in {"yes", "lost channel", "stopped"}
    /\ version \in 1..(1 + MaxRevisions)
    /\ run \in [status : Status, version : 1..(1 + MaxRevisions), fresh : BOOLEAN]
    /\ steps \in [Pos -> {"none", "ok", "failed"}]
    /\ form \in {"none", "open", "answered"}
    /\ runner \in [Runner -> [at : {"idle", "claimed", "stepping", "succeeded", "failed"},
                              version : 0..(1 + MaxRevisions), ran : 0..(1 + MaxRevisions),
                              done : SUBSET Pos]]
    /\ sent \in [Pos -> Seq(1..(1 + MaxRevisions))]
    /\ lapses \in 0..MaxLapses /\ runFaults \in 0..MaxRunFaults

WorkflowInit ==
    /\ enabled = TRUE /\ version = 1 /\ acting = "yes"
    /\ run = [status |-> "none", version |-> 1, fresh |-> FALSE]
    /\ steps = [i \in Pos |-> "none"] /\ sent = [i \in Pos |-> <<>>]
    /\ form = "none" /\ formDue = FALSE
    /\ runner = [w \in Runner |-> NoRun]
    /\ lapses = 0 /\ runFaults = 0 /\ shared = FALSE

-----------------------------------------------------------------------------
(* handle in listener.rs, queue_due_schedules: the trigger's key is unique,  *)
(* so an event that is delivered again finds its run there; a workflow that  *)
(* starts too often has the run recorded as failed (skip_run).               *)
Trigger(limited) ==
    /\ run.status = "none" /\ enabled
    /\ run' = [run EXCEPT !.status = IF limited THEN "failed" ELSE "pending",
                          !.version = version]
    /\ UNCHANGED <<enabled, version, acting, steps, form, formDue, runner, sent,
                   lapses, runFaults, shared>>

(* claim_runs *)
MayClaimRun == run.status = "pending" \/ (run.status = "running" /\ ~run.fresh)

ClaimRun(w) ==
    /\ runner[w].at = "idle" /\ MayClaimRun
    /\ run' = [run EXCEPT !.status = "running", !.fresh = TRUE]
    /\ runner' = [runner EXCEPT ![w] = [NoRun EXCEPT !.at = "claimed", !.ran = run.version]]
    /\ shared' = (shared \/ \E o \in Runner : runner[o].at # "idle")
    /\ UNCHANGED <<enabled, version, acting, steps, form, formDue, sent, lapses, runFaults>>

(* Mutant: finished_positions counts what failed or was only begun too. *)
FinishedPositionsAny ==
    {i \in Pos : steps[i] # "none" \/ (StepKinds[i] = "form" /\ form # "none")}

(* The positions execute does not carry out again: finished_positions.     *)
FinishedPositions == {i \in Pos : steps[i] = "ok"}

EditedUnderWay(w) == FinishedPositions # {} /\ version # runner[w].ran

(* execute and steps, up to the first step.  A creator who was suspended,   *)
(* demoted or removed has the workflow turned off with it (stand_down), one *)
(* who lost the channel it listens to has not.                              *)
LoadRun(w) ==
    /\ runner[w].at = "claimed"
    /\ LET refused == ~enabled \/ acting # "yes" \/ EditedUnderWay(w) IN
           runner' = [runner EXCEPT
               ![w].at = IF refused THEN "failed"
                         ELSE IF FinishedPositions = Pos THEN "succeeded" ELSE "stepping",
               ![w].version = version, ![w].done = FinishedPositions]
    /\ enabled' = (enabled /\ acting # "stopped")
    /\ UNCHANGED <<version, acting, run, steps, form, formDue, sent, lapses, runFaults, shared>>

NextPos(w) == CHOOSE i \in Pos \ runner[w].done : \A j \in Pos \ runner[w].done : i <= j

(* run_step: the message and record_step_in, in one transaction. *)
RecordsStep(i) == [steps EXCEPT ![i] = "ok"]

SendStep(w) ==
    /\ runner[w].at = "stepping" /\ StepKinds[NextPos(w)] = "send"
    /\ LET i == NextPos(w) IN
           /\ sent' = [sent EXCEPT ![i] = Append(@, runner[w].version)]
           /\ steps' = RecordsStep(i)
           /\ runner' = [runner EXCEPT ![w].done = @ \cup {i},
                  ![w].at = IF runner[w].done \cup {i} = Pos THEN "succeeded" ELSE @]
    /\ UNCHANGED <<enabled, version, acting, run, form, formDue, lapses, runFaults, shared>>

(* post_form and wait_in: the form's message, its row and the run's status. *)
FormStep(w) ==
    /\ runner[w].at = "stepping" /\ StepKinds[NextPos(w)] = "form" /\ form = "none"
    /\ form' = "open"
    /\ sent' = [sent EXCEPT ![NextPos(w)] = Append(@, runner[w].version)]
    /\ run' = [run EXCEPT !.status = "waiting"]
    /\ runner' = [runner EXCEPT ![w] = NoRun]
    /\ UNCHANGED <<enabled, version, acting, steps, formDue, lapses, runFaults, shared>>

StepError(w) ==
    /\ steps' = [steps EXCEPT ![NextPos(w)] = "failed"]
    /\ runner' = [runner EXCEPT ![w].at = "failed"]
    /\ UNCHANGED <<enabled, version, acting, run, form, formDue, sent, lapses, shared>>

(* The form is there already: the insert is refused, and that is an error   *)
(* of the step like any other.                                              *)
FormIsThere(w) ==
    /\ runner[w].at = "stepping" /\ StepKinds[NextPos(w)] = "form" /\ form # "none"
    /\ StepError(w) /\ UNCHANGED runFaults

(* The channel is archived, the recipient gone, a statement fails. *)
StepFails(w) ==
    /\ runner[w].at = "stepping" /\ runFaults < MaxRunFaults
    /\ runFaults' = runFaults + 1
    /\ StepError(w)

(* finish: whatever the row says by now. *)
FinishRun(w) ==
    /\ runner[w].at \in {"succeeded", "failed"}
    /\ run' = [run EXCEPT !.status = runner[w].at, !.version = runner[w].version]
    /\ runner' = [runner EXCEPT ![w] = NoRun]
    /\ UNCHANGED <<enabled, version, acting, steps, form, formDue, sent, lapses,
                   runFaults, shared>>

(* A worker dies, or cannot load the workflow or write the end. *)
RunnerDies(w) ==
    /\ runner[w].at # "idle" /\ runFaults < MaxRunFaults
    /\ runFaults' = runFaults + 1
    /\ runner' = [runner EXCEPT ![w] = NoRun]
    /\ UNCHANGED <<enabled, version, acting, run, steps, form, formDue, sent, lapses, shared>>

(* Five minutes pass; a claim nobody holds any more always grows old. *)
ClaimLapses ==
    /\ run.status = "running" /\ run.fresh
    /\ \/ \A w \in Runner : runner[w].at = "idle"
       \/ lapses < MaxLapses
    /\ lapses' = IF \A w \in Runner : runner[w].at = "idle" THEN lapses ELSE lapses + 1
    /\ run' = [run EXCEPT !.fresh = FALSE]
    /\ UNCHANGED <<enabled, version, acting, steps, form, formDue, runner, sent,
                   runFaults, shared>>

-----------------------------------------------------------------------------

(* answer_form refuses a form that is answered or too late, and a run that  *)
(* does not wait for it.                                                    *)
TakesAnswer == form = "open" /\ ~formDue /\ run.status = "waiting"

AnswerForm ==
    /\ TakesAnswer
    /\ form' = "answered"
    /\ run' = [run EXCEPT !.status = "pending", !.fresh = FALSE]
    /\ steps' = [i \in Pos |-> IF StepKinds[i] = "form" THEN "ok" ELSE steps[i]]
    /\ UNCHANGED <<enabled, version, acting, formDue, runner, sent, lapses, runFaults, shared>>

(* expire_forms_in *)
Expires == run.status = "waiting" /\ form = "open" /\ formDue

ExpireForms ==
    /\ Expires
    /\ run' = [run EXCEPT !.status = "expired"]
    /\ UNCHANGED <<enabled, version, acting, steps, form, formDue, runner, sent,
                   lapses, runFaults, shared>>

FormGrowsOld ==
    /\ form # "none" /\ ~formDue /\ formDue' = TRUE
    /\ UNCHANGED <<enabled, version, acting, run, steps, form, runner, sent, lapses,
                   runFaults, shared>>

(* update, and enable and disable of the routes. *)
EditWorkflow ==
    /\ version <= MaxRevisions /\ version' = version + 1
    /\ UNCHANGED <<enabled, acting, run, steps, form, formDue, runner, sent, lapses,
                   runFaults, shared>>

SwitchWorkflow ==
    /\ enabled' = ~enabled
    /\ UNCHANGED <<version, acting, run, steps, form, formDue, runner, sent, lapses,
                   runFaults, shared>>

CreatorStops ==
    /\ acting = "yes" /\ acting' \in {"lost channel", "stopped"}
    /\ UNCHANGED <<enabled, version, run, steps, form, formDue, runner, sent, lapses,
                   runFaults, shared>>

WorkflowNext ==
    \/ \E limited \in BOOLEAN : Trigger(limited)
    \/ \E w \in Runner :
           \/ ClaimRun(w) \/ LoadRun(w) \/ SendStep(w) \/ FormStep(w)
           \/ FormIsThere(w) \/ StepFails(w) \/ FinishRun(w) \/ RunnerDies(w)
    \/ ClaimLapses \/ AnswerForm \/ ExpireForms \/ FormGrowsOld
    \/ EditWorkflow \/ SwitchWorkflow \/ CreatorStops

(* The workers tick, the clock goes on; nobody has to answer. *)
WorkflowFairness ==
    /\ WF_workflowVars(\E w \in Runner : ClaimRun(w))
    /\ \A w \in Runner :
           /\ WF_workflowVars(LoadRun(w)) /\ WF_workflowVars(SendStep(w))
           /\ WF_workflowVars(FormStep(w)) /\ WF_workflowVars(FormIsThere(w))
           /\ WF_workflowVars(FinishRun(w))
    /\ WF_workflowVars(ClaimLapses) /\ WF_workflowVars(ExpireForms)
    /\ WF_workflowVars(FormGrowsOld)

-----------------------------------------------------------------------------
(* Properties. *)

(* Every step of a run is carried out once, through workers that die at any *)
(* point and are replaced: only two workers that have the run at the same   *)
(* time, because the claim of one lapsed, may post a message twice.         *)
StepOnceUnlessShared == shared \/ \A i \in Pos : Len(sent[i]) <= 1

(* Nothing that comes after a form is carried out before it is filled in,   *)
(* not even by a worker whose claim lapsed: it fails on the form that is    *)
(* there, and its steps were counted before.                                *)
FormIsWaitedFor ==
    \A i, j \in Pos :
        StepKinds[i] = "form" /\ i < j /\ sent[j] # <<>> => form = "answered"

(* The steps of a run are those of one version of the workflow: an edit     *)
(* between two of them fails the run instead.                               *)
OneVersionUnlessShared ==
    shared \/ \A i, j \in Pos :
        sent[i] # <<>> /\ sent[j] # <<>> => Head(sent[i]) = Head(sent[j])

(* A run that has ended stays as it ended, and its form is not answered     *)
(* any more, unless two workers had it: finish overwrites what it finds.    *)
EndedIsFinalUnlessShared ==
    [][run.status \in Settled /\ ~shared' =>
           run'.status = run.status /\ form' = form]_workflowVars

(* A run that was queued ends, or waits for an answer in time: a claim that *)
(* its worker left behind lapses, and a form nobody fills in expires.       *)
RunSettles ==
    run.status # "none" ~> (run.status \in Settled \/ (run.status = "waiting" /\ ~formDue))

(* A run carries each step out once, waits for its form, and follows one   *)
(* version of the workflow.                                                *)
WorkflowSafety ==
    WorkflowTypeOK /\ StepOnceUnlessShared /\ FormIsWaitedFor /\ OneVersionUnlessShared
=============================================================================
