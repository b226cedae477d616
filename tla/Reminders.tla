------------------------------ MODULE Reminders ------------------------------
(***************************************************************************)
(* One item saved for later and its reminder: the checker                  *)
(* (later/reminders.rs) claims the row by stamping reminded_at, pushes and *)
(* takes the stamp back when the push failed; the owner changes the item   *)
(* meanwhile (later/routes.rs, later/repo.rs).                             *)
(***************************************************************************)
EXTENDS Naturals

CONSTANTS
    Checker,            \* replicas of the reminder checker
    MaxSettings,        \* bound: times a reminder is set
    MaxChanges,         \* bound: the owner's other changes
    MaxCheckFaults      \* bound: crashes, failed pushes and failed releases

ASSUME ReminderAssumption ==
    MaxSettings \in Nat /\ MaxChanges \in Nat /\ MaxCheckFaults \in Nat

VARIABLES
    later,              \* the row of later_items; setting counts the times it was set
    canSee,             \* has the target access to the channel?
    check,              \* each checker: its next step and the setting it claimed
    pushes,             \* history: pushes for each setting
    dropped,            \* history: settings dropped for want of access
    forgotten,          \* history: settings whose checker died or could not release
    lateRelease,        \* history: a release undid the claim of a later setting
    changes, checkFaults

reminderVars == <<later, canSee, check, pushes, dropped, forgotten, lateRelease, changes,
                  checkFaults>>

Setting == 1..MaxSettings
AtRest == [does |-> "rest", setting |-> 0]

ReminderInit ==
    /\ later = [status |-> "none", at |-> "never", reminded |-> FALSE, setting |-> 0]
    /\ canSee = TRUE
    /\ check = [c \in Checker |-> AtRest]
    /\ pushes = [n \in Setting |-> 0]
    /\ dropped = {} /\ forgotten = {} /\ lateRelease = FALSE
    /\ changes = 0 /\ checkFaults = 0

CheckFault == checkFaults < MaxCheckFaults /\ checkFaults' = checkFaults + 1
Change == changes < MaxChanges /\ changes' = changes + 1
reminderPast == <<pushes, dropped, forgotten, lateRelease>>

-----------------------------------------------------------------------------
(* The owner. *)

(* create_reminder, save_message with a time, and update with a new time:  *)
(* the item is set, and what was stamped before is forgotten.              *)
SetReminder ==
    /\ later.setting < MaxSettings
    /\ later' = [status |-> "in_progress", at |-> "later", reminded |-> FALSE,
                 setting |-> later.setting + 1]
    /\ UNCHANGED <<canSee, check, reminderPast, changes, checkFaults>>

(* save_message again without a time: in progress, and the stamp stays. *)
SaveAgain ==
    /\ later.status = "completed" /\ Change
    /\ later' = [later EXCEPT !.status = "in_progress"]
    /\ UNCHANGED <<canSee, check, reminderPast, checkFaults>>

Complete ==
    /\ later.status = "in_progress" /\ Change
    /\ later' = [later EXCEPT !.status = "completed"]
    /\ UNCHANGED <<canSee, check, reminderPast, checkFaults>>

(* update with clear_reminder *)
ClearReminder ==
    /\ later.at # "never" /\ Change
    /\ later' = [later EXCEPT !.at = "never", !.reminded = FALSE]
    /\ UNCHANGED <<canSee, check, reminderPast, checkFaults>>

LoseSight ==
    /\ canSee /\ Change
    /\ canSee' = FALSE
    /\ UNCHANGED <<later, check, reminderPast, checkFaults>>

RemindTimeComes ==
    /\ later.at = "later"
    /\ later' = [later EXCEPT !.at = "due"]
    /\ UNCHANGED <<canSee, check, reminderPast, changes, checkFaults>>

-----------------------------------------------------------------------------
(* The checker. *)

(* Mutant: the stamp is not looked at. *)
MayRemindAgain == later.at = "due" /\ later.status = "in_progress"

(* claim_due, its WHERE *)
MayRemind == later.at = "due" /\ ~later.reminded /\ later.status = "in_progress"

ClaimReminder(c) ==
    /\ check[c] = AtRest /\ MayRemind
    /\ later' = [later EXCEPT !.reminded = TRUE]
    /\ check' = [check EXCEPT ![c] = [does |-> "deliver", setting |-> later.setting]]
    /\ UNCHANGED <<canSee, reminderPast, changes, checkFaults>>

(* deliver: is_deliverable, then the push; a failed push is to be released. *)
Push(c) ==
    LET n == check[c].setting IN
    /\ check[c].does = "deliver"
    /\ \/ /\ ~canSee
          /\ dropped' = dropped \cup {n}
          /\ check' = [check EXCEPT ![c] = AtRest]
          /\ UNCHANGED <<pushes, checkFaults>>
       \/ /\ canSee
          /\ pushes' = [pushes EXCEPT ![n] = @ + 1]
          /\ check' = [check EXCEPT ![c] = AtRest]
          /\ UNCHANGED <<dropped, checkFaults>>
       \/ /\ canSee /\ CheckFault
          /\ check' = [check EXCEPT ![c].does = "release"]
          /\ UNCHANGED <<pushes, dropped>>
    /\ UNCHANGED <<later, canSee, forgotten, lateRelease, changes>>

(* release, by id *)
Released == [later EXCEPT !.reminded = FALSE]

Release(c) ==
    LET n == check[c].setting IN
    /\ check[c].does = "release"
    /\ \/ /\ later' = Released
          /\ lateRelease' = (lateRelease \/ n # later.setting)
          /\ UNCHANGED <<forgotten, checkFaults>>
       \/ /\ CheckFault
          /\ forgotten' = forgotten \cup {n}
          /\ UNCHANGED <<later, lateRelease>>
    /\ check' = [check EXCEPT ![c] = AtRest]
    /\ UNCHANGED <<canSee, pushes, dropped, changes>>

CheckerDies(c) ==
    /\ check[c] # AtRest /\ CheckFault
    /\ forgotten' = forgotten \cup {check[c].setting}
    /\ check' = [check EXCEPT ![c] = AtRest]
    /\ UNCHANGED <<later, canSee, pushes, dropped, lateRelease, changes>>

CheckStep(c) == ClaimReminder(c) \/ Push(c) \/ Release(c)

ReminderNext ==
    \/ SetReminder \/ SaveAgain \/ Complete \/ ClearReminder \/ LoseSight \/ RemindTimeComes
    \/ \E c \in Checker : CheckStep(c) \/ CheckerDies(c)

(* start_checker loops for ever, and time passes. *)
ReminderFairness ==
    WF_reminderVars(RemindTimeComes) /\ \A c \in Checker : WF_reminderVars(CheckStep(c))

-----------------------------------------------------------------------------
(* Every variable stays in its domain. *)
ReminderTypeOK ==
    /\ later \in [status : {"none", "in_progress", "completed"},
                  at : {"never", "later", "due"}, reminded : BOOLEAN,
                  setting : 0..MaxSettings]
    /\ check \in [Checker -> [does : {"rest", "deliver", "release"}, setting : 0..MaxSettings]]
    /\ pushes \in [Setting -> Nat] /\ dropped \subseteq Setting /\ forgotten \subseteq Setting
    /\ {canSee, lateRelease} \subseteq BOOLEAN
    /\ changes \in 0..MaxChanges /\ checkFaults \in 0..MaxCheckFaults

(* A reminder is pushed once each time it is set, on any number of         *)
(* replicas, unless a checker that failed for an earlier setting releases  *)
(* the claim of this one (claim_due, release by id).                       *)
RemindedOnce == lateRelease \/ \A n \in Setting : pushes[n] <= 1

(* "A claim followed by a failure is a retry rather than a loss": what is  *)
(* stamped has been pushed, is being delivered, or was dropped for want of *)
(* access, unless its checker died or could not release it.                *)
StampedIsPushed ==
    later.reminded =>
        LET n == later.setting IN
        \/ pushes[n] > 0 \/ n \in dropped \cup forgotten
        \/ \E c \in Checker : check[c] # AtRest /\ check[c].setting = n

(* A reminder that is due is delivered in the end, dropped, or taken back. *)
DueIsReminded ==
    \A n \in Setting :
        later.setting = n /\ later.at = "due" ~>
            \/ pushes[n] > 0 \/ n \in dropped \cup forgotten
            \/ later.setting # n \/ later.at # "due" \/ later.status = "completed"

(* A reminder is given once, and one stamped as given was pushed, outside  *)
(* the circumstances each part names.                                      *)
ReminderSafety == ReminderTypeOK /\ RemindedOnce /\ StampedIsPushed
=============================================================================
