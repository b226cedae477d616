------------------------------- MODULE MCJobs -------------------------------
(* Instances for TLC of the background jobs, of the polls one of them      *)
(* closes and of slash commands.  A behaviour follows one of them: each    *)
(* works on tables of its own.                                             *)
EXTENDS EmailOutbox, ScheduledMessages, Reminders, Exports, Polls,
        SlashCommands, Notifications

CONSTANTS x1, x2, n1, n2, g1, g2

VARIABLE focus

vars == <<focus, emailVars, scheduledVars, reminderVars, exportVars, pollVars,
          commandVars, notifyVars>>

MCInit ==
    /\ focus \in {"email", "scheduled", "reminders", "exports", "polls",
                 "commands", "notifications"}
    /\ EmailInit /\ ScheduledInit /\ ReminderInit /\ ExportInit /\ PollInit
    /\ CommandInit /\ NotifyInit
    /\ focus # "notifications" => notifyBudget.events = {Ring}

MCNext ==
    /\ UNCHANGED focus
    /\ \/ /\ focus = "email" /\ EmailNext
          /\ UNCHANGED <<scheduledVars, reminderVars, exportVars, pollVars, commandVars, notifyVars>>
       \/ /\ focus = "scheduled" /\ ScheduledNext
          /\ UNCHANGED <<emailVars, reminderVars, exportVars, pollVars, commandVars, notifyVars>>
       \/ /\ focus = "reminders" /\ ReminderNext
          /\ UNCHANGED <<emailVars, scheduledVars, exportVars, pollVars, commandVars, notifyVars>>
       \/ /\ focus = "exports" /\ ExportNext
          /\ UNCHANGED <<emailVars, scheduledVars, reminderVars, pollVars, commandVars, notifyVars>>
       \/ /\ focus = "polls" /\ PollNext
          /\ UNCHANGED <<emailVars, scheduledVars, reminderVars, exportVars, commandVars, notifyVars>>
       \/ /\ focus = "commands" /\ CommandNext
          /\ UNCHANGED <<emailVars, scheduledVars, reminderVars, exportVars, pollVars, notifyVars>>
       \/ /\ focus = "notifications" /\ NotifyNext
          /\ UNCHANGED <<emailVars, scheduledVars, reminderVars, exportVars, pollVars, commandVars>>

(* A component that is not followed has no row, and nothing to be fair to. *)
Spec == MCInit /\ [][MCNext]_vars /\ EmailFairness /\ ScheduledFairness
                /\ ReminderFairness /\ ExportFairness /\ PollFairness
                /\ CommandFairness /\ NotifyFairness

(* Two mentions and two digest jobs; a pause and a failure; an event that  *)
(* two workers hold; and a ring they hold.                                  *)
MCNotifyBudgets ==
    {[events |-> {x1, x2}, notifiers |-> {n1}, digesters |-> {g1, g2}, pauses |-> 0, faults |-> 0],
     [events |-> {x1}, notifiers |-> {n1}, digesters |-> {g1, g2}, pauses |-> 1, faults |-> 1],
     [events |-> {x1}, notifiers |-> {n1, n2}, digesters |-> {g1}, pauses |-> 0, faults |-> 1],
     [events |-> {Ring}, notifiers |-> {n1, n2}, digesters |-> {g1}, pauses |-> 1, faults |-> 2]}

(* Whatever is due is settled: an email sent or given up, a message posted *)
(* or failed, a reminder given, an export ended, a poll closed, a retry    *)
(* answered, a digest mailed.  On the way no step posts without access,    *)
(* opens a closed poll, replaces another answer or mails what was told.    *)
JobsProgress ==
    /\ EmailSettles /\ DueIsSettled /\ DueIsReminded /\ ExportSettles
    /\ OverdueIsClosed /\ RetryIsResolved /\ DueIsFlushed
    /\ PostedWithAccess /\ ClosedIsFinal /\ ReplacesUnlessOverlapped /\ TellsSomethingNew
=============================================================================
