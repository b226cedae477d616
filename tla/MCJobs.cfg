SPECIFICATION Spec
CONSTANTS
    Mailer = {m1, m2}
    MaxAttempts = 2
    MaxMailFaults = 2
    Sender = {s1, s2}
    MaxEdits = 2
    MaxSendFaults = 2
    Checker = {c1, c2}
    MaxSettings = 2
    MaxChanges = 2
    MaxCheckFaults = 2
    Job = {1, 2}
    Exporter = {w1, w2}
    MaxExportFaults = 2
    Voter = {v1, v2}
    Option = {o1, o2}
    Multiple = TRUE
    MaxVotes = 2
    MaxPollFaults = 1
    Retrier = {r1, r2}
    Responder = {p1}
    MaxCalls = 3
    Uses = 1
    MaxDisturbances = 1
    x1 = x1  x2 = x2
    n1 = n1  n2 = n2
    g1 = g1  g2 = g2
    Mention = {x1, x2}
    Notifier = {n1, n2}
    Digester = {g1, g2}
    NotifyBudgets <- MCNotifyBudgets
INVARIANTS
    EmailSafety ScheduledSafety  ExportSafety 
    CommandSafety 
 
CHECK_DEADLOCK FALSE
