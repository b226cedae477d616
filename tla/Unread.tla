------------------------------- MODULE Unread -------------------------------
(* The unread counter of one reader of one channel (channel_members.       *)
(* unread_count, last_read_at) and the messages it counts                  *)
(* (api/src/messaging/repo.rs, routes.rs, reconcile.rs).  The counter is   *)
(* written by whoever posts, by two statements that recount it, by the     *)
(* deletion of a message, and by a reconciler every six hours.             *)
(*                                                                         *)
(* Postgres at READ COMMITTED: NOW() is the start of the transaction, a    *)
(* statement reads the messages as committed when it starts, and writes    *)
(* the row when it gets its lock, in the version it has by then.  So a     *)
(* statement is two steps, and a post that has bumped the counter holds    *)
(* the row until it commits.                                               *)
EXTENDS Integers, FiniteSets, FiniteSetsExt

CONSTANTS
    Message,    \* numbers: the messages ever posted, the first one a root
    Deleter,    \* requests that delete a message
    Budgets,    \* bounds, of which a behaviour has one: posts, marks of the
                \* reader either way, deletions, statements that fail
    None

ASSUME UnreadAssumption ==
    /\ Message \subseteq Nat \ {0} /\ IsFiniteSet(Message) /\ Message # {}
    /\ Budgets \subseteq [posts : Nat, marks : Nat, deletes : Nat, faults : Nat]
    /\ None \notin Nat

Root == Min(Message)

(* Others' messages in the channel, others' replies in its thread (shown   *)
(* there alone), and the reader's own messages.                            *)
Kind == {"channel", "reply", "own"}

VARIABLES
    clock,       \* the last instant a transaction started at, in steps of two
    msg,         \* [Message -> [kind, created, is]]
    holder,      \* the post that holds the reader's row, or None
    row,         \* [unread, readAt] as last committed
    marking,     \* mark_read in its statement: the NOW() it started at
    unmarking,   \* mark_unread in its statement: what it will write
    deleting,    \* [Deleter -> [m, at]] delete_message
    recount,     \* the reconciler in its statement: the total it will write
    recent,      \* a message of the channel is younger than WINDOW_HOURS
    swept,       \* the reconciler has passed since the last message
    replies,     \* reply_count of the root
    spare,       \* what is left of the budget
    overlapped   \* history: an operation met another one, or failed halfway

unreadVars == <<clock, msg, holder, row, marking, unmarking, deleting, recount,
                recent, swept, replies, spare, overlapped>>

NoDelete == [m |-> None, at |-> "idle"]
Instant == Nat
Row == [unread : 0..Cardinality(Message), readAt : Instant]

UnreadTypeOK ==
    /\ clock \in Instant /\ holder \in Message \cup {None}
    /\ msg \in [Message -> [kind : Kind, created : Instant,
                            is : {"none", "inserted", "undone", "live", "gone"}]]
    /\ row \in Row
    /\ marking \in Instant \cup {None} /\ unmarking \in Row \cup {None}
    /\ deleting \in [Deleter -> [m : Message \cup {None},
                                 at : {"idle", "found", "dropped"}]]
    /\ recount \in 0..Cardinality(Message) \cup {None}
    /\ recent \in BOOLEAN /\ swept \in BOOLEAN /\ overlapped \in BOOLEAN
    /\ replies \in 0..Cardinality(Message)
    /\ spare \in [posts : Nat, marks : Nat, deletes : Nat, faults : Nat]

UnreadInit ==
    /\ clock = 0 /\ holder = None /\ replies = 0
    /\ msg = [m \in Message |-> [kind |-> "channel", created |-> 0, is |-> "none"]]
    /\ row = [unread |-> 0, readAt |-> 0]
    /\ marking = None /\ unmarking = None /\ recount = None
    /\ deleting = [d \in Deleter |-> NoDelete]
    /\ recent = FALSE /\ swept = FALSE /\ overlapped = FALSE
    /\ spare \in Budgets

Busy ==
    \/ \E m \in Message : msg[m].is = "inserted"
    \/ marking # None \/ unmarking # None \/ recount # None
    \/ \E d \in Deleter : deleting[d].at # "idle"

(* Every operation that begins notes whether another one is under way. *)
Begins == overlapped' = (overlapped \/ Busy)

Spend(what) == spare[what] > 0 /\ spare' = [spare EXCEPT ![what] = @ - 1]

Fails == Spend("faults") /\ overlapped' = TRUE

(* The messages the channel counts for the reader: not deleted, not in a   *)
(* thread alone, not their own.                                            *)
Counted == {m \in Message : msg[m].is = "live" /\ msg[m].kind = "channel"}

UnreadSince(t) == Cardinality({m \in Counted : msg[m].created > t})

(* What the counter should be: the truth of reconcile_unread_counts, and   *)
(* the list newest_unread_messages shows beside the badge.                 *)
Truth == UnreadSince(row.readAt)

RowIsFree == holder = None

-----------------------------------------------------------------------------
(* send_message and create_message_in. *)

(* The transaction begins, which dates the message, and inserts it.  A     *)
(* retry of the same client_message_id ends at the unique index.  A reply  *)
(* found its root before the transaction; it may be deleted since.         *)
Post(m, kind) ==
    /\ msg[m].is = "none" /\ \A n \in Message : n < m => msg[n].is # "none"
    /\ kind = "reply" => msg[Root].is \in {"live", "gone"}
    /\ Spend("posts")
    /\ clock' = clock + 2
    /\ msg' = [msg EXCEPT ![m] = [kind |-> kind, created |-> clock', is |-> "inserted"]]
    /\ Begins
    /\ UNCHANGED <<holder, row, marking, unmarking, deleting, recount, recent,
                   swept, replies>>

Bumps(m) == msg[m].kind = "channel"

(* bump_unread locks the row of every member but the author. *)
Bump(m) ==
    /\ msg[m].is = "inserted" /\ Bumps(m) /\ RowIsFree
    /\ holder' = m
    /\ UNCHANGED <<clock, msg, row, marking, unmarking, deleting, recount, recent,
                   swept, replies, spare, overlapped>>

CommitPost(m) ==
    /\ msg[m].is = "inserted" /\ (Bumps(m) => holder = m)
    /\ msg' = [msg EXCEPT ![m].is = "live"]
    /\ row' = IF holder = m THEN [row EXCEPT !.unread = @ + 1] ELSE row
    /\ holder' = IF holder = m THEN None ELSE holder
    /\ replies' = IF msg[m].kind = "reply" THEN replies + 1 ELSE replies
    /\ recent' = TRUE /\ swept' = FALSE
    /\ UNCHANGED <<clock, marking, unmarking, deleting, recount, spare, overlapped>>

(* An attachment that cannot be claimed rolls the transaction back. *)
RollBack(m) ==
    /\ msg[m].is = "inserted" /\ Spend("faults")
    /\ msg' = [msg EXCEPT ![m].is = "undone"]
    /\ holder' = IF holder = m THEN None ELSE holder
    /\ UNCHANGED <<clock, row, marking, unmarking, deleting, recount, recent,
                   swept, replies, overlapped>>

-----------------------------------------------------------------------------
(* The reader, on one device or several. *)

(* mark_read: everything is read as of the instant the statement starts,   *)
(* whichever message the client named.                                     *)
BeginRead ==
    /\ marking = None /\ Spend("marks")
    /\ \E m \in Message : msg[m].is \in {"live", "gone"}
    /\ clock' = clock + 2 /\ marking' = clock'
    /\ Begins
    /\ UNCHANGED <<msg, holder, row, unmarking, deleting, recount, recent, swept,
                   replies>>

ReadRow == [unread |-> 0, readAt |-> marking]

FinishRead ==
    /\ marking # None /\ RowIsFree
    /\ row' = ReadRow
    /\ marking' = None
    /\ UNCHANGED <<clock, msg, holder, unmarking, deleting, recount, recent, swept,
                   replies, spare, overlapped>>

(* Mutant: mark_unread reads up to the message itself. *)
UnreadRowAt(m) ==
    [unread |-> Cardinality({n \in Counted : msg[n].created >= msg[m].created}),
     readAt |-> msg[m].created]

(* mark_unread: read up to a microsecond before the message it names, the  *)
(* unread ones counted from that message on.                               *)
UnreadRow(m) ==
    [unread |-> Cardinality({n \in Counted : msg[n].created >= msg[m].created}),
     readAt |-> msg[m].created - 1]

BeginUnread(m) ==
    /\ unmarking = None /\ Spend("marks") /\ msg[m].is = "live"
    /\ unmarking' = UnreadRow(m)
    /\ Begins
    /\ UNCHANGED <<clock, msg, holder, row, marking, deleting, recount, recent,
                   swept, replies>>

FinishUnread ==
    /\ unmarking # None /\ RowIsFree
    /\ row' = unmarking
    /\ unmarking' = None
    /\ UNCHANGED <<clock, msg, holder, marking, deleting, recount, recent, swept,
                   replies, spare, overlapped>>

-----------------------------------------------------------------------------
(* delete_message. *)

FindMessage(d, m) ==
    /\ deleting[d].at = "idle" /\ Spend("deletes") /\ msg[m].is = "live"
    /\ deleting' = [deleting EXCEPT ![d] = [m |-> m, at |-> "found"]]
    /\ Begins
    /\ UNCHANGED <<clock, msg, holder, row, marking, unmarking, recount, recent,
                   swept, replies>>

(* The rows drop_unread_for_message takes one off: those that had not read *)
(* past the message.  It does not look whether the message is still there. *)
Uncounts(m) == msg[m].kind = "channel" /\ msg[m].created > row.readAt

OneLess(n) == Max({n - 1, 0})

DropUnread(d) ==
    /\ deleting[d].at = "found" /\ RowIsFree
    /\ row' = IF Uncounts(deleting[d].m)
              THEN [row EXCEPT !.unread = OneLess(@)] ELSE row
    /\ deleting' = [deleting EXCEPT ![d].at = "dropped"]
    /\ UNCHANGED <<clock, msg, holder, marking, unmarking, recount, recent, swept,
                   replies, spare, overlapped>>

(* Its failure is logged, and the deletion goes on. *)
DropFails(d) ==
    /\ deleting[d].at = "found" /\ Fails
    /\ deleting' = [deleting EXCEPT ![d].at = "dropped"]
    /\ UNCHANGED <<clock, msg, holder, row, marking, unmarking, recount, recent,
                   swept, replies>>

(* soft_delete_message_in takes the message, and the reply off its root,   *)
(* if nobody has yet.                                                      *)
Takes(m) == msg[m].is = "live"

Erase(d) ==
    /\ deleting[d].at = "dropped"
    /\ LET m == deleting[d].m IN
           /\ msg' = [msg EXCEPT ![m].is = "gone"]
           /\ replies' = IF Takes(m) /\ msg[m].kind = "reply"
                         THEN Max({replies - 1, 0}) ELSE replies
    /\ deleting' = [deleting EXCEPT ![d] = NoDelete]
    /\ UNCHANGED <<clock, holder, row, marking, unmarking, recount, recent, swept,
                   spare, overlapped>>

(* The transaction of the deletion fails: the counters stay taken off. *)
EraseFails(d) ==
    /\ deleting[d].at = "dropped" /\ Fails
    /\ deleting' = [deleting EXCEPT ![d] = NoDelete]
    /\ UNCHANGED <<clock, msg, holder, row, marking, unmarking, recount, recent,
                   swept, replies>>

-----------------------------------------------------------------------------
(* start_unread_reconciler. *)

(* Mutant: the reconciler looks at rows that count something. *)
PicksCounting == recent /\ row.unread > 0 /\ row.unread # Truth

(* The statement counts, and picks the rows that differ.  It looks at the  *)
(* channels with a message of the last day.                                *)
Picks == recent /\ row.unread # Truth

BeginRecount ==
    /\ recount = None /\ (Picks \/ ~swept)
    /\ recount' = IF Picks THEN Truth ELSE None
    /\ swept' = TRUE
    /\ IF Picks THEN Begins ELSE UNCHANGED overlapped
    /\ UNCHANGED <<clock, msg, holder, row, marking, unmarking, deleting, recent,
                   replies, spare>>

(* A row that changed since is looked at again, with the same total. *)
FinishRecount ==
    /\ recount # None /\ RowIsFree
    /\ row' = [row EXCEPT !.unread = recount]
    /\ recount' = None
    /\ UNCHANGED <<clock, msg, holder, marking, unmarking, deleting, recent, swept,
                   replies, spare, overlapped>>

(* A day without a message: four passes went by. *)
GoesQuiet ==
    /\ recent /\ swept /\ recount = None
    /\ \A m \in Message : msg[m].is # "inserted"
    /\ recent' = FALSE
    /\ UNCHANGED <<clock, msg, holder, row, marking, unmarking, deleting, recount,
                   swept, replies, spare, overlapped>>

UnreadNext ==
    \/ \E m \in Message :
           \/ Bump(m) \/ CommitPost(m) \/ RollBack(m) \/ BeginUnread(m)
           \/ \E kind \in Kind : Post(m, kind)
           \/ \E d \in Deleter : FindMessage(d, m)
    \/ BeginRead \/ FinishRead \/ FinishUnread
    \/ \E d \in Deleter : DropUnread(d) \/ DropFails(d) \/ Erase(d) \/ EraseFails(d)
    \/ BeginRecount \/ FinishRecount \/ GoesQuiet

(* A statement that began ends, and the reconciler wakes up again.         *)
(* Nobody has to post, read or delete.                                     *)
UnreadFairness ==
    /\ \A m \in Message : WF_unreadVars(Bump(m)) /\ WF_unreadVars(CommitPost(m))
    /\ WF_unreadVars(FinishRead) /\ WF_unreadVars(FinishUnread)
    /\ \A d \in Deleter : WF_unreadVars(DropUnread(d)) /\ WF_unreadVars(Erase(d))
    /\ WF_unreadVars(BeginRecount) /\ WF_unreadVars(FinishRecount)

-----------------------------------------------------------------------------
(* Properties. *)

(* As long as no two operations on the channel overlap, the badge is what  *)
(* the list beside it shows, through any sequence of posts, replies, own   *)
(* messages, reads, marks as unread and deletions: four statements write   *)
(* the counter, each with a rule of its own for what is unread.            *)
BadgeIsRightUnlessOverlapped ==
    ~overlapped /\ ~Busy => row.unread = Truth

(* However the operations overlap or fail, a badge that is wrong is put    *)
(* right while the channel has had a message in the last day: a wrong      *)
(* badge can only stay in a channel that has gone quiet, which the         *)
(* reconciler does not look at.                                            *)
DriftIsCorrected == <>[](recent => row.unread = Truth)

(* A root counts its replies that are there, whoever deletes what, twice   *)
(* or at the same time (create_message_in, soft_delete_message_in).        *)
RepliesAreCounted ==
    replies = Cardinality({m \in Message : msg[m].kind = "reply" /\ msg[m].is = "live"})

(* The counters agree with the messages they count, when nothing overlaps. *)
UnreadSafety == UnreadTypeOK /\ BadgeIsRightUnlessOverlapped /\ RepliesAreCounted
=============================================================================
