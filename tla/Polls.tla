-------------------------------- MODULE Polls --------------------------------
(* One poll (api/src/polls): the votes, and the tally written into the      *)
(* message that shows it, in the transaction of whoever votes or closes.    *)
(* Votes of different people touch different rows, so it is the lock on the *)
(* poll's row that makes the tally of one see the vote of the other.        *)
EXTENDS Naturals, FiniteSets

CONSTANTS
    Voter,        \* people who may vote, and change their mind
    Option,
    Multiple,     \* polls.multiple_choice
    MaxVotes,     \* bound: votes cast
    MaxPollFaults \* bound: transactions that fail

ASSUME PollAssumption ==
    /\ IsFiniteSet(Voter) /\ IsFiniteSet(Option)
    /\ Multiple \in BOOLEAN /\ MaxVotes \in Nat /\ MaxPollFaults \in Nat

(* The one who closes the poll by hand, and the job that closes it when it  *)
(* is due (close_due, every tick of the reminders' loop).                   *)
Closer == {"author", "job"}
Party == Voter \cup Closer

VARIABLES
    votes,      \* [Voter -> SUBSET Option] poll_votes
    closed,     \* closed_at is set
    overdue,    \* closes_at has passed
    deleted,    \* the message that shows the poll is deleted
    summary,    \* [options, voters, closed] of the message's metadata
    party,      \* [Party -> [at, choice, tally]] a request and its transaction
    closings,   \* how many were told that they closed the poll
    cast, pollFaults

pollVars == <<votes, closed, overdue, deleted, summary, party, closings, cast,
              pollFaults>>

Tally(v) ==
    [options |-> [o \in Option |-> Cardinality({p \in Voter : o \in v[p]})],
     voters |-> Cardinality({p \in Voter : v[p] # {}})]

NoTally == Tally([p \in Voter |-> {}])
Idle == [at |-> "idle", choice |-> {}, tally |-> NoTally]

TallyType == [options : [Option -> 0..Cardinality(Voter)], voters : 0..Cardinality(Voter)]

PollTypeOK ==
    /\ votes \in [Voter -> SUBSET Option]
    /\ \A f \in {closed, overdue, deleted} : f \in BOOLEAN
    /\ summary \in [tally : TallyType, closed : BOOLEAN]
    /\ \A p \in Party :
           /\ party[p].at \in {"idle", "checked", "locked", "tallied"}
           /\ party[p].choice \subseteq Option /\ party[p].tally \in TallyType
    /\ closings \in 0..Cardinality(Closer)
    /\ cast \in 0..MaxVotes /\ pollFaults \in 0..MaxPollFaults

PollInit ==
    /\ votes = [p \in Voter |-> {}]
    /\ closed = FALSE /\ overdue = FALSE /\ deleted = FALSE
    /\ summary = [tally |-> NoTally, closed |-> FALSE]
    /\ party = [p \in Party |-> Idle]
    /\ closings = 0 /\ cast = 0 /\ pollFaults = 0

(* Poll::is_closed *)
IsClosed == closed \/ overdue

(* find_readable, and the choices the poll takes (the filter and the single *)
(* answer are checked under the lock, of rows that never change).           *)
CheckVote(v, choice) ==
    /\ party[v].at = "idle" /\ ~deleted /\ cast < MaxVotes
    /\ Multiple \/ Cardinality(choice) <= 1
    /\ cast' = cast + 1
    /\ party' = [party EXCEPT ![v] = [Idle EXCEPT !.at = "checked", !.choice = choice]]
    /\ UNCHANGED <<votes, closed, overdue, deleted, summary, closings, pollFaults>>

(* Mutant: close_due skips polls whose message is deleted, as the routes do. *)
CheckCloseReadable(c) ==
    /\ party[c].at = "idle" /\ ~deleted
    /\ c = "job" => overdue /\ ~closed
    /\ party' = [party EXCEPT ![c].at = "checked"]
    /\ UNCHANGED <<votes, closed, overdue, deleted, summary, closings, cast, pollFaults>>

(* close_by refuses a deleted poll, close_due takes what is due and open. *)
CheckClose(c) ==
    /\ party[c].at = "idle"
    /\ IF c = "job" THEN overdue /\ ~closed ELSE ~deleted
    /\ party' = [party EXCEPT ![c].at = "checked"]
    /\ UNCHANGED <<votes, closed, overdue, deleted, summary, closings, cast, pollFaults>>

(* Mutant: lock_in without FOR UPDATE. *)
MayLockShared == TRUE

(* lock_in: FOR UPDATE, held to the end of the transaction. *)
MayLock == \A p \in Party : party[p].at \notin {"locked", "tallied"}

(* A vote that finds the poll closed under the lock is refused. *)
LockVote(v) ==
    /\ party[v].at = "checked" /\ MayLock
    /\ party' = [party EXCEPT ![v] = IF IsClosed THEN Idle ELSE [@ EXCEPT !.at = "locked"]]
    /\ UNCHANGED <<votes, closed, overdue, deleted, summary, closings, cast, pollFaults>>

(* close: a poll that is closed by now is left as it is. *)
AlreadyClosed == closed

LockClose(c) ==
    /\ party[c].at = "checked" /\ MayLock
    /\ party' = [party EXCEPT ![c] = IF AlreadyClosed THEN Idle
                                     ELSE [@ EXCEPT !.at = "locked"]]
    /\ UNCHANGED <<votes, closed, overdue, deleted, summary, closings, cast, pollFaults>>

(* The votes a transaction sees: what is committed, and its own: the rows   *)
(* of the voter deleted and the new ones inserted (replace_vote_in).        *)
SeenBy(p) == IF p \in Voter THEN [votes EXCEPT ![p] = party[p].choice] ELSE votes

(* tally_in, after replace_vote_in or close_in. *)
TakeTally(p) ==
    /\ party[p].at = "locked"
    /\ party' = [party EXCEPT ![p].at = "tallied", ![p].tally = Tally(SeenBy(p))]
    /\ UNCHANGED <<votes, closed, overdue, deleted, summary, closings, cast, pollFaults>>

(* set_poll_in and the commit. *)
CommitPoll(p) ==
    /\ party[p].at = "tallied"
    /\ votes' = SeenBy(p)
    /\ closed' = (closed \/ p \in Closer)
    /\ summary' = [tally |-> party[p].tally, closed |-> closed']
    /\ closings' = IF p \in Closer THEN closings + 1 ELSE closings
    /\ party' = [party EXCEPT ![p] = Idle]
    /\ UNCHANGED <<overdue, deleted, cast, pollFaults>>

(* Any statement of it fails: nothing of the transaction stays. *)
PollFails(p) ==
    /\ party[p].at \in {"locked", "tallied"} /\ pollFaults < MaxPollFaults
    /\ pollFaults' = pollFaults + 1
    /\ party' = [party EXCEPT ![p] = Idle]
    /\ UNCHANGED <<votes, closed, overdue, deleted, summary, closings, cast>>

TimeIsUp ==
    /\ ~overdue /\ overdue' = TRUE
    /\ UNCHANGED <<votes, closed, deleted, summary, party, closings, cast, pollFaults>>

MessageDeleted ==
    /\ ~deleted /\ deleted' = TRUE
    /\ UNCHANGED <<votes, closed, overdue, summary, party, closings, cast, pollFaults>>

PollNext ==
    \/ \E v \in Voter : LockVote(v) \/ \E choice \in SUBSET Option : CheckVote(v, choice)
    \/ \E c \in Closer : CheckClose(c) \/ LockClose(c)
    \/ \E p \in Party : TakeTally(p) \/ CommitPoll(p) \/ PollFails(p)
    \/ TimeIsUp \/ MessageDeleted

(* The job comes back every tick, and a transaction that began ends; the   *)
(* lock goes to whoever waits for it.                                      *)
PollFairness ==
    /\ WF_pollVars(CheckClose("job")) /\ SF_pollVars(LockClose("job"))
    /\ \A p \in Party : WF_pollVars(TakeTally(p) \/ CommitPoll(p))

-----------------------------------------------------------------------------
(* Properties. *)

(* The message shows the votes that were cast, and whether the poll is      *)
(* closed, whoever votes at the same time: each transaction writes a whole  *)
(* summary over the last one (write_summary).                               *)
SummaryIsRight == summary = [tally |-> Tally(votes), closed |-> closed]

(* No vote changes in a poll that is closed, and it closes once: the vote   *)
(* that was checked before is refused under the lock, and of two who close  *)
(* it one is told that it was closed already.                               *)
ClosedIsFinal ==
    [][closed => closed' /\ votes' = votes /\ closings' = closings]_pollVars

(* A poll that is due is closed, also when its transaction fails at first.  *)
OverdueIsClosed == overdue ~> closed

(* The summary people see counts the votes that are there, with votes and  *)
(* the closing at the same time.                                           *)
PollSafety == PollTypeOK /\ SummaryIsRight
=============================================================================
