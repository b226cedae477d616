-------------------------- MODULE EventOutbox_proof --------------------------
(***************************************************************************)
(* For any number of requests, relays and events, any batch size and any   *)
(* number of faults: a row is marked or pruned only after its event was    *)
(* emitted, an event is emitted only after its transaction committed, and  *)
(* every step of the outbox is one that at-least-once delivery allows.     *)
(***************************************************************************)
EXTENDS EventOutbox, FiniteSetTheorems, TLAPS

Emitting == {"append", "publish", "mark"}

(* What a process in the middle of emit has already done for the event in  *)
(* its hands: this is what mark_published relies on.                       *)
ProgressOK ==
    \A p \in Process :
        /\ pc[p] \in Emitting => cur[p] \in Event /\ Committed(cur[p])
        /\ pc[p] \in {"publish", "mark"} /\ cur[p] \in Durable
              => appended[cur[p]] > 0
        /\ pc[p] = "append" => cur[p] \in Durable
        /\ pc[p] = "mark" => cur[p] \in heard

(* Only committed rows are ever in a process's hands. *)
TodoCommitted == \A p \in Process : \A e \in todo[p] : Committed(e)

(* Until its commit a request is the only one to touch its rows. *)
OwnRows ==
    \A q \in Request : \A e \in EventsOf[q] :
        /\ pc[q] = "start" => row[e] = "absent"
        /\ pc[q] = "open" => row[e] = "staged"

Inv ==
    /\ TypeOK
    /\ ProgressOK
    /\ TodoCommitted
    /\ OwnRows
    /\ PublishedIsEmitted
    /\ OnlyCommittedIsEmitted

LEMMA InitInv == Init => Inv
<1> SUFFICES ASSUME Init PROVE Inv
    OBVIOUS
<1> USE EventAssumption, ProcessAssumption, RequestAssumption
<1>1. TypeOK
    BY DEF Init, TypeOK, Process, RowState, LeaseState, PcState, NoEvent
<1>2. ProgressOK /\ TodoCommitted
    BY DEF Init, ProgressOK, TodoCommitted, Emitting, Process
<1>3. OwnRows
    BY DEF Init, OwnRows, Process
<1>4. PublishedIsEmitted /\ OnlyCommittedIsEmitted
    BY DEF Init, PublishedIsEmitted, OnlyCommittedIsEmitted
<1> QED BY <1>1, <1>2, <1>3, <1>4 DEF Inv

(* The rows of two requests are different rows. *)
LEMMA OneOwner ==
    ASSUME NEW q1 \in Request, NEW q2 \in Request, NEW e \in EventsOf[q1],
           e \in EventsOf[q2]
    PROVE  q1 = q2
BY OwnerAssumption

(* Counting one more entry of an event. *)
LEMMA Increment ==
    ASSUME NEW S, NEW f \in [S -> Nat], NEW x \in S,
           NEW g, g = [f EXCEPT ![x] = @ + 1]
    PROVE  /\ g \in [S -> Nat]
           /\ \A y \in S : f[y] \in Nat /\ g[y] >= f[y]
           /\ g[x] > 0
<1>1. \A y \in S : f[y] \in Nat /\ g[y] = IF y = x THEN f[x] + 1 ELSE f[y]
    OBVIOUS
<1> QED BY <1>1

LEMMA RequestStepInv ==
    ASSUME Inv, NEW q \in Request, RequestStep(q)
    PROVE  Inv'
<1> USE EventAssumption, ProcessAssumption, RequestAssumption, BoundAssumption
<1> USE DEF Inv, tableVars, redisVars, procVars, countVars, Goto, SetRows, Fault, NoEvent
<1>a. EventsOf[q] \subseteq Event /\ q \in Process
    BY DEF Process
<1> USE <1>a
<1>1. CASE Stage(q)
    <2> USE <1>1 DEF Stage
    <2>1. TypeOK'
        BY DEF TypeOK, RowState, LeaseState, PcState
    <2>2. \A f \in Event : Committed(f) => Committed(f)'
        BY DEF Committed, TypeOK, OwnRows, ProgressOK, Emitting
    <2>3. ProgressOK'
        BY <2>2 DEF ProgressOK, TodoCommitted, TypeOK, Emitting, Process
    <2>4. TodoCommitted'
        BY <2>2 DEF TodoCommitted, TypeOK, Process, Committed
    <2>5. OwnRows'
        BY OneOwner DEF OwnRows, TypeOK, Process, TodoCommitted, ProgressOK, Committed, Emitting
    <2>6. PublishedIsEmitted'
        BY DEF PublishedIsEmitted, Emitted, TypeOK, ProgressOK, Committed, Emitting
    <2>7. OnlyCommittedIsEmitted'
        BY <2>2 DEF OnlyCommittedIsEmitted, TypeOK, ProgressOK, Emitting
    <2> QED BY <2>1, <2>3, <2>4, <2>5, <2>6, <2>7
<1>2. CASE Commit(q)
    <2> USE <1>2 DEF Commit
    <2>1. TypeOK'
        BY DEF TypeOK, RowState, LeaseState, PcState
    <2>2. \A f \in Event : Committed(f) => Committed(f)'
        BY DEF Committed, TypeOK, OwnRows, ProgressOK, Emitting
    <2>3. ProgressOK'
        BY <2>2 DEF ProgressOK, TodoCommitted, TypeOK, Emitting, Process
    <2>4. TodoCommitted'
        BY <2>2 DEF TodoCommitted, TypeOK, Process, Committed
    <2>5. OwnRows'
        BY OneOwner DEF OwnRows, TypeOK, Process, TodoCommitted, ProgressOK, Committed, Emitting
    <2>6. PublishedIsEmitted'
        BY DEF PublishedIsEmitted, Emitted, TypeOK, ProgressOK, Committed, Emitting
    <2>7. OnlyCommittedIsEmitted'
        BY <2>2 DEF OnlyCommittedIsEmitted, TypeOK, ProgressOK, Emitting
    <2> QED BY <2>1, <2>3, <2>4, <2>5, <2>6, <2>7
<1>3. CASE CommitUnanswered(q)
    <2> USE <1>3 DEF CommitUnanswered
    <2>1. TypeOK'
        BY DEF TypeOK, RowState, LeaseState, PcState
    <2>2. \A f \in Event : Committed(f) => Committed(f)'
        BY DEF Committed, TypeOK, OwnRows, ProgressOK, Emitting
    <2>3. ProgressOK'
        BY <2>2 DEF ProgressOK, TodoCommitted, TypeOK, Emitting, Process
    <2>4. TodoCommitted'
        BY <2>2 DEF TodoCommitted, TypeOK, Process, Committed
    <2>5. OwnRows'
        BY OneOwner DEF OwnRows, TypeOK, Process, TodoCommitted, ProgressOK, Committed, Emitting
    <2>6. PublishedIsEmitted'
        BY DEF PublishedIsEmitted, Emitted, TypeOK, ProgressOK, Committed, Emitting
    <2>7. OnlyCommittedIsEmitted'
        BY <2>2 DEF OnlyCommittedIsEmitted, TypeOK, ProgressOK, Emitting
    <2> QED BY <2>1, <2>3, <2>4, <2>5, <2>6, <2>7
<1>4. CASE Rollback(q)
    <2> USE <1>4 DEF Rollback
    <2>1. TypeOK'
        BY DEF TypeOK, RowState, LeaseState, PcState
    <2>2. \A f \in Event : Committed(f) => Committed(f)'
        BY DEF Committed, TypeOK, OwnRows, ProgressOK, Emitting
    <2>3. ProgressOK'
        BY <2>2 DEF ProgressOK, TodoCommitted, TypeOK, Emitting, Process
    <2>4. TodoCommitted'
        BY <2>2 DEF TodoCommitted, TypeOK, Process, Committed
    <2>5. OwnRows'
        BY OneOwner DEF OwnRows, TypeOK, Process, TodoCommitted, ProgressOK, Committed, Emitting
    <2>6. PublishedIsEmitted'
        BY DEF PublishedIsEmitted, Emitted, TypeOK, ProgressOK, Committed, Emitting
    <2>7. OnlyCommittedIsEmitted'
        BY <2>2 DEF OnlyCommittedIsEmitted, TypeOK, ProgressOK, Emitting
    <2> QED BY <2>1, <2>3, <2>4, <2>5, <2>6, <2>7
<1>5. CASE Abandon(q)
    <2> USE <1>5 DEF Abandon
    <2>1. TypeOK'
        BY DEF TypeOK, RowState, LeaseState, PcState
    <2>2. \A f \in Event : Committed(f) => Committed(f)'
        BY DEF Committed, TypeOK, OwnRows, ProgressOK, Emitting
    <2>3. ProgressOK'
        BY <2>2 DEF ProgressOK, TodoCommitted, TypeOK, Emitting, Process
    <2>4. TodoCommitted'
        BY <2>2 DEF TodoCommitted, TypeOK, Process, Committed
    <2>5. OwnRows'
        BY OneOwner DEF OwnRows, TypeOK, Process, TodoCommitted, ProgressOK, Committed, Emitting
    <2>6. PublishedIsEmitted'
        BY DEF PublishedIsEmitted, Emitted, TypeOK, ProgressOK, Committed, Emitting
    <2>7. OnlyCommittedIsEmitted'
        BY <2>2 DEF OnlyCommittedIsEmitted, TypeOK, ProgressOK, Emitting
    <2> QED BY <2>1, <2>3, <2>4, <2>5, <2>6, <2>7
<1> QED BY <1>1, <1>2, <1>3, <1>4, <1>5 DEF RequestStep

LEMMA RelayStepInv ==
    ASSUME Inv, NEW r \in Relay, RelayStep(r)
    PROVE  Inv'
<1> USE EventAssumption, ProcessAssumption, RequestAssumption, BoundAssumption
<1> USE DEF Inv, tableVars, redisVars, procVars, countVars, Goto, SetRows, Fault, NoEvent
<1>a. r \in Process /\ r \notin Request
    BY DEF Process
<1> USE <1>a
<1>1. CASE Claim(r)
    <2> USE <1>1 DEF Claim, Claimable, Due
    <2>1. TypeOK'
        BY DEF TypeOK, RowState, LeaseState, PcState
    <2>2. \A f \in Event : Committed(f) => Committed(f)'
        BY DEF Committed, TypeOK, OwnRows, ProgressOK, Emitting
    <2>3. ProgressOK'
        BY <2>2 DEF ProgressOK, TodoCommitted, TypeOK, Emitting, Process
    <2>4. TodoCommitted'
        BY <2>2 DEF TodoCommitted, TypeOK, Process, Committed
    <2>5. OwnRows'
        BY OneOwner DEF OwnRows, TypeOK, Process, TodoCommitted, ProgressOK, Committed, Emitting
    <2>6. PublishedIsEmitted'
        BY DEF PublishedIsEmitted, Emitted, TypeOK, ProgressOK, Committed, Emitting
    <2>7. OnlyCommittedIsEmitted'
        BY <2>2 DEF OnlyCommittedIsEmitted, TypeOK, ProgressOK, Emitting
    <2> QED BY <2>1, <2>3, <2>4, <2>5, <2>6, <2>7
<1>2. CASE ClaimUnanswered(r)
    <2> USE <1>2 DEF ClaimUnanswered, Claimable, Due
    <2>1. TypeOK'
        BY DEF TypeOK, RowState, LeaseState, PcState
    <2>2. \A f \in Event : Committed(f) => Committed(f)'
        BY DEF Committed, TypeOK, OwnRows, ProgressOK, Emitting
    <2>3. ProgressOK'
        BY <2>2 DEF ProgressOK, TodoCommitted, TypeOK, Emitting, Process
    <2>4. TodoCommitted'
        BY <2>2 DEF TodoCommitted, TypeOK, Process, Committed
    <2>5. OwnRows'
        BY OneOwner DEF OwnRows, TypeOK, Process, TodoCommitted, ProgressOK, Committed, Emitting
    <2>6. PublishedIsEmitted'
        BY DEF PublishedIsEmitted, Emitted, TypeOK, ProgressOK, Committed, Emitting
    <2>7. OnlyCommittedIsEmitted'
        BY <2>2 DEF OnlyCommittedIsEmitted, TypeOK, ProgressOK, Emitting
    <2> QED BY <2>1, <2>3, <2>4, <2>5, <2>6, <2>7
<1>3. CASE Prune(r)
    <2> USE <1>3 DEF Prune
    <2>1. TypeOK'
        BY DEF TypeOK, RowState, LeaseState, PcState
    <2>2. \A f \in Event : Committed(f) => Committed(f)'
        BY DEF Committed, TypeOK, OwnRows, ProgressOK, Emitting
    <2>3. ProgressOK'
        BY <2>2 DEF ProgressOK, TodoCommitted, TypeOK, Emitting, Process
    <2>4. TodoCommitted'
        BY <2>2 DEF TodoCommitted, TypeOK, Process, Committed
    <2>5. OwnRows'
        BY OneOwner DEF OwnRows, TypeOK, Process, TodoCommitted, ProgressOK, Committed, Emitting
    <2>6. PublishedIsEmitted'
        BY DEF PublishedIsEmitted, Emitted, TypeOK, ProgressOK, Committed, Emitting
    <2>7. OnlyCommittedIsEmitted'
        BY <2>2 DEF OnlyCommittedIsEmitted, TypeOK, ProgressOK, Emitting
    <2> QED BY <2>1, <2>3, <2>4, <2>5, <2>6, <2>7
<1>4. CASE Restart(r)
    <2> USE <1>4 DEF Restart
    <2>1. TypeOK'
        BY DEF TypeOK, RowState, LeaseState, PcState
    <2>2. \A f \in Event : Committed(f) => Committed(f)'
        BY DEF Committed, TypeOK, OwnRows, ProgressOK, Emitting
    <2>3. ProgressOK'
        BY <2>2 DEF ProgressOK, TodoCommitted, TypeOK, Emitting, Process
    <2>4. TodoCommitted'
        BY <2>2 DEF TodoCommitted, TypeOK, Process, Committed
    <2>5. OwnRows'
        BY OneOwner DEF OwnRows, TypeOK, Process, TodoCommitted, ProgressOK, Committed, Emitting
    <2>6. PublishedIsEmitted'
        BY DEF PublishedIsEmitted, Emitted, TypeOK, ProgressOK, Committed, Emitting
    <2>7. OnlyCommittedIsEmitted'
        BY <2>2 DEF OnlyCommittedIsEmitted, TypeOK, ProgressOK, Emitting
    <2> QED BY <2>1, <2>3, <2>4, <2>5, <2>6, <2>7
<1> QED BY <1>1, <1>2, <1>3, <1>4 DEF RelayStep

LEMMA EmitStepInv ==
    ASSUME Inv, NEW p \in Process, EmitStep(p)
    PROVE  Inv'
<1> USE EventAssumption, ProcessAssumption, RequestAssumption, BoundAssumption
<1> USE DEF Inv, tableVars, redisVars, procVars, countVars, Goto, SetRows, Fault, NoEvent
<1>1. CASE Take(p)
    <2> USE <1>1 DEF Take
    <2>0. PICK e \in todo[p] :
            /\ cur' = [cur EXCEPT ![p] = e]
            /\ todo' = [todo EXCEPT ![p] = @ \ {e}]
            /\ Goto(p, IF e \in Durable THEN "append" ELSE "publish")
        OBVIOUS
    <2>1. e \in Event /\ Committed(e)
        BY DEF TypeOK, TodoCommitted
    <2>2. TypeOK'
        BY <2>0, <2>1 DEF TypeOK, PcState
    <2>3. \A p2 \in Process : p2 # p => pc'[p2] = pc[p2] /\ cur'[p2] = cur[p2]
        BY <2>0 DEF TypeOK
    <2>4. pc'[p] = (IF e \in Durable THEN "append" ELSE "publish") /\ cur'[p] = e
        BY <2>0 DEF TypeOK
    <2>5. ProgressOK'
        BY <2>1, <2>3, <2>4 DEF ProgressOK, Emitting, Committed
    <2>6. todo'[p] \subseteq todo[p] /\ \A p2 \in Process : p2 # p => todo'[p2] = todo[p2]
        BY <2>0 DEF TypeOK
    <2>7. TodoCommitted'
        BY <2>6 DEF TodoCommitted, Committed
    <2>8. OwnRows'
        BY <2>3, <2>4 DEF OwnRows, Process
    <2>9. PublishedIsEmitted' /\ OnlyCommittedIsEmitted'
        BY DEF PublishedIsEmitted, OnlyCommittedIsEmitted, Emitted, Committed
    <2> QED BY <2>2, <2>5, <2>7, <2>8, <2>9
<1>2. CASE Finish(p)
    <2> USE <1>2 DEF Finish
    <2>1. TypeOK'
        BY DEF TypeOK, RowState, LeaseState, PcState
    <2>2. \A f \in Event : Committed(f) => Committed(f)'
        BY DEF Committed, TypeOK, OwnRows, ProgressOK, Emitting
    <2>3. ProgressOK'
        BY <2>2 DEF ProgressOK, TodoCommitted, TypeOK, Emitting, Process
    <2>4. TodoCommitted'
        BY <2>2 DEF TodoCommitted, TypeOK, Process, Committed
    <2>5. OwnRows'
        BY OneOwner DEF OwnRows, TypeOK, Process, TodoCommitted, ProgressOK, Committed, Emitting
    <2>6. PublishedIsEmitted'
        BY DEF PublishedIsEmitted, Emitted, TypeOK, ProgressOK, Committed, Emitting
    <2>7. OnlyCommittedIsEmitted'
        BY <2>2 DEF OnlyCommittedIsEmitted, TypeOK, ProgressOK, Emitting
    <2> QED BY <2>1, <2>3, <2>4, <2>5, <2>6, <2>7
<1>3. CASE XAdd(p)
    <2> USE <1>3 DEF XAdd
    <2>0. cur[p] \in Event /\ Committed(cur[p])
        BY DEF ProgressOK, Emitting
    <2> USE <2>0
    <2>d. /\ appended \in [Event -> Nat]
          /\ appended' = [appended EXCEPT ![cur[p]] = @ + 1]
        BY DEF TypeOK
    <2>a. /\ appended' \in [Event -> Nat]
          /\ \A f \in Event : appended[f] \in Nat /\ appended'[f] >= appended[f]
          /\ appended'[cur[p]] > 0
        BY ONLY <2>0, <2>d, Increment, SMT
    <2>1. TypeOK'
        BY <2>a DEF TypeOK, PcState
    <2>2. \A f \in Event : Committed(f) => Committed(f)'
        BY DEF Committed, TypeOK, OwnRows, ProgressOK, Emitting
    <2>b. \A p2 \in Process : p2 # p => pc'[p2] = pc[p2]
        BY DEF TypeOK
    <2>c. pc'[p] = "publish"
        BY DEF TypeOK
    <2>3. ProgressOK'
        BY <2>a, <2>b, <2>c, <2>2 DEF ProgressOK, Emitting
    <2>4. TodoCommitted'
        BY <2>2 DEF TodoCommitted, TypeOK, Process, Committed
    <2>5. OwnRows'
        BY OneOwner DEF OwnRows, TypeOK, Process, TodoCommitted, ProgressOK, Committed, Emitting
    <2>6. PublishedIsEmitted'
        BY DEF PublishedIsEmitted, Emitted, TypeOK, ProgressOK, Committed, Emitting
    <2>7. OnlyCommittedIsEmitted'
        BY <2>2 DEF OnlyCommittedIsEmitted, TypeOK, ProgressOK, Emitting
    <2> QED BY <2>1, <2>3, <2>4, <2>5, <2>6, <2>7
<1>4. CASE XAddError(p)
    <2> USE <1>4 DEF XAddError
    <2>0. cur[p] \in Event /\ Committed(cur[p])
        BY DEF ProgressOK, Emitting
    <2> USE <2>0
    <2>d. /\ appended \in [Event -> Nat]
          /\ appended' = [appended EXCEPT ![cur[p]] = @ + 1] \/ appended' = appended
        BY DEF TypeOK
    <2>a. /\ appended' \in [Event -> Nat]
          /\ \A f \in Event : appended[f] \in Nat /\ appended'[f] >= appended[f]
      <3>1. CASE appended' = [appended EXCEPT ![cur[p]] = @ + 1]
        BY ONLY <2>0, <2>d, <3>1, Increment, SMT
      <3>2. CASE appended' = appended
        BY ONLY <2>d, <3>2, SMT
      <3> QED BY ONLY <2>d, <3>1, <3>2
    <2>1. TypeOK'
        BY <2>a DEF TypeOK, PcState
    <2>2. \A f \in Event : Committed(f) => Committed(f)'
        BY DEF Committed, TypeOK, OwnRows, ProgressOK, Emitting
    <2>b. \A p2 \in Process : p2 # p => pc'[p2] = pc[p2]
        BY DEF TypeOK
    <2>c. pc'[p] = "next"
        BY DEF TypeOK
    <2>3. ProgressOK'
      <3>1. \A f \in Event : appended[f] > 0 => appended'[f] > 0
        BY ONLY <2>a, SMT
      <3>2. heard' = heard /\ cur' = cur
        OBVIOUS
      <3> QED BY ONLY <3>1, <3>2, <2>b, <2>c, <2>2, ProgressOK, EventAssumption DEF ProgressOK, Emitting
    <2>4. TodoCommitted'
        BY <2>2 DEF TodoCommitted, TypeOK, Process, Committed
    <2>5. OwnRows'
        BY OneOwner DEF OwnRows, TypeOK, Process, TodoCommitted, ProgressOK, Committed, Emitting
    <2>6. PublishedIsEmitted'
        BY DEF PublishedIsEmitted, Emitted, TypeOK, ProgressOK, Committed, Emitting
    <2>7. OnlyCommittedIsEmitted'
        BY <2>2 DEF OnlyCommittedIsEmitted, TypeOK, ProgressOK, Emitting
    <2> QED BY <2>1, <2>3, <2>4, <2>5, <2>6, <2>7
<1>5. CASE Publish(p)
    <2> USE <1>5 DEF Publish
    <2>0. cur[p] \in Event /\ Committed(cur[p])
        BY DEF ProgressOK, Emitting
    <2> USE <2>0
    <2>1. TypeOK'
        BY DEF TypeOK, RowState, LeaseState, PcState
    <2>2. \A f \in Event : Committed(f) => Committed(f)'
        BY DEF Committed, TypeOK, OwnRows, ProgressOK, Emitting
    <2>3. ProgressOK'
        BY <2>2 DEF ProgressOK, TodoCommitted, TypeOK, Emitting, Process
    <2>4. TodoCommitted'
        BY <2>2 DEF TodoCommitted, TypeOK, Process, Committed
    <2>5. OwnRows'
        BY OneOwner DEF OwnRows, TypeOK, Process, TodoCommitted, ProgressOK, Committed, Emitting
    <2>6. PublishedIsEmitted'
        BY DEF PublishedIsEmitted, Emitted, TypeOK, ProgressOK, Committed, Emitting
    <2>7. OnlyCommittedIsEmitted'
        BY <2>2 DEF OnlyCommittedIsEmitted, TypeOK, ProgressOK, Emitting
    <2> QED BY <2>1, <2>3, <2>4, <2>5, <2>6, <2>7
<1>6. CASE PublishError(p)
    <2> USE <1>6 DEF PublishError
    <2>0. cur[p] \in Event /\ Committed(cur[p])
        BY DEF ProgressOK, Emitting
    <2> USE <2>0
    <2>1. TypeOK'
        BY DEF TypeOK, RowState, LeaseState, PcState
    <2>2. \A f \in Event : Committed(f) => Committed(f)'
        BY DEF Committed, TypeOK, OwnRows, ProgressOK, Emitting
    <2>3. ProgressOK'
        BY <2>2 DEF ProgressOK, TodoCommitted, TypeOK, Emitting, Process
    <2>4. TodoCommitted'
        BY <2>2 DEF TodoCommitted, TypeOK, Process, Committed
    <2>5. OwnRows'
        BY OneOwner DEF OwnRows, TypeOK, Process, TodoCommitted, ProgressOK, Committed, Emitting
    <2>6. PublishedIsEmitted'
        BY DEF PublishedIsEmitted, Emitted, TypeOK, ProgressOK, Committed, Emitting
    <2>7. OnlyCommittedIsEmitted'
        BY <2>2 DEF OnlyCommittedIsEmitted, TypeOK, ProgressOK, Emitting
    <2> QED BY <2>1, <2>3, <2>4, <2>5, <2>6, <2>7
<1>7. CASE MarkPublished(p)
    <2> USE <1>7 DEF MarkPublished
    <2>0. cur[p] \in Event /\ Committed(cur[p])
        BY DEF ProgressOK, Emitting
    <2> USE <2>0
    <2>1. TypeOK'
        BY DEF TypeOK, RowState, LeaseState, PcState
    <2>2. \A f \in Event : Committed(f) => Committed(f)'
        BY DEF Committed, TypeOK, OwnRows, ProgressOK, Emitting
    <2>3. ProgressOK'
        BY <2>2 DEF ProgressOK, TodoCommitted, TypeOK, Emitting, Process
    <2>4. TodoCommitted'
        BY <2>2 DEF TodoCommitted, TypeOK, Process, Committed
    <2>5. OwnRows'
        BY OneOwner DEF OwnRows, TypeOK, Process, TodoCommitted, ProgressOK, Committed, Emitting
    <2>6. PublishedIsEmitted'
        BY DEF PublishedIsEmitted, Emitted, TypeOK, ProgressOK, Committed, Emitting
    <2>7. OnlyCommittedIsEmitted'
        BY <2>2 DEF OnlyCommittedIsEmitted, TypeOK, ProgressOK, Emitting
    <2> QED BY <2>1, <2>3, <2>4, <2>5, <2>6, <2>7
<1>8. CASE MarkError(p)
    <2> USE <1>8 DEF MarkError
    <2>0. cur[p] \in Event /\ Committed(cur[p])
        BY DEF ProgressOK, Emitting
    <2> USE <2>0
    <2>1. TypeOK'
        BY DEF TypeOK, RowState, LeaseState, PcState
    <2>2. \A f \in Event : Committed(f) => Committed(f)'
        BY DEF Committed, TypeOK, OwnRows, ProgressOK, Emitting
    <2>3. ProgressOK'
        BY <2>2 DEF ProgressOK, TodoCommitted, TypeOK, Emitting, Process
    <2>4. TodoCommitted'
        BY <2>2 DEF TodoCommitted, TypeOK, Process, Committed
    <2>5. OwnRows'
        BY OneOwner DEF OwnRows, TypeOK, Process, TodoCommitted, ProgressOK, Committed, Emitting
    <2>6. PublishedIsEmitted'
        BY DEF PublishedIsEmitted, Emitted, TypeOK, ProgressOK, Committed, Emitting
    <2>7. OnlyCommittedIsEmitted'
        BY <2>2 DEF OnlyCommittedIsEmitted, TypeOK, ProgressOK, Emitting
    <2> QED BY <2>1, <2>3, <2>4, <2>5, <2>6, <2>7
<1> QED BY <1>1, <1>2, <1>3, <1>4, <1>5, <1>6, <1>7, <1>8 DEF EmitStep

LEMMA ClockInv ==
    ASSUME Inv, NEW e \in Event, GraceElapses(e) \/ LeaseLapses(e)
    PROVE  Inv'
<1> USE EventAssumption, ProcessAssumption, RequestAssumption, BoundAssumption
<1> USE DEF Inv, tableVars, redisVars, procVars, countVars, Goto, SetRows, Fault, NoEvent
<1>1. CASE GraceElapses(e)
    <2> USE <1>1 DEF GraceElapses
    <2>1. TypeOK'
        BY DEF TypeOK, RowState, LeaseState, PcState
    <2>2. \A f \in Event : Committed(f) => Committed(f)'
        BY DEF Committed, TypeOK, OwnRows, ProgressOK, Emitting
    <2>3. ProgressOK'
        BY <2>2 DEF ProgressOK, TodoCommitted, TypeOK, Emitting, Process
    <2>4. TodoCommitted'
        BY <2>2 DEF TodoCommitted, TypeOK, Process, Committed
    <2>5. OwnRows'
        BY OneOwner DEF OwnRows, TypeOK, Process, TodoCommitted, ProgressOK, Committed, Emitting
    <2>6. PublishedIsEmitted'
        BY DEF PublishedIsEmitted, Emitted, TypeOK, ProgressOK, Committed, Emitting
    <2>7. OnlyCommittedIsEmitted'
        BY <2>2 DEF OnlyCommittedIsEmitted, TypeOK, ProgressOK, Emitting
    <2> QED BY <2>1, <2>3, <2>4, <2>5, <2>6, <2>7
<1>2. CASE LeaseLapses(e)
    <2> USE <1>2 DEF LeaseLapses
    <2>1. TypeOK'
        BY DEF TypeOK, RowState, LeaseState, PcState
    <2>2. \A f \in Event : Committed(f) => Committed(f)'
        BY DEF Committed, TypeOK, OwnRows, ProgressOK, Emitting
    <2>3. ProgressOK'
        BY <2>2 DEF ProgressOK, TodoCommitted, TypeOK, Emitting, Process
    <2>4. TodoCommitted'
        BY <2>2 DEF TodoCommitted, TypeOK, Process, Committed
    <2>5. OwnRows'
        BY OneOwner DEF OwnRows, TypeOK, Process, TodoCommitted, ProgressOK, Committed, Emitting
    <2>6. PublishedIsEmitted'
        BY DEF PublishedIsEmitted, Emitted, TypeOK, ProgressOK, Committed, Emitting
    <2>7. OnlyCommittedIsEmitted'
        BY <2>2 DEF OnlyCommittedIsEmitted, TypeOK, ProgressOK, Emitting
    <2> QED BY <2>1, <2>3, <2>4, <2>5, <2>6, <2>7
<1> QED BY <1>1, <1>2

LEMMA NextInv == Inv /\ [Next]_vars => Inv'
<1> SUFFICES ASSUME Inv, [Next]_vars PROVE Inv'
    OBVIOUS
<1>1. CASE UNCHANGED vars
    BY <1>1 DEF vars, Inv, TypeOK, ProgressOK, TodoCommitted, OwnRows, PublishedIsEmitted,
        OnlyCommittedIsEmitted, Emitted, Committed
<1>2. CASE Next
    BY <1>2, RequestStepInv, RelayStepInv, EmitStepInv, ClockInv DEF Next, Clock
<1> QED BY <1>1, <1>2

(* Every variable stays in its domain (publisher.rs, outbox.rs). *)
THEOREM OutboxTypeOK == Safe => []TypeOK
<1>1. Inv => TypeOK
    BY DEF Inv
<1> QED BY <1>1, InitInv, NextInv, PTL DEF Safe

(* mark_published and the prune of relay_once never hide an event that has *)
(* not been emitted, with any number of requests, relays and failures.     *)
THEOREM OutboxPublishedIsEmitted == Safe => []PublishedIsEmitted
<1>1. Inv => PublishedIsEmitted
    BY DEF Inv
<1> QED BY <1>1, InitInv, NextInv, PTL DEF Safe

(* emit never runs for an event of an open or rolled back transaction. *)
THEOREM OutboxOnlyCommittedIsEmitted == Safe => []OnlyCommittedIsEmitted
<1>1. Inv => OnlyCommittedIsEmitted
    BY DEF Inv
<1> QED BY <1>1, InitInv, NextInv, PTL DEF Safe

-----------------------------------------------------------------------------
(* How often an event is emitted, and by how many at a time.               *)

(* Processes that may still append e. *)
Appenders(e) ==
    {p \in Process : e \in todo[p] \/ (pc[p] = "append" /\ cur[p] = e)}

(* Times e was claimed: every lease but the one that is held has lapsed. *)
Claims(e) == lapses[e] + (IF lease[e] = "held" THEN 1 ELSE 0)

(* The fast path's entry, and one for each claim. *)
Allowed(e) == Claims(e) + (IF Committed(e) THEN 1 ELSE 0)

(* A process that is not emitting has nothing to emit, and the event in    *)
(* hand is not on its list any more.                                       *)
HandsOK ==
    \A p \in Process :
        /\ pc[p] \notin Emitting \cup {"next"} => todo[p] = {}
        /\ pc[p] \in Emitting => cur[p] \notin todo[p]

EmissionOK ==
    \A e \in Event :
        /\ IsFiniteSet(Appenders(e)) /\ IsFiniteSet(HoldersOf(e))
        /\ appended[e] + Cardinality(Appenders(e)) <= Allowed(e)
        /\ Cardinality(HoldersOf(e)) <= Claims(e)

EInv == Inv /\ HandsOK /\ EmissionOK

(* What a step does to e: nothing, somebody more may append it, at the     *)
(* cost of a claim or the commit, or one of those who may does.            *)
Spends(e) ==
    \/ /\ Appenders(e)' \subseteq Appenders(e)
       /\ appended'[e] = appended[e] /\ Allowed(e)' >= Allowed(e)
    \/ \E p \in Process : /\ Appenders(e)' \subseteq Appenders(e) \cup {p}
                          /\ appended'[e] = appended[e] /\ Allowed(e)' >= Allowed(e) + 1
    \/ \E p \in Appenders(e) : /\ Appenders(e)' \subseteq Appenders(e) \ {p}
                               /\ appended'[e] = appended[e] + 1
                               /\ Allowed(e)' >= Allowed(e)

(* ... and to those who hold it: one more for one claim more. *)
Shares(e) ==
    \/ HoldersOf(e)' \subseteq HoldersOf(e) /\ Claims(e)' >= Claims(e)
    \/ \E p \in Process : /\ HoldersOf(e)' \subseteq HoldersOf(e) \cup {p}
                          /\ Claims(e)' >= Claims(e) + 1

LEMMA FewerOrOneMore ==
    ASSUME NEW S, IsFiniteSet(S), NEW p
    PROVE  /\ Cardinality(S) \in Nat
           /\ \A T \in SUBSET S : IsFiniteSet(T) /\ Cardinality(T) \in Nat
                                  /\ Cardinality(T) <= Cardinality(S)
           /\ \A T \in SUBSET (S \cup {p}) : IsFiniteSet(T) /\ Cardinality(T) \in Nat
                                  /\ Cardinality(T) <= Cardinality(S) + 1
           /\ p \in S => \A T \in SUBSET (S \ {p}) : IsFiniteSet(T) /\ Cardinality(T) \in Nat
                                  /\ Cardinality(T) + 1 <= Cardinality(S)
<1>1. Cardinality(S) \in Nat
    BY FS_CardinalityType
<1>2. /\ IsFiniteSet(S \cup {p})
      /\ Cardinality(S \cup {p}) = IF p \in S THEN Cardinality(S) ELSE Cardinality(S) + 1
    BY FS_AddElement
<1>3. /\ IsFiniteSet(S \ {p})
      /\ Cardinality(S \ {p}) = IF p \in S THEN Cardinality(S) - 1 ELSE Cardinality(S)
    BY FS_RemoveElement
<1>4. ASSUME NEW U, IsFiniteSet(U), NEW T \in SUBSET U
      PROVE  IsFiniteSet(T) /\ Cardinality(T) \in Nat /\ Cardinality(T) <= Cardinality(U)
    BY <1>4, FS_Subset, FS_CardinalityType
<1>5. \A T \in SUBSET S : IsFiniteSet(T) /\ Cardinality(T) \in Nat
                          /\ Cardinality(T) <= Cardinality(S)
    BY <1>4
<1>6. \A T \in SUBSET (S \cup {p}) : IsFiniteSet(T) /\ Cardinality(T) \in Nat
                          /\ Cardinality(T) <= Cardinality(S) + 1
    BY <1>1, <1>2, <1>4
<1>7. p \in S => \A T \in SUBSET (S \ {p}) : IsFiniteSet(T) /\ Cardinality(T) \in Nat
                          /\ Cardinality(T) + 1 <= Cardinality(S)
    BY <1>1, <1>3, <1>4
<1> QED BY <1>1, <1>5, <1>6, <1>7

LEMMA EmissionStep ==
    ASSUME Inv, Inv', EmissionOK, \A e \in Event : Spends(e) /\ Shares(e)
    PROVE  EmissionOK'
<1> SUFFICES ASSUME NEW e \in Event
             PROVE  /\ IsFiniteSet(Appenders(e)') /\ IsFiniteSet(HoldersOf(e)')
                    /\ appended'[e] + Cardinality(Appenders(e)') <= Allowed(e)'
                    /\ Cardinality(HoldersOf(e)') <= Claims(e)'
    BY DEF EmissionOK
<1>1. /\ appended[e] \in Nat /\ appended'[e] \in Nat
      /\ Allowed(e) \in Nat /\ Allowed(e)' \in Nat /\ Claims(e) \in Nat /\ Claims(e)' \in Nat
    BY DEF Inv, TypeOK, Allowed, Claims
<1>2. /\ IsFiniteSet(Appenders(e)) /\ IsFiniteSet(HoldersOf(e))
      /\ appended[e] + Cardinality(Appenders(e)) <= Allowed(e)
      /\ Cardinality(HoldersOf(e)) <= Claims(e)
    BY DEF EmissionOK
<1>3. /\ IsFiniteSet(Appenders(e)')
      /\ appended'[e] + Cardinality(Appenders(e)') <= Allowed(e)'
    <2>1. CASE Appenders(e)' \subseteq Appenders(e)
               /\ appended'[e] = appended[e] /\ Allowed(e)' >= Allowed(e)
        BY <1>1, <1>2, <2>1, FewerOrOneMore
    <2>2. ASSUME NEW p \in Process, Appenders(e)' \subseteq Appenders(e) \cup {p},
                 appended'[e] = appended[e], Allowed(e)' >= Allowed(e) + 1
          PROVE  IsFiniteSet(Appenders(e)')
                 /\ appended'[e] + Cardinality(Appenders(e)') <= Allowed(e)'
        BY <1>1, <1>2, <2>2, FewerOrOneMore
    <2>3. ASSUME NEW p \in Appenders(e), Appenders(e)' \subseteq Appenders(e) \ {p},
                 appended'[e] = appended[e] + 1, Allowed(e)' >= Allowed(e)
          PROVE  IsFiniteSet(Appenders(e)')
                 /\ appended'[e] + Cardinality(Appenders(e)') <= Allowed(e)'
        BY <1>1, <1>2, <2>3, FewerOrOneMore
    <2> QED BY <2>1, <2>2, <2>3 DEF Spends
<1>4. IsFiniteSet(HoldersOf(e)') /\ Cardinality(HoldersOf(e)') <= Claims(e)'
    <2>1. CASE HoldersOf(e)' \subseteq HoldersOf(e) /\ Claims(e)' >= Claims(e)
        BY <1>1, <1>2, <2>1, FewerOrOneMore
    <2>2. ASSUME NEW p \in Process, HoldersOf(e)' \subseteq HoldersOf(e) \cup {p},
                 Claims(e)' >= Claims(e) + 1
          PROVE  IsFiniteSet(HoldersOf(e)') /\ Cardinality(HoldersOf(e)') <= Claims(e)'
        BY <1>1, <1>2, <2>2, FewerOrOneMore
    <2> QED BY <2>1, <2>2 DEF Shares
<1> QED BY <1>3, <1>4

(* Nobody is given an event and none is appended. *)
Lets ==
    /\ \A p \in Process : /\ todo'[p] \subseteq todo[p]
                          /\ pc'[p] \in Emitting =>
                                 \/ pc[p] \in Emitting /\ cur'[p] = cur[p]
                                    /\ (pc'[p] = "append" => pc[p] = "append")
                                 \/ cur'[p] \in todo[p] \ todo'[p]
    /\ UNCHANGED appended
    /\ \A e \in Event : Claims(e)' >= Claims(e) /\ (Committed(e) => Committed(e)')

LEMMA LetsStep ==
    ASSUME Inv, Inv', Lets
    PROVE  \A e \in Event : Spends(e) /\ Shares(e)
<1> SUFFICES ASSUME NEW e \in Event PROVE Spends(e) /\ Shares(e)
    OBVIOUS
<1>1. Claims(e) \in Nat /\ Claims(e)' \in Nat
    BY DEF Inv, TypeOK, Claims
<1>2. Allowed(e)' >= Allowed(e)
    BY <1>1 DEF Lets, Allowed
<1>3. Appenders(e)' \subseteq Appenders(e)
    BY DEF Lets, Appenders, Emitting
<1>4. HoldersOf(e)' \subseteq HoldersOf(e)
    BY DEF Lets, HoldersOf, InHand, Process, Emitting
<1> QED BY <1>1, <1>2, <1>3, <1>4 DEF Spends, Shares, Lets

(* Committed events stay committed, which the commit is for. *)
LEMMA EmissionRequestStep ==
    ASSUME EInv, Inv', NEW q \in Request, RequestStep(q)
    PROVE  HandsOK' /\ \A e \in Event : Spends(e) /\ Shares(e)
<1> USE ProcessAssumption, RequestAssumption
    DEF EInv, tableVars, redisVars, procVars, countVars, Goto, Fault
<1>1. q \in Process /\ EventsOf[q] \subseteq Event /\ q \notin Relay
    BY DEF Process
<1>2. HandsOK'
    BY <1>1 DEF RequestStep, Stage, Commit, CommitUnanswered, Rollback, Abandon, HandsOK,
        Emitting, Inv, TypeOK
<1>3. \A e \in Event : Claims(e)' = Claims(e)
    BY DEF RequestStep, Stage, Commit, CommitUnanswered, Rollback, Abandon, Claims
<1>4. \A e \in Event : Committed(e) => Committed(e)'
    BY <1>1 DEF RequestStep, Stage, Commit, CommitUnanswered, Rollback, Abandon, Committed,
        SetRows, Inv, OwnRows
<1>5. CASE ~Commit(q)
    <2>1. \A p \in Process : todo'[p] \subseteq todo[p]
        BY <1>1, <1>5 DEF RequestStep, Stage, CommitUnanswered, Rollback, Abandon, Inv, TypeOK
    <2>2. \A p \in Process : pc'[p] \in Emitting => pc'[p] = pc[p] /\ cur'[p] = cur[p]
        BY <1>1, <1>5 DEF RequestStep, Stage, CommitUnanswered, Rollback, Abandon, Inv,
            TypeOK, Emitting
    <2>3. UNCHANGED appended
        BY <1>5 DEF RequestStep, Stage, CommitUnanswered, Rollback, Abandon
    <2>4. Lets
        BY <1>3, <1>4, <2>1, <2>2, <2>3 DEF Lets, Claims, Inv, TypeOK
    <2> QED BY <1>2, <2>4, LetsStep
<1>6. CASE Commit(q)
    <2> SUFFICES ASSUME NEW e \in Event PROVE Spends(e) /\ Shares(e)
        BY <1>2
    <2>1. Claims(e) \in Nat
        BY DEF Inv, TypeOK, Claims
    <2>2. HoldersOf(e)' \subseteq HoldersOf(e)
        BY <1>1, <1>6 DEF Commit, HoldersOf, InHand, Process, Inv, TypeOK
    <2>3. Appenders(e)' \subseteq Appenders(e) \cup {q}
        BY <1>1, <1>6 DEF Commit, Appenders, Inv, TypeOK
    <2>4. UNCHANGED appended
        BY <1>6 DEF Commit
    <2>5. CASE e \in EventsOf[q]
        <3>1. ~Committed(e) /\ Committed(e)'
            BY <1>6, <2>5 DEF Commit, SetRows, Inv, OwnRows, Committed
        <3>2. Allowed(e)' >= Allowed(e) + 1
            BY <1>3, <2>1, <3>1 DEF Allowed
        <3> QED BY <1>1, <1>3, <2>1, <2>2, <2>3, <2>4, <3>2 DEF Spends, Shares
    <2>6. CASE e \notin EventsOf[q]
        <3>1. Appenders(e)' \subseteq Appenders(e)
            BY <1>1, <1>6, <2>6 DEF Commit, Appenders, Inv, TypeOK
        <3>2. Allowed(e)' >= Allowed(e)
            BY <1>3, <1>4, <2>1 DEF Allowed
        <3> QED BY <1>3, <2>1, <2>2, <2>4, <3>1, <3>2 DEF Spends, Shares
    <2> QED BY <2>5, <2>6
<1> QED BY <1>5, <1>6

(* A claim gives each row it takes to one relay more and counts for it. *)
LEMMA EmissionRelayStep ==
    ASSUME EInv, Inv', NEW r \in Relay, RelayStep(r)
    PROVE  HandsOK' /\ \A e \in Event : Spends(e) /\ Shares(e)
<1> USE ProcessAssumption
    DEF EInv, tableVars, redisVars, procVars, countVars, Goto, Fault
<1>1. r \in Process
    BY DEF Process
<1>2. \A e \in Event : Committed(e) => Committed(e)'
    BY DEF RelayStep, Claim, ClaimUnanswered, Prune, Restart, SetRows, Committed
<1>3. HandsOK'
    <2>1. CASE ClaimUnanswered(r) \/ Prune(r) \/ Restart(r)
        BY <1>1, <2>1 DEF ClaimUnanswered, Prune, Restart, HandsOK, Emitting, Inv, TypeOK
    <2>2. CASE Claim(r)
        BY <1>1, <2>2 DEF Claim, HandsOK, Emitting, Inv, TypeOK
    <2> QED BY <2>1, <2>2 DEF RelayStep
<1>4. CASE ~Claim(r)
    <2>1. \A e \in Event : Claims(e)' >= Claims(e)
        <3>1. \A e \in Event : lapses[e] \in Nat /\ lapses'[e] = lapses[e]
            BY <1>4 DEF RelayStep, ClaimUnanswered, Prune, Restart, Inv, TypeOK
        <3>2. \A e \in Event : lease[e] = "held" => lease'[e] = "held"
            BY <1>4 DEF RelayStep, ClaimUnanswered, Prune, Restart
        <3> QED BY <3>1, <3>2 DEF Claims
    <2>2. \A p \in Process : todo'[p] \subseteq todo[p]
        BY <1>1, <1>4 DEF RelayStep, ClaimUnanswered, Prune, Restart, Inv, TypeOK
    <2>3. \A p \in Process : pc'[p] \in Emitting => pc'[p] = pc[p] /\ cur'[p] = cur[p]
        BY <1>1, <1>4 DEF RelayStep, ClaimUnanswered, Prune, Restart, Inv, TypeOK, Emitting
    <2>4. UNCHANGED appended
        BY <1>4 DEF RelayStep, ClaimUnanswered, Prune, Restart
    <2>5. Lets
        BY <1>2, <2>1, <2>2, <2>3, <2>4 DEF Lets
    <2> QED BY <1>3, <2>5, LetsStep
<1>5. CASE Claim(r)
    <2> SUFFICES ASSUME NEW e \in Event PROVE Spends(e) /\ Shares(e)
        BY <1>3
    <2>1. lapses[e] \in Nat /\ UNCHANGED <<appended, lapses, row>>
        BY <1>5 DEF Claim, Inv, TypeOK
    <2>2. pc[r] = "idle" /\ todo[r] = {}
        BY <1>1, <1>5 DEF Claim, HandsOK, Emitting
    <2>3. /\ Appenders(e)' \subseteq Appenders(e) \cup {r}
          /\ HoldersOf(e)' \subseteq HoldersOf(e) \cup {r}
          /\ e \notin Claimable => Appenders(e)' \subseteq Appenders(e)
                                   /\ HoldersOf(e)' \subseteq HoldersOf(e)
        BY <1>1, <1>5 DEF Claim, Appenders, HoldersOf, InHand, Inv, TypeOK, Process
    <2>4. e \in Claimable => lease[e] # "held" /\ lease'[e] = "held"
        BY <1>5 DEF Claim, Claimable, Due
    <2>5. e \notin Claimable => lease'[e] = lease[e]
        BY <1>5 DEF Claim
    <2>6. CASE e \in Claimable
        <3>1. Claims(e)' >= Claims(e) + 1 /\ Allowed(e)' >= Allowed(e) + 1
            BY <2>1, <2>4, <2>6 DEF Claims, Allowed, Committed
        <3> QED BY <1>1, <2>1, <2>3, <3>1 DEF Spends, Shares
    <2>7. CASE e \notin Claimable
        <3>1. Claims(e)' >= Claims(e) /\ Allowed(e)' >= Allowed(e)
            BY <2>1, <2>5, <2>7 DEF Claims, Allowed, Committed
        <3> QED BY <2>1, <2>3, <2>7, <3>1 DEF Spends, Shares
    <2> QED BY <2>6, <2>7
<1> QED BY <1>4, <1>5

(* Emitting spends: a process appends what it holds once. *)
LEMMA EmissionEmitStep ==
    ASSUME EInv, Inv', NEW p \in Process, EmitStep(p)
    PROVE  HandsOK' /\ \A e \in Event : Spends(e) /\ Shares(e)
<1> USE DEF EInv, tableVars, redisVars, procVars, countVars, Goto, Fault
<1>1. \A e \in Event : /\ Claims(e)' = Claims(e) /\ Claims(e) \in Nat
                       /\ Committed(e) => Committed(e)'
    BY DEF EmitStep, Take, Finish, XAdd, XAddError, Publish, PublishError, MarkPublished,
        MarkError, SetRows, Claims, Committed, Inv, TypeOK
<1>2. HandsOK'
    <2>1. CASE Take(p)
        BY <2>1 DEF Take, HandsOK, Emitting, Inv, TypeOK
    <2>2. CASE Finish(p)
        BY <2>2 DEF Finish, HandsOK, Emitting, Inv, TypeOK
    <2>3. CASE /\ pc[p] \in Emitting
               /\ \E l \in Emitting \cup {"next"} : pc' = [pc EXCEPT ![p] = l]
               /\ UNCHANGED <<todo, cur>>
        BY <2>3 DEF HandsOK, Emitting, Inv, TypeOK
    <2> QED BY <2>1, <2>2, <2>3 DEF EmitStep, XAdd, XAddError, Publish, PublishError,
            MarkPublished, MarkError, Emitting
<1>3. CASE UNCHANGED appended
    <2>1. \A x \in Process : todo'[x] \subseteq todo[x]
        BY <1>3 DEF EmitStep, Take, Finish, XAdd, XAddError, Publish, PublishError,
            MarkPublished, MarkError, Inv, TypeOK
    <2>2. ASSUME NEW x \in Process, pc'[x] \in Emitting
          PROVE  \/ pc[x] \in Emitting /\ cur'[x] = cur[x]
                    /\ (pc'[x] = "append" => pc[x] = "append")
                 \/ cur'[x] \in todo[x] \ todo'[x]
        <3>1. CASE x # p
            BY <2>2, <3>1 DEF EmitStep, Take, Finish, XAdd, XAddError, Publish, PublishError,
                MarkPublished, MarkError, Inv, TypeOK
        <3>2. CASE x = p /\ Take(p)
            BY <3>2 DEF Take, Inv, TypeOK
        <3>3. CASE x = p /\ ~Take(p)
            BY <2>2, <3>3 DEF EmitStep, Finish, XAdd, XAddError, Publish, PublishError,
                MarkPublished, MarkError, Inv, TypeOK, Emitting
        <3> QED BY <3>1, <3>2, <3>3
    <2>3. Lets
        BY <1>1, <1>3, <2>1, <2>2 DEF Lets
    <2> QED BY <1>2, <2>3, LetsStep
<1>4. CASE appended' # appended
    <2>1. /\ pc[p] = "append" /\ appended' = [appended EXCEPT ![cur[p]] = @ + 1]
          /\ cur[p] \in Event /\ cur[p] \notin todo[p]
          /\ UNCHANGED <<todo, cur>>
          /\ \E l \in {"publish", "next"} : pc' = [pc EXCEPT ![p] = l]
        BY <1>4 DEF EmitStep, Take, Finish, XAdd, XAddError, Publish, PublishError,
            MarkPublished, MarkError, Inv, ProgressOK, HandsOK, Emitting
    <2> SUFFICES ASSUME NEW e \in Event PROVE Spends(e) /\ Shares(e)
        BY <1>2
    <2>2. Allowed(e)' >= Allowed(e) /\ Allowed(e) \in Nat
        BY <1>1 DEF Allowed
    <2>3. HoldersOf(e)' \subseteq HoldersOf(e)
        BY <2>1 DEF HoldersOf, InHand, Inv, TypeOK, Process
    <2>4. CASE e = cur[p]
        <3>1. p \in Appenders(e) /\ Appenders(e)' \subseteq Appenders(e) \ {p}
            BY <2>1, <2>4 DEF Appenders, Inv, TypeOK
        <3>2. appended'[e] = appended[e] + 1
            BY <2>1, <2>4 DEF Inv, TypeOK
        <3> QED BY <1>1, <2>2, <2>3, <3>1, <3>2 DEF Spends, Shares
    <2>5. CASE e # cur[p]
        <3>1. Appenders(e)' \subseteq Appenders(e)
            BY <2>1, <2>5 DEF Appenders, Inv, TypeOK
        <3>2. appended'[e] = appended[e]
            BY <2>1, <2>5 DEF Inv, TypeOK
        <3> QED BY <1>1, <2>2, <2>3, <3>1, <3>2 DEF Spends, Shares
    <2> QED BY <2>4, <2>5
<1> QED BY <1>3, <1>4

LEMMA EmissionClockStep ==
    ASSUME EInv, Inv', Clock \/ UNCHANGED vars
    PROVE  HandsOK' /\ \A e \in Event : Spends(e) /\ Shares(e)
<1> USE DEF EInv, tableVars, redisVars, procVars, countVars
<1>1. UNCHANGED <<appended, row, pc, todo, cur>>
    BY DEF Clock, GraceElapses, LeaseLapses, vars
<1>2. HandsOK'
    BY <1>1 DEF HandsOK
<1>3. \A e \in Event : Claims(e)' >= Claims(e)
    BY DEF Clock, GraceElapses, LeaseLapses, vars, Claims, Inv, TypeOK, LeaseState
<1>4. Lets
    BY <1>1, <1>3 DEF Lets, Committed, Emitting
<1> QED BY <1>2, <1>4, LetsStep

LEMMA EmissionInvariant == Safe => []EInv
<1>1. Init => EInv
    <2> SUFFICES ASSUME Init PROVE HandsOK /\ EmissionOK
        BY InitInv DEF EInv
    <2>1. HandsOK
        BY DEF Init, HandsOK, Emitting, Process
    <2>2. \A e \in Event : Appenders(e) = {} /\ HoldersOf(e) = {} /\ appended[e] = 0
                           /\ Claims(e) \in Nat /\ Allowed(e) \in Nat
        BY DEF Init, Appenders, HoldersOf, InHand, Claims, Allowed, Process
    <2>3. IsFiniteSet({}) /\ Cardinality({}) = 0
        BY FS_EmptySet
    <2>4. ASSUME NEW e \in Event
          PROVE  /\ IsFiniteSet(Appenders(e)) /\ Cardinality(Appenders(e)) = 0
                 /\ IsFiniteSet(HoldersOf(e)) /\ Cardinality(HoldersOf(e)) = 0
        BY <2>2, <2>3
    <2>5. EmissionOK
        BY <2>2, <2>4 DEF EmissionOK
    <2> QED BY <2>1, <2>5
<1>2. EInv /\ [Next]_vars => EInv'
    <2> SUFFICES ASSUME EInv, [Next]_vars PROVE EInv'
        OBVIOUS
    <2>1. Inv'
        BY NextInv DEF EInv
    <2>2. HandsOK' /\ \A e \in Event : Spends(e) /\ Shares(e)
        BY <2>1, EmissionRequestStep, EmissionRelayStep, EmissionEmitStep, EmissionClockStep
            DEF Next
    <2> QED BY <2>1, <2>2, EmissionStep DEF EInv
<1> QED BY <1>1, <1>2, PTL DEF Safe

(* claimed_at and SKIP LOCKED: a relay more holds a row, and an entry more *)
(* is in the stream, only for a lease that ran out (relay_once, emit).     *)
THEOREM OutboxEmissionIsBounded == Safe => []EmissionIsBounded
<1>1. EInv => EmissionIsBounded
    <2> SUFFICES ASSUME EInv, NEW e \in Event
                 PROVE  Cardinality(HoldersOf(e)) <= 1 + lapses[e] /\ appended[e] <= 2 + lapses[e]
        BY DEF EInv, Inv, EmissionIsBounded, LeaseLimitsHolders, DuplicatesBounded
    <2>1. Cardinality(HoldersOf(e)) \in Nat /\ Cardinality(Appenders(e)) \in Nat
        BY FS_CardinalityType DEF EInv, EmissionOK
    <2> QED BY <2>1 DEF EInv, EmissionOK, Inv, TypeOK, Allowed, Claims
<1> QED BY <1>1, EmissionInvariant, PTL

-----------------------------------------------------------------------------
(* Refinement *)

Accepted == {e \in Event : Committed(e)}
Owed     == {e \in Event : row[e] = "unpublished"}
Logged   == {e \in Event : appended[e] > 0}

Hidden == Accepted' = Accepted /\ Owed' = Owed /\ Logged' = Logged /\ heard' = heard

LEMMA HiddenStutters == Hidden => UNCHANGED Promise!vars
BY DEF Hidden, Accepted, Owed, Logged, Promise!vars

(* Staging, rolling back and abandoning are invisible; both commits accept *)
(* the request's events.                                                   *)
LEMMA RequestStepRefines ==
    ASSUME Inv, NEW q \in Request, RequestStep(q)
    PROVE  [Promise!Next]_(Promise!vars)
<1> USE RequestAssumption DEF Inv, redisVars, SetRows
<1>0. EventsOf[q] \subseteq Event
    OBVIOUS
<1>1. CASE Stage(q) \/ Rollback(q) \/ Abandon(q)
    <2>1. Hidden
        BY <1>0, <1>1 DEF Hidden, Accepted, Owed, Logged, Stage, Rollback, Abandon, Committed,
            OwnRows, TypeOK
    <2> QED BY <2>1, HiddenStutters
<1>2. CASE Commit(q) \/ CommitUnanswered(q)
    <2>1. /\ Accepted' = Accepted \cup EventsOf[q]
          /\ Owed' = Owed \cup EventsOf[q]
          /\ EventsOf[q] \cap Accepted = {}
          /\ Logged' = Logged /\ heard' = heard
        BY <1>0, <1>2 DEF Accepted, Owed, Logged, Commit, CommitUnanswered, Committed,
            OwnRows, TypeOK
    <2>2. CASE EventsOf[q] = {}
        BY <2>1, <2>2, HiddenStutters DEF Hidden
    <2>3. CASE EventsOf[q] # {}
        <3>1. Promise!Accept(EventsOf[q])
            BY <2>1, <2>3 DEF Promise!Accept, Accepted, Owed, Logged
        <3> QED BY <1>0, <3>1 DEF Promise!Next
    <2> QED BY <2>2, <2>3
<1> QED BY <1>1, <1>2 DEF RequestStep

LEMMA RelayStepRefines ==
    ASSUME Inv, NEW r \in Relay, RelayStep(r)
    PROVE  [Promise!Next]_(Promise!vars)
<1>1. Hidden
    BY DEF Inv, RelayStep, Claim, ClaimUnanswered, Prune, Restart, SetRows, redisVars,
        tableVars, Hidden, Accepted, Owed, Logged, Committed, TypeOK
<1> QED BY <1>1, HiddenStutters

LEMMA VisibleSteps ==
    ASSUME NEW e \in Event,
           Promise!Log(e) \/ Promise!Announce(e) \/ Promise!Discharge(e)
    PROVE  [Promise!Next]_(Promise!vars)
<1>1. Promise!Next
    BY Zenon DEF Promise!Next
<1> QED BY <1>1

(* XADD logs, PUBLISH announces, mark_published discharges; on an error    *)
(* the first two may or may not have happened.                             *)
LEMMA EmitStepRefines ==
    ASSUME Inv, NEW p \in Process, EmitStep(p)
    PROVE  [Promise!Next]_(Promise!vars)
<1> USE DEF Inv, redisVars, tableVars
<1>1. CASE Take(p) \/ Finish(p) \/ MarkError(p)
    <2>1. Hidden
        BY <1>1 DEF Take, Finish, MarkError, Hidden, Accepted, Owed, Logged, Committed
    <2> QED BY <2>1, HiddenStutters
<1>2. CASE XAdd(p) \/ XAddError(p)
    <2>1. PICK e \in Event : cur[p] = e /\ Committed(e)
        BY <1>2 DEF XAdd, XAddError, ProgressOK, Emitting
    <2>2. Accepted' = Accepted /\ Owed' = Owed /\ heard' = heard
        BY <1>2 DEF XAdd, XAddError, Accepted, Owed, Committed
    <2>3. CASE appended' = appended
        BY <2>2, <2>3, HiddenStutters DEF Hidden, Logged
    <2>4. CASE appended' = [appended EXCEPT ![cur[p]] = @ + 1]
        <3>1. appended \in [Event -> Nat]
            BY DEF TypeOK
        <3>2. Logged' = Logged \cup {cur[p]}
            BY ONLY <2>1, <2>4, <3>1 DEF Logged
        <3>3. e \in Durable => Promise!Log(e)
            BY <2>1, <2>2, <3>2 DEF Promise!Log, Accepted, Owed, Logged
        <3>4. e \in Durable
            BY <1>2, <2>1 DEF XAdd, XAddError, ProgressOK
        <3> QED BY ONLY <3>3, <3>4, VisibleSteps
    <2> QED BY <1>2, <2>3, <2>4 DEF XAdd, XAddError
<1>3. CASE Publish(p) \/ PublishError(p)
    <2>1. PICK e \in Event : cur[p] = e /\ Committed(e)
        BY <1>3 DEF Publish, PublishError, ProgressOK, Emitting
    <2>2. Accepted' = Accepted /\ Owed' = Owed /\ Logged' = Logged
        BY <1>3 DEF Publish, PublishError, Accepted, Owed, Logged, Committed
    <2>3. CASE heard' = heard
        BY <2>2, <2>3, HiddenStutters DEF Hidden
    <2>4. CASE heard' = heard \cup {cur[p]}
        <3>1. Promise!Announce(e)
            BY <2>1, <2>2, <2>4 DEF Promise!Announce, Accepted, Owed, Logged
        <3> QED BY ONLY <3>1, VisibleSteps
    <2> QED BY <1>3, <2>3, <2>4 DEF Publish, PublishError
<1>4. CASE MarkPublished(p)
    <2>1. PICK e \in Event : /\ cur[p] = e /\ Committed(e)
                             /\ e \in heard
                             /\ e \in Durable => appended[e] > 0
        BY <1>4 DEF MarkPublished, ProgressOK, Emitting
    <2>2. Accepted' = Accepted /\ Logged' = Logged /\ heard' = heard
        BY <1>4, <2>1 DEF MarkPublished, SetRows, Accepted, Logged, Committed, TypeOK
    <2>3. Owed' = Owed \ {cur[p]}
        BY <1>4, <2>1 DEF MarkPublished, SetRows, Owed, Committed, TypeOK
    <2>4. CASE cur[p] \notin Owed
        <3>1. Owed' = Owed
            BY <2>3, <2>4
        <3> QED BY <2>2, <3>1, HiddenStutters DEF Hidden
    <2>5. CASE cur[p] \in Owed
        <3>1. Promise!Discharge(e)
            BY <2>1, <2>2, <2>3, <2>5 DEF Promise!Discharge, Promise!Delivered, Accepted, Owed, Logged
        <3> QED BY ONLY <3>1, VisibleSteps
    <2> QED BY <2>4, <2>5
<1> QED BY <1>1, <1>2, <1>3, <1>4 DEF EmitStep

LEMMA StepRefines == Inv /\ [Next]_vars => [Promise!Next]_(Promise!vars)
<1> SUFFICES ASSUME Inv, [Next]_vars PROVE [Promise!Next]_(Promise!vars)
    OBVIOUS
<1>1. CASE UNCHANGED vars
    <2>1. Hidden
        BY <1>1 DEF vars, Hidden, Accepted, Owed, Logged, Committed
    <2> QED BY <2>1, HiddenStutters
<1>2. CASE Clock
    <2>1. Hidden
        BY <1>2 DEF Clock, GraceElapses, LeaseLapses, Hidden, Accepted, Owed, Logged, Committed,
            redisVars
    <2> QED BY <2>1, HiddenStutters
<1>3. CASE \E q \in Request : RequestStep(q)
    BY <1>3, RequestStepRefines
<1>4. CASE \E r \in Relay : RelayStep(r)
    BY <1>4, RelayStepRefines
<1>5. CASE \E p \in Process : EmitStep(p)
    BY <1>5, EmitStepRefines
<1> QED BY <1>1, <1>2, <1>3, <1>4, <1>5 DEF Next

(* Every step the outbox can take, crashes, lost answers and overlapping   *)
(* emitters included, is a step or a stutter of at-least-once delivery.    *)
THEOREM OutboxRefines == Safe => Promise!Safe
<1>1. Init => Promise!Init
    BY DEF Init, Promise!Init, Committed
<1> QED BY <1>1, InitInv, NextInv, StepRefines, PTL DEF Safe, Promise!Safe
=============================================================================
