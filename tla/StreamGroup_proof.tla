-------------------------- MODULE StreamGroup_proof --------------------------
(***************************************************************************)
(* For any streams, entries and replicas, any delivery limit and any       *)
(* number of faults: an entry leaves the group only when it is accounted   *)
(* for, it is handled at most MaxDeliveries times and once more for each   *)
(* XPENDING that failed, and replicas share one only after it went idle.   *)
(***************************************************************************)
EXTENDS StreamGroup, FiniteSetTheorems, TLAPS

(* Replicas that hold e in their batch and have yet to handle it. *)
Awaiting(e) == {c \in Consumer : e \in batch[c]}

(* The trimmer has a key at hand except between two. *)
TrimOK ==
    trim \in [step : {"sleep", "xtrim"}, keys : SUBSET Stream]
             \cup [step : {"xlen", "srem"}, keys : SUBSET Stream, at : Stream]

(* A replica that is about to refresh, claim or read holds nothing, and    *)
(* what it is about to acknowledge has been handled.                       *)
LoopOK ==
    \A c \in Consumer :
        /\ pc[c] \in {"refresh", "claim", "read"} => batch[c] = {}
        /\ pc[c] # "ack" => cur[c] = NoEntry
        /\ pc[c] = "ack" => cur[c] \in Entry /\ handled[cur[c]] > 0

(* What was never delivered nobody holds; what was delivered is in the     *)
(* stream, or was.                                                         *)
DeliveredOK ==
    \A e \in Entry :
        /\ pel[e] = "unread" => times[e] = 0 /\ HoldersOf(e) = {}
        /\ pel[e] # "unread" => entry[e] \in {"live", "trimmed"}

(* Every handling of e, done or to come, is one of its deliveries, and one *)
(* of those the limit allows.                                              *)
HandlingOK ==
    \A e \in Entry :
        /\ IsFiniteSet(Awaiting(e))
        /\ handled[e] + Cardinality(Awaiting(e)) <= times[e]
        /\ handled[e] + Cardinality(Awaiting(e)) <= MaxDeliveries + blind

(* An entry that is idle is held only by those who let it lapse; otherwise *)
(* there is room for one holder more.                                      *)
HoldersOK ==
    \A e \in Entry :
        /\ IsFiniteSet(HoldersOf(e))
        /\ Cardinality(HoldersOf(e)) <= IF pel[e] = "idle" THEN lapses[e] ELSE 1 + lapses[e]

IInv == /\ TypeOK /\ TrimOK /\ LoopOK /\ DeliveredOK
        /\ AckedIsAccountedFor /\ HandlingOK /\ HoldersOK

-----------------------------------------------------------------------------
LEMMA GroupFewer ==
    ASSUME NEW S, IsFiniteSet(S), NEW T \in SUBSET S
    PROVE  IsFiniteSet(T) /\ Cardinality(T) \in Nat /\ Cardinality(T) <= Cardinality(S)
  BY FS_Subset, FS_CardinalityType

LEMMA GroupOneMore ==
    ASSUME NEW S, IsFiniteSet(S), NEW c, NEW T \in SUBSET (S \cup {c})
    PROVE  IsFiniteSet(T) /\ Cardinality(T) \in Nat /\ Cardinality(T) <= Cardinality(S) + 1
  <1>1. /\ IsFiniteSet(S \cup {c})
        /\ Cardinality(S \cup {c}) = IF c \in S THEN Cardinality(S) ELSE Cardinality(S) + 1
    BY FS_AddElement
  <1>2. Cardinality(S) \in Nat
    BY FS_CardinalityType
  <1>3. IsFiniteSet(T) /\ Cardinality(T) <= Cardinality(S \cup {c})
    BY <1>1, FS_Subset
  <1>4. Cardinality(T) \in Nat
    BY <1>3, FS_CardinalityType
  <1> QED
    BY <1>1, <1>2, <1>3, <1>4

LEMMA GroupOneFewer ==
    ASSUME NEW S, IsFiniteSet(S), NEW c \in S
    PROVE  /\ IsFiniteSet(S \ {c}) /\ Cardinality(S \ {c}) \in Nat
           /\ Cardinality(S \ {c}) = Cardinality(S) - 1
  <1>1. IsFiniteSet(S \ {c}) /\ Cardinality(S \ {c}) = Cardinality(S) - 1
    BY FS_RemoveElement
  <1> QED
    BY <1>1, FS_CardinalityType

LEMMA GroupInit == Init => IInv
  <1> SUFFICES ASSUME Init PROVE IInv
    OBVIOUS
  <1> USE DEF Init
  <1>1. TypeOK
    BY DEF TypeOK, EntryState, PelState
  <1>2. TrimOK
    BY DEF TrimOK
  <1>3. LoopOK
    BY DEF LoopOK
  <1>4. \A e \in Entry : Awaiting(e) = {} /\ HoldersOf(e) = {}
    BY DEF Awaiting, HoldersOf, InHand
  <1>5. DeliveredOK /\ AckedIsAccountedFor
    BY <1>4 DEF DeliveredOK, AckedIsAccountedFor
  <1>6. IsFiniteSet({}) /\ Cardinality({}) = 0
    BY FS_EmptySet
  <1>7. ASSUME NEW e \in Entry
        PROVE  /\ Cardinality(Awaiting(e)) = 0 /\ Cardinality(HoldersOf(e)) = 0
               /\ IsFiniteSet(Awaiting(e)) /\ IsFiniteSet(HoldersOf(e))
    BY <1>4, <1>6
  <1>8. HandlingOK /\ HoldersOK
    BY <1>7, BoundAssumption DEF HandlingOK, HoldersOK
  <1> QED
    BY <1>1, <1>2, <1>3, <1>5, <1>8 DEF IInv

-----------------------------------------------------------------------------
(* Steps that give nobody an entry and take none from the pending list:    *)
(* the publisher, the trimmer, and a replica that moves on.                *)
Quiet ==
    /\ UNCHANGED <<pel, times, batch, cur, handled, lapses, blind>>
    /\ \A e \in Entry : entry[e] \in {"live", "trimmed"} =>
            entry'[e] \in {entry[e], "trimmed"}
    /\ \A c \in Consumer :
        \/ pc'[c] = pc[c]
        \/ pc[c] \in {"refresh", "claim", "read"} /\ pc'[c] \in {"refresh", "claim", "read"}

LEMMA GroupQuietStep ==
    ASSUME IInv, TypeOK', TrimOK', Quiet
    PROVE  IInv'
  <1> USE DEF IInv
  <1>1. LoopOK'
    BY DEF LoopOK, Quiet
  <1>2. \A e \in Entry : Awaiting(e)' = Awaiting(e) /\ HoldersOf(e)' = HoldersOf(e)
    BY DEF Quiet, Awaiting, HoldersOf, InHand
  <1>3. DeliveredOK' /\ AckedIsAccountedFor'
    BY <1>2 DEF Quiet, DeliveredOK, AckedIsAccountedFor
  <1>4. HandlingOK' /\ HoldersOK'
    BY <1>2 DEF Quiet, HandlingOK, HoldersOK
  <1> QED
    BY <1>1, <1>3, <1>4

(* A replica takes what a claim or a read gave it.  It held nothing; each  *)
(* entry it takes had room for one holder more and is delivered once more, *)
(* within the limit; `gone` are those acknowledged unhandled.              *)
Takes(c, got, gone) ==
    /\ pc[c] \in {"claim", "read"} /\ pc'[c] \in {"refresh", "read", "work"}
    /\ pc'[c] # "work" => got = {}
    /\ \A d \in Consumer : d # c => pc'[d] = pc[d]
    /\ batch' = [batch EXCEPT ![c] = got] /\ got \subseteq Entry
    /\ UNCHANGED <<entry, cur, handled, lapses>>
    /\ blind' \in Nat /\ blind' >= blind
    /\ \A e \in Entry :
        /\ times'[e] >= times[e]
        /\ pel[e] # "unread" => pel'[e] # "unread"
        /\ pel'[e] = "unread" => times'[e] = times[e]
        /\ pel'[e] = "idle" => pel[e] = "idle"
        /\ pel'[e] # "unread" => entry[e] \in {"live", "trimmed"}
        /\ e \in got => /\ pel[e] \in {"unread", "idle"} /\ pel'[e] = "pending"
                        /\ times'[e] = times[e] + 1
                        /\ times'[e] <= MaxDeliveries \/ blind' = blind + 1
        /\ pel'[e] = "acked" /\ pel[e] # "acked" => e \in gone
    /\ \A e \in gone : e \in Garbled \/ entry[e] = "trimmed" \/ times'[e] > MaxDeliveries

LEMMA GroupTakeStep ==
    ASSUME IInv, TypeOK', NEW c \in Consumer, NEW got, NEW gone, Takes(c, got, gone),
           UNCHANGED trim
    PROVE  IInv'
  <1> USE DEF IInv, TypeOK, Takes
  <1>1. TrimOK'
    BY DEF TrimOK
  <1>2. batch[c] = {} /\ cur[c] = NoEntry /\ c \notin {d \in Consumer : pc[d] = "ack"}
    BY DEF LoopOK
  <1>3. LoopOK'
    BY <1>2 DEF LoopOK
  <1>4. ASSUME NEW e \in Entry
        PROVE  /\ e \notin got => Awaiting(e)' = Awaiting(e) /\ HoldersOf(e)' = HoldersOf(e)
               /\ Awaiting(e)' \subseteq Awaiting(e) \cup {c}
               /\ HoldersOf(e)' \subseteq HoldersOf(e) \cup {c}
    BY <1>2 DEF Awaiting, HoldersOf, InHand
  <1>5. DeliveredOK'
    BY <1>4 DEF DeliveredOK
  <1>6. AckedIsAccountedFor'
    BY BoundAssumption DEF AckedIsAccountedFor
  <1>7. HandlingOK'
    <2> SUFFICES ASSUME NEW e \in Entry
                 PROVE  /\ IsFiniteSet(Awaiting(e)')
                        /\ handled'[e] + Cardinality(Awaiting(e)') <= times'[e]
                        /\ handled'[e] + Cardinality(Awaiting(e)') <= MaxDeliveries + blind'
      BY DEF HandlingOK
    <2>1. /\ IsFiniteSet(Awaiting(e))
          /\ handled[e] + Cardinality(Awaiting(e)) <= times[e]
          /\ handled[e] + Cardinality(Awaiting(e)) <= MaxDeliveries + blind
      BY DEF HandlingOK
    <2>2. Cardinality(Awaiting(e)) \in Nat /\ handled[e] \in Nat /\ times[e] \in Nat /\ times'[e] \in Nat
      BY <2>1, FS_CardinalityType
    <2>3. CASE e \notin got
      BY <1>4, <2>1, <2>2, <2>3, BoundAssumption
    <2>4. CASE e \in got
      <3>1. /\ IsFiniteSet(Awaiting(e)') /\ Cardinality(Awaiting(e)') \in Nat
            /\ Cardinality(Awaiting(e)') <= Cardinality(Awaiting(e)) + 1
        BY <1>4, <2>1, GroupOneMore
      <3>2. times'[e] = times[e] + 1 /\ (times'[e] <= MaxDeliveries \/ blind' = blind + 1)
        BY <2>4
      <3> QED
        BY <2>1, <2>2, <3>1, <3>2, BoundAssumption
    <2> QED
      BY <2>3, <2>4
  <1>8. HoldersOK'
    <2> SUFFICES ASSUME NEW e \in Entry
                 PROVE  /\ IsFiniteSet(HoldersOf(e)')
                        /\ Cardinality(HoldersOf(e)') <=
                             IF pel'[e] = "idle" THEN lapses'[e] ELSE 1 + lapses'[e]
      BY DEF HoldersOK
    <2>1. /\ IsFiniteSet(HoldersOf(e)) /\ lapses[e] \in Nat
          /\ Cardinality(HoldersOf(e)) <= IF pel[e] = "idle" THEN lapses[e] ELSE 1 + lapses[e]
      BY DEF HoldersOK
    <2>2. Cardinality(HoldersOf(e)) \in Nat
      BY <2>1, FS_CardinalityType
    <2>3. CASE e \notin got
      BY <1>4, <2>1, <2>2, <2>3
    <2>4. CASE e \in got
      <3>1. /\ IsFiniteSet(HoldersOf(e)') /\ Cardinality(HoldersOf(e)') \in Nat
            /\ Cardinality(HoldersOf(e)') <= Cardinality(HoldersOf(e)) + 1
        BY <1>4, <2>1, GroupOneMore
      <3>2. pel'[e] = "pending" /\ (pel[e] = "unread" \/ pel[e] = "idle")
        BY <2>4
      <3>3. Cardinality(HoldersOf(e)) <= lapses[e]
        BY <2>1, <3>2, FS_EmptySet DEF DeliveredOK
      <3> QED
        BY <2>1, <2>2, <3>1, <3>2, <3>3
    <2> QED
      BY <2>3, <2>4
  <1> QED
    BY <1>1, <1>3, <1>5, <1>6, <1>7, <1>8

LEMMA GroupClaimStep ==
    ASSUME IInv, TypeOK', NEW c \in Consumer, NEW counted \in BOOLEAN, NEW lost,
           pc[c] = "claim", ClaimWith(c, counted, lost),
           UNCHANGED <<entry, cur, trim, handled, lapses>>,
           blind' = IF counted THEN blind ELSE blind + 1
    PROVE  IInv'
  <1> DEFINE claimed == {e \in Abandoned(c) : entry[e] = "live"}
             kept == (claimed \ lost) \ Dropped(claimed, counted)
             gone == Abandoned(c) \ (kept \cup (claimed \cap lost))
  <1> USE DEF IInv, TypeOK
  <1>1. kept \subseteq claimed /\ claimed \subseteq Abandoned(c) /\ Abandoned(c) \subseteq Entry
        /\ \A e \in Abandoned(c) : pel[e] = "idle"
    BY DEF Abandoned
  <1>2. \A e \in Abandoned(c) : entry[e] \in {"live", "trimmed"}
    BY <1>1 DEF DeliveredOK
  <1>3. \A e \in Entry :
           /\ times'[e] = IF e \in claimed THEN times[e] + 1 ELSE times[e]
           /\ pel'[e] = IF e \in kept \cup (claimed \cap lost) THEN "pending"
                        ELSE IF e \in Abandoned(c) THEN "acked" ELSE pel[e]
    BY DEF ClaimWith
  <1>4. \A e \in kept : ~counted \/ times[e] + 1 <= MaxDeliveries
    BY <1>1, BoundAssumption DEF Dropped
  <1>5. \A e \in gone : e \in Garbled \/ entry[e] = "trimmed" \/ times'[e] > MaxDeliveries
    BY <1>1, <1>2, <1>3 DEF Dropped
  <1>6. /\ batch' = [batch EXCEPT ![c] = kept]
        /\ pc' = [pc EXCEPT ![c] = IF kept = {} THEN "read" ELSE "work"]
    BY DEF ClaimWith, Goto
  <1> HIDE DEF claimed, kept, gone
  <1>7. \A e \in Entry : times[e] \in Nat /\ times'[e] \in Nat
    OBVIOUS
  <1>8. \A e \in Entry : pel'[e] # "unread" => entry[e] \in {"live", "trimmed"}
    BY <1>1, <1>2, <1>3 DEF DeliveredOK
  <1>9. \A e \in Entry : pel'[e] = "acked" /\ pel[e] # "acked" => e \in gone
    BY <1>3 DEF gone
  <1>10. Takes(c, kept, gone)
    BY <1>1, <1>3, <1>4, <1>5, <1>6, <1>7, <1>8, <1>9 DEF Takes
  <1> QED
    BY <1>10, GroupTakeStep

LEMMA GroupReadStep ==
    ASSUME IInv, TypeOK', NEW c \in Consumer, NEW lost,
           pc[c] = "read", Deliver(c, lost),
           Goto(c, IF Unread(c) \subseteq Garbled \cup lost THEN "refresh" ELSE "work"),
           UNCHANGED <<entry, cur, trim, handled, lapses, blind>>
    PROVE  IInv'
  <1> DEFINE got == (Unread(c) \ lost) \ Garbled
  <1> USE DEF IInv, TypeOK
  <1>1. Unread(c) \subseteq Entry /\ \A e \in Unread(c) : entry[e] = "live" /\ pel[e] = "unread"
    BY DEF Unread
  <1>2. \A e \in Unread(c) : times[e] = 0
    BY <1>1 DEF DeliveredOK
  <1>3. \A e \in Entry :
           /\ times'[e] = IF e \in Unread(c) THEN 1 ELSE times[e]
           /\ pel'[e] = IF e \notin Unread(c) THEN pel[e]
                        ELSE IF e \in Garbled \ lost THEN "acked" ELSE "pending"
    BY DEF Deliver
  <1>4. batch' = [batch EXCEPT ![c] = got]
    BY DEF Deliver
  <1>5. /\ pc' = [pc EXCEPT ![c] = IF Unread(c) \subseteq Garbled \cup lost THEN "refresh" ELSE "work"]
        /\ got = {} <=> Unread(c) \subseteq Garbled \cup lost
    BY DEF Goto
  <1>6. got \subseteq Unread(c) /\ got \cap Garbled = {}
    OBVIOUS
  <1> HIDE DEF got
  <1>7. \A e \in Entry : times[e] \in Nat
    OBVIOUS
  <1>8. \A e \in Entry : pel'[e] # "unread" => entry[e] \in {"live", "trimmed"}
    BY <1>1, <1>3 DEF DeliveredOK
  <1>9. Takes(c, got, Garbled)
    BY <1>1, <1>2, <1>3, <1>4, <1>5, <1>6, <1>7, <1>8, BoundAssumption DEF Takes
  <1> QED
    BY <1>9, GroupTakeStep

-----------------------------------------------------------------------------
LEMMA GroupClaimTypes ==
    ASSUME TypeOK, NEW c \in Consumer, NEW counted, NEW lost, ClaimWith(c, counted, lost)
    PROVE  /\ times' \in [Entry -> Nat] /\ pel' \in [Entry -> PelState]
           /\ batch' \in [Consumer -> SUBSET Entry]
           /\ pc' \in [Consumer -> {"refresh", "claim", "read", "work", "ack"}]
  <1> DEFINE claimed == {e \in Abandoned(c) : entry[e] = "live"}
             kept == (claimed \ lost) \ Dropped(claimed, counted)
  <1>1. kept \subseteq Entry
    BY DEF Abandoned
  <1>2. /\ batch' = [batch EXCEPT ![c] = kept]
        /\ pc' = [pc EXCEPT ![c] = IF kept = {} THEN "read" ELSE "work"]
    BY DEF ClaimWith, Goto
  <1>3. times' \in [Entry -> Nat]
    BY DEF ClaimWith, TypeOK
  <1>4. pel' \in [Entry -> PelState]
    BY DEF ClaimWith, TypeOK, PelState
  <1> HIDE DEF kept
  <1> QED
    BY <1>1, <1>2, <1>3, <1>4 DEF TypeOK

(* Every step keeps the types and the trimmer's shape. *)
LEMMA GroupTypeStep ==
    ASSUME IInv, [Next]_vars
    PROVE  TypeOK' /\ TrimOK'
  <1> USE EntryAssumption, BoundAssumption DEF IInv, TypeOK, EntryState, PelState, Fault, Goto, redisVars, consumerVars
  <1>1. CASE \E e \in Entry : SAdd(e) \/ XAdd(e) \/ IdleElapses(e)
    BY <1>1 DEF SAdd, XAdd, IdleElapses, TrimOK
  <1>2. CASE TrimList \/ (\E s \in Stream : XTrim(s)) \/ XLen \/ SRem \/ TrimError
    <2>1. TrimOK' /\ trim'.step \in {"sleep", "xtrim", "xlen", "srem"}
      BY <1>2 DEF TrimList, XTrim, XLen, SRem, TrimError, NextKey, TrimOK
    <2> QED
      BY <1>2, <2>1 DEF TrimList, XTrim, XLen, SRem, TrimError, LiveIn
  <1>3. ASSUME NEW c \in Consumer, ConsumerStep(c)
        PROVE  TypeOK' /\ TrimOK'
    <2>1. CASE Refresh(c) \/ RefreshNotDue(c) \/ ClaimNotDue(c) \/ ReadNoGroup(c)
      BY <2>1 DEF Refresh, RefreshNotDue, ClaimNotDue, ReadNoGroup, TrimOK
    <2>2. CASE ClaimAbandoned(c)
      <3>1. ClaimWith(c, TRUE, {})
        BY <2>2 DEF ClaimAbandoned
      <3>2. /\ times' \in [Entry -> Nat] /\ pel' \in [Entry -> PelState]
            /\ batch' \in [Consumer -> SUBSET Entry]
            /\ pc' \in [Consumer -> {"refresh", "claim", "read", "work", "ack"}]
        BY <3>1, GroupClaimTypes
      <3> QED
        BY <2>2, <3>2 DEF ClaimAbandoned, TrimOK
    <2>3. CASE ClaimUncounted(c)
      <3>1. ClaimWith(c, FALSE, {})
        BY <2>3 DEF ClaimUncounted
      <3>2. /\ times' \in [Entry -> Nat] /\ pel' \in [Entry -> PelState]
            /\ batch' \in [Consumer -> SUBSET Entry]
            /\ pc' \in [Consumer -> {"refresh", "claim", "read", "work", "ack"}]
        BY <3>1, GroupClaimTypes
      <3> QED
        BY <2>3, <3>2 DEF ClaimUncounted, TrimOK
    <2>4. CASE ClaimUnanswered(c)
      <3>1. \E lost : ClaimWith(c, TRUE, lost)
        BY <2>4 DEF ClaimUnanswered
      <3>2. /\ times' \in [Entry -> Nat] /\ pel' \in [Entry -> PelState]
            /\ batch' \in [Consumer -> SUBSET Entry]
            /\ pc' \in [Consumer -> {"refresh", "claim", "read", "work", "ack"}]
        BY <3>1, GroupClaimTypes
      <3> QED
        BY <2>4, <3>2 DEF ClaimUnanswered, TrimOK
    <2>5. CASE Read(c) \/ ReadUnanswered(c)
      BY <2>5 DEF Read, ReadUnanswered, Deliver, Unread, TrimOK
    <2>6. CASE Handle(c)
      BY <2>6 DEF Handle, TrimOK
    <2>7. CASE Ack(c)
      BY <2>7 DEF Ack, AfterAck, TrimOK, LoopOK
    <2>8. CASE AckFails(c) \/ Restart(c)
      BY <2>8 DEF AckFails, AfterAck, Restart, TrimOK
    <2> QED
      BY <1>3, <2>1, <2>2, <2>3, <2>4, <2>5, <2>6, <2>7, <2>8 DEF ConsumerStep
  <1>4. CASE UNCHANGED vars
    BY <1>4 DEF vars, TrimOK
  <1> QED
    BY <1>1, <1>2, <1>3, <1>4 DEF Next

(* A replica takes an entry from its batch: one fewer has it to handle,    *)
(* and it was handled once more.                                           *)
LEMMA GroupHandleStep ==
    ASSUME IInv, TypeOK', TrimOK', NEW c \in Consumer, Handle(c)
    PROVE  IInv'
  <1> USE DEF IInv, TypeOK
  <1>1. PICK e \in batch[c] : /\ cur' = [cur EXCEPT ![c] = e]
                              /\ batch' = [batch EXCEPT ![c] = @ \ {e}]
                              /\ handled' = [handled EXCEPT ![e] = @ + 1]
    BY DEF Handle
  <1>2. /\ UNCHANGED <<entry, pel, times, lapses, blind>>
        /\ pc' = [pc EXCEPT ![c] = "ack"] /\ e \in Entry /\ pc[c] = "work"
    BY DEF Handle, redisVars, Goto
  <1>3. \A x \in Entry : handled'[x] = IF x = e THEN handled[x] + 1 ELSE handled[x]
    BY <1>1, <1>2
  <1>4. LoopOK'
    BY <1>1, <1>2, <1>3 DEF LoopOK
  <1>5. \A x \in Entry : /\ HoldersOf(x)' \subseteq HoldersOf(x)
                         /\ Awaiting(x)' = IF x = e THEN Awaiting(x) \ {c} ELSE Awaiting(x)
    BY <1>1, <1>2 DEF HoldersOf, Awaiting, InHand
  <1>6. DeliveredOK' /\ AckedIsAccountedFor'
    BY <1>2, <1>3, <1>5 DEF DeliveredOK, AckedIsAccountedFor
  <1>7. HandlingOK'
    <2> SUFFICES ASSUME NEW x \in Entry
                 PROVE  /\ IsFiniteSet(Awaiting(x)')
                        /\ handled'[x] + Cardinality(Awaiting(x)') <= times'[x]
                        /\ handled'[x] + Cardinality(Awaiting(x)') <= MaxDeliveries + blind'
      BY DEF HandlingOK
    <2>1. CASE x # e
      BY <1>2, <1>3, <1>5, <2>1 DEF HandlingOK
    <2>2. CASE x = e
      <3>1. /\ IsFiniteSet(Awaiting(e)) /\ c \in Awaiting(e) /\ handled[e] \in Nat
            /\ handled[e] + Cardinality(Awaiting(e)) <= times[e]
            /\ handled[e] + Cardinality(Awaiting(e)) <= MaxDeliveries + blind
        BY <1>1, <1>2 DEF HandlingOK, Awaiting
      <3>2. Cardinality(Awaiting(e)) \in Nat
        BY <3>1, FS_CardinalityType
      <3>3. /\ IsFiniteSet(Awaiting(e)')
            /\ Cardinality(Awaiting(e)') = Cardinality(Awaiting(e)) - 1
        BY <1>2, <1>5, <3>1, GroupOneFewer
      <3> QED
        BY <1>2, <1>3, <2>2, <3>1, <3>2, <3>3, BoundAssumption
    <2> QED
      BY <2>1, <2>2
  <1>8. HoldersOK'
    <2> SUFFICES ASSUME NEW x \in Entry
                 PROVE  /\ IsFiniteSet(HoldersOf(x)')
                        /\ Cardinality(HoldersOf(x)') <= Cardinality(HoldersOf(x))
                        /\ Cardinality(HoldersOf(x)') \in Nat /\ Cardinality(HoldersOf(x)) \in Nat
      BY <1>2 DEF HoldersOK
    <2> QED
      BY <1>5, GroupFewer, FS_CardinalityType DEF HoldersOK
  <1> QED
    BY <1>4, <1>6, <1>7, <1>8

(* A replica lets go of what it held: acknowledged, not acknowledged, or   *)
(* lost in a restart.                                                      *)
LEMMA GroupLetGoStep ==
    ASSUME IInv, TypeOK', TrimOK', NEW c \in Consumer, Ack(c) \/ AckFails(c) \/ Restart(c)
    PROVE  IInv'
  <1> USE DEF IInv, TypeOK
  <1>1. /\ UNCHANGED <<entry, times, handled, lapses, blind>>
        /\ \A d \in Consumer : d # c => UNCHANGED <<pc[d], batch[d], cur[d]>>
        /\ cur'[c] = NoEntry /\ batch'[c] \subseteq batch[c]
        /\ pc'[c] = "work" \/ (pc'[c] = "refresh" /\ batch'[c] = {})
    BY DEF Ack, AckFails, AfterAck, Restart, redisVars, Goto
  <1>2. \A e \in Entry : \/ pel'[e] = pel[e]
                         \/ /\ pel'[e] = "acked" /\ handled[e] > 0
                            /\ pel[e] # "unread" \/ times[e] > 0
    <2>1. CASE AckFails(c) \/ Restart(c)
      BY <2>1 DEF AckFails, Restart, redisVars
    <2>2. CASE Ack(c)
      <3>1. cur[c] \in Entry /\ handled[cur[c]] > 0
        BY <2>2 DEF Ack, LoopOK
      <3>2. times[cur[c]] > 0
        <4>1. /\ IsFiniteSet(Awaiting(cur[c]))
              /\ handled[cur[c]] + Cardinality(Awaiting(cur[c])) <= times[cur[c]]
          BY <3>1 DEF HandlingOK
        <4>2. Cardinality(Awaiting(cur[c])) \in Nat
          BY <4>1, FS_CardinalityType
        <4> QED
          BY <3>1, <4>1, <4>2
      <3> QED
        BY <2>2, <3>1, <3>2 DEF Ack
    <2> QED
      BY <2>1, <2>2
  <1>3. LoopOK'
    BY <1>1 DEF LoopOK
  <1>4. \A e \in Entry : Awaiting(e)' \subseteq Awaiting(e) /\ HoldersOf(e)' \subseteq HoldersOf(e)
    BY <1>1 DEF Awaiting, HoldersOf, InHand
  <1>5. DeliveredOK' /\ AckedIsAccountedFor'
    BY <1>1, <1>2, <1>4 DEF DeliveredOK, AckedIsAccountedFor
  <1>6. ASSUME NEW e \in Entry
        PROVE  /\ IsFiniteSet(Awaiting(e)') /\ IsFiniteSet(HoldersOf(e)')
               /\ Cardinality(Awaiting(e)') <= Cardinality(Awaiting(e))
               /\ Cardinality(HoldersOf(e)') <= Cardinality(HoldersOf(e))
               /\ Cardinality(Awaiting(e)') \in Nat /\ Cardinality(HoldersOf(e)') \in Nat
               /\ Cardinality(Awaiting(e)) \in Nat /\ Cardinality(HoldersOf(e)) \in Nat
    BY <1>4, GroupFewer, FS_CardinalityType DEF HandlingOK, HoldersOK
  <1>7. HandlingOK'
    BY <1>1, <1>6, BoundAssumption DEF HandlingOK
  <1>8. HoldersOK'
    BY <1>1, <1>2, <1>6 DEF HoldersOK
  <1> QED
    BY <1>3, <1>5, <1>7, <1>8

(* An entry goes idle: a lapse for those who hold it, if any do. *)
LEMMA GroupIdleStep ==
    ASSUME IInv, TypeOK', TrimOK', NEW e \in Entry, IdleElapses(e)
    PROVE  IInv'
  <1> USE DEF IInv, TypeOK
  <1>1. /\ UNCHANGED <<entry, times, pc, batch, cur, handled, blind>>
        /\ pel[e] = "pending" /\ pel' = [pel EXCEPT ![e] = "idle"]
        /\ lapses' = [lapses EXCEPT ![e] = IF HoldersOf(e) = {} THEN @ ELSE @ + 1]
    BY DEF IdleElapses, consumerVars
  <1>2. \A x \in Entry : Awaiting(x)' = Awaiting(x) /\ HoldersOf(x)' = HoldersOf(x)
    BY <1>1 DEF Awaiting, HoldersOf, InHand
  <1>3. LoopOK' /\ DeliveredOK' /\ AckedIsAccountedFor' /\ HandlingOK'
    BY <1>1, <1>2 DEF LoopOK, DeliveredOK, AckedIsAccountedFor, HandlingOK
  <1>4. /\ IsFiniteSet(HoldersOf(e)) /\ Cardinality(HoldersOf(e)) <= 1 + lapses[e]
        /\ HoldersOf(e) = {} => Cardinality(HoldersOf(e)) = 0
        /\ Cardinality(HoldersOf(e)) \in Nat
    BY <1>1, FS_EmptySet, FS_CardinalityType DEF HoldersOK
  <1>5. Cardinality(HoldersOf(e)) <= lapses'[e]
    BY <1>1, <1>4
  <1>6. HoldersOK'
    BY <1>1, <1>2, <1>5 DEF HoldersOK
  <1> QED
    BY <1>3, <1>6

LEMMA GroupStep == IInv /\ [Next]_vars => IInv'
  <1> SUFFICES ASSUME IInv, [Next]_vars PROVE IInv'
    OBVIOUS
  <1>0. TypeOK' /\ TrimOK'
    BY GroupTypeStep
  <1> USE <1>0
  <1>1. CASE \E e \in Entry : SAdd(e) \/ XAdd(e)
    <2>1. Quiet
      BY <1>1 DEF SAdd, XAdd, Quiet, consumerVars, IInv, TypeOK
    <2> QED
      BY <2>1, GroupQuietStep
  <1>2. CASE TrimList \/ (\E s \in Stream : XTrim(s)) \/ XLen \/ SRem \/ TrimError
    <2>1. Quiet
      BY <1>2 DEF TrimList, XTrim, XLen, SRem, TrimError, Quiet, redisVars, consumerVars, IInv, TypeOK
    <2> QED
      BY <2>1, GroupQuietStep
  <1>3. CASE \E e \in Entry : IdleElapses(e)
    BY <1>3, GroupIdleStep
  <1>4. ASSUME NEW c \in Consumer, ConsumerStep(c)
        PROVE  IInv'
    <2>1. CASE Refresh(c) \/ RefreshNotDue(c) \/ ClaimNotDue(c) \/ ReadNoGroup(c)
      <3>1. Quiet
        BY <2>1 DEF Refresh, RefreshNotDue, ClaimNotDue, ReadNoGroup, Goto, Quiet, redisVars, IInv, TypeOK
      <3> QED
        BY <3>1, GroupQuietStep
    <2>2. CASE ClaimAbandoned(c)
      BY <2>2, GroupClaimStep DEF ClaimAbandoned
    <2>3. CASE ClaimUncounted(c)
      BY <2>3, GroupClaimStep DEF ClaimUncounted
    <2>4. CASE ClaimUnanswered(c)
      BY <2>4, GroupClaimStep DEF ClaimUnanswered
    <2>5. CASE Read(c)
      BY <2>5, GroupReadStep DEF Read
    <2>6. CASE ReadUnanswered(c)
      BY <2>6, GroupReadStep DEF ReadUnanswered
    <2>7. CASE Handle(c)
      BY <2>7, GroupHandleStep
    <2>8. CASE Ack(c) \/ AckFails(c) \/ Restart(c)
      BY <2>8, GroupLetGoStep
    <2> QED
      BY <1>4, <2>1, <2>2, <2>3, <2>4, <2>5, <2>6, <2>7, <2>8 DEF ConsumerStep
  <1>5. CASE UNCHANGED vars
    <2>1. Quiet
      BY <1>5 DEF vars, Quiet
    <2> QED
      BY <2>1, GroupQuietStep
  <1> QED
    BY <1>1, <1>2, <1>3, <1>4, <1>5 DEF Next

LEMMA GroupInvariant == Safe => []IInv
  BY GroupInit, GroupStep, PTL DEF Safe

-----------------------------------------------------------------------------
(* No lost answer, failed acknowledgement, take-over or crash makes an     *)
(* entry disappear unhandled (next_batch, claim_abandoned, ack).           *)
THEOREM GroupAckedIsAccountedFor == Safe => []AckedIsAccountedFor
  <1>1. IInv => AckedIsAccountedFor
    BY DEF IInv
  <1> QED
    BY <1>1, GroupInvariant, PTL

(* MAX_DELIVERIES bounds how often an entry is handled, over all replicas, *)
(* and CLAIM_MIN_IDLE how many have it in hand (claim_abandoned).          *)
THEOREM GroupWorkIsBounded == Safe => []WorkIsBounded
  <1>1. IInv => WorkIsBounded
    <2> SUFFICES ASSUME IInv PROVE HandlingIsBounded /\ IdleLimitsHolders
      BY DEF IInv, WorkIsBounded
    <2>1. ASSUME NEW e \in Entry
          PROVE  Cardinality(Awaiting(e)) \in Nat /\ Cardinality(HoldersOf(e)) \in Nat
      BY FS_CardinalityType DEF IInv, HandlingOK, HoldersOK
    <2>2. HandlingIsBounded
      BY <2>1, BoundAssumption DEF IInv, TypeOK, HandlingOK, HandlingIsBounded
    <2>3. IdleLimitsHolders
      BY <2>1 DEF IInv, TypeOK, HoldersOK, IdleLimitsHolders
    <2> QED
      BY <2>2, <2>3
  <1> QED
    BY <1>1, GroupInvariant, PTL
=============================================================================
