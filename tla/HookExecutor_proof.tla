------------------------- MODULE HookExecutor_proof -------------------------
(***************************************************************************)
(* For any number of hooks, events and workers, and any number of crashes, *)
(* failures and redeliveries: an endpoint is called at most MaxAttempts    *)
(* times for an event, never after a final answer, and the recorded result *)
(* is the answer of the last call.                                         *)
(*                                                                         *)
(* The claim is what makes it so, but the claim row goes away when the     *)
(* hook is deleted: what stays true is that a pair that was ever called    *)
(* cannot be claimed again (Taken).  From it follow that a pair has one    *)
(* caller, and that this caller's own count and last answer are the pair's.*)
(***************************************************************************)
EXTENDS HookExecutor, TLAPS

Busy(w) == pc[w] \in {"call", "record"}

(* The pair a worker is calling. *)
Mine(w) == <<at[w], ev[w]>>

(* No worker can claim the pair any more. *)
Taken(h, e) == <<h, e>> \in claimed \/ state[h] = "deleted"

InHand ==
    \A w \in Worker :
        /\ pc[w] # "idle" => ev[w] \in emitted
        /\ Busy(w) => at[w] \in Hook
        /\ ~Busy(w) => attempt[w] = 0 /\ last[w] = NoAnswer

OneCaller ==
    \A w, x \in Worker : Busy(w) /\ Busy(x) /\ w # x => Mine(w) # Mine(x)

BusyIsTaken == \A w \in Worker : Busy(w) => Taken(at[w], ev[w])

CalledIsTaken ==
    \A h \in Hook, e \in Event : calls[<<h, e>>] # 0 => Taken(h, e)

UncalledIsSilent == \A p \in Pair : calls[p] = 0 => said[p] = NoAnswer

RecordedIsClaimed == \A p \in Pair : result[p] # NoAnswer => p \in claimed

BusyIsUnrecorded == \A w \in Worker : Busy(w) => result[Mine(w)] = NoAnswer

BusyCounts ==
    \A w \in Worker :
        /\ Busy(w) => attempt[w] = calls[Mine(w)] /\ last[w] = said[Mine(w)]
        /\ pc[w] = "call" => attempt[w] < MaxAttempts /\ last[w] \notin Final

Core ==
    /\ InHand
    /\ OneCaller
    /\ BusyIsTaken
    /\ CalledIsTaken
    /\ UncalledIsSilent
    /\ RecordedIsClaimed
    /\ BusyIsUnrecorded
    /\ BusyCounts
    /\ CallsBounded
    /\ ResultIsLastAnswer

IInv == TypeOK /\ Core

-----------------------------------------------------------------------------
LEMMA HookInit == Init => IInv
  <1> SUFFICES ASSUME Init PROVE IInv
    OBVIOUS
  <1> USE HookAssumption, HookBoundAssumption
  <1>1. TypeOK
    BY DEF Init, TypeOK, Pair, Answer, NoAnswer, NoEvent, NoHook
  <1>2. InHand /\ OneCaller /\ BusyIsTaken /\ BusyIsUnrecorded /\ BusyCounts
    BY DEF Init, InHand, OneCaller, BusyIsTaken, BusyIsUnrecorded, BusyCounts, Busy
  <1>3. CalledIsTaken /\ UncalledIsSilent /\ RecordedIsClaimed /\ CallsBounded
        /\ ResultIsLastAnswer
    BY DEF Init, CalledIsTaken, UncalledIsSilent, RecordedIsClaimed, CallsBounded,
           ResultIsLastAnswer, Pair
  <1> QED
    BY <1>1, <1>2, <1>3 DEF IInv, Core

(* Every action keeps the types; that an attempt is left before each call *)
(* comes from BusyCounts.                                                  *)
LEMMA HookTypeStep == IInv /\ [Next]_vars => TypeOK'
  <1> SUFFICES ASSUME IInv, [Next]_vars PROVE TypeOK'
    OBVIOUS
  <1> USE HookAssumption, HookBoundAssumption DEF TypeOK, IInv, Core
  <1>1. CASE \E e \in Event : Emit(e)
    BY <1>1 DEF Emit, Runs, hookVars, rowVars, workerVars, callVars, Pair
  <1>2. CASE \E u \in User : Demote(u)
    BY <1>2 DEF Demote, Remember, rowVars, workerVars, callVars, Pair
  <1>3. CASE \E u \in User : Detach(u)
    BY <1>3 DEF Detach, Remember, rowVars, workerVars, callVars, Pair
  <1>4. CASE \E u \in User : StandDown(u)
    BY <1>4 DEF StandDown, Remember, Fault, rowVars, workerVars, callVars, Pair
  <1>5. CASE \E u \in User : Regain(u)
    BY <1>5 DEF Regain, Remember, Turn, rowVars, workerVars, callVars, Pair
  <1>6. CASE \E h \in Hook, u \in User : TurnOn(h, u)
    BY <1>6 DEF TurnOn, Remember, Turn, rowVars, workerVars, callVars, Pair
  <1>7. CASE \E h \in Hook : Delete(h)
    BY <1>7 DEF Delete, Remember, workerVars, callVars, Pair, Answer, NoAnswer
  <1>8. CASE \E w \in Worker, e \in Event : Deliver(w, e)
    BY <1>8 DEF Deliver, Goto, hookVars, rowVars, callVars, historyVars, Pair
  <1>9. CASE \E w \in Worker : List(w)
    BY <1>9 DEF List, Goto, Fault, hookVars, rowVars, callVars, Pair, InHand
  <1>10. CASE \E w \in Worker, h \in Hook, u \in User : Check(w, h, u)
    <2> PICK w \in Worker, h \in Hook, u \in User : Check(w, h, u)
      BY <1>10
    <2>1. state' \in [Hook -> {"on", "off", "deleted"}]
      BY DEF Check
    <2>2. listed' \in [Worker -> SUBSET (Hook \X User)]
      BY DEF Check
    <2>3. firing' \in [Worker -> SUBSET Hook]
      BY DEF Check
    <2>4. ev[w] \in Event
      BY DEF Check, InHand
    <2>5. missed' \subseteq Pair /\ steady' \subseteq Pair
      BY <2>4 DEF Check, Pair
    <2>6. faults' \in 0 .. MaxFaults
      BY DEF Check, Fault
    <2> QED
      BY <2>1, <2>2, <2>3, <2>5, <2>6 DEF Check, rowVars, callVars
  <1>11. CASE \E w \in Worker : Checked(w)
    BY <1>11 DEF Checked, Goto, hookVars, rowVars, callVars, historyVars
  <1>12. CASE \E w \in Worker, h \in Hook : Claim(w, h)
    <2> PICK w \in Worker, h \in Hook : Claim(w, h)
      BY <1>12
    <2>1. ev[w] \in Event
      BY DEF Claim, InHand
    <2>2. claimed' \subseteq Pair /\ missed' \subseteq Pair
      BY <2>1 DEF Claim, Pair
    <2>3. firing' \in [Worker -> SUBSET Hook]
      BY DEF Claim
    <2>4. at' \in [Worker -> Hook \cup {NoHook}]
      BY DEF Claim
    <2>5. faults' \in 0 .. MaxFaults
      BY DEF Claim, Fault
    <2>6. pc' \in [Worker -> {"idle", "list", "check", "fire", "call", "record", "ack"}]
      BY DEF Claim, Goto
    <2> QED
      BY <2>2, <2>3, <2>4, <2>5, <2>6 DEF Claim, hookVars, callVars
  <1>13. CASE \E w \in Worker : Skip(w)
    BY <1>13 DEF Skip, Goto, Return, hookVars, rowVars, callVars, historyVars,
           Answer, NoAnswer, NoHook
  <1>14. CASE \E w \in Worker, answer \in Answer : Call(w, answer)
    <2> PICK w \in Worker, answer \in Answer : Call(w, answer)
      BY <1>14
    <2>1. attempt[w] < MaxAttempts
      BY DEF Call, BusyCounts
    <2>2. attempt' \in [Worker -> 0 .. MaxAttempts]
      BY <2>1 DEF Call
    <2>3. last' \in [Worker -> Answer \cup {NoAnswer}]
      BY DEF Call
    <2>0. <<at[w], ev[w]>> \in Pair
      BY DEF Call, InHand, Busy, Pair
    <2>4. calls' \in [Pair -> Nat]
      BY <2>0 DEF Call
    <2>5. said' \in [Pair -> Answer \cup {NoAnswer}]
      BY DEF Call
    <2>6. pc' \in [Worker -> {"idle", "list", "check", "fire", "call", "record", "ack"}]
      BY DEF Call, Goto
    <2> QED
      BY <2>2, <2>3, <2>4, <2>5, <2>6 DEF Call, hookVars, rowVars, historyVars
  <1>15. CASE \E w \in Worker : Record(w)
    BY <1>15 DEF Record, Goto, Fault, Return, hookVars, callVars, historyVars,
           Pair, Answer, NoAnswer, NoHook
  <1>16. CASE \E w \in Worker : Dispatched(w)
    BY <1>16 DEF Dispatched, Goto, hookVars, rowVars, callVars, historyVars
  <1>17. CASE \E w \in Worker : Ack(w)
    BY <1>17 DEF Ack, Goto, Fault, hookVars, rowVars, callVars, historyVars,
           InHand, NoEvent
  <1>18. CASE \E w \in Worker : Crash(w)
    BY <1>18 DEF Crash, Goto, Fault, Return, hookVars, rowVars, callVars,
           historyVars, Answer, NoAnswer, NoHook, NoEvent
  <1>19. CASE UNCHANGED vars
    BY <1>19 DEF vars
  <1> QED
    BY <1>1, <1>2, <1>3, <1>4, <1>5, <1>6, <1>7, <1>8, <1>9, <1>10,
       <1>11, <1>12, <1>13, <1>14, <1>15, <1>16, <1>17, <1>18, <1>19
       DEF Next, WorkerStep

(* A step that makes no call, claims nothing and records nothing, and at   *)
(* most ends what workers are doing.                                       *)
Quiet ==
    /\ UNCHANGED <<claimed, result, calls, said>>
    /\ emitted \subseteq emitted'
    /\ \A h \in Hook : state[h] = "deleted" => state'[h] = "deleted"
    /\ \A w \in Worker :
          /\ pc'[w] # "idle" => ev'[w] \in emitted'
          /\ Busy(w)' => UNCHANGED <<pc[w], ev[w], at[w], attempt[w], last[w]>>
          /\ ~Busy(w)' => attempt'[w] = 0 /\ last'[w] = NoAnswer

LEMMA HookQuietStep ==
    ASSUME IInv, TypeOK', Quiet
    PROVE  Core'
  <1> USE DEF Quiet
  <1>1. \A w \in Worker : Busy(w)' => Busy(w) /\ Mine(w)' = Mine(w)
    BY DEF Busy, Mine
  <1>2. InHand'
    BY <1>1 DEF IInv, Core, InHand
  <1>3. OneCaller'
    BY <1>1 DEF IInv, Core, OneCaller
  <1>4. BusyIsTaken'
    BY <1>1, <1>2 DEF IInv, Core, BusyIsTaken, Taken, InHand
  <1>5. CalledIsTaken'
    BY DEF IInv, Core, CalledIsTaken, Taken
  <1>6. UncalledIsSilent' /\ RecordedIsClaimed' /\ CallsBounded' /\ ResultIsLastAnswer'
    BY DEF IInv, Core, UncalledIsSilent, RecordedIsClaimed, CallsBounded,
           ResultIsLastAnswer
  <1>7. BusyIsUnrecorded'
    BY <1>1 DEF IInv, Core, BusyIsUnrecorded
  <1>8. BusyCounts'
    BY <1>1 DEF IInv, Core, BusyCounts, Busy
  <1> QED
    BY <1>2, <1>3, <1>4, <1>5, <1>6, <1>7, <1>8 DEF Core

(* delete_hook takes the claims and results of the hook along, but the    *)
(* hook is gone: its pairs stay Taken.                                     *)
LEMMA HookDeleteStep ==
    ASSUME IInv, TypeOK', NEW h \in Hook, Delete(h)
    PROVE  Core'
  <1> USE DEF IInv, Core, TypeOK
  <1>1. /\ UNCHANGED <<calls, said, emitted, pc, ev, at, attempt, last>>
        /\ state'[h] = "deleted"
        /\ \A g \in Hook : g # h => state'[g] = state[g]
        /\ \A p \in claimed : p[1] # h => p \in claimed'
        /\ \A p \in Pair : p[1] = h => result'[p] = NoAnswer
        /\ \A p \in Pair : p[1] # h => result'[p] = result[p]
    BY DEF Delete, workerVars, callVars
  <1>2. \A w \in Worker : Busy(w)' = Busy(w) /\ Mine(w)' = Mine(w)
    BY <1>1 DEF Busy, Mine
  <1>3. \A g \in Hook, e \in Event : Taken(g, e) => Taken(g, e)'
    BY <1>1 DEF Taken
  <1>4. InHand'
    BY <1>1, <1>2 DEF InHand
  <1>5. OneCaller'
    BY <1>2 DEF OneCaller
  <1>6. BusyIsTaken'
    <2> SUFFICES ASSUME NEW w \in Worker, Busy(w)' PROVE Taken(at[w], ev[w])'
      BY DEF BusyIsTaken
    <2>1. at[w] \in Hook /\ ev[w] \in Event /\ Taken(at[w], ev[w])
      BY <1>2 DEF InHand, Busy, BusyIsTaken
    <2>2. at'[w] = at[w] /\ ev'[w] = ev[w]
      BY <1>1
    <2> QED
      BY <1>1, <2>1, <2>2 DEF Taken
  <1>7. CalledIsTaken'
    BY <1>1, <1>3 DEF CalledIsTaken
  <1>8. UncalledIsSilent' /\ CallsBounded'
    BY <1>1 DEF UncalledIsSilent, CallsBounded
  <1>9. RecordedIsClaimed' /\ ResultIsLastAnswer'
    BY <1>1 DEF RecordedIsClaimed, ResultIsLastAnswer
  <1>10. BusyIsUnrecorded'
    <2> SUFFICES ASSUME NEW w \in Worker, Busy(w)' PROVE result'[Mine(w)'] = NoAnswer
      BY DEF BusyIsUnrecorded
    <2>1. Mine(w) \in Pair /\ result[Mine(w)] = NoAnswer
      BY <1>2 DEF InHand, Busy, BusyIsUnrecorded, Mine, Pair
    <2> QED
      BY <1>1, <1>2, <2>1
  <1>11. BusyCounts'
    BY <1>1, <1>2 DEF BusyCounts
  <1> QED
    BY <1>4, <1>5, <1>6, <1>7, <1>8, <1>9, <1>10, <1>11 DEF Core

(* A claim that makes a row: the pair was never called, nobody else is     *)
(* calling it, and nothing is recorded for it.                             *)
LEMMA HookClaimStep ==
    ASSUME IInv, TypeOK', NEW w \in Worker, NEW h \in Hook, Claim(w, h)
    PROVE  Core'
  <1> USE DEF IInv, Core, TypeOK
  <1>1. /\ UNCHANGED <<state, emitted, result, calls, said, ev, attempt, last>>
        /\ claimed \subseteq claimed'
        /\ ev[w] \in Event
        /\ ev[w] \in emitted
        /\ ~Busy(w)
        /\ attempt[w] = 0 /\ last[w] = NoAnswer
    BY DEF Claim, hookVars, callVars, InHand, Busy
  <1>2. CASE pc' = pc /\ at' = at
    <2>1. \A x \in Worker : Busy(x)' = Busy(x) /\ Mine(x)' = Mine(x)
      BY <1>1, <1>2 DEF Busy, Mine
    <2>2. InHand'
      BY <1>1, <1>2, <2>1 DEF InHand
    <2>3. OneCaller'
      BY <2>1 DEF OneCaller
    <2>4. BusyIsTaken' /\ CalledIsTaken' /\ RecordedIsClaimed'
      BY <1>1, <1>2, <2>1 DEF BusyIsTaken, CalledIsTaken, RecordedIsClaimed, Taken
    <2>5. UncalledIsSilent' /\ CallsBounded' /\ ResultIsLastAnswer'
      BY <1>1 DEF UncalledIsSilent, CallsBounded, ResultIsLastAnswer
    <2>6. BusyIsUnrecorded' /\ BusyCounts'
      BY <1>1, <1>2, <2>1 DEF BusyIsUnrecorded, BusyCounts
    <2> QED
      BY <2>2, <2>3, <2>4, <2>5, <2>6 DEF Core
  <1>3. CASE /\ ~Taken(h, ev[w])
             /\ claimed' = claimed \cup {<<h, ev[w]>>}
             /\ at' = [at EXCEPT ![w] = h]
             /\ pc' = [pc EXCEPT ![w] = "call"]
    <2>1. Busy(w)' /\ Mine(w)' = <<h, ev[w]>> /\ <<h, ev[w]>> \in Pair
      BY <1>1, <1>3 DEF Busy, Mine, Pair
    <2>2. \A x \in Worker : x # w =>
             /\ Busy(x)' = Busy(x) /\ Mine(x)' = Mine(x)
             /\ at'[x] = at[x] /\ pc'[x] = pc[x]
      BY <1>1, <1>3 DEF Busy, Mine
    <2>3. /\ calls[<<h, ev[w]>>] = 0
          /\ said[<<h, ev[w]>>] = NoAnswer
          /\ result[<<h, ev[w]>>] = NoAnswer
      BY <1>1, <1>3, <2>1 DEF CalledIsTaken, UncalledIsSilent, RecordedIsClaimed, Taken
    <2>4. \A x \in Worker : Busy(x) => Mine(x) # <<h, ev[w]>>
      BY <1>3 DEF BusyIsTaken, Mine
    <2>5. InHand'
      BY <1>1, <1>3, <2>1, <2>2 DEF InHand
    <2>6. OneCaller'
      BY <2>1, <2>2, <2>4 DEF OneCaller
    <2>7. BusyIsTaken'
      BY <1>1, <1>3, <2>1, <2>2 DEF BusyIsTaken, Taken
    <2>8. CalledIsTaken' /\ RecordedIsClaimed'
      BY <1>1 DEF CalledIsTaken, RecordedIsClaimed, Taken
    <2>9. UncalledIsSilent' /\ CallsBounded' /\ ResultIsLastAnswer'
      BY <1>1 DEF UncalledIsSilent, CallsBounded, ResultIsLastAnswer
    <2>10. BusyIsUnrecorded'
      BY <1>1, <2>1, <2>2, <2>3 DEF BusyIsUnrecorded
    <2>11. BusyCounts'
      BY <1>1, <2>1, <2>2, <2>3, HookBoundAssumption
      DEF BusyCounts, Final, NoAnswer
    <2> QED
      BY <2>5, <2>6, <2>7, <2>8, <2>9, <2>10, <2>11 DEF Core
  <1> QED
    BY <1>1, <1>2, <1>3 DEF Claim, Taken, Goto

(* A call: the caller is the only one, so the pair's count and last answer *)
(* move together with its own.                                             *)
LEMMA HookCallStep ==
    ASSUME IInv, TypeOK', NEW w \in Worker, NEW answer \in Answer, Call(w, answer)
    PROVE  Core'
  <1> USE DEF IInv, Core, TypeOK
  <1>1. /\ UNCHANGED <<state, emitted, claimed, result, ev, at>>
        /\ Busy(w) /\ pc[w] = "call"
        /\ at[w] \in Hook /\ ev[w] \in Event /\ Mine(w) \in Pair
        /\ attempt[w] < MaxAttempts
        /\ attempt[w] = calls[Mine(w)]
    BY DEF Call, hookVars, rowVars, InHand, Busy, Mine, Pair, BusyCounts
  <1>2. /\ attempt'[w] = attempt[w] + 1 /\ last'[w] = answer
        /\ calls'[Mine(w)] = calls[Mine(w)] + 1 /\ said'[Mine(w)] = answer
        /\ \A p \in Pair : p # Mine(w) => calls'[p] = calls[p] /\ said'[p] = said[p]
        /\ Busy(w)'
        /\ pc'[w] = "call" => attempt'[w] # MaxAttempts /\ answer \notin Final
    BY <1>1 DEF Call, Goto, StopsAfter, Mine, Busy
  <1>3. \A x \in Worker : Mine(x)' = Mine(x) /\ Busy(x)' = Busy(x)
    BY <1>1, <1>2 DEF Mine, Busy, Call, Goto
  <1>4. \A x \in Worker : x # w =>
            UNCHANGED <<pc[x], attempt[x], last[x]>>
    BY DEF Call, Goto
  <1>5. InHand'
    BY <1>1, <1>3, <1>4 DEF InHand, Busy
  <1>6. OneCaller'
    BY <1>3 DEF OneCaller
  <1>7. BusyIsTaken'
    BY <1>1, <1>3 DEF BusyIsTaken, Taken
  <1>8. CalledIsTaken'
    <2> SUFFICES ASSUME NEW g \in Hook, NEW e \in Event, calls'[<<g, e>>] # 0
                 PROVE  Taken(g, e)'
      BY DEF CalledIsTaken
    <2>1. CASE <<g, e>> = Mine(w)
      BY <1>1, <2>1 DEF BusyIsTaken, Taken, Mine
    <2>2. CASE <<g, e>> # Mine(w)
      BY <1>1, <1>2, <2>2 DEF CalledIsTaken, Taken, Pair
    <2> QED
      BY <2>1, <2>2
  <1>9. UncalledIsSilent' /\ CallsBounded'
    BY <1>1, <1>2 DEF UncalledIsSilent, CallsBounded
  <1>10. RecordedIsClaimed' /\ BusyIsUnrecorded'
    BY <1>1, <1>3 DEF RecordedIsClaimed, BusyIsUnrecorded
  <1>11. ResultIsLastAnswer'
    BY <1>1, <1>2 DEF ResultIsLastAnswer, BusyIsUnrecorded
  <1>12. BusyCounts'
    <2>1. \A x \in Worker : Busy(x) => Mine(x) \in Pair
      BY DEF InHand, Busy, Mine, Pair
    <2>2. \A x \in Worker : x # w /\ Busy(x) =>
              calls'[Mine(x)] = calls[Mine(x)] /\ said'[Mine(x)] = said[Mine(x)]
      BY <1>1, <1>2, <2>1 DEF OneCaller
    <2>3. /\ attempt'[w] = calls'[Mine(w)'] /\ last'[w] = said'[Mine(w)']
          /\ pc'[w] = "call" => attempt'[w] < MaxAttempts /\ last'[w] \notin Final
      BY <1>1, <1>2, <1>3, HookBoundAssumption
    <2>4. ASSUME NEW x \in Worker, x # w
          PROVE  /\ Busy(x)' => attempt'[x] = calls'[Mine(x)'] /\ last'[x] = said'[Mine(x)']
                 /\ pc'[x] = "call" => attempt'[x] < MaxAttempts /\ last'[x] \notin Final
      BY <1>3, <1>4, <2>2, <2>4 DEF BusyCounts
    <2> QED
      BY <2>3, <2>4 DEF BusyCounts
  <1> QED
    BY <1>5, <1>6, <1>7, <1>8, <1>9, <1>10, <1>11, <1>12 DEF Core

(* A result is recorded by the pair's only caller, with its last answer,   *)
(* and the pair has no caller from then on.                                *)
LEMMA HookRecordStep ==
    ASSUME IInv, TypeOK', NEW w \in Worker, Record(w)
    PROVE  Core'
  <1> USE DEF IInv, Core, TypeOK
  <1>1. /\ UNCHANGED <<state, emitted, claimed, calls, said, ev>>
        /\ Busy(w) /\ ~Busy(w)'
        /\ Mine(w) \in Pair
        /\ attempt'[w] = 0 /\ last'[w] = NoAnswer
        /\ last[w] = said[Mine(w)]
    BY DEF Record, hookVars, callVars, Goto, Return, InHand, Busy, Mine, Pair, BusyCounts
  <1>2. \A x \in Worker : x # w => UNCHANGED <<pc[x], at[x], attempt[x], last[x]>>
    BY DEF Record, Goto, Return
  <1>3. \A x \in Worker : Busy(x)' => x # w /\ Busy(x) /\ Mine(x)' = Mine(x)
    BY <1>1, <1>2 DEF Busy, Mine
  <1>4. \A p \in Pair :
            \/ result'[p] = result[p]
            \/ p = Mine(w) /\ p \in claimed /\ result'[p] = last[w]
    BY DEF Record, Mine
  <1>5. InHand'
    <2>1. ev'[w] \in emitted'
      BY <1>1 DEF InHand, Busy
    <2>2. ASSUME NEW x \in Worker, x # w
          PROVE  /\ pc'[x] # "idle" => ev'[x] \in emitted'
                 /\ Busy(x)' => at'[x] \in Hook
                 /\ ~Busy(x)' => attempt'[x] = 0 /\ last'[x] = NoAnswer
      BY <1>1, <1>2, <2>2 DEF InHand, Busy
    <2> QED
      BY <1>1, <2>1, <2>2 DEF InHand
  <1>6. OneCaller'
    BY <1>3 DEF OneCaller
  <1>7. BusyIsTaken'
    BY <1>1, <1>2, <1>3 DEF BusyIsTaken, Taken
  <1>8. CalledIsTaken' /\ UncalledIsSilent' /\ CallsBounded'
    BY <1>1 DEF CalledIsTaken, UncalledIsSilent, CallsBounded, Taken
  <1>9. RecordedIsClaimed' /\ ResultIsLastAnswer'
    BY <1>1, <1>4 DEF RecordedIsClaimed, ResultIsLastAnswer
  <1>10. BusyIsUnrecorded'
    <2> SUFFICES ASSUME NEW x \in Worker, Busy(x)' PROVE result'[Mine(x)'] = NoAnswer
      BY DEF BusyIsUnrecorded
    <2>1. Mine(x) \in Pair /\ Mine(x) # Mine(w) /\ result[Mine(x)] = NoAnswer
      BY <1>1, <1>3 DEF InHand, Busy, Mine, Pair, OneCaller, BusyIsUnrecorded
    <2> QED
      BY <1>3, <1>4, <2>1
  <1>11. BusyCounts'
    BY <1>1, <1>2, <1>3 DEF BusyCounts, Busy
  <1> QED
    BY <1>5, <1>6, <1>7, <1>8, <1>9, <1>10, <1>11 DEF Core

(* The invariant is inductive. *)
LEMMA HookStep == IInv /\ [Next]_vars => IInv'
  <1> SUFFICES ASSUME IInv, [Next]_vars PROVE Core'
    BY HookTypeStep DEF IInv
  <1>0. TypeOK'
    BY HookTypeStep
  <1> USE <1>0
  <1>1. CASE \E e \in Event : Emit(e)
    <2>1. Quiet
      BY <1>1 DEF Emit, hookVars, rowVars, workerVars, callVars, Quiet, IInv, Core,
             TypeOK, InHand, Busy
    <2> QED
      BY <2>1, HookQuietStep
  <1>2. CASE \E u \in User : Demote(u)
    <2>1. Quiet
      BY <1>2 DEF Demote, rowVars, workerVars, callVars, Quiet, IInv, Core, TypeOK,
             InHand, Busy
    <2> QED
      BY <2>1, HookQuietStep
  <1>3. CASE \E u \in User : Detach(u)
    <2>1. Quiet
      BY <1>3 DEF Detach, rowVars, workerVars, callVars, Quiet, IInv, Core, TypeOK,
             InHand, Busy
    <2> QED
      BY <2>1, HookQuietStep
  <1>4. CASE \E u \in User : StandDown(u)
    <2>1. Quiet
      BY <1>4 DEF StandDown, Fault, rowVars, workerVars, callVars, Quiet, IInv,
             Core, TypeOK, InHand, Busy
    <2> QED
      BY <2>1, HookQuietStep
  <1>5. CASE \E u \in User : Regain(u)
    <2>1. Quiet
      BY <1>5 DEF Regain, rowVars, workerVars, callVars, Quiet, IInv, Core, TypeOK,
             InHand, Busy
    <2> QED
      BY <2>1, HookQuietStep
  <1>6. CASE \E h \in Hook, u \in User : TurnOn(h, u)
    <2>1. Quiet
      BY <1>6 DEF TurnOn, rowVars, workerVars, callVars, Quiet, IInv, Core, TypeOK,
             InHand, Busy
    <2> QED
      BY <2>1, HookQuietStep
  <1>7. CASE \E h \in Hook : Delete(h)
    BY <1>7, HookDeleteStep
  <1>8. CASE \E w \in Worker, e \in Event : Deliver(w, e)
    <2>1. Quiet
      BY <1>8 DEF Deliver, Goto, hookVars, rowVars, callVars, historyVars, Quiet,
             IInv, Core, TypeOK, InHand, Busy
    <2> QED
      BY <2>1, HookQuietStep
  <1>9. CASE \E w \in Worker : List(w)
    <2>1. Quiet
      BY <1>9 DEF List, Goto, Fault, hookVars, rowVars, callVars, Quiet, IInv, Core,
             TypeOK, InHand, Busy
    <2> QED
      BY <2>1, HookQuietStep
  <1>10. CASE \E w \in Worker, h \in Hook, u \in User : Check(w, h, u)
    <2>1. Quiet
      BY <1>10 DEF Check, Fault, rowVars, callVars, Quiet, IInv, Core, TypeOK,
             InHand, Busy
    <2> QED
      BY <2>1, HookQuietStep
  <1>11. CASE \E w \in Worker : Checked(w)
    <2>1. Quiet
      BY <1>11 DEF Checked, Goto, hookVars, rowVars, callVars, historyVars, Quiet,
             IInv, Core, TypeOK, InHand, Busy
    <2> QED
      BY <2>1, HookQuietStep
  <1>12. CASE \E w \in Worker, h \in Hook : Claim(w, h)
    BY <1>12, HookClaimStep
  <1>13. CASE \E w \in Worker : Skip(w)
    <2>1. Quiet
      BY <1>13 DEF Skip, Goto, Return, hookVars, rowVars, callVars, historyVars,
             Quiet, IInv, Core, TypeOK, InHand, Busy
    <2> QED
      BY <2>1, HookQuietStep
  <1>14. CASE \E w \in Worker, answer \in Answer : Call(w, answer)
    BY <1>14, HookCallStep
  <1>15. CASE \E w \in Worker : Record(w)
    BY <1>15, HookRecordStep
  <1>16. CASE \E w \in Worker : Dispatched(w)
    <2>1. Quiet
      BY <1>16 DEF Dispatched, Goto, hookVars, rowVars, callVars, historyVars, Quiet,
             IInv, Core, TypeOK, InHand, Busy
    <2> QED
      BY <2>1, HookQuietStep
  <1>17. CASE \E w \in Worker : Ack(w)
    <2>1. Quiet
      BY <1>17 DEF Ack, Goto, Fault, hookVars, rowVars, callVars, historyVars, Quiet,
             IInv, Core, TypeOK, InHand, Busy
    <2> QED
      BY <2>1, HookQuietStep
  <1>18. CASE \E w \in Worker : Crash(w)
    <2>1. Quiet
      BY <1>18 DEF Crash, Goto, Fault, Return, hookVars, rowVars, callVars,
             historyVars, Quiet, IInv, Core, TypeOK, InHand, Busy
    <2> QED
      BY <2>1, HookQuietStep
  <1>19. CASE UNCHANGED vars
    <2>1. /\ UNCHANGED <<claimed, result, calls, said, emitted, state>>
          /\ UNCHANGED <<pc, ev, at, attempt, last>>
      BY <1>19 DEF vars
    <2>2. Quiet
      BY <2>1 DEF Quiet, Busy, IInv, Core, InHand
    <2> QED
      BY <2>2, HookQuietStep
  <1> QED
    BY <1>1, <1>2, <1>3, <1>4, <1>5, <1>6, <1>7, <1>8, <1>9, <1>10,
       <1>11, <1>12, <1>13, <1>14, <1>15, <1>16, <1>17, <1>18, <1>19
       DEF Next, WorkerStep

LEMMA HookInvariant == Spec => []IInv
  BY HookInit, HookStep, PTL DEF Spec

-----------------------------------------------------------------------------
(* Every state of the dispatch is type-correct (TypeOK).                   *)
THEOREM HookTypeOK == Spec => []TypeOK
  <1>1. IInv => TypeOK
    BY DEF IInv
  <1> QED
    BY <1>1, HookInvariant, PTL

(* However often an event is delivered and to however many workers, a hook *)
(* is called for it at most MaxAttempts times (claim_execution).           *)
THEOREM HookCallsBounded == Spec => []CallsBounded
  <1>1. IInv => CallsBounded
    BY DEF IInv, Core
  <1> QED
    BY <1>1, HookInvariant, PTL

(* The recorded result is the answer of the last call made for the pair    *)
(* (record_execution_result).                                              *)
THEOREM HookResultIsLastAnswer == Spec => []ResultIsLastAnswer
  <1>1. IInv => ResultIsLastAnswer
    BY DEF IInv, Core
  <1> QED
    BY <1>1, HookInvariant, PTL

(* After a 2xx or a refusal nobody calls the endpoint again for the event  *)
(* (dispatch_hook breaks, and no other worker can claim the pair).         *)
THEOREM HookFinalAnswerIsLast == Spec => FinalAnswerIsLast
  <1> DEFINE Keeps == \A p \in Pair : said[p] \in Final => calls'[p] = calls[p]
  <1>1. IInv /\ [Next]_vars => [Keeps]_vars
    <2> SUFFICES ASSUME IInv, Next PROVE Keeps
      BY DEF vars
    <2>1. CASE UNCHANGED calls
      BY <2>1
    <2>2. CASE \E w \in Worker, answer \in Answer : Call(w, answer)
      <3> PICK w \in Worker, answer \in Answer : Call(w, answer)
        BY <2>2
      <3>1. Mine(w) \in Pair /\ said[Mine(w)] \notin Final
        BY DEF Call, IInv, Core, TypeOK, InHand, Busy, BusyCounts, Mine, Pair
      <3> QED
        BY <3>1 DEF Call, Mine, IInv, TypeOK
    <2> QED
      BY <2>1, <2>2, ZenonT(40)
      DEF Next, WorkerStep, Emit, Demote, Detach, StandDown, Regain, TurnOn, Delete,
          Deliver, List, Check, Checked, Claim, Skip, Record, Dispatched, Ack, Crash,
          callVars
  <1> QED
    BY <1>1, HookInvariant, PTL DEF Spec, FinalAnswerIsLast

-----------------------------------------------------------------------------
(* Which hooks are called, and that none is passed over. *)

(* What is so now is in the history of every event on the stream. *)
SeenOK ==
    /\ \A h \in Hook, e \in emitted :
        /\ state[h] = "on" => <<h, e>> \in wasOn
        /\ by[h] \in able => <<h, e>> \in wasAble
    /\ \A h \in Hook, e \in Event :
        <<h, e>> \in steady => e \in emitted /\ state[h] = "on" /\ by[h] \in able

(* A hook in the worker's hands was seen on; its creator was seen able, or *)
(* is still the one that was listed, of whom Check will ask.               *)
AllowedOK(w) ==
    /\ pc[w] # "check" => listed[w] = {}
    /\ pc[w] \in {"idle", "list", "ack"} => firing[w] = {}
    /\ \A h \in Hook, u \in User : <<h, u>> \in listed[w] =>
            <<h, ev[w]>> \in wasOn /\ (by[h] = u \/ <<h, ev[w]>> \in wasAble)
    /\ \A h \in firing[w] : <<h, ev[w]>> \in wasOn \cap wasAble
    /\ Busy(w) => Mine(w) \in wasOn \cap wasAble

(* A hook that could run all along and was not passed over is still ahead  *)
(* of the worker, or claimed.                                              *)
AheadOK(w) ==
    ev[w] \in Messages => \A h \in Hook : <<h, ev[w]>> \in steady \ missed =>
        /\ pc[w] = "check" => \/ <<h, by[h]>> \in listed[w] \/ h \in firing[w]
                              \/ <<h, ev[w]>> \in claimed
        /\ pc[w] \in {"fire", "call", "record"} => h \in firing[w] \/ <<h, ev[w]>> \in claimed
        /\ pc[w] = "ack" => <<h, ev[w]>> \in claimed

DInv ==
    /\ IInv /\ SeenOK
    /\ \A w \in Worker : AllowedOK(w) /\ AheadOK(w)
    /\ CalledOnlyIfAllowed /\ AckedIsDispatched

(* Nothing that was seen is forgotten, and a pair that could run all along *)
(* keeps its claim and its creator.                                        *)
KeepsHistory ==
    /\ wasOn \subseteq wasOn' /\ wasAble \subseteq wasAble' /\ missed \subseteq missed'
    /\ emitted \subseteq emitted'
    /\ \A h \in Hook, e \in Event : <<h, e>> \in steady' =>
        /\ <<h, e>> \in steady \/ e \notin emitted
        /\ <<h, e>> \in claimed => <<h, e>> \in claimed'
    /\ \A h \in Hook : \/ by'[h] = by[h]
                       \/ \A e \in emitted : <<h, e>> \in wasAble' /\ <<h, e>> \notin steady

LEMMA HookFrame ==
    ASSUME DInv, IInv', KeepsHistory, NEW w \in Worker,
           UNCHANGED <<pc[w], ev[w], listed[w], firing[w], at[w]>>
    PROVE  AllowedOK(w)' /\ AheadOK(w)'
  <1> USE DEF DInv, KeepsHistory, IInv, Core, TypeOK
  <1>1. /\ pc[w] # "idle" => ev[w] \in emitted /\ ev[w] \in Event
        /\ pc[w] = "idle" => listed[w] = {} /\ firing[w] = {}
    BY DEF InHand, AllowedOK
  <1>2. AllowedOK(w)'
    BY <1>1 DEF AllowedOK, Busy, Mine
  <1>3. AheadOK(w)'
    <2>1. CASE pc[w] = "idle"
      BY <2>1 DEF AheadOK
    <2>2. CASE pc[w] # "idle"
      <3>1. \A h \in Hook : <<h, ev[w]>> \in steady' \ missed' =>
               /\ <<h, ev[w]>> \in steady \ missed /\ by'[h] = by[h]
               /\ <<h, ev[w]>> \in claimed => <<h, ev[w]>> \in claimed'
        BY <1>1, <2>2
      <3> QED
        BY <3>1 DEF AheadOK
    <2> QED
      BY <2>1, <2>2
  <1> QED
    BY <1>2, <1>3

(* What people do to hooks, and an event that is posted. *)
LEMMA HookWorldStep ==
    ASSUME DInv, IInv', KeepsHistory, SeenOK',
           UNCHANGED <<acked, pc, ev, listed, firing, at, calls>>
    PROVE  DInv'
  <1> USE DEF DInv
  <1>1. \A w \in Worker : AllowedOK(w)' /\ AheadOK(w)'
    BY HookFrame
  <1>2. CalledOnlyIfAllowed'
    BY DEF CalledOnlyIfAllowed, KeepsHistory
  <1>3. AckedIsDispatched'
    BY DEF AckedIsDispatched, KeepsHistory, IInv, TypeOK
  <1> QED
    BY <1>1, <1>2, <1>3

LEMMA HookRemember ==
    ASSUME DInv, Remember, UNCHANGED emitted,
           \A h \in Hook : by'[h] = by[h] \/ (by'[h] \in able' /\ state[h] # "on"),
           \A h \in Hook, e \in Event :
               <<h, e>> \in claimed => <<h, e>> \in claimed' \/ state'[h] # "on"
    PROVE  SeenOK' /\ KeepsHistory
  <1> USE DEF DInv, IInv, TypeOK, Remember, Pair
  <1>1. \A h \in Hook, e \in Event :
           /\ <<h, e>> \in wasOn' <=> <<h, e>> \in wasOn \/ (e \in emitted /\ state'[h] = "on")
           /\ <<h, e>> \in wasAble' <=> <<h, e>> \in wasAble \/ (e \in emitted /\ by'[h] \in able')
           /\ <<h, e>> \in steady' <=> <<h, e>> \in steady /\ state'[h] = "on" /\ by'[h] \in able'
    OBVIOUS
  <1>2. wasOn \subseteq wasOn' /\ wasAble \subseteq wasAble' /\ missed' = missed
    OBVIOUS
  <1>3. SeenOK'
    BY <1>1 DEF SeenOK
  <1>4. KeepsHistory
    BY <1>1, <1>2 DEF SeenOK, KeepsHistory
  <1> QED
    BY <1>3, <1>4

LEMMA HookPeopleStep ==
    ASSUME DInv, IInv',
           \/ \E e \in Event : Emit(e)
           \/ \E u \in User : Demote(u) \/ Detach(u) \/ StandDown(u) \/ Regain(u)
           \/ \E h \in Hook, u \in User : TurnOn(h, u)
           \/ \E h \in Hook : Delete(h)
    PROVE  DInv'
  <1> USE DEF rowVars, workerVars, callVars, hookVars
  <1>1. CASE \E e \in Event : Emit(e)
    <2> PICK e \in Event : Emit(e)
      BY <1>1
    <2>1. \A h \in Hook, f \in Event :
             /\ <<h, f>> \in wasOn' <=> <<h, f>> \in wasOn \/ (f = e /\ state[h] = "on")
             /\ <<h, f>> \in wasAble' <=> <<h, f>> \in wasAble \/ (f = e /\ by[h] \in able)
             /\ <<h, f>> \in steady' <=>
                    <<h, f>> \in steady \/ (f = e /\ state[h] = "on" /\ by[h] \in able)
      BY DEF Emit, Pair, Runs
    <2>2. /\ UNCHANGED <<state, by, able, claimed, missed>>
          /\ e \notin emitted /\ emitted' = emitted \cup {e}
          /\ wasOn \subseteq wasOn' /\ wasAble \subseteq wasAble'
      BY DEF Emit
    <2>3. SeenOK'
      BY <2>1, <2>2 DEF SeenOK, DInv, IInv, TypeOK
    <2>4. KeepsHistory
      BY <2>1, <2>2 DEF KeepsHistory, DInv, IInv, TypeOK
    <2> QED
      BY <2>3, <2>4, HookWorldStep DEF Emit
  <1>2. CASE \E u \in User : Demote(u) \/ Detach(u) \/ StandDown(u) \/ Regain(u)
    <2>1. /\ Remember /\ UNCHANGED <<emitted, by, claimed>>
          /\ UNCHANGED <<acked, pc, ev, listed, firing, at, calls>>
      BY <1>2 DEF Demote, Detach, StandDown, Regain
    <2>2. SeenOK' /\ KeepsHistory
      BY <2>1, HookRemember
    <2> QED
      BY <2>1, <2>2, HookWorldStep
  <1>3. CASE \E h \in Hook, u \in User : TurnOn(h, u)
    <2>1. /\ Remember /\ UNCHANGED <<emitted, claimed>>
          /\ UNCHANGED <<acked, pc, ev, listed, firing, at, calls>>
      BY <1>3 DEF TurnOn
    <2>2. \A h \in Hook : by'[h] = by[h] \/ (by'[h] \in able' /\ state[h] # "on")
      BY <1>3 DEF TurnOn, DInv, IInv, TypeOK
    <2>3. SeenOK' /\ KeepsHistory
      BY <2>1, <2>2, HookRemember
    <2> QED
      BY <2>1, <2>3, HookWorldStep
  <1>4. CASE \E h \in Hook : Delete(h)
    <2>1. /\ Remember /\ UNCHANGED <<emitted, by>>
          /\ UNCHANGED <<acked, pc, ev, listed, firing, at, calls>>
      BY <1>4 DEF Delete
    <2>2. \A h \in Hook, e \in Event :
               <<h, e>> \in claimed => <<h, e>> \in claimed' \/ state'[h] # "on"
      BY <1>4 DEF Delete, DInv, IInv, TypeOK
    <2>3. SeenOK' /\ KeepsHistory
      BY <2>1, <2>2, HookRemember
    <2> QED
      BY <2>1, <2>3, HookWorldStep
  <1> QED
    BY <1>1, <1>2, <1>3, <1>4

(* What a worker does leaves the others alone. *)
Others(w) ==
    /\ UNCHANGED <<by, able, emitted, wasOn, wasAble>>
    /\ missed \subseteq missed' /\ claimed \subseteq claimed' /\ steady' \subseteq steady
    /\ \A x \in Worker : x # w => UNCHANGED <<pc[x], ev[x], listed[x], firing[x], at[x]>>

LEMMA HookOthers ==
    ASSUME DInv, IInv', NEW w \in Worker, Others(w),
           AllowedOK(w)', AheadOK(w)', SeenOK', CalledOnlyIfAllowed',
           UNCHANGED acked
    PROVE  DInv'
  <1> USE DEF DInv
  <1>1. KeepsHistory
    BY DEF Others, KeepsHistory
  <1>2. \A x \in Worker : x # w => AllowedOK(x)' /\ AheadOK(x)'
    BY <1>1, HookFrame DEF Others
  <1>3. AckedIsDispatched'
    BY DEF AckedIsDispatched, Others
  <1> QED
    BY <1>2, <1>3

LEMMA HookListStep ==
    ASSUME DInv, IInv', NEW w \in Worker,
           (\E e \in Event : Deliver(w, e)) \/ List(w) \/ Checked(w)
    PROVE  DInv'
  <1> USE HookAssumption DEF hookVars, rowVars, callVars, historyVars, Goto, DInv, IInv, Core, TypeOK
  <1>1. UNCHANGED <<state, by, able, emitted, wasOn, wasAble, steady, claimed, calls, acked>>
    BY DEF Deliver, List, Checked
  <1>2. SeenOK' /\ CalledOnlyIfAllowed'
    BY <1>1 DEF SeenOK, CalledOnlyIfAllowed
  <1>3. CASE \E e \in Event : Deliver(w, e)
    <2>1. Others(w)
      BY <1>3 DEF Deliver, Others
    <2>2. AllowedOK(w)' /\ AheadOK(w)'
      BY <1>3 DEF Deliver, AllowedOK, AheadOK, Busy
    <2> QED
      BY <1>1, <1>2, <2>1, <2>2, HookOthers
  <1>4. CASE List(w)
    <2>1. Others(w)
      BY <1>4 DEF List, Others
    <2>2. /\ pc[w] = "list" /\ pc'[w] = "check" /\ ev'[w] = ev[w] /\ ev[w] \in emitted
          /\ firing'[w] = {} /\ listed[w] = {}
      BY <1>4 DEF List, AllowedOK, InHand
    <2>3. CASE listed' = [listed EXCEPT ![w] = {<<h, by[h]>> : h \in {g \in Hook : state[g] = "on"}}]
      <3>1. \A h \in Hook, u \in User : <<h, u>> \in listed'[w] <=> state[h] = "on" /\ u = by[h]
        BY <2>3
      <3>2. AllowedOK(w)'
        BY <1>1, <2>2, <3>1 DEF AllowedOK, SeenOK, Busy
      <3>3. AheadOK(w)'
        BY <1>1, <2>2, <3>1 DEF AheadOK, SeenOK
      <3> QED
        BY <1>1, <1>2, <2>1, <3>2, <3>3, HookOthers
    <2>4. CASE listed' = listed /\ missed' = missed \cup {p \in Pair : p[2] = ev[w]}
      <3>1. AllowedOK(w)'
        BY <1>1, <2>2, <2>4 DEF AllowedOK, Busy
      <3>2. \A h \in Hook : <<h, ev[w]>> \in missed'
        BY <2>2, <2>4 DEF Pair
      <3>3. AheadOK(w)'
        BY <2>2, <3>2 DEF AheadOK
      <3> QED
        BY <1>1, <1>2, <2>1, <3>1, <3>3, HookOthers
    <2> QED
      BY <1>4, <2>3, <2>4 DEF List
  <1>5. CASE Checked(w)
    <2>1. Others(w)
      BY <1>5 DEF Checked, Others
    <2>2. AllowedOK(w)' /\ AheadOK(w)'
      BY <1>5 DEF Checked, AllowedOK, AheadOK, Busy
    <2> QED
      BY <1>1, <1>2, <2>1, <2>2, HookOthers
  <1> QED
    BY <1>3, <1>4, <1>5

LEMMA HookCheckStep ==
    ASSUME DInv, IInv', NEW w \in Worker, NEW h \in Hook, NEW u \in User, Check(w, h, u)
    PROVE  DInv'
  <1> USE HookAssumption DEF rowVars, callVars, DInv, IInv, Core, TypeOK
  <1>1. /\ UNCHANGED <<by, able, emitted, wasOn, wasAble, claimed, calls, acked, pc, ev, at>>
        /\ pc[w] = "check" /\ <<h, u>> \in listed[w] /\ ev[w] \in emitted /\ ev[w] \in Event
        /\ \A g \in Hook, v \in User :
              <<g, v>> \in listed'[w] <=> <<g, v>> \in listed[w] /\ <<g, v>> # <<h, u>>
        /\ \A x \in Worker : x # w => listed'[x] = listed[x] /\ firing'[x] = firing[x]
    BY DEF Check, InHand
  <1>2. /\ state' = state \/ state' = [state EXCEPT ![h] = IF @ = "on" THEN "off" ELSE @]
        /\ missed \subseteq missed'
        /\ firing'[w] = firing[w] \/ (firing'[w] = firing[w] \cup {h} /\ u \in able)
    BY DEF Check
  <1>3. /\ steady' \subseteq steady
        /\ \A g \in Hook, e \in Event : <<g, e>> \in steady' => state'[g] = "on"
    BY DEF Check
  <1>4. SeenOK'
    BY <1>1, <1>2, <1>3 DEF SeenOK
  <1>5. CalledOnlyIfAllowed' /\ Others(w)
    BY <1>1, <1>2, <1>3 DEF CalledOnlyIfAllowed, Others
  <1>6. AllowedOK(w)'
    <2>1. <<h, ev[w]>> \in wasOn /\ (by[h] = u \/ <<h, ev[w]>> \in wasAble)
      BY <1>1 DEF AllowedOK
    <2>2. u \in able => <<h, ev[w]>> \in wasAble
      BY <1>1, <2>1 DEF SeenOK
    <2> QED
      BY <1>1, <1>2, <2>1, <2>2 DEF AllowedOK, Busy
  <1>7. AheadOK(w)'
    <2> SUFFICES ASSUME ev[w] \in Messages, NEW g \in Hook, <<g, ev[w]>> \in steady' \ missed'
                 PROVE  <<g, by[g]>> \in listed'[w] \/ g \in firing'[w] \/ <<g, ev[w]>> \in claimed
      BY <1>1 DEF AheadOK
    <2>1. <<g, by[g]>> \in listed[w] \/ g \in firing[w] \/ <<g, ev[w]>> \in claimed
      BY <1>1, <1>2, <1>3 DEF AheadOK
    <2>2. by[g] \in able /\ by[g] \in User
      BY <1>1, <1>3 DEF SeenOK
    <2>3. CASE g = h /\ u = by[h]
      <3>1. ~(missed' = missed \cup {<<h, ev[w]>>})
        BY <2>3
      <3> QED
        BY <2>2, <2>3, <3>1 DEF Check
    <2>4. CASE ~(g = h /\ u = by[h])
      BY <1>1, <1>2, <2>1, <2>2, <2>4
    <2> QED
      BY <2>3, <2>4
  <1> QED
    BY <1>1, <1>4, <1>5, <1>6, <1>7, HookOthers

LEMMA HookClaimsStep ==
    ASSUME DInv, IInv', NEW w \in Worker, NEW h \in Hook, Claim(w, h)
    PROVE  DInv'
  <1> USE HookAssumption DEF hookVars, callVars, Goto, DInv, IInv, Core, TypeOK
  <1>1. /\ UNCHANGED <<state, by, able, emitted, wasOn, wasAble, steady, calls, acked, ev, listed>>
        /\ claimed \subseteq claimed' /\ missed \subseteq missed'
        /\ pc[w] = "fire" /\ h \in firing[w] /\ ev[w] \in emitted /\ ev[w] \in Event
        /\ firing' = [firing EXCEPT ![w] = @ \ {h}]
        /\ \/ pc' = pc /\ at' = at
           \/ pc' = [pc EXCEPT ![w] = "call"] /\ at' = [at EXCEPT ![w] = h]
    BY DEF Claim, InHand
  <1>2. <<h, ev[w]>> \in claimed' \cup missed' \/ state[h] = "deleted"
    BY DEF Claim
  <1>3. SeenOK' /\ CalledOnlyIfAllowed' /\ Others(w)
    BY <1>1 DEF SeenOK, CalledOnlyIfAllowed, Others
  <1>4. AllowedOK(w)'
    <2>1. /\ listed[w] = {} /\ firing'[w] \subseteq firing[w] /\ listed'[w] = listed[w]
          /\ ev'[w] = ev[w] /\ ~Busy(w)
          /\ \A g \in firing[w] : <<g, ev[w]>> \in wasOn /\ <<g, ev[w]>> \in wasAble
      BY <1>1 DEF AllowedOK, Busy
    <2>2. CASE pc' = pc /\ at' = at
      BY <1>1, <2>1, <2>2 DEF AllowedOK, Busy
    <2>3. CASE pc' = [pc EXCEPT ![w] = "call"] /\ at' = [at EXCEPT ![w] = h]
      <3>1. pc'[w] = "call" /\ Mine(w)' = <<h, ev[w]>>
        BY <2>1, <2>3 DEF Mine
      <3> QED
        BY <1>1, <2>1, <3>1 DEF AllowedOK
    <2> QED
      BY <1>1, <2>2, <2>3
  <1>5. AheadOK(w)'
    <2> SUFFICES ASSUME ev[w] \in Messages, NEW g \in Hook, <<g, ev[w]>> \in steady \ missed'
                 PROVE  g \in firing'[w] \/ <<g, ev[w]>> \in claimed'
      BY <1>1 DEF AheadOK
    <2>1. g \in firing[w] \/ <<g, ev[w]>> \in claimed
      BY <1>1 DEF AheadOK
    <2>2. state[g] # "deleted"
      BY <1>1 DEF SeenOK
    <2> QED
      BY <1>1, <1>2, <2>1, <2>2
  <1> QED
    BY <1>1, <1>3, <1>4, <1>5, HookOthers

LEMMA HookCallsStep ==
    ASSUME DInv, IInv', NEW w \in Worker,
           \/ Skip(w) \/ (\E answer \in Answer : Call(w, answer))
           \/ Record(w) \/ Dispatched(w) \/ Crash(w)
    PROVE  DInv'
  <1> USE HookAssumption
      DEF hookVars, rowVars, callVars, historyVars, Goto, Return, DInv, IInv, Core, TypeOK
  <1>1. /\ UNCHANGED <<state, by, able, emitted, wasOn, wasAble, steady, missed, claimed, acked>>
        /\ \A x \in Worker : x # w => UNCHANGED <<pc[x], ev[x], listed[x], firing[x], at[x]>>
    BY DEF Skip, Call, Record, Dispatched, Crash
  <1>2. SeenOK' /\ Others(w)
    BY <1>1 DEF SeenOK, Others
  <1>3. CalledOnlyIfAllowed'
    <2>1. CASE UNCHANGED calls
      BY <1>1, <2>1 DEF CalledOnlyIfAllowed
    <2>2. CASE \E answer \in Answer : Call(w, answer)
      <3>1. Mine(w) \in wasOn \cap wasAble
        BY <2>2 DEF Call, AllowedOK, Busy
      <3>2. \A p \in Pair : p # Mine(w) => calls'[p] = calls[p]
        BY <2>2 DEF Call, Mine
      <3> QED
        BY <1>1, <3>1, <3>2 DEF CalledOnlyIfAllowed
    <2> QED
      BY <2>1, <2>2 DEF Skip, Record, Dispatched, Crash
  <1>4. AllowedOK(w)' /\ AheadOK(w)'
    <2>1. CASE \E answer \in Answer : Call(w, answer)
      <3>1. /\ pc[w] = "call" /\ pc'[w] \in {"call", "record"}
            /\ UNCHANGED <<ev, listed, firing, at>>
        BY <2>1 DEF Call
      <3>2. Mine(w)' = Mine(w)
        BY <3>1 DEF Mine
      <3>3. AllowedOK(w)'
        BY <1>1, <3>1, <3>2 DEF AllowedOK, Busy
      <3>4. AheadOK(w)'
        BY <1>1, <3>1 DEF AheadOK
      <3> QED
        BY <3>3, <3>4
    <2>2. CASE Skip(w) \/ Record(w)
      BY <1>1, <2>2 DEF Skip, Record, AllowedOK, AheadOK, Busy
    <2>3. CASE Dispatched(w)
      BY <1>1, <2>3 DEF Dispatched, AllowedOK, AheadOK, Busy
    <2>4. CASE Crash(w)
      BY <1>1, <2>4 DEF Crash, AllowedOK, AheadOK, Busy
    <2> QED
      BY <2>1, <2>2, <2>3, <2>4
  <1> QED
    BY <1>1, <1>2, <1>3, <1>4, HookOthers

LEMMA HookAckStep ==
    ASSUME DInv, IInv', NEW w \in Worker, Ack(w)
    PROVE  DInv'
  <1> USE HookAssumption
      DEF hookVars, rowVars, callVars, historyVars, Goto, Fault, DInv, IInv, Core, TypeOK
  <1>1. /\ UNCHANGED <<state, by, able, emitted, wasOn, wasAble, steady, missed, claimed, calls>>
        /\ \A x \in Worker : x # w => UNCHANGED <<pc[x], ev[x], listed[x], firing[x], at[x]>>
        /\ pc[w] = "ack" /\ acked' \subseteq acked \cup {ev[w]} /\ pc'[w] = "idle"
        /\ listed'[w] = listed[w] /\ firing'[w] = firing[w]
    BY DEF Ack
  <1>2. SeenOK' /\ CalledOnlyIfAllowed' /\ KeepsHistory
    BY <1>1 DEF SeenOK, CalledOnlyIfAllowed, KeepsHistory
  <1>3. AllowedOK(w)' /\ AheadOK(w)'
    BY <1>1 DEF AllowedOK, AheadOK, Busy
  <1>4. \A x \in Worker : AllowedOK(x)' /\ AheadOK(x)'
    BY <1>1, <1>2, <1>3, HookFrame
  <1>5. AckedIsDispatched'
    BY <1>1 DEF AckedIsDispatched, AheadOK
  <1> QED
    BY <1>2, <1>4, <1>5

LEMMA HookDispatchInvariant == Spec => []DInv
  <1>1. Init => DInv
    <2> SUFFICES ASSUME Init PROVE DInv
      OBVIOUS
    <2>1. IInv
      BY HookInit
    <2> QED
      BY <2>1 DEF Init, DInv, SeenOK, AllowedOK, AheadOK, Busy, CalledOnlyIfAllowed,
             AckedIsDispatched
  <1>2. DInv /\ [Next]_vars => DInv'
    <2> SUFFICES ASSUME DInv, [Next]_vars PROVE DInv'
      OBVIOUS
    <2>1. IInv'
      BY HookStep DEF DInv
    <2>2. CASE UNCHANGED vars
      <3>1. /\ UNCHANGED <<state, by, able, emitted, wasOn, wasAble, steady, missed, claimed>>
            /\ UNCHANGED <<calls, acked, pc, ev, listed, firing, at>>
        BY <2>2 DEF vars
      <3>2. KeepsHistory /\ SeenOK'
        BY <3>1 DEF KeepsHistory, SeenOK, DInv
      <3> QED
        BY <2>1, <3>1, <3>2, HookWorldStep
    <2>3. CASE Next
      BY <2>1, <2>3, HookPeopleStep, HookListStep, HookCheckStep, HookClaimsStep,
         HookCallsStep, HookAckStep DEF Next, WorkerStep
    <2> QED
      BY <2>2, <2>3
  <1> QED
    BY <1>1, <1>2, PTL DEF Spec

(* A hook is called only if it was on and its creator able to run it since *)
(* the event was posted (hooks_to_fire), and an acknowledged event was     *)
(* claimed for every hook that could run all along (dispatch_delivery).    *)
THEOREM HookDispatchSafety == Spec => []DispatchSafety
  <1>1. DInv => DispatchSafety
    BY DEF DInv, IInv, DispatchSafety
  <1> QED
    BY <1>1, HookDispatchInvariant, PTL
=============================================================================
