---------------------------- MODULE MonitorProofs ----------------------------
(***************************************************************************)
(* Theorems about Java threads, for any threads: about their monitors      *)
(* (Monitor), for any objects, budget and calls, their lives               *)
(* (ThreadLifecycle), whoever starts them, and the interrupt status that   *)
(* wakes them (InterruptStatus).                                           *)
(***************************************************************************)
EXTENDS Monitor, ThreadLifecycle, InterruptStatus, FiniteSetTheorems, TLAPS

-----------------------------------------------------------------------------
\* Which locals a call in progress has set.
LocalsSet ==
  \A t \in Threads :
    /\ pc[t] \notin {"run", "irqTarget"} => obj[t] \in Objects
    /\ pc[t] = "irqTarget" => target[t] \in Threads

Typed == TypeOK /\ LocalsSet

\* The helpers every action is built from.
LEMMA WokenLabel ==
  ASSUME NEW l \in Labels
  PROVE  /\ WokenAt(l) \in Labels
         /\ l \in EntryBlocked => WokenAt(l) \in Entering
         /\ l = "parked" => WokenAt(l) = "waitTest"
         /\ l \notin EntryBlocked \cup {"parked"} => WokenAt(l) = l
         /\ WokenAt(l) \in EntryBlocked \cup {"parked", "run", "irqTarget"}
              => WokenAt(l) = l
         /\ l \in Waiting <=> WokenAt(l) \in Waiting
         /\ l \in EntryBlocked \cup Entering <=> WokenAt(l) \in EntryBlocked \cup Entering
BY DEF WokenAt, Labels, EntryBlocked, Entering, Waiting

\* MoveAndWake moves one thread and may wake others; nobody else moves.
LEMMA MoveAndWakeEffect ==
  ASSUME NEW t \in Threads, NEW l \in Labels, NEW S,
         pc \in [Threads -> Labels], MoveAndWake(t, l, S)
  PROVE  /\ pc' \in [Threads -> Labels]
         /\ pc'[t] = l
         /\ \A u \in Threads \ {t} : pc'[u] = IF u \in S THEN WokenAt(pc[u]) ELSE pc[u]
         /\ \A u \in Threads \ {t} :
              pc[u] \in {"run", "irqTarget"} \/ pc'[u] \in {"run", "irqTarget"}
                => pc'[u] = pc[u]
<1>1. \A u \in Threads \ {t} : pc'[u] \in {pc[u], WokenAt(pc[u])}
  BY DEF MoveAndWake
<1> QED
  BY <1>1, WokenLabel DEF MoveAndWake, EntryBlocked, Labels

\* The typing holds at first ...
LEMMA TypedInit == Init => Typed
BY MonitorAssumption DEF Init, Typed, TypeOK, LocalsSet, Labels, Limits

\* ... and every step of every thread keeps it.
LEMMA TypedStep == Typed /\ [Next]_vars => Typed'
<1> SUFFICES ASSUME Typed, [Next]_vars PROVE Typed'
  OBVIOUS
<1> USE MonitorAssumption DEF Typed, TypeOK, LocalsSet, Labels, javaLock, waitState, waitLocals
<1>1. ASSUME NEW t \in Threads, NEW o \in Objects, AcquireOrReenter(t, o)
      PROVE  Typed'
  BY <1>1 DEF AcquireOrReenter, MayOwn, EnterAttempt, Begin, Spend, Finish, GoOn
<1>2. ASSUME NEW t \in Threads, NEW o \in Objects, BlockOnEntry(t, o)
      PROVE  Typed'
  BY <1>2 DEF EntryBlocked, BlockOnEntry, MayOwn, EnterAttempt, Begin, Spend, Finish, GoOn
<1>3. ASSUME NEW t \in Threads, NEW o \in Objects, MonitorExit(t, o)
      PROVE  Typed'
  BY <1>3 DEF MonitorExit, HoldsLock, Finish, GoOn
<1>4. ASSUME NEW t \in Threads, ExitSignal(t)
      PROVE  Typed'
  <2>1. PICK S \in OneOf(Blocked(obj[t])) : MoveAndWake(t, "run", S)
    BY <1>4 DEF ExitSignal
  <2>2. /\ pc' \in [Threads -> Labels]
        /\ \A u \in Threads \ {t} :
             pc[u] \in {"run", "irqTarget"} \/ pc'[u] \in {"run", "irqTarget"}
               => pc'[u] = pc[u]
        /\ pc'[t] = "run"
    BY <2>1, MoveAndWakeEffect
  <2> QED
    BY <1>4, <2>2 DEF ExitSignal, Finish
<1>5. ASSUME NEW t \in Threads, NEW o \in Objects, IllegalMonitorState(t, o)
      PROVE  Typed'
  BY <1>5 DEF IllegalMonitorState, Begin, Spend, Fail, Finish, GoOn
<1>6. ASSUME NEW t \in Threads, NEW o \in Objects, NEW l \in {"forever", "pending"}, ObjectWait(t, o, l)
      PROVE  Typed'
  BY <1>6 DEF ObjectWait, Begin, Spend, Finish, GoOn, Limits
<1>7. ASSUME NEW t \in Threads, WaitInterruptedAtEntry(t)
      PROVE  Typed'
  BY <1>7 DEF WaitInterruptedAtEntry, Begin, Spend, Fail, Finish, GoOn
<1>8. ASSUME NEW t \in Threads, WaitByOther(t)
      PROVE  Typed'
  BY <1>8 DEF WaitByOther, Fail, Finish, GoOn, Limits
<1>9. ASSUME NEW t \in Threads, WaitRelease(t)
      PROVE  Typed'
  <2>1. PICK S \in OneOf(Blocked(obj[t])) : MoveAndWake(t, "waitTest", S)
    BY <1>9 DEF WaitRelease
  <2>2. /\ pc' \in [Threads -> Labels]
        /\ \A u \in Threads \ {t} :
             pc[u] \in {"run", "irqTarget"} \/ pc'[u] \in {"run", "irqTarget"}
               => pc'[u] = pc[u]
        /\ pc'[t] = "waitTest"
    BY <2>1, MoveAndWakeEffect DEF Waiting
  <2>3. obj[t] \in Objects
    BY <1>9 DEF WaitRelease
  <2>4. LocalsSet'
    BY <1>9, <2>2, <2>3 DEF WaitRelease
  <2>5. /\ owner' \in [Objects -> Threads \cup {None}]
        /\ count' \in [Objects -> Nat]
        /\ waiters' \in [Objects -> Int]
        /\ inner' \in [Objects -> Threads \cup {None}]
    BY <1>9, <2>3 DEF WaitRelease
  <2>6. /\ waitTargets' \in [Threads -> Objects \cup {None}]
        /\ saved' \in [Threads -> Nat]
        /\ mySeq' \in [Threads -> Nat]
    BY <1>9, <2>3 DEF WaitRelease
  <2> QED
    BY <1>9, <2>2, <2>4, <2>5, <2>6 DEF WaitRelease
<1>10. ASSUME NEW t \in Threads, WaitPredicateTrue(t)
      PROVE  Typed'
  BY <1>10 DEF Waiting, WaitPredicateTrue, GoOn
<1>11. ASSUME NEW t \in Threads, WaitPark(t)
      PROVE  Typed'
  BY <1>11 DEF Waiting, WaitPark, GoOn
<1>12. ASSUME NEW t \in Threads, WaitPredicateFalse(t)
      PROVE  Typed'
  BY <1>12 DEF Entering, WaitPredicateFalse, LeaveWaitSet, GoOn
<1>13. ASSUME NEW t \in Threads, BlockOnReacquire(t)
      PROVE  Typed'
  BY <1>13 DEF EntryBlocked, BlockOnReacquire, MayOwn, GoOn
<1>14. ASSUME NEW t \in Threads, WaitReturn(t)
      PROVE  Typed'
  BY <1>14 DEF WaitReturn, MayOwn, Finish, GoOn, Limits
<1>15. ASSUME NEW t \in Threads, Expire(t)
      PROVE  Typed'
  BY <1>15 DEF Expire, GoOn, Limits, Waiting
<1>16. ASSUME NEW t \in Threads, NEW o \in Objects, NEW all \in BOOLEAN, Notify(t, o, all)
      PROVE  Typed'
  <2>1. LocalsSet'
    BY <1>16 DEF Notify, Begin, Finish, GoOn
  <2>2. /\ wakeSeq' \in [Objects -> Nat]
        /\ obj' \in [Threads -> Objects \cup {None}]
        /\ outcome' \in [Threads -> {"ok", "IllegalMonitorState", "Interrupted"}]
    BY <1>16 DEF Notify, AdvanceWakeSeq, Finish
  <2>3. pc' \in [Threads -> Labels] /\ steps' \in [Threads -> 0..Budget]
    BY <1>16 DEF Notify, Begin, Spend, GoOn
  <2> QED
    BY <1>16, <2>1, <2>2, <2>3 DEF Notify
<1>17. ASSUME NEW t \in Threads, SignalOne(t)
      PROVE  Typed'
  <2>1. PICK S \in OneOf(Parked(obj[t])) : MoveAndWake(t, "run", S)
    BY <1>17 DEF SignalOne
  <2>2. /\ pc' \in [Threads -> Labels]
        /\ \A u \in Threads \ {t} :
             pc[u] \in {"run", "irqTarget"} \/ pc'[u] \in {"run", "irqTarget"}
               => pc'[u] = pc[u]
        /\ pc'[t] = "run"
    BY <2>1, MoveAndWakeEffect
  <2> QED
    BY <1>17, <2>2 DEF SignalOne, Finish
<1>18. ASSUME NEW t \in Threads, SignalAll(t)
      PROVE  Typed'
  <2>1. MoveAndWake(t, "run", Parked(obj[t]))
    BY <1>18 DEF SignalAll
  <2>2. /\ pc' \in [Threads -> Labels]
        /\ \A u \in Threads \ {t} :
             pc[u] \in {"run", "irqTarget"} \/ pc'[u] \in {"run", "irqTarget"}
               => pc'[u] = pc[u]
        /\ pc'[t] = "run"
    BY <2>1, MoveAndWakeEffect
  <2> QED
    BY <1>18, <2>2 DEF SignalAll, Finish
<1>19. ASSUME NEW t \in Threads, NEW u \in Threads, Interrupt(t, u)
      PROVE  Typed'
  BY <1>19 DEF Interrupt, Begin, Spend, GoOn
<1>20. ASSUME NEW t \in Threads, ReadWaitTarget(t)
      PROVE  Typed'
  BY <1>20 DEF ReadWaitTarget, Finish, GoOn
<1>21. ASSUME NEW t \in Threads, InterruptSignal(t)
      PROVE  Typed'
  <2>1. MoveAndWake(t, "run", Parked(obj[t]))
    BY <1>21 DEF InterruptSignal
  <2>2. /\ pc' \in [Threads -> Labels]
        /\ \A u \in Threads \ {t} :
             pc[u] \in {"run", "irqTarget"} \/ pc'[u] \in {"run", "irqTarget"}
               => pc'[u] = pc[u]
        /\ pc'[t] = "run"
    BY <2>1, MoveAndWakeEffect
  <2> QED
    BY <1>21, <2>2 DEF InterruptSignal, Finish
<1>22. ASSUME NEW t \in Threads, ClearInterruptEvent(t)
      PROVE  Typed'
  BY <1>22 DEF ClearInterruptEvent, Begin, Spend, Fail, Finish, GoOn
<1>23. ASSUME NEW t \in Threads, SpuriousWakeup(t)
      PROVE  Typed'
  <2>1. WokenAt(pc[t]) \in Labels /\ WokenAt(pc[t]) \notin {"run", "irqTarget"}
    BY <1>23, WokenLabel DEF SpuriousWakeup, EntryBlocked, Entering, Waiting
  <2> QED
    BY <1>23, <2>1 DEF SpuriousWakeup, Spend, GoOn, EntryBlocked
<1>24. CASE UNCHANGED vars
  BY <1>24 DEF vars
<1> HIDE DEF Typed, TypeOK, LocalsSet
<1> QED
  BY <1>1, <1>2, <1>3, <1>4, <1>5, <1>6, <1>7, <1>8, <1>9, <1>10, <1>11,
     <1>12, <1>13, <1>14, <1>15, <1>16, <1>17, <1>18, <1>19, <1>20, <1>21,
     <1>22, <1>23, <1>24 DEF Next, Continue, Start

\* Every variable keeps its type, whatever the interleaving.
THEOREM TypeCorrect == Spec => []TypeOK
<1>1. Typed => TypeOK
  BY DEF Typed
<1> QED
  BY <1>1, TypedInit, TypedStep, PTL DEF Spec
-----------------------------------------------------------------------------
\* Nobody is blocked at first ...
LEMMA EntryInit == Init => NoLostEntryWakeup
BY DEF Init, NoLostEntryWakeup, Blocked, EntryBlocked

\* Nobody new blocks, no monitor is freed, and who is on the way stays so.
LEMMA EntryKept ==
  ASSUME NoLostEntryWakeup,
         \A o \in Objects : owner'[o] = None => owner[o] = None,
         \A u \in Threads :
           /\ pc'[u] \in EntryBlocked => pc[u] \in EntryBlocked /\ obj'[u] = obj[u]
           /\ pc[u] \in Entering \cup {"exitSignal"} =>
                pc'[u] \in Entering \cup {"exitSignal"} /\ obj'[u] = obj[u]
  PROVE  NoLostEntryWakeup'
BY DEF NoLostEntryWakeup, Blocked

\* ... and a step that frees a monitor, or blocks a thread on it, leaves somebody
\* on the way to it.
LEMMA EntryStep == Typed /\ NoLostEntryWakeup /\ [Next]_vars => NoLostEntryWakeup'
<1> SUFFICES ASSUME Typed, NoLostEntryWakeup, [Next]_vars PROVE NoLostEntryWakeup'
  OBVIOUS
<1> USE MonitorAssumption DEF Typed, TypeOK, LocalsSet, NoLostEntryWakeup, Blocked,
    Labels, EntryBlocked, Entering, Waiting, javaLock, waitState, waitLocals
<1>1. ASSUME NEW t \in Threads, NEW o \in Objects, AcquireOrReenter(t, o)
      PROVE  NoLostEntryWakeup'
  BY <1>1 DEF AcquireOrReenter, MayOwn, EnterAttempt, Begin, Finish, GoOn
<1>2. ASSUME NEW t \in Threads, NEW o \in Objects, BlockOnEntry(t, o)
      PROVE  NoLostEntryWakeup'
  BY <1>2 DEF BlockOnEntry, MayOwn, EnterAttempt, Begin, GoOn
<1>3. ASSUME NEW t \in Threads, NEW o \in Objects, MonitorExit(t, o)
      PROVE  NoLostEntryWakeup'
  BY <1>3 DEF MonitorExit, Finish, GoOn
<1>4. ASSUME NEW t \in Threads, ExitSignal(t)
      PROVE  NoLostEntryWakeup'
  <2>1. PICK S \in OneOf(Blocked(obj[t])) : MoveAndWake(t, "run", S)
    BY <1>4 DEF ExitSignal
  <2>2. /\ pc'[t] = "run"
        /\ \A u \in Threads \ {t} : pc'[u] = IF u \in S THEN WokenAt(pc[u]) ELSE pc[u]
    BY <2>1, MoveAndWakeEffect
  <2> QED
    BY <1>4, <2>2, WokenLabel DEF ExitSignal, Finish, OneOf
<1>5. ASSUME NEW t \in Threads, NEW o \in Objects, IllegalMonitorState(t, o)
      PROVE  NoLostEntryWakeup'
  BY <1>5 DEF IllegalMonitorState, Begin, Fail, Finish, GoOn
<1>6. ASSUME NEW t \in Threads, NEW o \in Objects, NEW l \in {"forever", "pending"}, ObjectWait(t, o, l)
      PROVE  NoLostEntryWakeup'
  BY <1>6 DEF ObjectWait, Begin, Finish, GoOn
<1>7. ASSUME NEW t \in Threads, WaitInterruptedAtEntry(t)
      PROVE  NoLostEntryWakeup'
  BY <1>7 DEF WaitInterruptedAtEntry, Begin, Fail, Finish, GoOn
<1>8. ASSUME NEW t \in Threads, WaitByOther(t)
      PROVE  NoLostEntryWakeup'
  BY <1>8 DEF WaitByOther, Finish, GoOn
<1>9. ASSUME NEW t \in Threads, WaitRelease(t)
      PROVE  NoLostEntryWakeup'
  <2>1. PICK S \in OneOf(Blocked(obj[t])) : MoveAndWake(t, "waitTest", S)
    BY <1>9 DEF WaitRelease
  <2>2. /\ pc'[t] = "waitTest"
        /\ \A u \in Threads \ {t} : pc'[u] = IF u \in S THEN WokenAt(pc[u]) ELSE pc[u]
    BY <2>1, MoveAndWakeEffect
  <2>3. \A u \in Threads \ {t} :
          /\ u \in S => pc'[u] \in Entering
          /\ u \notin S => pc'[u] = pc[u]
    BY <2>1, <2>2, WokenLabel DEF OneOf
  <2>4. obj[t] \in Objects /\ UNCHANGED obj /\ \A o \in Objects \ {obj[t]} : owner'[o] = owner[o]
    BY <1>9 DEF WaitRelease
  <2>5. S # {} => \E u \in Threads : u # t /\ obj'[u] = obj[t] /\ pc'[u] \in Entering
    BY <1>9, <2>3, <2>4 DEF WaitRelease, OneOf
  <2>6. S = {} => Blocked(obj[t]) = {}
    BY DEF OneOf
  <2>7. ASSUME NEW o \in Objects, owner'[o] = None, NEW b \in Threads, obj'[b] = o,
               pc'[b] \in EntryBlocked
        PROVE  \E u \in Threads : obj'[u] = o /\ pc'[u] \in Entering \cup {"exitSignal"}
    <3>1. b # t /\ pc[b] \in EntryBlocked /\ obj[b] = o
      BY <2>2, <2>3, <2>4, <2>7
    <3>2. CASE o = obj[t]
      BY <2>5, <2>6, <3>1, <3>2
    <3>3. CASE o # obj[t]
      <4>1. PICK u \in Threads : obj[u] = o /\ pc[u] \in Entering \cup {"exitSignal"}
        BY <2>4, <2>7, <3>1, <3>3
      <4>2. u \notin S /\ u # t
        BY <3>3, <4>1 DEF OneOf
      <4> QED
        BY <2>3, <2>4, <4>1, <4>2
    <3> QED
      BY <3>2, <3>3
  <2> QED
    BY <2>7
<1>10. ASSUME NEW t \in Threads, WaitPredicateTrue(t)
      PROVE  NoLostEntryWakeup'
  BY <1>10 DEF WaitPredicateTrue, GoOn
<1>11. ASSUME NEW t \in Threads, WaitPark(t)
      PROVE  NoLostEntryWakeup'
  BY <1>11 DEF WaitPark, GoOn
<1>12. ASSUME NEW t \in Threads, WaitPredicateFalse(t)
      PROVE  NoLostEntryWakeup'
  BY <1>12 DEF WaitPredicateFalse, LeaveWaitSet, GoOn
<1>13. ASSUME NEW t \in Threads, BlockOnReacquire(t)
      PROVE  NoLostEntryWakeup'
  BY <1>13 DEF BlockOnReacquire, MayOwn, GoOn
<1>14. ASSUME NEW t \in Threads, WaitReturn(t)
      PROVE  NoLostEntryWakeup'
  BY <1>14 DEF WaitReturn, MayOwn, Finish, GoOn
<1>15. ASSUME NEW t \in Threads, Expire(t)
      PROVE  NoLostEntryWakeup'
  BY <1>15 DEF Expire, GoOn
<1>16. ASSUME NEW t \in Threads, NEW o \in Objects, NEW all \in BOOLEAN, Notify(t, o, all)
      PROVE  NoLostEntryWakeup'
  BY <1>16 DEF Notify, AdvanceWakeSeq, Begin, Finish, GoOn
<1>17. ASSUME NEW t \in Threads, SignalOne(t)
      PROVE  NoLostEntryWakeup'
  <2>1. PICK S \in OneOf(Parked(obj[t])) : MoveAndWake(t, "run", S)
    BY <1>17 DEF SignalOne
  <2>2. /\ pc'[t] = "run"
        /\ \A u \in Threads \ {t} : pc'[u] = IF u \in S THEN WokenAt(pc[u]) ELSE pc[u]
    BY <2>1, MoveAndWakeEffect
  <2>3. \A u \in Threads \ {t} :
          /\ pc'[u] = pc[u] \/ (pc[u] = "parked" /\ pc'[u] = "waitTest")
          /\ obj'[u] = obj[u]
    BY <1>17, <2>1, <2>2, WokenLabel DEF SignalOne, Finish, Parked, OneOf
  <2>4. pc[t] = "signalOne" /\ UNCHANGED owner
    BY <1>17 DEF SignalOne
  <2> QED
    BY <2>2, <2>3, <2>4, EntryKept
<1>18. ASSUME NEW t \in Threads, SignalAll(t)
      PROVE  NoLostEntryWakeup'
  <2>1. MoveAndWake(t, "run", Parked(obj[t]))
    BY <1>18 DEF SignalAll
  <2>2. /\ pc'[t] = "run"
        /\ \A u \in Threads \ {t} : pc'[u] = IF u \in Parked(obj[t]) THEN WokenAt(pc[u]) ELSE pc[u]
    BY <2>1, MoveAndWakeEffect
  <2>3. \A u \in Threads \ {t} :
          /\ pc'[u] = pc[u] \/ (pc[u] = "parked" /\ pc'[u] = "waitTest")
          /\ obj'[u] = obj[u]
    BY <1>18, <2>2, WokenLabel DEF SignalAll, Finish, Parked
  <2>4. pc[t] = "signalAll" /\ UNCHANGED owner
    BY <1>18 DEF SignalAll
  <2> QED
    BY <2>2, <2>3, <2>4, EntryKept
<1>19. ASSUME NEW t \in Threads, NEW u \in Threads, Interrupt(t, u)
      PROVE  NoLostEntryWakeup'
  BY <1>19 DEF Interrupt, Begin, GoOn
<1>20. ASSUME NEW t \in Threads, ReadWaitTarget(t)
      PROVE  NoLostEntryWakeup'
  BY <1>20 DEF ReadWaitTarget, Finish, GoOn
<1>21. ASSUME NEW t \in Threads, InterruptSignal(t)
      PROVE  NoLostEntryWakeup'
  <2>1. MoveAndWake(t, "run", Parked(obj[t]))
    BY <1>21 DEF InterruptSignal
  <2>2. /\ pc'[t] = "run"
        /\ \A u \in Threads \ {t} : pc'[u] = IF u \in Parked(obj[t]) THEN WokenAt(pc[u]) ELSE pc[u]
    BY <2>1, MoveAndWakeEffect
  <2>3. \A u \in Threads \ {t} :
          /\ pc'[u] = pc[u] \/ (pc[u] = "parked" /\ pc'[u] = "waitTest")
          /\ obj'[u] = obj[u]
    BY <1>21, <2>2, WokenLabel DEF InterruptSignal, Finish, Parked
  <2>4. pc[t] = "irqSignal" /\ UNCHANGED owner
    BY <1>21 DEF InterruptSignal
  <2> QED
    BY <2>2, <2>3, <2>4, EntryKept
<1>22. ASSUME NEW t \in Threads, ClearInterruptEvent(t)
      PROVE  NoLostEntryWakeup'
  BY <1>22 DEF ClearInterruptEvent, Begin, Fail, Finish, GoOn
<1>23. ASSUME NEW t \in Threads, SpuriousWakeup(t)
      PROVE  NoLostEntryWakeup'
  <2>1. CASE pc[t] = "parked"
    BY <1>23, <2>1 DEF SpuriousWakeup, GoOn, WokenAt
  <2>2. CASE pc[t] \in EntryBlocked
    <3>1. pc'[t] \in Entering /\ \A u \in Threads \ {t} : pc'[u] = pc[u]
      BY <1>23, <2>2, WokenLabel DEF SpuriousWakeup, GoOn
    <3> QED
      BY <1>23, <3>1 DEF SpuriousWakeup
  <2> QED
    BY <1>23, <2>1, <2>2 DEF SpuriousWakeup
<1>24. CASE UNCHANGED vars
  BY <1>24 DEF vars
<1> HIDE DEF NoLostEntryWakeup
<1> QED
  BY <1>1, <1>2, <1>3, <1>4, <1>5, <1>6, <1>7, <1>8, <1>9, <1>10, <1>11,
     <1>12, <1>13, <1>14, <1>15, <1>16, <1>17, <1>18, <1>19, <1>20, <1>21,
     <1>22, <1>23, <1>24 DEF Next, Continue, Start

\* No wakeup of a thread blocked on a monitor's entry is ever lost.
THEOREM NoEntryWakeupIsLost == Spec => []NoLostEntryWakeup
<1> QED
  BY TypedInit, TypedStep, EntryInit, EntryStep, PTL DEF Spec
-----------------------------------------------------------------------------
\* The threads counted by waiters[o].
InWait(o) == {t \in Threads : obj[t] = o /\ pc[t] \in Waiting}
Signalling == {"signalOne", "signalAll"}

\* Who notifies owns the monitor until it has signalled; who waits has seen no
\* later wake_seq than the present one, and an older one while somebody signals.
Sequences ==
  /\ \A t \in Threads : pc[t] \in Signalling => owner[obj[t]] = t
  /\ \A u \in Threads : pc[u] \in Waiting => mySeq[u] <= wakeSeq[obj[u]]
  /\ \A t, u \in Threads :
       /\ pc[t] \in Signalling
       /\ pc[u] \in Waiting
       /\ obj[u] = obj[t]
       => mySeq[u] # wakeSeq[obj[t]]

\* A step in which nobody joins or leaves a wait set, nobody begins to signal
\* and nobody who signals loses the monitor.
NobodyMoves ==
  /\ UNCHANGED <<waiters, wakeSeq>>
  /\ \A u \in Threads :
       /\ pc'[u] \in Waiting <=> pc[u] \in Waiting
       /\ pc[u] \in Waiting => obj'[u] = obj[u] /\ mySeq'[u] = mySeq[u]
       /\ pc'[u] \in Signalling =>
            pc[u] \in Signalling /\ obj'[u] = obj[u] /\ owner'[obj[u]] = u

\* Being woken changes where a waiter is, not that it waits.
LEMMA WokenStays ==
  ASSUME NEW l \in Labels
  PROVE  /\ WokenAt(l) \in Waiting <=> l \in Waiting
         /\ WokenAt(l) \in Signalling => WokenAt(l) = l
BY DEF WokenAt, Labels, EntryBlocked, Entering, Waiting, Signalling

\* Every step but three is one in which nobody moves.
LEMMA MostStepsMoveNobody ==
  ASSUME Typed, Sequences, [Next]_vars
  PROVE  \/ NobodyMoves
         \/ \E t \in Threads : WaitRelease(t) \/ WaitPredicateFalse(t)
         \/ \E t \in Threads, o \in Objects, all \in BOOLEAN :
              Notify(t, o, all) /\ waiters[o] > 0
<1> USE MonitorAssumption DEF NobodyMoves, Typed, TypeOK, LocalsSet, Labels,
    EntryBlocked, Entering, Waiting, Signalling, javaLock, waitState, waitLocals
<1>1. ASSUME NEW t \in Threads, NEW o \in Objects, AcquireOrReenter(t, o)
      PROVE  NobodyMoves
  BY <1>1 DEF AcquireOrReenter, MayOwn, EnterAttempt, Begin, Finish, GoOn, Sequences
<1>2. ASSUME NEW t \in Threads, NEW o \in Objects, BlockOnEntry(t, o)
      PROVE  NobodyMoves
  BY <1>2 DEF BlockOnEntry, EnterAttempt, Begin, GoOn, Sequences
<1>3. ASSUME NEW t \in Threads, NEW o \in Objects, MonitorExit(t, o)
      PROVE  NobodyMoves
  BY <1>3 DEF MonitorExit, HoldsLock, Finish, GoOn, Sequences
<1>4. ASSUME NEW t \in Threads, NEW S, NEW l \in {"run"}, pc[t] \notin Waiting,
             MoveAndWake(t, l, S), Finish(t, "ok"),
             UNCHANGED <<owner, waiters, wakeSeq, mySeq>>
      PROVE  NobodyMoves
  <2>1. /\ pc'[t] = "run"
        /\ \A u \in Threads \ {t} : pc'[u] \in {pc[u], WokenAt(pc[u])}
    BY <1>4, MoveAndWakeEffect
  <2>2. \A u \in Threads \ {t} :
          /\ pc'[u] \in Waiting <=> pc[u] \in Waiting
          /\ pc'[u] \in Signalling => pc'[u] = pc[u]
    <3>1. \A u \in Threads : pc[u] \in Labels
      OBVIOUS
    <3> HIDE DEF Waiting, Signalling, Labels, Typed
    <3> QED
      BY <2>1, <3>1, WokenStays
  <2> QED
    BY <1>4, <2>1, <2>2 DEF Finish, Sequences
<1>5. ASSUME NEW t \in Threads, ExitSignal(t) \/ SignalOne(t) \/ SignalAll(t) \/ InterruptSignal(t)
      PROVE  NobodyMoves
  BY <1>4, <1>5 DEF ExitSignal, SignalOne, SignalAll, InterruptSignal
<1>6. ASSUME NEW t \in Threads, NEW o \in Objects, IllegalMonitorState(t, o)
      PROVE  NobodyMoves
  BY <1>6 DEF IllegalMonitorState, Begin, Fail, Finish, GoOn, Sequences
<1>7. ASSUME NEW t \in Threads, NEW o \in Objects, NEW l \in {"forever", "pending"}, ObjectWait(t, o, l)
      PROVE  NobodyMoves
  BY <1>7 DEF ObjectWait, Begin, GoOn, Sequences
<1>8. ASSUME NEW t \in Threads, WaitInterruptedAtEntry(t)
      PROVE  NobodyMoves
  BY <1>8 DEF WaitInterruptedAtEntry, Begin, Fail, Finish, GoOn, Sequences
<1>9. ASSUME NEW t \in Threads, WaitByOther(t)
      PROVE  NobodyMoves
  BY <1>9 DEF WaitByOther, Finish, GoOn, Sequences
<1>10. ASSUME NEW t \in Threads, WaitPredicateTrue(t)
      PROVE  NobodyMoves
  BY <1>10 DEF WaitPredicateTrue, GoOn, Sequences
<1>11. ASSUME NEW t \in Threads, WaitPark(t)
      PROVE  NobodyMoves
  BY <1>11 DEF WaitPark, GoOn, Sequences
<1>12. ASSUME NEW t \in Threads, BlockOnReacquire(t)
      PROVE  NobodyMoves
  BY <1>12 DEF BlockOnReacquire, GoOn, Sequences
<1>13. ASSUME NEW t \in Threads, WaitReturn(t)
      PROVE  NobodyMoves
  BY <1>13 DEF WaitReturn, MayOwn, Finish, GoOn, Sequences
<1>14. ASSUME NEW t \in Threads, Expire(t)
      PROVE  NobodyMoves
  BY <1>14 DEF Expire, GoOn, Sequences
<1>15. ASSUME NEW t \in Threads, NEW o \in Objects, NEW all \in BOOLEAN, Notify(t, o, all),
              ~(waiters[o] > 0)
      PROVE  NobodyMoves
  BY <1>15 DEF Notify, Begin, Finish, GoOn, Sequences
<1>16. ASSUME NEW t \in Threads, NEW u \in Threads, Interrupt(t, u)
      PROVE  NobodyMoves
  BY <1>16 DEF Interrupt, Begin, GoOn, Sequences
<1>17. ASSUME NEW t \in Threads, ReadWaitTarget(t)
      PROVE  NobodyMoves
  BY <1>17 DEF ReadWaitTarget, Finish, GoOn, Sequences
<1>18. ASSUME NEW t \in Threads, ClearInterruptEvent(t)
      PROVE  NobodyMoves
  BY <1>18 DEF ClearInterruptEvent, Begin, Fail, Finish, GoOn, Sequences
<1>19. ASSUME NEW t \in Threads, SpuriousWakeup(t)
      PROVE  NobodyMoves
  <2>1. /\ WokenAt(pc[t]) \in Waiting <=> pc[t] \in Waiting
        /\ WokenAt(pc[t]) \in Signalling => WokenAt(pc[t]) = pc[t]
    <3> HIDE DEF Waiting, Signalling
    <3> QED
      BY WokenStays DEF Labels
  <2> QED
    BY <1>19, <2>1 DEF SpuriousWakeup, GoOn, Sequences
<1>20. ASSUME NEW t \in Threads, ExitWithoutSignal(t)
      PROVE  NobodyMoves
  BY <1>20 DEF ExitWithoutSignal, Finish, GoOn, Sequences
<1>21. CASE UNCHANGED vars
  BY <1>21 DEF vars, Sequences
<1> HIDE DEF NobodyMoves, Typed, TypeOK, LocalsSet
<1> QED
  BY <1>1, <1>2, <1>3, <1>5, <1>6, <1>7, <1>8, <1>9, <1>10, <1>11, <1>12, <1>13,
     <1>14, <1>15, <1>16, <1>17, <1>18, <1>19, <1>20, <1>21 DEF Next, Continue, Start

-----------------------------------------------------------------------------
\* Initially nobody waits or signals.
LEMMA SequencesInit == Init => Sequences
BY DEF Init, Sequences, Signalling, Waiting

\* The three steps that do move somebody keep the order of the numbers: a notifier
\* moves ahead of all who wait, and who begins to wait owns the monitor, so that
\* nobody else signals on it.
LEMMA SequencesStep == Typed /\ Sequences /\ [Next]_vars => Sequences'
<1> SUFFICES ASSUME Typed, Sequences, [Next]_vars PROVE Sequences'
  OBVIOUS
<1>1. CASE NobodyMoves
  BY <1>1 DEF NobodyMoves, Sequences, Typed, TypeOK
<1>2. ASSUME NEW t \in Threads, WaitRelease(t)
      PROVE  Sequences'
  <2>1. PICK S : MoveAndWake(t, "waitTest", S)
    BY <1>2 DEF WaitRelease
  <2>2. /\ pc'[t] = "waitTest"
        /\ \A u \in Threads \ {t} : pc'[u] \in {pc[u], WokenAt(pc[u])}
    BY <2>1, MoveAndWakeEffect DEF Typed, TypeOK, Labels, Waiting
  <2>3. \A u \in Threads \ {t} :
          /\ pc'[u] \in Waiting <=> pc[u] \in Waiting
          /\ pc'[u] \in Signalling => pc[u] \in Signalling
    BY <2>2, WokenStays DEF Typed, TypeOK
  <2>4. /\ pc'[t] \in Waiting
        /\ pc'[t] \notin Signalling
        /\ pc[t] \notin Signalling
    BY <1>2, <2>2 DEF WaitRelease, Waiting, Signalling
  <2>5. /\ obj[t] \in Objects
        /\ owner[obj[t]] = t
        /\ owner' = [owner EXCEPT ![obj[t]] = None]
        /\ mySeq' = [mySeq EXCEPT ![t] = wakeSeq[obj[t]]]
        /\ UNCHANGED <<wakeSeq, obj>>
    BY <1>2 DEF WaitRelease, Typed, LocalsSet
  <2>6. \A u \in Threads : pc'[u] \in Signalling => obj[u] # obj[t]
    BY <2>3, <2>4, <2>5 DEF Sequences
  <2> QED
    BY <2>3, <2>4, <2>5, <2>6, MonitorAssumption
    DEF Sequences, Typed, TypeOK
<1>3. ASSUME NEW t \in Threads, WaitPredicateFalse(t)
      PROVE  Sequences'
  BY <1>3 DEF WaitPredicateFalse, LeaveWaitSet, GoOn, Sequences, Signalling,
     Waiting, Typed, TypeOK, javaLock
<1>4. ASSUME NEW t \in Threads, NEW o \in Objects, NEW all \in BOOLEAN,
             Notify(t, o, all), waiters[o] > 0
      PROVE  Sequences'
  <2>1. /\ owner[o] = t
        /\ wakeSeq' = [wakeSeq EXCEPT ![o] = @ + 1]
        /\ obj' = [obj EXCEPT ![t] = o]
        /\ pc[t] = "run"
        /\ UNCHANGED <<owner, mySeq>>
    BY <1>4 DEF Notify, AdvanceWakeSeq, Begin, javaLock, waitLocals
  <2>2. /\ pc'[t] \in Signalling
        /\ pc'[t] \notin Waiting
        /\ \A u \in Threads \ {t} : pc'[u] = pc[u]
    BY <1>4 DEF Notify, GoOn, Signalling, Waiting, Typed, TypeOK
  <2>3. \A u \in Threads \ {t} : pc'[u] \in Waiting => obj[u] \in Objects
    BY <2>2 DEF Typed, LocalsSet, Waiting
  <2>4. \A u \in Threads \ {t} : pc'[u] \in Signalling => obj[u] # o
    BY <2>1, <2>2 DEF Sequences
  <2> QED
    BY <2>1, <2>2, <2>3, <2>4 DEF Sequences, Typed, TypeOK
<1> QED
  BY <1>1, <1>2, <1>3, <1>4, MostStepsMoveNobody

\* Whoever notify or notifyAll finds on wait_cvar leaves wait() for it.
THEOREM SignalsAlwaysReachAWaiter == Spec => []SignalReachesAWaiter
<1>1. Sequences => SignalReachesAWaiter
  BY DEF Sequences, Signalling, SignalReachesAWaiter, Parked, Waiting
<1> QED
  BY <1>1, TypedInit, TypedStep, SequencesInit, SequencesStep, PTL DEF Spec

-----------------------------------------------------------------------------
\* Initially no monitor counts a waiter.
LEMMA CountInit == Init => WaitersCounted
<1> SUFFICES ASSUME Init, NEW o \in Objects
             PROVE  waiters[o] = Cardinality(InWait(o))
  BY DEF WaitersCounted, InWait
<1>1. InWait(o) = {}
  BY DEF Init, InWait, Waiting
<1> QED
  BY <1>1, FS_EmptySet DEF Init

\* A thread is counted when it gives the monitor up and no longer when it has
\* seen a reason to go on; nobody else moves.
LEMMA CountStep ==
  Typed /\ Sequences /\ WaitersCounted /\ [Next]_vars => WaitersCounted'
<1> SUFFICES ASSUME Typed, Sequences, WaitersCounted, [Next]_vars, NEW o \in Objects
             PROVE  waiters'[o] = Cardinality(InWait(o)')
  BY DEF WaitersCounted, InWait
<1>1. IsFiniteSet(InWait(o)) /\ waiters[o] = Cardinality(InWait(o))
  BY MonitorAssumption, FS_Subset DEF InWait, WaitersCounted
<1>2. CASE NobodyMoves
  <2>1. InWait(o)' = InWait(o)
    BY <1>2 DEF NobodyMoves, InWait
  <2> QED
    BY <1>1, <1>2, <2>1 DEF NobodyMoves
<1>3. ASSUME NEW t \in Threads, WaitRelease(t)
      PROVE  waiters'[o] = Cardinality(InWait(o)')
  <2>1. PICK S : MoveAndWake(t, "waitTest", S)
    BY <1>3 DEF WaitRelease
  <2>2. /\ pc'[t] = "waitTest"
        /\ \A u \in Threads \ {t} : pc'[u] \in {pc[u], WokenAt(pc[u])}
    BY <2>1, MoveAndWakeEffect DEF Typed, TypeOK, Labels, Waiting
  <2>3. \A u \in Threads \ {t} : pc'[u] \in Waiting <=> pc[u] \in Waiting
    BY <2>2, WokenStays DEF Typed, TypeOK
  <2>4. /\ obj[t] \in Objects
        /\ waiters' = [waiters EXCEPT ![obj[t]] = @ + 1]
        /\ obj' = obj
        /\ pc[t] \notin Waiting
        /\ pc'[t] \in Waiting
    BY <1>3, <2>2 DEF WaitRelease, Typed, LocalsSet, Waiting
  <2>5. CASE o = obj[t]
    <3>1. t \notin InWait(o) /\ InWait(o)' = InWait(o) \cup {t}
      BY <2>3, <2>4, <2>5 DEF InWait
    <3>2. Cardinality(InWait(o) \cup {t}) = Cardinality(InWait(o)) + 1
      BY <1>1, <3>1, FS_AddElement
    <3> QED
      BY <1>1, <2>4, <2>5, <3>1, <3>2 DEF Typed, TypeOK
  <2>6. CASE o # obj[t]
    <3>1. InWait(o)' = InWait(o)
      BY <2>3, <2>4, <2>6 DEF InWait
    <3> QED
      BY <1>1, <2>4, <2>6, <3>1 DEF Typed, TypeOK
  <2> QED
    BY <2>5, <2>6
<1>4. ASSUME NEW t \in Threads, WaitPredicateFalse(t)
      PROVE  waiters'[o] = Cardinality(InWait(o)')
  <2>1. /\ obj[t] \in Objects
        /\ waiters' = [waiters EXCEPT ![obj[t]] = @ - 1]
        /\ obj' = obj
        /\ pc[t] \in Waiting
        /\ pc'[t] \notin Waiting
        /\ \A u \in Threads \ {t} : pc'[u] = pc[u]
    BY <1>4 DEF WaitPredicateFalse, LeaveWaitSet, GoOn, Typed, TypeOK, LocalsSet, Waiting
  <2>2. CASE o = obj[t]
    <3>1. t \in InWait(o) /\ InWait(o)' = InWait(o) \ {t}
      BY <2>1, <2>2 DEF InWait
    <3> QED
      BY <1>1, <2>1, <2>2, <3>1, FS_RemoveElement DEF Typed, TypeOK
  <2>3. CASE o # obj[t]
    <3>1. InWait(o)' = InWait(o)
      BY <2>1, <2>3 DEF InWait
    <3> QED
      BY <1>1, <2>1, <2>3, <3>1 DEF Typed, TypeOK
  <2> QED
    BY <2>2, <2>3
<1>5. ASSUME NEW t \in Threads, NEW p \in Objects, NEW all \in BOOLEAN, Notify(t, p, all),
             waiters[p] > 0
      PROVE  waiters'[o] = Cardinality(InWait(o)')
  <2>1. /\ waiters' = waiters
        /\ pc[t] = "run"
        /\ pc'[t] \in Signalling
        /\ \A u \in Threads \ {t} : pc'[u] = pc[u] /\ obj'[u] = obj[u]
    BY <1>5 DEF Notify, Begin, GoOn, Signalling, Typed, TypeOK
  <2>2. InWait(o)' = InWait(o)
    BY <2>1 DEF InWait, Waiting, Signalling
  <2> QED
    BY <1>1, <2>1, <2>2
<1> QED
  BY <1>2, <1>3, <1>4, <1>5, MostStepsMoveNobody

\* The field on which notify decides that there is nobody to wake is right.
THEOREM WaitersAlwaysCounted == Spec => []WaitersCounted
BY TypedInit, TypedStep, SequencesInit, SequencesStep, CountInit, CountStep, PTL DEF Spec

-----------------------------------------------------------------------------
\* Monitor implements JavaMonitorSpec.

\* The labels at which a thread has given its monitor up to wait.
RestingLabels == Waiting \cup {"reacquire", "reacquireBlocked"}

\* A free monitor counts nothing, and a thread that rests has a depth to come
\* back to and does not own the monitor it waits on.
Balanced ==
  /\ \A o \in Objects : owner[o] = None <=> count[o] = 0
  /\ \A t \in Threads : pc[t] \in RestingLabels =>
       saved[t] > 0 /\ owner[obj[t]] # t

\* A step in which no monitor changes hands and nobody begins or ends to rest.
Quiet ==
  /\ UNCHANGED javaLock
  /\ \A u \in Threads :
       /\ pc[u] \in RestingLabels <=> pc'[u] \in RestingLabels
       /\ pc[u] \in RestingLabels => obj'[u] = obj[u] /\ saved'[u] = saved[u]

\* The four kinds of steps that are not quiet.
Loud ==
  \E t \in Threads :
    \/ \E o \in Objects : AcquireOrReenter(t, o) \/ MonitorExit(t, o)
    \/ WaitRelease(t)
    \/ WaitReturn(t)

\* A thread that is woken still rests, or still does not.
LEMMA WokenRests ==
  ASSUME NEW l \in Labels
  PROVE  l \in RestingLabels <=> WokenAt(l) \in RestingLabels
BY DEF WokenAt, RestingLabels, Waiting, Labels, EntryBlocked, Entering

\* Waking threads is quiet.
LEMMA WakingIsQuiet ==
  ASSUME Typed, NEW t \in Threads, NEW l \in Labels, NEW S, MoveAndWake(t, l, S),
         pc[t] \notin RestingLabels, l \notin RestingLabels,
         UNCHANGED <<javaLock, saved>>,
         \A u \in Threads \ {t} : obj'[u] = obj[u]
  PROVE  Quiet
<1>1. /\ pc' \in [Threads -> Labels]
      /\ pc'[t] = l
      /\ \A u \in Threads \ {t} : pc'[u] = IF u \in S THEN WokenAt(pc[u]) ELSE pc[u]
  BY MoveAndWakeEffect DEF Typed, TypeOK
<1>2. \A u \in Threads \ {t} : pc[u] \in RestingLabels <=> pc'[u] \in RestingLabels
  BY <1>1, WokenRests DEF Typed, TypeOK
<1> QED
  BY <1>1, <1>2 DEF Quiet

\* Every step is quiet or loud.
LEMMA QuietOrLoud == Typed /\ [Next]_vars => Quiet \/ Loud
<1> SUFFICES ASSUME Typed, [Next]_vars, ~Loud PROVE Quiet
  OBVIOUS
<1> USE DEF Typed, TypeOK, Labels, RestingLabels, Waiting, EntryBlocked, Entering,
    javaLock, waitState, waitLocals
<1> USE DEF Quiet
<1>1. ASSUME NEW t \in Threads, NEW o \in Objects, BlockOnEntry(t, o)
      PROVE  Quiet
  BY <1>1 DEF BlockOnEntry, EnterAttempt, Begin, GoOn
<1>2. ASSUME NEW t \in Threads, NEW o \in Objects, IllegalMonitorState(t, o)
      PROVE  Quiet
  BY <1>2 DEF IllegalMonitorState, Begin, Fail, Finish, GoOn
<1>3. ASSUME NEW t \in Threads, NEW o \in Objects, NEW l \in {"forever", "pending"}, ObjectWait(t, o, l)
      PROVE  Quiet
  BY <1>3 DEF ObjectWait, Begin, GoOn
<1>4. ASSUME NEW t \in Threads, WaitInterruptedAtEntry(t)
      PROVE  Quiet
  BY <1>4 DEF WaitInterruptedAtEntry, Begin, Fail, Finish, GoOn
<1>5. ASSUME NEW t \in Threads, WaitByOther(t)
      PROVE  Quiet
  BY <1>5 DEF WaitByOther, Finish, GoOn
<1>6. ASSUME NEW t \in Threads, WaitPredicateTrue(t)
      PROVE  Quiet
  BY <1>6 DEF WaitPredicateTrue, GoOn
<1>7. ASSUME NEW t \in Threads, WaitPark(t)
      PROVE  Quiet
  BY <1>7 DEF WaitPark, GoOn
<1>8. ASSUME NEW t \in Threads, WaitPredicateFalse(t)
      PROVE  Quiet
  BY <1>8 DEF WaitPredicateFalse, GoOn
<1>9. ASSUME NEW t \in Threads, BlockOnReacquire(t)
      PROVE  Quiet
  BY <1>9 DEF BlockOnReacquire, GoOn
<1>10. ASSUME NEW t \in Threads, Expire(t)
      PROVE  Quiet
  BY <1>10 DEF Expire, GoOn
<1>11. ASSUME NEW t \in Threads, NEW o \in Objects, NEW all \in BOOLEAN, Notify(t, o, all)
      PROVE  Quiet
  BY <1>11 DEF Notify, Begin, Finish, GoOn
<1>12. ASSUME NEW t \in Threads, NEW u \in Threads, Interrupt(t, u)
      PROVE  Quiet
  BY <1>12 DEF Interrupt, Begin, GoOn
<1>13. ASSUME NEW t \in Threads, ReadWaitTarget(t)
      PROVE  Quiet
  BY <1>13 DEF ReadWaitTarget, Finish, GoOn
<1>14. ASSUME NEW t \in Threads, ClearInterruptEvent(t)
      PROVE  Quiet
  BY <1>14 DEF ClearInterruptEvent, Begin, Fail, Finish, GoOn
<1>15. ASSUME NEW t \in Threads, ExitSignal(t)
      PROVE  Quiet
  <2>1. pc[t] \notin RestingLabels /\ UNCHANGED <<javaLock, saved>>
    BY <1>15 DEF ExitSignal
  <2>2. \A u \in Threads \ {t} : obj'[u] = obj[u]
    BY <1>15 DEF ExitSignal, Finish
  <2>3. \E S : MoveAndWake(t, "run", S)
    BY <1>15 DEF ExitSignal
  <2> QED
    BY <2>1, <2>2, <2>3, WakingIsQuiet
<1>16. ASSUME NEW t \in Threads, SignalOne(t)
      PROVE  Quiet
  <2>1. pc[t] \notin RestingLabels /\ UNCHANGED <<javaLock, saved>>
    BY <1>16 DEF SignalOne
  <2>2. \A u \in Threads \ {t} : obj'[u] = obj[u]
    BY <1>16 DEF SignalOne, Finish
  <2>3. \E S : MoveAndWake(t, "run", S)
    BY <1>16 DEF SignalOne
  <2> QED
    BY <2>1, <2>2, <2>3, WakingIsQuiet
<1>17. ASSUME NEW t \in Threads, SignalAll(t)
      PROVE  Quiet
  <2>1. pc[t] \notin RestingLabels /\ UNCHANGED <<javaLock, saved>>
    BY <1>17 DEF SignalAll
  <2>2. \A u \in Threads \ {t} : obj'[u] = obj[u]
    BY <1>17 DEF SignalAll, Finish
  <2>3. \E S : MoveAndWake(t, "run", S)
    BY <1>17 DEF SignalAll
  <2> QED
    BY <2>1, <2>2, <2>3, WakingIsQuiet
<1>18. ASSUME NEW t \in Threads, InterruptSignal(t)
      PROVE  Quiet
  <2>1. pc[t] \notin RestingLabels /\ UNCHANGED <<javaLock, saved>>
    BY <1>18 DEF InterruptSignal
  <2>2. \A u \in Threads \ {t} : obj'[u] = obj[u]
    BY <1>18 DEF InterruptSignal, Finish
  <2>3. \E S : MoveAndWake(t, "run", S)
    BY <1>18 DEF InterruptSignal
  <2> QED
    BY <2>1, <2>2, <2>3, WakingIsQuiet
<1>19. ASSUME NEW t \in Threads, SpuriousWakeup(t)
      PROVE  Quiet
  BY <1>19, WokenRests DEF SpuriousWakeup, GoOn
<1>20. CASE UNCHANGED vars
  BY <1>20 DEF vars
<1> HIDE DEF Quiet, Typed, TypeOK
<1> QED
  BY <1>1, <1>2, <1>3, <1>4, <1>5, <1>6, <1>7, <1>8, <1>9, <1>10,
     <1>11, <1>12, <1>13, <1>14, <1>15, <1>16, <1>17, <1>18, <1>19,
     <1>20 DEF Next, Continue, Start, Loud

-----------------------------------------------------------------------------
\* Nothing is owned and nobody rests at first ...
LEMMA BalancedInit == Init => Balanced
BY DEF Init, Balanced, RestingLabels, Waiting

\* ... a quiet step changes nothing the balance is about, and the loud ones keep
\* it: the depth a thread saves is the count of a monitor it owns.
LEMMA BalancedStep == Typed /\ Balanced /\ [Next]_vars => Balanced'
<1> SUFFICES ASSUME Typed, Balanced, [Next]_vars PROVE Balanced'
  OBVIOUS
<1> USE MonitorAssumption DEF Balanced, Typed, TypeOK, LocalsSet, RestingLabels, Waiting
<1>1. CASE Quiet
  BY <1>1 DEF Quiet, javaLock
<1>2. ASSUME NEW t \in Threads, NEW o \in Objects, AcquireOrReenter(t, o)
      PROVE  Balanced'
  BY <1>2 DEF AcquireOrReenter, MayOwn, EnterAttempt, Begin, Finish, GoOn, waitLocals
<1>3. ASSUME NEW t \in Threads, NEW o \in Objects, MonitorExit(t, o)
      PROVE  Balanced'
  BY <1>3 DEF MonitorExit, HoldsLock, Finish, GoOn, waitLocals
<1>4. ASSUME NEW t \in Threads, WaitRelease(t)
      PROVE  Balanced'
  <2>1. PICK S : MoveAndWake(t, "waitTest", S)
    BY <1>4 DEF WaitRelease
  <2>2. /\ pc'[t] = "waitTest"
        /\ \A u \in Threads \ {t} : pc'[u] \in RestingLabels => pc[u] \in RestingLabels
    BY <2>1, MoveAndWakeEffect, WokenRests DEF Labels
  <2>3. obj[t] \in Objects /\ owner[obj[t]] = t
    BY <1>4 DEF WaitRelease
  <2> QED
    BY <1>4, <2>2, <2>3 DEF WaitRelease
<1>5. ASSUME NEW t \in Threads, WaitReturn(t)
      PROVE  Balanced'
  BY <1>5 DEF WaitReturn, MayOwn, Finish, GoOn
<1> QED
  BY <1>1, <1>2, <1>3, <1>4, <1>5, QuietOrLoud DEF Loud

-----------------------------------------------------------------------------
\* The abstract monitor starts free.
LEMMA RefinementInit == Init => Java!Init
BY DEF Init, Java!Init, JavaHeld, JavaResting, Waiting

\* How often t holds o, and how deep t rests on o, seen by JavaMonitorSpec.
HeldBy(t, o) == IF owner[o] = t THEN count[o] ELSE 0
RestOf(t, o) == IF obj[t] = o /\ pc[t] \in RestingLabels THEN saved[t] ELSE 0

\* A table over threads and objects is updated at one place when every other
\* entry is what it was.
LEMMA UpdateOfTable ==
  ASSUME NEW F, NEW G, NEW t \in Threads, NEW o \in Objects, NEW n,
         F = [u \in Threads |-> [p \in Objects |-> F[u][p]]],
         G = [u \in Threads |-> [p \in Objects |-> G[u][p]]],
         \A u \in Threads, p \in Objects :
           G[u][p] = IF u = t /\ p = o THEN n ELSE F[u][p]
  PROVE  G = [F EXCEPT ![t] = [F[t] EXCEPT ![o] = n]]
<1>1. \A u \in Threads : F[u] = [p \in Objects |-> F[u][p]]
  OBVIOUS
<1>2. \A u \in Threads : G[u] = [p \in Objects |-> G[u][p]]
  OBVIOUS
<1>3. G[t] = [F[t] EXCEPT ![o] = n]
  <2>1. G[t] = [p \in Objects |-> IF p = o THEN n ELSE F[t][p]]
    BY <1>2
  <2> QED
    BY <1>1, <2>1
<1>4. \A u \in Threads \ {t} : G[u] = F[u]
  <2>1. \A u \in Threads \ {t} : \A p \in Objects : G[u][p] = F[u][p]
    OBVIOUS
  <2>2. \A u \in Threads \ {t} :
          [p \in Objects |-> G[u][p]] = [p \in Objects |-> F[u][p]]
    BY <2>1
  <2> QED
    BY <1>1, <1>2, <2>2
<1>5. G = [u \in Threads |-> G[u]] /\ F = [u \in Threads |-> F[u]]
  OBVIOUS
<1> QED
  BY <1>3, <1>4, <1>5

\* A change of one thread's hold on one object, as one update of JavaHeld.
LEMMA HeldUpdate ==
  ASSUME NEW t \in Threads, NEW o \in Objects, NEW n,
         \A u \in Threads, p \in Objects :
           HeldBy(u, p)' = IF u = t /\ p = o THEN n ELSE HeldBy(u, p)
  PROVE  JavaHeld' = [JavaHeld EXCEPT ![t][o] = n]
<1>1. /\ JavaHeld = [u \in Threads |-> [p \in Objects |-> HeldBy(u, p)]]
      /\ JavaHeld' = [u \in Threads |-> [p \in Objects |-> HeldBy(u, p)']]
  BY DEF JavaHeld, HeldBy
<1> HIDE DEF HeldBy
<1>2. \A u \in Threads, p \in Objects :
        JavaHeld[u][p] = HeldBy(u, p) /\ JavaHeld'[u][p] = HeldBy(u, p)'
  BY <1>1
<1>3. /\ JavaHeld = [u \in Threads |-> [p \in Objects |-> JavaHeld[u][p]]]
      /\ JavaHeld' = [u \in Threads |-> [p \in Objects |-> JavaHeld'[u][p]]]
  BY <1>1
<1> QED
  BY <1>2, <1>3, UpdateOfTable

\* The same of JavaResting.
LEMMA RestUpdate ==
  ASSUME NEW t \in Threads, NEW o \in Objects, NEW n,
         \A u \in Threads, p \in Objects :
           RestOf(u, p)' = IF u = t /\ p = o THEN n ELSE RestOf(u, p)
  PROVE  JavaResting' = [JavaResting EXCEPT ![t][o] = n]
<1>1. /\ JavaResting = [u \in Threads |-> [p \in Objects |-> RestOf(u, p)]]
      /\ JavaResting' = [u \in Threads |-> [p \in Objects |-> RestOf(u, p)']]
  BY DEF JavaResting, RestOf, RestingLabels
<1> HIDE DEF RestOf
<1>2. \A u \in Threads, p \in Objects :
        JavaResting[u][p] = RestOf(u, p) /\ JavaResting'[u][p] = RestOf(u, p)'
  BY <1>1
<1>3. /\ JavaResting = [u \in Threads |-> [p \in Objects |-> JavaResting[u][p]]]
      /\ JavaResting' = [u \in Threads |-> [p \in Objects |-> JavaResting'[u][p]]]
  BY <1>1
<1> QED
  BY <1>2, <1>3, UpdateOfTable

\* Every step is a step of the abstract monitor, or a stutter of it.
LEMMA RefinementStep ==
  Typed /\ Balanced /\ [Next]_vars => [Java!Next]_(Java!vars)
<1> SUFFICES ASSUME Typed, Balanced, [Next]_vars PROVE [Java!Next]_(Java!vars)
  OBVIOUS
<1> USE MonitorAssumption DEF Balanced, Typed, TypeOK, LocalsSet, RestingLabels, Waiting
<1>1. CASE Quiet
  <2>1. UNCHANGED JavaHeld
    BY <1>1 DEF Quiet, JavaHeld, javaLock
  <2>2. UNCHANGED JavaResting
    BY <1>1 DEF Quiet, JavaResting
  <2> QED
    BY <2>1, <2>2 DEF Java!vars
<1>2. ASSUME NEW t \in Threads, NEW o \in Objects, AcquireOrReenter(t, o)
      PROVE  Java!Enter(t, o)
  <2>1. ~Java!Excluded(t, o)
    BY <1>2 DEF AcquireOrReenter, MayOwn, Java!Excluded, JavaHeld
  <2>2. JavaResting[t][o] = 0
    BY <1>2 DEF AcquireOrReenter, EnterAttempt, Begin, JavaResting
  <2>3. JavaHeld' = [JavaHeld EXCEPT ![t][o] = HeldBy(t, o) + 1]
    <3>1. \A u \in Threads, p \in Objects :
            HeldBy(u, p)' = IF u = t /\ p = o THEN HeldBy(t, o) + 1 ELSE HeldBy(u, p)
      BY <1>2 DEF AcquireOrReenter, MayOwn, HeldBy
    <3> HIDE DEF Balanced, Typed, TypeOK, LocalsSet, RestingLabels, Waiting
    <3> QED
      BY <3>1, HeldUpdate
  <2>4. UNCHANGED JavaResting
    BY <1>2 DEF AcquireOrReenter, EnterAttempt, Begin, JavaResting, Finish, GoOn, waitLocals
  <2>5. JavaHeld[t][o] = HeldBy(t, o)
    BY DEF JavaHeld, HeldBy
  <2> QED
    BY <2>1, <2>2, <2>3, <2>4, <2>5 DEF Java!Enter
<1>3. ASSUME NEW t \in Threads, NEW o \in Objects, MonitorExit(t, o)
      PROVE  Java!Exit(t, o)
  <2>1. JavaHeld[t][o] > 0
    BY <1>3 DEF MonitorExit, HoldsLock, JavaHeld
  <2>2. JavaHeld' = [JavaHeld EXCEPT ![t][o] = HeldBy(t, o) - 1]
    <3>1. \A u \in Threads, p \in Objects :
            HeldBy(u, p)' = IF u = t /\ p = o THEN HeldBy(t, o) - 1 ELSE HeldBy(u, p)
      BY <1>3 DEF MonitorExit, HoldsLock, HeldBy
    <3> HIDE DEF Balanced, Typed, TypeOK, LocalsSet, RestingLabels, Waiting
    <3> QED
      BY <3>1, HeldUpdate
  <2>3. UNCHANGED JavaResting
    BY <1>3 DEF MonitorExit, JavaResting, Finish, GoOn, waitLocals
  <2>4. JavaHeld[t][o] = HeldBy(t, o)
    BY DEF JavaHeld, HeldBy
  <2> QED
    BY <2>1, <2>2, <2>3, <2>4 DEF Java!Exit
<1>4. ASSUME NEW t \in Threads, WaitRelease(t)
      PROVE  Java!Rest(t, obj[t])
  <2>1. PICK S : MoveAndWake(t, "waitTest", S)
    BY <1>4 DEF WaitRelease
  <2>2. /\ pc'[t] = "waitTest"
        /\ \A u \in Threads \ {t} : pc'[u] \in RestingLabels <=> pc[u] \in RestingLabels
    <3>1. /\ pc'[t] = "waitTest"
          /\ \A u \in Threads \ {t} :
               pc'[u] = IF u \in S THEN WokenAt(pc[u]) ELSE pc[u]
      BY <2>1 DEF MoveAndWake
    <3>2. \A u \in Threads : pc[u] \in Labels
      OBVIOUS
    <3> HIDE DEF RestingLabels, Waiting, Typed, TypeOK, Balanced
    <3> QED
      BY <3>1, <3>2, WokenRests
  <2>3. obj[t] \in Objects /\ owner[obj[t]] = t /\ pc[t] = "waitLock"
    BY <1>4 DEF WaitRelease
  <2>4. JavaHeld[t][obj[t]] > 0 /\ JavaHeld[t][obj[t]] = count[obj[t]]
    BY <2>3 DEF JavaHeld
  <2>5. JavaHeld' = [JavaHeld EXCEPT ![t][obj[t]] = 0]
    <3>1. \A u \in Threads, p \in Objects :
            HeldBy(u, p)' = IF u = t /\ p = obj[t] THEN 0 ELSE HeldBy(u, p)
      BY <1>4, <2>3 DEF WaitRelease, HeldBy
    <3> HIDE DEF Balanced, Typed, TypeOK, LocalsSet, RestingLabels, Waiting
    <3> QED
      BY <2>3, <3>1, HeldUpdate
  <2>6. JavaResting' = [JavaResting EXCEPT ![t][obj[t]] = count[obj[t]]]
    <3>1. obj' = obj /\ saved' = [saved EXCEPT ![t] = count[obj[t]]]
      BY <1>4 DEF WaitRelease
    <3>2. \A u \in Threads, p \in Objects :
            RestOf(u, p)' = IF u = t /\ p = obj[t] THEN count[obj[t]] ELSE RestOf(u, p)
      BY <2>2, <2>3, <3>1 DEF RestOf
    <3> HIDE DEF Balanced, Typed, TypeOK, LocalsSet, RestingLabels, Waiting
    <3> QED
      BY <2>3, <3>2, RestUpdate
  <2> QED
    BY <2>4, <2>5, <2>6 DEF Java!Rest
<1>5. ASSUME NEW t \in Threads, WaitReturn(t)
      PROVE  Java!Resume(t, obj[t])
  <2>1. obj[t] \in Objects /\ pc[t] = "reacquire" /\ owner[obj[t]] = None
    BY <1>5 DEF WaitReturn, MayOwn
  <2>2. JavaResting[t][obj[t]] = saved[t] /\ saved[t] > 0
    BY <2>1 DEF JavaResting
  <2>3. ~Java!Excluded(t, obj[t])
    BY <2>1 DEF Java!Excluded, JavaHeld
  <2>4. JavaHeld' = [JavaHeld EXCEPT ![t][obj[t]] = saved[t]]
    <3>1. \A u \in Threads, p \in Objects :
            HeldBy(u, p)' = IF u = t /\ p = obj[t] THEN saved[t] ELSE HeldBy(u, p)
      BY <1>5, <2>1 DEF WaitReturn, HeldBy
    <3> HIDE DEF Balanced, Typed, TypeOK, LocalsSet, RestingLabels, Waiting
    <3> QED
      BY <2>1, <3>1, HeldUpdate
  <2>5. JavaResting' = [JavaResting EXCEPT ![t][obj[t]] = 0]
    BY <1>5, <2>1 DEF WaitReturn, JavaResting, Finish, GoOn
  <2> QED
    BY <2>2, <2>3, <2>4, <2>5 DEF Java!Resume
<1>6. ASSUME NEW t \in Threads, pc[t] \notin {"run", "irqTarget"}
      PROVE  obj[t] \in Objects
  BY <1>6
<1>7. CASE Loud
  <2>1. PICK t \in Threads :
          \/ \E o \in Objects : AcquireOrReenter(t, o) \/ MonitorExit(t, o)
          \/ WaitRelease(t)
          \/ WaitReturn(t)
    BY <1>7 DEF Loud
  <2>2. WaitRelease(t) \/ WaitReturn(t) => obj[t] \in Objects
    BY <1>6 DEF WaitRelease, WaitReturn
  <2> QED
    BY <1>2, <1>3, <1>4, <1>5, <2>1, <2>2 DEF Java!Next
<1> QED
  BY <1>1, <1>7, QuietOrLoud

\* The monitors of the VM are Java monitors: whatever the interleaving, every
\* step is one that JavaMonitorSpec allows, or invisible to it.
THEOREM MonitorImplementsJava == Spec => ImplementsJavaMonitor
<1> QED
  BY TypedInit, TypedStep, BalancedInit, BalancedStep, RefinementInit,
     RefinementStep, PTL DEF Spec, ImplementsJavaMonitor, Java!Spec

-----------------------------------------------------------------------------
(* The lives of the same threads. *)

LifeTyped ==
  /\ phase \in {"Created", "Bootstrapping", "Running", "ShuttingDown"}
  /\ eetop \in [Threads -> BOOLEAN]
  /\ threadStatus \in [Threads -> {"New", "Runnable", "Terminated"}]
  /\ live \subseteq Threads
  /\ lock \in [Threads -> Threads \cup {None}]
  /\ stage \in [Threads -> Stages]
  /\ peer \in [Threads -> Threads \cup {None}]

\* Until it has spawned the thread, the parent has an unborn one in hand; it is
\* its only parent, for it holds the monitor of the Thread object throughout.
Parented ==
  \A p \in Threads :
    /\ stage[p] \in Starting =>
         peer[p] \in Threads \ {Main, p} /\ lock[peer[p]] = p
    /\ stage[p] \in {"setEetop", "setStatus", "register", "spawn"} => stage[peer[p]] = "new"
    /\ stage[p] \in {"setStatus", "register", "spawn"} => eetop[peer[p]]
    /\ stage[p] \in {"register", "spawn"} => threadStatus[peer[p]] = "Runnable"
    /\ stage[p] = "spawn" => peer[p] \in live

Born == \A u \in Threads \ {Main} : stage[u] # "new" => threadStatus[u] # "New"
\* A thread is TERMINATED before it is no longer alive.
Ending ==
  /\ \A t \in Threads \ {Main} :
       /\ stage[t] \in {"termLock", "termStatus", "termEetop"} => eetop[t]
       /\ stage[t] \in {"termEetop", "termNotify", "unregister"} => threadStatus[t] = "Terminated"
       /\ stage[t] = "ended" => eetop[t] \/ threadStatus[t] = "Terminated"
  /\ \A t \in Threads : stage[t] \in Joining => peer[t] \in Threads

SleepersSleep == \A t \in Threads : stage[t] \in Sleeping => t \in Sleepers

\* One shutdown, by the main thread, drains the table; nothing is drained before.
OneShutdown ==
  /\ \A t \in Threads : stage[t] \in {"bootstrap", "drain", "joinAll"} => t = Main
  /\ stage[Main] = "bootstrap" => phase = "Bootstrapping"
  /\ stage[Main] = "drain" => joining = {} /\ phase = "ShuttingDown"
  /\ joining # {} => phase = "ShuttingDown"

Bookkeeping == LifeTyped /\ Parented /\ Born /\ Ending /\ SleepersSleep /\ OneShutdown
               /\ RunningIsKnown /\ LiveThreadsExist /\ NoHandleLost

\* Initially only the main thread is known.
LEMMA BookkeepingInit == LifeInit => Bookkeeping
BY ThreadAssumption
DEF LifeInit, Bookkeeping, LifeTyped, Parented, Born, Ending, SleepersSleep,
    OneShutdown, RunningIsKnown, LiveThreadsExist, NoHandleLost, InCode, Stages, Starting,
    Joining, Sleeping, Closing, Terminating

\* Every step keeps Bookkeeping.
LEMMA BookkeepingStep == Bookkeeping /\ [LifeNext]_lifeVars => Bookkeeping'
<1> SUFFICES ASSUME Bookkeeping, [LifeNext]_lifeVars PROVE Bookkeeping'
  OBVIOUS
<1> USE ThreadAssumption DEF Bookkeeping, LifeTyped, Parented, Born, Ending, SleepersSleep,
    OneShutdown, RunningIsKnown, LiveThreadsExist, NoHandleLost, InCode, Stages,
    Starting, Joining, Sleeping, Closing, Terminating, machine, record, LifeStep
<1>1. ASSUME NEW t \in Threads, NEW u \in Threads, StartThread(t, u) PROVE Bookkeeping'
  BY <1>1 DEF StartThread, Acquire
<1>2. ASSUME NEW t \in Threads, MarkAlive(t) PROVE Bookkeeping'
  BY <1>2 DEF MarkAlive
<1>3. ASSUME NEW t \in Threads, MarkRunnable(t) PROVE Bookkeeping'
  BY <1>3 DEF MarkRunnable
<1>4. ASSUME NEW t \in Threads, Register(t) PROVE Bookkeeping'
  BY <1>4 DEF Register
<1>5. ASSUME NEW t \in Threads, Spawn(t) PROVE Bookkeeping'
  <2>1. /\ peer[t] \in Threads \ {Main, t} /\ stage[peer[t]] = "new"
        /\ stage'[t] = "insert" /\ stage'[peer[t]] = "body"
        /\ \A u \in Threads \ {t, peer[t]} : stage'[u] = stage[u]
        /\ stage' \in [Threads -> Stages]
    BY <1>5 DEF Spawn
  <2>2. \A p \in Threads \ {t} : stage[p] \in Starting => peer[p] # peer[t]
    BY <1>5 DEF Spawn
  <2>3. LifeTyped'
    BY <1>5, <2>1, <2>2 DEF Spawn
  <2>4. Parented'
    BY <1>5, <2>1, <2>2 DEF Spawn
  <2>5. Born'
    BY <1>5, <2>1, <2>2 DEF Spawn
  <2>6. SleepersSleep'
    BY <1>5, <2>1, <2>2 DEF Spawn
  <2>7. OneShutdown'
    BY <1>5, <2>1, <2>2 DEF Spawn
  <2>8. RunningIsKnown'
    BY <1>5, <2>1, <2>2 DEF Spawn
  <2>9. LiveThreadsExist'
    BY <1>5, <2>1, <2>2 DEF Spawn
  <2>10. NoHandleLost'
    BY <1>5, <2>1, <2>2 DEF Spawn
  <2>11. Ending'
    BY <1>5, <2>1, <2>2 DEF Spawn
  <2> QED
    BY <2>3, <2>4, <2>5, <2>6, <2>7, <2>8, <2>9, <2>10, <2>11
<1>6. ASSUME NEW t \in Threads, InsertHandle(t) PROVE Bookkeeping'
  BY <1>6 DEF InsertHandle
<1>7. ASSUME NEW t \in Threads, StartReturns(t) PROVE Bookkeeping'
  BY <1>7 DEF StartReturns, Release
<1>8. ASSUME NEW t \in Threads, RunReturns(t) \/ RunThrows(t) \/ DispatchUncaught(t)
      PROVE  Bookkeeping'
  <2>1. CASE RunReturns(t)
    BY <2>1 DEF RunReturns
  <2>2. CASE RunThrows(t)
    BY <2>2 DEF RunThrows
  <2>3. CASE DispatchUncaught(t)
    BY <2>3 DEF DispatchUncaught
  <2> QED
    BY <1>8, <2>1, <2>2, <2>3
<1>9. ASSUME NEW t \in Threads, TermLock(t) PROVE Bookkeeping'
  BY <1>9 DEF TermLock, Acquire
<1>10. ASSUME NEW t \in Threads, TermStatus(t) PROVE Bookkeeping'
  BY <1>10 DEF TermStatus
<1>11. ASSUME NEW t \in Threads, TermEetop(t) PROVE Bookkeeping'
  BY <1>11 DEF TermEetop
<1>12. ASSUME NEW t \in Threads, TermNotify(t) PROVE Bookkeeping'
  <2>1. /\ stage'[t] = "unregister" /\ stage[t] = "termNotify"
        /\ \A u \in Threads \ {t} :
             stage'[u] = stage[u] \/ (stage[u] = "joinWait" /\ stage'[u] = "joinTest")
        /\ stage' \in [Threads -> Stages]
    BY <1>12 DEF TermNotify, WaitersOn
  <2>2. LifeTyped'
    BY <1>12, <2>1 DEF TermNotify
  <2>3. Parented'
    BY <1>12, <2>1 DEF TermNotify
  <2>4. Born'
    BY <1>12, <2>1 DEF TermNotify
  <2>5. SleepersSleep'
    BY <1>12, <2>1 DEF TermNotify
  <2>6. OneShutdown'
    BY <1>12, <2>1 DEF TermNotify
  <2>7. RunningIsKnown'
    BY <1>12, <2>1 DEF TermNotify
  <2>8. LiveThreadsExist'
    BY <1>12, <2>1 DEF TermNotify
  <2>9. NoHandleLost'
    BY <1>12, <2>1 DEF TermNotify
  <2>10. Ending'
    BY <1>12, <2>1 DEF TermNotify
  <2> QED
    BY <2>2, <2>3, <2>4, <2>5, <2>6, <2>7, <2>8, <2>9, <2>10
<1>13. ASSUME NEW t \in Threads, Unregister(t) PROVE Bookkeeping'
  BY <1>13 DEF Unregister
<1>14. ASSUME NEW t \in Threads, Sleep(t) PROVE Bookkeeping'
  BY <1>14 DEF Sleep
<1>15. ASSUME NEW t \in Threads, SleepTest(t) PROVE Bookkeeping'
  <2>1. CASE LifeStep(t, "sleepTest", "body")
    BY <1>15, <2>1 DEF SleepTest
  <2>2. CASE LifeStep(t, "sleepTest", "sleepLeft")
    BY <1>15, <2>2 DEF SleepTest
  <2> QED
    BY <1>15, <2>1, <2>2 DEF SleepTest
<1>16. ASSUME NEW t \in Threads, SleepLeft(t) PROVE Bookkeeping'
  <2>1. CASE LifeStep(t, "sleepLeft", "sleepTest")
    BY <1>16, <2>1 DEF SleepLeft
  <2>2. CASE LifeStep(t, "sleepLeft", "ended")
    BY <1>16, <2>2 DEF SleepLeft
  <2> QED
    BY <1>16, <2>1, <2>2 DEF SleepLeft
<1>17. ASSUME NEW t \in Threads, NEW u \in Threads, Join(t, u) PROVE Bookkeeping'
  BY <1>17 DEF Join
<1>18. ASSUME NEW t \in Threads, JoinWaits(t) \/ JoinReturns(t)
      PROVE  Bookkeeping'
  <2>1. CASE JoinWaits(t)
    BY <2>1 DEF JoinWaits
  <2>2. CASE JoinReturns(t)
    BY <2>2 DEF JoinReturns
  <2> QED
    BY <1>18, <2>1, <2>2
<1>19. ASSUME Bootstrap(Main) PROVE Bookkeeping'
  BY <1>19 DEF Bootstrap
<1>20. ASSUME NEW t \in Threads, BootstrapEnds(t) PROVE Bookkeeping'
  BY <1>20 DEF BootstrapEnds
<1>21. ASSUME Shutdown(Main) PROVE Bookkeeping'
  BY <1>21 DEF Shutdown
<1>22. ASSUME NEW t \in Threads, DrainHandles(t) PROVE Bookkeeping'
  <2>1. t = Main /\ joining = {} /\ stage[t] = "drain" /\ stage' = [stage EXCEPT ![t] = "joinAll"]
    BY <1>22 DEF DrainHandles
  <2>2. LifeTyped'
    BY <1>22, <2>1 DEF DrainHandles
  <2>3. Parented'
    BY <1>22, <2>1 DEF DrainHandles
  <2>4. Born'
    BY <1>22, <2>1 DEF DrainHandles
  <2>5. SleepersSleep'
    BY <1>22, <2>1 DEF DrainHandles
  <2>6. OneShutdown'
    BY <1>22, <2>1 DEF DrainHandles
  <2>7. RunningIsKnown'
    BY <1>22, <2>1 DEF DrainHandles
  <2>8. LiveThreadsExist'
    BY <1>22, <2>1 DEF DrainHandles
  <2>9. NoHandleLost'
    BY <1>22, <2>1 DEF DrainHandles
  <2>10. Ending'
    BY <1>22, <2>1 DEF DrainHandles
  <2> QED
    BY <2>2, <2>3, <2>4, <2>5, <2>6, <2>7, <2>8, <2>9, <2>10
<1>23. ASSUME NEW t \in Threads, NEW u \in Threads, JoinHandle(t, u) PROVE Bookkeeping'
  BY <1>23 DEF JoinHandle
<1>24. ASSUME NEW t \in Threads, ShutdownReturns(t) PROVE Bookkeeping'
  BY <1>24 DEF ShutdownReturns
<1>25. CASE UNCHANGED lifeVars
  BY <1>25 DEF lifeVars
<1> HIDE DEF Bookkeeping
<1> QED
  BY <1>1, <1>2, <1>3, <1>4, <1>5, <1>6, <1>7, <1>8, <1>9, <1>10, <1>11, <1>12,
     <1>13, <1>14, <1>15, <1>16, <1>17, <1>18, <1>19, <1>20, <1>21, <1>22, <1>23,
     <1>24, <1>25 DEF LifeNext, ContinueLife, Call

\* A thread that executes is always known to be alive.
THEOREM RunningIsAlwaysKnown == LifeSpec => []RunningIsKnown
<1>1. Bookkeeping => RunningIsKnown
  BY DEF Bookkeeping
<1> QED
  BY <1>1, BookkeepingInit, BookkeepingStep, PTL DEF LifeSpec

\* Registration and removal never cross.
THEOREM LiveThreadsAlwaysExist == LifeSpec => []LiveThreadsExist
<1>1. Bookkeeping => LiveThreadsExist
  BY DEF Bookkeeping
<1> QED
  BY <1>1, BookkeepingInit, BookkeepingStep, PTL DEF LifeSpec

\* A handle is always in somebody's hands, however shutdown and start overlap.
THEOREM NoHandleIsEverLost == LifeSpec => []NoHandleLost
<1>1. Bookkeeping => NoHandleLost
  BY DEF Bookkeeping
<1> QED
  BY <1>1, BookkeepingInit, BookkeepingStep, PTL DEF LifeSpec

\* Nobody comes out of join() on a thread that has been started and not ended.
LEMMA JoinStep ==
  Bookkeeping /\ [LifeNext]_lifeVars =>
    [\A t \in Threads : JoinReturns(t) /\ peer[t] # Main =>
       threadStatus[peer[t]] = "Terminated" \/ stage[peer[t]] = "new"]_lifeVars
<1> SUFFICES ASSUME Bookkeeping, NEW t \in Threads, JoinReturns(t), peer[t] # Main,
                    stage[peer[t]] # "new"
             PROVE  threadStatus[peer[t]] = "Terminated"
  OBVIOUS
<1>1. peer[t] \in Threads \ {Main} /\ ~eetop[peer[t]]
  BY DEF JoinReturns, LifeStep, Bookkeeping, Ending, Joining
<1> QED
  BY <1>1 DEF Bookkeeping, Ending, RunningIsKnown, InCode, LifeTyped, Stages, Terminating

\* join() outlives the body of the thread it is about.
THEOREM JoinAlwaysAwaitsTermination == LifeSpec => JoinAwaitsTermination
BY BookkeepingInit, BookkeepingStep, JoinStep, PTL DEF LifeSpec, JoinAwaitsTermination

-----------------------------------------------------------------------------
(* The interrupt status of the same threads, kept twice. *)

\* Where t is in a call that writes its own status, and what it has written.
StatusLabels == {"run", "interrupt0", "clearEvent", "sleeping", "clearField", "clearFlag"}

StatusTyped ==
  /\ field \in [Threads -> BOOLEAN]
  /\ flag \in [Threads -> BOOLEAN]
  /\ at \in [Threads -> StatusLabels]
  /\ whom \in [Threads -> Threads \cup {None}]

Targeted ==
  \A t \in Threads :
    /\ at[t] = "interrupt0" => whom[t] \in Threads
    /\ whom[t] \in Alone => whom[t] = t

Written ==
  \A t \in Alone :
    /\ at[t] \in {"run", "sleeping"} => flag[t] = field[t]
    /\ at[t] = "interrupt0" => IF whom[t] = t THEN field[t] ELSE flag[t] = field[t]
    /\ at[t] \in {"clearEvent", "clearFlag"} => ~field[t]

Halfway == StatusTyped /\ Targeted /\ Written

\* Every status is FALSE at first ...
LEMMA HalfwayInit ==
  StatusInit => Halfway
BY InterruptAssumption DEF StatusInit, Halfway, StatusTyped, Targeted, Written, StatusLabels

\* ... and every step of a call leaves the status of a lone thread half written
\* at most as its own program counter says.
LEMMA HalfwayStep ==
  Halfway /\ [StatusNext]_statusVars => Halfway'
<1> SUFFICES ASSUME Halfway, [StatusNext]_statusVars PROVE Halfway'
  OBVIOUS
<1> USE InterruptAssumption DEF Halfway, StatusTyped, Targeted, Written, StatusLabels, StatusStep, Set
<1>1. ASSUME NEW t \in Threads, NEW u \in Threads, InterruptThread(t, u)
      PROVE  Halfway'
  BY <1>1 DEF InterruptThread
<1>2. ASSUME NEW t \in Threads, Interrupt0(t)
      PROVE  Halfway'
  BY <1>2 DEF Interrupt0
<1>3. ASSUME NEW t \in Threads, Interrupted(t)
      PROVE  Halfway'
  BY <1>3 DEF Interrupted
<1>4. ASSUME NEW t \in Threads, ClearEvent(t)
      PROVE  Halfway'
  BY <1>4 DEF ClearEvent
<1>5. ASSUME NEW t \in Threads, SleepOrThrow(t)
      PROVE  Halfway'
  BY <1>5 DEF SleepOrThrow
<1>6. ASSUME NEW t \in Threads, SleepEnds(t)
      PROVE  Halfway'
  BY <1>6 DEF SleepEnds
<1>7. ASSUME NEW t \in Threads, SleepInterrupted(t)
      PROVE  Halfway'
  BY <1>7 DEF SleepInterrupted
<1>8. ASSUME NEW t \in Threads, ClearField(t)
      PROVE  Halfway'
  BY <1>8 DEF ClearField
<1>9. ASSUME NEW t \in Threads, ClearFlag(t)
      PROVE  Halfway'
  BY <1>9 DEF ClearFlag
<1>10. CASE UNCHANGED statusVars
  BY <1>10 DEF statusVars
<1> HIDE DEF Halfway
<1> QED
  BY <1>1, <1>2, <1>3, <1>4, <1>5, <1>6, <1>7, <1>8, <1>9, <1>10 DEF StatusNext, ContinueStatus

\* However many threads there are and whatever they interrupt, the two copies of the
\* status of a lone thread agree between its calls.
THEOREM MirrorAlwaysAgreesAlone ==
  StatusSpec => []MirrorAgreesAlone
<1>1. Halfway => MirrorAgreesAlone
  BY DEF Halfway, Written, MirrorAgreesAlone, NoWriter
<1> QED
  BY <1>1, HalfwayInit, HalfwayStep, PTL DEF StatusSpec
=============================================================================
