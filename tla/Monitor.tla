------------------------------- MODULE Monitor -------------------------------
(***************************************************************************)
(* Object monitors: monitorenter, monitorexit, Object.wait, notify,        *)
(* notifyAll and Thread.interrupt0 (runtime/vm/monitors.rs, threads.rs).   *)
(*                                                                         *)
(* A JavaMonitor is a mutex `inner` over the Java-level lock state, a      *)
(* condition variable `entry` for threads that want to own the monitor     *)
(* and a condition variable `wait_cvar` for threads in Object.wait.  A     *)
(* step of this module is what a thread does while it holds `inner`, or    *)
(* one call on a condition variable, on the interrupt flag or on the table *)
(* of wait targets: those are the points where the threads interleave.     *)
(*                                                                         *)
(* A thread blocked on a condition variable is a thread at a "blocked"     *)
(* label of its program counter.  notify_one wakes any one of them, and a  *)
(* blocked thread may also wake for no reason, as std::sync::Condvar may.  *)
(* A monitor that is absent from Vm.monitors behaves as a free one.        *)
(*                                                                         *)
(* A definition named after the one below it is that one with a fault a    *)
(* programmer could have made; nothing uses it but the runs that show that *)
(* the properties would catch the fault.                                   *)
(***************************************************************************)
EXTENDS JavaThreads, Integers, FiniteSets

CONSTANTS
  Objects,  \* heap objects used as locks
  Budget,   \* operations a thread starts plus spurious wakeups it suffers
  Calls     \* Calls[t]: the operations the Java code of t may call

CallNames == {"enter", "illegal", "wait", "timedWait", "notify", "notifyAll",
              "interrupt", "clear", "spurious"}

ASSUME MonitorAssumption ==
  /\ None \notin Threads
  /\ None \notin Objects
  /\ IsFiniteSet(Threads)
  /\ Budget \in Nat
  /\ Calls \in [Threads -> SUBSET CallNames]

VARIABLES
  owner, count, waiters, wakeSeq,  \* MonitorInner of each object
  inner,          \* who holds the mutex across several steps, or None
  waitTargets,    \* ThreadManager.wait_targets: the object a thread waits on
  interruptFlag,  \* ThreadManager.interrupt_flags
  pc,             \* where each thread is
  obj, saved, mySeq, limit, notified, target,  \* locals of the call in progress
  outcome,        \* how the thread's last call ended
  steps           \* how much of Budget the thread has used

javaLock == <<owner, count>>
waitState == <<waiters, wakeSeq, waitTargets>>
waitLocals == <<saved, mySeq, limit, notified>>
vars == <<javaLock, inner, waitState, interruptFlag, pc, obj, waitLocals,
          target, outcome, steps>>

EntryBlocked == {"enterBlocked", "reacquireBlocked"}
Entering == {"enter", "reacquire"}
Waiting == {"waitTest", "waitPark", "parked"}  \* between waiters+1 and waiters-1
Labels == EntryBlocked \cup Entering \cup Waiting
          \cup {"run", "exitSignal", "waitLock", "signalOne", "signalAll",
                "irqTarget", "irqSignal"}
Limits == {"forever", "pending", "elapsed"}    \* millis = 0, > 0, > 0 and over

Init ==
  /\ owner = [o \in Objects |-> None]
  /\ count = [o \in Objects |-> 0]
  /\ waiters = [o \in Objects |-> 0]
  /\ wakeSeq = [o \in Objects |-> 0]
  /\ inner = [o \in Objects |-> None]
  /\ waitTargets = [t \in Threads |-> None]
  /\ interruptFlag = [t \in Threads |-> FALSE]
  /\ pc = [t \in Threads |-> "run"]
  /\ obj = [t \in Threads |-> None]
  /\ saved = [t \in Threads |-> 0]
  /\ mySeq = [t \in Threads |-> 0]
  /\ limit = [t \in Threads |-> "forever"]
  /\ notified = [t \in Threads |-> FALSE]
  /\ target = [t \in Threads |-> None]
  /\ outcome = [t \in Threads |-> "ok"]
  /\ steps = [t \in Threads |-> 0]

-----------------------------------------------------------------------------
\* Helpers: the mutex, the condition variables and how calls begin and end.

Lockable(t, o) == inner[o] \in {None, t}

AnyoneHoldsLock(t, o) == TRUE
HoldsLock(t, o) == owner[o] = t /\ count[o] > 0

\* The condition of the loops that wait on `entry`.
MayOwnOnceWoken(t, o) == owner[o] \in {None, t} \/ pc[t] = "enter"
MayOwn(t, o) == owner[o] \in {None, t}

Blocked(o) == {u \in Threads : obj[u] = o /\ pc[u] \in EntryBlocked}
Parked(o) == {u \in Threads : obj[u] = o /\ pc[u] = "parked"}

\* The label at which a thread goes on when its condition variable wakes it.
WokenAt(l) == CASE l = "enterBlocked" -> "enter"
                [] l = "reacquireBlocked" -> "reacquire"
                [] l = "parked" -> "waitTest"
                [] OTHER -> l

\* t moves to label l while the threads of S are woken.
MoveAndWake(t, l, S) ==
  pc' = [u \in Threads |-> IF u = t THEN l
                           ELSE IF u \in S THEN WokenAt(pc[u]) ELSE pc[u]]

\* notify_one on a condition variable on which the threads of S are blocked.
OneOf(S) == IF S = {} THEN {{}} ELSE {{u} : u \in S}

Spend(t, call) ==
  /\ call \in Calls[t]
  /\ steps[t] < Budget
  /\ steps' = [steps EXCEPT ![t] = @ + 1]

Begin(t, call) == pc[t] = "run" /\ Spend(t, call)

Finish(t, result) ==
  /\ outcome' = [outcome EXCEPT ![t] = result]
  /\ obj' = [obj EXCEPT ![t] = None]

GoOn(t, l) == pc' = [pc EXCEPT ![t] = l]

\* A call that fails without touching a monitor.
Fail(t, result) ==
  /\ Finish(t, result)
  /\ GoOn(t, "run")
  /\ UNCHANGED <<javaLock, inner, waitState, waitLocals, target>>

\* The books of wait(), which notify and interrupt0 consult.
LeaveWaitSetUncounted(t, o) ==
  waitTargets' = [waitTargets EXCEPT ![t] = None] /\ UNCHANGED waiters
LeaveWaitSet(t, o) ==
  /\ waitTargets' = [waitTargets EXCEPT ![t] = None]
  /\ waiters' = [waiters EXCEPT ![o] = @ - 1]

KeepWakeSeq(o) == UNCHANGED wakeSeq
AdvanceWakeSeq(o) == wakeSeq' = [wakeSeq EXCEPT ![o] = @ + 1]

-----------------------------------------------------------------------------
\* monitor_enter: a first attempt, or another one after `entry` woke the thread.
EnterAttempt(t, o) ==
  /\ \/ Begin(t, "enter")
     \/ pc[t] = "enter" /\ obj[t] = o /\ UNCHANGED steps
  /\ Lockable(t, o)

AcquireOrReenter(t, o) ==
  /\ EnterAttempt(t, o)
  /\ MayOwn(t, o)
  /\ owner' = [owner EXCEPT ![o] = t]
  /\ count' = [count EXCEPT ![o] = IF owner[o] = t THEN @ + 1 ELSE 1]
  /\ Finish(t, "ok")
  /\ GoOn(t, "run")
  /\ UNCHANGED <<inner, waitState, interruptFlag, waitLocals, target>>

BlockOnEntry(t, o) ==
  /\ EnterAttempt(t, o)
  /\ ~MayOwn(t, o)
  /\ obj' = [obj EXCEPT ![t] = o]
  /\ GoOn(t, "enterBlocked")
  /\ UNCHANGED <<javaLock, inner, waitState, interruptFlag, waitLocals, target,
                 outcome>>

-----------------------------------------------------------------------------
\* monitor_exit: the holder leaves one level; at the last level it frees the
\* monitor, drops `inner` and only then wakes a thread blocked on `entry`.
MonitorExit(t, o) ==
  /\ pc[t] = "run"
  /\ Lockable(t, o)
  /\ HoldsLock(t, o)
  /\ count' = [count EXCEPT ![o] = @ - 1]
  /\ IF count[o] = 1
     THEN /\ owner' = [owner EXCEPT ![o] = None]
          /\ GoOn(t, "exitSignal")
          /\ obj' = [obj EXCEPT ![t] = o]
          /\ UNCHANGED outcome
     ELSE /\ Finish(t, "ok")
          /\ UNCHANGED <<owner, pc>>
  /\ UNCHANGED <<inner, waitState, interruptFlag, waitLocals, target, steps>>

ExitWithoutSignal(t) ==
  /\ pc[t] = "exitSignal"
  /\ GoOn(t, "run")
  /\ Finish(t, "ok")
  /\ UNCHANGED <<javaLock, inner, waitState, interruptFlag, waitLocals, target,
                 steps>>

ExitSignal(t) ==
  /\ pc[t] = "exitSignal"
  /\ \E S \in OneOf(Blocked(obj[t])) : MoveAndWake(t, "run", S)
  /\ Finish(t, "ok")
  /\ UNCHANGED <<javaLock, inner, waitState, interruptFlag, waitLocals, target,
                 steps>>

\* monitorexit, wait or notify on a monitor the thread does not hold throws
\* IllegalMonitorStateException.
IllegalMonitorState(t, o) ==
  /\ Begin(t, "illegal")
  /\ Lockable(t, o)
  /\ ~HoldsLock(t, o)
  /\ Fail(t, "IllegalMonitorState")
  /\ UNCHANGED interruptFlag

-----------------------------------------------------------------------------
\* object_wait.  The interrupt flag is looked at before anything else.
ObjectWait(t, o, l) ==
  /\ Begin(t, IF l = "forever" THEN "wait" ELSE "timedWait")
  /\ ~interruptFlag[t]
  /\ obj' = [obj EXCEPT ![t] = o]
  /\ limit' = [limit EXCEPT ![t] = l]
  /\ GoOn(t, "waitLock")
  /\ UNCHANGED <<javaLock, inner, waitState, interruptFlag, saved, mySeq,
                 notified, target, outcome>>

WaitInterruptedAtEntry(t) ==
  /\ Begin(t, "wait") \/ Begin(t, "timedWait")
  /\ interruptFlag[t]
  /\ interruptFlag' = [interruptFlag EXCEPT ![t] = FALSE]
  /\ Fail(t, "Interrupted")

WaitByOther(t) ==
  /\ pc[t] = "waitLock"
  /\ Lockable(t, obj[t])
  /\ owner[obj[t]] # t
  /\ limit' = [limit EXCEPT ![t] = "forever"]
  /\ Finish(t, "IllegalMonitorState")
  /\ GoOn(t, "run")
  /\ UNCHANGED <<javaLock, inner, waitState, interruptFlag, saved, mySeq,
                 notified, target, steps>>

\* Give the monitor up whatever its count, wake a thread blocked on `entry`
\* and register with the interrupter, all while `inner` is held.
WaitRelease(t) ==
  LET o == obj[t] IN
  /\ pc[t] = "waitLock"
  /\ Lockable(t, o)
  /\ owner[o] = t
  /\ saved' = [saved EXCEPT ![t] = count[o]]
  /\ mySeq' = [mySeq EXCEPT ![t] = wakeSeq[o]]
  /\ owner' = [owner EXCEPT ![o] = None]
  /\ count' = [count EXCEPT ![o] = 0]
  /\ waiters' = [waiters EXCEPT ![o] = @ + 1]
  /\ waitTargets' = [waitTargets EXCEPT ![t] = o]
  /\ inner' = [inner EXCEPT ![o] = t]
  /\ \E S \in OneOf(Blocked(o)) : MoveAndWake(t, "waitTest", S)
  /\ UNCHANGED <<wakeSeq, interruptFlag, obj, limit, notified, target, outcome,
                 steps>>

\* The predicate of wait_while: go on waiting?
KeepWaitingForNotify(t) == mySeq[t] = wakeSeq[obj[t]] /\ ~interruptFlag[t]
KeepWaiting(t) ==
  mySeq[t] = wakeSeq[obj[t]] /\ ~interruptFlag[t] /\ limit[t] # "elapsed"

\* The predicate was evaluated with `inner` held ...
WaitPredicateTrue(t) ==
  /\ pc[t] = "waitTest"
  /\ Lockable(t, obj[t])
  /\ KeepWaiting(t)
  /\ inner' = [inner EXCEPT ![obj[t]] = t]
  /\ GoOn(t, "waitPark")
  /\ UNCHANGED <<javaLock, waitState, interruptFlag, obj, waitLocals, target,
                 outcome, steps>>

\* ... and Condvar::wait releases `inner` and blocks in one step, but a later
\* one: a notify_all of wait_cvar in between, without `inner`, wakes nobody.
WaitPark(t) ==
  /\ pc[t] = "waitPark"
  /\ inner' = [inner EXCEPT ![obj[t]] = None]
  /\ GoOn(t, "parked")
  /\ UNCHANGED <<javaLock, waitState, interruptFlag, obj, waitLocals, target,
                 outcome, steps>>

WaitPredicateFalse(t) ==
  LET o == obj[t] IN
  /\ pc[t] = "waitTest"
  /\ Lockable(t, o)
  /\ ~KeepWaiting(t)
  /\ LeaveWaitSet(t, o)
  /\ notified' = [notified EXCEPT ![t] = mySeq[t] # wakeSeq[o]]
  /\ inner' = [inner EXCEPT ![o] = t]
  /\ GoOn(t, "reacquire")
  /\ UNCHANGED <<javaLock, wakeSeq, interruptFlag, obj, saved, mySeq, limit,
                 target, outcome, steps>>

\* The loop that takes the monitor back, on `entry` like any other thread.
BlockOnReacquire(t) ==
  LET o == obj[t] IN
  /\ pc[t] = "reacquire"
  /\ Lockable(t, o)
  /\ ~MayOwn(t, o)
  /\ inner' = [inner EXCEPT ![o] = None]
  /\ GoOn(t, "reacquireBlocked")
  /\ UNCHANGED <<javaLock, waitState, interruptFlag, obj, waitLocals, target,
                 outcome, steps>>

WaitReturn(t) ==
  LET o == obj[t]
      throws == ~notified[t] /\ interruptFlag[t]
  IN
  /\ pc[t] = "reacquire"
  /\ Lockable(t, o)
  /\ MayOwn(t, o)
  /\ owner' = [owner EXCEPT ![o] = t]
  /\ count' = [count EXCEPT ![o] = saved[t]]
  /\ inner' = [inner EXCEPT ![o] = None]
  /\ interruptFlag' = [interruptFlag EXCEPT ![t] = @ /\ ~throws]
  /\ Finish(t, IF throws THEN "Interrupted" ELSE "ok")
  /\ saved' = [saved EXCEPT ![t] = 0]
  /\ mySeq' = [mySeq EXCEPT ![t] = 0]
  /\ limit' = [limit EXCEPT ![t] = "forever"]
  /\ notified' = [notified EXCEPT ![t] = FALSE]
  /\ GoOn(t, "run")
  /\ UNCHANGED <<waitState, target, steps>>

\* The timeout of wait(millis) runs out: it ends the blocking in wait_cvar, or
\* wait_timeout_while finds it over when it looks at the clock.
Expire(t) ==
  /\ pc[t] \in {"parked", "waitTest"}
  /\ limit[t] = "pending"
  /\ limit' = [limit EXCEPT ![t] = "elapsed"]
  /\ GoOn(t, "waitTest")
  /\ UNCHANGED <<javaLock, inner, waitState, interruptFlag, obj, saved, mySeq,
                 notified, target, outcome, steps>>

-----------------------------------------------------------------------------
\* object_notify_common: with waiters, advance wake_seq, drop `inner`, then
\* signal wait_cvar.  The caller owns the monitor throughout.
Notify(t, o, all) ==
  /\ Begin(t, IF all THEN "notifyAll" ELSE "notify")
  /\ Lockable(t, o)
  /\ owner[o] = t
  /\ IF waiters[o] > 0
     THEN /\ AdvanceWakeSeq(o)
          /\ obj' = [obj EXCEPT ![t] = o]
          /\ GoOn(t, IF all THEN "signalAll" ELSE "signalOne")
          /\ UNCHANGED outcome
     ELSE /\ Finish(t, "ok")
          /\ UNCHANGED <<wakeSeq, pc>>
  /\ UNCHANGED <<javaLock, inner, waiters, waitTargets, interruptFlag,
                 waitLocals, target>>

SignalOne(t) ==
  /\ pc[t] = "signalOne"
  /\ \E S \in OneOf(Parked(obj[t])) : MoveAndWake(t, "run", S)
  /\ Finish(t, "ok")
  /\ UNCHANGED <<javaLock, inner, waitState, interruptFlag, waitLocals, target,
                 steps>>

SignalAllWakesOne(t) ==
  /\ pc[t] = "signalAll"
  /\ \E S \in OneOf(Parked(obj[t])) : MoveAndWake(t, "run", S)
  /\ Finish(t, "ok")
  /\ UNCHANGED <<javaLock, inner, waitState, interruptFlag, waitLocals, target,
                 steps>>

SignalAll(t) ==
  /\ pc[t] = "signalAll"
  /\ MoveAndWake(t, "run", Parked(obj[t]))
  /\ Finish(t, "ok")
  /\ UNCHANGED <<javaLock, inner, waitState, interruptFlag, waitLocals, target,
                 steps>>

-----------------------------------------------------------------------------
\* interrupt_thread: store the flag, look the target's object up, and if it
\* is in wait() signal that monitor's wait_cvar, never taking `inner`.
Interrupt(t, u) ==
  /\ Begin(t, "interrupt")
  /\ interruptFlag' = [interruptFlag EXCEPT ![u] = TRUE]
  /\ target' = [target EXCEPT ![t] = u]
  /\ GoOn(t, "irqTarget")
  /\ UNCHANGED <<javaLock, inner, waitState, obj, waitLocals, outcome>>

ReadWaitTarget(t) ==
  /\ pc[t] = "irqTarget"
  /\ target' = [target EXCEPT ![t] = None]
  /\ IF waitTargets[target[t]] = None
     THEN Finish(t, "ok") /\ GoOn(t, "run")
     ELSE /\ obj' = [obj EXCEPT ![t] = waitTargets[target[t]]]
          /\ GoOn(t, "irqSignal")
          /\ UNCHANGED outcome
  /\ UNCHANGED <<javaLock, inner, waitState, interruptFlag, waitLocals, steps>>

InterruptSignal(t) ==
  /\ pc[t] = "irqSignal"
  /\ MoveAndWake(t, "run", Parked(obj[t]))
  /\ Finish(t, "ok")
  /\ UNCHANGED <<javaLock, inner, waitState, interruptFlag, waitLocals, target,
                 steps>>

\* clear_interrupt_event, called by Thread.interrupted().
ClearInterruptEvent(t) ==
  /\ Begin(t, "clear")
  /\ interruptFlag' = [interruptFlag EXCEPT ![t] = FALSE]
  /\ Fail(t, "ok")

\* A condition variable may wake a thread although nobody signalled it.
SpuriousWakeup(t) ==
  /\ pc[t] \in EntryBlocked \cup {"parked"}
  /\ Spend(t, "spurious")
  /\ GoOn(t, WokenAt(pc[t]))
  /\ UNCHANGED <<javaLock, inner, waitState, interruptFlag, obj, waitLocals,
                 target, outcome>>

-----------------------------------------------------------------------------
\* A thread goes on with the call it is in.
Continue(t) ==
  \/ \E o \in Objects :
       pc[t] # "run" /\ (AcquireOrReenter(t, o) \/ BlockOnEntry(t, o))
  \/ ExitSignal(t)
  \/ WaitByOther(t) \/ WaitRelease(t)
  \/ WaitPredicateTrue(t) \/ WaitPark(t) \/ WaitPredicateFalse(t)
  \/ BlockOnReacquire(t) \/ WaitReturn(t) \/ Expire(t)
  \/ SignalOne(t) \/ SignalAll(t)
  \/ ReadWaitTarget(t) \/ InterruptSignal(t)

\* Java code starts a call, or a condition variable wakes up spuriously.
Start(t) ==
  \/ \E o \in Objects :
       \/ pc[t] = "run" /\ (AcquireOrReenter(t, o) \/ BlockOnEntry(t, o))
       \/ MonitorExit(t, o)
       \/ IllegalMonitorState(t, o)
       \/ \E l \in {"forever", "pending"} : ObjectWait(t, o, l)
       \/ \E all \in BOOLEAN : Notify(t, o, all)
  \/ WaitInterruptedAtEntry(t)
  \/ \E u \in Threads : Interrupt(t, u)
  \/ ClearInterruptEvent(t)
  \/ SpuriousWakeup(t)

Next == \E t \in Threads : Continue(t) \/ Start(t)

Spec == Init /\ [][Next]_vars

\* The operating system runs every thread, and Java code that holds a monitor
\* leaves it (javac emits a monitorexit on every path out of a block).
Fairness ==
  \A t \in Threads :
    /\ WF_vars(Continue(t))
    /\ \A o \in Objects : WF_vars(MonitorExit(t, o))

FairSpec == Spec /\ Fairness

-----------------------------------------------------------------------------
\* Every variable has its type.
TypeOK ==
  /\ owner \in [Objects -> Threads \cup {None}]
  /\ count \in [Objects -> Nat]
  /\ waiters \in [Objects -> Int]
  /\ wakeSeq \in [Objects -> Nat]
  /\ inner \in [Objects -> Threads \cup {None}]
  /\ waitTargets \in [Threads -> Objects \cup {None}]
  /\ interruptFlag \in [Threads -> BOOLEAN]
  /\ pc \in [Threads -> Labels]
  /\ obj \in [Threads -> Objects \cup {None}]
  /\ saved \in [Threads -> Nat]
  /\ mySeq \in [Threads -> Nat]
  /\ limit \in [Threads -> Limits]
  /\ notified \in [Threads -> BOOLEAN]
  /\ target \in [Threads -> Threads \cup {None}]
  /\ outcome \in [Threads -> {"ok", "IllegalMonitorState", "Interrupted"}]
  /\ steps \in [Threads -> 0..Budget]

\* A free monitor with threads blocked on its entry condition variable has a
\* thread on its way that will take it or signal it: monitor_exit and
\* object_wait never free a monitor and leave everybody asleep.
NoLostEntryWakeup ==
  \A o \in Objects :
    owner[o] = None /\ Blocked(o) # {} =>
      \E t \in Threads : obj[t] = o /\ pc[t] \in Entering \cup {"exitSignal"}

\* The field `waiters`, on which notify decides that there is nobody to wake,
\* is the number of threads between the release and the return of wait().
WaitersCounted ==
  \A o \in Objects :
    waiters[o] = Cardinality({t \in Threads : obj[t] = o /\ pc[t] \in Waiting})

\* A signal is not wasted: whoever notify or notifyAll finds blocked on
\* wait_cvar has seen an older wake_seq, so the one it wakes does leave wait().
\* (The signal comes after `inner` was dropped; nobody can begin to wait in
\* between, because the notifier still owns the monitor.)
SignalReachesAWaiter ==
  \A t \in Threads : pc[t] \in {"signalOne", "signalAll"} =>
    \A u \in Parked(obj[t]) : mySeq[u] # wakeSeq[obj[t]]

\* Threads hold monitors, wait and resume as Java promises (JavaMonitorSpec):
\* mutual exclusion, and wait() restores the count it gave up.
JavaHeld ==
  [t \in Threads |-> [o \in Objects |-> IF owner[o] = t THEN count[o] ELSE 0]]
JavaResting ==
  [t \in Threads |-> [o \in Objects |->
     IF obj[t] = o /\ pc[t] \in Waiting \cup {"reacquire", "reacquireBlocked"}
     THEN saved[t] ELSE 0]]

Java == INSTANCE JavaMonitorSpec WITH held <- JavaHeld, resting <- JavaResting

ImplementsJavaMonitor == Java!Spec

-----------------------------------------------------------------------------
\* Liveness, under Fairness.

\* A thread blocked on the entry of a monitor, in monitorenter or on its way
\* out of wait(), gets out.
EntrantsGetIn ==
  \A t \in Threads : pc[t] \in EntryBlocked ~> pc[t] = "run"

\* The threads that are in wait() when t is about to signal.
WaitSet(t) == {u \in Threads : obj[u] = obj[t] /\ pc[u] \in Waiting}
Waiters == {u \in Threads : Calls[u] \cap {"wait", "timedWait"} # {}}

\* notifyAll releases every thread that was waiting when it was called.
NotifyAllReleasesAll ==
  \A u \in Threads :
    (\E t \in Threads : pc[t] = "signalAll" /\ u \in WaitSet(t)) ~> pc[u] = "run"

\* notify releases at least one of the threads that were waiting.
NotifyReleasesOne ==
  \A W \in SUBSET Waiters \ {{}} :
    (\E t \in Threads : pc[t] = "signalOne" /\ W = WaitSet(t))
      ~> \E u \in W : pc[u] = "run"

\* wait(millis) returns although nobody notifies.
TimedWaitReturns ==
  \A t \in Threads :
    pc[t] \in Waiting /\ limit[t] # "forever" ~> pc[t] = "run"

\* "wait_targets: interrupt0 finds the monitor the target blocks on and wakes
\* it through wait_cvar.notify_all" (threads.rs): an interrupted thread does
\* not stay in wait().
InterruptWakesWaiter ==
  \A t \in Threads :
    pc[t] \in Waiting /\ interruptFlag[t] ~> pc[t] \notin Waiting
=============================================================================
