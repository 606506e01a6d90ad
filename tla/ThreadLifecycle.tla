--------------------------- MODULE ThreadLifecycle ---------------------------
(***************************************************************************)
(* The life of a Java thread and of the virtual machine: Thread.start0,    *)
(* the body of the new OS thread, its termination, Thread.join, sleep, and *)
(* bootstrap and shutdown of the Vm (runtime/vm.rs, runtime/vm/threads.rs).*)
(*                                                                         *)
(* Thread.start and Thread.join are bytecode of the JDK, synchronized on   *)
(* the Thread object; its monitor is here a lock with a wait set, as       *)
(* Monitor.tla shows it to be.                                             *)
(*                                                                         *)
(* A definition named after the one below it is that one with a fault a    *)
(* programmer could have made.                                             *)
(***************************************************************************)
EXTENDS JavaThreads

CONSTANTS
  Main,      \* the thread of the program that embeds the VM
  Sleepers   \* the threads whose code calls Thread.sleep

ASSUME ThreadAssumption ==
  /\ Main \in Threads
  /\ None \notin Threads
  /\ Sleepers \subseteq Threads

VARIABLES
  phase,         \* Vm.phase
  eetop,         \* Thread.eetop # 0: isAlive()
  threadStatus,  \* Thread.holder.threadStatus
  live,          \* ThreadManager.live
  handles,       \* ThreadManager.handles
  joining,       \* the handles shutdown() has drained and not joined yet
  lock,          \* who holds the monitor of each Thread object
  stage,         \* where each thread is
  peer           \* the thread it starts or joins

machine == <<phase, handles, joining>>
record == <<eetop, threadStatus, live>>
lifeVars == <<machine, record, lock, stage, peer>>

Starting == {"setEetop", "setStatus", "register", "spawn", "insert", "started"}
Joining == {"joinTest", "joinWait"}
Sleeping == {"sleepTest", "sleepLeft"}
Closing == {"drain", "joinAll"}
Terminating == {"termLock", "termStatus", "termEetop", "termNotify", "unregister"}
Stages == Starting \cup Joining \cup Sleeping \cup Closing \cup Terminating
          \cup {"new", "body", "bootstrap", "dispatch", "ended"}

LifeInit ==
  /\ phase = "Created"
  /\ eetop = [t \in Threads |-> FALSE]        \* even of Main: nothing sets it
  /\ threadStatus = [t \in Threads |-> "New"]
  /\ live = {}
  /\ handles = {}
  /\ joining = {}
  /\ lock = [t \in Threads |-> None]
  /\ stage = [t \in Threads |-> IF t = Main THEN "body" ELSE "new"]
  /\ peer = [t \in Threads |-> None]

LifeStep(t, from, to) == stage[t] = from /\ stage' = [stage EXCEPT ![t] = to]

Acquire(t, u) == lock[u] = None /\ lock' = [lock EXCEPT ![u] = t]
Release(t, u) == lock' = [lock EXCEPT ![u] = None]

\* The waiters in join() on the object of u, and what notifyAll does to them.
WaitersOn(u) == {t \in Threads : stage[t] = "joinWait" /\ peer[t] = u}

-----------------------------------------------------------------------------
\* Thread.start: `synchronized (this)`, then start0.  Java code does not call
\* start() on the main thread (the VM would let it: its status is NEW).
StartThread(t, u) ==
  /\ u # Main
  /\ LifeStep(t, "body", "setEetop")
  /\ Acquire(t, u)
  /\ threadStatus[u] = "New"
  /\ peer' = [peer EXCEPT ![t] = u]
  /\ UNCHANGED <<machine, record>>

\* start_thread.  The parent marks the thread alive before there is a child.
MarkAliveForgotten(t) ==
  /\ LifeStep(t, "setEetop", "setStatus")
  /\ UNCHANGED <<machine, record, lock, peer>>
MarkAlive(t) ==
  /\ LifeStep(t, "setEetop", "setStatus")
  /\ eetop' = [eetop EXCEPT ![peer[t]] = TRUE]
  /\ UNCHANGED <<machine, threadStatus, live, lock, peer>>

MarkRunnable(t) ==
  /\ LifeStep(t, "setStatus", "register")
  /\ threadStatus' = [threadStatus EXCEPT ![peer[t]] = "Runnable"]
  /\ UNCHANGED <<machine, eetop, live, lock, peer>>

RegisterAfterSpawn(t) ==
  /\ stage[t] = "register"
  /\ stage' = [stage EXCEPT ![t] = "insert", ![peer[t]] = "body"]
  /\ UNCHANGED <<machine, record, lock, peer>>
Register(t) ==
  /\ LifeStep(t, "register", "spawn")
  /\ live' = live \cup {peer[t]}
  /\ UNCHANGED <<machine, eetop, threadStatus, lock, peer>>

Spawn(t) ==
  /\ stage[t] = "spawn"
  /\ stage' = [stage EXCEPT ![t] = "insert", ![peer[t]] = "body"]
  /\ UNCHANGED <<machine, record, lock, peer>>

\* The handle goes into the table only when the child already runs.
InsertHandle(t) ==
  /\ LifeStep(t, "insert", "started")
  /\ handles' = handles \cup {peer[t]}
  /\ UNCHANGED <<phase, joining, record, lock, peer>>

StartReturns(t) ==
  /\ LifeStep(t, "started", "body")
  /\ Release(t, peer[t])
  /\ peer' = [peer EXCEPT ![t] = None]
  /\ UNCHANGED <<machine, record>>

-----------------------------------------------------------------------------
\* run_thread_body ends: run() returned, or threw and the exception goes to
\* the handler of uncaught exceptions.
RunReturns(t) ==
  /\ t # Main
  /\ LifeStep(t, "body", "termLock")
  /\ UNCHANGED <<machine, record, lock, peer>>

RunThrows(t) ==
  /\ t # Main
  /\ LifeStep(t, "body", "dispatch")
  /\ UNCHANGED <<machine, record, lock, peer>>

DispatchUncaught(t) ==
  /\ LifeStep(t, "dispatch", "termLock")
  /\ UNCHANGED <<machine, record, lock, peer>>

\* terminate_thread, under the monitor of the thread's own object.
TermWithoutLock(t) ==
  /\ LifeStep(t, "termLock", "termStatus")
  /\ UNCHANGED <<machine, record, lock, peer>>
TermLock(t) ==
  /\ LifeStep(t, "termLock", "termStatus")
  /\ Acquire(t, t)
  /\ UNCHANGED <<machine, record, peer>>

TermStatus(t) ==
  /\ LifeStep(t, "termStatus", "termEetop")
  /\ threadStatus' = [threadStatus EXCEPT ![t] = "Terminated"]
  /\ UNCHANGED <<machine, eetop, live, lock, peer>>

TermEetop(t) ==
  /\ LifeStep(t, "termEetop", "termNotify")
  /\ eetop' = [eetop EXCEPT ![t] = FALSE]
  /\ UNCHANGED <<machine, threadStatus, live, lock, peer>>

\* notifyAll and monitorexit: without the monitor the first throws
\* IllegalMonitorStateException, which is dropped, and wakes nobody.
TermNotify(t) ==
  /\ stage[t] = "termNotify"
  /\ stage' = [u \in Threads |->
              IF u = t THEN "unregister"
              ELSE IF u \in WaitersOn(t) /\ lock[t] = t THEN "joinTest"
              ELSE stage[u]]
  /\ lock' = [lock EXCEPT ![t] = IF @ = t THEN None ELSE @]
  /\ UNCHANGED <<machine, record, peer>>

UnregisterForgotten(t) ==
  /\ LifeStep(t, "unregister", "ended")
  /\ UNCHANGED <<machine, record, lock, peer>>
Unregister(t) ==
  /\ LifeStep(t, "unregister", "ended")
  /\ live' = live \ {t}
  /\ UNCHANGED <<machine, eetop, threadStatus, lock, peer>>

-----------------------------------------------------------------------------
\* Thread.sleepNanos0: slices of sleep until the clock passes `total`.
Sleep(t) ==
  /\ t \in Sleepers
  /\ LifeStep(t, "body", "sleepTest")
  /\ UNCHANGED <<machine, record, lock, peer>>

SleepTest(t) ==
  /\ LifeStep(t, "sleepTest", "body") \/ LifeStep(t, "sleepTest", "sleepLeft")
  /\ UNCHANGED <<machine, record, lock, peer>>

\* `total - start.elapsed()` reads the clock again.  When it has passed total
\* since the test, the subtraction of the durations panics, and the closure
\* of the OS thread is left without terminate_thread.
SleepLeft(t) ==
  /\ LifeStep(t, "sleepLeft", "sleepTest") \/ LifeStep(t, "sleepLeft", "ended")
  /\ UNCHANGED <<machine, record, lock, peer>>

-----------------------------------------------------------------------------
\* Thread.join: `synchronized (this) { while (isAlive()) wait(0); }`.
Join(t, u) ==
  /\ LifeStep(t, "body", "joinTest")
  /\ peer' = [peer EXCEPT ![t] = u]
  /\ UNCHANGED <<machine, record, lock>>

JoinWaits(t) ==
  /\ LifeStep(t, "joinTest", "joinWait")
  /\ lock[peer[t]] = None
  /\ eetop[peer[t]]
  /\ UNCHANGED <<machine, record, lock, peer>>

JoinReturns(t) ==
  /\ LifeStep(t, "joinTest", "body")
  /\ lock[peer[t]] = None
  /\ ~eetop[peer[t]]
  /\ peer' = [peer EXCEPT ![t] = None]
  /\ UNCHANGED <<machine, record, lock>>

-----------------------------------------------------------------------------
\* VmThread::bootstrap: once; an error leaves the machine Bootstrapping.
Bootstrap(t) ==
  /\ phase = "Created"
  /\ LifeStep(t, "body", "bootstrap")
  /\ phase' = "Bootstrapping"
  /\ UNCHANGED <<handles, joining, record, lock, peer>>

BootstrapEnds(t) ==
  /\ LifeStep(t, "bootstrap", "body")
  /\ phase' \in {"Running", "Bootstrapping"}
  /\ UNCHANGED <<handles, joining, record, lock, peer>>

\* Vm::shutdown: a second call does nothing.
Shutdown(t) ==
  /\ phase # "ShuttingDown"
  /\ LifeStep(t, "body", "drain")
  /\ phase' = "ShuttingDown"
  /\ UNCHANGED <<handles, joining, record, lock, peer>>

KeepHandles(t) ==
  /\ LifeStep(t, "drain", "joinAll")
  /\ handles' = {}
  /\ UNCHANGED <<phase, joining, record, lock, peer>>
DrainHandles(t) ==
  /\ LifeStep(t, "drain", "joinAll")
  /\ joining' = handles
  /\ handles' = {}
  /\ UNCHANGED <<phase, record, lock, peer>>

JoinHandle(t, u) ==
  /\ stage[t] = "joinAll"
  /\ u \in joining
  /\ stage[u] = "ended"
  /\ joining' = joining \ {u}
  /\ UNCHANGED <<phase, handles, record, lock, stage, peer>>

ShutdownReturns(t) ==
  /\ joining = {}
  /\ LifeStep(t, "joinAll", "body")
  /\ UNCHANGED <<machine, record, lock, peer>>

-----------------------------------------------------------------------------
\* A thread goes on with the call it is in, or with its own termination.
ContinueLife(t) ==
  \/ MarkAlive(t) \/ MarkRunnable(t) \/ Register(t) \/ Spawn(t)
  \/ InsertHandle(t) \/ StartReturns(t)
  \/ DispatchUncaught(t)
  \/ TermLock(t) \/ TermStatus(t) \/ TermEetop(t) \/ TermNotify(t)
  \/ Unregister(t)
  \/ SleepTest(t) \/ SleepLeft(t)
  \/ JoinWaits(t) \/ JoinReturns(t)
  \/ BootstrapEnds(t)
  \/ DrainHandles(t) \/ (\E u \in Threads : JoinHandle(t, u))
  \/ ShutdownReturns(t)

\* What the code of a thread does next.
Call(t) ==
  \/ \E u \in Threads : StartThread(t, u) \/ Join(t, u)
  \/ Sleep(t)
  \/ RunReturns(t) \/ RunThrows(t)
  \/ t = Main /\ (Bootstrap(t) \/ Shutdown(t))

LifeNext == \E t \in Threads : ContinueLife(t) \/ Call(t)

LifeSpec == LifeInit /\ [][LifeNext]_lifeVars

\* The operating system runs every thread.  Nothing is assumed of run(): a
\* body may go on for ever.
LifeFairSpec == LifeSpec /\ \A t \in Threads : WF_lifeVars(ContinueLife(t))

-----------------------------------------------------------------------------
\* A spawned thread in its own code, or in the handler of its exception.
InCode(t) == stage[t] \notin {"new", "ended"} \cup Terminating

\* Whoever looks at a thread that executes, itself included, finds it alive,
\* RUNNABLE and in the table of live threads: start_thread does its
\* bookkeeping before the child can run.
RunningIsKnown ==
  \A t \in Threads \ {Main} : InCode(t) =>
    eetop[t] /\ threadStatus[t] = "Runnable" /\ t \in live

\* The table of live threads holds no thread that is gone: registration by
\* the parent and removal by the child never cross, however short run() is.
\* (Threads that sleep may panic, and then nobody removes them.)
LiveThreadsExist == \A t \in live \ Sleepers : stage[t] # "ended"

\* join() returns when the body of the thread and the handler of its uncaught
\* exception are over and its state is TERMINATED, or when it never started.
\* (Not so for the main thread, which is never alive: join() on it returns.)
JoinAwaitsTermination ==
  [][\A t \in Threads : JoinReturns(t) /\ peer[t] # Main =>
       threadStatus[peer[t]] = "Terminated" \/ stage[peer[t]] = "new"]_lifeVars

\* The handle of a thread that runs is never lost: it is in the table, with a
\* shutdown that will join it, or in the hands of the thread that spawned it.
NoHandleLost ==
  \A u \in Threads \ {Main} : stage[u] \notin {"new", "ended"} =>
    \/ u \in handles \cup joining
    \/ \E t \in Threads : stage[t] = "insert" /\ peer[t] = u

JoinersOf(u) == {t \in Threads : stage[t] \in Joining /\ peer[t] = u}

\* "ensure_join: set TERMINATED, eetop = 0, notifyAll wakes those who wait in
\* join()" (threads.rs, start_thread): nobody stays in join() on a thread that
\* has ended, unless it may have panicked in its sleep.
JoinersReturnUnlessPanic ==
  \A t \in Threads, u \in Threads \ Sleepers :
    t \in JoinersOf(u) /\ stage[u] = "ended" ~> t \notin JoinersOf(u)

=============================================================================
