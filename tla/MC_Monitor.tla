------------------------------ MODULE MC_Monitor ------------------------------
(***************************************************************************)
(* Instances of Monitor for TLC.  Where every thread may make every call,  *)
(* threads and objects are interchangeable in every safety property, so    *)
(* their permutations are a sound symmetry.                                *)
(***************************************************************************)
EXTENDS Monitor, TLC

CONSTANTS Notifier, TimedWaiter  \* threads with a part of their own

AnyCall == [t \in Threads |-> CallNames]

\* A timed wait whose time never runs out is an untimed one.
LegalCall ==
  [t \in Threads |-> {"enter", "timedWait", "notify", "notifyAll", "interrupt", "spurious"}]

\* One thread waits, one waits with a timeout, one notifies; no interrupts.
WaitersAndNotifier ==
  [t \in Threads |->
     CASE t = Notifier -> {"enter", "illegal", "notify", "notifyAll"}
       [] t = TimedWaiter -> {"enter", "timedWait", "clear"}
       [] OTHER -> {"enter", "wait"}]

Symmetry == Permutations(Threads)
=============================================================================
