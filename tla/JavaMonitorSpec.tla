--------------------------- MODULE JavaMonitorSpec ---------------------------
(***************************************************************************)
(* What an object monitor promises to Java code (JLS 17.1 and 17.2.1): a   *)
(* thread holds a monitor some number of times, nobody enters a monitor    *)
(* another thread holds, Object.wait gives the monitor up completely and   *)
(* gives it back at the depth it was given up.  How threads are blocked    *)
(* and woken is not visible here; Monitor.tla implements this module.      *)
(***************************************************************************)
EXTENDS Naturals

CONSTANTS Threads, Objects

VARIABLES
  held,     \* held[t][o]: how many times thread t holds the monitor of o
  resting   \* resting[t][o]: the depth t gave up when it called o.wait()

vars == <<held, resting>>

Init ==
  /\ held = [t \in Threads |-> [o \in Objects |-> 0]]
  /\ resting = [t \in Threads |-> [o \in Objects |-> 0]]

Excluded(t, o) == \E u \in Threads \ {t} : held[u][o] > 0

Enter(t, o) ==
  /\ ~Excluded(t, o)
  /\ resting[t][o] = 0
  /\ held' = [held EXCEPT ![t][o] = @ + 1]
  /\ UNCHANGED resting

Exit(t, o) ==
  /\ held[t][o] > 0
  /\ held' = [held EXCEPT ![t][o] = @ - 1]
  /\ UNCHANGED resting

\* o.wait() releases the monitor whatever its depth ...
Rest(t, o) ==
  /\ held[t][o] > 0
  /\ resting' = [resting EXCEPT ![t][o] = held[t][o]]
  /\ held' = [held EXCEPT ![t][o] = 0]

\* ... and returns only when the thread holds it again at that depth.
Resume(t, o) ==
  /\ resting[t][o] > 0
  /\ ~Excluded(t, o)
  /\ held' = [held EXCEPT ![t][o] = resting[t][o]]
  /\ resting' = [resting EXCEPT ![t][o] = 0]

Next ==
  \E t \in Threads, o \in Objects :
    Enter(t, o) \/ Exit(t, o) \/ Rest(t, o) \/ Resume(t, o)

Spec == Init /\ [][Next]_vars
=============================================================================
