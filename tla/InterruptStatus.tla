--------------------------- MODULE InterruptStatus ---------------------------
(***************************************************************************)
(* The interrupt status of a thread is kept twice: in the Java field       *)
(* Thread.interrupted, written by bytecode of the JDK and by the VM, and   *)
(* in a mirror the VM can poll (ThreadManager.interrupt_flags).  Every     *)
(* writer writes one, then the other, with no lock around the two.         *)
(* Sleeping threads poll the mirror.                                       *)
(*                                                                         *)
(* A definition named after the one below it is that one with a fault a    *)
(* programmer could have made.                                             *)
(***************************************************************************)
EXTENDS JavaThreads

CONSTANT
  Alone   \* the threads that nobody but themselves interrupts

ASSUME InterruptAssumption ==
  /\ Alone \subseteq Threads
  /\ None \notin Threads

VARIABLES
  field,   \* Thread.interrupted
  flag,    \* ThreadManager.interrupt_flags
  at,      \* where each thread is
  whom     \* the thread it is interrupting

statusVars == <<field, flag, at, whom>>

StatusInit ==
  /\ field = [t \in Threads |-> FALSE]
  /\ flag = [t \in Threads |-> FALSE]
  /\ at = [t \in Threads |-> "run"]
  /\ whom = [t \in Threads |-> None]

StatusStep(t, from, to) == at[t] = from /\ at' = [at EXCEPT ![t] = to]
Set(status, t, value) == [status EXCEPT ![t] = value]

-----------------------------------------------------------------------------
\* Thread.interrupt: the field, then interrupt0, which stores the mirror.
InterruptThread(t, u) ==
  /\ StatusStep(t, "run", "interrupt0")
  /\ u \in Alone => u = t
  /\ whom' = [whom EXCEPT ![t] = u]
  /\ field' = Set(field, u, TRUE)
  /\ UNCHANGED flag

Interrupt0(t) ==
  /\ StatusStep(t, "interrupt0", "run")
  /\ flag' = Set(flag, whom[t], TRUE)
  /\ whom' = [whom EXCEPT ![t] = None]
  /\ UNCHANGED field

\* Thread.interrupted: when the field is set, clear it and the mirror.
Interrupted(t) ==
  /\ field[t]
  /\ StatusStep(t, "run", "clearEvent")
  /\ field' = Set(field, t, FALSE)
  /\ UNCHANGED <<flag, whom>>

ClearEventForgotten(t) ==
  /\ StatusStep(t, "clearEvent", "run")
  /\ UNCHANGED <<field, flag, whom>>
ClearEvent(t) ==
  /\ StatusStep(t, "clearEvent", "run")
  /\ flag' = Set(flag, t, FALSE)
  /\ UNCHANGED <<field, whom>>

-----------------------------------------------------------------------------
\* sleepNanos0: throw at once when interrupted, else sleep slice by slice and
\* look at the clock and at the mirror before each.
SleepOrThrow(t) ==
  /\ StatusStep(t, "run", IF flag[t] THEN "clearField" ELSE "sleeping")
  /\ UNCHANGED <<field, flag, whom>>

SleepEnds(t) ==
  /\ StatusStep(t, "sleeping", "run")
  /\ UNCHANGED <<field, flag, whom>>

NeverPolled(t) ==
  /\ FALSE
  /\ UNCHANGED statusVars
SleepInterrupted(t) ==
  /\ flag[t]
  /\ StatusStep(t, "sleeping", "clearField")
  /\ UNCHANGED <<field, flag, whom>>

\* clear_interrupt_status, before sleep and wait throw InterruptedException.
ClearField(t) ==
  /\ StatusStep(t, "clearField", "clearFlag")
  /\ field' = Set(field, t, FALSE)
  /\ UNCHANGED <<flag, whom>>

ClearFlag(t) ==
  /\ StatusStep(t, "clearFlag", "run")
  /\ flag' = Set(flag, t, FALSE)
  /\ UNCHANGED <<field, whom>>

-----------------------------------------------------------------------------
ContinueStatus(t) ==
  \/ Interrupt0(t) \/ ClearEvent(t)
  \/ SleepInterrupted(t) \/ ClearField(t) \/ ClearFlag(t)

StatusNext == \E t \in Threads :
  \/ ContinueStatus(t)
  \/ Interrupted(t) \/ SleepOrThrow(t) \/ SleepEnds(t)
  \/ \E u \in Threads : InterruptThread(t, u)

StatusSpec == StatusInit /\ [][StatusNext]_statusVars

\* The operating system runs every thread; a sleeper wakes after each slice.
StatusFairSpec == StatusSpec /\ \A t \in Threads : WF_statusVars(ContinueStatus(t))

-----------------------------------------------------------------------------
\* No call that writes the status of t is in progress.
NoWriter(t) == at[t] \in {"run", "sleeping"} /\ \A u \in Threads : whom[u] # t

\* Between the calls that write it, the mirror of a thread that nobody else
\* interrupts says what Thread.isInterrupted() says, whatever the others do.
\* For the others it need not: field and mirror are written one after the
\* other, and an interrupt between the two writes of a clearing parts them.
MirrorAgreesAlone ==
  \A t \in Alone : NoWriter(t) => flag[t] = field[t]

\* An interrupted thread does not sleep on: sleepNanos0 sees the mirror.
SleeperWakes ==
  \A t \in Threads : at[t] = "sleeping" /\ flag[t] ~> at[t] # "sleeping"

=============================================================================
