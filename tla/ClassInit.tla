------------------------------ MODULE ClassInit ------------------------------
(***************************************************************************)
(* Class initialization by several threads: ensure_class_initialized and   *)
(* the body it runs (runtime/interpreter/clinit.rs).                       *)
(*                                                                         *)
(* A thread that wins a class marks it InProgress, releases the class's    *)
(* init lock, initializes the superclass, applies ConstantValue attributes *)
(* and runs <clinit>, whose code uses further classes and so calls         *)
(* ensure_class_initialized again; then it publishes Done or Failed and    *)
(* wakes the threads that wait for the class.  Each thread has a stack of  *)
(* such activations, the innermost first.                                  *)
(*                                                                         *)
(* A definition named after the one below it is that one with a fault a    *)
(* programmer could have made; nothing uses it but the runs that show that *)
(* the properties would catch the fault.                                   *)
(***************************************************************************)
EXTENDS Naturals, Sequences, FiniteSets

CONSTANTS
  Threads,
  Classes,
  None,
  Super,      \* Super[c]: the superclass of c, or None
  Uses,       \* Uses[c]: the classes that <clinit> of c uses, in order
  Throwing,   \* classes whose <clinit> may throw an exception of its own
  Panicking,  \* classes whose <clinit> may hit a panic of the interpreter
  MaxCalls    \* active uses each thread starts from outside any <clinit>

ASSUME ClassInitAssumption ==
  /\ None \notin Threads /\ None \notin Classes
  /\ Super \in [Classes -> Classes \cup {None}]
  /\ Uses \in [Classes -> Seq(Classes)]
  /\ Throwing \subseteq Classes /\ Panicking \subseteq Classes
  /\ MaxCalls \in Nat

VARIABLES
  state,      \* InitSlot.state
  initOwner,  \* InitSlot.owner
  statics,    \* what static_storage of a class holds
  stack,      \* stack[t]: activations of ensure_class_initialized
  ret,        \* ret[t]: what the last activation to return returned
  calls       \* calls[t]: calls started from an empty stack

vars == <<state, initOwner, statics, stack, ret, calls>>

\* Where an activation is while it runs the initialization; else it is at
\* "check", "blocked" or "notify".
Winning == {"super", "superReturns", "constants", "clinit", "useReturns", "publish"}

Init ==
  /\ state = [c \in Classes |-> "NotStarted"]
  /\ initOwner = [c \in Classes |-> None]
  /\ statics = [c \in Classes |-> "default"]
  /\ stack = [t \in Threads |-> <<>>]
  /\ ret = [t \in Threads |-> "ok"]
  /\ calls = [t \in Threads |-> 0]

-----------------------------------------------------------------------------
\* The innermost activation of t is at label l.
At(t, l) == stack[t] # <<>> /\ Head(stack[t]).at = l
Cls(t) == Head(stack[t]).cls

NewActivation(c) == [cls |-> c, at |-> "check", todo |-> <<>>, res |-> "ok"]

\* Replace the innermost activation, or call from it, or return from it.
Become(t, a) == stack' = [stack EXCEPT ![t] = <<a>> \o Tail(@)]
GoTo(t, l) == Become(t, [Head(stack[t]) EXCEPT !.at = l])
CallFrom(t, a, c) == stack' = [stack EXCEPT ![t] = <<NewActivation(c), a>> \o Tail(@)]
Fail(t, r) == Become(t, [Head(stack[t]) EXCEPT !.at = "publish", !.res = r])

Return(t, r) ==
  /\ stack' = [stack EXCEPT ![t] = Tail(@)]
  /\ ret' = [ret EXCEPT ![t] = r]
  /\ UNCHANGED <<state, initOwner, statics, calls>>

InternalStep == UNCHANGED <<state, initOwner, statics, ret, calls>>

\* Java code outside any <clinit> uses class c.
Call(t, c) ==
  /\ stack[t] = <<>>
  /\ ret[t] # "panic"
  /\ calls[t] < MaxCalls
  /\ calls' = [calls EXCEPT ![t] = @ + 1]
  /\ stack' = [stack EXCEPT ![t] = <<NewActivation(c)>>]
  /\ UNCHANGED <<state, initOwner, statics, ret>>

-----------------------------------------------------------------------------
\* Phase A, under the init lock.
FindDone(t) ==
  At(t, "check") /\ state[Cls(t)] = "Done" /\ Return(t, "ok")

FindFailed(t) ==
  At(t, "check") /\ state[Cls(t)] = "Failed" /\ Return(t, "NCDFE")

ReenterAnyClass(t) ==
  At(t, "check") /\ state[Cls(t)] = "InProgress" /\ Return(t, "ok")

Reenter(t) ==
  /\ At(t, "check")
  /\ state[Cls(t)] = "InProgress"
  /\ initOwner[Cls(t)] = t
  /\ Return(t, "ok")

WaitForOther(t) ==
  /\ At(t, "check")
  /\ state[Cls(t)] = "InProgress"
  /\ initOwner[Cls(t)] # t
  /\ GoTo(t, "blocked")
  /\ InternalStep

WinnableByAll(c) == state[c] \in {"NotStarted", "InProgress"}
WinnableAfterFailure(c) == state[c] \in {"NotStarted", "Failed"}
Winnable(c) == state[c] = "NotStarted"

Win(t) ==
  /\ At(t, "check")
  /\ Winnable(Cls(t))
  /\ state' = [state EXCEPT ![Cls(t)] = "InProgress"]
  /\ initOwner' = [initOwner EXCEPT ![Cls(t)] = t]
  /\ GoTo(t, "super")
  /\ UNCHANGED <<statics, ret, calls>>

\* init_cvar may wake a thread although nobody notified it.
SpuriousWakeup(t) ==
  At(t, "blocked") /\ GoTo(t, "check") /\ InternalStep

-----------------------------------------------------------------------------
\* Phase B, without the lock: run_initialization_body.
SkipSuper(t) == At(t, "super") /\ GoTo(t, "constants") /\ InternalStep

InitSuper(t) ==
  /\ At(t, "super")
  /\ IF Super[Cls(t)] = None
     THEN GoTo(t, "constants")
     ELSE CallFrom(t, [Head(stack[t]) EXCEPT !.at = "superReturns"], Super[Cls(t)])
  /\ InternalStep

SuperReturnsUnchecked(t) ==
  At(t, "superReturns") /\ GoTo(t, "constants") /\ InternalStep

SuperReturns(t) ==
  /\ At(t, "superReturns")
  /\ IF ret[t] = "ok" THEN GoTo(t, "constants") ELSE Fail(t, ret[t])
  /\ InternalStep

ApplyConstantValues(t) ==
  /\ At(t, "constants")
  /\ statics' = [statics EXCEPT ![Cls(t)] = "constants"]
  /\ Become(t, [Head(stack[t]) EXCEPT !.at = "clinit", !.todo = Uses[Cls(t)]])
  /\ UNCHANGED <<state, initOwner, ret, calls>>

ClinitUses(t) ==
  /\ At(t, "clinit")
  /\ Head(stack[t]).todo # <<>>
  /\ CallFrom(t, [Head(stack[t]) EXCEPT !.at = "useReturns", !.todo = Tail(@)],
              Head(Head(stack[t]).todo))
  /\ InternalStep

\* <clinit> goes on after a use; an exception of the use is caught or not.
UseReturns(t) ==
  /\ At(t, "useReturns")
  /\ \/ GoTo(t, "clinit")
     \/ ret[t] # "ok" /\ Fail(t, ret[t])
  /\ InternalStep

ClinitThrows(t) ==
  /\ At(t, "clinit")
  /\ Cls(t) \in Throwing
  /\ Fail(t, "thrown")
  /\ InternalStep

ClinitCompletes(t) ==
  /\ At(t, "clinit")
  /\ Head(stack[t]).todo = <<>>
  /\ statics' = [statics EXCEPT ![Cls(t)] = "initialized"]
  /\ GoTo(t, "publish")
  /\ UNCHANGED <<state, initOwner, ret, calls>>

\* A panic unwinds every activation of the thread; InitPanicGuard::drop of
\* each of them does what Publish and NotifyWaiters do.
ClinitPanics(t) ==
  /\ At(t, "clinit")
  /\ Cls(t) \in Panicking
  /\ Fail(t, "panic")
  /\ InternalStep

-----------------------------------------------------------------------------
\* Phase C: the final state under the lock, then notify_all; phase D: an
\* exception of this <clinit> itself is wrapped, once.
Publish(t) ==
  /\ At(t, "publish")
  /\ state' = [state EXCEPT ![Cls(t)] =
                 IF Head(stack[t]).res = "ok" THEN "Done" ELSE "Failed"]
  /\ initOwner' = [initOwner EXCEPT ![Cls(t)] = None]
  /\ GoTo(t, "notify")
  /\ UNCHANGED <<statics, ret, calls>>

Wrapped(r) == IF r = "thrown" THEN "EIIE" ELSE r

\* What is left of t's stack when its innermost activation ends with r.
UnwoundWithoutGuard(t, r) == IF r = "panic" THEN <<>> ELSE Tail(stack[t])
Unwound(t, r) ==
  IF r = "panic" /\ Len(stack[t]) > 1
  THEN <<[stack[t][2] EXCEPT !.at = "publish", !.res = "panic"]>>
       \o SubSeq(stack[t], 3, Len(stack[t]))
  ELSE Tail(stack[t])

Awake(u, c) ==
  IF At(u, "blocked") /\ Cls(u) = c
  THEN <<[Head(stack[u]) EXCEPT !.at = "check"]>> \o Tail(stack[u])
  ELSE stack[u]

NotifyWaiters(t) ==
  LET r == Wrapped(Head(stack[t]).res) IN
  /\ At(t, "notify")
  /\ stack' = [u \in Threads |-> IF u = t THEN Unwound(t, r) ELSE Awake(u, Cls(t))]
  /\ ret' = [ret EXCEPT ![t] = r]
  /\ UNCHANGED <<state, initOwner, statics, calls>>

-----------------------------------------------------------------------------
Continue(t) ==
  \/ FindDone(t) \/ FindFailed(t) \/ Reenter(t) \/ WaitForOther(t) \/ Win(t)
  \/ InitSuper(t) \/ SuperReturns(t) \/ ApplyConstantValues(t)
  \/ ClinitUses(t) \/ UseReturns(t) \/ ClinitThrows(t) \/ ClinitCompletes(t)
  \/ ClinitPanics(t) \/ Publish(t) \/ NotifyWaiters(t)

Next ==
  \E t \in Threads :
    (\E c \in Classes : Call(t, c)) \/ Continue(t) \/ SpuriousWakeup(t)

Spec == Init /\ [][Next]_vars

\* The operating system runs every thread that is not blocked.
FairSpec == Spec /\ \A t \in Threads : WF_vars(Continue(t))

-----------------------------------------------------------------------------
\* The activations that have won class c and not yet published its state.
Winners(c) ==
  {p \in UNION {{t} \X DOMAIN stack[t] : t \in Threads} :
     stack[p[1]][p[2]].cls = c /\ stack[p[1]][p[2]].at \in Winning}

Initializing(t, c) ==
  \E i \in DOMAIN stack[t] : stack[t][i].cls = c /\ stack[t][i].at \in Winning

\* "Only one thread runs <clinit>": a class is InProgress exactly while one
\* activation, of the thread recorded as its owner, initializes it.
OneInitializer ==
  \A c \in Classes :
    /\ state[c] = "InProgress" <=> \E t \in Threads : Initializing(t, c)
    /\ Cardinality(Winners(c)) <= 1
    /\ \A t \in Threads : Initializing(t, c) => initOwner[c] = t

\* The superclasses of c: what every set has that has its superclass and those of its own.
Supers(c) ==
  {d \in Classes : \A Z \in SUBSET Classes :
     Super[c] \in Z \cup {None} /\ (\A e \in Z : Super[e] \in Z \cup {None}) => d \in Z}

\* The classes of Z lead to no class outside of Z, neither up nor by the uses of a <clinit>.
ClosedUnderUse(Z) ==
  \A c \in Z : Super[c] \in Z \cup {None} /\ \A k \in DOMAIN Uses[c] : Uses[c][k] \in Z

\* Initializing a superclass never leads to the class itself.
SupersFirst ==
  \A c \in Classes : Super[c] # None =>
    \E Z \in SUBSET Classes : Super[c] \in Z /\ c \notin Z /\ ClosedUnderUse(Z)

\* t is done with a use of a class, and the use returned normally.
UseSucceeds(t) ==
  stack[t] # <<>> /\ stack'[t] = Tail(stack[t]) /\ ret'[t] = "ok"

\* Class c is initialized, or t itself is in the middle of doing that.
InitializedFor(t, c) ==
  \/ state[c] = "Done" /\ statics[c] = "initialized"
  \/ \E i \in DOMAIN stack[t] :
       i > 1 /\ stack[t][i].cls = c /\ stack[t][i].at \in Winning

\* "Read fully initialized static fields, never half-initialized ones": when a
\* use of a class has returned normally, the class is initialized.
UsersSeeInitializedClass ==
  [][\A t \in Threads : UseSucceeds(t) => InitializedFor(t, Cls(t))]_vars

\* Then its superclasses are initialized too, when no <clinit> uses a subclass
\* of its own class (otherwise a subclass may well be Done before its super).
UsersSeeInitializedSupers ==
  [][\A t \in Threads : UseSucceeds(t) =>
       \A c \in Supers(Cls(t)) : InitializedFor(t, c)]_vars

\* <clinit> of a class never runs over static fields it has already set, and
\* never runs before the superclass's has, unless it is nested in that one.
SuperBeforeSub ==
  [][\A c \in Classes :
       /\ statics[c] = "initialized" => statics'[c] = "initialized"
       /\ statics[c] # statics'[c] /\ Super[c] # None =>
            \/ state[Super[c]] = "Done"
            \/ \E t \in Threads : Initializing(t, c) /\ Initializing(t, Super[c])
    ]_vars

\* A class that is Done or Failed stays so: nobody initializes it again.
OutcomeIsFinal ==
  [][\A c \in Classes : state[c] \in {"Done", "Failed"} => state'[c] = state[c]]_vars

\* "So that other threads do not hang forever": every use of a class returns,
\* or the thread dies of a panic, when the uses of classes form no cycle.
EveryUseReturns == \A t \in Threads : stack[t] # <<>> ~> stack[t] = <<>>
=============================================================================
