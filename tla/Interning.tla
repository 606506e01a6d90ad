------------------------------ MODULE Interning ------------------------------
(***************************************************************************)
(* The tables that give a name one object: interned strings, Class and     *)
(* Module mirrors, the unnamed module, the system ThreadGroup and classes  *)
(* defined at run time (string.rs, string_pool.rs, mirrors.rs, threads.rs, *)
(* klass.rs).  All are used alike: look the key up under the lock of the   *)
(* table, let go of the lock, build an object when there was none, and     *)
(* insert it under the lock, replacing whatever is there by then.          *)
(*                                                                         *)
(* Class and Module mirrors are inserted first and filled afterwards, with *)
(* further calls to the same functions: an array class asks for the mirror *)
(* of its component, every class for its Module, a Module for its name.    *)
(* Everything else is complete when it is inserted, so has no Parts.       *)
(*                                                                         *)
(* A definition named after the one below it is that one with a fault a    *)
(* programmer could have made.                                             *)
(***************************************************************************)
EXTENDS Naturals, Sequences, FiniteSets

CONSTANTS
  Threads,
  Keys,      \* names, each of one table
  Parts,     \* Parts[k]: the keys interned to fill the object of k, in order
  None,      \* no object
  MaxCalls   \* bound: how often the program calls intern

ASSUME InterningAssumption ==
  /\ Parts \in [Keys -> Seq(Keys)]
  /\ MaxCalls \in Nat
  /\ None \notin Nat

VARIABLES
  table,   \* the object of each key, or None
  heap,    \* Heap.objects: the key each object was built for
  filled,  \* how many of its parts each object has
  stack,   \* the nested calls of intern each thread is in, innermost first
  given,   \* the objects that calls for each key have returned
  raced,   \* history: the keys two threads were interning at the same time
  calls    \* how much of MaxCalls is used

vars == <<table, heap, filled, stack, given, raced, calls>>

Init ==
  /\ table = [k \in Keys |-> None]
  /\ heap = <<>>
  /\ filled = <<>>
  /\ stack = [t \in Threads |-> <<>>]
  /\ given = [k \in Keys |-> {}]
  /\ raced = {}
  /\ calls = 0

-----------------------------------------------------------------------------
MissAlways(k) == TRUE
Miss(k) == table[k] = None

Give(k, r) == given' = [given EXCEPT ![k] = @ \cup {r}]

\* t looks k up: does that overlap the call of another thread?
LookUp(t, k) ==
  raced' = IF \E u \in Threads \ {t} : \E i \in 1..Len(stack[u]) : stack[u][i].key = k
           THEN raced \cup {k} ELSE raced

\* A call that missed: no object yet, no part filled.
Frame(k) == [key |-> k, ref |-> None, next |-> 0]

InCall(t) == stack[t] # <<>>
Top(t) == Head(stack[t])
SetTop(t, frame) == stack' = [stack EXCEPT ![t] = <<frame>> \o Tail(@)]

\* The innermost call returns; its caller has one more part.
PopAndFill(t) ==
  LET callers == Tail(stack[t]) IN
  IF callers = <<>>
  THEN stack' = [stack EXCEPT ![t] = <<>>] /\ UNCHANGED filled
  ELSE /\ stack' = [stack EXCEPT ![t] =
                      <<[Head(callers) EXCEPT !.next = @ + 1]>> \o Tail(callers)]
       /\ filled' = [filled EXCEPT ![Head(callers).ref] = @ + 1]

-----------------------------------------------------------------------------
\* The program asks for the object of a key.
InternHit(t, k) ==
  /\ ~InCall(t)
  /\ calls < MaxCalls
  /\ calls' = calls + 1
  /\ LookUp(t, k)
  /\ ~Miss(k)
  /\ Give(k, table[k])
  /\ UNCHANGED <<table, heap, filled, stack>>

InternMiss(t, k) ==
  /\ ~InCall(t)
  /\ calls < MaxCalls
  /\ calls' = calls + 1
  /\ LookUp(t, k)
  /\ Miss(k)
  /\ stack' = [stack EXCEPT ![t] = <<Frame(k)>>]
  /\ UNCHANGED <<table, heap, filled, given>>

Build(t) ==
  /\ InCall(t)
  /\ Top(t).ref = None
  /\ heap' = Append(heap, Top(t).key)
  /\ filled' = Append(filled, 0)
  /\ SetTop(t, [Top(t) EXCEPT !.ref = Len(heap) + 1])
  /\ UNCHANGED <<table, given, raced, calls>>

\* HashMap::insert and BiMap::insert replace an entry that came in between.
InsertNothing(t) ==
  /\ InCall(t)
  /\ Top(t).ref # None
  /\ Top(t).next = 0
  /\ SetTop(t, [Top(t) EXCEPT !.next = 1])
  /\ UNCHANGED <<table, heap, filled, given, raced, calls>>
InsertForCaller(t) ==
  /\ InCall(t)
  /\ Top(t).ref # None
  /\ Top(t).next = 0
  /\ table' = [table EXCEPT ![stack[t][Len(stack[t])].key] = Top(t).ref]
  /\ SetTop(t, [Top(t) EXCEPT !.next = 1])
  /\ UNCHANGED <<heap, filled, given, raced, calls>>
Insert(t) ==
  /\ InCall(t)
  /\ Top(t).ref # None
  /\ Top(t).next = 0
  /\ table' = [table EXCEPT ![Top(t).key] = Top(t).ref]
  /\ SetTop(t, [Top(t) EXCEPT !.next = 1])
  /\ UNCHANGED <<heap, filled, given, raced, calls>>

\* populate_class_mirror_fields and intern_named_module: one part after another.
NextPart(t) == Parts[Top(t).key][Top(t).next]
Filling(t) == InCall(t) /\ Top(t).next \in 1..Len(Parts[Top(t).key])

FillHit(t) ==
  /\ Filling(t)
  /\ LookUp(t, NextPart(t))
  /\ ~Miss(NextPart(t))
  /\ Give(NextPart(t), table[NextPart(t)])
  /\ filled' = [filled EXCEPT ![Top(t).ref] = @ + 1]
  /\ SetTop(t, [Top(t) EXCEPT !.next = @ + 1])
  /\ UNCHANGED <<table, heap, calls>>

FillMiss(t) ==
  /\ Filling(t)
  /\ LookUp(t, NextPart(t))
  /\ Miss(NextPart(t))
  /\ stack' = [stack EXCEPT ![t] = <<Frame(NextPart(t))>> \o @]
  /\ UNCHANGED <<table, heap, filled, given, calls>>

CompleteOnceInserted(t) == InCall(t) /\ Top(t).next > 0
Complete(t) == InCall(t) /\ Top(t).next > Len(Parts[Top(t).key])

InternReturns(t) ==
  /\ Complete(t)
  /\ Give(Top(t).key, Top(t).ref)
  /\ PopAndFill(t)
  /\ UNCHANGED <<table, heap, raced, calls>>

-----------------------------------------------------------------------------
Continue(t) ==
  Build(t) \/ Insert(t) \/ FillHit(t) \/ FillMiss(t) \/ InternReturns(t)

Next ==
  \E t \in Threads :
    Continue(t) \/ \E k \in Keys : InternHit(t, k) \/ InternMiss(t, k)

Spec == Init /\ [][Next]_vars

-----------------------------------------------------------------------------
\* A call for k that has missed and not inserted yet.
Racing(k) ==
  \E t \in Threads : \E i \in 1..Len(stack[t]) :
    stack[t][i].key = k /\ stack[t][i].next = 0

\* A key with an object and no call racing for it keeps that object for good:
\* identity can only be lost among the calls that overlap the first one.
SettledForGood ==
  [][\A k \in Keys : table[k] # None /\ ~Racing(k) =>
       table'[k] = table[k] /\ ~Racing(k)']_vars

\* An entry of a table holds an object built for that very key, and never one
\* that was not allotted: mirrors of different classes are different objects.
EntriesAreOfTheirKey ==
  \A k \in Keys : table[k] # None => heap[table[k]] = k

\* "the same text always gives the same reference" (string.rs), "the same
\* internal name always gives the same Class mirror" (mirrors.rs) is more than
\* the tables give: two threads that intern a key at once are given two objects.
\* Where that does not happen, all that is promised of a mirror holds, in
\* whatever order mirrors ask for each other: one object for the key; it is
\* found by reference, so the natives of Class know which class it stands for
\* (mirror_internal_name); and nobody is given it before the fields the VM sets
\* in it are set.
SoundUnlessRaced ==
  \A k \in Keys \ raced :
    /\ Cardinality(given[k]) <= 1
    /\ \A r \in given[k] : table[k] = r /\ filled[r] = Len(Parts[k])
=============================================================================
