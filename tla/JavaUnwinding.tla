--------------------------- MODULE JavaUnwinding ---------------------------
(***************************************************************************)
(* What a thrown exception does to the activations of a thread, in one     *)
(* step: it lands in the innermost activation with a handler for the class *)
(* it has by the time it gets there, or ends them all.  On its way out of  *)
(* a class initializer it becomes an ExceptionInInitializerError (JVMS     *)
(* 5.5), on its way out of a method called by reflection an                *)
(* InvocationTargetException.  No machinery: no call stack kept for        *)
(* traces, no frame-by-frame search.                                       *)
(***************************************************************************)
EXTENDS Naturals, Sequences, FiniteSetsExt

CONSTANTS
  Methods,
  Pcs,      \* where in a method an instruction may be
  Classes,  \* of exceptions
  Table     \* Table[m]: exception table, entries [covers, catches, handler]

VARIABLE stack  \* the activations, outermost first: [kind, method, pc]

-----------------------------------------------------------------------------
Matching(m, pc, c) ==
  {i \in 1..Len(Table[m]) : pc \in Table[m][i].covers /\ c \in Table[m][i].catches}

\* The handler is that of the first entry that matches (JVMS 2.10).
HandlerOf(m, pc, c) ==
  Table[m][CHOOSE i \in Matching(m, pc, c) :
             \A j \in Matching(m, pc, c) : i <= j].handler

\* The activations above k that exceptions do not leave unchanged.
Boundaries(s, k) == {i \in k + 1..Len(s) : s[i].kind \in {"clinit", "reflected"}}

\* The class with which an exception of class c, thrown on top of s, gets to s[k].
Arriving(s, k, c) ==
  LET B == Boundaries(s, k)
      outermost == CHOOSE i \in B : \A j \in B : i <= j
  IN IF B = {} THEN c
     ELSE IF s[outermost].kind = "reflected" THEN "InvocationTargetException"
     ELSE IF c = "NoClassDefFoundError" /\ \A i \in B : s[i].kind = "clinit" THEN c
     ELSE "ExceptionInInitializerError"

Catchers(s, c) ==
  {k \in 1..Len(s) : /\ s[k].kind # "native"
                     /\ Matching(s[k].method, s[k].pc, Arriving(s, k, c)) # {}}

\* s after an exception of class c was thrown on top of it.
Landed(s, c) ==
  LET C == Catchers(s, c)
      caughtBy == [k \in C |->
                     [SubSeq(s, 1, k) EXCEPT
                        ![k].pc = HandlerOf(s[k].method, s[k].pc, Arriving(s, k, c))]]
  IN IF C = {} THEN <<>> ELSE caughtBy[Max(C)]

-----------------------------------------------------------------------------
Init == stack = <<>>

Top == stack[Len(stack)]

\* The kinds of call that what is on top may make.
MayCall ==
  IF stack = <<>> THEN {"entry", "clinit"}
  ELSE IF Top.kind = "native" THEN {"reflected", "clinit"}
  ELSE {"method", "native", "handle", "clinit"}

Call ==
  stack' \in {Append(stack, [kind |-> kind, method |-> m, pc |-> 0]) :
                kind \in MayCall, m \in Methods}

Run ==
  /\ stack # <<>>
  /\ Top.kind # "native"
  /\ stack' \in {[stack EXCEPT ![Len(stack)].pc = p] : p \in Pcs}

Return ==
  /\ stack # <<>>
  /\ stack' = SubSeq(stack, 1, Len(stack) - 1)

Throw(c) ==
  /\ stack # <<>>
  /\ \E s \in {stack} : stack' = Landed(s, c)

\* An error of the interpreter itself: no handler sees it.
Abort ==
  /\ stack # <<>>
  /\ stack' = <<>>

Next ==
  \/ UNCHANGED stack
  \/ Call \/ Run \/ Return \/ Abort
  \/ \E c \in Classes : Throw(c)

Spec == Init /\ [][Next]_stack
=============================================================================
