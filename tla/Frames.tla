------------------------------- MODULE Frames -------------------------------
(***************************************************************************)
(* The slots of a frame: operand stack and local variables                 *)
(* (src/src/runtime/{slot,operand_stack,local_vars,frame}.rs).             *)
(*                                                                         *)
(* A long or a double takes two slots, the value below and Top above.  A   *)
(* frame record carries, besides stack and locals, what the last pop gave  *)
(* and whether every operation so far succeeded; a failed operation is     *)
(* FrameError, after which nothing else happens (the `?' of the code).     *)
(***************************************************************************)
EXTENDS Integers, SequencesExt

CONSTANTS MaxStack, MaxLocals    \* slots of the operand stack and of the locals

ASSUME FramesAssumption == {MaxStack, MaxLocals} \subseteq Nat

Slot(kind, value) == [kind |-> kind, value |-> value]
Top == Slot("Top", 0)
IsCategory2(kind) == kind \in {"Long", "Double"}
SlotsFor(v) == IF IsCategory2(v.kind) THEN <<v, Top>> ELSE <<v>>

\* Frame::new: an empty stack, and every local Top.
NewFrame == [stack |-> <<>>, locals |-> [i \in 0 .. (MaxLocals - 1) |-> Top], got |-> <<>>, ok |-> TRUE]

FrameError(f) == [f EXCEPT !.ok = FALSE]
-----------------------------------------------------------------------------
(* Operand stack. *)

\* pop_n: the upper n slots, lowest first; Underflow when there are fewer.
PopN(f, n) ==
    LET rest == Len(f.stack) - n
    IN  IF ~f.ok \/ rest < 0 THEN FrameError(f)
        ELSE [f EXCEPT !.stack = SubSeq(@, 1, rest), !.got = SubSeq(f.stack, rest + 1, rest + n)]

\* push1 of each slot in order; Overflow beyond max_stack.
PushN(f, slots) ==
    IF ~f.ok \/ Len(f.stack) + Len(slots) > MaxStack THEN FrameError(f)
    ELSE [f EXCEPT !.stack = @ \o slots]

\* push_int .. push_reference (push1) and push_long, push_double (push2).
Push(f, kind, value) == PushN(f, SlotsFor(Slot(kind, value)))

\* pop_int .. pop_double: the slot (of a category 2 value the lower one: what is
\* above it is not looked at) must be of the kind, or it is TypeMismatch.  The value
\* is put before those popped earlier for the same instruction.
Pop(f, kind) ==
    LET p == PopN(f, IF IsCategory2(kind) THEN 2 ELSE 1)
    IN  IF ~p.ok \/ p.got[1].kind # kind THEN FrameError(f)
        ELSE [p EXCEPT !.got = <<p.got[1].value>> \o f.got]

\* The values of several kinds, given as they lie on the stack, lowest first.
PopAll(f, kinds) ==
    LET popped[n \in 0 .. Len(kinds)] == IF n = 0 THEN f ELSE Pop(popped[n - 1], kinds[Len(kinds) - n + 1])
    IN  popped[Len(kinds)]

TopIsCategory2(f) == f.ok /\ f.stack # <<>> /\ Last(f.stack) = Top

Dup(f) == LET v == PopN(f, 1) IN PushN(PushN(v, v.got), v.got)

DupX1(f) ==
    LET v1 == PopN(f, 1)  v2 == PopN(v1, 1)
    IN  PushN(v2, v1.got \o v2.got \o v1.got)

\* A copy that takes what is below the top value for one value of two slots.
DupX2Blind(f) ==
    LET v1 == PopN(f, 1)  v2 == PopN(v1, 2)
    IN  PushN(v2, v1.got \o Reverse(v2.got) \o v1.got)

DupX2(f) ==
    LET v1 == PopN(f, 1)
        v2 == PopN(v1, IF TopIsCategory2(v1) THEN 2 ELSE 1)
        v3 == PopN(v2, 1)
    IN  IF TopIsCategory2(v1) THEN PushN(v2, v1.got \o v2.got \o v1.got)
        ELSE PushN(v3, v1.got \o v3.got \o v2.got \o v1.got)

Dup2(f) ==
    LET cat2 == PopN(f, 2)  v1 == PopN(f, 1)  v2 == PopN(v1, 1)
    IN  IF TopIsCategory2(f) THEN PushN(cat2, cat2.got \o cat2.got)
        ELSE PushN(v2, v2.got \o v1.got \o v2.got \o v1.got)

Dup2X1(f) ==
    LET g == PopN(f, 2)  w == PopN(g, 1)
    IN  PushN(w, g.got \o w.got \o g.got)

Dup2X2(f) ==
    LET g == PopN(f, 2)
        w == PopN(g, 2)
        w1 == PopN(g, 1)  w2 == PopN(w1, 1)
    IN  IF TopIsCategory2(g) THEN PushN(w, g.got \o w.got \o g.got)
        ELSE PushN(w2, g.got \o w2.got \o w1.got \o g.got)

Swap(f) == LET two == PopN(f, 2) IN PushN(two, Reverse(two.got))

\* OperandStack::clear.
Cleared(f) == [f EXCEPT !.stack = <<>>]
-----------------------------------------------------------------------------
(* Local variables. *)

\* set1: BadLocalIndex beyond max_locals.
SetSlot(f, i, slot) ==
    IF ~f.ok \/ i \notin DOMAIN f.locals THEN FrameError(f) ELSE [f EXCEPT !.locals[i] = slot]

\* set_int .. set_reference, and set_long and set_double, which make the slot above
\* Top first.  A long whose lower half is at i - 1 stays there.
SetLocal(f, i, kind, value) ==
    SetSlot(IF IsCategory2(kind) THEN SetSlot(f, i + 1, Top) ELSE f, i, Slot(kind, value))

\* get_int .. get_double: TypeMismatch unless the slot is of the kind.
GetLocal(f, i, kind) ==
    IF ~f.ok \/ i \notin DOMAIN f.locals THEN FrameError(f)
    ELSE IF f.locals[i].kind # kind THEN FrameError(f)
    ELSE [f EXCEPT !.got = <<f.locals[i].value>>]

\* pop_args and store_arg: the arguments, in order from local first on.
StoreArgs(f, first, args) ==
    LET stored[n \in 0 .. Len(args)] ==
            IF n = 0 THEN [frame |-> f, at |-> first]
            ELSE [frame |-> SetLocal(stored[n - 1].frame, stored[n - 1].at, args[n].kind, args[n].value),
                  at |-> stored[n - 1].at + Len(SlotsFor(args[n]))]
    IN  stored[Len(args)].frame
=============================================================================
