------------------------------ MODULE Bytecode ------------------------------
(***************************************************************************)
(* One activation of the interpreter: `run' and `dispatch' of              *)
(* src/src/runtime/interpreter/mod.rs, an action per section of the match  *)
(* on the opcode.                                                          *)
(*                                                                         *)
(* An instruction is a record `op': its code, its operands, and what the   *)
(* rest of the machine answers while it runs (the result of a call or of a *)
(* read of the heap, whether an exception comes out of it, whether the     *)
(* exception table of this frame has a handler for it).  Addresses are     *)
(* kept modulo 4, which is all that the padding of a switch sees.          *)
(***************************************************************************)
EXTENDS Arithmetic, Frames

CONSTANTS Null,      \* the null reference
          NewThrown  \* a reference to an exception the machine makes

VARIABLES frame,     \* operand stack and locals
          pc,        \* address of the next instruction, modulo 4
          outcome    \* [how |-> "running"], or how the activation ended

vars == <<frame, pc, outcome>>

Running == [how |-> "running", kind |-> "Void", value |-> 0]

\* The activation is over and its frame is dropped.
End(how, kind, value) ==
    /\ outcome' = [how |-> how, kind |-> kind, value |-> value]
    /\ frame' = NewFrame /\ pc' = 0
-----------------------------------------------------------------------------
(* The ways out of an instruction. *)

\* The arm ends with `pc = target' and the frame as it left it.
Proceed(f, target) ==
    \/ /\ f.ok
       /\ frame' = [f EXCEPT !.got = <<>>] /\ pc' = target % 4
       /\ UNCHANGED outcome
    \/ ~f.ok /\ End("FrameError", "Void", 0)

\* An exception is dispatched where `run' (or finish_invoke) finds a handler in the
\* table of this frame; otherwise the activation ends with it.
ThrowIt(f, exc, op) ==
    \/ ~f.ok /\ Proceed(f, pc)
    \/ f.ok /\ op.caught /\ Proceed(Push(Cleared(f), "Ref", exc), op.handler)
    \/ f.ok /\ ~op.caught /\ End("thrown", "Ref", exc)

Step(f, bytes) == Proceed(f, pc + bytes)

\* Pop operands, push a result computed from them.
Compute(kinds, kind, Result(_), bytes) ==
    LET p == PopAll(frame, kinds)
    IN  Step(IF p.ok THEN Push(p, kind, Result(p.got)) ELSE p, bytes)
-----------------------------------------------------------------------------
(* Constants and locals. *)

IntConstants(op) ==
    /\ op.code \in {"iconst", "bipush", "sipush"}
    /\ Step(Push(frame, "Int", op.value),
            CASE op.code = "iconst" -> 1 [] op.code = "bipush" -> 2 [] op.code = "sipush" -> 3)

\* ldc and ldc_w: an Integer, a Float, a String (interned) or a Class (its mirror);
\* nothing else is served.
LoadConstant(op) ==
    /\ op.code \in {"ldc", "ldc_w"}
    /\ \/ /\ op.constant \in {"Int", "Float", "Ref"}
          /\ Step(Push(frame, op.constant, op.value), IF op.code = "ldc" THEN 2 ELSE 3)
       \/ /\ op.constant \notin {"Int", "Float", "Ref"}
          /\ End("BadConstant", "Void", 0)

\* xload and xstore with an index byte, and the short forms of the first locals.
Local(op) ==
    LET bytes == IF op.code \in {"load", "store"} THEN 2 ELSE 1
        from == GetLocal(frame, op.index, op.type)
        popped == Pop(frame, op.type)
    IN  \/ /\ op.code \in {"load", "load_n"}
           /\ Step(IF from.ok THEN Push(from, op.type, from.got[1]) ELSE from, bytes)
        \/ /\ op.code \in {"store", "store_n"}
           /\ Step(IF popped.ok THEN SetLocal(popped, op.index, op.type, popped.got[1]) ELSE popped, bytes)

IntLocals(op) == op.type = "Int" /\ Local(op)
RefLocals(op) == op.type = "Ref" /\ Local(op)
LongConstantsAndLocals(op) ==
    \/ op.code \in {"lconst"} /\ Step(Push(frame, "Long", op.value), 1)
    \/ /\ op.code = "ldc2_w" /\ op.constant \in {"Long", "Double"}
       /\ Step(Push(frame, op.constant, op.value), 3)
    \/ op.type = "Long" /\ Local(op)
FloatConstantsAndLocals(op) ==
    \/ op.code = "fconst" /\ Step(Push(frame, "Float", op.value), 1)
    \/ op.type = "Float" /\ Local(op)
DoubleConstantsAndLocals(op) ==
    \/ op.code = "dconst" /\ Step(Push(frame, "Double", op.value), 1)
    \/ op.type = "Double" /\ Local(op)
-----------------------------------------------------------------------------
(* Arithmetic. *)

\* The right operand is on top; a zero divisor is an ArithmeticException.
IntegerArithmetic(op, bits) ==
    LET p == PopAll(frame, <<op.type, op.type>>)
        shift == PopAll(frame, <<op.type, "Int">>)
        v == Pop(frame, op.type)
    IN  \/ /\ op.code \in {"add", "sub", "mul", "and", "or", "xor"}
           /\ Step(IF p.ok THEN Push(p, op.type, Binary(bits, op.code, p.got[1], p.got[2])) ELSE p, 1)
        \/ /\ op.code \in {"div", "rem"}
           /\ IF p.ok /\ p.got[2] = 0 THEN ThrowIt(p, NewThrown, op)
              ELSE Step(IF p.ok THEN Push(p, op.type, Binary(bits, op.code, p.got[1], p.got[2])) ELSE p, 1)
        \/ /\ op.code = "neg"
           /\ Step(IF v.ok THEN Push(v, op.type, Wrap(bits, -v.got[1])) ELSE v, 1)
        \/ /\ op.code \in {"shl", "shr", "ushr"}
           /\ Step(IF shift.ok THEN Push(shift, op.type, Shift(bits, op.code, shift.got[1], shift.got[2])) ELSE shift, 1)

IntArithmetic(op) ==
    LET v == GetLocal(frame, op.index, "Int")
    IN  \/ op.type = "Int" /\ IntegerArithmetic(op, IntBits)
        \/ /\ op.code = "iinc"
           /\ Step(IF v.ok THEN SetLocal(v, op.index, "Int", Wrap(IntBits, v.got[1] + op.delta)) ELSE v, 3)

LongArithmetic(op) == op.type = "Long" /\ op.code \notin {"shl", "shr", "ushr", "and", "or", "xor"} /\ IntegerArithmetic(op, LongBits)

LongBitsAndCompare(op) ==
    \/ op.type = "Long" /\ op.code \in {"shl", "shr", "ushr", "and", "or", "xor"} /\ IntegerArithmetic(op, LongBits)
    \/ op.type = "Long" /\ op.code = "cmp" /\ Compute(<<"Long", "Long">>, "Int", LAMBDA v : Compare(v[1], v[2]), 1)

FloatingArithmetic(op, top) ==
    \/ /\ op.code \in {"add", "sub", "mul", "div", "rem"}
       /\ Compute(<<op.type, op.type>>, op.type, LAMBDA v : Ieee(top, op.code, v[1], v[2]), 1)
    \/ op.code = "neg" /\ Compute(<<op.type>>, op.type, LAMBDA v : Negated(top, v[1]), 1)
    \/ /\ op.code \in {"cmpl", "cmpg"}
       /\ Compute(<<op.type, op.type>>, "Int", LAMBDA v : CompareFloat(top, v[1], v[2], op.code = "cmpg"), 1)

FloatArithmetic(op) == op.type = "Float" /\ FloatingArithmetic(op, FloatTop)
DoubleArithmetic(op) == op.type = "Double" /\ FloatingArithmetic(op, DoubleTop)

Conversions(op) ==
    /\ op.code = "convert"
    /\ Compute(<<op.type>>, IF op.to \in {"Byte", "Char", "Short"} THEN "Int" ELSE op.to,
               LAMBDA v : Converted(op.type, op.to, v[1]), 1)

StackManagement(op) ==
    \/ op.code = "nop" /\ Step(frame, 1)
    \/ op.code = "pop" /\ Step(PopN(frame, 1), 1)
    \/ op.code = "pop2" /\ Step(PopN(frame, 2), 1)
    \/ op.code = "dup" /\ Step(Dup(frame), 1)
    \/ op.code = "dup_x1" /\ Step(DupX1(frame), 1)
    \/ op.code = "dup_x2" /\ Step(DupX2(frame), 1)
    \/ op.code = "dup2" /\ Step(Dup2(frame), 1)
    \/ op.code = "dup2_x1" /\ Step(Dup2X1(frame), 1)
    \/ op.code = "dup2_x2" /\ Step(Dup2X2(frame), 1)
    \/ op.code = "swap" /\ Step(Swap(frame), 1)
-----------------------------------------------------------------------------
(* Branches.  An offset is relative to the address of the instruction. *)

Holds(condition, a, b) ==
    CASE condition = "eq" -> a = b [] condition = "ne" -> a # b
      [] condition = "lt" -> a < b [] condition = "ge" -> a >= b
      [] condition = "gt" -> a > b [] condition = "le" -> a <= b

Branch(f, taken, op) == Proceed(f, IF taken THEN pc + op.offset ELSE pc + 3)

\* cond1 and cond2, on ints, and cond_ref1 and cond_ref2, on references.
IntBranches(op) ==
    LET one == Pop(frame, "Int")  two == PopAll(frame, <<"Int", "Int">>)
    IN  \/ op.code = "if" /\ Branch(one, one.ok /\ Holds(op.condition, one.got[1], 0), op)
        \/ op.code = "if_icmp" /\ Branch(two, two.ok /\ Holds(op.condition, two.got[1], two.got[2]), op)

RefBranches(op) ==
    LET one == Pop(frame, "Ref")  two == PopAll(frame, <<"Ref", "Ref">>)
    IN  \/ op.code = "ifnull" /\ Branch(one, one.ok /\ Holds(op.condition, one.got[1], Null), op)
        \/ op.code = "if_acmp" /\ Branch(two, two.ok /\ Holds(op.condition, two.got[1], two.got[2]), op)

Goto(op) == op.code \in {"goto", "goto_w"} /\ Proceed(frame, pc + op.offset)

\* The switches read 32-bit words from the first address after the opcode that is a
\* multiple of 4.  The words of the instruction as the compiler wrote them begin at
\* op.tableAt; read from anywhere else they are not the words written.
SwitchBaseLate == pc + 1 + (4 - ((pc + 1) % 4))
SwitchBase == pc + 1 + ((4 - ((pc + 1) % 4)) % 4)
Word(op, base, n) == IF base = op.tableAt THEN op.words[n + 1] ELSE op.garbage

TableSwitch(op) ==
    LET p == Pop(frame, "Int")
        default == Word(op, SwitchBase, 0)
        low == Word(op, SwitchBase, 1)
        high == Word(op, SwitchBase, 2)
        offset == IF p.got[1] < low \/ p.got[1] > high THEN default
                  ELSE Word(op, SwitchBase, 3 + (p.got[1] - low))
    IN  op.code = "tableswitch" /\ Proceed(p, IF p.ok THEN pc + offset ELSE pc)

\* The first pair with the key, in the order of the table.
LookupSwitch(op) ==
    LET p == Pop(frame, "Int")
        default == Word(op, SwitchBase, 0)
        npairs == Word(op, SwitchBase, 1)
        hits == {i \in 0 .. (npairs - 1) : Word(op, SwitchBase, 2 + 2 * i) = p.got[1]}
        offset == IF hits = {} THEN default ELSE Word(op, SwitchBase, 3 + 2 * Min(hits))
    IN  op.code = "lookupswitch" /\ Proceed(p, IF p.ok THEN pc + offset ELSE pc)
-----------------------------------------------------------------------------
(* Instructions that the rest of the machine completes: operands are popped *)
(* here, and its answer is a value, nothing, or an exception.               *)

Answered(op, kinds, receivers, bytes) ==
    LET p == PopAll(frame, kinds)
    IN  IF p.ok /\ \E i \in receivers : p.got[i] = Null THEN ThrowIt(p, NewThrown, op)
        ELSE IF op.throws THEN ThrowIt(p, NewThrown, op)
        ELSE Step(IF op.result = "Void" THEN p ELSE Push(p, op.result, op.value), bytes)

FieldAccess(op) ==
    \/ op.code \in {"new", "getstatic"} /\ Answered(op, <<>>, {}, 3)
    \/ op.code = "putstatic" /\ Answered(op, <<op.type>>, {}, 3)
    \/ op.code = "getfield" /\ Answered(op, <<"Ref">>, {1}, 3)
    \/ op.code = "putfield" /\ Answered(op, <<"Ref", op.type>>, {1}, 3)
    \/ op.code = "aconst_null" /\ Step(Push(frame, "Ref", Null), 1)

\* pop_args takes the arguments from the last to the first, then the receiver; the
\* value returned or the exception comes back through finish_invoke.
Invocations(op) ==
    \/ op.code = "invokestatic" /\ Answered(op, op.params, {}, 3)
    \/ op.code \in {"invokespecial", "invokevirtual"} /\ Answered(op, <<"Ref">> \o op.params, {1}, 3)
    \/ op.code = "invokeinterface" /\ Answered(op, <<"Ref">> \o op.params, {1}, 5)
    \/ op.code = "invokedynamic" /\ Answered(op, op.params, {}, 5)

\* checkcast pushes the reference again before it throws.
ArraysAndTypes(op) ==
    LET r == Pop(frame, "Ref")
    IN  \/ op.code = "newarray" /\ Answered(op, <<"Int">>, {}, 2)
        \/ op.code = "anewarray" /\ Answered(op, <<"Int">>, {}, 3)
        \/ op.code = "multianewarray" /\ Answered(op, [i \in 1 .. op.dims |-> "Int"], {}, 4)
        \/ op.code = "arraylength" /\ Answered(op, <<"Ref">>, {1}, 1)
        \/ op.code = "xaload" /\ Answered(op, <<"Ref", "Int">>, {1}, 1)
        \/ op.code = "xastore" /\ Answered(op, <<"Ref", "Int", op.type>>, {1}, 1)
        \/ /\ op.code = "checkcast"
           /\ LET back == IF r.ok THEN Push(r, "Ref", r.got[1]) ELSE r
              IN  IF r.ok /\ r.got[1] # Null /\ op.throws THEN ThrowIt(back, NewThrown, op) ELSE Step(back, 3)
        \/ /\ op.code = "instanceof"
           /\ Step(IF r.ok THEN Push(r, "Int", IF r.got[1] = Null THEN 0 ELSE op.value) ELSE r, 3)

Monitors(op) == op.code \in {"monitorenter", "monitorexit"} /\ Answered(op, <<"Ref">>, {1}, 1)
-----------------------------------------------------------------------------
(* Ends of the activation. *)

Returns(op) ==
    LET v == Pop(frame, op.type)
    IN  \/ op.code = "return" /\ End("returned", "Void", 0)
        \/ op.code = "xreturn" /\ v.ok /\ End("returned", op.type, v.got[1])
        \/ op.code = "xreturn" /\ ~v.ok /\ Proceed(v, pc)

\* A thrown null is a NullPointerException.
Athrow(op) ==
    LET r == Pop(frame, "Ref")
    IN  op.code = "athrow" /\ ThrowIt(r, IF r.ok /\ r.got[1] # Null THEN r.got[1] ELSE NewThrown, op)

\* Opcodes without an arm.
Unsupported(op) ==
    /\ op.code \in {"wide", "jsr", "jsr_w", "ret", "breakpoint"}
    /\ End("UnsupportedOpcode", "Void", 0)
-----------------------------------------------------------------------------
Init(args) ==
    /\ frame = StoreArgs(NewFrame, 0, args)
    /\ pc = 0
    /\ outcome = Running

Dispatch(op) ==
    /\ outcome = Running
    /\ \/ IntConstants(op) \/ LoadConstant(op) \/ IntLocals(op) \/ RefLocals(op)
       \/ LongConstantsAndLocals(op) \/ FloatConstantsAndLocals(op) \/ DoubleConstantsAndLocals(op)
       \/ IntArithmetic(op) \/ LongArithmetic(op) \/ LongBitsAndCompare(op)
       \/ FloatArithmetic(op) \/ DoubleArithmetic(op) \/ Conversions(op) \/ StackManagement(op)
       \/ IntBranches(op) \/ RefBranches(op) \/ Goto(op) \/ TableSwitch(op) \/ LookupSwitch(op)
       \/ FieldAccess(op) \/ Invocations(op) \/ ArraysAndTypes(op) \/ Monitors(op)
       \/ Returns(op) \/ Athrow(op) \/ Unsupported(op)
=============================================================================
