----------------------------- MODULE JavaFrame ------------------------------
(***************************************************************************)
(* What an instruction of verified code does to a frame, as the Java       *)
(* Virtual Machine Specification says it (2.6, 4.10, 6.5): the operand     *)
(* stack is a sequence of values, a long or a double is one of them, and a *)
(* local overwritten in part is unusable.  Integers are told by the        *)
(* properties that define their results, not by how they are computed.     *)
(***************************************************************************)
EXTENDS Arithmetic, SequencesExt

CONSTANTS MaxStack, MaxLocals, Null, NewThrown

Table == INSTANCE Opcodes

Value(kind, v) == [kind |-> kind, value |-> v]
Unusable == Value("Top", 0)
Category(kind) == IF kind \in {"Long", "Double"} THEN 2 ELSE 1
SlotsOf(kinds) ==
    LET below[n \in 0 .. Len(kinds)] == IF n = 0 THEN 0 ELSE below[n - 1] + Category(kinds[n])
    IN  below[Len(kinds)]
Kinds(values) == [i \in DOMAIN values |-> values[i].kind]
-----------------------------------------------------------------------------
(* Integers. *)

Congruent(bits, x) == CHOOSE y \in Range2(bits) : (y - x) % 2 ^ bits = 0
BitsOf(bits, x) == {i \in 0 .. (bits - 1) : ((x % 2 ^ bits) \div 2 ^ i) % 2 = 1}
WithBits(bits, S) == CHOOSE y \in Range2(bits) : BitsOf(bits, y) = S
SameSign(a, b) == a = 0 \/ (a < 0) = (b < 0)

JavaBinary(bits, code, l, r) ==
    CASE code = "add" -> Congruent(bits, l + r)
      [] code = "sub" -> Congruent(bits, l - r)
      [] code = "mul" -> Congruent(bits, l * r)
      [] code = "div" -> IF \E q \in Range2(bits) : q * r = l THEN CHOOSE q \in Range2(bits) : q * r = l
                         ELSE IF r = -1 THEN l
                         ELSE CHOOSE q \in Range2(bits) :
                                  /\ 0 < Magnitude(l) - Magnitude(q * r)
                                  /\ Magnitude(l) - Magnitude(q * r) < Magnitude(r)
                                  /\ SameSign(q, l * r)
      [] code = "rem" -> CHOOSE m \in Range2(bits) :
                             Magnitude(m) < Magnitude(r) /\ SameSign(m, l) /\ (l - m) % Magnitude(r) = 0
      [] code = "and" -> WithBits(bits, BitsOf(bits, l) \cap BitsOf(bits, r))
      [] code = "or"  -> WithBits(bits, BitsOf(bits, l) \cup BitsOf(bits, r))
      [] code = "xor" -> WithBits(bits, (BitsOf(bits, l) \cup BitsOf(bits, r))
                                        \ (BitsOf(bits, l) \cap BitsOf(bits, r)))

JavaShift(bits, code, l, s) ==
    LET d == CHOOSE k \in 0 .. (bits - 1) : (s - k) % bits = 0
    IN  CASE code = "shl"  -> WithBits(bits, {i + d : i \in BitsOf(bits, l)} \cap (0 .. (bits - 1)))
          [] code = "shr"  -> CHOOSE y \in Range2(bits) : y * 2 ^ d <= l /\ l < (y + 1) * 2 ^ d
          [] code = "ushr" -> WithBits(bits, {i \in 0 .. (bits - 1) : i + d \in BitsOf(bits, l)})

Sign(x) == IF x < 0 THEN -1 ELSE IF x = 0 THEN 0 ELSE 1
Nearest(bits, top, x) ==
    IF x = NaN(top) THEN 0
    ELSE IF x \in Range2(bits) /\ Magnitude(x) # top THEN x
    ELSE CHOOSE y \in Range2(bits) : \A z \in Range2(bits) : y * Sign(x) >= z * Sign(x)

JavaConverted(from, to, x) ==
    LET bits == IF to = "Int" THEN IntBits ELSE LongBits
        top == IF from = "Float" THEN FloatTop ELSE DoubleTop
    IN  IF from \in {"Float", "Double"} /\ to \in {"Int", "Long"} THEN Nearest(bits, top, x)
        ELSE CASE to = "Int" -> Congruent(IntBits, x)
               [] to = "Byte" -> Congruent(ByteBits, x)
               [] to = "Short" -> Congruent(ShortBits, x)
               [] to = "Char" -> CHOOSE y \in 0 .. (2 ^ ShortBits - 1) : (y - x) % 2 ^ ShortBits = 0
               [] OTHER -> Converted(from, to, x)
-----------------------------------------------------------------------------
(* The forms of the instructions that move values: the categories of the   *)
(* values they need, lowest first, and the values they leave in their      *)
(* place.                                                                  *)

StackCodes == {"nop", "pop", "pop2", "dup", "dup_x1", "dup_x2", "dup2", "dup2_x1", "dup2_x2", "swap"}
Forms ==
    [code \in StackCodes |->
        CASE code = "nop"     -> {<< <<>>, <<>> >>}
          [] code = "pop"     -> {<< <<1>>, <<>> >>}
          [] code = "pop2"    -> {<< <<1, 1>>, <<>> >>, << <<2>>, <<>> >>}
          [] code = "dup"     -> {<< <<1>>, <<1, 1>> >>}
          [] code = "dup_x1"  -> {<< <<1, 1>>, <<2, 1, 2>> >>}
          [] code = "dup_x2"  -> {<< <<1, 1, 1>>, <<3, 1, 2, 3>> >>, << <<2, 1>>, <<2, 1, 2>> >>}
          [] code = "dup2"    -> {<< <<1, 1>>, <<1, 2, 1, 2>> >>, << <<2>>, <<1, 1>> >>}
          [] code = "dup2_x1" -> {<< <<1, 1, 1>>, <<2, 3, 1, 2, 3>> >>, << <<1, 2>>, <<2, 1, 2>> >>}
          [] code = "dup2_x2" -> {<< <<1, 1, 1, 1>>, <<3, 4, 1, 2, 3, 4>> >>, << <<1, 1, 2>>, <<3, 1, 2, 3>> >>,
                                  << <<2, 1, 1>>, <<2, 3, 1, 2, 3>> >>, << <<2, 2>>, <<2, 1, 2>> >>}
          [] code = "swap"    -> {<< <<1, 1>>, <<2, 1>> >>}]

TopOf(s, n) == SubSeq(s, Len(s) - n + 1, Len(s))
Below(s, n) == SubSeq(s, 1, Len(s) - n)
Fits(form, s) ==
    /\ Len(form[1]) <= Len(s)
    /\ \A i \in DOMAIN form[1] : Category(TopOf(s, Len(form[1]))[i].kind) = form[1][i]

\* The stack after the form that fits it.
Moved(code, s) ==
    LET form == CHOOSE f \in Forms[code] : Fits(f, s)
        top == TopOf(s, Len(form[1]))
    IN  Below(s, Len(form[1])) \o [i \in DOMAIN form[2] |-> top[form[2][i]]]

\* The kinds of the operands of every other instruction, lowest first.
Operands(op) ==
    CASE op.code \in {"store", "store_n", "neg", "convert", "xreturn", "putstatic"} -> <<op.type>>
      [] op.code \in {"add", "sub", "mul", "div", "rem", "and", "or", "xor", "cmp", "cmpl", "cmpg"}
             -> <<op.type, op.type>>
      [] op.code \in {"shl", "shr", "ushr"} -> <<op.type, "Int">>
      [] op.code \in {"if", "tableswitch", "lookupswitch", "newarray", "anewarray"} -> <<"Int">>
      [] op.code = "if_icmp" -> <<"Int", "Int">>
      [] op.code \in {"ifnull", "getfield", "arraylength", "checkcast", "instanceof", "monitorenter",
                      "monitorexit", "athrow"} -> <<"Ref">>
      [] op.code = "if_acmp" -> <<"Ref", "Ref">>
      [] op.code = "putfield" -> <<"Ref", op.type>>
      [] op.code = "xaload" -> <<"Ref", "Int">>
      [] op.code = "xastore" -> <<"Ref", "Int", op.type>>
      [] op.code = "multianewarray" -> [i \in 1 .. op.dims |-> "Int"]
      [] op.code \in {"invokestatic", "invokedynamic"} -> op.params
      [] op.code \in {"invokespecial", "invokevirtual", "invokeinterface"} -> <<"Ref">> \o op.params
      [] OTHER -> <<>>

NeedsObject(op) ==
    op.code \in {"getfield", "putfield", "arraylength", "xaload", "xastore", "monitorenter", "monitorexit",
                 "invokespecial", "invokevirtual", "invokeinterface"}

\* The value an instruction pushes, if it does: v are its operands.
Pushed(op, v) ==
    CASE op.code \in {"iconst", "bipush", "sipush"} -> <<Value("Int", op.value)>>
      [] op.code \in {"ldc", "ldc_w", "ldc2_w"} -> <<Value(op.constant, op.value)>>
      [] op.code = "lconst" -> <<Value("Long", op.value)>>
      [] op.code = "fconst" -> <<Value("Float", op.value)>>
      [] op.code = "dconst" -> <<Value("Double", op.value)>>
      [] op.code = "aconst_null" -> <<Value("Ref", Null)>>
      [] op.code \in {"add", "sub", "mul", "div", "rem", "and", "or", "xor"} ->
             <<Value(op.type, CASE op.type = "Int" -> JavaBinary(IntBits, op.code, v[1], v[2])
                                [] op.type = "Long" -> JavaBinary(LongBits, op.code, v[1], v[2])
                                [] op.type = "Float" -> Ieee(FloatTop, op.code, v[1], v[2])
                                [] op.type = "Double" -> Ieee(DoubleTop, op.code, v[1], v[2]))>>
      [] op.code \in {"shl", "shr", "ushr"} ->
             <<Value(op.type, JavaShift(IF op.type = "Int" THEN IntBits ELSE LongBits, op.code, v[1], v[2]))>>
      [] op.code = "neg" ->
             <<Value(op.type, CASE op.type = "Int" -> Congruent(IntBits, -v[1])
                                [] op.type = "Long" -> Congruent(LongBits, -v[1])
                                [] op.type = "Float" -> Negated(FloatTop, v[1])
                                [] op.type = "Double" -> Negated(DoubleTop, v[1]))>>
      [] op.code = "cmp" -> <<Value("Int", Sign(v[1] - v[2]))>>
      [] op.code \in {"cmpl", "cmpg"} ->
             LET unordered == NaN(IF op.type = "Float" THEN FloatTop ELSE DoubleTop) \in {v[1], v[2]}
             IN  <<Value("Int", IF ~unordered THEN Sign(v[1] - v[2]) ELSE IF op.code = "cmpl" THEN -1 ELSE 1)>>
      [] op.code = "convert" ->
             <<Value(IF op.to \in {"Byte", "Char", "Short"} THEN "Int" ELSE op.to,
                     JavaConverted(op.type, op.to, v[1]))>>
      [] op.code = "checkcast" -> <<Value("Ref", v[1])>>
      [] op.code = "instanceof" -> <<Value("Int", IF v[1] = Null THEN 0 ELSE op.value)>>
      [] op.result # "Void" -> <<Value(op.result, op.value)>>
      [] OTHER -> <<>>
-----------------------------------------------------------------------------
(* Verification and execution.  A frame j has a stack, locals, the address *)
(* of the next instruction and an outcome.                                 *)

\* Storing at i makes what was at i, or reached into i, unusable.
Stored(locals, i, kind, v) ==
    [k \in DOMAIN locals |->
        IF k = i THEN Value(kind, v)
        ELSE IF \/ k = i + 1 /\ Category(kind) = 2
                \/ k = i - 1 /\ Category(locals[k].kind) = 2 THEN Unusable
        ELSE locals[k]]

\* The verifier lets op be the next instruction.
Admits(op, j) ==
    LET kinds == Operands(op)
        n == Len(kinds)
    IN  IF op.code \in StackCodes
        THEN /\ \E form \in Forms[op.code] : Fits(form, j.stack)
             /\ SlotsOf(Kinds(Moved(op.code, j.stack))) <= MaxStack
        ELSE /\ n <= Len(j.stack) /\ Kinds(TopOf(j.stack, n)) = kinds
             /\ op.code \in {"load", "load_n"} => j.locals[op.index].kind = op.type
             /\ op.code = "iinc" => j.locals[op.index].kind = "Int"
             /\ op.code \in {"store", "store_n"} => op.index + Category(op.type) <= MaxLocals

Throws(op, v) ==
    \/ op.throws /\ (op.code = "checkcast" => v[1] # Null)
    \/ NeedsObject(op) /\ v[1] = Null
    \/ op.code \in {"div", "rem"} /\ op.type \in {"Int", "Long"} /\ v[2] = 0
    \/ op.code = "athrow"

\* Where the instruction continues: at the offset of a branch taken, at the entry of
\* a switch, or after the instruction, as long as the table of the opcodes says it is.
Truth(condition, a, b) ==
    \/ condition \in {"eq", "le", "ge"} /\ a = b
    \/ condition = "ne" /\ a # b
    \/ condition \in {"lt", "le"} /\ a < b
    \/ condition \in {"gt", "ge"} /\ a > b
Continues(op, j, v) ==
    IF \/ op.code \in {"goto", "goto_w"}
       \/ op.code = "if" /\ Truth(op.condition, v[1], 0)
       \/ op.code = "ifnull" /\ Truth(op.condition, v[1], Null)
       \/ op.code \in {"if_icmp", "if_acmp"} /\ Truth(op.condition, v[1], v[2])
    THEN j.pc + op.offset
    ELSE IF op.code \in {"tableswitch", "lookupswitch"}
    THEN j.pc + (IF v[1] \in DOMAIN op.cases THEN op.cases[v[1]] ELSE op.default)
    ELSE j.pc + Table!Length(op.code)

Ended(how, kind, value) ==
    [stack |-> <<>>, locals |-> [i \in 0 .. (MaxLocals - 1) |-> Unusable], pc |-> 0,
     outcome |-> [how |-> how, kind |-> kind, value |-> value]]

Exec(op, j) ==
    LET kinds == Operands(op)
        top == TopOf(j.stack, Len(kinds))
        v == [i \in DOMAIN top |-> top[i].value]
        below == Below(j.stack, Len(kinds))
        exc == IF op.code = "athrow" /\ v[1] # Null THEN v[1] ELSE NewThrown
        next == Continues(op, j, v) % 4
    IN  IF op.code \in StackCodes THEN [j EXCEPT !.stack = Moved(op.code, j.stack), !.pc = next]
        ELSE IF op.code \in {"xreturn", "return"}
        THEN Ended("returned", op.type, IF op.code = "return" THEN 0 ELSE v[1])
        ELSE IF Throws(op, v)
        THEN IF op.caught THEN [j EXCEPT !.stack = <<Value("Ref", exc)>>, !.pc = op.handler % 4]
             ELSE Ended("thrown", "Ref", exc)
        ELSE IF op.code \in {"store", "store_n"}
        THEN [j EXCEPT !.stack = below, !.locals = Stored(@, op.index, op.type, v[1]), !.pc = next]
        ELSE IF op.code = "iinc"
        THEN [j EXCEPT !.locals[op.index].value = Congruent(IntBits, @ + op.delta), !.pc = next]
        ELSE IF op.code \in {"load", "load_n"}
        THEN [j EXCEPT !.stack = Append(@, j.locals[op.index]), !.pc = next]
        ELSE [j EXCEPT !.stack = below \o Pushed(op, v), !.pc = next]
=============================================================================
