----------------------------- MODULE Activation -----------------------------
(***************************************************************************)
(* An activation of the interpreter (Bytecode) in step with the frame of   *)
(* the Java Virtual Machine Specification (JavaFrame): both execute the    *)
(* same instruction, one that the verifier admits, since the classes that  *)
(* rustj runs come from a compiler and it has no verifier of its own.      *)
(***************************************************************************)
EXTENDS Bytecode

CONSTANTS Methods  \* what a method uses: kinds of values, slots of stack and of locals,
                   \* and whether it computes or only moves values

ASSUME MethodsAssumption ==
    \A m \in Methods : /\ m.kinds \subseteq {"Int", "Long", "Float", "Double", "Ref"}
                       /\ m.window \in 0 .. MaxStack /\ m.locals \in 0 .. MaxLocals
                       /\ m.computes \in BOOLEAN

VARIABLES java,    \* the frame of the specification
          method   \* the method that runs

Java == INSTANCE JavaFrame
allVars == <<vars, java, method>>

Values(kind) ==
    CASE kind = "Int" -> Range2(IntBits)
      [] kind = "Long" -> Range2(LongBits)
      [] kind = "Float" -> -FloatTop .. NaN(FloatTop)
      [] kind = "Double" -> -DoubleTop .. NaN(DoubleTop)
      [] kind = "Ref" -> {Null, Null + 1}
-----------------------------------------------------------------------------
(* The instructions of a method, with their operands and answers. *)

Op(code) == [code |-> code, type |-> "Void", to |-> "Void", index |-> 0, value |-> 0, constant |-> "Void",
             delta |-> 0, condition |-> "eq", offset |-> 0, handler |-> 0, caught |-> FALSE, throws |-> FALSE,
             result |-> "Void", params |-> <<>>, dims |-> 0, default |-> 0, cases |-> <<>>,
             words |-> <<>>, garbage |-> 0, tableAt |-> 0]
Pushing(code, v) == [Op(code) EXCEPT !.value = v]
Loading(code, kind, v) == [Op(code) EXCEPT !.constant = kind, !.value = v]
Typed(code, type) == [Op(code) EXCEPT !.type = type]
Guarded(code, type) == [Op(code) EXCEPT !.type = type, !.caught = TRUE]
Indexed(code, type, i) == [Op(code) EXCEPT !.type = type, !.index = i]
Adding(i, d) == [Op("iinc") EXCEPT !.index = i, !.delta = d]
Casting(from, to) == [Op("convert") EXCEPT !.type = from, !.to = to]
Jumping(code, condition) == [Op(code) EXCEPT !.condition = condition, !.offset = 2]
Taking(code, params) == [Op(code) EXCEPT !.params = params]

\* A method that computes meets every value, another two of each kind, enough to tell
\* one operand from another.
Constants(kind, m) == IF m.computes THEN Values(kind) ELSE {0, 1}
IfMet(kind, kinds, ops) == IF kind \in kinds THEN ops ELSE {}

Constant(m) ==
    IfMet("Int", m.kinds, {Pushing(c, v) : c \in {"iconst", "bipush", "sipush"}, v \in Constants("Int", m)})
    \cup {Loading(c, k, 1) : c \in {"ldc", "ldc_w"}, k \in m.kinds \cap {"Int", "Ref"}}
    \cup IfMet("Float", m.kinds, {Loading("ldc", "Float", v) : v \in Constants("Float", m)})
    \cup IfMet("Long", m.kinds, {Loading("ldc2_w", "Long", v) : v \in Constants("Long", m)})
    \cup IfMet("Double", m.kinds, {Loading("ldc2_w", "Double", v) : v \in Constants("Double", m)})
    \cup IfMet("Long", m.kinds, {Pushing("lconst", v) : v \in {0, 1}})
    \cup IfMet("Float", m.kinds, {Pushing("fconst", v) : v \in {0, 1}})
    \cup IfMet("Double", m.kinds, {Pushing("dconst", v) : v \in {0, 1}})
    \cup IfMet("Ref", m.kinds, {Op("aconst_null"), Loading("ldc", "MethodType", 0)})

LocalOps(kinds, locals) ==
    {Indexed(c, k, i) : c \in {"load", "load_n", "store", "store_n"}, k \in kinds, i \in 0 .. (locals - 1)}

ArithmeticOps(kinds, locals) ==
    IfMet("Int", kinds, {Adding(i, d) : i \in 0 .. (locals - 1), d \in {-1, 1}})
    \cup {Typed(c, k) : c \in {"add", "sub", "mul", "div", "rem", "neg"}, k \in kinds \ {"Ref"}}
    \cup IfMet("Ref", kinds, {Guarded(c, k) : c \in {"div", "rem"}, k \in {"Int", "Long"} \cap kinds})
    \cup {Typed(c, k) : c \in {"and", "or", "xor"}, k \in kinds \cap {"Int", "Long"}}
    \cup IfMet("Int", kinds,
            {Typed(c, k) : c \in {"shl", "shr", "ushr"}, k \in kinds \cap {"Int", "Long"}}
            \cup {Typed("cmp", k) : k \in kinds \cap {"Long"}}
            \cup {Typed(c, k) : c \in {"cmpl", "cmpg"}, k \in kinds \cap {"Float", "Double"}}
            \cup {Casting("Int", t) : t \in {"Byte", "Char", "Short"}})
    \cup {Casting(pair[1], pair[2]) : pair \in
              {p \in (kinds \ {"Ref"}) \X (kinds \ {"Ref"}) : p[1] # p[2]}}

\* A switch on the cases -1 and 0, and the words the compiler writes for it: a table
\* of all cases from the least to the greatest, or pairs in the order of the keys.
Switch(code, at) ==
    [Op(code) EXCEPT !.default = 1, !.cases = [v \in {-1, 0} |-> v + 3], !.garbage = 0,
        !.words = IF code = "tableswitch" THEN <<1, -1, 0, 2, 3>> ELSE <<1, 2, -1, 2, 0, 3>>,
        !.tableAt = CHOOSE a \in (at + 1) .. (at + 4) : a % 4 = 0]

BranchOps(kinds, at) ==
    {Jumping(c, "eq") : c \in {"goto", "goto_w"}}
    \cup IfMet("Int", kinds,
            {Jumping(c, x) : c \in {"if", "if_icmp"}, x \in {"eq", "ne", "lt", "ge", "gt", "le"}}
            \cup {Switch(c, at) : c \in {"tableswitch", "lookupswitch"}})
    \cup IfMet("Ref", kinds, {Jumping(c, x) : c \in {"ifnull", "if_acmp"}, x \in {"eq", "ne"}})

\* Every answer: a value, an exception that has a handler here, one that has none.
Thrown(op, caught) == [op EXCEPT !.throws = TRUE, !.caught = caught]
Returned(op, kind) == [op EXCEPT !.result = kind, !.value = 1, !.caught = TRUE]
Answers(op, kinds) == {Thrown(op, c) : c \in BOOLEAN} \cup {Returned(op, r) : r \in kinds}
WithAnswers(ops, kinds) == UNION {Answers(o, kinds) : o \in ops}

Nested == {[Op("multianewarray") EXCEPT !.dims = d] : d \in {1, 2}}
Calls(kinds) ==
    {Taking(c, ps) : c \in {"invokestatic", "invokespecial", "invokevirtual", "invokeinterface", "invokedynamic"},
                     ps \in {<<k>> : k \in kinds} \cup {<<k, l>> : k \in kinds \ {"Ref"}, l \in kinds \ {"Ref"}}}

Reads(kinds) == {Op("getfield"), Op("getstatic")} \cup IfMet("Int", kinds, {Op("xaload")})
News(kinds) == {Op("new")} \cup IfMet("Int", kinds, {Op("newarray"), Op("anewarray")} \cup Nested)
Lengths(kinds) == IfMet("Int", kinds, {Op("arraylength")})
Stores(kinds) ==
    {Typed(c, k) : c \in {"putfield", "putstatic"}, k \in kinds} \cup {Op("monitorenter"), Op("monitorexit")}
    \cup IfMet("Int", kinds, {Typed("xastore", k) : k \in kinds})
Checks == {[Op("checkcast") EXCEPT !.throws = t, !.caught = TRUE] : t \in BOOLEAN}
Throwers == {[Op("athrow") EXCEPT !.caught = c] : c \in BOOLEAN}

ObjectOps(kinds) ==
    IfMet("Ref", kinds,
        WithAnswers(Reads(kinds), kinds) \cup WithAnswers(News(kinds), {"Ref"}) \cup WithAnswers(Lengths(kinds), {"Int"})
        \cup WithAnswers(Stores(kinds), {"Void"}) \cup WithAnswers(Calls(kinds), kinds \cup {"Void"})
        \cup IfMet("Int", kinds, {Pushing("instanceof", v) : v \in {0, 1}}) \cup Checks \cup Throwers)

Ends(kinds) ==
    {Typed("xreturn", k) : k \in kinds} \cup {Op("return")}
    \cup {Op(c) : c \in {"wide", "jsr", "jsr_w", "ret", "breakpoint"}}

InstructionsOf(m, at) ==
    Constant(m) \cup LocalOps(m.kinds, m.locals)
    \cup (IF m.computes THEN ArithmeticOps(m.kinds, m.locals)
          ELSE {Op(c) : c \in IF m.locals = 0 THEN Java!StackCodes ELSE {}})
    \cup BranchOps(m.kinds, at) \cup ObjectOps(m.kinds) \cup Ends(m.kinds)
Instructions == [p \in Methods \X (0 .. 3) |-> InstructionsOf(p[1], p[2])]
-----------------------------------------------------------------------------
\* The arguments of the method, and the locals they fill.
Arguments(m) ==
    {<<>>} \cup {<<Java!Value(p[1], p[2])>> : p \in
        UNION {{k} \X Constants(k, m) : k \in {x \in m.kinds : Java!Category(x) <= m.locals}}}
    \cup {<<Java!Value(pair[1], 1), Java!Value(pair[2], 0)>> : pair \in
        {p \in m.kinds \X m.kinds : Java!SlotsOf(p) <= m.locals}}

\* The locals of the specification that hold args: each at the slots before it.
ArgumentLocals(args) ==
    LET at(i) == Java!SlotsOf(Java!Kinds(SubSeq(args, 1, i - 1)))
    IN  [k \in 0 .. (MaxLocals - 1) |->
            IF \E i \in DOMAIN args : at(i) = k THEN args[CHOOSE i \in DOMAIN args : at(i) = k]
            ELSE Java!Unusable]

InitActivation ==
    /\ method \in Methods
    /\ \E args \in Arguments(method) :
          /\ Init(args)
          /\ java = [stack |-> <<>>, locals |-> ArgumentLocals(args), pc |-> 0, outcome |-> Running]

\* Only the instructions that copy go beyond the window of the method.
WithinWindow(op) ==
    LET after == Java!SlotsOf(Java!Kinds(java'.stack))
    IN  op.code \in Java!StackCodes \/ after <= method.window \/ Len(java'.stack) < Len(java.stack)

NextInstruction ==
    /\ outcome = Running
    /\ \E op \in Instructions[<<method, pc>>] :
          /\ Java!Admits(op, java)
          /\ java' = Java!Exec(op, java) /\ WithinWindow(op)
          /\ Dispatch(op)
    /\ UNCHANGED method

Spec == InitActivation /\ [][NextInstruction]_allVars
-----------------------------------------------------------------------------
\* What the program gives up on: opcodes and constants it does not serve.
Refused == outcome.how \in {"UnsupportedOpcode", "BadConstant"}

Expanded(stack) ==
    LET expanded[n \in 0 .. Len(stack)] == IF n = 0 THEN <<>> ELSE expanded[n - 1] \o SlotsFor(stack[n])
    IN  expanded[Len(stack)]

\* Slot by slot the operand stack is the stack of the specification, whatever mixture
\* of one-slot and two-slot values the dup, pop and swap instructions moved, and every
\* local the specification lets be read holds its value: no verified instruction fails
\* with FrameError, overwrites its neighbour, or leaves operands behind an exception.
FrameIsJavas ==
    Refused \/ /\ outcome = java.outcome
               /\ outcome = Running =>
                     /\ frame.ok /\ frame.stack = Expanded(java.stack)
                     /\ \A i \in DOMAIN java.locals :
                           java.locals[i] # Java!Unusable => frame.locals[i] = java.locals[i]

\* Every instruction, at every alignment, leaves the program counter on the instruction
\* that follows: `dispatch' counts the bytes of an instruction as the opcode table
\* does, takes the branches and finds the entries of the switches.
StaysOnInstructions == Refused \/ outcome # Running \/ pc = java.pc
=============================================================================
