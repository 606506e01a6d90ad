------------------------------ MODULE Opcodes -------------------------------
(***************************************************************************)
(* The table of operand layouts (src/src/bytecode/opcode.rs).  Nothing in  *)
(* the interpreter reads it: `dispatch' counts the bytes of every          *)
(* instruction by itself, so the two must agree.                           *)
(*                                                                         *)
(* One name stands for the opcodes that differ only in a type or in a      *)
(* number: "load_n" for iload_0 .. aload_3, "add" for iadd .. dadd.        *)
(***************************************************************************)
EXTENDS Naturals

\* Formats, and the length of an instruction of each, its opcode included; an
\* instruction of a variable format has no length in the table.
LengthOfFormat(format) ==
    CASE format = "None" -> 1
      [] format = "U1" -> 2
      [] format \in {"S2", "U2", "Branch", "Iinc"} -> 3
      [] format = "Multianewarray" -> 4
      [] format \in {"BranchWide", "InvokeInterface", "InvokeDynamic"} -> 5
      [] format = "Variable" -> 0

\* From nop to aload_3 and the loads from arrays.
ConstantsAndLoads(code) ==
    CASE code \in {"nop", "aconst_null", "iconst", "lconst", "fconst", "dconst", "load_n", "xaload"} -> "None"
      [] code \in {"bipush", "ldc", "load"} -> "U1"
      [] code = "sipush" -> "S2"
      [] code \in {"ldc_w", "ldc2_w"} -> "U2"
      [] OTHER -> ""

\* From the stores to swap.
StoresAndStack(code) ==
    CASE code \in {"store_n", "xastore", "pop", "pop2", "dup", "dup_x1", "dup_x2",
                   "dup2", "dup2_x1", "dup2_x2", "swap"} -> "None"
      [] code = "store" -> "U1"
      [] OTHER -> ""

\* From iadd to dcmpg.
Computations(code) ==
    CASE code \in {"add", "sub", "mul", "div", "rem", "neg", "shl", "shr", "ushr", "and", "or", "xor",
                   "convert", "cmp", "cmpl", "cmpg"} -> "None"
      [] code = "iinc" -> "Iinc"
      [] OTHER -> ""

\* From ifeq to return, and the branches at the end of the table.
Branches(code) ==
    CASE code \in {"if", "if_icmp", "if_acmp", "goto", "jsr", "ifnull"} -> "Branch"
      [] code \in {"goto_w", "jsr_w"} -> "BranchWide"
      [] code \in {"tableswitch", "lookupswitch", "wide"} -> "Variable"
      [] code \in {"xreturn", "return", "breakpoint"} -> "None"
      [] code = "ret" -> "U1"
      [] OTHER -> ""

\* From getstatic to monitorexit.
Objects(code) ==
    CASE code \in {"getstatic", "putstatic", "getfield", "putfield", "invokevirtual", "invokespecial",
                   "invokestatic", "new", "anewarray", "checkcast", "instanceof"} -> "U2"
      [] code = "newarray" -> "U1"
      [] code = "multianewarray" -> "Multianewarray"
      [] code = "invokeinterface" -> "InvokeInterface"
      [] code = "invokedynamic" -> "InvokeDynamic"
      [] code \in {"arraylength", "athrow", "monitorenter", "monitorexit"} -> "None"
      [] OTHER -> ""

\* The format of a code is that of the section where it is.
Format(code) ==
    CASE ConstantsAndLoads(code) # "" -> ConstantsAndLoads(code)
      [] StoresAndStack(code) # ""    -> StoresAndStack(code)
      [] Computations(code) # ""      -> Computations(code)
      [] Branches(code) # ""          -> Branches(code)
      [] Objects(code) # ""           -> Objects(code)

Length(code) == LengthOfFormat(Format(code))
=============================================================================
