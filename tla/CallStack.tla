----------------------------- MODULE CallStack -----------------------------
(***************************************************************************)
(* Calls and exceptions of one thread (mod.rs, invoke.rs, exception.rs,    *)
(* clinit.rs, exceptions.rs, natives of reflection).  Every activation is  *)
(* a call of the Rust function interpret_with or native::invoke, and three *)
(* things have to keep up with that nesting: call_stack, from which stack  *)
(* traces and caller classes are read; frame_depth, which stands for the   *)
(* native stack; and the exception on its way out, searching the table of  *)
(* each activation as it leaves it.                                        *)
(*                                                                         *)
(* What an instruction computes is left out: an activation may branch,     *)
(* call, return or throw at any pc.  The kinds of activation differ in     *)
(* what their callers do around interpret_with:                            *)
(*   entry      the outermost: run of a thread, a method of the boot code  *)
(*   method     invokestatic, -special, -virtual, -interface, lambdas      *)
(*   clinit     a class initializer                                        *)
(*   native     a Rust function                                            *)
(*   reflected  what Method.invoke0 and Constructor.newInstance0 call      *)
(*   handle     what a method handle calls                                 *)
(*                                                                         *)
(* A definition named after the one below it is that one with a fault a    *)
(* programmer could have made.                                             *)
(***************************************************************************)
EXTENDS Integers, Sequences, SequencesExt, FiniteSets

CONSTANTS
  Methods,
  Pcs,         \* the instructions of every method, from 0
  Table,       \* Table[m]: Code.exception_table, entries [covers, catches, handler]
  StackLimit,  \* ThreadContext.stack_limit
  MaxFrames    \* bound: how many activations there may be at a time

Classes == {"Exception", "StackOverflowError", "NoClassDefFoundError",
            "ExceptionInInitializerError", "InvocationTargetException"}

Handlers == [covers : SUBSET Pcs, catches : SUBSET Classes, handler : Pcs]

ASSUME CallStackAssumption ==
  /\ 0 \in Pcs /\ Pcs \subseteq Nat
  /\ Table \in [Methods -> Seq(Handlers)]
  /\ StackLimit \in Nat
  /\ MaxFrames \in Nat

VARIABLES
  frames,     \* activations, outermost first: [kind, method, pc]
  callStack,  \* ThreadContext.call_stack: Seq of [method, pc]
  depth,      \* ThreadContext.frame_depth
  signal,     \* the Err on its way out, or Quiet
  held        \* the exception caught last, while frames[held.by] has it

vars == <<frames, callStack, depth, signal, held>>

\* A Java exception is its class and the trace recorded when it was created.
Entries == [method : Methods, pc : Pcs]
Exceptions == [class : Classes, trace : Seq(Entries)]
Quiet == [class |-> "none", trace |-> <<>>]
Fault == [class |-> "fault", trace |-> <<>>]  \* any VmError but ThrownException
NothingHeld == [by |-> 0, exception |-> Quiet]

Init ==
  /\ frames = <<>>
  /\ callStack = <<>>
  /\ depth = 0
  /\ signal = Quiet
  /\ held = NothingHeld

-----------------------------------------------------------------------------
Kinds == {"entry", "method", "clinit", "native", "reflected", "handle"}
Named == {"method", "clinit", "native"}  \* given an identity, so pushed on call_stack
Counted == {"method", "clinit"}          \* called through run_with_depth

Top == Last(frames)
Interpreting == frames # <<>> /\ Top.kind # "native" /\ signal = Quiet

SetFirstFramePc(s, p) == IF s = <<>> THEN s ELSE [s EXCEPT ![1].pc = p]

\* ThreadContext::set_top_frame_pc, on the stack s.
SetTopFramePc(s, p) == IF s = <<>> THEN s ELSE [s EXCEPT ![Len(s)].pc = p]

\* throw_exception: record_trace copies the call stack as it is now.
Thrown(c, s) == [class |-> c, trace |-> s]

\* The caller's Rust function enters interpret_with or native::invoke.
Push(kind, m) ==
  /\ Len(frames) < MaxFrames
  /\ frames' = Append(frames, [kind |-> kind, method |-> m, pc |-> 0])
  /\ callStack' = IF kind \in Named
                  THEN Append(callStack, [method |-> m, pc |-> 0])
                  ELSE SetTopFramePc(callStack, 0)
  /\ UNCHANGED <<signal, held>>

-----------------------------------------------------------------------------
\* A thread, or the boot code, calls a method from Rust.
Enter(m) ==
  /\ frames = <<>>
  /\ signal = Quiet
  /\ Push("entry", m)
  /\ UNCHANGED depth

\* The outermost call returned an error; its caller reports it and goes on,
\* with dispatchUncaughtException for instance.
Report ==
  /\ frames = <<>>
  /\ signal # Quiet
  /\ signal' = Quiet
  /\ UNCHANGED <<frames, callStack, depth, held>>

\* One turn of the loop in run: the next instruction is at p.
Execute(p) ==
  /\ Interpreting
  /\ frames' = [frames EXCEPT ![Len(frames)].pc = p]
  /\ callStack' = SetTopFramePc(callStack, p)
  /\ UNCHANGED <<depth, signal, held>>

Invoke(m) ==
  /\ Interpreting
  /\ depth < StackLimit
  /\ Push("method", m)
  /\ depth' = depth + 1

InvokeNative(m) ==
  /\ Interpreting
  /\ Push("native", m)
  /\ UNCHANGED depth

\* invoke_method_native, new_instance_native: inside a native function.
InvokeReflected(m) ==
  /\ frames # <<>> /\ Top.kind = "native" /\ signal = Quiet
  /\ Push("reflected", m)
  /\ UNCHANGED depth

\* invoke_method_ref, while an instruction interprets a method handle.
InvokeHandle(m) ==
  /\ Interpreting
  /\ Push("handle", m)
  /\ UNCHANGED depth

RunClinitUnlimited(m) ==
  /\ signal = Quiet
  /\ Push("clinit", m)
  /\ depth' = depth + 1

\* ensure_class_initialized, from an instruction, a native function or the
\* boot code.
RunClinit(m) ==
  /\ signal = Quiet
  /\ depth < StackLimit
  /\ Push("clinit", m)
  /\ depth' = depth + 1

\* run_with_depth refuses to call.
OverflowInvoke ==
  /\ Interpreting
  /\ depth >= StackLimit
  /\ signal' = Thrown("StackOverflowError", callStack)
  /\ UNCHANGED <<frames, callStack, depth, held>>

\* The same below ensure_class_initialized, which takes it for the outcome of
\* the initializer.
OverflowClinit ==
  /\ signal = Quiet
  /\ depth >= StackLimit
  /\ signal' = Thrown("ExceptionInInitializerError", callStack)
  /\ UNCHANGED <<frames, callStack, depth, held>>

\* A new exception: by the program (whose constructor calls fillInStackTrace),
\* or by the VM.
Throw(c) ==
  /\ frames # <<>> /\ signal = Quiet
  /\ signal' = Thrown(c, callStack)
  /\ UNCHANGED <<frames, callStack, depth, held>>

\* athrow of the exception this activation caught.
Rethrow ==
  /\ Interpreting
  /\ held.by = Len(frames)
  /\ signal' = held.exception
  /\ UNCHANGED <<frames, callStack, depth, held>>

\* Unsupported opcode, bad constant pool entry, ...
Fail ==
  /\ frames # <<>> /\ signal = Quiet
  /\ signal' = Fault
  /\ UNCHANGED <<frames, callStack, depth, held>>

-----------------------------------------------------------------------------
\* find_handler for the exception on its way out, in the topmost activation:
\* the entries of its table that match.
Matching ==
  IF Top.kind = "native" THEN {}
  ELSE {i \in 1..Len(Table[Top.method]) :
          /\ Top.pc \in Table[Top.method][i].covers
          /\ signal.class \in Table[Top.method][i].catches}

\* The first of them wins.  (run clears the operands and goes to its handler;
\* finish_invoke, which looks for the same entry at the same pc, does so for it.)
Catch ==
  /\ frames # <<>> /\ signal \in Exceptions
  /\ \E i \in Matching :
       /\ \A j \in Matching : i <= j
       /\ LET h == Table[Top.method][i].handler
          IN /\ frames' = [frames EXCEPT ![Len(frames)].pc = h]
             /\ callStack' = SetTopFramePc(callStack, h)
  /\ signal' = Quiet
  /\ held' = [by |-> Len(frames), exception |-> signal]
  /\ UNCHANGED depth

IsInitFailure(c) == c \in {"ExceptionInInitializerError", "NoClassDefFoundError"}
WrapInInitializerError(s) == Thrown("ExceptionInInitializerError", s)
WrapInInvocationTarget(s) == Thrown("InvocationTargetException", s)

\* What a call returns when the activation it made ends, with the call stack s.
WrappedTwice(kind, s) ==
  IF signal \notin Exceptions THEN signal
  ELSE CASE kind = "reflected" -> WrapInInvocationTarget(s)
         [] kind = "clinit" -> WrapInInitializerError(s)
         [] OTHER -> signal
Passed(kind, s) ==
  IF signal \notin Exceptions THEN signal
  ELSE CASE kind = "reflected" -> WrapInInvocationTarget(s)
         [] kind = "clinit" /\ ~IsInitFailure(signal.class) -> WrapInInitializerError(s)
         [] OTHER -> signal

\* pop_frame, when interpret_with or native::invoke pushed one.
Popped(kind) == IF kind \in Named THEN Front(callStack) ELSE callStack

\* run_with_depth, after the call.
DepthKeptOnError(kind) == IF kind \in Counted /\ signal = Quiet THEN depth - 1 ELSE depth
DepthAfter(kind) == IF kind \in Counted THEN depth - 1 ELSE depth

\* The topmost activation ends, with a value or with the signal.
End ==
  /\ frames # <<>>
  /\ signal \in Exceptions => Matching = {}
  /\ frames' = Front(frames)
  /\ callStack' = Popped(Top.kind)
  /\ depth' = DepthAfter(Top.kind)
  /\ signal' = Passed(Top.kind, Popped(Top.kind))
  /\ held' = IF held.by = Len(frames) THEN NothingHeld ELSE held

Next ==
  \/ \E m \in Methods :
       \/ Enter(m) \/ Invoke(m) \/ InvokeNative(m)
       \/ InvokeReflected(m) \/ InvokeHandle(m) \/ RunClinit(m)
  \/ \E p \in Pcs : Execute(p)
  \/ \E c \in {"Exception", "NoClassDefFoundError"} : Throw(c)
  \/ OverflowInvoke \/ OverflowClinit \/ Rethrow \/ Fail
  \/ Catch \/ End \/ Report

Spec == Init /\ [][Next]_vars

-----------------------------------------------------------------------------
(* What holds in every state. *)

\* The variables have their types.
TypeOK ==
  /\ frames \in Seq([kind : Kinds, method : Methods, pc : Pcs])
  /\ callStack \in Seq(Entries)
  /\ depth \in 0..StackLimit
  /\ signal \in Exceptions \cup {Quiet, Fault}
  /\ held \in [by : 1..Len(frames), exception : Exceptions] \cup {NothingHeld}

\* How many of the outermost i activations of s are of these kinds.
CountTo(s, i, kinds) == Cardinality({j \in 1..i : s[j].kind \in kinds})

\* call_stack lists the activations that have a name and frame_depth counts
\* those that run_with_depth let in, on every way out of them: so a thread that
\* survives an exception has its depth back, and a trace names who is there.
StacksAgree ==
  /\ Len(callStack) = CountTo(frames, Len(frames), Named)
  /\ \A i \in 1..Len(frames) : frames[i].kind \in Named =>
       callStack[CountTo(frames, i, Named)].method = frames[i].method
  /\ depth = CountTo(frames, Len(frames), Counted)

\* An exception that leaves an activation was created in it or above it, and
\* whatever happened in between, handlers and rethrowing included, the callers
\* are still where its trace says they were (the topmost entry apart, whose pc
\* moves on, and which an activation without a name writes its own pc to).
TraceHasTheCallers ==
  signal \in Exceptions =>
    LET n == Len(callStack)
    IN /\ n <= Len(signal.trace)
       /\ \A i \in 1..n : signal.trace[i].method = callStack[i].method
       /\ \A i \in 1..n - 1 : signal.trace[i] = callStack[i]

-----------------------------------------------------------------------------
(* The activations as Java sees them: where the exception on its way will  *)
(* have landed.                                                            *)
Java == INSTANCE JavaUnwinding WITH stack <- <<>>

JavaStack ==
  CASE signal = Quiet -> frames
    [] signal = Fault -> <<>>
    [] OTHER -> Java!Landed(frames, signal.class)

Unwinding == INSTANCE JavaUnwinding WITH stack <- JavaStack

\* Frame by frame, and with the class converted on the way, an exception
\* reaches the handler Java prescribes: the innermost in force, first entry
\* first, for the class it has there; and nothing else ends an activation.
ImplementsUnwinding == Unwinding!Spec
=============================================================================
