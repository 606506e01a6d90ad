--------------------------- MODULE MethodHandles ---------------------------
(***************************************************************************)
(* Calls of method handles (src/src/runtime/interpreter/invoke.rs).  The   *)
(* Java library builds a handle and its LambdaForm, a list of names that   *)
(* are either parameters or nodes, each a member applied to earlier names  *)
(* and literals; the virtual machine interprets the form.                  *)
(*                                                                         *)
(* A MemberName is an object with a member: class, name or signature, kind *)
(* of reference and, of a field, the type.  The forms considered run at    *)
(* most one method, in their last node: direct handles, and handles that   *)
(* convert or bind arguments around one.                                   *)
(***************************************************************************)
EXTENDS Invocation

CONSTANTS MethodHandle, DirectMethodHandle   \* the classes of the library

IsMethodHandle(class) == MethodHandle \in ToSet(SuperChain(class))
IsDirectMethodHandle(class) == DirectMethodHandle \in ToSet(SuperChain(class))
FieldKinds == {"getField", "putField", "getStatic", "putStatic"}
-----------------------------------------------------------------------------
(* Methods by MemberName. *)

\* What local 0 holds when nothing was stored there.
Unset == -1

\* A virtual or interface method is searched from the class of the receiver, the others
\* from the class of the member, each in the way of a virtual call.  A native method is
\* looked up in the class where the search began.  The frame of a constructor is filled
\* like that of a static method.
RunFound(target, begin, m, this, args) ==
    IF target = NoClass THEN Throws("NoSuchMethodError")
    ELSE RunCallee(target, begin, m.name, this, args, Throws("AbstractMethodError"))
RunFrom(begin, m, this, args) == RunFound(ResolveDispatch(begin, m.name), begin, m, this, args)

InvokeOn(m, receiver, args) ==
    LET virtual == m.kind \in {"invokeVirtual", "invokeInterface"}
    IN  IF receiver = NoReference THEN Throws("NullPointerException")
        ELSE IF virtual /\ heap[receiver].kind # "instance" THEN BadConstant
        ELSE RunFrom(IF virtual THEN heap[receiver].class ELSE m.class, m, receiver, args)
FilledLikeStatic(result, m, args) ==
    IF m.kind = "invokeStatic" THEN result
    ELSE [result EXCEPT !.this = IF args = <<>> THEN Unset ELSE args[1].value,
                        !.args = IF args = <<>> THEN <<>> ELSE Tail(args),
                        !.new = m.class]
InvokeMethodRef(m, args) ==
    IF m.kind \in {"invokeStatic", "newInvokeSpecial"}
    THEN Initializing(FilledLikeStatic(RunFrom(m.class, m, NoReference, args), m, args), m.class)
    ELSE InvokeOn(m, args[1].value, Tail(args))

\* Nodes read fields; the handles of fields are not interpreted.
AsSlot(result, type) == IF result.how = "value" THEN [result EXCEPT !.value = Slot(type, @)] ELSE result
InvokeMemberName(m, args) ==
    IF m.kind = "getField" THEN AsSlot(ReadByName(args[1].value, m), m.type) ELSE InvokeMethodRef(m, args)

-----------------------------------------------------------------------------
(* LambdaForms: arity, the index of the result (or VoidResult) and the nodes. *)
(* The names are counted from 0, name 0 is the handle itself.                  *)

VoidResult == -1

\* A literal is an object: a box is opened.
UnboxLiteral(r) ==
    IF heap[r].kind = "instance" /\ heap[r].class = Box
    THEN Value(heap[r].slots[InstanceFieldByName(Box, "value")]) ELSE BadConstant
ResolveNameArgument(arg, values) ==
    CASE arg.is = "name"    -> Value(values[arg.at + 1])
      [] arg.is = "literal" -> IF arg.at = NoReference THEN Value(Slot("ref", NoReference)) ELSE UnboxLiteral(arg.at)

\* linkTo calls the member its last argument names.
IsNamed(m, class, name) == m.class = class /\ m.name = name
LinkToMember(m, args) == IF IsNamed(m, MethodHandle, "linkTo") THEN heap[Last(args).value].member ELSE m
LinkedArguments(m, args) == IF IsNamed(m, MethodHandle, "linkTo") THEN Front(args) ELSE args

\* A node applies a member; it may be one of those the machine knows by name.
RECURSIVE InterpretLambdaForm(_, _)
ApplyNode(m, args) ==
    CASE IsNamed(m, DirectMethodHandle, "internalMemberName") -> Value(Slot("ref", heap[args[1].value].member))
      [] IsNamed(m, MethodHandle, "invokeBasic") ->
           IF args[1].value = NoReference THEN BadConstant ELSE InterpretLambdaForm(args[1].value, Tail(args))
      [] OTHER -> InvokeMemberName(LinkToMember(m, args), LinkedArguments(m, args))
ApplyResolved(m, resolved) ==
    IF \E i \in DOMAIN resolved : resolved[i].how # "value" THEN BadConstant
    ELSE ApplyNode(m, [i \in DOMAIN resolved |-> resolved[i].value])
EvalComputeNode(node, values) ==
    ApplyResolved(node.member, [i \in DOMAIN node.args |-> ResolveNameArgument(node.args[i], values)])

\* Ends at the first node that runs a method or fails.  Values are slots here.
Advance(at, result) ==
    IF result.how = "value" THEN [at EXCEPT !.values = Append(@, result.value)] ELSE [at EXCEPT !.ends = result]
RECURSIVE EvalNodes(_, _)
EvalNodes(at, nodes) ==
    IF nodes = <<>> \/ at.ends # NoAnswer THEN at
    ELSE EvalNodes(Advance(at, EvalComputeNode(nodes[1], at.values)), Tail(nodes))
FormResult(final, result) ==
    CASE final.ends # NoAnswer          -> final.ends
      [] final.ends = NoAnswer /\ result = VoidResult -> Value(Slot("void", 0))
      [] OTHER -> IF result >= Len(final.values) THEN BadConstant ELSE Value(final.values[result + 1])
InterpretLambdaForm(mh, args) ==
    LET form == heap[mh].form
    IN  IF Len(args) < form.arity - 1 THEN BadConstant
        ELSE FormResult(EvalNodes([values |-> <<Slot("ref", mh)>> \o SubSeq(args, 1, form.arity - 1),
                                   ends |-> NoAnswer], form.nodes),
                        form.result)
-----------------------------------------------------------------------------
\* The handle of a field accesses it; the result of any other is that of its form.
Unwrap(result) == IF result.how = "value" THEN [result EXCEPT !.value = @.value] ELSE result
DispatchMethodHandleField(m, args) ==
    \/ m.kind = "getField" /\ AccessInstanceFieldGet(args[1].value, m)
    \/ m.kind = "putField" /\ AccessInstanceFieldPut(args[1].value, m, args[2].value)
    \/ m.kind = "getStatic" /\ AccessStaticFieldGet(m)
    \/ m.kind = "putStatic" /\ AccessStaticFieldPut(m, args[1].value)

InvokeHandle(mh, args) ==
    LET direct == IsDirectMethodHandle(heap[mh].class)
        m      == heap[heap[mh].member].member
    IN  IF direct /\ m.kind \in FieldKinds THEN DispatchMethodHandleField(m, args)
        ELSE Invokes(Unwrap(InterpretLambdaForm(mh, args)))

\* invoke, invokeExact and invokeBasic of a handle, and every other virtual call.
SignaturePolymorphic == {"invoke()", "invokeExact()", "invokeBasic()"}
CallsAHandle(o, sig) ==
    /\ sig \in SignaturePolymorphic /\ o # NoReference
    /\ heap[o].kind = "instance" /\ IsMethodHandle(heap[o].class)
InvokeVirtualOrHandle(o, ref, args) ==
    IF CallsAHandle(o, ref.sig) THEN InvokeHandle(o, args) ELSE InvokeVirtual(o, ref, args)
=============================================================================
