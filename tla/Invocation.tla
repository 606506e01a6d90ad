----------------------------- MODULE Invocation -----------------------------
(***************************************************************************)
(* Which method an invoke instruction runs, and on what                    *)
(* (src/src/runtime/interpreter/invoke.rs): invokestatic, invokespecial,   *)
(* invokevirtual and invokeinterface, and calls of the objects that        *)
(* invokedynamic makes of lambdas and method references.                   *)
(*                                                                         *)
(* A method is named by its signature.  An argument or a captured value is *)
(* a slot.  What runs inside the method is CallStack's business.           *)
(***************************************************************************)
EXTENDS Fields

CONSTANTS Box            \* the wrapper class, of the one primitive type "int"

\* The natives are registered under the class that declares them.
NativeRegistered(class, sig) == Loaded(class) /\ Declares(class, sig) /\ Method(class, sig).body = "native"

\* Run the method declared in `class' on `this'.  A native one is looked up under the name
\* `under'; one without code comes to `abstract'.
Runs(class, this, args) == [Result("runs", 0) EXCEPT !.class = class, !.this = this, !.args = args]
RunCallee(class, under, sig, this, args, abstract) ==
    CASE Method(class, sig).body = "code"     -> Runs(class, this, args)
      [] Method(class, sig).body = "native"   -> IF NativeRegistered(under, sig) THEN Runs(under, this, args)
                                                 ELSE Throws("UnsatisfiedLinkError")
      [] Method(class, sig).body = "abstract" -> abstract

Invokes(result) ==
    /\ Idle
    /\ answer' = result
    /\ heap' = IF result.new = NoClass THEN heap ELSE Append(heap, Instance(result.new))
    /\ UNCHANGED registryVars
-----------------------------------------------------------------------------
(* invokestatic *)

\* The interfaces of the class and its superclasses, each followed by what it extends.
RECURSIVE CollectInterfaces(_, _)
CollectInterfaces(start, out) ==
    LET add(met, i) == IF i \in ToSet(met) THEN met ELSE CollectInterfaces(i, Append(met, i))
        ofClass(met, c) == FoldLeft(add, met, Interfaces(c))
    IN  FoldLeft(ofClass, out, SuperChain(start))

\* The first to declare the method, the class and its superclasses before the interfaces.
FindStaticMethodOwner(start, sig) ==
    First(SuperChain(start) \o CollectInterfaces(start, <<>>), LAMBDA c : Loaded(c) /\ Declares(c, sig))

\* The class of the reference is the one initialized, and the one a native is looked up in.
InvokeStatic(ref, args) ==
    LET owner == FindStaticMethodOwner(ref.class, ref.sig)
    IN  /\ Loaded(ref.class)
        /\ Invokes(Initializing(IF owner = NoClass THEN BadConstant
                                ELSE RunCallee(owner, ref.class, ref.sig, NoReference, args, BadConstant),
                                ref.class))
-----------------------------------------------------------------------------
(* invokespecial: constructors, private methods, and methods of a superclass. *)
(* The receiver may be null.                                                   *)

SpecialTarget(class, sig) ==
    IF FindExactMethod(class, sig) # NoClass /\ (sig = "<init>" \/ Method(class, sig).access = "private")
    THEN class
    ELSE IF sig = "<init>" THEN NoClass
    ELSE FindVirtualMethod(class, sig)

InvokeSpecial(o, ref, args) ==
    LET target == SpecialTarget(ref.class, ref.sig)
    IN  Invokes(IF ref.sig = "<init>" /\ ~Loaded(ref.class) THEN Value(0)
                ELSE IF target = NoClass THEN BadConstant
                ELSE RunCallee(target, target, ref.sig, o, args, BadConstant))
-----------------------------------------------------------------------------
(* Lambdas.  The object keeps the method it stands for: its class, signature, *)
(* parameter and return types, the kind of reference, and the captured values. *)

InstanceKinds == {"invokeVirtual", "invokeSpecial", "invokeInterface"}

\* invokedynamic with LambdaMetafactory: the bootstrap method does not run.
BuildLambda(impl, sam, captures) ==
    /\ Idle
    /\ heap' = Append(heap, [kind |-> "lambda", impl |-> impl, sam |-> sam, captures |-> captures])
    /\ UNCHANGED <<registryVars, answer>>

\* A reference where the method takes a primitive is unboxed; nothing else is converted.
Unboxes(arg, type) == arg.type = "ref" /\ type = "int"
UnboxFails(args, types) ==
    {i \in DOMAIN args \cap DOMAIN types : Unboxes(args[i], types[i]) /\ args[i].value = NoReference} # {}
AdaptLambdaArgs(args, types) ==
    [i \in DOMAIN args |->
        IF i \in DOMAIN types /\ Unboxes(args[i], types[i])
        THEN heap[args[i].value].slots[InstanceFieldByName(Box, "value")] ELSE args[i]]

\* A primitive where the caller takes a reference is boxed, and dropped where it takes nothing.
AdaptLambdaReturn(result, implReturns, samReturns) ==
    IF result.how # "runs" THEN result
    ELSE [result EXCEPT !.returns = CASE samReturns = "void" /\ implReturns # "void" -> "dropped"
                                      [] implReturns = "int" /\ samReturns = "ref" -> "boxed"
                                      [] OTHER -> "as it is"]

\* Runs the method the lambda stands for, whatever method of it is called.
DispatchLambda(lambda, args, returns) ==
    LET impl     == lambda.impl
        combined == lambda.captures \o args
        receiver == combined[1].value
        instance == impl.kind \in InstanceKinds
        target   == IF instance THEN ResolveDispatch(heap[receiver].class, impl.sig)
                    ELSE FindExactMethod(impl.class, impl.sig)
        rest     == IF instance THEN Tail(combined) ELSE combined
        adapted  == AdaptLambdaArgs(rest, impl.types)
    IN  Initializing(
          CASE impl.kind = "newInvokeSpecial" ->
                 IF target = NoClass THEN BadConstant
                 ELSE [Runs(target, Len(heap) + 1, combined) EXCEPT !.new = target]
            [] instance /\ (receiver = NoReference \/ heap[receiver].kind # "instance") -> BadConstant
            [] OTHER ->
                 IF target = NoClass THEN BadConstant
                 ELSE IF UnboxFails(rest, impl.types) THEN Throws("NullPointerException")
                 ELSE AdaptLambdaReturn(
                        RunCallee(target, impl.class, impl.sig, IF instance THEN receiver ELSE NoReference,
                                  adapted, BadConstant), impl.returns, returns),
          impl.class)
-----------------------------------------------------------------------------
(* invokevirtual and invokeinterface: the class of the object decides, not the *)
(* one the reference names.                                                     *)

\* What an array answers itself, of the methods it inherits.
ArrayObjectMethods == {"clone()", "getClass()", "hashCode()", "equals()"}
DispatchArrayObjectMethod(o, sig) ==
    IF sig \in ArrayObjectMethods THEN Runs(Object, o, <<>>) ELSE BadConstant

DispatchOn(o, sig, args) ==
    LET target == ResolveDispatch(heap[o].class, sig)
    IN  IF target = NoClass THEN Throws("AbstractMethodError")
        ELSE RunCallee(target, target, sig, o, args, Throws("AbstractMethodError"))

\* `ref' has the method's signature and return type too.
InvokeVirtual(o, ref, args) ==
    Invokes(CASE o = NoReference           -> Throws("NullPointerException")
              [] o # NoReference /\ heap[o].kind = "array"  -> DispatchArrayObjectMethod(o, ref.sig)
              [] o # NoReference /\ heap[o].kind = "lambda" -> DispatchLambda(heap[o], args, ref.returns)
              [] OTHER                     -> DispatchOn(o, ref.sig, args))

\* The same, whatever the interface of the reference.
InvokeInterface(o, ref, args) == InvokeVirtual(o, ref, args)
=============================================================================
