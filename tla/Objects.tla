------------------------------- MODULE Objects -------------------------------
(***************************************************************************)
(* A program at work on objects, beside what Java makes of the same        *)
(* instructions: every request is put to the interpreter (MethodHandles    *)
(* and the modules below it) and to JavaClasses, with fields that belong   *)
(* to the class that declares them.                                        *)
(*                                                                         *)
(* A program uses references to fields, methods and types, the classes it  *)
(* instantiates and defines, its lambdas and calls.                        *)
(***************************************************************************)
EXTENDS MethodHandles

CONSTANTS Programs,      \* programs: class files, those set up, the initial heap, and what they use
          Values         \* what is written to fields

VARIABLES program,       \* what the program that runs uses
          javaFields,    \* of every object: value of each field, by declaring class, name, type
          javaStatics,   \* of every static field, by declaring class and name
          expected,      \* what Java answers to the last request
          disorder,      \* classes defined twice, or before their superclass
          reasons        \* why the answer to the last request may differ

vars == <<objectVars, program, javaFields, javaStatics, expected, disorder, reasons>>
J == INSTANCE JavaClasses

FieldKeys(c) == UNION {{<<d, files[d].fields[i].name, files[d].fields[i].type>> :
                          i \in {k \in DOMAIN files[d].fields : ~files[d].fields[k].static}} : d \in ToSet(J!Chain(c))}
Fresh(o) == IF "class" \in DOMAIN o /\ o.class \in DOMAIN files THEN [k \in FieldKeys(o.class) |-> 0] ELSE <<>>
StaticKeys == UNION {{<<d, files[d].fields[i].name>> :
                        i \in {k \in DOMAIN files[d].fields : files[d].fields[k].static}} : d \in DOMAIN files}

Init ==
    /\ \E p \in Programs :
          /\ program = p.uses /\ files = p.files /\ heap = p.heap
          /\ classes = [c \in p.setup |-> FromClassFile(c)]
    /\ runtimeClasses = <<>>
    /\ defining = [t \in Definers |-> NoClass]
    /\ answer = NoAnswer
    /\ javaFields = [o \in DOMAIN heap |->
                       [k \in DOMAIN Fresh(heap[o]) |-> IF heap[o].class = Box THEN heap[o].slots[1].value ELSE 0]]
    /\ javaStatics = [k \in StaticKeys |-> 0]
    /\ expected = NoAnswer /\ disorder = {} /\ reasons = {}

Objects == DOMAIN heap
Nullable == {NoReference} \cup Objects
Allocates == Len(heap) < program.room
Quiet == UNCHANGED <<program, javaFields, javaStatics, disorder>>

\* Reasons for which the answer is not Java's: those of the set that apply.
Because(applies) == {r \in DOMAIN applies : applies[r]}
-----------------------------------------------------------------------------
(* Definition, and instantiation. *)

DefinesOne(t) ==
    /\ Idle
    /\ \/ \E c \in program.defines : DefineFinds(t, c) /\ UNCHANGED disorder
       \/ /\ DefineInserts(t)
          /\ disorder' = disorder \cup (IF Loaded(defining[t]) \/ ~Loaded(Super(defining[t])) THEN {defining[t]} ELSE {})
    /\ UNCHANGED <<heap, answer, program, javaFields, javaStatics, expected, reasons>>

Instantiates(c) ==
    /\ Allocates /\ New(c)
    /\ javaFields' = Append(javaFields, [k \in FieldKeys(c) |-> 0])
    /\ UNCHANGED <<program, javaStatics, expected, disorder, reasons>>

Disordered(c) == ToSet(J!Chain(c)) \cap disorder # {}
-----------------------------------------------------------------------------
(* Fields *)

Declarer(ref) == J!ResolveField(ref.class, ref.name, ref.type)
HasKey(o, ref) == o # NoReference => <<Declarer(ref), ref.name, ref.type>> \in DOMAIN javaFields[o]
JavaGets(o, key) == IF o = NoReference THEN Throws("NullPointerException") ELSE Value(javaFields[o][key])
JavaPuts(o, key, v) ==
    /\ expected' = IF o = NoReference THEN Throws("NullPointerException") ELSE Value(v)
    /\ javaFields' = IF o = NoReference THEN javaFields ELSE [javaFields EXCEPT ![o][key] = v]

\* Two instance fields of the class and its superclasses that the lookup cannot tell apart.
Hides(c, Same(_, _)) == \E k1, k2 \in FieldKeys(c) : k1 # k2 /\ Same(k1, k2)
HidesField(o, ref) ==
    o # NoReference /\ Hides(heap[o].class, LAMBDA k1, k2 : k1[2] = ref.name /\ k2[2] = ref.name /\ k1[3] = ref.type /\ k2[3] = ref.type)
HidesName(o, ref) == o # NoReference /\ Hides(heap[o].class, LAMBDA k1, k2 : k1[2] = ref.name /\ k2[2] = ref.name)
OutOfOrder(o) == o # NoReference /\ Disordered(heap[o].class)

\* The handles of the fields of a kind, and a call of one.
MemberOf(mh) == heap[heap[mh].member].member
Handles == {o \in Objects : "form" \in DOMAIN heap[o]}
FieldHandles(kind) == {mh \in Handles : heap[mh].member # NoReference /\ MemberOf(mh).kind = kind}
Exactly(sig) == [class |-> MethodHandle, sig |-> sig, returns |-> "as it is"]
CallsFieldHandle(mh, args) == InvokeVirtualOrHandle(mh, Exactly("invokeExact()"), args)

FieldReasons(o, ref, sameName) ==
    Because([hiddenFieldSharesSlot |-> HidesField(o, ref), hiddenNameSharesSlot |-> sameName /\ HidesName(o, ref),
             definedOutOfOrder |-> OutOfOrder(o) \/ Disordered(ref.class)])

GetsField(o, ref) ==
    /\ HasKey(o, ref) /\ GetField(o, ref)
    /\ expected' = JavaGets(o, <<Declarer(ref), ref.name, ref.type>>)
    /\ reasons' = FieldReasons(o, ref, FieldHandles("putField") # {}) /\ Quiet

PutsField(o, ref, v) ==
    /\ HasKey(o, ref) /\ PutField(o, ref, v)
    /\ JavaPuts(o, <<Declarer(ref), ref.name, ref.type>>, v)
    /\ reasons' = FieldReasons(o, ref, FieldHandles("putField") # {})
    /\ UNCHANGED <<program, javaStatics, disorder>>

GetsThroughHandle(mh, o) ==
    LET ref == MemberOf(mh)
    IN  /\ HasKey(o, ref) /\ CallsFieldHandle(mh, <<Slot("ref", o)>>)
        /\ expected' = JavaGets(o, <<ref.class, ref.name, ref.type>>)
        /\ reasons' = FieldReasons(o, ref, TRUE) /\ Quiet

PutsThroughHandle(mh, o, v) ==
    LET ref == MemberOf(mh)
    IN  /\ HasKey(o, ref) /\ CallsFieldHandle(mh, <<Slot("ref", o), Slot(ref.type, v)>>)
        /\ JavaPuts(o, <<ref.class, ref.name, ref.type>>, v)
        /\ reasons' = FieldReasons(o, ref, TRUE)
        /\ UNCHANGED <<program, javaStatics, disorder>>
-----------------------------------------------------------------------------
(* Static fields *)

StaticReasons(ref) ==
    Because([inheritedStaticInitializesHeir |-> Declarer(ref) # ref.class,
             staticOfInterface |-> files[Declarer(ref)].interface /\ Declarer(ref) # ref.class,
             definedOutOfOrder |-> Disordered(ref.class)])

JavaGetsStatic(ref) ==
    /\ expected' = Initializing(Value(javaStatics[<<Declarer(ref), ref.name>>]), Declarer(ref))
    /\ reasons' = StaticReasons(ref) /\ Quiet
JavaPutsStatic(ref, v) ==
    /\ expected' = Initializing(Value(v), Declarer(ref))
    /\ javaStatics' = [javaStatics EXCEPT ![<<Declarer(ref), ref.name>>] = v]
    /\ reasons' = StaticReasons(ref)
    /\ UNCHANGED <<program, javaFields, disorder>>

GetsStatic(ref) == GetStatic(ref) /\ JavaGetsStatic(ref)
\* The fields of an interface are final.
PutsStatic(ref, v) == ~files[Declarer(ref)].interface /\ PutStatic(ref, v) /\ JavaPutsStatic(ref, v)
GetsStaticThroughHandle(mh) == CallsFieldHandle(mh, <<>>) /\ JavaGetsStatic(MemberOf(mh))
PutsStaticThroughHandle(mh, v) ==
    CallsFieldHandle(mh, <<Slot(MemberOf(mh).type, v)>>) /\ JavaPutsStatic(MemberOf(mh), v)
-----------------------------------------------------------------------------
(* Type checks *)

ChecksType(o, t) ==
    LET java == o # NoReference /\ J!Subtype(ObjectType(o), t)
    IN  /\ \/ InstanceOf(o, t) /\ expected' = Value(IF java THEN 1 ELSE 0)
           \/ CheckCast(o, t) /\ expected' = IF java \/ o = NoReference THEN Value(o) ELSE Throws("ClassCastException")
        /\ reasons' = Because([arraysOfArrayInterfaces |->
                                 /\ o # NoReference /\ t[2] \in ArrayInterfaces
                                 /\ ObjectType(o)[1] > t[1] /\ t[1] > 0])
        /\ Quiet
-----------------------------------------------------------------------------
(* Calls, beside the methods Java would run. *)

Instances == {o \in Objects : heap[o].kind = "instance" /\ o \notin Handles}

\* The outcome of J's selection: a declaring class, or an error.
JavaRuns(d, this, args) == IF d \in DOMAIN files THEN Runs(d, this, args) ELSE Throws(d)
ClassOf(o) == IF heap[o].kind = "array" THEN Object ELSE heap[o].class
Private(c, sig) == c \in DOMAIN files /\ J!Has(c, sig) /\ J!Method(c, sig).access = "private"
Native(c, sig) == c \in DOMAIN files /\ J!Has(c, sig) /\ J!Method(c, sig).body = "native"

Asks(java, why) == expected' = java /\ reasons' = Because(why)
MayAllocate == answer'.new = NoClass \/ Allocates
WithNew == /\ javaFields' = IF answer'.new = NoClass THEN javaFields
                            ELSE Append(javaFields, [k \in FieldKeys(answer'.new) |-> 0])
           /\ UNCHANGED <<program, javaStatics, disorder>>
-----------------------------------------------------------------------------
(* invokestatic, invokespecial *)

CallsStatic(ref, args) ==
    LET d == J!ResolveMethod(ref.class, ref.sig)
    IN  /\ InvokeStatic(ref, args)
        /\ Asks(Initializing(JavaRuns(d, NoReference, args), d),
                [inheritedStaticInitializesHeir |-> d # ref.class, definedOutOfOrder |-> Disordered(ref.class)])
        /\ Quiet

CallsSpecial(o, ref, args) ==
    LET d == IF ref.sig = "<init>" THEN ref.class ELSE J!SelectSpecial(ref.class, ref.sig)
    IN  /\ InvokeSpecial(o, ref, args)
        /\ Asks(IF o = NoReference THEN Throws("NullPointerException") ELSE JavaRuns(d, o, args),
                [specialCallOnNull |-> o = NoReference,
                 superCallOfDefault |-> ~\E c \in ToSet(J!Chain(ref.class)) : J!Has(c, ref.sig),
                 superCallOfAbstract |-> d \notin DOMAIN files,
                 definedOutOfOrder |-> Disordered(ref.class)])
        /\ Quiet
-----------------------------------------------------------------------------
(* invokevirtual and invokeinterface *)

\* Reasons why the method found for an object of class c, where Java resolved the
\* reference in class d, may be another.
SelectionReasons(c, d, sig) ==
    [privateMethod |-> LET found == ResolveDispatch(c, sig)
                       IN  (Private(d, sig) /\ found # d) \/ (Private(found, sig) /\ ~Private(d, sig)),
     severalDefaults |-> /\ ~\E e \in ToSet(J!Chain(c)) : J!Has(e, sig)
                         /\ Cardinality({i \in J!Superinterfaces(c) : J!Has(i, sig)}) > 1,
     definedOutOfOrder |-> Disordered(c)]

JavaCalls(o, d, sig, args) ==
    IF o = NoReference THEN Throws("NullPointerException") ELSE JavaRuns(J!Select(ClassOf(o), d, sig), o, args)

\* Both instructions do the same here; what they resolve differs.
CallsVirtual(o, ref, args) ==
    LET d == J!ResolveMethod(ref.class, ref.sig)
    IN  /\ o # NoReference => heap[o].kind # "lambda"
        /\ IF files[ref.class].interface THEN InvokeInterface(o, ref, args) ELSE InvokeVirtual(o, ref, args)
        /\ Asks(JavaCalls(o, d, ref.sig, args),
                IF o = NoReference THEN <<>>
                ELSE [methodOfArray |-> heap[o].kind = "array" /\ ref.sig \notin ArrayObjectMethods]
                     @@ SelectionReasons(ClassOf(o), d, ref.sig))
        /\ Quiet
-----------------------------------------------------------------------------
(* Lambdas *)

Function(sam) == CHOOSE m \in ToSet(files[sam].methods) : m.body = "abstract"

\* A new box that holds v.
NewBox(v) == Slot("ref", -1 - v)
JavaAdapts(arg, type) ==
    CASE arg.type = "ref" /\ type = "int" -> Slot("int", javaFields[arg.value][<<Box, "value", "int">>])
      [] arg.type = "int" /\ type = "ref" -> NewBox(arg.value)
      [] OTHER                            -> arg
JavaAdaptsReturn(from, to) ==
    CASE to = "void" /\ from # "void" -> "dropped"
      [] from = "int" /\ to = "ref"   -> "boxed"
      [] from = "ref" /\ to = "int"   -> "unboxed"
      [] OTHER                        -> "as it is"

JavaApplies(lambda, args, returns) ==
    LET impl     == lambda.impl
        combined == lambda.captures \o args
        receiver == combined[1].value
        instance == impl.kind \in InstanceKinds
        rest     == IF instance THEN Tail(combined) ELSE combined
        resolved == J!ResolveMethod(impl.class, impl.sig)
        selected == CASE impl.kind = "invokeSpecial" -> J!SelectSpecial(impl.class, impl.sig)
                      [] instance /\ impl.kind # "invokeSpecial" -> J!Select(ClassOf(receiver), resolved, impl.sig)
                      [] OTHER -> resolved
        adapted  == [i \in DOMAIN rest |-> JavaAdapts(rest[i], impl.types[i])]
        result   == [JavaRuns(selected, IF instance THEN receiver
                                        ELSE IF impl.kind = "newInvokeSpecial" THEN Len(heap) + 1 ELSE NoReference, adapted)
                       EXCEPT !.new = IF impl.kind = "newInvokeSpecial" THEN impl.class ELSE NoClass,
                              !.returns = IF impl.kind = "newInvokeSpecial" THEN "as it is" ELSE JavaAdaptsReturn(impl.returns, returns)]
    IN  Initializing(IF (instance /\ receiver = NoReference) \/ UnboxFails(rest, impl.types)
                     THEN Throws("NullPointerException") ELSE result,
                     IF impl.kind = "invokeStatic" THEN selected ELSE impl.class)

\* A bound method reference captures its receiver, which is not null.
Captures(l) ==
    IF l.binds THEN {<<Slot("ref", o)>> : o \in {p \in Instances : l.impl.class \in J!Supertypes(heap[p].class)}}
    ELSE {<<>>}

MakesLambda(l) ==
    /\ Allocates
    /\ ~\E o \in Objects : heap[o].kind = "lambda"
    /\ \E captures \in Captures(l) : BuildLambda(l.impl, l.sam, captures)
    /\ javaFields' = Append(javaFields, <<>>)
    /\ UNCHANGED <<program, javaStatics, expected, disorder, reasons>>

LambdaReasons(lambda, args, returns) ==
    LET impl == lambda.impl
        combined == lambda.captures \o args
        instance == impl.kind \in InstanceKinds
        receiver == combined[1].value
        rest == IF instance THEN Tail(combined) ELSE combined
    IN  [boxesNoArgument |-> \E i \in DOMAIN rest : rest[i].type = "int" /\ impl.types[i] = "ref",
         convertsNothingForConstructor |->
             impl.kind = "newInvokeSpecial" /\ \E i \in DOMAIN rest : rest[i].type # impl.types[i],
         unboxesNoResult |-> impl.returns = "ref" /\ returns = "int",
         methodReferenceOnNull |-> instance /\ receiver = NoReference,
         methodReferenceOnArray |-> instance /\ receiver # NoReference /\ heap[receiver].kind = "array",
         inheritedImplementation |-> ~J!Has(impl.class, impl.sig),
         inheritedNative |-> instance /\ receiver # NoReference /\ heap[receiver].kind = "instance"
                             /\ LET t == ResolveDispatch(heap[receiver].class, impl.sig)
                                IN  t # impl.class /\ Native(t, impl.sig)]
        @@ (IF instance /\ receiver # NoReference /\ heap[receiver].kind = "instance"
            THEN SelectionReasons(heap[receiver].class, J!ResolveMethod(impl.class, impl.sig), impl.sig) ELSE <<>>)

\* A call of the function itself, or of another method its object has.
CallsLambda(o, ref, args) ==
    LET lambda == heap[o]
        function == ref.sig = Function(lambda.sam).sig
    IN  /\ heap[o].kind = "lambda"
        /\ IF ref.class = lambda.sam THEN InvokeInterface(o, ref, args) ELSE InvokeVirtual(o, ref, args)
        /\ Asks(IF function THEN JavaApplies(lambda, args, ref.returns)
                ELSE JavaRuns(J!ResolveMethod(lambda.sam, ref.sig), o, args),
                [anyMethodIsTheFunction |-> ~function] @@ LambdaReasons(lambda, args, ref.returns))
        /\ MayAllocate /\ WithNew
-----------------------------------------------------------------------------
(* Method handles: what one means is its member, applied to what is bound and then *)
(* the arguments of the call.                                                      *)

JavaInvokes(m, args) ==
    LET d == J!ResolveMethod(m.class, m.name)
        receiver == args[1].value
    IN  CASE m.kind = "identity" -> Value(args[1].value)
          [] m.kind = "invokeStatic" -> Initializing(JavaRuns(d, NoReference, args), d)
          [] m.kind = "newInvokeSpecial" ->
               [Initializing(Runs(m.class, Len(heap) + 1, args), m.class) EXCEPT !.new = m.class]
          [] m.kind = "invokeSpecial" ->
               IF receiver = NoReference THEN Throws("NullPointerException")
               ELSE JavaRuns(J!SelectSpecial(m.class, m.name), receiver, Tail(args))
          [] OTHER -> JavaCalls(receiver, d, m.name, Tail(args))

HandleReasons(m, args) ==
    LET receiver == args[1].value
        instance == m.kind \in InstanceKinds /\ receiver # NoReference /\ heap[receiver].kind = "instance"
    IN  [constructorWithoutThis |-> m.kind = "newInvokeSpecial",
         handleOnArray |-> m.kind \in InstanceKinds /\ receiver # NoReference /\ heap[receiver].kind = "array",
         inheritedStaticInitializesHeir |-> m.kind = "invokeStatic" /\ ~J!Has(m.class, m.name),
         specialHandleSearchesDefaults |-> m.kind = "invokeSpecial" /\ ~\E c \in ToSet(J!Chain(m.class)) : J!Has(c, m.name),
         inheritedNative |-> instance /\ LET c == IF m.kind = "invokeSpecial" THEN m.class ELSE heap[receiver].class
                                         IN  ResolveDispatch(c, m.name) # c /\ Native(ResolveDispatch(c, m.name), m.name)]
        @@ (IF instance /\ m.kind # "invokeSpecial"
            THEN SelectionReasons(heap[receiver].class, J!ResolveMethod(m.class, m.name), m.name)
            ELSE [definedOutOfOrder |-> Disordered(m.class)])

CallsHandle(mh, args) ==
    LET m == heap[mh].means.member
        all == heap[mh].means.bound \o args
    IN  /\ m.kind \notin FieldKinds /\ Len(args) = heap[mh].form.arity - 1
        /\ InvokeVirtualOrHandle(mh, Exactly("invokeExact()"), args)
        /\ Asks(JavaInvokes(m, all), IF m.kind = "identity" THEN <<>> ELSE HandleReasons(m, all))
        /\ MayAllocate /\ WithNew
-----------------------------------------------------------------------------
Acknowledges ==
    /\ ~Idle
    /\ answer' = NoAnswer /\ expected' = NoAnswer /\ reasons' = {}
    /\ UNCHANGED <<registryVars, heap, program, javaFields, javaStatics, disorder>>

Next ==
    \/ Acknowledges
    \/ \E t \in Definers : DefinesOne(t)
    \/ \E c \in program.news : Instantiates(c)
    \/ \E ref \in program.fields, o \in {NoReference} \cup Instances :
          GetsField(o, ref) \/ \E v \in Values : PutsField(o, ref, v)
    \/ \E mh \in FieldHandles("getField"), o \in {NoReference} \cup Instances : GetsThroughHandle(mh, o)
    \/ \E mh \in FieldHandles("putField"), o \in {NoReference} \cup Instances, v \in Values : PutsThroughHandle(mh, o, v)
    \/ \E ref \in program.statics : GetsStatic(ref) \/ \E v \in Values : PutsStatic(ref, v)
    \/ \E mh \in FieldHandles("getStatic") : GetsStaticThroughHandle(mh)
    \/ \E mh \in FieldHandles("putStatic"), v \in Values : PutsStaticThroughHandle(mh, v)
    \/ \E o \in Nullable, t \in program.types : ChecksType(o, t)
    \/ \E ref \in program.staticCalls : \E args \in ref.args : CallsStatic(ref, args)
    \/ \E ref \in program.specialCalls, o \in {NoReference} \cup Instances :
          (o # NoReference => ref.class \in J!Supertypes(heap[o].class)) /\ CallsSpecial(o, ref, <<>>)
    \/ \E ref \in program.virtualCalls, o \in Nullable :
          /\ o # NoReference => heap[o].kind # "lambda" /\ J!Subtype(ObjectType(o), <<0, ref.class>>)
          /\ CallsVirtual(o, ref, <<>>)
    \/ \E l \in program.lambdas : MakesLambda(l)
    \/ \E o \in Objects, ref \in program.lambdaCalls : \E args \in ref.args : CallsLambda(o, ref, args)
    \/ \E mh \in Handles, args \in program.handleArgs : CallsHandle(mh, args)

Spec == Init /\ [][Next]_vars
-----------------------------------------------------------------------------
\* Whatever the program asks, an access to a field, a type check, a call of a method, a
\* lambda or a method handle, the interpreter (field.rs, type_check.rs, invoke.rs) answers
\* as Java does unless one of the reasons named in this module holds; and
\* then it does not, except where the reason only makes the answer depend on the past or on
\* the order of declarations.
MayDiffer == {"hiddenFieldSharesSlot", "hiddenNameSharesSlot", "definedOutOfOrder", "severalDefaults"}
AnswersAreJavas ==
    ~Idle => /\ reasons = {} => answer = expected
             /\ reasons \ MayDiffer # {} => answer # expected

\* What an object keeps in the slot its layout gives a field (klass.rs) is what Java keeps in
\* that field, whichever instructions and handles wrote it, for every field that no field of
\* the same name hides or is hidden by, of classes defined once and after their superclass.
ObjectsKeepTheirFields ==
    \A o \in Instances : \A k \in DOMAIN javaFields[o] :
        LET ref == [class |-> k[1], name |-> k[2], type |-> k[3]]
            at == InstanceField(heap[o].class, k[2], k[3])
        IN  ~HidesName(o, ref) /\ ~OutOfOrder(o) => heap[o].slots[at] = Slot(k[3], javaFields[o][k])
=============================================================================
