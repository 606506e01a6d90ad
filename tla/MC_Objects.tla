----------------------------- MODULE MC_Objects -----------------------------
(***************************************************************************)
(* Programs for Objects: families of small class hierarchies with the      *)
(* references a compiler would write for them.                             *)
(***************************************************************************)
EXTENDS Objects, TLC

Field(name, type, static) == [name |-> name, type |-> type, static |-> static]
M(sig, access, static, body) == [sig |-> sig, access |-> access, static |-> static, body |-> body]
Public(sig) == M(sig, "public", FALSE, "code")
Abstract(sig) == M(sig, "public", FALSE, "abstract")
ClassFile(super, interfaces, fields, methods) ==
    [super |-> super, interfaces |-> interfaces, fields |-> fields, methods |-> methods, interface |-> FALSE]
InterfaceFile(interfaces, fields, methods) ==
    [super |-> "Object", interfaces |-> interfaces, fields |-> fields, methods |-> methods, interface |-> TRUE]

Library ==
    "Object"  :> ClassFile(NoClass, <<>>, <<>>,
                   <<Public("<init>"), M("hashCode()", "public", FALSE, "native"), Public("toString()")>>) @@
    "Integer" :> ClassFile("Object", <<>>, <<Field("value", "int", FALSE)>>, <<>>) @@
    "MethodHandle" :> ClassFile("Object", <<>>, <<>>, <<>>) @@
    "DirectMethodHandle" :> ClassFile("MethodHandle", <<>>, <<>>, <<>>) @@
    "BoundMethodHandle" :> ClassFile("MethodHandle", <<>>,
                             <<Field("argL0", "ref", FALSE), Field("argL1", "ref", FALSE)>>, <<>>)

Nothing == [defines |-> {}, news |-> {}, fields |-> {}, statics |-> {}, types |-> {}, staticCalls |-> {},
            specialCalls |-> {}, virtualCalls |-> {}, lambdas |-> {}, lambdaCalls |-> {}, handleArgs |-> {}, room |-> 0]
\* A program with class files of its own, objects at the start, and room for n more.
Uses(own, objects, n, uses) ==
    LET all == own @@ Library
    IN  [files |-> all, setup |-> DOMAIN all, heap |-> objects, uses |-> [uses EXCEPT !.room = Len(objects) + n]]

FieldRef(c, f, t) == [class |-> c, name |-> f, type |-> t]
Call(c, sig) == [class |-> c, sig |-> sig, returns |-> "as it is"]
AnObject(c, slots) == [kind |-> "instance", class |-> c, slots |-> slots]
Array(d, e) == [kind |-> "array", type |-> <<d, e>>]
-----------------------------------------------------------------------------
(* Method handles as the library builds them *)

MemberName(c, name, kind, type) ==
    [kind |-> "member", member |-> [class |-> c, name |-> name, kind |-> kind, type |-> type]]
NameArg(i) == [is |-> "name", at |-> i]
Literal(r) == [is |-> "literal", at |-> r]
Node(c, name, kind, args) == [member |-> [class |-> c, name |-> name, kind |-> kind, type |-> "ref"], args |-> args]
Means(member, bound) == [member |-> member, bound |-> bound]

\* The handle of a member, at `at' in the heap, with n arguments.
Direct(member, at, n) ==
    [kind |-> "instance", class |-> "DirectMethodHandle", slots |-> <<>>, member |-> at,
     means |-> Means(member.member, <<>>),
     form |-> [arity |-> n + 1, result |-> n + 2,
               nodes |-> <<Node("DirectMethodHandle", "internalMemberName", "invokeStatic", <<NameArg(0)>>),
                           Node("MethodHandle", "linkTo", "invokeStatic",
                                [i \in 1 .. n + 1 |-> NameArg(i)])>>]]
\* A handle that calls another with a bound object first.
Bound(member, dmh, o) ==
    [kind |-> "instance", class |-> "BoundMethodHandle", slots |-> <<Slot("ref", dmh), Slot("ref", o)>>, member |-> NoReference,
     means |-> Means(member.member, <<Slot("ref", o)>>),
     form |-> [arity |-> 1, result |-> 3,
               nodes |-> <<Node("BoundMethodHandle", "argL0", "getField", <<NameArg(0)>>),
                           Node("BoundMethodHandle", "argL1", "getField", <<NameArg(0)>>),
                           Node("MethodHandle", "invokeBasic", "invokeVirtual", <<NameArg(1), NameArg(2)>>)>>]]
\* A handle that calls a static method with a literal.
WithLiteral(member, box, v) ==
    [kind |-> "instance", class |-> "BoundMethodHandle", slots |-> <<>>, member |-> NoReference,
     means |-> Means(member.member, <<Slot("int", v)>>),
     form |-> [arity |-> 1, result |-> 1,
               nodes |-> <<[member |-> member.member, args |-> <<Literal(box)>>]>>]]
Identity ==
    [kind |-> "instance", class |-> "BoundMethodHandle", slots |-> <<>>, member |-> NoReference,
     means |-> Means([kind |-> "identity"], <<>>),
     form |-> [arity |-> 2, result |-> 1, nodes |-> <<>>]]
FieldHandle(member, at) == [Direct(member, at, 1) EXCEPT !.form.nodes = <<>>]
-----------------------------------------------------------------------------
(* Fields: B extends A and may declare a field like A's; a static of A and one of I. *)

FieldFiles(own) ==
    "I" :> InterfaceFile(<<>>, <<Field("k", "int", TRUE)>>, <<>>) @@
    "A" :> ClassFile("Object", <<>>, <<Field("f", "int", FALSE), Field("s", "int", TRUE)>>, <<>>) @@
    "B" :> ClassFile("A", <<"I">>, own, <<>>)
FieldHeap(declarer, type) ==
    <<MemberName("A", "f", "getField", "int"), FieldHandle(MemberName("A", "f", "getField", "int"), 1),
      MemberName(declarer, "f", "putField", type), FieldHandle(MemberName(declarer, "f", "putField", type), 3),
      MemberName("A", "s", "getStatic", "int"), FieldHandle(MemberName("A", "s", "getStatic", "int"), 5),
      MemberName("A", "s", "putStatic", "int"), FieldHandle(MemberName("A", "s", "putStatic", "int"), 7)>>
FieldProgram(own, declarer, type, news) ==
    Uses(FieldFiles(own), FieldHeap(declarer, type), Cardinality(news),
         [Nothing EXCEPT !.news = news,
        !.fields = {FieldRef("A", "f", "int"), FieldRef("B", "f", type)},
        !.statics = {FieldRef("A", "s", "int"), FieldRef("B", "s", "int"),
                     FieldRef("I", "k", "int"), FieldRef("B", "k", "int")}])
FieldPrograms ==
    {FieldProgram(<<Field("g", "int", FALSE)>>, "A", "int", {"A", "B"}),
     FieldProgram(<<Field("f", "int", FALSE)>>, "B", "int", {"B"}),
     FieldProgram(<<Field("g", "int", FALSE), Field("f", "ref", FALSE)>>, "B", "ref", {"B"})}

\* The same classes, defined by the program.
DefinePrograms ==
    {[Uses(FieldFiles(<<Field("g", "int", FALSE)>>), <<>>, 2,
           [Nothing EXCEPT !.defines = {"A", "B"}, !.news = {"A", "B"},
              !.fields = {FieldRef("A", "f", "int"), FieldRef("B", "g", "int")}, !.statics = {FieldRef("A", "s", "int")}])
        EXCEPT !.setup = DOMAIN Library \cup {"I"}]}
-----------------------------------------------------------------------------
(* Types *)

Elements == <<"Object", "A", "B", "I", "Cloneable", "int">>
Dimensional == {<<d, e>> : d \in 0 .. 2, e \in ToSet(Elements)} \ {<<0, "int">>}
TypeFiles ==
    "I" :> InterfaceFile(<<>>, <<>>, <<>>) @@ "Cloneable" :> InterfaceFile(<<>>, <<>>, <<>>) @@
    "F" :> InterfaceFile(<<"I">>, <<>>, <<Abstract("apply()")>>) @@
    "A" :> ClassFile("Object", <<"I">>, <<>>, <<>>) @@ "B" :> ClassFile("A", <<>>, <<>>, <<>>)
Arrays == [k \in 1 .. 12 |-> Array(((k - 1) % 2) + 1, Elements[(k - 1) \div 2 + 1])]
TypePrograms ==
    {Uses(TypeFiles, Arrays \o <<AnObject("A", <<>>), AnObject("B", <<>>),
                                [kind |-> "lambda", impl |-> <<>>, sam |-> "F", captures |-> <<>>]>>, 0,
          [Nothing EXCEPT !.types = Dimensional])}
-----------------------------------------------------------------------------
(* Methods: m in A, in B (which extends A), and in the interfaces I and J (which may  *)
(* extend I).                                                                          *)

InClass == {<<>>, <<Public("m()")>>, <<Abstract("m()")>>, <<M("m()", "private", FALSE, "code")>>,
            <<M("m()", "public", TRUE, "native")>>, <<M("m()", "public", FALSE, "native")>>}
InInterface == {<<>>, <<Public("m()")>>, <<Abstract("m()")>>, <<M("m()", "private", FALSE, "code")>>,
                <<M("m()", "public", TRUE, "code")>>}
MethodFiles(a, b, i, j, aI, bI, jI) ==
    "I" :> InterfaceFile(<<>>, <<>>, i) @@ "J" :> InterfaceFile(jI, <<>>, j) @@
    "A" :> ClassFile("Object", aI, <<>>, a) @@ "B" :> ClassFile("A", bI, <<>>, b)

IsStatic(m) == m # <<>> /\ m[1].static
IsPrivate(m) == m # <<>> /\ m[1].access = "private"
\* What a compiler accepts: an instance method and a static one do not override each other,
\* and access does not shrink.
Compiles(a, b, i, j, aI, bI, jI) ==
    /\ IsStatic(a) => (b = <<>> \/ IsStatic(b)) /\ aI = <<>> /\ bI = <<>>
    /\ IsStatic(b) => a = <<>> \/ IsStatic(a) \/ IsPrivate(a)
    /\ IsStatic(b) \/ IsPrivate(b) => aI = <<>> /\ bI = <<>>
    /\ IsPrivate(b) => a = <<>> \/ IsPrivate(a)
    /\ IsStatic(a) \/ IsPrivate(a) => aI = <<>>

MayImplementI == {<<>>, <<"I">>}
MethodWorlds ==
    {w \in InClass \X InClass \X InInterface \X InInterface \X MayImplementI \X {<<>>, <<"J">>, <<"J", "I">>} \X MayImplementI :
        Compiles(w[1], w[2], w[3], w[4], w[5], w[6], w[7])}
\* The methods m a class has for the compiler: its own, or the ones it inherits.
RECURSIVE Members(_, _)
Members(in, c) ==
    IF in[c].methods # <<>> /\ c # "Object" THEN ToSet(in[c].methods)
    ELSE UNION {{m \in Members(in, d) : m.access # "private" /\ (m.static => ~in[d].interface)} :
                  d \in ({in[c].super} \ {NoClass, "Object"}) \cup ToSet(in[c].interfaces)}
MethodProgram(w) ==
    LET own   == MethodFiles(w[1], w[2], w[3], w[4], w[5], w[6], w[7])
        all   == own @@ Library
        refs  == {Call(c, "m()") : c \in {d \in {"A", "B", "I", "J"} : Members(all, d) # {}}}
        static(c) == \E m \in Members(all, c) : m.static
    IN  Uses(own, <<AnObject("A", <<>>), AnObject("B", <<>>), Array(1, "int")>>, 0,
          [Nothing EXCEPT
            !.virtualCalls = {r \in refs : ~static(r.class)} \cup {Call("Object", "hashCode()"), Call("Object", "toString()")},
            !.specialCalls = {r \in refs : r.class # "B" /\ ~static(r.class)} \cup {Call("Object", "<init>")},
            !.staticCalls = {r @@ [args |-> {<<>>}] : r \in {q \in refs : static(q.class)}}])
MethodPrograms == {MethodProgram(w) : w \in MethodWorlds}
-----------------------------------------------------------------------------
(* Lambdas and method references of the methods of A and B; B extends A. *)

LambdaFiles ==
    "F" :> InterfaceFile(<<>>, <<>>, <<Abstract("apply()"), Public("andThen()")>>) @@
    "A" :> ClassFile("Object", <<>>, <<>>,
             <<Public("m()"), M("lambda$0()", "private", FALSE, "code"), M("s(int)", "public", TRUE, "code"),
               M("t(ref)", "public", TRUE, "code"), M("u()", "public", TRUE, "native"), Public("<init>"),
               M("v()", "public", TRUE, "code")>>) @@
    "B" :> ClassFile("A", <<>>, <<>>, <<Public("m()"), M("lambda$0()", "private", FALSE, "code")>>)
Impl(c, sig, kind, types, returns) == [class |-> c, sig |-> sig, kind |-> kind, types |-> types, returns |-> returns]
Reference1 == {Impl("A", "m()", "invokeVirtual", <<>>, "int"), Impl("A", "lambda$0()", "invokeSpecial", <<>>, "ref"),
               Impl("Object", "hashCode()", "invokeVirtual", <<>>, "int"), Impl("Object", "toString()", "invokeVirtual", <<>>, "ref")}
Static1 == {Impl("A", "s(int)", "invokeStatic", <<"int">>, "int"), Impl("B", "s(int)", "invokeStatic", <<"int">>, "int"),
            Impl("A", "v()", "invokeStatic", <<>>, "ref"), Impl("A", "t(ref)", "invokeStatic", <<"ref">>, "void"), Impl("A", "<init>", "newInvokeSpecial", <<>>, "ref")}
A1 == 1  B1 == 2  Box1 == 3  Array1 == 4
LambdaHeap == <<AnObject("A", <<>>), AnObject("B", <<>>), AnObject("Integer", <<Slot("int", 1)>>), Array(1, "int")>>
LambdaProgram(impl, binds, argss, returns) ==
    Uses(LambdaFiles, LambdaHeap, 2, [Nothing EXCEPT
        !.lambdas = {[impl |-> impl, sam |-> "F", binds |-> binds]},
        !.lambdaCalls = {[class |-> "F", sig |-> sig, returns |-> returns, args |-> argss] : sig \in {"apply()", "andThen()"}}
                        \cup {[class |-> "Object", sig |-> "hashCode()", returns |-> "int", args |-> argss]}])
RefArg(o) == <<Slot("ref", o)>>
Results == {"int", "ref", "void"}
Converts(impl, r) == r # impl.returns => r = "void" \/ (impl.returns = "int" /\ r = "ref") \/ impl.sig = "v()"
ReceiverArgs(impl) ==
    {RefArg(o) : o \in {NoReference, A1, B1} \cup (IF impl.class = "Object" THEN {Array1} ELSE {})}
StaticArgs(impl) ==
    CASE impl.types = <<>>      -> {<<>>}
      [] impl.types = <<"int">> -> {<<Slot("int", 1)>>, RefArg(Box1), RefArg(NoReference)}
      [] impl.types = <<"ref">> -> {<<Slot("int", 1)>>, RefArg(Box1)}
References(impls) == {p \in impls \X Results : Converts(p[1], p[2])}
LambdaPrograms ==
    {LambdaProgram(p[1], TRUE, {<<>>}, p[2]) : p \in References(Reference1)} \cup
    {LambdaProgram(p[1], FALSE, ReceiverArgs(p[1]), p[2]) : p \in References(Reference1)} \cup
    {LambdaProgram(p[1], FALSE, StaticArgs(p[1]), p[2]) : p \in References(Static1)}
-----------------------------------------------------------------------------
(* Handles of the same methods *)

HandleMembers ==
    {MemberName(i.class, i.sig, i.kind, "ref") : i \in Reference1 \cup Static1 \cup
        {Impl("F", "andThen()", "invokeInterface", <<>>, "ref"), Impl("A", "m()", "invokeSpecial", <<>>, "ref"),
         Impl("A", "u()", "invokeStatic", <<>>, "ref"), Impl("B", "u()", "invokeStatic", <<>>, "ref")}}
HandleFiles == [LambdaFiles EXCEPT !["A"].interfaces = <<"F">>]
HandleHeap(m) ==
    LET n == IF m.member.kind \in {"invokeStatic", "newInvokeSpecial"} /\ m.member.name \notin {"s(int)", "t(ref)"} THEN 0 ELSE 1
    IN  LambdaHeap \o <<m, Direct(m, 5, n)>>
                   \o (IF n = 1 /\ m.member.kind # "invokeStatic" THEN <<Bound(m, 6, A1), Bound(m, 6, B1)>> ELSE <<>>)
                   \o (IF m.member.name = "s(int)" THEN <<WithLiteral(m, Box1, 1)>> ELSE <<>>)
HandleArgs(m) ==
    {<<>>} \cup (IF m.member.name = "s(int)" THEN {<<Slot("int", 1)>>} ELSE {RefArg(A1), RefArg(B1), RefArg(NoReference)})
HandleProgram(objects, args) == Uses(HandleFiles, objects, 1, [Nothing EXCEPT !.handleArgs = args])
HandlePrograms ==
    {HandleProgram(HandleHeap(m), HandleArgs(m)) : m \in HandleMembers} \cup
    {HandleProgram(LambdaHeap \o <<Identity>>, {RefArg(A1)})}

AllPrograms ==
    FieldPrograms \cup DefinePrograms \cup TypePrograms \cup MethodPrograms \cup LambdaPrograms \cup HandlePrograms
=============================================================================
