--------------------------- MODULE ClassRegistry ---------------------------
(***************************************************************************)
(* The loaded classes and what is looked up in them                        *)
(* (src/src/oops/klass.rs).                                                *)
(*                                                                         *)
(* A class file is a record: super (or NoClass), interfaces, fields and    *)
(* methods, both sequences in the order of the file.  A method has a       *)
(* signature `sig' (name and descriptor), an access, whether it is static, *)
(* and a body: "code", "native" or "abstract".  A type is a name (a class  *)
(* or a primitive type) under a number of array dimensions.                *)
(***************************************************************************)
EXTENDS Integers, SequencesExt

CONSTANTS Object, NoClass,   \* java/lang/Object; where there is no class
          Definers           \* threads that define classes while the program runs

VARIABLES files,           \* the class files of the program, by name
          classes,         \* the static table: name to LoadedClass, filled during setup
          runtimeClasses,  \* the table of classes defined at run time
          defining         \* the class each definer has found absent, or NoClass

registryVars == <<files, classes, runtimeClasses, defining>>

\* What the loader makes of a class file: the layout of instances is not known yet, every
\* static field has the value zero of its type.
Fields(file, static) == SelectSeq(file.fields, LAMBDA f : f.static = static)
NotComputed == <<>>
FromClassFile(name) ==
    [name |-> name, flat |-> NotComputed,
     storage |-> [i \in DOMAIN Fields(files[name], TRUE) |-> 0]]

\* The static table first, then the one of the run-time classes.
Loaded(name) == name \in DOMAIN classes \cup DOMAIN runtimeClasses
Get(name) == IF name \in DOMAIN classes THEN classes[name] ELSE runtimeClasses[name]
Put(lc) ==
    IF lc.name \in DOMAIN classes
    THEN /\ classes' = [classes EXCEPT ![lc.name] = lc] /\ UNCHANGED runtimeClasses
    ELSE /\ runtimeClasses' = [runtimeClasses EXCEPT ![lc.name] = lc] /\ UNCHANGED classes

Super(name) == files[name].super
Interfaces(name) == files[name].interfaces
-----------------------------------------------------------------------------
(* Definition at run time.  Whether the class is there already is read first, *)
(* and the table is locked later, for the insertion.                          *)

DefineFinds(t, name) ==
    /\ defining[t] = NoClass /\ ~Loaded(name)
    /\ defining' = [defining EXCEPT ![t] = name]
    /\ UNCHANGED <<files, classes, runtimeClasses>>

DefineInserts(t) ==
    /\ defining[t] # NoClass
    /\ runtimeClasses' = [n \in DOMAIN runtimeClasses \cup {defining[t]} |->
                            IF n = defining[t] THEN FromClassFile(n) ELSE runtimeClasses[n]]
    /\ defining' = [defining EXCEPT ![t] = NoClass]
    /\ UNCHANGED <<files, classes>>
-----------------------------------------------------------------------------
(* The hierarchy. *)

\* The class and its superclasses, as far as they are loaded.
SuperChain(name) ==
    LET chain[c \in DOMAIN files \cup {NoClass}] == IF Loaded(c) THEN <<c>> \o chain[Super(c)] ELSE <<>>
    IN  chain[name]

First(names, Test(_)) ==
    LET hits == SelectSeq(names, Test) IN IF hits = <<>> THEN NoClass ELSE hits[1]

Declares(name, sig) == \E i \in DOMAIN files[name].methods : files[name].methods[i].sig = sig
Method(name, sig) == SelectSeq(files[name].methods, LAMBDA m : m.sig = sig)[1]

\* The first class of the chain that declares the method, whatever its access.
FindVirtualMethod(name, sig) == First(SuperChain(name), LAMBDA c : Declares(c, sig))
FindExactMethod(name, sig) == IF Loaded(name) /\ Declares(name, sig) THEN name ELSE NoClass

\* Append the interfaces not met before.
Unvisited(interfaces, visited) == SelectSeq(interfaces, LAMBDA i : i \notin visited)
EnqueueInterfaces(queue, name) == queue \o Unvisited(Interfaces(name), ToSet(queue))

\* Breadth first over the interfaces of the class and its superclasses: the first one
\* where the method has code.  `queue' keeps every interface met, `at' is the next one.
SearchInterfaces(interfaces, sig) ==
    LET search[queue \in Seq(DOMAIN files), at \in Nat] ==
            IF at > Len(queue) THEN NoClass
            ELSE LET i == queue[at]
                 IN  IF ~Loaded(i) THEN search[queue, at + 1]
                     ELSE IF Declares(i, sig) /\ Method(i, sig).body = "code" THEN i
                     ELSE search[EnqueueInterfaces(queue, i), at + 1]
    IN  search[interfaces, 1]

FindDefaultMethod(name, sig) ==
    LET classesBelowObject == SelectSeq(SuperChain(name), LAMBDA c : c # Object \/ c = name)
    IN  SearchInterfaces(FoldLeft(EnqueueInterfaces, <<>>, classesBelowObject), sig)

\* Mutant: a default method wins over one a superclass inherits from.
DispatchDefaultsFirst(name, sig) ==
    LET default == FindDefaultMethod(name, sig)
    IN  IF Declares(name, sig) \/ default = NoClass THEN FindVirtualMethod(name, sig) ELSE default

\* The class that runs, or NoClass.
ResolveDispatch(name, sig) ==
    LET virtual == FindVirtualMethod(name, sig)
    IN  IF virtual # NoClass THEN virtual ELSE FindDefaultMethod(name, sig)

\* The names of all classes and interfaces above, itself included; an interface that is
\* not loaded is in it, what is above that one is not.
InterfacesAbove(interface) ==
    LET above[i \in DOMAIN files] ==
            {i} \cup (IF Loaded(i) THEN UNION {above[j] : j \in ToSet(Interfaces(i))} ELSE {})
    IN  above[interface]
SupertypesOf(name) ==
    LET chain == ToSet(SuperChain(name))
    IN  chain \cup UNION {InterfacesAbove(i) : i \in UNION {ToSet(Interfaces(c)) : c \in chain}}

IsInstance(name, target) == target = Object \/ target \in SupertypesOf(name)
-----------------------------------------------------------------------------
(* Fields. *)

OwnFields(name) ==
    LET own == Fields(files[name], FALSE)
    IN  [i \in DOMAIN own |-> [name |-> own[i].name, type |-> own[i].type, in |-> name]]

\* The fields of an instance, those of the superclass first.  The layout is computed once;
\* a superclass that is not loaded contributes nothing.
ExtendsLoaded(name) == Super(name) # Object /\ Loaded(Super(name))
\* Mutant: the class's own fields before those of its superclass.
OwnFieldsFirst(name) ==
    LET layout[c \in DOMAIN files] ==
            IF Get(c).flat # NotComputed THEN Get(c).flat[1]
            ELSE OwnFields(c) \o (IF ExtendsLoaded(c) THEN layout[Super(c)] ELSE <<>>)
    IN  layout[name]
FlattenedInstanceFields(name) ==
    LET layout[c \in DOMAIN files] ==
            IF Get(c).flat # NotComputed THEN Get(c).flat[1]
            ELSE (IF ExtendsLoaded(c) THEN layout[Super(c)] ELSE <<>>) \o OwnFields(c)
    IN  layout[name]

\* The classes whose layout is kept when that of `name' is asked for.
Flattened(name) ==
    LET kept[c \in DOMAIN files] ==
            IF Get(c).flat # NotComputed THEN {}
            ELSE {c} \cup (IF ExtendsLoaded(c) THEN kept[Super(c)] ELSE {})
    IN  kept[name]

KeepLayouts(name) ==
    LET kept(table) == [n \in DOMAIN table |->
                          IF Get(n) = table[n] /\ n \in Flattened(name)
                          THEN [table[n] EXCEPT !.flat = <<FlattenedInstanceFields(n)>>] ELSE table[n]]
    IN  classes' = kept(classes) /\ runtimeClasses' = kept(runtimeClasses)

\* The place in the layout of a field of the name and type: the first one; 0 if none.
Position(fields, Test(_)) ==
    LET hits == {i \in DOMAIN fields : Test(fields[i])}
    IN  IF hits = {} THEN 0 ELSE CHOOSE i \in hits : \A j \in hits : i <= j
InstanceField(name, field, type) ==
    Position(FlattenedInstanceFields(name), LAMBDA f : f.name = field /\ f.type = type)
InstanceFieldByName(name, field) == Position(FlattenedInstanceFields(name), LAMBDA f : f.name = field)

\* The class of the chain that declares a static field, and the field's place there.
StaticField(name, field, type) ==
    Position(Fields(files[name], TRUE), LAMBDA f : f.name = field /\ f.type = type)
ResolveStaticField(name, field, type) ==
    First(SuperChain(name), LAMBDA c : StaticField(c, field, type) # 0)
StaticFieldByName(name, field) == Position(Fields(files[name], TRUE), LAMBDA f : f.name = field)
ResolveStaticFieldByName(name, field) == First(SuperChain(name), LAMBDA c : StaticFieldByName(c, field) # 0)
=============================================================================
