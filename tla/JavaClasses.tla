---------------------------- MODULE JavaClasses ----------------------------
(***************************************************************************)
(* What the Java Virtual Machine Specification says of the class files     *)
(* that ClassRegistry holds: subtyping (4.10, 6.5 instanceof), resolution  *)
(* of fields and methods (5.4.3), selection of methods (5.4.6).            *)
(***************************************************************************)
EXTENDS Integers, SequencesExt, FiniteSetsExt

CONSTANTS Object, NoClass, ArrayInterfaces, Primitives
VARIABLE files

Above(fs, c) == (IF fs[c].super = NoClass THEN {} ELSE {fs[c].super}) \cup ToSet(fs[c].interfaces)

\* A class with everything it extends and implements.
SupertypesIn(fs, c) ==
    LET up[d \in DOMAIN fs] == {d} \cup UNION {up[e] : e \in Above(fs, d)}
    IN  up[c]
Supertypes(c) == SupertypesIn(files, c)

\* Its superclasses, the nearest first, itself included.
Chain(class) ==
    LET chain[c \in DOMAIN files] == <<c>> \o (IF files[c].super = NoClass THEN <<>> ELSE chain[files[c].super])
    IN  chain[class]
Superinterfaces(c) == {d \in Supertypes(c) : files[d].interface}

\* Types are <<dimensions, element>>.  Arrays are as their components are, and what is an
\* array is a subtype of Object and of the interfaces that arrays implement.
SubtypeIn(fs, s, t) ==
    \/ s = t
    \/ /\ s[1] = t[1] /\ s[2] \notin Primitives /\ t[2] \notin Primitives
       /\ t[2] \in SupertypesIn(fs, s[2]) \cup {Object}
    \/ s[1] > t[1] /\ t[2] \in ArrayInterfaces \cup {Object}
Subtype(s, t) == SubtypeIn(files, s, t)
-----------------------------------------------------------------------------
\* 5.4.3.2: the class itself, then its superinterfaces, then its superclass.
DeclaresField(c, f, type) ==
    \E i \in DOMAIN files[c].fields : files[c].fields[i].name = f /\ files[c].fields[i].type = type
ResolveField(class, f, type) ==
    LET resolved[c \in DOMAIN files] ==
            LET inherited == {resolved[i] : i \in ToSet(files[c].interfaces)} \ {NoClass}
            IN  IF DeclaresField(c, f, type) THEN c
                ELSE IF inherited # {} THEN CHOOSE d \in inherited : TRUE
                ELSE IF files[c].super = NoClass THEN NoClass ELSE resolved[files[c].super]
    IN  resolved[class]
IsStaticField(c, f, type) ==
    \E i \in DOMAIN files[c].fields : files[c].fields[i] = [name |-> f, type |-> type, static |-> TRUE]
-----------------------------------------------------------------------------
Has(c, sig) == \E i \in DOMAIN files[c].methods : files[c].methods[i].sig = sig
Method(c, sig) == CHOOSE m \in ToSet(files[c].methods) : m.sig = sig
Overridable(m) == m.access # "private" /\ ~m.static
Nearest(classes, Test(_)) == LET hits == SelectSeq(classes, Test) IN IF hits = <<>> THEN NoClass ELSE hits[1]

\* 5.4.3.3: the methods of superinterfaces that no subinterface declares again.
MaximallySpecific(c, sig) ==
    LET candidates == {i \in Superinterfaces(c) : Has(i, sig) /\ Overridable(Method(i, sig))}
    IN  {i \in candidates : ~\E j \in candidates \ {i} : i \in Supertypes(j)}
Concrete(interfaces, sig) == {i \in interfaces : Method(i, sig).body # "abstract"}

ResolveMethod(c, sig) ==
    LET inClass == Nearest(IF files[c].interface THEN <<c, Object>> ELSE Chain(c), LAMBDA d : Has(d, sig))
        maximal == MaximallySpecific(c, sig)
    IN  IF inClass # NoClass THEN inClass
        ELSE IF Cardinality(Concrete(maximal, sig)) = 1 THEN CHOOSE i \in Concrete(maximal, sig) : TRUE
        ELSE IF maximal # {} THEN CHOOSE i \in maximal : TRUE ELSE NoClass

\* 5.4.6 for an object of class c and the method resolved in class d: the declaring class,
\* or the error.
Select(c, d, sig) ==
    LET override == Nearest(Chain(c), LAMBDA e : Has(e, sig) /\ Overridable(Method(e, sig)))
        defaults == Concrete(MaximallySpecific(c, sig), sig)
    IN  IF Method(d, sig).access = "private" THEN d
        ELSE IF override # NoClass
             THEN IF Method(override, sig).body = "abstract" THEN "AbstractMethodError" ELSE override
        ELSE IF Cardinality(defaults) = 1 THEN CHOOSE i \in defaults : TRUE
        ELSE IF defaults = {} THEN "AbstractMethodError" ELSE "IncompatibleClassChangeError"

\* 6.5 invokespecial, not of a constructor, with a reference to class c.
SelectSpecial(c, sig) ==
    LET d == Nearest(Chain(c), LAMBDA e : Has(e, sig) /\ ~Method(e, sig).static)
        defaults == Concrete(MaximallySpecific(c, sig), sig)
    IN  IF Method(ResolveMethod(c, sig), sig).access = "private" THEN ResolveMethod(c, sig)
        ELSE IF d # NoClass THEN IF Method(d, sig).body = "abstract" THEN "AbstractMethodError" ELSE d
        ELSE IF Cardinality(defaults) = 1 THEN CHOOSE i \in defaults : TRUE
        ELSE IF defaults = {} THEN "AbstractMethodError" ELSE "IncompatibleClassChangeError"
=============================================================================
