------------------------------- MODULE Fields -------------------------------
(***************************************************************************)
(* Objects, their fields and their types: the instructions new, getfield,  *)
(* putfield, getstatic, putstatic (src/src/runtime/interpreter/field.rs),  *)
(* the same accesses through a method handle (invoke.rs), instanceof and   *)
(* checkcast (type_check.rs).                                              *)
(*                                                                         *)
(* A reference is an index into the heap, 0 is null.  A slot holds the     *)
(* type of the value put there and the value.  A type is <<dimensions,     *)
(* element>>: <<0, c>> is the class c.                                     *)
(***************************************************************************)
EXTENDS ClassRegistry

CONSTANTS ArrayInterfaces,   \* java/lang/Cloneable and java/io/Serializable
          Primitives         \* the primitive types

VARIABLES heap,         \* the objects
          answer        \* what the last instruction came to

objectVars == <<registryVars, heap, answer>>

NoReference == 0
Slot(type, v) == [type |-> type, value |-> v]

\* What an instruction comes to: a value; an exception or error; or the method that runs
\* (in the class found, on `this', with the arguments) and how its value is returned.
\* Before that a class may be initialized and an object of the class `new' allocated.
Result(how, value) == [how |-> how, value |-> value, class |-> NoClass, this |-> NoReference, args |-> <<>>,
                       returns |-> "as it is", initializes |-> NoClass, new |-> NoClass]
NoAnswer == Result("none", 0)
Idle == answer = NoAnswer
Value(v) == Result("value", v)
Throws(exception) == Result(exception, 0)
BadConstant == Throws("BadConstant")
Panics == Throws("panic")
Initializing(result, class) == [result EXCEPT !.initializes = class]

Instance(name) ==
    LET layout == FlattenedInstanceFields(name)
    IN  [kind |-> "instance", class |-> name, slots |-> [i \in DOMAIN layout |-> Slot(layout[i].type, 0)]]

\* `new' computes the layout, unless an earlier instruction did.
New(name) ==
    /\ Idle /\ Loaded(name)
    /\ heap' = Append(heap, Instance(name))
    /\ KeepLayouts(name)
    /\ UNCHANGED <<files, defining, answer>>
-----------------------------------------------------------------------------
(* Instance fields, with `at' the place in the layout. *)

\* The place is one of the layout of the class the reference names; the object may have
\* fewer slots.  A slot of another type than the reference's is not pushed.
Read(o, at, type) ==
    CASE at = 0 -> BadConstant
      [] at # 0 /\ o = NoReference -> Throws("NullPointerException")
      [] OTHER -> IF at \notin DOMAIN heap[o].slots THEN Panics
                  ELSE IF heap[o].slots[at].type = type THEN Value(heap[o].slots[at].value)
                  ELSE BadConstant

Write(o, at, slot) ==
    LET fits == at # 0 /\ o # NoReference /\ at \in DOMAIN heap[o].slots
    IN  /\ heap' = IF fits THEN [heap EXCEPT ![o].slots[at] = slot] ELSE heap
        /\ answer' = CASE fits -> Value(slot.value)
                       [] at = 0 -> BadConstant
                       [] at # 0 /\ o = NoReference -> Throws("NullPointerException")
                       [] OTHER -> Panics

\* A reference to a field: class, name and type.
GetField(o, ref) ==
    /\ Idle /\ Loaded(ref.class)
    /\ answer' = Read(o, InstanceField(ref.class, ref.name, ref.type), ref.type)
    /\ KeepLayouts(ref.class)
    /\ UNCHANGED <<files, defining, heap>>

PutField(o, ref, v) ==
    /\ Idle /\ Loaded(ref.class)
    /\ Write(o, InstanceField(ref.class, ref.name, ref.type), Slot(ref.type, v))
    /\ KeepLayouts(ref.class)
    /\ UNCHANGED <<files, defining>>
-----------------------------------------------------------------------------
(* Static fields.  The class initialized first is the one the reference names. *)

\* Read and write the storage of the class that `owner' names, at a place.
ReadStatic(owner, at, initialized) ==
    answer' = IF owner = NoClass THEN Initializing(BadConstant, initialized)
              ELSE Initializing(Value(Get(owner).storage[at]), initialized)
WriteStatic(owner, at, v, initialized) ==
    /\ answer' = Initializing(IF owner = NoClass THEN BadConstant ELSE Value(v), initialized)
    /\ IF owner = NoClass THEN UNCHANGED <<classes, runtimeClasses>>
       ELSE Put([Get(owner) EXCEPT !.storage[at] = v])

GetStatic(ref) ==
    LET owner == ResolveStaticField(ref.class, ref.name, ref.type)
    IN  /\ Idle /\ Loaded(ref.class)
        /\ ReadStatic(owner, IF owner = NoClass THEN 0 ELSE StaticField(owner, ref.name, ref.type), ref.class)
        /\ UNCHANGED <<registryVars, heap>>

PutStatic(ref, v) ==
    LET owner == ResolveStaticField(ref.class, ref.name, ref.type)
    IN  /\ Idle /\ Loaded(ref.class)
        /\ WriteStatic(owner, IF owner = NoClass THEN 0 ELSE StaticField(owner, ref.name, ref.type), v, ref.class)
        /\ UNCHANGED <<files, defining, heap>>
-----------------------------------------------------------------------------
(* Through a method handle of a field.  Its MemberName holds the declaring  *)
(* class and the name; the type is not looked at.                           *)

ReadByName(o, member) ==
    LET at == InstanceFieldByName(member.class, member.name)
        inside == at # 0 /\ o # NoReference /\ at \in DOMAIN heap[o].slots
    IN  Read(o, at, IF inside THEN heap[o].slots[at].type ELSE member.type)

AccessInstanceFieldGet(o, member) ==
    /\ Idle /\ Loaded(member.class)
    /\ answer' = ReadByName(o, member)
    /\ KeepLayouts(member.class)
    /\ UNCHANGED <<files, defining, heap>>

AccessInstanceFieldPut(o, member, v) ==
    /\ Idle /\ Loaded(member.class)
    /\ Write(o, InstanceFieldByName(member.class, member.name), Slot(member.type, v))
    /\ KeepLayouts(member.class)
    /\ UNCHANGED <<files, defining>>

AccessStaticFieldGet(member) ==
    LET owner == ResolveStaticFieldByName(member.class, member.name)
    IN  /\ Idle /\ Loaded(member.class)
        /\ ReadStatic(owner, IF owner = NoClass THEN 0 ELSE StaticFieldByName(owner, member.name), member.class)
        /\ UNCHANGED <<registryVars, heap>>

AccessStaticFieldPut(member, v) ==
    LET owner == ResolveStaticFieldByName(member.class, member.name)
    IN  /\ Idle /\ Loaded(member.class)
        /\ WriteStatic(owner, IF owner = NoClass THEN 0 ELSE StaticFieldByName(owner, member.name), v, member.class)
        /\ UNCHANGED <<files, defining, heap>>
-----------------------------------------------------------------------------
(* instanceof and checkcast. *)

\* A lambda passes for an instance of its functional interface.
TypeOf(object) ==
    CASE object.kind = "array"  -> object.type
      [] object.kind = "lambda" -> <<0, object.sam>>
      [] OTHER                  -> <<0, object.class>>
ObjectType(o) == TypeOf(heap[o])

Component(type) == <<type[1] - 1, type[2]>>
IsReference(type) == type[1] > 0 \/ type[2] \notin Primitives

\* As long as both are arrays of arrays they are stripped of a dimension each.
ArrayInstanceOf(sub, target) ==
    LET element == <<sub[1] - target[1], sub[2]>>   \* what is left of `sub' at the last dimension of `target'
    IN  \/ target[1] = 0 /\ target[2] \in ArrayInterfaces \cup {Object}
        \/ sub = target
        \/ /\ target[1] > 0 /\ sub[1] >= target[1] /\ IsReference(element)
           /\ \/ target[2] = Object
              \/ sub[1] = target[1] /\ target[2] \notin Primitives /\ IsInstance(sub[2], target[2])

\* For an object that is not an array, a target that names an array type is no supertype.
Matches(o, target) ==
    IF heap[o].kind = "array" THEN ArrayInstanceOf(heap[o].type, target)
    ELSE target[1] = 0 /\ IsInstance(ObjectType(o)[2], target[2])

InstanceOf(o, target) ==
    /\ Idle
    /\ answer' = Value(IF o # NoReference /\ Matches(o, target) THEN 1 ELSE 0)
    /\ UNCHANGED <<registryVars, heap>>

CheckCast(o, target) ==
    /\ Idle
    /\ answer' = IF o = NoReference \/ Matches(o, target) THEN Value(o) ELSE Throws("ClassCastException")
    /\ UNCHANGED <<registryVars, heap>>
=============================================================================
