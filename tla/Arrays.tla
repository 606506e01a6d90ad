------------------------------- MODULE Arrays -------------------------------
(***************************************************************************)
(* Arrays on the heap that threads share: the array instructions           *)
(* (src/src/runtime/interpreter/array.rs) and System.arraycopy             *)
(* (arraycopy.rs).                                                         *)
(*                                                                         *)
(* An element is a slot.  Booleans, bytes, chars and shorts are int slots, *)
(* stored whole and narrowed when they are loaded.  The heap is locked for *)
(* each read and each write of an element; lengths and types never change, *)
(* so a check of those and the access behind it are one step.              *)
(***************************************************************************)
EXTENDS Fields

CONSTANTS Threads,
          ByteBits         \* a byte has this many bits, an int four bytes

ASSUME ByteBitsAssumption == ByteBits \in Nat \ {0}

VARIABLES copying          \* of every thread: the copy under way, or NoCopy

arrayVars == <<objectVars, copying>>

\* The value of the low n bytes, with or without a sign.
Modulus(n) == 2 ^ (ByteBits * n)
Unsigned(v, n) == v % Modulus(n)
Signed(v, n) == ((v + Modulus(n) \div 2) % Modulus(n)) - Modulus(n) \div 2

SlotType(component) ==
    IF IsReference(component) THEN "ref"
    ELSE IF component[2] \in {"boolean", "byte", "char", "short"} THEN "int" ELSE component[2]
ArrayOf(type, length) ==
    [kind |-> "array", type |-> type, elements |-> [i \in 1 .. length |-> Slot(SlotType(Component(type)), 0)]]
IsArray(o) == heap[o].kind = "array"
ArrayLength(o) == Len(heap[o].elements)

Answers(result) == answer' = result /\ UNCHANGED <<registryVars, heap>>
-----------------------------------------------------------------------------
(* newarray and anewarray, multianewarray, arraylength *)

NewArray(type, count) ==
    IF count < 0 THEN Answers(Throws("NegativeArraySizeException"))
    ELSE /\ heap' = Append(heap, ArrayOf(type, count))
         /\ answer' = Value(Len(heap) + 1)
         /\ UNCHANGED registryVars

\* The heap with the array and its subarrays, dimension by dimension (the code makes an
\* array after its subarrays, but which number an object has means nothing).  Where there
\* are fewer counts than dimensions the innermost elements are null.
AllocMulti(objects, type, counts) ==
    LET number[d \in 1 .. Len(counts) + 1] ==      \* of arrays of the dth dimension
            IF d = 1 THEN 1 ELSE number[d - 1] * counts[d - 1]
        before[d \in 1 .. Len(counts) + 1] ==      \* of objects before those
            IF d = 1 THEN Len(objects) ELSE before[d - 1] + number[d - 1]
        array(d, n) ==
            LET typeOfIt == <<type[1] - d + 1, type[2]>>
            IN  IF d = Len(counts) THEN ArrayOf(typeOfIt, counts[d])
                ELSE [kind |-> "array", type |-> typeOfIt,
                      elements |-> [i \in 1 .. counts[d] |-> Slot("ref", before[d + 1] + (n - 1) * counts[d] + i)]]
    IN  [o \in 1 .. before[Len(counts) + 1] |->
            IF o <= Len(objects) THEN objects[o]
            ELSE LET d == CHOOSE e \in DOMAIN counts : before[e] < o /\ o <= before[e + 1]
                 IN  array(d, o - before[d])]

MultiNewArray(type, counts) ==
    IF \E i \in DOMAIN counts : counts[i] < 0 THEN Answers(Throws("NegativeArraySizeException"))
    ELSE /\ heap' = AllocMulti(heap, type, counts)
         /\ answer' = Value(Len(heap) + 1)
         /\ UNCHANGED registryVars

GetArrayLength(o) ==
    Answers(IF o = NoReference THEN Throws("NullPointerException")
            ELSE IF IsArray(o) THEN Value(ArrayLength(o)) ELSE BadConstant)
-----------------------------------------------------------------------------
(* Loads and stores, of the kind the instruction has.  Indices count from 0. *)

Narrowed(kind, v) ==
    CASE kind = "byte"  -> Signed(v, 1)
      [] kind = "char"  -> Unsigned(v, 2)
      [] kind = "short" -> Signed(v, 2)
      [] OTHER          -> v
SlotOfKind(kind) == IF kind \in {"byte", "char", "short"} THEN "int" ELSE kind

\* What refuses the access, or "".
AccessRefused(o, i) ==
    CASE o = NoReference -> "NullPointerException"
      [] o # NoReference /\ ~IsArray(o) -> "BadConstant"
      [] OTHER -> IF i \in 0 .. ArrayLength(o) - 1 THEN "" ELSE "ArrayIndexOutOfBoundsException"

ArrayLoad(o, i, kind) ==
    LET slot == heap[o].elements[i + 1]
    IN  Answers(IF AccessRefused(o, i) # "" THEN Throws(AccessRefused(o, i))
                ELSE IF slot.type # SlotOfKind(kind) THEN BadConstant
                ELSE Value(Narrowed(kind, slot.value)))

\* [a is a subtype of [b.
ComponentAssignable(a, b) == ArrayInstanceOf(<<a[1] + 1, a[2]>>, <<b[1] + 1, b[2]>>)
MayHold(array, slot) ==
    slot.type = "ref" /\ slot.value # NoReference =>
        ComponentAssignable(ObjectType(slot.value), Component(heap[array].type))

ArrayStore(o, i, kind, v) ==
    LET slot == Slot(SlotOfKind(kind), v)
    IN  IF AccessRefused(o, i) # "" THEN Answers(Throws(AccessRefused(o, i)))
        ELSE IF ~MayHold(o, slot) THEN Answers(Throws("ArrayStoreException"))
        ELSE /\ heap' = [heap EXCEPT ![o].elements[i + 1] = slot]
             /\ answer' = Value(0)
             /\ UNCHANGED registryVars
-----------------------------------------------------------------------------
(* System.arraycopy: the checks in the order of the code, then one element   *)
(* after the other, each read and written under a lock of its own.           *)

NoCopy == [n |-> 0]
NoSlot == Slot("none", 0)

CopyRefused(c) ==
    LET component(o) == Component(heap[o].type)
        primitive(o) == ~IsReference(component(o))
    IN  IF c.src = NoReference \/ c.dst = NoReference THEN "NullPointerException"
        ELSE IF ~IsArray(c.src) \/ ~IsArray(c.dst) THEN "ArrayStoreException"
        ELSE IF primitive(c.src) # primitive(c.dst) \/ (primitive(c.src) /\ component(c.src) # component(c.dst))
        THEN "ArrayStoreException"
        ELSE IF c.srcPos < 0 \/ c.dstPos < 0 \/ c.n < 0 THEN "ArrayIndexOutOfBoundsException"
        ELSE IF c.srcPos + c.n > ArrayLength(c.src) \/ c.dstPos + c.n > ArrayLength(c.dst)
        THEN "ArrayIndexOutOfBoundsException"
        ELSE ""

\* Whether every element must be checked: not within one array, and not where the
\* component of the one is a subtype of the other's.
ChecksElements(c) ==
    /\ IsReference(Component(heap[c.src].type)) /\ c.src # c.dst
    /\ ~ComponentAssignable(Component(heap[c.src].type), Component(heap[c.dst].type))

\* The copy before its first element.
CopyFrom(c) == [src |-> c.src, srcPos |-> c.srcPos, dst |-> c.dst, dstPos |-> c.dstPos, n |-> c.n,
                done |-> 0, slot |-> NoSlot, checks |-> ChecksElements(c)]
CopyBegins(t, c) ==
    /\ copying[t] = NoCopy
    /\ IF CopyRefused(c) # "" THEN Answers(Throws(CopyRefused(c))) /\ UNCHANGED copying
       ELSE IF c.n = 0 THEN Answers(Value(0)) /\ UNCHANGED copying
       ELSE Answers(NoAnswer) /\ copying' = [copying EXCEPT ![t] = CopyFrom(c)]

\* Mutant: forward whatever the overlap.
IndexForward(c) == c.done
\* The index, from 0, of the next element.  Overlapping copies upwards run backwards.
CopyIndex(c) == IF c.src = c.dst /\ c.dstPos > c.srcPos THEN c.n - 1 - c.done ELSE c.done

\* An element the destination may not hold ends the copy; what was written stays.
CopyReads(t) ==
    LET c == copying[t]
        slot == heap[c.src].elements[c.srcPos + CopyIndex(c) + 1]
        refused == c.checks /\ ~MayHold(c.dst, slot)
    IN  /\ c # NoCopy /\ c.slot = NoSlot
        /\ Answers(IF refused THEN Throws("ArrayStoreException") ELSE NoAnswer)
        /\ copying' = [copying EXCEPT ![t] = IF refused THEN NoCopy ELSE [c EXCEPT !.slot = slot]]

\* Mutant: the element is read again, after the check.
CopyWritesAnew(t) ==
    LET c == copying[t]
        last == c.done + 1 = c.n
    IN  /\ c # NoCopy /\ c.slot # NoSlot
        /\ heap' = [heap EXCEPT ![c.dst].elements[c.dstPos + CopyIndex(c) + 1] =
                                  heap[c.src].elements[c.srcPos + CopyIndex(c) + 1]]
        /\ answer' = IF last THEN Value(0) ELSE NoAnswer
        /\ copying' = [copying EXCEPT ![t] = IF last THEN NoCopy ELSE [c EXCEPT !.done = @ + 1, !.slot = NoSlot]]
        /\ UNCHANGED registryVars
CopyWrites(t) ==
    LET c == copying[t]
        last == c.done + 1 = c.n
    IN  /\ c # NoCopy /\ c.slot # NoSlot
        /\ heap' = [heap EXCEPT ![c.dst].elements[c.dstPos + CopyIndex(c) + 1] = c.slot]
        /\ answer' = IF last THEN Value(0) ELSE NoAnswer
        /\ copying' = [copying EXCEPT ![t] = IF last THEN NoCopy ELSE [c EXCEPT !.done = @ + 1, !.slot = NoSlot]]
        /\ UNCHANGED registryVars
=============================================================================
