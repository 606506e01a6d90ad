------------------------------- MODULE Unsafe -------------------------------
(***************************************************************************)
(* The accesses of jdk.internal.misc.Unsafe to fields and elements         *)
(* (src/src/runtime/interpreter/native/jdk_internal.rs).                   *)
(*                                                                         *)
(* There is no raw memory.  The offset of a field is its place in the      *)
(* layout, counted from 0; the offset of an element is the base offset     *)
(* plus its index times the size of an element.  Some natives assemble     *)
(* bytes, the others read or write one whole slot.  The heap is locked for *)
(* each slot access, so that a swap, which reads and then writes, takes it *)
(* twice.                                                                  *)
(***************************************************************************)
EXTENDS Arrays

CONSTANTS NextThreadIdOffset   \* with the reference null: the counter of thread ids

VARIABLES swapping,        \* of every thread: the swap that has read and will write, or NoSwap
          nextThreadId     \* the counter of thread ids

unsafeVars == <<arrayVars, swapping, nextThreadId>>

ArrayBaseOffset == 16
NoSwap == [swaps |-> FALSE]

\* The size of an element in bytes; of references too the library is told 1.
ArrayIndexScale(type) ==
    LET component == Component(type)
    IN  CASE IsReference(component) -> 1
          [] component \in {<<0, "boolean">>, <<0, "byte">>} -> 1
          [] component \in {<<0, "char">>, <<0, "short">>} -> 2
          [] component \in {<<0, "int">>, <<0, "float">>} -> 4
          [] component \in {<<0, "long">>, <<0, "double">>} -> 8

\* The place of the field in the layout of the class, or -1: by name alone.
ObjectFieldOffset(class, name) == InstanceFieldByName(class, name) - 1

\* The class a mirror stands for.
IsMirror(o) == o # NoReference /\ "mirrors" \in DOMAIN heap[o]
-----------------------------------------------------------------------------
(* The bytes of an array, the low one of each element first. *)

Byte(v, i) == (v \div 2 ^ (ByteBits * (i - 1))) % 2 ^ ByteBits
\* An int has 4 bytes; in an element of 8 the shifts go round and give them again.
ElementLeBytes(slot, scale) ==
    CASE slot.type = "int" -> [i \in 1 .. scale |-> Byte(slot.value, ((i - 1) % 4) + 1)]
      [] slot.type \in {"long", "double"} -> [i \in 1 .. 8 |-> Byte(slot.value, i)]
      [] slot.type = "float" -> [i \in 1 .. 4 |-> Byte(slot.value, i)]
      [] slot.type = "ref" -> [i \in 1 .. scale |-> 0]

\* The elements in which n bytes of an array lie, from `at' on, counted from 0; their bytes.
Touched(o, at, n) ==
    LET scale == ArrayIndexScale(heap[o].type)
    IN  SubSeq(heap[o].elements, at \div scale + 1, (at + n - 1) \div scale + 1)
ArrayLeBytes(o, at, n) ==
    LET touched == Touched(o, at, n)
        scale == ArrayIndexScale(heap[o].type)
    IN  FlattenSeq([e \in DOMAIN touched |-> ElementLeBytes(touched[e], scale)])
\* A build that checks arithmetic panics at a shift by more bits than an int has.
ShiftsTooFar(o, at, n) ==
    LET touched == Touched(o, at, n)
    IN  ArrayIndexScale(heap[o].type) > 4 /\ \E e \in DOMAIN touched : touched[e].type = "int"
Assembled(bytes) == FoldLeftDomain(LAMBDA sum, i : sum + bytes[i] * 2 ^ (ByteBits * (i - 1)), 0, bytes)

\* getByte, getChar, getShort, getInt, getLong: a value of n bytes.  Every build panics
\* if the elements have fewer bytes than their scale says.
GetBytes(o, offset, n, signed) ==
    LET at == offset - ArrayBaseOffset
        scale == ArrayIndexScale(heap[o].type)
        bytes == ArrayLeBytes(o, at, n)
        start == at % scale
        value == Assembled(SubSeq(bytes, start + 1, start + n))
    IN  IF o = NoReference \/ ~IsArray(o) THEN Answers(Throws("InternalError"))
        ELSE IF at < 0 \/ (at + n - 1) \div scale >= ArrayLength(o)
        THEN Answers(Throws("ArrayIndexOutOfBoundsException"))
        ELSE \/ start + n <= Len(bytes) /\ Answers(Value(IF signed THEN Signed(value, n) ELSE value))
             \/ (start + n > Len(bytes) \/ ShiftsTooFar(o, at, n)) /\ Answers(Panics)

\* putByte takes the offset for the index of an element.
PutByte(o, offset, v) ==
    LET index == offset - ArrayBaseOffset
    IN  IF o = NoReference \/ ~IsArray(o) THEN Answers(Throws("InternalError"))
        ELSE IF index \notin 0 .. ArrayLength(o) - 1 THEN Answers(Throws("ArrayIndexOutOfBoundsException"))
        ELSE /\ heap' = [heap EXCEPT ![o].elements[index + 1] = Slot("int", v)]
             /\ answer' = Value(0)
             /\ UNCHANGED registryVars
-----------------------------------------------------------------------------
(* One slot.  The division truncates: offsets inside an element are that element's. *)

Truncated(a, b) == IF a >= 0 THEN a \div b ELSE -((-a) \div b)
ArrayIndexFromOffset(type, offset) == Truncated(offset - ArrayBaseOffset, ArrayIndexScale(type))

\* The place, from 1, in the slots of the object; 0 if it has no such element.
SlotPlace(o, offset) ==
    IF IsArray(o)
    THEN LET i == ArrayIndexFromOffset(heap[o].type, offset) IN IF i \in 0 .. ArrayLength(o) - 1 THEN i + 1 ELSE 0
    ELSE offset + 1

\* The slot, or none; an offset that is no field of an instance panics.
ReadSlot(o, offset) ==
    IF o = NoReference THEN NoSlot
    ELSE IF IsArray(o) THEN IF SlotPlace(o, offset) = 0 THEN NoSlot ELSE heap[o].elements[SlotPlace(o, offset)]
    ELSE heap[o].slots[SlotPlace(o, offset)]
OffsetPanics(o, offset) == o # NoReference /\ ~IsArray(o) /\ SlotPlace(o, offset) \notin DOMAIN heap[o].slots

\* Write the slot and answer `result', or be refused.
WriteSlot(o, offset, slot, result) ==
    IF o = NoReference THEN Answers(Throws("InternalError"))
    ELSE IF OffsetPanics(o, offset) THEN Answers(Panics)
    ELSE IF SlotPlace(o, offset) = 0 THEN Answers(Throws("ArrayIndexOutOfBoundsException"))
    ELSE /\ heap' = IF IsArray(o) THEN [heap EXCEPT ![o].elements[SlotPlace(o, offset)] = slot]
                    ELSE [heap EXCEPT ![o].slots[SlotPlace(o, offset)] = slot]
         /\ answer' = result
         /\ UNCHANGED registryVars

\* Static fields, by the mirror of their class.
ReadStaticSlot(o, offset) ==
    LET lc == Get(heap[o].mirrors)
    IN  IF offset + 1 \in DOMAIN lc.storage
        THEN Slot(Fields(files[lc.name], TRUE)[offset + 1].type, lc.storage[offset + 1]) ELSE NoSlot
WriteStaticSlot(o, offset, slot) ==
    LET lc == Get(heap[o].mirrors)
    IN  IF offset + 1 \notin DOMAIN lc.storage THEN Answers(Throws("InternalError"))
        ELSE /\ Put([lc EXCEPT !.storage[offset + 1] = slot.value])
             /\ answer' = Value(0)
             /\ UNCHANGED <<files, defining, heap>>
-----------------------------------------------------------------------------
(* The natives.  `type' is that of the value: "int", "long" or "ref". *)

\* getIntVolatile, getLongVolatile, getReferenceVolatile: a slot of another type reads as zero.
GetVolatile(o, offset, type) ==
    LET slot == ReadSlot(o, offset)
    IN  Answers(IF o = NoReference /\ offset = NextThreadIdOffset /\ type = "long" THEN Value(nextThreadId)
                ELSE IF OffsetPanics(o, offset) THEN Panics
                ELSE Value(IF slot.type = type THEN slot.value ELSE 0))

\* getReference, which serves static fields too.
GetReference(o, offset) ==
    IF IsMirror(o)
    THEN LET slot == ReadStaticSlot(o, offset) IN Answers(Value(IF slot.type = "ref" THEN slot.value ELSE NoReference))
    ELSE GetVolatile(o, offset, "ref")

\* getInt: bytes of an array, the slot of a field.
GetInt(o, offset) ==
    IF o # NoReference /\ ~IsArray(o)
    THEN Answers(IF OffsetPanics(o, offset) THEN Panics
                 ELSE IF ReadSlot(o, offset).type = "int" THEN Value(ReadSlot(o, offset).value)
                 ELSE Throws("InternalError"))
    ELSE GetBytes(o, offset, 4, TRUE)

\* putInt, putIntVolatile, putReferenceVolatile.
PutVolatile(o, offset, type, v) == WriteSlot(o, offset, Slot(type, v), Value(0))
PutReference(o, offset, v) ==
    IF IsMirror(o) THEN WriteStaticSlot(o, offset, Slot("ref", v)) ELSE PutVolatile(o, offset, "ref", v)

\* compareAndSetInt, compareAndSetLong and compareAndSetReference (`exchanges' is FALSE),
\* compareAndExchangeInt: read, and write in a second step if what was read is as expected.
Witnessed(s) == Value(IF s.exchanges THEN s.expected ELSE 1)
SwapReads(t, s) ==
    LET slot == ReadSlot(s.o, s.offset)
    IN  /\ swapping[t] = NoSwap
        /\ IF s.o = NoReference /\ s.offset = NextThreadIdOffset /\ s.type = "long"
           THEN /\ Answers(Value(IF nextThreadId = s.expected THEN 1 ELSE 0))
                /\ nextThreadId' = IF nextThreadId = s.expected THEN s.new ELSE nextThreadId
                /\ UNCHANGED swapping
           ELSE IF OffsetPanics(s.o, s.offset) THEN Answers(Panics) /\ UNCHANGED <<swapping, nextThreadId>>
           ELSE IF slot = Slot(s.type, s.expected)
           THEN Answers(NoAnswer) /\ swapping' = [swapping EXCEPT ![t] = s] /\ UNCHANGED nextThreadId
           ELSE /\ Answers(Value(IF s.exchanges /\ slot.type = s.type THEN slot.value ELSE 0))
                /\ UNCHANGED <<swapping, nextThreadId>>
SwapWrites(t) ==
    LET s == swapping[t]
    IN  /\ s # NoSwap
        /\ WriteSlot(s.o, s.offset, Slot(s.type, s.new), Witnessed(s))
        /\ swapping' = [swapping EXCEPT ![t] = NoSwap]
        /\ UNCHANGED nextThreadId
=============================================================================
