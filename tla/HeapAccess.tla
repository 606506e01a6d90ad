---------------------------- MODULE HeapAccess ----------------------------
(***************************************************************************)
(* Threads that read and write one heap, beside Java's memory: every step  *)
(* of the virtual machine (Arrays, Unsafe) is compared with what Java      *)
(* makes of the same request to memory as it was before the step.  There   *)
(* an array of primitives is a sequence of bytes, an array of references a *)
(* sequence of those, a swap is one step, and a copy from one array to     *)
(* another that nobody disturbs is made at once.                           *)
(***************************************************************************)
EXTENDS Unsafe

CONSTANTS Programs         \* class files, heap, requests of each thread, number of requests

VARIABLES requests,        \* of every thread: what it may ask
          budget,          \* of every thread: how often it still may ask
          begun,           \* of every copy under way: memory when it began, and whether disturbed since
          expected,        \* what Java makes of the last step
          reasons          \* why the last step may be another than Java's

vars == <<unsafeVars, requests, budget, begun, expected, reasons>>
J == INSTANCE JavaClasses

\* Class files that name each other, without cycles, with Object on top.
Hierarchy(fs) ==
    /\ Object \in DOMAIN fs /\ NoClass \notin DOMAIN fs /\ DOMAIN fs \cap Primitives = {}
    /\ \A c \in DOMAIN fs : J!Above(fs, c) \subseteq DOMAIN fs
    /\ J!Above(fs, Object) = {}
    /\ \A c \in ArrayInterfaces \cap DOMAIN fs : J!Above(fs, c) \subseteq {Object}
    /\ \A S \in SUBSET DOMAIN fs : S # {} => \E c \in S : J!Above(fs, c) \cap S = {}

\* Objects of those classes, and arrays of references that hold what their components are.
Slots == [type : {"ref", "int"} \cup Primitives, value : Int]
ArrayTypes(fs) == (Nat \ {0}) \X (DOMAIN fs \cup Primitives)
ArrayObjects(fs) == [kind : {"array"}, type : ArrayTypes(fs), elements : Seq(Slots)]
HasClass(fs, object) ==
    \/ object.kind = "instance" /\ "class" \in DOMAIN object /\ object.class \in DOMAIN fs
    \/ object.kind = "lambda" /\ "sam" \in DOMAIN object /\ object.sam \in DOMAIN fs
OfReferences(object) == object.kind = "array" /\ IsReference(Component(object.type))
Fits(fs, h, type, slot) ==
    /\ slot.type = "ref" /\ slot.value \in 0 .. Len(h)
    /\ slot.value # NoReference => J!SubtypeIn(fs, TypeOf(h[slot.value]), Component(type))
Heap(fs, h) ==
    /\ h \in Seq(ToSet(h))
    /\ \A o \in DOMAIN h : "kind" \in DOMAIN h[o] /\ (h[o] \in ArrayObjects(fs) \/ HasClass(fs, h[o]))
    /\ \A o \in DOMAIN h : OfReferences(h[o]) =>
          \A i \in DOMAIN h[o].elements : Fits(fs, h, h[o].type, h[o].elements[i])

\* What verified bytecode and the class library ask for: arrays of as many dimensions as there
\* are counts, or more; nothing but references into an array of those, where it is Unsafe that
\* writes one the array may hold.
Asked(p, r) ==
    LET references(o) == o # NoReference /\ OfReferences(p.heap[o])
    IN  /\ r.op \in {"store", "put", "putByte", "putReference", "swap", "exchange"} =>
              r.o \in 0 .. Len(p.heap) /\ r.v \in Int /\ r.kind \in {"ref", "int"} \cup Primitives
        /\ r.op \in {"putByte", "putReference"} => (r.op = "putReference" <=> r.kind = "ref")
        /\ r.op = "store" => (references(r.o) => r.kind = "ref") /\ (r.kind = "ref" => r.v \in 0 .. Len(p.heap))
        /\ r.op \in {"put", "putByte", "putReference", "swap", "exchange"} /\ references(r.o) =>
              Fits(p.files, p.heap, p.heap[r.o].type, Slot(r.kind, r.v))
        /\ r.op = "new" => r.type \in ArrayTypes(p.files) /\ r.counts \in Seq(Int) /\ Len(r.counts) \in 1 .. r.type[1]
        /\ r.op = "copy" => r.copy \in [src : 0 .. Len(p.heap), srcPos : Int, dst : 0 .. Len(p.heap), dstPos : Int, n : Int]

ASSUME ProgramsAssumption ==
    \A p \in Programs :
        /\ Hierarchy(p.files) /\ Heap(p.files, p.heap)
        /\ \A t \in Threads : \A r \in p.requests[t] : Asked(p, r)
-----------------------------------------------------------------------------
(* Java's memory *)

Width(type) == LET e == Component(type)[2]
               IN  CASE e \in {"boolean", "byte"} -> 1 [] e \in {"char", "short"} -> 2
                     [] e \in {"int", "float"} -> 4    [] e \in {"long", "double"} -> 8
IsPrimitiveArray(o) == IsArray(o) /\ ~IsReference(Component(heap[o].type))
Bytes(v, n) == [i \in 1 .. n |-> Byte(v, i)]
Contents(object) ==
    IF object.kind = "array" /\ ~IsReference(Component(object.type))
    THEN LET w == Width(object.type)
         IN  [b \in 1 .. w * Len(object.elements) |->
                Byte(object.elements[(b - 1) \div w + 1].value, ((b - 1) % w) + 1)]
    ELSE LET slots == IF object.kind = "array" THEN object.elements ELSE object.slots
         IN  [i \in DOMAIN slots |-> slots[i].value]
Cells(o) == Contents(heap[o])
Memory == [objects |-> [o \in DOMAIN heap |-> Cells(o)],
           statics |-> [c \in DOMAIN classes |-> classes[c].storage], counter |-> nextThreadId]

Poked(cells, at, values) == [i \in DOMAIN cells |-> IF i - at \in DOMAIN values THEN values[i - at] ELSE cells[i]]
Typed(v, kind) ==
    CASE kind \in {"boolean", "byte"} -> Signed(v, 1) [] kind = "char" -> Unsigned(v, 2) [] kind = "short" -> Signed(v, 2)
      [] kind \in {"int", "float"} -> Signed(v, 4) [] kind \in {"long", "double"} -> Signed(v, 8) [] OTHER -> v
KindWidth(kind) == IF kind = "ref" THEN 1 ELSE Width(<<1, kind>>)

Expects(result, memory) == expected' = [answer |-> result, memory |-> memory, shape |-> <<>>]
\* Copies under way of which an array changes in this step.
Disturbed == [u \in Threads |->
                IF begun[u] # NoCopy /\ \E o \in {begun[u].c.src, begun[u].c.dst} : Contents(heap'[o]) # Cells(o)
                THEN [begun[u] EXCEPT !.disturbed = TRUE] ELSE begun[u]]
Because(applies) == reasons' = {r \in DOMAIN applies : applies[r]}
-----------------------------------------------------------------------------
(* Array instructions *)

JavaMayHold(o, r) == r = NoReference \/ J!Subtype(ObjectType(r), Component(heap[o].type))
OutOfRange(o, i) == i \notin 0 .. ArrayLength(o) - 1

Loads(r) ==
    LET w == Width(heap[r.o].type)
    IN  /\ ArrayLoad(r.o, r.i, r.kind)
        /\ Expects(IF r.o = NoReference THEN Throws("NullPointerException")
                   ELSE IF OutOfRange(r.o, r.i) THEN Throws("ArrayIndexOutOfBoundsException")
                   ELSE IF ~IsPrimitiveArray(r.o) THEN Value(Cells(r.o)[r.i + 1])
                   ELSE Value(Typed(Assembled(SubSeq(Cells(r.o), r.i * w + 1, r.i * w + w)), heap[r.o].type[2])),
                   Memory)
        /\ Because([elementOfOtherKind |-> /\ r.o # NoReference /\ ~OutOfRange(r.o, r.i)
                                           /\ heap[r.o].elements[r.i + 1].type # SlotOfKind(r.kind)])
        /\ begun' = Disturbed

Stores(r) ==
    LET type == heap[r.o].type
        w == Width(type)
        written == IF IsPrimitiveArray(r.o) THEN Bytes(IF type[2] = "boolean" THEN r.v % 2 ELSE r.v, w) ELSE <<r.v>>
        refused == r.o = NoReference \/ OutOfRange(r.o, r.i) \/ (r.kind = "ref" /\ ~JavaMayHold(r.o, r.v))
    IN  /\ ArrayStore(r.o, r.i, r.kind, r.v)
        /\ Expects(IF r.o = NoReference THEN Throws("NullPointerException")
                   ELSE IF OutOfRange(r.o, r.i) THEN Throws("ArrayIndexOutOfBoundsException")
                   ELSE IF refused THEN Throws("ArrayStoreException") ELSE Value(0),
                   IF refused THEN Memory
                   ELSE [Memory EXCEPT !.objects[r.o] = Poked(@, r.i * Len(written), written)])
        /\ Because([booleanKeepsItsBits |-> ~refused /\ type = <<1, "boolean">> /\ Byte(r.v, 1) \notin {0, 1}])
        /\ begun' = Disturbed

Lengths(r) ==
    /\ GetArrayLength(r.o)
    /\ Expects(IF r.o = NoReference THEN Throws("NullPointerException") ELSE Value(ArrayLength(r.o)), Memory)
    /\ Because(<<>>) /\ begun' = Disturbed

\* What Java allocates: arrays of arrays, down to as many dimensions as there are counts.
Allocates(r) ==
    /\ IF Len(r.counts) = 1 THEN NewArray(r.type, r.counts[1]) ELSE MultiNewArray(r.type, r.counts)
    /\ expected' = [memory |-> Memory,
                    answer |-> IF \E i \in DOMAIN r.counts : r.counts[i] < 0 THEN Throws("NegativeArraySizeException") ELSE answer',
                    shape  |-> IF \E i \in DOMAIN r.counts : r.counts[i] < 0 THEN <<>> ELSE <<r.type, r.counts>>]
    /\ Because(<<>>) /\ begun' = Disturbed
Builds(array, type, counts) ==
    LET arrays[d \in DOMAIN counts] ==    \* of the dth dimension
            {o \in {p \in DOMAIN heap : IsArray(p)} :
                LET elements == heap[o].elements
                IN  /\ heap[o].type = <<type[1] - d + 1, type[2]>> /\ Len(elements) = counts[d]
                    /\ IF d = Len(counts) THEN \A i \in DOMAIN elements : elements[i].value = 0
                       ELSE (\A i \in DOMAIN elements : elements[i].value \in arrays[d + 1]) /\ IsInjective(elements)}
    IN  array \in arrays[1]
-----------------------------------------------------------------------------
(* Copies *)

JavaRefusesCopy(c) ==
    LET src == heap[c.src].type
        dst == heap[c.dst].type
        outside(o, at) == at < 0 \/ at + c.n > ArrayLength(o)
    IN  CASE NoReference \in {c.src, c.dst} -> "NullPointerException"
          [] NoReference \notin {c.src, c.dst} /\ ~(IsArray(c.src) /\ IsArray(c.dst)) -> "ArrayStoreException"
          [] OTHER -> IF src # dst /\ (IsPrimitiveArray(c.src) \/ IsPrimitiveArray(c.dst)) THEN "ArrayStoreException"
                      ELSE IF c.n < 0 \/ outside(c.src, c.srcPos) \/ outside(c.dst, c.dstPos)
                      THEN "ArrayIndexOutOfBoundsException" ELSE ""

\* Memory of the destination once `n' elements are copied from what the source was.
Copied(b, n) ==
    LET w == IF IsPrimitiveArray(b.c.src) THEN Width(heap[b.c.src].type) ELSE 1
    IN  Poked(b.dst, b.c.dstPos * w, SubSeq(b.src, b.c.srcPos * w + 1, (b.c.srcPos + n) * w))

CopyStarts(t, r) ==
    /\ CopyBegins(t, r.copy)
    /\ Expects(IF JavaRefusesCopy(r.copy) # "" THEN Throws(JavaRefusesCopy(r.copy))
               ELSE IF r.copy.n = 0 THEN Value(0) ELSE NoAnswer, Memory)
    /\ begun' = [begun EXCEPT ![t] = IF copying'[t] = NoCopy THEN NoCopy
                                     ELSE [c |-> r.copy, src |-> Cells(r.copy.src), dst |-> Cells(r.copy.dst), disturbed |-> FALSE]]
    /\ Because(<<>>)

\* A copy ends whole, or before the first element the destination may not hold.
CopyReadsOn(t) ==
    LET b == begun[t]
        r == Cells(b.c.src)[b.c.srcPos + CopyIndex(copying[t]) + 1]
        refused == ~IsPrimitiveArray(b.c.src) /\ ~JavaMayHold(b.c.dst, r)
    IN  /\ CopyReads(t)
        /\ Expects(IF refused THEN Throws("ArrayStoreException") ELSE NoAnswer,
                   IF refused /\ ~b.disturbed THEN [Memory EXCEPT !.objects[b.c.dst] = Copied(b, copying[t].done)] ELSE Memory)
        /\ begun' = [begun EXCEPT ![t] = IF refused THEN NoCopy ELSE b]
        /\ Because(<<>>)

CopyWritesOn(t) ==
    LET b == begun[t]
        last == copying[t].done + 1 = b.c.n
    IN  /\ CopyWrites(t)
        /\ Expects(IF last THEN Value(0) ELSE NoAnswer,
                   [Memory EXCEPT !.objects[b.c.dst] =
                      IF last /\ ~b.disturbed THEN Copied(b, b.c.n) ELSE Contents(heap'[b.c.dst])])
        /\ begun' = [Disturbed EXCEPT ![t] = IF last THEN NoCopy ELSE b]
        /\ Because(<<>>)
-----------------------------------------------------------------------------
(* Unsafe.  An offset is a number, or that of a field of a class. *)

OffsetOf(at) ==
    CASE at.is = "number" -> at.n
      [] at.is = "field"  -> ObjectFieldOffset(at.class, at.name)
      [] at.is = "static" -> StaticFieldByName(at.class, at.name) - 1

\* The cells of a value of the kind: the object or class, the place before, the number.
JavaField(o, at) == Position(FlattenedInstanceFields(heap[o].class), LAMBDA f : f.name = at.name /\ f.in = at.class)
Before(r) == CASE r.at.is = "number" -> r.at.n - ArrayBaseOffset
               [] r.at.is = "field"  -> JavaField(r.o, r.at) - 1
               [] r.at.is = "static" -> StaticFieldByName(r.at.class, r.at.name) - 1
CellsReached(r) == IF r.at.is = "static" THEN Memory.statics[r.at.class] ELSE Cells(r.o)
CellCount(r) == IF IsArray(r.o) THEN KindWidth(r.kind) ELSE 1
Counter(r) == r.o = NoReference
JavaReads(r) ==
    IF Counter(r) THEN nextThreadId
    ELSE LET cells == SubSeq(CellsReached(r), Before(r) + 1, Before(r) + CellCount(r))
         IN  IF IsPrimitiveArray(r.o) THEN Typed(Assembled(cells), r.kind) ELSE cells[1]
JavaWrites(r) ==
    LET written == IF Counter(r) \/ ~IsPrimitiveArray(r.o) THEN <<r.v>> ELSE Bytes(r.v, KindWidth(r.kind))
    IN  IF Counter(r) THEN [Memory EXCEPT !.counter = r.v]
        ELSE IF r.at.is = "static" THEN [Memory EXCEPT !.statics[r.at.class] = Poked(@, Before(r), written)]
        ELSE [Memory EXCEPT !.objects[r.o] = Poked(@, Before(r), written)]

\* Java does not say what an access outside of the array does.
OutOfBounds(r) == ~Counter(r) /\ (Before(r) < 0 \/ Before(r) + CellCount(r) > Len(CellsReached(r)))

\* A whole slot is read or written; Java sees the bytes.
UnsafeReasons(r) ==
    LET type == heap[r.o].type
        inArray == ~Counter(r) /\ IsPrimitiveArray(r.o)
        wholeSlot == inArray /\ r.op # "get"
    IN  [accessOfOtherWidth |-> wholeSlot /\ (\/ Width(type) # KindWidth(r.kind)
                                              \/ r.kind # "byte" /\ SlotType(Component(type)) # r.kind),
         misalignedReachesElement |-> wholeSlot /\ Before(r) % Width(type) # 0,
         arrayOfOtherKinds |-> inArray /\ \E i \in DOMAIN heap[r.o].elements :
                                             heap[r.o].elements[i].type # SlotType(Component(type)),
         hiddenNameSharesSlot |-> r.at.is = "field" /\ Cardinality({f \in ToSet(FlattenedInstanceFields(heap[r.o].class)) :
                                                                      f.name = r.at.name}) > 1,
         onlyReferencesAreStatic |-> r.at.is = "static" /\ r.op \notin {"getReference", "putReference"},
         fieldsAreInts |-> r.at.is = "field" /\ r.op \in {"get", "putByte"} /\ r.kind # "int"]

\* What Java makes of the request, unless it is out of bounds.
Answering(r, result, memory, more) ==
    /\ ~OutOfBounds(r)
    /\ Expects(result, memory)
    /\ Because(UnsafeReasons(r) @@ more)
    /\ begun' = Disturbed

Gets(r) ==
    /\ CASE r.op = "getReference" -> GetReference(r.o, OffsetOf(r.at))
         [] r.op = "getVolatile"  -> GetVolatile(r.o, OffsetOf(r.at), r.kind)
         [] r.op = "get"          -> IF r.kind = "int" THEN GetInt(r.o, OffsetOf(r.at))
                                     ELSE GetBytes(r.o, OffsetOf(r.at), KindWidth(r.kind), r.kind # "char")
    /\ Answering(r, Value(JavaReads(r)), Memory, <<>>)
Puts(r) ==
    /\ CASE r.op = "putReference" -> PutReference(r.o, OffsetOf(r.at), r.v)
         [] r.op = "put"          -> PutVolatile(r.o, OffsetOf(r.at), r.kind, r.v)
         [] r.op = "putByte"      -> PutByte(r.o, OffsetOf(r.at), r.v)
    /\ Answering(r, Value(0), JavaWrites(r), <<>>)

\* Java's swap is one step: the last one here.
Swap(r) == [o |-> r.o, offset |-> OffsetOf(r.at), type |-> r.kind, expected |-> r.expected, new |-> r.v,
            exchanges |-> r.op = "exchange", asked |-> r]
JavaAnswersSwap(r) ==
    Value(IF r.op = "exchange" THEN JavaReads(r) ELSE IF JavaReads(r) = r.expected THEN 1 ELSE 0)
JavaSwaps(r) == IF JavaReads(r) = r.expected THEN JavaWrites(r) ELSE Memory
SwapStarts(t, r) ==
    LET goesOn == swapping'[t] # NoSwap
    IN  /\ SwapReads(t, Swap(r))
        /\ Answering(r, IF goesOn THEN NoAnswer ELSE JavaAnswersSwap(r), IF goesOn THEN Memory ELSE JavaSwaps(r), <<>>)
SwapEnds(t) ==
    LET r == swapping[t].asked
    IN  /\ SwapWrites(t)
        /\ Answering(r, JavaAnswersSwap(r), JavaSwaps(r), [swapRaced |-> JavaReads(r) # r.expected])
-----------------------------------------------------------------------------
Init ==
    /\ \E p \in Programs :
          /\ files = p.files /\ heap = p.heap /\ requests = p.requests /\ budget = p.budget
          /\ classes = [c \in DOMAIN p.files |-> FromClassFile(c)]
    /\ runtimeClasses = <<>> /\ defining = [t \in Definers |-> NoClass]
    /\ answer = NoAnswer
    /\ copying = [t \in Threads |-> NoCopy] /\ begun = [t \in Threads |-> NoCopy]
    /\ swapping = [t \in Threads |-> NoSwap] /\ nextThreadId = 1
    /\ expected = [answer |-> NoAnswer, memory |-> Memory, shape |-> <<>>] /\ reasons = {}

\* A thread asks for something new when it has no copy and no swap under way.
Asks(t) ==
    /\ copying[t] = NoCopy /\ swapping[t] = NoSwap /\ budget[t] > 0
    /\ budget' = [budget EXCEPT ![t] = @ - 1]
    /\ UNCHANGED requests
Requests(t, ops) == {r \in requests[t] : r.op \in ops}

\* A panic under the lock of the heap poisons it: nobody gets anything more done.
Poisoned == answer = Panics

Next == ~Poisoned /\ \E t \in Threads :
    \/ \E r \in Requests(t, {"load"})  : Asks(t) /\ Loads(r) /\ UNCHANGED <<copying, swapping, nextThreadId>>
    \/ \E r \in Requests(t, {"store"}) : Asks(t) /\ Stores(r) /\ UNCHANGED <<copying, swapping, nextThreadId>>
    \/ \E r \in Requests(t, {"length"}) : Asks(t) /\ Lengths(r) /\ UNCHANGED <<copying, swapping, nextThreadId>>
    \/ \E r \in Requests(t, {"new"})   : Asks(t) /\ Allocates(r) /\ UNCHANGED <<copying, swapping, nextThreadId>>
    \/ \E r \in Requests(t, {"get", "getVolatile", "getReference"}) :
          Asks(t) /\ Gets(r) /\ UNCHANGED <<copying, swapping, nextThreadId>>
    \/ \E r \in Requests(t, {"put", "putByte", "putReference"}) :
          Asks(t) /\ Puts(r) /\ UNCHANGED <<copying, swapping, nextThreadId>>
    \/ \E r \in Requests(t, {"copy"}) : Asks(t) /\ CopyStarts(t, r) /\ UNCHANGED <<swapping, nextThreadId>>
    \/ CopyReadsOn(t) /\ UNCHANGED <<requests, budget, swapping, nextThreadId>>
    \/ CopyWritesOn(t) /\ UNCHANGED <<requests, budget, swapping, nextThreadId>>
    \/ \E r \in Requests(t, {"swap", "exchange"}) : Asks(t) /\ SwapStarts(t, r) /\ UNCHANGED copying
    \/ SwapEnds(t) /\ UNCHANGED <<requests, budget, copying>>

Spec == Init /\ [][Next]_vars
-----------------------------------------------------------------------------
\* Whatever threads ask of arrays and of Unsafe, in any order, a step (array.rs,
\* arraycopy.rs, jdk_internal.rs) answers as Java does and leaves memory as Java would,
\* unless one of the reasons named above holds; and then it does not, except where the
\* reason only makes it depend on the values.
MayDiffer == {"accessOfOtherWidth", "misalignedReachesElement", "arrayOfOtherKinds", "hiddenNameSharesSlot",
              "onlyReferencesAreStatic"}
StepIsJavas ==
    LET old == DOMAIN expected.memory.objects
    IN  /\ answer = expected.answer
        /\ [Memory EXCEPT !.objects = [o \in old |-> Memory.objects[o]]] = expected.memory
        /\ expected.shape # <<>> => Builds(answer.value, expected.shape[1], expected.shape[2])
StepsAreJavas ==
    /\ reasons = {} => StepIsJavas
    /\ reasons \ MayDiffer # {} => ~StepIsJavas

\* An element of an array of references is null or an object of the component type, or of a
\* subtype, whatever other threads write while arrays are copied: the type of an element is
\* checked (array.rs, arraycopy.rs copy_elements) on the value that is written.
ArraysHoldTheirComponents ==
    \A o \in DOMAIN heap : IsArray(o) /\ ~IsPrimitiveArray(o) =>
        \A i \in DOMAIN heap[o].elements : JavaMayHold(o, heap[o].elements[i].value)
=============================================================================
