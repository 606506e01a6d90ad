---------------------------- MODULE MC_HeapAccess ----------------------------
(***************************************************************************)
(* Programs for HeapAccess: heaps of a few arrays and objects, and what    *)
(* each of two threads may ask.  A byte has two bits here.                 *)
(***************************************************************************)
EXTENDS HeapAccess

CONSTANTS t1, t2

CounterOffset == -100

Field(name, type, static) == [name |-> name, type |-> type, static |-> static]
ClassFile(super, fields) ==
    [super |-> super, interfaces |-> <<>>, fields |-> fields, methods |-> <<>>, interface |-> FALSE]
Files == "Object" :> ClassFile(NoClass, <<>>) @@
         "Class" :> ClassFile("Object", <<Field("name", "ref", FALSE)>>) @@
         "A" :> ClassFile("Object", <<Field("n", "int", FALSE), Field("r", "ref", FALSE), Field("k", "ref", TRUE),
                                      Field("c", "int", TRUE)>>) @@
         "B" :> ClassFile("A", <<Field("l", "long", FALSE)>>) @@
         "C" :> ClassFile("A", <<Field("n", "int", FALSE)>>)

An(class, slots) == [kind |-> "instance", class |-> class, slots |-> slots]
AnA == An("A", <<Slot("int", 0), Slot("ref", 0)>>)
AB  == An("B", <<Slot("int", 0), Slot("ref", 0), Slot("long", 0)>>)
Mirror(class) == [kind |-> "instance", class |-> "Class", slots |-> <<Slot("ref", 0)>>, mirrors |-> class]
ArrayOfAll(d, e, values) ==
    [kind |-> "array", type |-> <<d, e>>,
     elements |-> [i \in DOMAIN values |-> Slot(SlotType(<<d - 1, e>>), values[i])]]

Alone(objects, asked, n) ==
    [files |-> Files, heap |-> objects, requests |-> (t1 :> asked @@ t2 :> {}), budget |-> (t1 :> n @@ t2 :> 0)]
Together(objects, first, second, n) ==
    [files |-> Files, heap |-> objects, requests |-> (t1 :> first @@ t2 :> second), budget |-> (t1 :> n[1] @@ t2 :> n[2])]

Load(o, i, kind) == [op |-> "load", o |-> o, i |-> i, kind |-> kind]
Store(o, i, kind, v) == [op |-> "store", o |-> o, i |-> i, kind |-> kind, v |-> v]
LengthOf(o) == [op |-> "length", o |-> o]
NewOne(type, counts) == [op |-> "new", type |-> type, counts |-> counts]
Copy(src, srcPos, dst, dstPos, n) ==
    [op |-> "copy", copy |-> [src |-> src, srcPos |-> srcPos, dst |-> dst, dstPos |-> dstPos, n |-> n]]
Reads(op, o, at, kind) == [op |-> op, o |-> o, at |-> at, kind |-> kind]
Writes(op, o, at, kind, v) == [op |-> op, o |-> o, at |-> at, kind |-> kind, v |-> v]
Swaps(op, o, at, kind, old, v) == [op |-> op, o |-> o, at |-> at, kind |-> kind, expected |-> old, v |-> v]
Number(n) == [is |-> "number", n |-> n]
OfField(class, name) == [is |-> "field", class |-> class, name |-> name]
OfStatic(class, name) == [is |-> "static", class |-> class, name |-> name]
-----------------------------------------------------------------------------
(* Arrays of primitives: every index, every offset, values beyond a byte. *)

Kind(e) == IF e = "boolean" THEN "byte" ELSE e
PrimitiveRequests(e) ==
    {Load(1, i, Kind(e)) : i \in -1 .. 2} \cup {Store(1, i, Kind(e), v) : i \in -1 .. 2, v \in {1, 2, -7}}
    \cup {Reads("get", 1, Number(16 + b), kind) : b \in 0 .. 2 * Width(<<1, e>>) - 1, kind \in {"byte", "char", "int", "long"}}
    \cup {Writes("putByte", 1, Number(16 + b), "byte", 3) : b \in 0 .. 2}
    \cup {Reads("getVolatile", 1, Number(16 + b), "int") : b \in {0, 2, 4}}
    \cup {Writes("put", 1, Number(16 + b), "int", -7) : b \in {0, 2, 4}}
    \cup {LengthOf(o) : o \in {0, 1}}
PrimitivePrograms ==
    {Alone(<<ArrayOfAll(1, e, values)>>, PrimitiveRequests(e), 2) :
        e \in {"boolean", "byte", "char", "short", "int", "float", "long"}, values \in {<<0, 1>>, <<1, 0>>}}

AllocationPrograms ==
    {Alone(<<>>, {NewOne(<<d, e>>, counts) : e \in {"int", "A"}, counts \in {<<2>>, <<-1>>}, d \in {1, 2}}
                 \cup {NewOne(<<3, e>>, counts) : e \in {"int", "A"},
                         counts \in {<<2, 2>>, <<0, 2>>, <<2, 0>>, <<2, -1>>, <<1, 2, 2>>, <<2, 1, 0>>, <<0, -1, 1>>}}, 2)}
-----------------------------------------------------------------------------
(* Copies: within an array and between two, in and out of bounds, of types that *)
(* differ, while the other thread stores.                                        *)

CopyPrograms ==
    {Together(<<ArrayOfAll(1, "byte", <<1, 2, 3>>), ArrayOfAll(1, "byte", <<0, 1>>), ArrayOfAll(1, "short", <<1>>), AnA>>,
              {Copy(1, srcPos, dst, dstPos, n) : srcPos \in -1 .. 2, dst \in {1, 2}, dstPos \in -1 .. 2, n \in -1 .. 3}
              \cup {Copy(1, 0, dst, 0, n) : dst \in {0, 3, 4}, n \in {0, 1}} \cup {Copy(o, 0, 1, 0, 1) : o \in {0, 3, 4}},
              {Store(o, i, "byte", 0) : o \in {1, 2}, i \in 0 .. 1}, budgets) : budgets \in {<<1, 1>>, <<2, 0>>}}

\* Objects 1 and 2; arrays of Object, of B, of A, and of arrays of B.
Holders == <<AnA, AB, ArrayOfAll(1, "Object", <<2, 1, 2>>), ArrayOfAll(1, "B", <<0, 2, 0>>), ArrayOfAll(1, "A", <<1, 0, 2>>),
             ArrayOfAll(2, "B", <<4, 0>>), ArrayOfAll(2, "A", <<0, 5>>)>>
ReferenceStores == {Store(3, i, "ref", v) : i \in 0 .. 2, v \in {1, 2}} \cup {Store(4, 0, "ref", v) : v \in {0, 1, 2}}
                   \cup {Store(5, 1, "ref", v) : v \in {1, 3}} \cup {Store(7, 0, "ref", v) : v \in {4, 5, 3}}
ReferenceCopies == {Copy(src, 0, dst, 0, n) : src \in 3 .. 5, dst \in 3 .. 5, n \in {1, 3}}
                   \cup {Copy(src, 0, dst, 0, 2) : src \in {3, 6, 7}, dst \in {3, 6, 7}} \cup {Copy(3, 0, 3, 1, 2)}
ReferencePrograms == {Together(Holders, ReferenceCopies, ReferenceStores \cup ReferenceCopies, <<1, 1>>),
                      Together(Holders, ReferenceCopies, ReferenceStores, <<1, 2>>)}
-----------------------------------------------------------------------------
(* Fields and elements through Unsafe, with swaps by both threads; the counter.  *)

At(o, places, kind, old, new) ==
    UNION {{Swaps(op, o, at, kind, v, new) : v \in old, op \in IF kind = "int" THEN {"swap", "exchange"} ELSE {"swap"}}
             \cup {Reads("getVolatile", o, at, kind), Writes("put", o, at, kind, new)} : at \in places}
IntRequests(new) ==
    At(1, {OfField("A", "n")}, "int", {0, 1, 2}, new) \cup At(3, {OfField("C", "n"), OfField("A", "n")}, "int", {0, 1}, new)
    \cup At(4, {Number(16), Number(20), Number(18)}, "int", {0, 1}, new)
    \cup {Reads("get", 1, OfField("A", "n"), kind) : kind \in {"int", "byte"}} \cup {Writes("putByte", 1, OfField("A", "n"), "byte", new)}
ReferenceRequests(new) ==
    At(1, {OfField("A", "r")}, "ref", {0, 1}, new) \cup At(5, {Number(16), Number(17)}, "ref", {0, 1}, new)
    \cup {Reads("getReference", o, at, "ref") : <<o, at>> \in {<<1, OfField("A", "r")>>, <<6, OfStatic("A", "k")>>, <<5, Number(17)>>}}
    \cup {Writes("putReference", o, at, "ref", new) : <<o, at>> \in {<<1, OfField("A", "r")>>, <<6, OfStatic("A", "k")>>, <<5, Number(17)>>}}
    \cup {Reads("getVolatile", 6, OfStatic("A", "k"), "ref"), Writes("put", 6, OfStatic("A", "c"), "int", new)}
LongRequests(new) ==
    At(2, {OfField("B", "l")}, "long", {0, 1, 2}, new)
    \cup {Swaps("swap", 0, Number(NextThreadIdOffset), "long", v, new + 1) : v \in {1, 2, 3}}
    \cup {Reads("getVolatile", 0, Number(NextThreadIdOffset), "long")}
UnsafeHeap == <<AnA, AB, An("C", <<Slot("int", 0), Slot("ref", 0), Slot("int", 0)>>), ArrayOfAll(1, "int", <<0, 1>>),
                ArrayOfAll(1, "A", <<0, 1>>), Mirror("A")>>
UnsafePrograms == {Together(UnsafeHeap, IntRequests(1), IntRequests(2), <<2, 1>>),
                   Together(UnsafeHeap, ReferenceRequests(1), ReferenceRequests(2), <<2, 1>>),
                   Together(UnsafeHeap, LongRequests(1), LongRequests(2), <<2, 2>>)}

AllPrograms == PrimitivePrograms \cup AllocationPrograms \cup CopyPrograms \cup ReferencePrograms \cup UnsafePrograms
=============================================================================
