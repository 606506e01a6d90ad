--------------------------- MODULE ClassFileFormat ---------------------------
(***************************************************************************)
(* What the files of a class path look like, by their specifications: the  *)
(* class file (JVMS 4), DEFLATE (RFC 1951) and the zip archive (APPNOTE).  *)
(* The operators write what is to be read, and share nothing with the      *)
(* readers.                                                                *)
(*                                                                         *)
(* A class is described by                                                 *)
(*   [access, name, super, interfaces, numbers, sites, fields, methods,    *)
(*    bootstraps, source, module]                                                      *)
(* with names as sequences of characters, and methods, modules and         *)
(* bootstrap methods described alike, without any index.                   *)
(***************************************************************************)
EXTENDS Integers, SequencesExt

CONSTANTS Attributes     \* the names of the attributes, by what they hold

B1(n) == <<n>>
B2(n) == <<n \div 256, n % 256>>
B4(n) == <<n \div 2 ^ 24, (n \div 65536) % 256, (n \div 256) % 256, n % 256>>
Little2(n) == Reverse(B2(n))
Little4(n) == Reverse(B4(n))

\* The parts one after the other, and the same behind their number.
RECURSIVE Joined(_, _, _)
Joined(parts, i, j) ==
    LET half == (i + j) \div 2
    IN  CASE i > j -> <<>> [] i = j -> parts[i] [] i < j -> Joined(parts, i, half) \o Joined(parts, half + 1, j)
All(s, Part(_)) == Joined([i \in DOMAIN s |-> Part(s[i])], 1, Len(s))
Several(s, Part(_)) == B2(Len(s)) \o All(s, Part)
Sized(bytes) == B4(Len(bytes)) \o bytes

\* Modified UTF-8: 0 takes two bytes, and a supplementary character two surrogates.
ModifiedUtf8(name) ==
    LET low(u) == 128 + (u % 64)
        unit(u) == CASE u \in 1 .. 127 -> <<u>>
                     [] u \in {0} \cup 128 .. 2047 -> <<192 + (u \div 64), low(u)>>
                     [] OTHER -> <<224 + (u \div 4096), low(u \div 64), low(u)>>
    IN  All(name, LAMBDA c : IF c < 65536 THEN unit(c)
                             ELSE unit(55296 + ((c - 65536) \div 1024)) \o unit(56320 + ((c - 65536) % 1024)))

\* UTF-8.
InUtf8(name) ==
    LET low(u) == 128 + (u % 64)
    IN  All(name, LAMBDA c : CASE c < 128   -> <<c>>
                               [] c \in 128 .. 2047 -> <<192 + (c \div 64), low(c)>>
                               [] c \in 2048 .. 65535 -> <<224 + (c \div 4096), low(c \div 64), low(c)>>
                               [] c > 65535 -> <<240 + (c \div 262144), low(c \div 4096), low(c \div 64), low(c)>>)
-----------------------------------------------------------------------------
(* The constant pool.  A constant is <<kind, what it holds>>; those it refers *)
(* to come before it, and numbers before all others.  A number is <<tag,      *)
(* bytes>>, a site of invokedynamic or a dynamic constant <<tag, which        *)
(* bootstrap method, name, descriptor>>.                                      *)

Kinds == [utf8 |-> 1, class |-> 7, string |-> 8, field |-> 9, method |-> 10, interfaceMethod |-> 11, nameAndType |-> 12, handle |-> 15,
          methodType |-> 16, module |-> 19, package |-> 20]
\* What a handle of a kind refers to.
Referred(kind) == IF kind <= 4 THEN "field" ELSE IF kind = 9 THEN "interfaceMethod" ELSE "method"

Utf8Constant(s) == <<<<"utf8", s>>>>
NamedConstant(kind, n) == Utf8Constant(n) \o <<<<kind, n>>>>
NameAndTypeConstants(n, d) == Utf8Constant(n) \o Utf8Constant(d) \o <<<<"nameAndType", <<n, d>>>>>>
HandleConstants(h) ==
    NamedConstant("class", h[2][1]) \o NameAndTypeConstants(h[2][2], h[2][3]) \o <<<<Referred(h[1]), h[2]>>, <<"handle", h>>>>

ConstantsOf(c) ==
    LET class(n) == NamedConstant("class", n)
        attribute(a, used) == IF used THEN Utf8Constant(Attributes[a]) ELSE <<>>
        code(d) == attribute("code", TRUE) \o All(d.handlers, LAMBDA h : IF h.type = <<>> THEN <<>> ELSE class(h.type))
                       \o attribute("lines", d.lines # <<>>)
        member(m) == Utf8Constant(m.name) \o Utf8Constant(m.descriptor)
        packages(es) == All(es, LAMBDA e : NamedConstant("package", e.package) \o All(e.to, LAMBDA t : NamedConstant("module", t)))
        version(v) == IF v = <<>> THEN <<>> ELSE Utf8Constant(v)
        module(m) == attribute("module", TRUE) \o NamedConstant("module", m.name) \o version(m.version)
                         \o All(m.requires, LAMBDA r : NamedConstant("module", r.module) \o version(r.version))
                         \o packages(m.exports) \o packages(m.opens) \o All(m.uses, class)
                         \o All(m.provides, LAMBDA p : class(p.service) \o All(p.with, class))
    IN  All(c.numbers, LAMBDA v : <<<<"number", v>>>>) \o All(c.sites, LAMBDA t : NameAndTypeConstants(t[3], t[4]) \o <<<<"site", t>>>>)
            \o class(c.name) \o (IF c.super = <<>> THEN <<>> ELSE class(c.super))
            \o All(c.interfaces, class) \o All(c.fields, member)
            \o All(c.methods, LAMBDA m : member(m) \o All(m.code, code))
            \o attribute("bootstraps", c.bootstraps # <<>>)
            \o All(c.bootstraps, LAMBDA b : HandleConstants(b.method) \o All(b.arguments, LAMBDA a : NamedConstant(a[1], a[2])))
            \o attribute("source", c.source # <<>>) \o Utf8Constant(c.source) \o All(c.module, module)

\* A long or double takes two indices.
IndexAt(pool, i) == i + Cardinality({j \in 1 .. i - 1 : pool[j][1] = "number" /\ pool[j][2][1] \in {5, 6}})
IndexIn(pool, constant) ==
    IndexAt(pool, CHOOSE i \in DOMAIN pool : pool[i] = constant /\ \A j \in 1 .. i - 1 : pool[j] # constant)
-----------------------------------------------------------------------------
(* The class file *)

WriteWith(pool, c) ==
    LET index(kind, held) == B2(IndexIn(pool, <<kind, held>>))
        utf8(n) == index("utf8", n)
        class(n) == index("class", n)
        orNone(n, i) == IF n = <<>> THEN B2(0) ELSE i
        reference(m) == class(m[1]) \o index("nameAndType", <<m[2], m[3]>>)
        held(k) ==
            CASE k[1] = "utf8" -> B2(Len(ModifiedUtf8(k[2]))) \o ModifiedUtf8(k[2])
              [] k[1] \in {"class", "string", "methodType", "module", "package"} -> utf8(k[2])
              [] k[1] = "nameAndType" -> utf8(k[2][1]) \o utf8(k[2][2])
              [] k[1] \in {"field", "method", "interfaceMethod"} -> reference(k[2])
              [] k[1] = "handle" -> B1(k[2][1]) \o index(Referred(k[2][1]), k[2][2])
        constant(k) ==
            CASE k[1] = "number" -> B1(k[2][1]) \o k[2][2]
              [] k[1] = "site" -> B1(k[2][1]) \o B2(k[2][2]) \o index("nameAndType", <<k[2][3], k[2][4]>>)
              [] OTHER -> B1(Kinds[k[1]]) \o held(k)
        attribute(a, info) == utf8(Attributes[a]) \o Sized(info)
        handler(h) == B2(h.start) \o B2(h.end) \o B2(h.handler) \o orNone(h.type, class(h.type))
        lines(d) == attribute("lines", Several(d.lines, LAMBDA l : B2(l[1]) \o B2(l[2])))
        code(d) == attribute("code", B2(d.stack) \o B2(d.locals) \o Sized(d.code) \o Several(d.handlers, handler)
                                         \o (IF d.lines = <<>> THEN B2(0) ELSE B2(1) \o lines(d)))
        member(m, attributes) == B2(m.access) \o utf8(m.name) \o utf8(m.descriptor) \o attributes
        flagged(e) == index("package", e.package) \o B2(e.flags) \o Several(e.to, LAMBDA t : index("module", t))
        required(r) == index("module", r.module) \o B2(r.flags) \o orNone(r.version, utf8(r.version))
        module(m) == attribute("module", index("module", m.name) \o B2(m.flags) \o orNone(m.version, utf8(m.version))
                         \o Several(m.requires, required) \o Several(m.exports, flagged) \o Several(m.opens, flagged)
                         \o Several(m.uses, class)
                         \o Several(m.provides, LAMBDA p : class(p.service) \o Several(p.with, class)))
        bootstrap(b) == index("handle", b.method) \o Several(b.arguments, LAMBDA a : index(a[1], a[2]))
        attributes == (IF c.bootstraps = <<>> THEN <<>> ELSE <<attribute("bootstraps", Several(c.bootstraps, bootstrap))>>)
                          \o (IF c.source = <<>> THEN <<>> ELSE <<attribute("source", utf8(c.source))>>)
                          \o [i \in DOMAIN c.module |-> module(c.module[i])]
    IN  <<202, 254, 186, 190>> \o B2(0) \o B2(65) \o B2(IndexAt(pool, Len(pool) + 1)) \o All(pool, constant)
            \o B2(c.access) \o class(c.name) \o orNone(c.super, class(c.super)) \o Several(c.interfaces, class)
            \o Several(c.fields, LAMBDA f : member(f, B2(0)))
            \o Several(c.methods, LAMBDA m : member(m, Several(m.code, code)))
            \o Several(attributes, LAMBDA a : a)
WriteClass(c) == WriteWith(ConstantsOf(c), c)
-----------------------------------------------------------------------------
(* DEFLATE.  A stream is a sequence of bits; numbers go in with their low bit *)
(* first, Huffman codes with their high bit first.                            *)

NumberBits(v, n) == [i \in 1 .. n |-> (v \div 2 ^ (i - 1)) % 2]
InBytes(bits) ==
    LET bit(k) == IF k <= Len(bits) THEN bits[k] ELSE 0
        byte(i) == bit(8 * i - 7) + 2 * bit(8 * i - 6) + 4 * bit(8 * i - 5) + 8 * bit(8 * i - 4)
                   + 16 * bit(8 * i - 3) + 32 * bit(8 * i - 2) + 64 * bit(8 * i - 1) + 128 * bit(8 * i)
    IN  [i \in 1 .. (Len(bits) + 7) \div 8 |-> byte(i)]

\* RFC 1951, 3.2.2: of two codes, the shorter comes first, and of the same length
\* that of the lesser symbol.
CodeOf(lengths) ==
    LET shorter(s) == {t \in DOMAIN lengths : 0 < lengths[t] /\ lengths[t] < lengths[s]}
        before(s) == {t \in DOMAIN lengths : lengths[t] = lengths[s] /\ t < s}
        value(s) == FoldLeft(LAMBDA v, n : v + Cardinality({t \in shorter(s) : lengths[t] = n}) * 2 ^ (lengths[s] - n),
                             Cardinality(before(s)), [n \in 1 .. lengths[s] |-> n])
    IN  [s \in DOMAIN lengths |-> Reverse(NumberBits(value(s), lengths[s]))] @@ <<>>      \* a table, for TLC

\* A literal is <<byte>>, a copy <<length, distance>>.  A copy takes what the bytes
\* have at the largest of the distances where they agree, and not more than `longest' of them.
RECURSIVE Tokens(_, _, _, _)
Tokens(bytes, i, distances, longest) ==
    LET agrees(d, n) == \A k \in 0 .. n - 1 : i + k <= Len(bytes) /\ bytes[i + k] = bytes[i + k - d]
        usable == {d \in distances : i > d /\ agrees(d, 3)}
        distance == CHOOSE d \in usable : \A e \in usable : e <= d
        length == CHOOSE n \in 3 .. longest : agrees(distance, n) /\ (n = longest \/ ~agrees(distance, n + 1))
    IN  IF i > Len(bytes) THEN <<>>
        ELSE IF usable # {} THEN <<<<length, distance>>>> \o Tokens(bytes, i + length, distances, longest)
        ELSE <<<<bytes[i]>>>> \o Tokens(bytes, i + 1, distances, longest)

\* What tokens stand for.
RECURSIVE Expand(_, _)
Expand(tokens, bytes) ==
    LET t == Head(tokens)
        copied == [i \in 1 .. t[1] |-> bytes[Len(bytes) - t[2] + 1 + ((i - 1) % t[2])]]
    IN  IF tokens = <<>> THEN bytes
        ELSE IF Len(t) = 1 THEN Expand(Tail(tokens), bytes \o t) ELSE Expand(Tail(tokens), bytes \o copied)
Expanded(tokens) == Expand(tokens, <<>>)

\* <<symbol, extra bits, their number>> of a length and of a distance.
Log(n) == CHOOSE k \in 0 .. 15 : 2 ^ k <= n /\ n < 2 ^ (k + 1)
LengthSymbol(length) ==
    LET x == length - 3
        e == Log(x) - 2
    IN  IF length = 258 THEN <<285, 0, 0>> ELSE IF x < 8 THEN <<257 + x, 0, 0>>
        ELSE <<257 + 4 * e + (x \div 2 ^ e), x % (2 ^ e), e>>
DistanceSymbol(distance) ==
    LET y == distance - 1
        e == Log(y) - 1
    IN  IF y < 4 THEN <<y, 0, 0>> ELSE <<2 * e + (y \div 2 ^ e), y % (2 ^ e), e>>

EndOfBlock == 256
Coded(tokens, literals, distances) ==
    LET extra(s) == NumberBits(s[2], s[3])
        copy(length, distance) == literals[length[1]] \o extra(length) \o distances[distance[1]] \o extra(distance)
    IN  All(tokens, LAMBDA t : IF Len(t) = 1 THEN literals[t[1]] ELSE copy(LengthSymbol(t[1]), DistanceSymbol(t[2])))
            \o literals[EndOfBlock]

FixedLiteralCodes == CodeOf([s \in 0 .. 287 |-> IF s <= 143 THEN 8 ELSE IF s <= 255 THEN 9 ELSE IF s <= 279 THEN 7 ELSE 8])
FixedDistanceCodes == CodeOf([s \in 0 .. 29 |-> 5])

Block(last, type) == <<last>> \o NumberBits(type, 2)
Stored(last, bytes) ==                                              \* at the beginning of a byte
    InBytes(Block(last, 0)) \o Little2(Len(bytes)) \o Little2(65535 - Len(bytes)) \o bytes
FixedBits(last, tokens) == Block(last, 1) \o Coded(tokens, FixedLiteralCodes, FixedDistanceCodes)

\* Codes of the writer's own: most literals in 8 bits, a few symbols in 10, and two
\* distances.  All the ways to say a length are used.
OwnLiteralCodes == CodeOf([s \in 0 .. 261 |-> IF s < 254 THEN 8 ELSE 10])
OwnDistanceCodes == CodeOf([s \in 0 .. 15 |-> IF s \in {3, 15} THEN 1 ELSE 0])
LengthCodes == CodeOf([s \in 0 .. 18 |-> IF s < 13 THEN 4 ELSE 5])
LengthOrder == <<16, 17, 18, 0, 8, 7, 9, 6, 10, 5, 11, 4, 12, 3, 13, 2, 14, 1, 15>>
DynamicBits(last, tokens) ==
    LET plain(n, times) == FlattenSeq([i \in 1 .. times |-> LengthCodes[n]])
        again(times) == LengthCodes[16] \o NumberBits(times - 3, 2)
        zeros(times) == IF times < 11 THEN LengthCodes[17] \o NumberBits(times - 3, 3)
                                      ELSE LengthCodes[18] \o NumberBits(times - 11, 7)
    IN  Block(last, 2) \o NumberBits(262 - 257, 5) \o NumberBits(16 - 1, 5) \o NumberBits(19 - 4, 4)
            \o All(LengthOrder, LAMBDA s : NumberBits(IF s < 13 THEN 4 ELSE 5, 3))
            \o plain(8, 2) \o FlattenSeq([i \in 1 .. 42 |-> again(6)]) \o plain(10, 2) \o again(6)
            \o zeros(3) \o plain(1, 1) \o zeros(11) \o plain(1, 1)
            \o Coded(tokens, OwnLiteralCodes, OwnDistanceCodes)
-----------------------------------------------------------------------------
(* The archive.  An entry is [name, method, bytes], with the bytes as they lie *)
(* in the archive; `prefix' is what the file has before it.                    *)

WriteZip(prefix, entries, comment) ==
    LET local(e) == <<80, 75, 3, 4>> \o B2(0) \o B2(0) \o Little2(e.method) \o B4(0) \o B4(0) \o Little4(Len(e.bytes))
                        \o B4(0) \o Little2(Len(e.name)) \o Little2(Len(e.extra)) \o e.name \o e.extra \o e.bytes
        offset(i) == Len(All(SubSeq(entries, 1, i - 1), local))
        central(i) == LET e == entries[i]
                      IN  <<80, 75, 1, 2>> \o B2(0) \o B2(0) \o B2(0) \o Little2(e.method) \o B4(0) \o B4(0)
                              \o Little4(Len(e.bytes)) \o B4(0) \o Little2(Len(e.name)) \o B2(0) \o Little2(Len(e.note))
                              \o B2(0) \o B2(0) \o B4(0) \o Little4(offset(i)) \o e.name \o e.note
        directory == FlattenSeq([i \in DOMAIN entries |-> central(i)])
    IN  prefix \o All(entries, local) \o directory
            \o <<80, 75, 5, 6>> \o B2(0) \o B2(0) \o Little2(Len(entries)) \o Little2(Len(entries))
            \o Little4(Len(directory)) \o Little4(Len(All(entries, local))) \o Little2(Len(comment)) \o comment
=============================================================================
