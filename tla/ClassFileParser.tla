--------------------------- MODULE ClassFileParser ---------------------------
(***************************************************************************)
(* From the bytes of a class file to the names the loader works with:      *)
(* src/src/classfile/parser.rs, attributes.rs, the constant pool           *)
(* (src/src/constant_pool/), and src/src/metadata/.                        *)
(*                                                                         *)
(* A name is the sequence of its characters.  The names of attributes are  *)
(* constants here; the integers, floats, longs and doubles of the pool     *)
(* stay bytes.                                                             *)
(***************************************************************************)
EXTENDS ByteReader

CONSTANTS CodeName, LineNumbersName, BootstrapName, SourceName, ModuleName   \* names of attributes

NoName == <<>>
-----------------------------------------------------------------------------
(* The constant pool *)

\* What follows each tag.
ConstantForm(tag) ==
    LET named(x) == Struct(<<x>>, <<U(2)>>)
        reference == Struct(<<"class", "nameAndType">>, <<U(2), U(2)>>)
        dynamic == Struct(<<"bootstrap", "nameAndType">>, <<U(2), U(2)>>)
    IN  CASE tag = 1              -> Struct(<<"value">>, <<String>>)
          [] tag \in {3, 4}       -> Struct(<<"value">>, <<Raw(4)>>)
          [] tag \in {5, 6}       -> Struct(<<"value">>, <<Raw(8)>>)
          [] tag \in {7, 19, 20}  -> named("name")
          [] tag = 8              -> named("string")
          [] tag \in {9, 10, 11}  -> reference
          [] tag = 12             -> Struct(<<"name", "descriptor">>, <<U(2), U(2)>>)
          [] tag = 15             -> Struct(<<"kind", "reference">>, <<U(1), U(2)>>)
          [] tag = 16             -> named("descriptor")
          [] tag \in {17, 18}     -> dynamic
Tags == (1 .. 20) \ {2, 13, 14}
Unusable == [tag |-> 0]

\* Mutant: a long is one entry.
SlotOnly(tag) == <<>>
\* A long or double is followed by an entry nobody may use.
SlotsAfter(tag) == IF tag \in {5, 6} THEN <<Unusable>> ELSE <<>>

\* A pool in progress is <<entries, position>>; the first entry has index 1.  The index after
\* the last one has two bytes: a long or double with index 65534 has no room.
MostIndex == 65535
ParseEntry(b, pool) ==
    LET entries(tag, entry) == pool[1] \o <<[tag |-> tag] @@ entry[1]>> \o SlotsAfter(tag)
        with(tag, entry) == Unless(Len(entries(tag, entry)) + 1 > MostIndex, <<entries(tag, entry), entry[2]>>)
        entryOf(tag, from) == Then(Read(ConstantForm(tag), b, from), LAMBDA entry : with(tag, entry))
    IN  Then(Read(U(1), b, pool[2]), LAMBDA tag : Unless(tag[1] \notin Tags, entryOf(tag[1], tag[2])))

\* Entries until the pool has count - 1 of them, 2^n at most.
RECURSIVE Entries(_, _, _, _)
Entries(b, count, pool, n) ==
    IF pool = Fails THEN Fails
    ELSE IF Len(pool[1]) + 1 >= count THEN pool
    ELSE IF n = 0 THEN ParseEntry(b, pool)
    ELSE Entries(b, count, Entries(b, count, pool, n - 1), n - 1)
ParsePool(b, at) == Then(Read(U(2), b, at), LAMBDA count : Entries(b, count[1], <<<<>>, count[2]>>, 16))

\* The name behind an index: of a string, or of an entry with that tag that has a name.
Utf8At(pool, i) == IF i \in DOMAIN pool /\ pool[i].tag = 1 THEN pool[i].value ELSE NoName
NameAt(pool, i, tag) == IF i \in DOMAIN pool /\ pool[i].tag = tag THEN Utf8At(pool, pool[i].name) ELSE NoName
-----------------------------------------------------------------------------
(* Attributes, fields and methods *)

AttributeForm == Struct(<<"name", "info">>, <<U(2), Counted(4)>>)
MemberForm == Struct(<<"access", "name", "descriptor", "attributes">>, <<U(2), U(2), U(2), Table(AttributeForm)>>)
HandlerForm == Struct(<<"start", "end", "handler", "type">>, <<U(2), U(2), U(2), U(2)>>)
CodeForm == Struct(<<"stack", "locals", "code", "handlers", "attributes">>,
                   <<U(2), U(2), Counted(4), Table(HandlerForm), Table(AttributeForm)>>)
LineForm == Struct(<<"start", "line">>, <<U(2), U(2)>>)
BootstrapForm == Struct(<<"method", "arguments">>, <<U(2), Table(U(2))>>)
RequiresForm == Struct(<<"module", "flags", "version">>, <<U(2), U(2), U(2)>>)
ExportsForm == Struct(<<"package", "flags", "to">>, <<U(2), U(2), Table(U(2))>>)
ProvidesForm == Struct(<<"service", "with">>, <<U(2), Table(U(2))>>)
ModuleForm == Struct(<<"name", "flags", "version", "requires", "exports", "opens", "uses", "provides">>,
                     <<U(2), U(2), U(2), Table(RequiresForm), Table(ExportsForm), Table(ExportsForm), Table(U(2)),
                       Table(ProvidesForm)>>)
ClassForm == Struct(<<"access", "this", "super", "interfaces", "fields", "methods", "attributes">>,
                    <<U(2), U(2), U(2), Table(U(2)), Table(MemberForm), Table(MemberForm), Table(AttributeForm)>>)

\* The first attribute of that name, as a sequence of none or one.
Attribute(attributes, pool, name) ==
    LET hits == SelectSeq(attributes, LAMBDA a : Utf8At(pool, a.name) = name)
    IN  IF hits = <<>> THEN <<>> ELSE <<hits[1]>>

\* An attribute before the one looked for has a name that is no entry of the pool.
Misnamed(attributes, pool, name) ==
    \E i \in DOMAIN attributes : /\ attributes[i].name \notin DOMAIN pool
                                 /\ \A j \in 1 .. i : Utf8At(pool, attributes[j].name) # name

NoCode == [found |-> FALSE]
WithLines(code, pool) ==
    LET table == Attribute(code.attributes, pool, LineNumbersName)
    IN  Unless(Misnamed(code.attributes, pool, LineNumbersName),
               IF table = <<>> THEN <<[lines |-> <<>>] @@ code>>
               ELSE Then(Read(Table(LineForm), table[1].info, 0), LAMBDA lines : <<[lines |-> lines[1]] @@ code>>))
ResolveCode(method, pool) ==
    LET attribute == Attribute(method.attributes, pool, CodeName)
    IN  Unless(Misnamed(method.attributes, pool, CodeName),
               IF attribute = <<>> THEN <<NoCode>>
               ELSE Then(Read(CodeForm, attribute[1].info, 0), LAMBDA code : WithLines(code[1], pool)))
-----------------------------------------------------------------------------
(* The class file.  Bytes after its end are not looked at. *)

Magic == <<202, 254, 186, 190>>
WithCodes(class, pool) ==
    LET codes == [m \in DOMAIN class.methods |-> ResolveCode(class.methods[m], pool)]
    IN  Unless(\E m \in DOMAIN codes : codes[m] = Fails,
               <<[pool |-> pool, codes |-> [m \in DOMAIN codes |-> codes[m][1]]] @@ class>>)
Parse(b) ==
    LET class(pool) == Then(Read(ClassForm, b, pool[2]), LAMBDA read : WithCodes(read[1], pool[1]))
    IN  Then(ReadAll(<<Raw(4), U(2), U(2)>>, b, 0),
             LAMBDA header : Unless(header[1][1] # Magic, Then(ParsePool(b, header[2]), class)))

ThisClassName(cf) == NameAt(cf.pool, cf.this, 7)
SuperClassName(cf) == NameAt(cf.pool, cf.super, 7)

\* An attribute that cannot be read is as none.
BootstrapMethods(cf) ==
    LET attribute == Attribute(cf.attributes, cf.pool, BootstrapName)
        methods == Read(Table(BootstrapForm), attribute[1].info, 0)
    IN  IF attribute = <<>> THEN <<>> ELSE IF methods = Fails THEN <<>> ELSE methods[1]
SourceFileName(cf) ==
    LET attribute == Attribute(cf.attributes, cf.pool, SourceName)
        index == Read(U(2), attribute[1].info, 0)
    IN  IF attribute = <<>> THEN NoName ELSE IF index = Fails THEN NoName ELSE Utf8At(cf.pool, index[1])
-----------------------------------------------------------------------------
(* The descriptor of a module: the names behind the indices of its attribute. *)

NoModule == [named |-> FALSE]
ModuleNameAt(pool, i) == NameAt(pool, i, 19)
ModuleNames(m, pool) ==
    LET version(i) == IF i = 0 THEN NoName ELSE Utf8At(pool, i)
        packages(es) == [i \in DOMAIN es |-> [package |-> NameAt(pool, es[i].package, 20), flags |-> es[i].flags,
                                              to |-> [k \in DOMAIN es[i].to |-> ModuleNameAt(pool, es[i].to[k])]]]
        classes(is) == [i \in DOMAIN is |-> NameAt(pool, is[i], 7)]
    IN  [name |-> ModuleNameAt(pool, m.name), flags |-> m.flags, version |-> version(m.version),
         requires |-> [i \in DOMAIN m.requires |-> [module |-> ModuleNameAt(pool, m.requires[i].module),
                                                    flags |-> m.requires[i].flags,
                                                    version |-> version(m.requires[i].version)]],
         exports |-> packages(m.exports), opens |-> packages(m.opens), uses |-> classes(m.uses),
         provides |-> [i \in DOMAIN m.provides |-> [service |-> NameAt(pool, m.provides[i].service, 7),
                                                    with |-> classes(m.provides[i].with)]]]

\* Every index must lead to a name of its kind, except that 0 is no version.
Unresolved(m, pool) ==
    LET isModule(i) == NameAt(pool, i, 19) # NoName
        isClass(i) == NameAt(pool, i, 7) # NoName
        isVersion(i) == i = 0 \/ Utf8At(pool, i) # NoName
        resolved(es) == \A i \in DOMAIN es : /\ NameAt(pool, es[i].package, 20) # NoName
                                             /\ \A k \in DOMAIN es[i].to : isModule(es[i].to[k])
    IN  ~ /\ isModule(m.name) /\ isVersion(m.version)
          /\ \A i \in DOMAIN m.requires : isModule(m.requires[i].module) /\ isVersion(m.requires[i].version)
          /\ resolved(m.exports) /\ resolved(m.opens)
          /\ \A i \in DOMAIN m.uses : isClass(m.uses[i])
          /\ \A i \in DOMAIN m.provides : /\ isClass(m.provides[i].service)
                                          /\ \A k \in DOMAIN m.provides[i].with : isClass(m.provides[i].with[k])

ModuleDescriptor(cf) ==
    LET attribute == Attribute(cf.attributes, cf.pool, ModuleName)
        described(m) == Unless(Unresolved(m, cf.pool), <<ModuleNames(m, cf.pool)>>)
    IN  IF attribute = <<>> THEN <<NoModule>>
        ELSE Then(Read(ModuleForm, attribute[1].info, 0), LAMBDA module : described(module[1]))
-----------------------------------------------------------------------------
(* Descriptors.  A type is <<dimensions, whether of a class, letter or name>>. *)

Letters == {66, 67, 68, 70, 73, 74, 83, 90}                         \* B C D F I J S Z
OpenBracket == 91
BeginsClass == 76                                                    \* L
EndsClass == 59                                                      \* ;
OpensParameters == 40
EndsParameters == 41
Void == 86                                                           \* V

\* The type that begins at i, with the position behind it.
RECURSIVE ParseFieldType(_, _)
ParseFieldType(s, i) ==
    LET ends == {k \in i + 1 .. Len(s) : s[k] = EndsClass}
        end == CHOOSE k \in ends : \A l \in ends : k <= l
        arrayOf(component) == <<[component[1] EXCEPT ![1] = @ + 1], component[2]>>
    IN  CASE i > Len(s)           -> Fails
          [] s[i] \in Letters     -> <<<<0, FALSE, <<s[i]>>>>, i + 1>>
          [] s[i] = BeginsClass   -> IF ends = {} THEN Fails
                                     ELSE Unless(end = i + 1, <<<<0, TRUE, SubSeq(s, i + 1, end - 1)>>, end + 1>>)
          [] s[i] = OpenBracket   -> Then(ParseFieldType(s, i + 1), arrayOf)
          [] OTHER                -> Fails

\* The whole of s is one type.
ParseFieldDescriptor(s) == Then(ParseFieldType(s, 1), LAMBDA type : Unless(type[2] # Len(s) + 1, <<type[1]>>))

\* The types from i on, up to the end of the parameters.
RECURSIVE Parameters(_, _)
Parameters(s, i) ==
    LET before(type, more) == <<<<type>> \o more[1], more[2]>>
    IN  IF i <= Len(s) /\ s[i] = EndsParameters THEN <<<<>>, i + 1>>
        ELSE Then(ParseFieldType(s, i), LAMBDA type : Then(Parameters(s, type[2]), LAMBDA more : before(type[1], more)))

\* Parameter types, and the type of the result as none or one.
ParseMethodDescriptor(s) ==
    LET giving(parameters, rest) ==
            IF rest = <<Void>> THEN <<parameters, <<>>>> ELSE Then(ParseFieldDescriptor(rest), LAMBDA type : <<parameters, type>>)
    IN  IF s = <<>> THEN Fails
        ELSE IF s[1] # OpensParameters THEN Fails
        ELSE Then(Parameters(s, 2), LAMBDA all : giving(all[1], SubSeq(s, all[2], Len(s))))
=============================================================================
