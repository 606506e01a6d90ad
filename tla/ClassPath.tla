------------------------------ MODULE ClassPath ------------------------------
(***************************************************************************)
(* A class path: archives in the order they were added, and the modules    *)
(* they are of (src/src/runtime/class_loader/class_path.rs); and what the  *)
(* loader asks of a class file it has found.                               *)
(*                                                                         *)
(* Adding gives the new path as a sequence of one, or Fails.               *)
(***************************************************************************)
EXTENDS ClassFileParser

LOCAL Archive == INSTANCE ZipReader

CONSTANTS ClassSuffix, ClassesPrefix, ModuleInfo     \* short names for .class, classes/, and module-info

EmptyPath == [containers |-> <<>>, modules |-> <<>>]

\* Names of entries are UTF-8.
Utf8(name) ==
    LET low(c, shift) == 128 + ((c \div shift) % 64)
        bytes(c) == CASE c < 128   -> <<c>>
                      [] c \in 128 .. 2047 -> <<192 + c \div 64, low(c, 1)>>
                      [] c \in 2048 .. 65535 -> <<224 + c \div 4096, low(c, 64), low(c, 1)>>
                      [] OTHER -> <<240 + c \div 262144, low(c, 4096), low(c, 64), low(c, 1)>>
    IN  FlattenSeq([i \in DOMAIN name |-> bytes(name[i])])
EntryOf(name) == Utf8(name \o ClassSuffix)
EntryUnderClasses(name) == Utf8(ClassesPrefix \o name \o ClassSuffix)

\* The entry of that name, Absent, or Fails if it cannot be read.
Entry(container, name) == IF Archive!HasEntry(container.zip, name) THEN Archive!ReadEntry(container.zip, name) ELSE Absent

\* What a container says of its module.  An entry that cannot be unpacked is as
\* none; one that cannot be parsed refuses the container.
ModuleOf(container) ==
    LET unpacked(name) == SelectSeq(<<Entry(container, name)>>, LAMBDA raw : raw \notin {Absent, Fails})
        infos == unpacked(EntryUnderClasses(ModuleInfo)) \o unpacked(EntryOf(ModuleInfo))
    IN  IF infos = <<>> THEN <<NoModule>> ELSE Then(Parse(infos[1][1]), LAMBDA file : ModuleDescriptor(file[1]))

\* Mutant: the first container of a module says what it is.
FirstDescribes(modules, name, module) == modules @@ (name :> module)
\* The last container of a module says what it is.
Describe(modules, name, module) == (name :> module) @@ modules

Add(path, bytes) ==
    LET named(zip, name, module) ==
            [containers |-> Append(path.containers, [zip |-> zip, module |-> name]),
             modules |-> IF name = NoName THEN path.modules ELSE Describe(path.modules, name, module)]
        added(zip, module) == named(zip, IF module = NoModule THEN NoName ELSE module.name, module)
    IN  Then(Archive!OpenZip(bytes),
             LAMBDA zip : Then(ModuleOf([zip |-> zip[1]]), LAMBDA module : <<added(zip[1], module[1])>>))

\* The class the first container has, under either of the two names: <<file, module>>.
LoadClass(path, name) ==
    LET has(c, entry) == Archive!HasEntry(c.zip, entry)
        hits == SelectSeq(path.containers, LAMBDA c : has(c, EntryOf(name)) \/ has(c, EntryUnderClasses(name)))
        entryIn(c) == IF has(c, EntryOf(name)) THEN EntryOf(name) ELSE EntryUnderClasses(name)
        from(c) == Then(Archive!ReadEntry(c.zip, entryIn(c)), LAMBDA raw : Then(Parse(raw[1]), LAMBDA file : <<file[1], c.module>>))
    IN  IF hits = <<>> THEN Absent ELSE from(hits[1])

\* One archive after the other is added to a new class path, until one cannot be opened.
OpenArchives(archives) ==
    LET further(done, bytes) == Then(done, LAMBDA opened : Add(opened[1], bytes))
    IN  FoldLeft(further, <<EmptyPath>>, archives)

-----------------------------------------------------------------------------
\* The names a class file refers to: those of its pool, and those its fields and
\* methods are declared with.
ClassOf(type) == IF type[2] THEN <<type[3]>> ELSE <<>>
NamesInField(descriptor) ==
  LET type == ParseFieldDescriptor(descriptor) IN IF type = Fails THEN <<>> ELSE ClassOf(type[1])
NamesInMethod(descriptor) ==
  LET types == ParseMethodDescriptor(descriptor)
      all == types[1] \o types[2]
  IN IF types = Fails THEN <<>> ELSE FlattenSeq([i \in DOMAIN all |-> ClassOf(all[i])])
ConstantAt(pool, i) == IF i \in DOMAIN pool THEN pool[i] ELSE Unusable
IsArray(n) == n # NoName /\ n[1] = OpenBracket

ReferencedNames(file) ==
  LET inPool(entry) == LET n == Utf8At(file.pool, entry.name)
                       IN IF IsArray(n) THEN NamesInField(n) ELSE IF n = NoName THEN <<>> ELSE <<n>>
      classEntries == SelectSeq(file.pool, LAMBDA entry : entry.tag = 7)
  IN FlattenSeq([i \in DOMAIN classEntries |-> inPool(classEntries[i])])
       \o FlattenSeq([f \in DOMAIN file.fields |-> NamesInField(Utf8At(file.pool, file.fields[f].descriptor))])
       \o FlattenSeq([m \in DOMAIN file.methods |-> NamesInMethod(Utf8At(file.pool, file.methods[m].descriptor))])

\* A class must have a name, and each of its fields a name and a type.
Sound(file) ==
  /\ ThisClassName(file) # NoName
  /\ \A f \in ToSet(file.fields) : /\ ConstantAt(file.pool, f.name).tag = 1
                                   /\ ParseFieldDescriptor(Utf8At(file.pool, f.descriptor)) # Fails

-----------------------------------------------------------------------------
(* What the run time sees of a class file: the description of it. *)

MethodAt(pool, i) ==
  LET nameAndType == ConstantAt(pool, ConstantAt(pool, i).nameAndType)
  IN <<NameAt(pool, ConstantAt(pool, i).class, 7), Utf8At(pool, nameAndType.name), Utf8At(pool, nameAndType.descriptor)>>
View(file) ==
  LET pool == file.pool
      class(i) == NameAt(pool, i, 7)
      member(m) == [access |-> m.access, name |-> Utf8At(pool, m.name), descriptor |-> Utf8At(pool, m.descriptor)]
      argument(i) == CASE pool[i].tag = 7 -> <<"class", class(i)>>
                       [] pool[i].tag = 8 -> <<"string", Utf8At(pool, pool[i].string)>>
                       [] pool[i].tag = 16 -> <<"methodType", Utf8At(pool, pool[i].descriptor)>>
      handler(h) == [start |-> h.start, end |-> h.end, handler |-> h.handler, type |-> IF h.type = 0 THEN NoName ELSE class(h.type)]
      code(d) == IF d = NoCode THEN <<>>
                 ELSE <<[stack |-> d.stack, locals |-> d.locals, code |-> d.code, handlers |-> [i \in DOMAIN d.handlers |-> handler(d.handlers[i])],
                         lines |-> [i \in DOMAIN d.lines |-> <<d.lines[i].start, d.lines[i].line>>]]>>
      bootstrap(b) == [method |-> <<pool[b.method].kind, MethodAt(pool, pool[b.method].reference)>>,
                       arguments |-> [i \in DOMAIN b.arguments |-> argument(b.arguments[i])]]
      bootstraps == BootstrapMethods(file)
      module == ModuleDescriptor(file)
      numbers == SelectSeq(pool, LAMBDA k : k.tag \in 3 .. 6)
      sites == SelectSeq(pool, LAMBDA k : k.tag \in {17, 18})
      site(k) == <<k.tag, k.bootstrap, Utf8At(pool, pool[k.nameAndType].name), Utf8At(pool, pool[k.nameAndType].descriptor)>>
  IN [access |-> file.access, name |-> ThisClassName(file), super |-> SuperClassName(file),
      interfaces |-> [i \in DOMAIN file.interfaces |-> class(file.interfaces[i])],
      numbers |-> [i \in DOMAIN numbers |-> <<numbers[i].tag, numbers[i].value>>], sites |-> [i \in DOMAIN sites |-> site(sites[i])],
      fields |-> [f \in DOMAIN file.fields |-> member(file.fields[f])],
      methods |-> [m \in DOMAIN file.methods |-> [code |-> code(file.codes[m])] @@ member(file.methods[m])],
      bootstraps |-> [b \in DOMAIN bootstraps |-> bootstrap(bootstraps[b])],
      source |-> SourceFileName(file),
      module |-> IF module \in {Fails, <<NoModule>>} THEN <<>> ELSE module]

\* Those of the names that a descriptor has.
Mentioned(descriptor, names) ==
  {n \in names : \E i \in DOMAIN descriptor :
     i + Len(n) < Len(descriptor) /\ SubSeq(descriptor, i, i + Len(n) + 1) = <<BeginsClass>> \o n \o <<EndsClass>>}

\* Which names the class of a description refers to.  This does not look at bytes.
ReferencesOf(c, names) ==
  LET inCode(code) == {code.handlers[i].type : i \in DOMAIN code.handlers}
      named(n) == IF IsArray(n) THEN Mentioned(n, names) ELSE {n}
      inModule(m) == ToSet(m.uses) \cup UNION {{p.service} \cup ToSet(p.with) : p \in ToSet(m.provides)}
  IN ({c.name, c.super} \cup ToSet(c.interfaces)
        \cup UNION {Mentioned(m.descriptor, names) : m \in ToSet(c.fields \o c.methods)}
        \cup UNION {inCode(code) : code \in UNION {ToSet(m.code) : m \in ToSet(c.methods)}}
        \cup UNION {{b.method[2][1]} \cup UNION {named(a[2]) : a \in {x \in ToSet(b.arguments) : x[1] = "class"}} : b \in ToSet(c.bootstraps)}
        \cup UNION {inModule(m) : m \in ToSet(c.module)}) \cap names
=============================================================================
