--------------------------- MODULE MC_ClosureLoader ---------------------------
(***************************************************************************)
(* The class paths to load from, described and then written as bytes, and  *)
(* the programs that load from them.                                       *)
(*                                                                         *)
(* App and Util refer to each other; Object and Throwable are stubs, and   *)
(* only Object is on a class path.  Names are one character long, short    *)
(* stand-ins for .class and the like too; those of Wide need two and six   *)
(* bytes in a class file, and two and four in an archive.                  *)
(***************************************************************************)
EXTENDS ClassFileFormat, FiniteSets, ClassPath, ClosureLoader

Nameless == <<>>
NoClass == [class |-> "none"]
BrokenClass == [class |-> "broken"]
App == <<97>>
Util == <<117>>
Library == <<108>>
Object == <<79>>
Throwable == <<84>>
Missing == <<120>>
Wide == <<196, 128512>>
Info == <<109>>                                                      \* module-info
AllNames == {App, Util, Library, Object, Throwable, Missing, Wide, <<91, 76>> \o App \o <<59>>}
AttributeNames == [code |-> <<67>>, lines |-> <<78>>, bootstraps |-> <<66>>, source |-> <<83>>, module |-> <<77>>]
-----------------------------------------------------------------------------
(* The classes.  Their code is not run, and need not be code. *)

TypeOf(n) == <<76>> \o n \o <<59>>                                   \* L...;
ArrayOf(n) == <<91, 91>> \o TypeOf(n)
Taking(n, m) == <<40, 73>> \o ArrayOf(n) \o <<91, 74>> \o TypeOf(m) \o <<41, 86>>
Giving(n) == <<40, 41>> \o TypeOf(n)
Plain(n) == [access |-> 33, name |-> n, super |-> Object, interfaces |-> <<>>, numbers |-> <<>>, sites |-> <<>>, fields |-> <<>>, methods |-> <<>>,
             bootstraps |-> <<>>, source |-> Nameless, module |-> <<>>]
Method(n, descriptor, code) == [access |-> 9, name |-> n, descriptor |-> descriptor, code |-> code]
Field(n, descriptor) == [access |-> 8, name |-> n, descriptor |-> descriptor]
Body(code, handlers, lines) == <<[stack |-> 2, locals |-> 300, code |-> code, handlers |-> handlers, lines |-> lines]>>

TheApp ==
  [Plain(App) EXCEPT !.numbers = <<<<5, <<0, 0, 0, 0, 255, 255, 255, 255>>>>, <<3, <<127, 1, 2, 3>>>>, <<6, <<128, 0, 0, 0, 0, 0, 0, 7>>>>,
                                   <<4, <<255, 1, 2, 3>>>>>>,
                     !.sites = <<<<18, 0, <<115>>, Giving(Object)>>, <<17, 258, <<116>>, TypeOf(Object)>>>>,
                     !.fields = <<Field(<<102>>, ArrayOf(Util)), Field(<<0, 8364>>, <<73>>)>>,
                     !.methods = <<Method(<<103>>, Taking(Missing, App), <<>>)>>,
                     !.source = <<97, 46, 106>>]
TheUtil ==
  [Plain(Util) EXCEPT !.super = Throwable,
     !.interfaces = <<App>>,
     !.methods = <<Method(<<103>>, Giving(App), Body(<<3, 172, 0, 1, 177>>,
                      <<[start |-> 0, end |-> 2, handler |-> 2, type |-> Throwable],
                        [start |-> 0, end |-> 260, handler |-> 4, type |-> Nameless]>>, <<<<0, 7>>, <<2, 258>>>>)),
                   Method(<<104>>, Giving(Util), Body(<<4, 4, 4, 4>>, <<>>, <<>>))>>,
     !.bootstraps = <<[method |-> <<6, <<Library, <<98>>, Giving(Object)>>>>, arguments |-> <<<<"class", App>>, <<"class", ArrayOf(Util)>>, <<"string", <<115>>>>, <<"methodType", Giving(App)>>>>],
                      [method |-> <<9, <<App, <<104>>, Giving(App)>>>>, arguments |-> <<>>],
                      [method |-> <<1, <<App, <<102>>, TypeOf(App)>>>>, arguments |-> <<>>]>>]
TheLibrary == Plain(Library)
TheObject == [Plain(Object) EXCEPT !.super = Nameless, !.methods = <<Method(<<104>>, Giving(Library), <<>>)>>]
TheWide == [Plain(Wide) EXCEPT !.fields = <<Field(Wide, TypeOf(Wide))>>, !.source = Wide \o <<0>>]
\* A method with that code, and one with a mark every so many bytes.
WithCode(code) == [Plain(Library) EXCEPT !.methods = <<Method(<<103>>, Giving(Library), Body(code, <<>>, <<>>))>>]
Marked(every, length) == WithCode([i \in 1 .. length |-> IF i % every = 0 THEN 9 ELSE 4])
Untyped == [Plain(Library) EXCEPT !.fields = <<Field(<<102>>, <<81>>)>>]
Other == [Plain(Library) EXCEPT !.source = <<111>>]

Package == <<112>>
ModuleCalled(n, m) ==
  [Plain(Info) EXCEPT !.super = Nameless,
     !.module = <<[name |-> n, flags |-> 32, version |-> m,
                   requires |-> <<[module |-> <<114>>, flags |-> 32768, version |-> <<57>>], [module |-> <<115>>, flags |-> 0, version |-> Nameless]>>,
                   exports |-> <<[package |-> Package, flags |-> 0, to |-> <<<<115>>, <<114>>>>], [package |-> n, flags |-> 0, to |-> <<>>]>>,
                   opens |-> <<[package |-> Package, flags |-> 4096, to |-> <<<<114>>>>]>>,
                   uses |-> <<Util>>, provides |-> <<[service |-> App, with |-> <<Util, Library>>]>>]>>]
-----------------------------------------------------------------------------
(* An archive is described by its items, and what is around them.  An item is *)
(* a class, where it lies, how it is packed, and what was done to it: to the   *)
(* bytes of the class ("class"), or to the packed bytes ("packed").            *)

Untouched == [at |-> "nowhere", cut |-> 0, set |-> <<>>]
Item(c) == [class |-> c, as |-> c.name, inClasses |-> FALSE, method |-> "stored", distances |-> {1}, longest |-> 258,
            stream |-> <<>>, harm |-> Untouched]
By(item, method) == [item EXCEPT !.method = method]
\* The writer's own codes are for one distance and for short copies.
Dynamic(item, method) == [By(item, method) EXCEPT !.distances = {4}, !.longest = 7]
InClasses(item) == [item EXCEPT !.inClasses = TRUE]
Harmed(item, at, cut, set) == [item EXCEPT !.harm = [at |-> at, cut |-> cut, set |-> set]]
Archive(items) == [items |-> items, prefix |-> <<>>, comment |-> <<>>, cut |-> 0, set |-> <<>>, opens |-> TRUE]

\* `set' replaces bytes at the places in its domain, negative ones from the end.
Harm(bytes, harm) ==
  LET place(i) == IF i \in DOMAIN harm.set THEN i ELSE i - Len(bytes) - 1
      changed == [i \in DOMAIN bytes |-> IF place(i) \in DOMAIN harm.set THEN harm.set[place(i)] ELSE bytes[i]]
  IN SubSeq(changed, 1, Len(bytes) - harm.cut)
\* The bytes of a class with its code as these tokens.
Around(bytes, tokens) ==
  LET start == CHOOSE i \in DOMAIN bytes : SubSeq(bytes, i, i + 3) = <<4, 5, 6, 7>>
      end == start + Len(Expanded(tokens))
      literals(i, j) == [k \in 1 .. j - i + 1 |-> <<bytes[i + k - 1]>>]
  IN FixedBits(0, literals(1, start - 1)) \o FixedBits(0, tokens) \o FixedBits(1, literals(end, Len(bytes)))
Packs(item, bytes) ==
  LET tokens(from) == Tokens(from, 1, item.distances, item.longest)
      half == SubSeq(bytes, 1, 30)
      rest == SubSeq(bytes, 31, Len(bytes))
  IN CASE item.method \in {"stored", "unknown"} -> bytes
       [] item.method = "raw"     -> InBytes(item.stream)
       [] item.method = "blocks"  -> Stored(0, half) \o Stored(1, rest)
       [] item.method = "fixed"   -> InBytes(FixedBits(1, tokens(bytes)))
       [] item.method = "dynamic" -> InBytes(DynamicBits(1, tokens(bytes)))
       [] item.method = "copies"  -> InBytes(Around(bytes, item.stream))
       [] item.method = "mixed"   -> InBytes(DynamicBits(0, tokens(half)) \o FixedBits(1, tokens(rest)))
Methods == [stored |-> 0, blocks |-> 8, fixed |-> 8, dynamic |-> 8, mixed |-> 8, copies |-> 8, raw |-> 8, unknown |-> 12]

Written(archive) ==
  LET harmed(item, at, bytes) == IF item.harm.at = at THEN Harm(bytes, item.harm) ELSE bytes
      packed(item) == harmed(item, "packed", Packs(item, harmed(item, "class", WriteClass(item.class))))
      entry(item) == [name |-> IF item.inClasses THEN InUtf8(<<99, 47>> \o item.as \o <<46>>) ELSE InUtf8(item.as \o <<46>>), method |-> Methods[item.method],
                      bytes |-> packed(item), extra |-> <<1, 2>>, note |-> <<3>>]
      entries == [i \in DOMAIN archive.items |-> entry(archive.items[i])]
  IN Harm(WriteZip(archive.prefix, entries, archive.comment), archive)

Sane(item) == item.harm = Untouched /\ item.method \notin {"unknown", "raw"}
Hits(archive, n) ==
  SelectSeq(archive.items, LAMBDA item : item.as = n /\ ~item.inClasses) \o SelectSeq(archive.items, LAMBDA item : item.as = n /\ item.inClasses)
\* A class is taken from the first archive that has it, and there from its top level.
First(archives, n) ==
  LET having == SelectSeq(archives, LAMBDA archive : Hits(archive, n) # <<>>)
  IN IF having = <<>> THEN <<>> ELSE <<Hits(having[1], n)[1], having[1]>>
PackedIn(archives) ==
  [n \in AllNames |-> LET first == First(archives, n)
                      IN IF first = <<>> THEN NoClass ELSE IF Sane(first[1]) THEN first[1].class ELSE BrokenClass]

\* The module of an archive: that of the first description that can be unpacked, the one under
\* classes/ before the other.
ModuleIn(archive) ==
  LET unpacked(item) == item.as = Info /\ item.harm.at # "packed" /\ item.method \notin {"unknown", "raw"}
      infos == SelectSeq(archive.items, LAMBDA item : unpacked(item) /\ item.inClasses)
                 \o SelectSeq(archive.items, LAMBDA item : unpacked(item) /\ ~item.inClasses)
  IN IF infos = <<>> THEN <<>> ELSE infos[1].class.module
ModulesIn(archives) ==
  LET name(archive) == IF ModuleIn(archive) = <<>> THEN Nameless ELSE ModuleIn(archive)[1].name
      of(n) == LET first == First(archives, n) IN IF first = <<>> THEN Nameless ELSE name(first[2])
      telling == SelectSeq(archives, LAMBDA archive : ModuleIn(archive) # <<>>)
      last(m) == Last(SelectSeq(telling, LAMBDA archive : name(archive) = m))
  IN [of |-> [n \in AllNames |-> of(n)],
      descriptors |-> [m \in {name(telling[i]) : i \in DOMAIN telling} |-> ModuleIn(last(m))[1]]]
-----------------------------------------------------------------------------
(* The class paths *)

One(item) == <<Archive(<<item>>)>>
OfLibrary == Item(TheLibrary)

\* App, Util, Library and Object, and the same with Library damaged.
Whole(library) == <<Archive(<<Item(TheApp), Item(TheUtil), library, InClasses(By(Item(TheObject), "fixed"))>>)>>
MainPaths == <<Whole(OfLibrary), Whole(Harmed(OfLibrary, "class", 1, <<>>))>>

\* In every packing, with copies of all kinds of lengths from all kinds of distances.
Distances == <<1, 2, 3, 4, 5, 6, 7, 8, 9, 12, 13, 16, 17, 24, 25, 32, 33, 48, 49, 64, 65, 96, 97, 128, 129, 192, 193, 256, 257, 384,
               385, 512, 513, 768, 769, 1024>>
Lengths == <<3, 4, 5, 6, 7, 8, 9, 10, 11, 12, 13, 18, 19, 22, 23, 30, 31, 34, 35, 42, 43, 50, 51, 66, 67, 82, 83, 98, 99, 114, 115, 130, 131, 162, 163, 194, 195,
             226, 227, 257, 258>>
Copies == <<<<4>>, <<5>>, <<6>>, <<7>>, <<258, 1>>, <<258, 2>>, <<258, 3>>, <<258, 4>>>>
            \o [i \in DOMAIN Lengths |-> <<Lengths[i], Distances[1 + (i % Len(Distances))]>>]
PackedPaths ==
  <<One(By(OfLibrary, "blocks")), One(By(OfLibrary, "fixed")), One(Dynamic(OfLibrary, "dynamic")),
    One(Dynamic(Item(Marked(4, 40)), "mixed")),
    One([By(Item(WithCode(Expanded(Copies))), "copies") EXCEPT !.stream = Copies])>>

\* Several entries of one name, prefixes and comments, modules, and a class of another name than its entry.
ModuleOne == ModuleCalled(<<113>>, <<49>>)
ModuleTwo == ModuleCalled(<<113>>, Nameless)
SoundPaths ==
  <<<<Archive(<<Item(Other)>>), Archive(<<OfLibrary>>)>>,
    <<Archive(<<InClasses(OfLibrary), Item(Other)>>)>>,
    <<Archive(<<Item(Other), OfLibrary>>)>>,
    <<[Archive(<<InClasses(OfLibrary)>>) EXCEPT !.prefix = <<74, 77, 1, 0>>, !.comment = <<1, 2, 3>>]>>,
    <<[Archive(<<OfLibrary>>) EXCEPT !.comment = <<1, 2, 3>>, !.cut = 2]>>,
    <<Archive(<<InClasses(Item(ModuleOne)), Item(ModuleTwo), OfLibrary>>), Archive(<<Item(ModuleTwo), Item(TheObject)>>)>>,
    <<Archive(<<InClasses(By(Item(ModuleOne), "unknown")), Item(ModuleTwo), OfLibrary>>)>>,
    <<Archive(<<By(Item(ModuleOne), "unknown"), OfLibrary>>)>>,
    <<Archive(<<[OfLibrary EXCEPT !.as = Missing]>>)>>,
    <<Archive(<<Item(TheWide), OfLibrary>>)>>>>

\* A class cut anywhere, and classes and packings with one fault.
OfUtil == Item(TheUtil)
Cuts == [k \in 1 .. 351 |-> One(Harmed(OfUtil, "class", k, <<>>))]
Faults == <<1 :> 0, 11 :> 2, 11 :> 21, 14 :> 0, 14 :> 128, 14 :> 195, 14 :> 240, 17 :> 9, (-1) :> 1>>
FaultsInCode == <<(-49) :> 255, (-48) :> 255, (-45) :> 41, (-45) :> 43, (-45) :> 45, (-40) :> 255, (-5) :> 1, (-3) :> 1>>
FaultsInBlock == <<1 :> 7, 4 :> 0, 3 :> 1>>
BadStreams ==
  LET dynamic(literals, lengths) == Block(1, 2) \o NumberBits(literals, 5) \o NumberBits(15, 5)
                                      \o NumberBits(15, 4) \o FlattenSeq([i \in 1 .. 19 |-> NumberBits(lengths[i], 3)])
      own == [i \in 1 .. 19 |-> IF LengthOrder[i] < 13 THEN 4 ELSE 5]
      zeros == LengthCodes[18] \o NumberBits(127, 7)
  IN <<<<1, 1, 1>>, <<1>>,
       FixedBits(1, <<<<9>>, <<3, 2>>>>),
       Block(1, 1) \o FixedLiteralCodes[286],
       Block(1, 1) \o FixedLiteralCodes[9] \o FixedLiteralCodes[257] \o <<1, 1, 1, 1, 0>>,
       dynamic(30, own), dynamic(5, [i \in 1 .. 19 |-> 1]),
       dynamic(5, own) \o LengthCodes[16] \o <<0, 0>>,
       dynamic(5, own) \o zeros \o zeros \o zeros,
       dynamic(5, own) \o zeros>>
DamagedPaths ==
  Cuts
    \o [i \in DOMAIN Faults |-> One(Harmed(OfLibrary, "class", 0, Faults[i]))]
    \o [i \in DOMAIN FaultsInCode |-> One(Harmed(Item(Marked(3, 30)), "class", 0, FaultsInCode[i]))]
    \o [i \in DOMAIN FaultsInBlock |-> One(Harmed(By(OfLibrary, "blocks"), "packed", 0, FaultsInBlock[i]))]
    \o [i \in DOMAIN BadStreams |-> One([By(OfLibrary, "raw") EXCEPT !.stream = BadStreams[i]])]
    \o [k \in 1 .. 8 |-> One(Harmed(By(OfLibrary, "fixed"), "packed", 2 * k, <<>>))]
    \o [k \in 1 .. 8 |-> One(Harmed(Dynamic(OfLibrary, "dynamic"), "packed", 20 * k, <<>>))]
    \o <<One(By(OfLibrary, "unknown")), One(Harmed(Item(Untyped), "described", 0, <<>>)),
         <<[Archive(<<Harmed(OfLibrary, "directory", 0, <<>>)>>) EXCEPT !.set = (-50) :> 255]>>>>

\* Archives nobody can open.
Closed(archive) == <<[archive EXCEPT !.opens = FALSE]>>
LibraryArchive == Archive(<<OfLibrary>>)
ClosedPaths ==
  [k \in 1 .. 146 |-> Closed([LibraryArchive EXCEPT !.cut = k])]
    \o [i \in 1 .. 5 |-> Closed([LibraryArchive EXCEPT !.set = <<1 :> 0, (-22) :> 0, (-71) :> 0, (-12) :> 2, (-8) :> 1>>[i]])]
    \o <<Closed(Archive(<<Harmed(Item(ModuleOne), "class", 1, <<>>), OfLibrary>>)),
         <<LibraryArchive, [LibraryArchive EXCEPT !.cut = 1, !.opens = FALSE]>>>>

Described == MainPaths \o PackedPaths \o SoundPaths \o DamagedPaths \o ClosedPaths
Contents == LET paths == Described IN [p \in DOMAIN paths |-> PackedIn(paths[p]) @@ <<>>] @@ <<>>
AllModules == LET paths == Described IN [p \in DOMAIN paths |-> ModulesIn(paths[p])] @@ <<>>
RootOf(items) == IF Library \in {item.as : item \in ToSet(items)} THEN Library ELSE items[1].as
Roots == LET paths == Described IN [p \in DOMAIN paths |-> RootOf(paths[p][1].items)] @@ <<>>
BytesOf(p) == [a \in DOMAIN Described[p] |-> Written(Described[p][a])]
ContentOf(p, n) == Contents[p][n]
ModulesOf(p) == AllModules[p]
IsClosed(p) == \E a \in DOMAIN Described[p] : ~Described[p][a].opens
-----------------------------------------------------------------------------
(* The programs *)

StubNames == {Object, Throwable}
Suffix == <<46>>
Prefix == <<99, 47>>
CodeAttribute == AttributeNames.code
LinesAttribute == AttributeNames.lines
BootstrapAttribute == AttributeNames.bootstraps
SourceAttribute == AttributeNames.source
ModuleAttribute == AttributeNames.module
OpenedPath(p) == OpenArchives(BytesOf(p))
AllDescriptions == LET contents == Contents IN {contents[p][n] : p \in DOMAIN contents, n \in AllNames} \ {NoClass, BrokenClass}
AllReferences == [c \in AllDescriptions |-> ReferencesOf(c, AllNames)] @@ <<>>
ReferencesToNames(c) == AllReferences[c]

RefsOfStubs == (Throwable :> <<Throwable, Object>>) @@ [n \in AllNames |-> <<n>>]

\* One program calls up to three times, over the first two paths; the others use one path each, once.
MostCalls == 3
SeveralCalls == [paths |-> {1, 2}, roots |-> {App, Util, Library, Object}, calls |-> MostCalls, supplies |-> {Missing}]
OneCall(p, n) == [paths |-> {p}, roots |-> {n}, calls |-> 1, supplies |-> {}]
AllPrograms == LET roots == Roots IN {SeveralCalls} \cup {OneCall(p, roots[p]) : p \in DOMAIN roots \ {1, 2}}

ASSUME OrderlyPrograms == \A use \in AllPrograms : Orderly(use)
=============================================================================
