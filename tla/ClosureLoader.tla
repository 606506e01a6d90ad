---------------------------- MODULE ClosureLoader ----------------------------
(***************************************************************************)
(* Loading before the VM exists: load_closure walks the references of a    *)
(* root class breadth first and replaces the synthetic stubs of the class  *)
(* registry by the classes of the class path, so that run-time resolution  *)
(* only meets loaded classes (class_loader/loader.rs, class_path.rs,       *)
(* oops/klass.rs).  A program calls it for several roots, and again after  *)
(* a call has failed.                                                      *)
(*                                                                         *)
(* What the readers of archives and class files make of a class path are   *)
(* parameters; ClassPath has them.  A definition named after the one below *)
(* it is that one with a fault a programmer could have made.               *)
(***************************************************************************)
EXTENDS Naturals, Sequences, FiniteSets

CONSTANTS
  Names,     \* names of classes and arrays
  Stubs,     \* synthetic classes installed in every new registry
  StubRefs,  \* StubRefs[n]: what the stub named n refers to
  Programs,  \* the paths and roots a program uses, in how many calls, and the classes it
             \* hands to ClassRegistry::load itself
  Open(_),           \* a class path opened, as a sequence of one, or Unreadable
  ClassIn(_, _),     \* what is found there under a name: <<class file, module>>,
                     \* NotFound or Unreadable
  NameOf(_), NamesIn(_), IsSound(_),  \* of a class file: its own name, those it refers to,
                     \* and whether it makes a class
  Unreadable, NotFound, IsArrayName(_), NoModuleName,
  Packed(_, _),      \* the description of a class that was packed into a class path
  Nothing, Damaged,  \* what that is if the path has no such class, or has it damaged
  DescriptionOf(_),  \* the description that a class file fits
  RefersTo(_),       \* the names that the class of a description refers to
  PackedModules(_),  \* what was packed into a class path about modules
  Refused(_)         \* whether one of the archives of a class path is damaged

Paths == UNION {use.paths : use \in Programs}

ASSUME LoaderAssumption ==
  /\ Stubs \subseteq Names
  /\ StubRefs \in [Names -> Seq(Names)]
  /\ \A use \in Programs :
       use.roots \cup use.supplies \subseteq Names /\ use.roots # {} /\ use.calls \in Nat
  /\ \A n \in Names : IsArrayName(n) => n \notin Stubs /\ \A p \in Paths : Packed(p, n) = Nothing
  /\ Nothing # Damaged

VARIABLES
  program,     \* the program that runs
  classPath,   \* the ClassPath it uses, as none or one
  classes,     \* ClassRegistry.classes: the entry of a name
  classModules,      \* ClassRegistry.class_modules: names of classes to names of modules
  moduleDescriptors, \* ClassRegistry.module_descriptors: names of modules to descriptors
  path, root,  \* which class path that is, and the root of the current or last call
  queue,       \* names to visit
  seen,        \* names visited
  loaded,      \* classes taken from the class path by this call
  result,      \* "none" before any call, "running", "ok" or "error"
  closed,      \* history: the paths and roots for which a call returned Ok
  failed,      \* history: some call has ended in an error
  calls        \* how many calls there were

registry == <<classes, classModules, moduleDescriptors>>
call == <<path, root>>
walk == <<queue, seen, loaded>>
history == <<closed, failed>>
vars == <<program, classPath, registry, call, walk, result, history, calls>>

\* The entry of a name: none, a stub, one the program supplied, or the class of a file.
\* `from' is the path it was found in and the name it was found under.
Unknown == [kind |-> "none"]
Stub == [kind |-> "stub"]
Own == [kind |-> "own"]
Real(file, from) == [kind |-> "real", file |-> file, from |-> from]
IsReal(entry) == entry.kind \in {"own", "real"}

Init ==
  /\ program \in Programs
  /\ classPath = Unreadable
  /\ classes = [n \in Names |-> IF n \in Stubs THEN Stub ELSE Unknown]
  /\ classModules = <<>>
  /\ moduleDescriptors = <<>>
  /\ path = 0
  /\ root = CHOOSE n \in program.roots : TRUE
  /\ queue = <<>>
  /\ seen = {}
  /\ loaded = 0
  /\ result = "none"
  /\ closed = {}
  /\ failed = FALSE
  /\ calls = 0

Call == result # "running" /\ calls < program.calls /\ calls' = calls + 1

-----------------------------------------------------------------------------
\* ClassRegistry::load: the first class of a name wins, a stub included.
Load(n) ==
  /\ n \in program.supplies
  /\ Call
  /\ classes' = [classes EXCEPT ![n] = IF @ = Unknown THEN Own ELSE @]
  /\ UNCHANGED <<program, classPath, classModules, moduleDescriptors, call, walk, result, history>>

OpenPath(p) ==
  /\ result # "running"
  /\ p # path
  /\ path' = p
  /\ classPath' = Open(p)
  /\ result' = IF classPath' = Unreadable THEN "error" ELSE "none"
  /\ UNCHANGED <<program, registry, root, walk, history, calls>>

LoadClosure(n) ==
  /\ classPath # Unreadable
  /\ Call
  /\ root' = n
  /\ queue' = <<n>>
  /\ seen' = {}
  /\ loaded' = 0
  /\ result' = "running"
  /\ UNCHANGED <<program, classPath, registry, path, history>>

-----------------------------------------------------------------------------
\* The loop of load_closure: one name of the queue after another.
Visiting(n) == result = "running" /\ queue # <<>> /\ Head(queue) = n

\* Mutant: names are not remembered.
SeenForgotten(n) == UNCHANGED seen
MarkSeen(n) == seen' = seen \cup {n}

Follow(names) == queue' = Tail(queue) \o names

Skipped(n) == n \in seen \/ IsArrayName(n) \/ IsReal(classes[n])

Skip(n) ==
  /\ Visiting(n)
  /\ Skipped(n)
  /\ MarkSeen(n)
  /\ Follow(<<>>)
  /\ UNCHANGED <<program, classPath, registry, call, loaded, result, history, calls>>

IsFound(answer) == answer \notin {NotFound, Unreadable}

With(table, k, v) == [x \in DOMAIN table \cup {k} |-> IF x = k THEN v ELSE table[x]]

\* A class of a named module is marked as such, and the registry is told of the module,
\* before the class is known to be sound.
MarkModule(n, m) ==
  IF m = NoModuleName THEN UNCHANGED <<classModules, moduleDescriptors>>
  ELSE /\ classModules' = With(classModules, n, m)
       /\ moduleDescriptors' = With(moduleDescriptors, m, classPath[1].modules[m])

\* Mutant: the references of a loaded class are not followed.
LoadedWithoutRefs(n, answer) ==
  LET file == answer[1]
  IN /\ IsFound(answer)
     /\ IsSound(file)
     /\ MarkModule(n, answer[2])
     /\ classes' = [classes EXCEPT ![NameOf(file)] = Real(file, <<path, n>>)]
     /\ Follow(<<>>)
     /\ MarkSeen(n)
     /\ loaded' = loaded + 1
     /\ UNCHANGED <<program, classPath, call, result, history, calls>>
\* The class goes under the name it gives itself.
LoadOrReplace(n, answer) ==
  LET file == answer[1]
  IN /\ IsFound(answer)
     /\ IsSound(file)
     /\ MarkModule(n, answer[2])
     /\ classes' = [classes EXCEPT ![NameOf(file)] = Real(file, <<path, n>>)]
     /\ Follow(NamesIn(file))
     /\ MarkSeen(n)
     /\ loaded' = loaded + 1
     /\ UNCHANGED <<program, classPath, call, result, history, calls>>

\* Not on the class path: follow the references of a stub, pass over a name
\* nobody knows.
KeepStub(n, answer) ==
  /\ answer = NotFound
  /\ MarkSeen(n)
  /\ Follow(IF classes[n] = Stub THEN StubRefs[n] ELSE <<>>)
  /\ UNCHANGED <<program, classPath, registry, call, loaded, result, history, calls>>

\* An error ends the call: what it has loaded stays, its queue is lost.
Fail(n, answer) ==
  /\ IF IsFound(answer) THEN ~IsSound(answer[1]) /\ MarkModule(n, answer[2])
     ELSE answer = Unreadable /\ UNCHANGED <<classModules, moduleDescriptors>>
  /\ queue' = <<>>
  /\ seen' = {}
  /\ result' = "error"
  /\ failed' = TRUE
  /\ UNCHANGED <<program, classPath, classes, call, loaded, closed, calls>>

LookUp(n) ==
  /\ Visiting(n)
  /\ ~Skipped(n)
  /\ LET answer == ClassIn(classPath[1], n)
     IN LoadOrReplace(n, answer) \/ KeepStub(n, answer) \/ Fail(n, answer)

LoadClosureReturns ==
  /\ result = "running"
  /\ queue = <<>>
  /\ result' = "ok"
  /\ closed' = closed \cup {<<path, root>>}
  /\ UNCHANGED <<program, classPath, registry, call, walk, failed, calls>>

-----------------------------------------------------------------------------
Visit(n) == Skip(n) \/ LookUp(n)
Continue == LoadClosureReturns \/ \E n \in Names : Visit(n)

Next ==
  \/ Continue
  \/ \E n \in Names : Load(n)
  \/ \E p \in program.paths : OpenPath(p)
  \/ \E n \in program.roots : LoadClosure(n)

\* The loop runs on: nothing blocks it, so while there is a call there are steps.
Progress == <>[](result = "running") => []<><<TRUE>>_vars
Spec == Init /\ [][Next]_vars /\ Progress

-----------------------------------------------------------------------------
(* What the class paths were packed with. *)

Loadable(p) == {n \in Names : Packed(p, n) \notin {Nothing, Damaged}}

\* Through classes of the class path, and through stubs that stay.
References(p, n) ==
  IF n \in Loadable(p) THEN RefersTo(Packed(p, n)) \cap Names
  ELSE IF Packed(p, n) = Nothing /\ n \in Stubs THEN {StubRefs[n][i] : i \in DOMAIN StubRefs[n]} ELSE {}

\* A class that is packed under another name than its own.
Misplaced(p, n) == n \in Loadable(p) /\ Packed(p, n).name # n

\* What no set can leave out that has the root and what its names refer to.
ClosedUnder(p, S) == \A n \in S : References(p, n) \subseteq S
Reachable(p, n) == {m \in Names : \A S \in SUBSET (Names \ {m}) : n \in S => ~ClosedUnder(p, S)}

\* "breadth first, preload the closure of references of root into registry:
\* the classes of the class path replace the stubs of their name, over the
\* whole transitive closure" (load_closure): as long as no call has failed, every class
\* that is reachable from the root of a call that returned Ok is loaded, and stays so.
\* (After an error, the next call skips what the failed one had loaded.)
ClosuresComplete ==
  ~failed => \A c \in closed : \A m \in Reachable(c[1], c[2]) \cap Loadable(c[1]) :
    IsReal(classes[m]) \/ Misplaced(c[1], m)

\* A program whose class paths have the same classes, but for damage, which does not
\* supply a class that they have; a class that is misplaced is in its place nowhere.
Orderly(use) ==
  \A p \in use.paths :
    /\ \A q \in use.paths, n \in Names :
         Packed(p, n) = Packed(q, n) \/ Packed(p, n) = Damaged \/ Packed(q, n) = Damaged
    /\ use.supplies \cap Loadable(p) = {}
    /\ \A n \in Names : Misplaced(p, n) =>
         Packed(p, n).name \notin Stubs /\ Packed(p, Packed(p, n).name) = Nothing

\* Work in progress: what is loaded has its references loaded (perhaps under
\* another name), queued or known to be nowhere.  (This is the invariant of the
\* loop, and what an error breaks.)
NothingForgotten ==
  ~failed => \A n \in Names : classes[n].kind = "real" =>
    LET p == classes[n].from[1]
    IN \A m \in References(p, classes[n].from[2]) :
         \/ IsReal(classes[m])
         \/ m \in seen
         \/ Packed(p, m) = Nothing
         \/ Misplaced(p, m)
         \/ \E i \in DOMAIN queue : queue[i] = m

\* "seen: ends, and parses each class at most once" (load_closure): cycles of
\* references, a class's own name among them, do not keep the loop going.
LoopEnds == result = "running" ~> result # "running"

-----------------------------------------------------------------------------
\* Wherever in class path p a class lies, and however it is packed, reading
\* it gives what was packed, and all the names it refers to; nothing else is read.
ReadsWhatWasPacked(p) ==
  LET opened == Open(p)
      modules == PackedModules(p)
  IN /\ opened = Unreadable <=> Refused(p)
     /\ opened # Unreadable => \A n \in Names : LET answer == ClassIn(opened[1], n) IN
          /\ answer = NotFound <=> Packed(p, n) = Nothing
          /\ answer = Unreadable \/ (IsFound(answer) /\ ~IsSound(answer[1])) <=> Packed(p, n) = Damaged
          /\ n \in Loadable(p) =>
               /\ DescriptionOf(answer[1]) = Packed(p, n)
               /\ NameOf(answer[1]) = Packed(p, n).name
               /\ NamesIn(answer[1]) \in Seq(Names)
               /\ {NamesIn(answer[1])[i] : i \in DOMAIN NamesIn(answer[1])} = References(p, n)
               /\ answer[2] = modules.of[n]
               /\ modules.of[n] # NoModuleName => opened[1].modules[modules.of[n]] = modules.descriptors[modules.of[n]]

\* A loaded class is the one that was packed: names of any characters, code with its
\* handlers and lines, and the module it is of survive the archive, the
\* compression and the tables of indices, wherever in the archive the class lies; and
\* no damaged class is ever loaded.  (A class path does not change: it is read as a
\* whole once, when a program opens it before its first call.)
LoadsWhatWasPacked ==
  [][/\ calls = 0 /\ path' # path => ReadsWhatWasPacked(path')
     /\ \A n \in Names : classes'[n].kind = "real" /\ classes'[n] # classes[n] =>
          LET m == Head(queue)
              module == PackedModules(path).of[m]
          IN /\ DescriptionOf(classes'[n].file) = Packed(path, m)
             /\ n = Packed(path, m).name
             /\ IF module = NoModuleName THEN UNCHANGED classModules
                ELSE /\ classModules'[m] = module
                     /\ moduleDescriptors'[module] = PackedModules(path).descriptors[module]]_vars

\* A class path is refused if, and only if, one of its archives is damaged, and
\* a call ends in an error only at a class that is damaged.
FailsOnDamage ==
  [][/\ path' # path => (result' = "error" <=> Refused(path'))
     /\ result = "running" /\ result' = "error" => Packed(path, Head(queue)) = Damaged]_vars
=============================================================================
