------------------------- MODULE ClosureLoaderProofs -------------------------
(***************************************************************************)
(* What is proved of load_closure for class paths of any size, any number  *)
(* of calls and roots, whatever the stubs: as long as no call has failed,  *)
(* nothing that a loaded class refers to is forgotten, and the closure of  *)
(* every root that returned Ok is complete.                                *)
(*                                                                         *)
(* Of the readers of archives and class files only this is assumed, which  *)
(* the run ClosureLoad checks on class paths given as bytes: that reading  *)
(* a class path gives what was packed into it (ReadsWhatWasPacked).        *)
(***************************************************************************)
EXTENDS ClosureLoader, TLAPS

-----------------------------------------------------------------------------
(* Lemmas about the operators. *)

\* What is added to the tail of a queue is queued,
LEMMA AddedIsThere ==
  ASSUME NEW S, NEW q \in Seq(S), q # <<>>, NEW added \in Seq(S), NEW i \in DOMAIN added
  PROVE  \E j \in DOMAIN (Tail(q) \o added) : (Tail(q) \o added)[j] = added[i]
<1> DEFINE after == Tail(q) \o added
<1>1. Tail(q) \in Seq(S) /\ Len(Tail(q)) = Len(q) - 1 /\ Len(q) \in Nat \ {0}
  OBVIOUS
<1>2. after \in Seq(S) /\ Len(after) = Len(q) - 1 + Len(added)
  BY <1>1
<1>3. Len(q) - 1 + i \in DOMAIN after
  BY <1>1, <1>2
<1>4. after[Len(q) - 1 + i] = added[i]
  BY <1>1, <1>2, <1>3
<1> QED
  BY <1>3, <1>4

\* and what was queued still is, but for the head.
LEMMA TailAndAdded ==
  ASSUME NEW S, NEW q \in Seq(S), q # <<>>, NEW added \in Seq(S)
  PROVE  /\ Tail(q) \o added \in Seq(S)
         /\ \A i \in DOMAIN q : q[i] # Head(q) => \E j \in DOMAIN (Tail(q) \o added) : (Tail(q) \o added)[j] = q[i]
<1> DEFINE after == Tail(q) \o added
<1>1. Tail(q) \in Seq(S) /\ Len(Tail(q)) = Len(q) - 1 /\ Len(q) \in Nat \ {0}
  OBVIOUS
<1>2. after \in Seq(S) /\ Len(after) = Len(q) - 1 + Len(added)
  BY <1>1
<1>4. ASSUME NEW i \in DOMAIN q, q[i] # Head(q)
      PROVE  \E j \in DOMAIN after : after[j] = q[i]
  <2>1. i \in 2 .. Len(q)
    BY <1>4
  <2>2. i - 1 \in DOMAIN after
    BY <1>1, <1>2, <2>1
  <2>3. after[i - 1] = q[i]
    BY <1>1, <1>2, <2>1, <2>2
  <2> QED
    BY <2>2, <2>3
<1> QED
  BY <1>2, <1>4

\* What can be reached from a name of a closed set is in the set.
LEMMA ReachableStaysInside ==
  ASSUME NEW p, NEW S \in SUBSET Names, ClosedUnder(p, S), NEW n \in S
  PROVE  Reachable(p, n) \subseteq S
<1>1. SUFFICES ASSUME NEW m \in Reachable(p, n), m \notin S
               PROVE  FALSE
  OBVIOUS
<1>2. S \in SUBSET (Names \ {m})
  BY <1>1
<1> QED
  BY <1>1, <1>2 DEF Reachable

\* References are names.
LEMMA ReferencesAreNames ==
  ASSUME NEW p, NEW n \in Names
  PROVE  References(p, n) \subseteq Names
<1>1. CASE n \in Loadable(p)
  BY <1>1 DEF References
<1>2. CASE n \notin Loadable(p)
  <2>1. StubRefs[n] \in Seq(Names)
    BY LoaderAssumption
  <2>2. {StubRefs[n][i] : i \in DOMAIN StubRefs[n]} \subseteq Names
    BY <2>1
  <2> QED
    BY <1>2, <2>2 DEF References
<1> QED
  BY <1>1, <1>2

-----------------------------------------------------------------------------
(* What is loaded, and where it comes from. *)

Running == result = "running"
Queued(m) == \E i \in DOMAIN queue : queue[i] = m

CallState ==
  /\ program \in Programs
  /\ queue \in Seq(Names)
  /\ ~Running => queue = <<>>
  /\ classPath # Unreadable => path \in program.paths /\ classPath = Open(path)
  /\ Running => classPath # Unreadable /\ root \in Names
  /\ closed \subseteq program.paths \X Names

\* The four kinds of entries: a synthetic class is a stub until a class replaces it.
EntryIsAccountedFor(n) ==
  \/ classes[n] = Stub /\ n \in Stubs
  \/ classes[n] = Unknown /\ n \notin Stubs
  \/ classes[n] = Own /\ n \notin Stubs /\ n \in program.supplies
  \/ \E file, q, k :
       /\ classes[n] = Real(file, <<q, k>>)
       /\ q \in program.paths
       /\ k \in Loadable(q)
       /\ n = Packed(q, k).name

Registry == classes = [n \in Names |-> classes[n]] /\ \A n \in Names : EntryIsAccountedFor(n)

Typed == CallState /\ Registry

\* What is added to the tail of the queue is queued.
LEMMA AddedAreQueued ==
  ASSUME NEW added \in Seq(Names), queue \in Seq(Names), queue # <<>>, queue' = Tail(queue) \o added
  PROVE  \A i \in DOMAIN added : Queued(added[i])'
<1>1. ASSUME NEW i \in DOMAIN added
      PROVE  \E j \in DOMAIN queue' : queue'[j] = added[i]
  BY <1>1, AddedIsThere
<1> QED
  BY <1>1 DEF Queued

\* What the readers find of a name, as it was packed.
LEMMA AnswersArePacked ==
  ASSUME \A p \in Paths : ReadsWhatWasPacked(p), CallState, Running, NEW n \in Names
  PROVE  LET answer == ClassIn(classPath[1], n) IN
         /\ path \in program.paths
         /\ path \in Paths
         /\ answer = NotFound => Packed(path, n) = Nothing
         /\ IsFound(answer) /\ IsSound(answer[1]) =>
              /\ n \in Loadable(path)
              /\ NameOf(answer[1]) = Packed(path, n).name
              /\ NamesIn(answer[1]) \in Seq(Names)
              /\ {NamesIn(answer[1])[i] : i \in DOMAIN NamesIn(answer[1])} = References(path, n)
         /\ answer = Unreadable \/ (IsFound(answer) /\ ~IsSound(answer[1])) => Packed(path, n) = Damaged
<1> DEFINE answer == ClassIn(classPath[1], n)
<1>1. path \in program.paths /\ path \in Paths /\ Open(path) # Unreadable /\ classPath = Open(path)
  BY DEF CallState, Paths
<1>2. ReadsWhatWasPacked(path)
  BY <1>1
<1>3. /\ answer = NotFound <=> Packed(path, n) = Nothing
      /\ answer = Unreadable \/ (IsFound(answer) /\ ~IsSound(answer[1])) <=> Packed(path, n) = Damaged
      /\ n \in Loadable(path) => NameOf(answer[1]) = Packed(path, n).name
      /\ n \in Loadable(path) => NamesIn(answer[1]) \in Seq(Names)
      /\ n \in Loadable(path) =>
           {NamesIn(answer[1])[i] : i \in DOMAIN NamesIn(answer[1])} = References(path, n)
  <2>1. PICK found : found = answer
    OBVIOUS
  <2>2. found = ClassIn(Open(path)[1], n)
    BY <1>1, <2>1
  <2>3. /\ found = NotFound <=> Packed(path, n) = Nothing
        /\ found = Unreadable \/ (IsFound(found) /\ ~IsSound(found[1])) <=> Packed(path, n) = Damaged
    BY <1>1, <1>2, <2>2 DEF ReadsWhatWasPacked
  <2>4. /\ n \in Loadable(path) => NameOf(found[1]) = Packed(path, n).name
        /\ n \in Loadable(path) => NamesIn(found[1]) \in Seq(Names)
    BY <1>1, <1>2, <2>2 DEF ReadsWhatWasPacked
  <2> DEFINE referred == {NamesIn(found[1])[i] : i \in DOMAIN NamesIn(found[1])}
  <2>5. n \in Loadable(path) => referred = References(path, n)
    <3>1. n \in Loadable(path) =>
            {NamesIn(ClassIn(Open(path)[1], n)[1])[i] : i \in DOMAIN NamesIn(ClassIn(Open(path)[1], n)[1])}
              = References(path, n)
      BY <1>1, <1>2, Zenon DEF ReadsWhatWasPacked
    <3> QED
      BY <2>2, <3>1
  <2> QED
    BY <2>1, <2>3, <2>4, <2>5
<1>4. IsFound(answer) /\ IsSound(answer[1]) => n \in Loadable(path)
  BY <1>3 DEF IsFound, Loadable
<1> QED
  BY <1>1, <1>3, <1>4

\* What the program does is fixed, and a kept entry stays accounted for.
LEMMA KeptEntry ==
  ASSUME NEW n, EntryIsAccountedFor(n), classes'[n] = classes[n], program' = program
  PROVE  EntryIsAccountedFor(n)'
<1>1. program'.paths = program.paths /\ program'.supplies = program.supplies
  OBVIOUS
<1> QED
  BY <1>1 DEF EntryIsAccountedFor

LEMMA TypedInitially == Init => Typed
<1> SUFFICES ASSUME Init
             PROVE  Typed
  OBVIOUS
<1>1. CallState
  BY DEF Init, CallState, Running
<1>2. Registry
  BY DEF Init, Registry, EntryIsAccountedFor
<1> QED
  BY <1>1, <1>2 DEF Typed

LEMMA CallStateStep ==
  ASSUME \A p \in Paths : ReadsWhatWasPacked(p), CallState, [Next]_vars
  PROVE  CallState'
<1> USE DEF CallState, Running
<1>1. CASE UNCHANGED vars
  BY <1>1 DEF vars, call, walk, history
<1>2. ASSUME NEW n \in Names, Load(n)
      PROVE  CallState'
  BY <1>2 DEF Load, Call, call, walk, history
<1>3. ASSUME NEW p \in program.paths, OpenPath(p)
      PROVE  CallState'
  BY <1>3 DEF OpenPath, registry, walk, history
<1>4. ASSUME NEW n \in program.roots, LoadClosure(n)
      PROVE  CallState'
  <2>1. n \in Names
    BY LoaderAssumption
  <2>2. <<n>> \in Seq(Names)
    BY <2>1
  <2> QED
    BY <1>4, <2>1, <2>2 DEF LoadClosure, Call, registry, history
<1>5. ASSUME LoadClosureReturns
      PROVE  CallState'
  <2>1. <<path, root>> \in program.paths \X Names
    BY <1>5 DEF LoadClosureReturns
  <2> QED
    BY <1>5, <2>1 DEF LoadClosureReturns, registry, call, walk
<1>6. ASSUME NEW n \in Names, Visit(n)
      PROVE  CallState'
  <2>1. queue \in Seq(Names) /\ queue # <<>> /\ Running /\ Tail(queue) \in Seq(Names)
    BY <1>6 DEF Visit, Skip, LookUp, Visiting
  <2>2. CASE Skip(n)
    <3>1. queue' \in Seq(Names)
      BY <2>1, <2>2, TailAndAdded DEF Skip, Follow
    <3> QED
      BY <2>1, <2>2, <3>1 DEF Skip, registry, call, history
  <2> DEFINE answer == ClassIn(classPath[1], n)
  <2>3. CASE LookUp(n) /\ LoadOrReplace(n, answer)
    <3>1. NamesIn(answer[1]) \in Seq(Names)
      BY <2>1, <2>3, AnswersArePacked DEF LoadOrReplace
    <3>2. queue' \in Seq(Names)
      BY <2>1, <2>3, <3>1 DEF LoadOrReplace, Follow
    <3> QED
      BY <2>1, <2>3, <3>2 DEF LoadOrReplace, call, history
  <2>4. CASE LookUp(n) /\ KeepStub(n, answer)
    <3>1. StubRefs[n] \in Seq(Names)
      BY LoaderAssumption
    <3>2. queue' \in Seq(Names)
      BY <2>1, <2>4, <3>1 DEF KeepStub, Follow
    <3> QED
      BY <2>1, <2>4, <3>2 DEF KeepStub, registry, call, history
  <2>5. CASE LookUp(n) /\ Fail(n, answer)
    BY <2>1, <2>5 DEF Fail, call
  <2> QED
    BY <1>6, <2>2, <2>3, <2>4, <2>5 DEF Visit, LookUp
<1> QED
  BY <1>1, <1>2, <1>3, <1>4, <1>5, <1>6 DEF Next, Continue

LEMMA RegistryStep ==
  ASSUME \A p \in Paths : ReadsWhatWasPacked(p), CallState, Registry, [Next]_vars
  PROVE  Registry'
<1>1. program' = program
  BY DEF Next, Continue, Load, OpenPath, LoadClosure, LoadClosureReturns, Visit, Skip, LookUp,
         LoadOrReplace, KeepStub, Fail, vars
<1>2. CASE classes' = classes
  BY <1>1, <1>2, KeptEntry DEF Registry
<1>3. ASSUME NEW n \in Names, Load(n)
      PROVE  Registry'
  <2>1. classes' = [m \in Names |-> IF m = n /\ classes[n] = Unknown THEN Own ELSE classes[m]]
    BY <1>3 DEF Load, Registry
  <2>2. ASSUME NEW m \in Names
        PROVE  EntryIsAccountedFor(m)'
    <3>1. CASE classes'[m] = classes[m]
      BY <1>1, <3>1, KeptEntry DEF Registry
    <3>2. CASE m = n /\ classes[n] = Unknown
      <4>1. m \notin Stubs
        BY <3>2 DEF Registry, EntryIsAccountedFor, Unknown, Stub, Own, Real
      <4>2. m \in program'.supplies
        BY <1>1, <1>3, <3>2 DEF Load
      <4>3. classes'[m] = Own
        BY <2>1, <3>2
      <4> QED
        BY <4>1, <4>2, <4>3 DEF EntryIsAccountedFor
    <3> QED
      BY <2>1, <3>1, <3>2
  <2> QED
    BY <2>1, <2>2 DEF Registry
<1>4. ASSUME NEW n \in Names, NEW answer, answer = ClassIn(classPath[1], n), Running, LoadOrReplace(n, answer)
      PROVE  Registry'
  <2> DEFINE name == NameOf(answer[1])
  <2>1. n \in Loadable(path) /\ name = Packed(path, n).name /\ path \in program.paths
    BY <1>4, AnswersArePacked DEF LoadOrReplace
  <2>2. classes' = [m \in Names |-> IF m = name THEN Real(answer[1], <<path, n>>) ELSE classes[m]]
    BY <1>4 DEF LoadOrReplace, Registry
  <2>3. ASSUME NEW m \in Names
        PROVE  EntryIsAccountedFor(m)'
    <3>1. CASE classes'[m] = classes[m]
      BY <1>1, <3>1, KeptEntry DEF Registry
    <3>2. CASE m = name
      <4>1. classes'[m] = Real(answer[1], <<path, n>>)
        BY <2>2, <3>2
      <4>2. path \in program'.paths
        BY <1>1, <2>1
      <4> QED
        BY <2>1, <3>2, <4>1, <4>2 DEF EntryIsAccountedFor
    <3> QED
      BY <2>2, <3>1, <3>2
  <2> QED
    BY <2>2, <2>3 DEF Registry
<1>5. ASSUME NEW n \in Names, LookUp(n)
      PROVE  Registry'
  BY <1>2, <1>4, <1>5 DEF LookUp, Visiting, Running, KeepStub, Fail, registry
<1>6. ASSUME ~ \E n \in Names : Load(n) \/ LookUp(n)
      PROVE  classes' = classes
  BY <1>6 DEF Next, Continue, OpenPath, LoadClosure, LoadClosureReturns, Visit, Skip, registry, vars
<1> QED
  BY <1>2, <1>3, <1>5, <1>6

\* Entries are accounted for in every state, and a call has a class path.
LEMMA TypedAlways ==
  ASSUME \A p \in Paths : ReadsWhatWasPacked(p)
  PROVE  Spec => []Typed
<1>1. Typed /\ [Next]_vars => Typed'
  BY CallStateStep, RegistryStep DEF Typed
<1> QED
  BY TypedInitially, <1>1, PTL DEF Spec

-----------------------------------------------------------------------------
(* Nothing is forgotten.  While no call has failed, what a loaded class    *)
(* refers to is settled, or is queued by the call that loaded the class;   *)
(* so everything is settled when the queue is empty.                       *)

Settled(p, m) == IsReal(classes[m]) \/ Packed(p, m) = Nothing \/ Misplaced(p, m)

SeenAreSettled == Running => \A m \in seen : m \in Names /\ Settled(path, m)

Followed(n) ==
  LET p == classes[n].from[1]
  IN \A m \in References(p, classes[n].from[2]) : Settled(p, m) \/ (Running /\ p = path /\ Queued(m))

WorkIsQueued == ~failed => SeenAreSettled /\ \A n \in Names : classes[n].kind = "real" => Followed(n)

\* A name that is settled stays so, and only entries of classes are made.
LEMMA SettledStaysSettled ==
  ASSUME \A p \in Paths : ReadsWhatWasPacked(p), Typed, [Next]_vars
  PROVE  /\ program' = program
         /\ failed => failed'
         /\ \A m \in Names : IsReal(classes[m]) => IsReal(classes'[m])
<1>1. program' = program
  BY DEF Next, Continue, Load, OpenPath, LoadClosure, LoadClosureReturns, Visit, Skip, LookUp,
         LoadOrReplace, KeepStub, Fail, vars
<1>6. failed => failed'
  <2>1. failed' = failed \/ failed' = TRUE
    BY DEF Next, Continue, Load, OpenPath, LoadClosure, LoadClosureReturns, Visit, Skip, LookUp,
           LoadOrReplace, KeepStub, Fail, vars, history
  <2> QED
    BY <2>1, Zenon
<1>2. CASE classes' = classes
  BY <1>1, <1>2, <1>6
<1>3. ASSUME NEW n \in Names, Load(n)
      PROVE  \A m \in Names : IsReal(classes[m]) => IsReal(classes'[m])
  BY <1>3 DEF Load, Typed, Registry, IsReal, Own
<1>4. ASSUME NEW n \in Names, LookUp(n)
      PROVE  \A m \in Names : IsReal(classes[m]) => IsReal(classes'[m])
  <2> DEFINE answer == ClassIn(classPath[1], n)
  <2>1. CASE LoadOrReplace(n, answer)
    <3>1. classes' = [classes EXCEPT ![NameOf(answer[1])] = Real(answer[1], <<path, n>>)]
      BY <2>1 DEF LoadOrReplace
    <3>2. IsReal(Real(answer[1], <<path, n>>))
      BY DEF IsReal, Real
    <3> QED
      BY <3>1, <3>2 DEF Typed, Registry
  <2> QED
    BY <1>2, <1>4, <2>1 DEF LookUp, KeepStub, Fail, registry
<1>5. ASSUME ~ \E n \in Names : Load(n) \/ LookUp(n)
      PROVE  classes' = classes
  BY <1>5 DEF Next, Continue, OpenPath, LoadClosure, LoadClosureReturns, Visit, Skip, registry, vars
<1> QED
  BY <1>1, <1>2, <1>3, <1>4, <1>5, <1>6

\* Where the entry of a loaded class comes from.
LEMMA OriginOfReal ==
  ASSUME Typed, NEW n \in Names, classes[n].kind = "real"
  PROVE  LET q == classes[n].from[1]
             k == classes[n].from[2]
         IN q \in program.paths /\ k \in Loadable(q) /\ k \in Names /\ n = Packed(q, k).name
<1>1. EntryIsAccountedFor(n)
  BY DEF Typed, Registry
<1>2. PICK file, q, k : /\ classes[n] = Real(file, <<q, k>>)
                        /\ q \in program.paths
                        /\ k \in Loadable(q)
                        /\ n = Packed(q, k).name
  <2>1. classes[n] # Stub /\ classes[n] # Unknown /\ classes[n] # Own
    BY DEF Stub, Unknown, Own
  <2> QED
    BY <1>1, <2>1 DEF EntryIsAccountedFor
<1>3. classes[n].from = <<q, k>>
  BY <1>2 DEF Real
<1>4. classes[n].from[1] = q /\ classes[n].from[2] = k
  BY <1>3
<1> QED
  BY <1>2, <1>4 DEF Loadable

\* A visited name is settled, unless the visit ends in an error.
LEMMA VisitedIsSettled ==
  ASSUME \A p \in Paths : ReadsWhatWasPacked(p), Typed, NEW n \in Names, Visit(n), ~failed', SeenAreSettled
  PROVE  Settled(path, n)'
<1>1. Running /\ path \in Paths /\ path' = path
  <2>1. Running
    BY DEF Visit, Skip, LookUp, Visiting, Running
  <2> QED
    BY <2>1, AnswersArePacked DEF Typed, Visit, Skip, LookUp, LoadOrReplace, KeepStub, Fail, call
<1>2. CASE Skip(n)
  <2>1. classes' = classes
    BY <1>2 DEF Skip, registry
  <2>2. Settled(path, n)
    BY <1>1, <1>2, LoaderAssumption DEF Skip, Skipped, SeenAreSettled, Settled
  <2> QED
    BY <1>1, <2>1, <2>2 DEF Settled
<1> DEFINE answer == ClassIn(classPath[1], n)
<1>3. CASE LookUp(n) /\ LoadOrReplace(n, answer)
  <2>1. n \in Loadable(path) /\ NameOf(answer[1]) = Packed(path, n).name
    BY <1>1, <1>3, AnswersArePacked DEF LoadOrReplace, Typed
  <2>2. CASE Packed(path, n).name = n
    <3>1. classes'[n] = Real(answer[1], <<path, n>>)
      BY <1>3, <2>1, <2>2 DEF LoadOrReplace, Typed, Registry
    <3> QED
      BY <3>1 DEF Settled, IsReal, Real
  <2>3. CASE Packed(path, n).name # n
    BY <1>1, <2>1, <2>3 DEF Settled, Misplaced
  <2> QED
    BY <2>2, <2>3
<1>4. CASE LookUp(n) /\ KeepStub(n, answer)
  <2>1. Packed(path, n) = Nothing
    BY <1>1, <1>4, AnswersArePacked DEF KeepStub, Typed
  <2> QED
    BY <1>1, <2>1 DEF Settled
<1>5. ~Fail(n, answer)
  BY DEF Fail
<1> QED
  BY <1>2, <1>3, <1>4, <1>5 DEF Visit, LookUp

\* A visit takes the name from the head of the queue and forgets no other.
LEMMA VisitKeepsOthers ==
  ASSUME \A p \in Paths : ReadsWhatWasPacked(p), Typed, NEW n \in Names, Visit(n), ~failed'
  PROVE  /\ Running /\ Running' /\ path' = path /\ root' = root /\ closed' = closed
         /\ seen' = seen \cup {n}
         /\ \A m : Queued(m) => m = n \/ Queued(m)'
<1>1. Running /\ queue \in Seq(Names) /\ queue # <<>> /\ Head(queue) = n
  BY DEF Visit, Skip, LookUp, Visiting, Running, Typed, CallState
<1>2. ASSUME NEW added \in Seq(Names), queue' = Tail(queue) \o added
      PROVE  \A m : Queued(m) => m = n \/ Queued(m)'
  <2>1. \A i \in DOMAIN queue : queue[i] # n => \E j \in DOMAIN queue' : queue'[j] = queue[i]
    BY <1>1, <1>2, TailAndAdded
  <2> QED
    BY <2>1 DEF Queued
<1>3. CASE Skip(n)
  <2>1. /\ path' = path /\ root' = root /\ closed' = closed /\ result' = result
        /\ seen' = seen \cup {n}
        /\ queue' = Tail(queue) \o <<>>
    BY <1>3 DEF Skip, MarkSeen, Follow, call, history
  <2>2. <<>> \in Seq(Names)
    OBVIOUS
  <2>3. \A m : Queued(m) => m = n \/ Queued(m)'
    BY <1>2, <2>1, <2>2
  <2> QED
    BY <1>1, <2>1, <2>3 DEF Running
<1> DEFINE answer == ClassIn(classPath[1], n)
<1>4. CASE LookUp(n) /\ LoadOrReplace(n, answer)
  <2>1. NamesIn(answer[1]) \in Seq(Names)
    BY <1>1, <1>4, AnswersArePacked DEF LoadOrReplace, Typed
  <2> QED
    BY <1>1, <1>2, <1>4, <2>1 DEF LoadOrReplace, MarkSeen, Follow, call, history, Running
<1>5. CASE LookUp(n) /\ KeepStub(n, answer)
  <2>1. StubRefs[n] \in Seq(Names)
    BY LoaderAssumption
  <2>2. /\ path' = path /\ root' = root /\ closed' = closed /\ result' = result
        /\ seen' = seen \cup {n}
        /\ queue' = Tail(queue) \o (IF classes[n] = Stub THEN StubRefs[n] ELSE <<>>)
    BY <1>5 DEF KeepStub, MarkSeen, Follow, call, history
  <2>3. (IF classes[n] = Stub THEN StubRefs[n] ELSE <<>>) \in Seq(Names)
    BY <2>1
  <2>4. \A m : Queued(m) => m = n \/ Queued(m)'
    BY <1>2, <2>2, <2>3
  <2> QED
    BY <1>1, <2>2, <2>4 DEF Running
<1>6. ~Fail(n, answer)
  BY DEF Fail
<1> QED
  BY <1>3, <1>4, <1>5, <1>6 DEF Visit, LookUp

\* What was followed, by a call that is over or over another path, stays followed.
LEMMA FollowedStaysFollowed ==
  ASSUME \A p \in Paths : ReadsWhatWasPacked(p), Typed, [Next]_vars, NEW n \in Names,
         classes[n].kind = "real", classes'[n] = classes[n], Followed(n),
         \A m \in Names : Running /\ Queued(m) => path' = path /\ (Settled(path, m)' \/ (Running' /\ Queued(m)'))
  PROVE  Followed(n)'
<1> PICK q, k : q = classes[n].from[1] /\ k = classes[n].from[2]
  OBVIOUS
<1>1. k \in Names
  BY OriginOfReal
<1>2. ASSUME NEW m \in References(q, k)
      PROVE  Settled(q, m)' \/ (Running' /\ q = path' /\ Queued(m)')
  <2>1. m \in Names
    BY <1>1, ReferencesAreNames
  <2>2. Settled(q, m) \/ (Running /\ q = path /\ Queued(m))
    BY DEF Followed
  <2>3. CASE Settled(q, m)
    BY <2>1, <2>3, SettledStaysSettled DEF Settled
  <2>4. CASE Running /\ q = path /\ Queued(m)
    BY <2>1, <2>4
  <2> QED
    BY <2>2, <2>3, <2>4
<1>3. classes'[n].from[1] = q /\ classes'[n].from[2] = k
  OBVIOUS
<1> QED
  BY <1>2, <1>3 DEF Followed

\* Only a name that is looked up brings a class of the path.
LEMMA OnlyLookUpLoads ==
  ASSUME Typed, [Next]_vars, NEW n \in Names, classes'[n].kind = "real", classes'[n] # classes[n]
  PROVE  \E m \in Names : LookUp(m) /\ LoadOrReplace(m, ClassIn(classPath[1], m))
<1>1. ASSUME NEW m \in Names, Load(m)
      PROVE  FALSE
  BY <1>1 DEF Load, Typed, Registry, Own
<1> QED
  BY <1>1 DEF Next, Continue, OpenPath, LoadClosure, LoadClosureReturns, Visit, Skip, LookUp,
              KeepStub, Fail, registry, vars

\* The names of a class that a visit loads are queued.
LEMMA LoadedIsQueued ==
  ASSUME \A p \in Paths : ReadsWhatWasPacked(p), Typed,
         NEW n \in Names, LookUp(n), LoadOrReplace(n, ClassIn(classPath[1], n))
  PROVE  \A r \in References(path, n) : Queued(r)'
<1> PICK names : names = NamesIn(ClassIn(classPath[1], n)[1])
  OBVIOUS
<1>1. /\ queue' = Tail(queue) \o names
      /\ queue \in Seq(Names) /\ queue # <<>>
      /\ Running
  BY DEF LookUp, Visiting, LoadOrReplace, Follow, Running, Typed, CallState
<1>2. names \in Seq(Names) /\ {names[i] : i \in DOMAIN names} = References(path, n)
  BY <1>1, AnswersArePacked DEF LoadOrReplace, Typed
<1>3. \A i \in DOMAIN names : Queued(names[i])'
  BY <1>1, <1>2, AddedAreQueued
<1> QED
  BY <1>2, <1>3

\* They are followed.
LEMMA LoadedIsFollowed ==
  ASSUME \A p \in Paths : ReadsWhatWasPacked(p), Typed, [Next]_vars, NEW n \in Names,
         classes'[n].kind = "real", classes'[n] # classes[n], ~failed'
  PROVE  Followed(n)'
<1>1. PICK m \in Names : LookUp(m) /\ LoadOrReplace(m, ClassIn(classPath[1], m))
  BY OnlyLookUpLoads
<1> PICK file : file = ClassIn(classPath[1], m)[1]
  OBVIOUS
<1>2. /\ Running' /\ path' = path
      /\ classes' = [classes EXCEPT ![NameOf(file)] = Real(file, <<path, m>>)]
  BY <1>1 DEF LookUp, Visiting, LoadOrReplace, Running, call
<1>3. classes'[n] = Real(file, <<path, m>>)
  BY <1>2 DEF Typed, Registry
<1>4. classes'[n].from[1] = path /\ classes'[n].from[2] = m
  <2>1. classes'[n].from = <<path, m>>
    BY <1>3 DEF Real
  <2> QED
    BY <2>1
<1>5. \A r \in References(path, m) : Queued(r)'
  BY <1>1, LoadedIsQueued
<1> QED
  BY <1>2, <1>4, <1>5 DEF Followed

LEMMA WorkIsQueuedStep ==
  ASSUME \A p \in Paths : ReadsWhatWasPacked(p), Typed, WorkIsQueued, [Next]_vars
  PROVE  WorkIsQueued'
<1>1. SUFFICES ASSUME ~failed'
               PROVE  /\ SeenAreSettled'
                      /\ \A n \in Names : classes'[n].kind = "real" => Followed(n)'
  BY DEF WorkIsQueued
<1>2. ~failed
  BY <1>1, SettledStaysSettled
<1>3. SeenAreSettled /\ \A n \in Names : classes[n].kind = "real" => Followed(n)
  BY <1>2 DEF WorkIsQueued
\* What was queued is still, or has been visited.
<1>4. ASSUME NEW m \in Names, Running, Queued(m)
      PROVE  path' = path /\ (Settled(path, m)' \/ (Running' /\ Queued(m)'))
  <2>1. CASE \E n \in Names : Visit(n)
    BY <1>1, <1>3, <1>4, <2>1, VisitedIsSettled, VisitKeepsOthers DEF Settled
  <2>2. CASE UNCHANGED vars
    BY <1>4, <2>2 DEF vars, call, walk, Running, Queued
  <2>3. CASE LoadClosureReturns
    BY <1>4, <2>3 DEF LoadClosureReturns, Queued
  <2> QED
    BY <1>4, <2>1, <2>2, <2>3 DEF Next, Continue, Load, Call, OpenPath, LoadClosure, Running
<1>5. SeenAreSettled'
  <2>1. ASSUME NEW n \in Names, Visit(n)
        PROVE  SeenAreSettled'
    <3>1. path' = path /\ Running /\ seen' = seen \cup {n}
      BY <1>1, <2>1, VisitKeepsOthers
    <3>2. Settled(path, n)'
      BY <1>1, <1>3, <2>1, VisitedIsSettled
    <3>3. ASSUME NEW m \in seen
          PROVE  m \in Names /\ Settled(path, m)'
      <4>1. m \in Names /\ Settled(path, m)
        BY <1>3, <3>1, <3>3 DEF SeenAreSettled
      <4> QED
        BY <3>1, <4>1, SettledStaysSettled DEF Settled
    <3> QED
      BY <3>1, <3>2, <3>3 DEF SeenAreSettled
  <2>2. CASE UNCHANGED vars
    <3>1. UNCHANGED <<classes, path, seen, result>>
      BY <2>2 DEF vars, registry, call, walk
    <3> QED
      BY <1>3, <3>1 DEF SeenAreSettled, Settled, Running
  <2>3. CASE LoadClosureReturns
    BY <2>3 DEF LoadClosureReturns, SeenAreSettled, Running
  <2>4. CASE \E n \in program.roots : LoadClosure(n)
    BY <2>4 DEF LoadClosure, SeenAreSettled
  <2>5. CASE (\E n \in Names : Load(n)) \/ (\E p \in program.paths : OpenPath(p))
    BY <2>5 DEF Load, Call, OpenPath, SeenAreSettled, Running
  <2> QED
    BY <2>1, <2>2, <2>3, <2>4, <2>5 DEF Next, Continue
<1>6. ASSUME NEW n \in Names, classes'[n].kind = "real"
      PROVE  Followed(n)'
  <2>1. CASE classes'[n] = classes[n]
    BY <1>3, <1>4, <1>6, <2>1, FollowedStaysFollowed
  <2>2. CASE classes'[n] # classes[n]
    BY <1>1, <1>6, <2>2, LoadedIsFollowed
  <2> QED
    BY <2>1, <2>2
<1> QED
  BY <1>5, <1>6

\* NothingForgotten, of load_closure: if reading a class path gives what was packed
\* into it, then until a call fails every name that a loaded class refers to is loaded,
\* queued, visited or known to be nowhere.
THEOREM NothingIsForgotten ==
  ASSUME \A p \in Paths : ReadsWhatWasPacked(p)
  PROVE  Spec => []NothingForgotten
<1>1. Init => WorkIsQueued
  BY DEF Init, WorkIsQueued, SeenAreSettled, Running, Stub, Unknown
<1>2. Typed /\ WorkIsQueued /\ [Next]_vars => WorkIsQueued'
  BY WorkIsQueuedStep
<1>3. Typed /\ WorkIsQueued => NothingForgotten
  BY DEF WorkIsQueued, Followed, Settled, Queued, NothingForgotten
<1> QED
  BY <1>1, <1>2, <1>3, TypedAlways, PTL DEF Spec

-----------------------------------------------------------------------------
(* Closures are complete.  There is a set of covered names: those that     *)
(* were visited by calls so far.  It is closed under references, but for   *)
(* what is queued, over every path that the program uses; what is covered  *)
(* and can be loaded is loaded.  A call that returns has its root in the   *)
(* set and the queue empty, so the set has the closure of the root; later  *)
(* calls only add to it.                                                   *)

\* A loaded class that no visit has covered is one that was found under another name.
FoundNowhere(n) == \A q \in program.paths : n \notin Loadable(q) /\ References(q, n) = {}

CoversName(H, n) ==
  \A q \in program.paths :
    /\ \A m \in References(q, n) : m \in H \/ Queued(m)
    /\ n \in Loadable(q) => IsReal(classes[n]) \/ Misplaced(q, n)

Covers(H) ==
  /\ \A n \in H : CoversName(H, n)
  /\ \A n \in Names : classes[n].kind = "real" => n \in H \/ FoundNowhere(n)
  /\ \A c \in closed : Reachable(c[1], c[2]) \subseteq H
  /\ Running => seen \subseteq H /\ (root \in H \/ Queued(root))

VisitsCover == ~failed => \E H \in SUBSET Names : Covers(H)

\* What no path of an orderly program has but damaged, and no stub, leads nowhere.
LEMMA NothingIsFoundNowhere ==
  ASSUME Orderly(program), NEW n \in Names, n \notin Stubs,
         NEW p \in program.paths, Packed(p, n) = Nothing
  PROVE  FoundNowhere(n)
<1>1. ASSUME NEW q \in program.paths
      PROVE  n \notin Loadable(q) /\ References(q, n) = {}
  <2>1. Packed(q, n) = Nothing \/ Packed(q, n) = Damaged
    BY LoaderAssumption DEF Orderly
  <2> QED
    BY <2>1 DEF Loadable, References
<1> QED
  BY <1>1 DEF FoundNowhere

\* A class that is loaded is covered, or was found under another name.
LEMMA LoadedIsCovered ==
  ASSUME \A p \in Paths : ReadsWhatWasPacked(p), Orderly(program), Typed, [Next]_vars,
         NEW n \in Names, classes'[n].kind = "real", classes'[n] # classes[n]
  PROVE  Visit(n) \/ FoundNowhere(n)
<1>1. PICK m \in Names : LookUp(m) /\ LoadOrReplace(m, ClassIn(classPath[1], m))
  BY OnlyLookUpLoads
<1>2. Running /\ path \in program.paths /\ m \in Loadable(path)
      /\ NameOf(ClassIn(classPath[1], m)[1]) = Packed(path, m).name
  <2>1. Running
    BY <1>1 DEF LookUp, Visiting, Running
  <2> QED
    BY <1>1, <2>1, AnswersArePacked DEF LoadOrReplace, Typed
<1>3. n = Packed(path, m).name
  BY <1>1, <1>2 DEF LoadOrReplace, Typed, Registry
<1>4. CASE n = m
  BY <1>1, <1>4 DEF Visit
<1>5. CASE n # m
  <2>1. n \notin Stubs /\ Packed(path, n) = Nothing
    BY <1>2, <1>3, <1>5 DEF Orderly, Misplaced
  <2> QED
    BY <1>2, <2>1, NothingIsFoundNowhere
<1> QED
  BY <1>4, <1>5

\* A visited name is covered, unless the visit ends in an error.
LEMMA VisitedIsCovered ==
  ASSUME \A p \in Paths : ReadsWhatWasPacked(p), Orderly(program), Typed, [Next]_vars,
         NEW H \in SUBSET Names, Covers(H), NEW n \in Names, n \notin H, Visit(n), ~failed',
         NEW q \in program.paths
  PROVE  /\ \A m \in References(q, n) : Queued(m)'
         /\ n \in Loadable(q) => IsReal(classes[n])' \/ Misplaced(q, n)
<1>1. Running /\ path \in Paths /\ path \in program.paths
  <2>1. Running
    BY DEF Visit, Skip, LookUp, Visiting, Running
  <2> QED
    BY <2>1, AnswersArePacked DEF Typed
<1>2. CASE Skip(n)
  <2>1. FoundNowhere(n)
    <3>1. IsArrayName(n) \/ IsReal(classes[n])
      BY <1>1, <1>2 DEF Skip, Skipped, Covers
    <3>2. CASE IsArrayName(n)
      BY <1>1, <3>2, LoaderAssumption, NothingIsFoundNowhere
    <3>3. CASE classes[n] = Own
      <4>1. n \notin Stubs /\ n \in program.supplies
        BY <3>3 DEF Typed, Registry, EntryIsAccountedFor, Own, Stub, Unknown, Real
      <4> QED
        BY <4>1 DEF Orderly, FoundNowhere, References
    <3>4. CASE classes[n].kind = "real"
      BY <3>4 DEF Covers
    <3>5. IsReal(classes[n]) => classes[n] = Own \/ classes[n].kind = "real"
      BY DEF IsReal, Typed, Registry, EntryIsAccountedFor, Own, Stub, Unknown, Real
    <3> QED
      BY <3>1, <3>2, <3>3, <3>4, <3>5
  <2> QED
    BY <2>1 DEF FoundNowhere
<1> DEFINE answer == ClassIn(classPath[1], n)
<1>3. CASE LookUp(n) /\ LoadOrReplace(n, answer)
  <2>1. n \in Loadable(path) /\ NameOf(answer[1]) = Packed(path, n).name
    BY <1>1, <1>3, AnswersArePacked DEF LoadOrReplace, Typed
  <2>2. \A m \in References(path, n) : Queued(m)'
    BY <1>1, <1>3, LoadedIsQueued
  <2>3. Packed(q, n) = Packed(path, n) \/ Packed(q, n) = Damaged
    BY <1>1, <2>1 DEF Orderly, Loadable
  <2>4. CASE Packed(q, n) = Damaged
    BY <2>4, LoaderAssumption DEF Loadable, References
  <2>5. CASE Packed(q, n) = Packed(path, n)
    <3>1. n \in Loadable(q) /\ References(q, n) = References(path, n)
      BY <2>1, <2>5 DEF Loadable, References
    <3>2. CASE Packed(path, n).name = n
      <4>1. classes'[n] = Real(answer[1], <<path, n>>)
        BY <1>3, <2>1, <3>2 DEF LoadOrReplace, Typed, Registry
      <4> QED
        BY <2>2, <3>1, <4>1 DEF IsReal, Real
    <3>3. CASE Packed(path, n).name # n
      BY <2>2, <2>5, <3>1, <3>3 DEF Misplaced
    <3> QED
      BY <3>2, <3>3
  <2> QED
    BY <2>3, <2>4, <2>5
<1>4. CASE LookUp(n) /\ KeepStub(n, answer)
  <2>1. Packed(path, n) = Nothing
    BY <1>1, <1>4, AnswersArePacked DEF KeepStub, Typed
  <2>2. Packed(q, n) = Nothing \/ Packed(q, n) = Damaged
    BY <1>1, <2>1, LoaderAssumption DEF Orderly
  <2>3. n \notin Loadable(q)
    BY <2>2 DEF Loadable
  <2>4. CASE References(q, n) = {}
    BY <2>3, <2>4
  <2>5. CASE References(q, n) # {}
    <3>1. n \in Stubs /\ References(q, n) = {StubRefs[n][i] : i \in DOMAIN StubRefs[n]}
      BY <2>3, <2>5 DEF References
    <3>2. classes[n] = Stub
      BY <1>4, <3>1 DEF LookUp, Skipped, IsReal, Typed, Registry, EntryIsAccountedFor, Real
    <3>3. StubRefs[n] \in Seq(Names)
      BY LoaderAssumption
    <3>4. queue' = Tail(queue) \o StubRefs[n] /\ queue \in Seq(Names) /\ queue # <<>>
      BY <1>4, <3>2 DEF KeepStub, Follow, LookUp, Visiting, Typed, CallState
    <3>5. \A i \in DOMAIN StubRefs[n] : Queued(StubRefs[n][i])'
      BY <3>3, <3>4, AddedAreQueued
    <3> QED
      BY <2>3, <3>1, <3>5
  <2> QED
    BY <2>4, <2>5
<1>5. ~Fail(n, answer)
  BY DEF Fail
<1> QED
  BY <1>2, <1>3, <1>4, <1>5 DEF Visit, LookUp

\* A visit adds its name to the covered ones.
LEMMA VisitCovers ==
  ASSUME \A p \in Paths : ReadsWhatWasPacked(p), Orderly(program), Typed, [Next]_vars,
         NEW H \in SUBSET Names, Covers(H), NEW n \in Names, Visit(n), ~failed'
  PROVE  Covers(H \cup {n})'
<1>1. /\ Running /\ Running' /\ root' = root /\ closed' = closed /\ seen' = seen \cup {n}
      /\ program' = program
      /\ \A m : Queued(m) => m = n \/ Queued(m)'
      /\ \A m \in Names : IsReal(classes[m]) => IsReal(classes'[m])
  BY VisitKeepsOthers, SettledStaysSettled
<1>2. ASSUME NEW m \in H
      PROVE  CoversName(H \cup {n}, m)'
  <2>1. CoversName(H, m)
    BY DEF Covers
  <2> QED
    BY <1>1, <2>1 DEF CoversName
<1>3. CoversName(H \cup {n}, n)'
  <2>1. CASE n \in H
    BY <1>2, <2>1
  <2>2. CASE n \notin H
    BY <1>1, <2>2, VisitedIsCovered DEF CoversName
  <2> QED
    BY <2>1, <2>2
<1>4. ASSUME NEW m \in Names, classes'[m].kind = "real"
      PROVE  m \in H \cup {n} \/ FoundNowhere(m)'
  <2>1. CASE classes'[m] = classes[m]
    BY <1>1, <1>4, <2>1 DEF Covers, FoundNowhere
  <2>2. CASE classes'[m] # classes[m]
    <3>1. Visit(m) \/ FoundNowhere(m)
      BY <1>4, <2>2, LoadedIsCovered
    <3>2. Visit(m) => m = n
      BY DEF Visit, Skip, LookUp, Visiting
    <3> QED
      BY <1>1, <3>1, <3>2 DEF FoundNowhere
  <2> QED
    BY <2>1, <2>2
<1>5. \A c \in closed' : Reachable(c[1], c[2]) \subseteq H \cup {n}
  BY <1>1 DEF Covers
<1>6. seen' \subseteq H \cup {n} /\ (root' \in H \cup {n} \/ Queued(root)')
  BY <1>1 DEF Covers
<1> QED
  BY <1>2, <1>3, <1>4, <1>5, <1>6 DEF Covers

\* A step outside the loop leaves the covered names as they are.
LEMMA OthersCover ==
  ASSUME \A p \in Paths : ReadsWhatWasPacked(p), Orderly(program), Typed, [Next]_vars,
         NEW H \in SUBSET Names, Covers(H), ~ \E n \in Names : Visit(n)
  PROVE  Covers(H)'
<1>1. /\ program' = program
      /\ \A m \in Names : IsReal(classes[m]) => IsReal(classes'[m])
  BY SettledStaysSettled
<1>2. \A m : Queued(m) => Queued(m)'
  <2>1. CASE Running
    <3>1. queue' = queue
      BY <2>1 DEF Next, Continue, Load, Call, OpenPath, LoadClosure, LoadClosureReturns, Running, walk, vars
    <3> QED
      BY <3>1 DEF Queued
  <2>2. CASE ~Running
    BY <2>2 DEF Typed, CallState, Queued
  <2> QED
    BY <2>1, <2>2
<1>3. ASSUME NEW m \in H
      PROVE  CoversName(H, m)'
  BY <1>1, <1>2 DEF Covers, CoversName
<1>4. ASSUME NEW m \in Names, classes'[m].kind = "real"
      PROVE  m \in H \/ FoundNowhere(m)'
  <2>1. CASE classes'[m] = classes[m]
    BY <1>1, <1>4, <2>1 DEF Covers, FoundNowhere
  <2>2. CASE classes'[m] # classes[m]
    <3>1. FoundNowhere(m)
      BY <1>4, <2>2, LoadedIsCovered
    <3> QED
      BY <1>1, <3>1 DEF FoundNowhere
  <2> QED
    BY <2>1, <2>2
<1>5. ASSUME NEW c \in closed'
      PROVE  Reachable(c[1], c[2]) \subseteq H
  <2>1. CASE c \in closed
    BY <2>1 DEF Covers
  <2>2. CASE c \notin closed
    <3>1. LoadClosureReturns
      BY <1>5, <2>2 DEF Next, Continue, Load, OpenPath, LoadClosure, history, vars
    <3>2. c = <<path, root>> /\ Running /\ \A m : ~Queued(m)
      BY <1>5, <2>2, <3>1 DEF LoadClosureReturns, Running, Queued
    <3>3. path \in program.paths /\ root \in H
      BY <3>2 DEF Typed, CallState, Covers
    <3>4. ClosedUnder(path, H)
      BY <3>2, <3>3 DEF Covers, CoversName, ClosedUnder
    <3> QED
      BY <3>2, <3>3, <3>4, ReachableStaysInside
  <2> QED
    BY <2>1, <2>2
<1>6. Running' => seen' \subseteq H /\ (root' \in H \/ Queued(root)')
  <2>1. CASE \E n \in program.roots : LoadClosure(n)
    <3>1. PICK n \in program.roots : LoadClosure(n)
      BY <2>1
    <3>2. seen' = {} /\ root' = n /\ queue' = <<n>>
      BY <3>1 DEF LoadClosure
    <3>3. 1 \in DOMAIN queue' /\ queue'[1] = n
      BY <3>2
    <3> QED
      BY <3>2, <3>3 DEF Queued
  <2>2. CASE ~ \E n \in program.roots : LoadClosure(n)
    <3>1. Running' => Running /\ seen' = seen /\ root' = root
      BY <2>2 DEF Next, Continue, Load, Call, OpenPath, LoadClosureReturns, Running, walk, call, vars
    <3> QED
      BY <1>2, <3>1 DEF Covers
  <2> QED
    BY <2>1, <2>2
<1> QED
  BY <1>3, <1>4, <1>5, <1>6 DEF Covers

LEMMA VisitsCoverStep ==
  ASSUME \A p \in Paths : ReadsWhatWasPacked(p), \A use \in Programs : Orderly(use),
         Typed, VisitsCover, [Next]_vars
  PROVE  VisitsCover'
<1>1. SUFFICES ASSUME ~failed'
               PROVE  \E H \in SUBSET Names : Covers(H)'
  BY DEF VisitsCover
<1>2. PICK H \in SUBSET Names : Covers(H)
  BY <1>1, SettledStaysSettled DEF VisitsCover
<1>3. Orderly(program)
  BY DEF Typed, CallState
<1>4. ASSUME NEW n \in Names, Visit(n)
      PROVE  Covers(H \cup {n})'
  BY <1>1, <1>2, <1>3, <1>4, VisitCovers
<1>5. CASE ~ \E n \in Names : Visit(n)
  BY <1>2, <1>3, <1>5, OthersCover
<1> QED
  BY <1>4, <1>5

\* ClosuresComplete, of load_closure ("the whole transitive closure"): if reading a
\* class path gives what was packed into it, and programs are orderly, then until a call
\* fails every class reachable from a root that returned Ok is loaded, over any number
\* of calls, paths and roots.
THEOREM ClosuresAreComplete ==
  ASSUME \A p \in Paths : ReadsWhatWasPacked(p), \A use \in Programs : Orderly(use)
  PROVE  Spec => []ClosuresComplete
<1>1. Init => VisitsCover
  <2> SUFFICES ASSUME Init
               PROVE  Covers({})
    BY DEF VisitsCover
  <2> QED
    BY DEF Init, Covers, Running, Stub, Unknown
<1>2. Typed /\ VisitsCover /\ [Next]_vars => VisitsCover'
  BY VisitsCoverStep
<1>3. Typed /\ VisitsCover => ClosuresComplete
  <2> SUFFICES ASSUME Typed, VisitsCover, ~failed, NEW c \in closed,
                      NEW m \in Reachable(c[1], c[2]) \cap Loadable(c[1])
               PROVE  IsReal(classes[m]) \/ Misplaced(c[1], m)
    BY DEF ClosuresComplete
  <2>1. PICK H \in SUBSET Names : Covers(H)
    BY DEF VisitsCover
  <2>2. m \in H /\ c[1] \in program.paths
    BY <2>1 DEF Covers, Typed, CallState
  <2> QED
    BY <2>1, <2>2 DEF Covers, CoversName
<1> QED
  BY <1>1, <1>2, <1>3, TypedAlways, PTL DEF Spec
=============================================================================
