-------------------------- MODULE HeapAccessProofs --------------------------
EXTENDS HeapAccess, SequenceTheorems, WellFoundedInduction, TLAPS

-----------------------------------------------------------------------------
(* Induction and recursion, in a form the provers can instantiate: over    *)
(* sets and functions, not over predicates.                                *)

LEMMA LeastNumber ==
  ASSUME NEW S \in SUBSET Nat, S # {}
  PROVE  \E n \in S : \A m \in S : n <= m
<1>1. IsWellFoundedOn(OpToRel(<, Nat), Nat)
  BY NatLessThanWellFounded
<1>2. PICK n \in S : \A m \in S : ~(<<m, n>> \in OpToRel(<, Nat))
  BY <1>1, WFMin
<1>3. \A m \in S : ~(m < n)
  BY <1>2 DEF OpToRel
<1> QED
  BY <1>3

LEMMA Induction ==
  ASSUME NEW S \in SUBSET Nat, 0 \in S, \A n \in S : n + 1 \in S
  PROVE  S = Nat
<1> SUFFICES ASSUME S # Nat
             PROVE  FALSE
  OBVIOUS
<1>1. PICK n \in Nat \ S : \A m \in Nat \ S : n <= m
  BY LeastNumber
<1>2. n # 0 /\ n - 1 \in S
  BY <1>1
<1> QED
  BY <1>1, <1>2

\* There are no infinite descents, nor cycles, from a member to one below it.
Founded(X, below) ==
  /\ below \in [X -> SUBSET X]
  /\ \A S \in SUBSET X : S # {} => \E x \in S : below[x] \cap S = {}

\* What a member gets from `step' depends only on what those below it get.
Local(X, V, below, step) ==
  /\ step \in [X \X [X -> V] -> V]
  /\ \A x \in X : \A f, g \in [X -> V] : (\A y \in below[x] : f[y] = g[y]) => step[<<x, f>>] = step[<<x, g>>]

LEMMA FoundedInduction ==
  ASSUME NEW X, NEW below, Founded(X, below), NEW S \in SUBSET X,
         \A x \in X : below[x] \subseteq S => x \in S
  PROVE  S = X
<1> SUFFICES ASSUME X \ S # {}
             PROVE  FALSE
  OBVIOUS
<1>1. PICK x \in X \ S : below[x] \cap (X \ S) = {}
  BY DEF Founded
<1>2. below[x] \subseteq S
  BY <1>1 DEF Founded
<1> QED
  BY <1>1, <1>2

\* A function is right on a set that has, with a member, those below it.
RightOn(A, f, below, step) == \A x \in A : below[x] \subseteq A /\ f[x] = step[<<x, f>>]

LEMMA RightOnce ==
  ASSUME NEW X, NEW V, NEW below, NEW step, Founded(X, below), Local(X, V, below, step),
         NEW A \in SUBSET X, NEW B \in SUBSET X, NEW f \in [X -> V], NEW g \in [X -> V],
         RightOn(A, f, below, step), RightOn(B, g, below, step)
  PROVE  \A x \in A \cap B : f[x] = g[x]
<1> DEFINE S == {x \in X : x \in A \cap B => f[x] = g[x]}
<1>1. ASSUME NEW x \in X, below[x] \subseteq S
      PROVE  x \in S
  <2> SUFFICES ASSUME x \in A \cap B
               PROVE  f[x] = g[x]
    OBVIOUS
  <2>1. \A y \in below[x] : f[y] = g[y]
    BY <1>1 DEF RightOn
  <2>2. step[<<x, f>>] = step[<<x, g>>]
    BY <2>1 DEF Local
  <2> QED
    BY <2>2 DEF RightOn
<1>2. S \in SUBSET X
  OBVIOUS
<1>3. \A x \in X : below[x] \subseteq S => x \in S
  BY <1>1
<1>4. S = X
  <2> HIDE DEF S
  <2> QED
    BY <1>2, <1>3, FoundedInduction
<1> QED
  BY <1>4

\* There is a function that `step' defines from its own values.
Recursive(X, V, step) == \E f \in [X -> V] : \A x \in X : f[x] = step[<<x, f>>]

LEMMA FoundedRecursion ==
  ASSUME NEW X, NEW V, V # {}, NEW below, NEW step, Founded(X, below), Local(X, V, below, step)
  PROVE  Recursive(X, V, step)
<1> DEFINE Attempt(x, f) == \E A \in SUBSET X : x \in A /\ RightOn(A, f, below, step)
           S == {x \in X : \E f \in [X -> V] : Attempt(x, f)}
           At(x) == CHOOSE f \in [X -> V] : Attempt(x, f)
           F == [x \in X |-> IF x \in S THEN At(x)[x] ELSE CHOOSE v \in V : TRUE]
<1>1. \A x \in S : At(x) \in [X -> V] /\ Attempt(x, At(x))
  OBVIOUS
<1> HIDE DEF At
<1>2. F \in [X -> V]
  BY <1>1
<1>3. ASSUME NEW x \in S
      PROVE  below[x] \subseteq S /\ F[x] = step[<<x, F>>]
  <2>1. PICK A \in SUBSET X : x \in A /\ RightOn(A, At(x), below, step)
    BY <1>1
  <2>2. A \subseteq S
    BY <1>1, <2>1
  <2>3. ASSUME NEW y \in below[x]
        PROVE  F[y] = At(x)[y]
    <3>1. y \in A /\ y \in S
      BY <2>1, <2>2 DEF RightOn
    <3>2. PICK B \in SUBSET X : y \in B /\ RightOn(B, At(y), below, step)
      BY <1>1, <3>1
    <3>3. At(x)[y] = At(y)[y]
      BY <1>1, <2>1, <3>1, <3>2, RightOnce
    <3> QED
      BY <3>1, <3>3
  <2>4. step[<<x, F>>] = step[<<x, At(x)>>]
    BY <1>1, <1>2, <2>3 DEF Local
  <2>5. At(x)[x] = step[<<x, At(x)>>] /\ below[x] \subseteq A
    BY <2>1 DEF RightOn
  <2> QED
    BY <2>2, <2>4, <2>5
<1>4. ASSUME NEW x \in X, below[x] \subseteq S, x \notin S
      PROVE  FALSE
  <2> DEFINE H == [F EXCEPT ![x] = step[<<x, F>>]]
  <2>1. step[<<x, F>>] \in V
    BY <1>2 DEF Local
  <2>2. H \in [X -> V]
    BY <1>2, <2>1
  <2>3. \A y \in S \cup {x} : below[y] \subseteq S
    BY <1>3, <1>4
  <2>4. \A y \in S : H[y] = F[y]
    BY <1>2, <1>4
  <2>5. H[x] = step[<<x, F>>]
    BY <1>2
  <2> HIDE DEF H
  <2>6. ASSUME NEW y \in S \cup {x}
        PROVE  step[<<y, H>>] = step[<<y, F>>]
    <3>1. y \in X /\ \A z \in below[y] : H[z] = F[z]
      BY <2>3, <2>4
    <3> QED
      BY <1>2, <2>2, <3>1 DEF Local
  <2>7. RightOn(S \cup {x}, H, below, step)
    BY <1>3, <2>3, <2>4, <2>5, <2>6 DEF RightOn
  <2>8. Attempt(x, H)
    BY <2>7
  <2> QED
    BY <1>4, <2>2, <2>8
<1>5. S \in SUBSET X
  OBVIOUS
<1> HIDE DEF S, F
<1>6. S = X
  BY <1>4, <1>5, FoundedInduction
<1> QED
  BY <1>2, <1>3, <1>6 DEF Recursive

\* There is a function that collects what is below, at any distance.
LEMMA Collected ==
  ASSUME NEW X, NEW below, Founded(X, below)
  PROVE  \E f \in [X -> SUBSET X] : f = [x \in X |-> {x} \cup UNION {f[y] : y \in below[x]}]
<1> DEFINE V == SUBSET X
           step == [q \in X \X [X -> V] |-> {q[1]} \cup UNION {q[2][y] : y \in below[q[1]]}]
<1>1. ASSUME NEW x \in X, NEW f \in [X -> V]
      PROVE  step[<<x, f>>] = {x} \cup UNION {f[y] : y \in below[x]} /\ step[<<x, f>>] \in V
  BY DEF Founded
<1>2. step \in [X \X [X -> V] -> V]
  BY <1>1
<1> HIDE DEF step
<1>3. ASSUME NEW x \in X, NEW f \in [X -> V], NEW g \in [X -> V], \A y \in below[x] : f[y] = g[y]
      PROVE  step[<<x, f>>] = step[<<x, g>>]
  <2>1. {f[y] : y \in below[x]} = {g[y] : y \in below[x]}
    BY <1>3
  <2> QED
    BY <1>1, <2>1
<1>4. V # {}
  OBVIOUS
<1> HIDE DEF V
<1>5. Local(X, V, below, step)
  BY <1>2, <1>3 DEF Local
<1>6. Founded(X, below)
  OBVIOUS
<1>7. Founded(X, below)
  OBVIOUS
<1>8. Recursive(X, V, step)
  BY <1>4, <1>5, <1>7, FoundedRecursion
<1>9. PICK f \in [X -> V] : \A x \in X : f[x] = step[<<x, f>>]
  BY <1>8 DEF Recursive
<1> QED
  BY <1>1, <1>9 DEF V

-----------------------------------------------------------------------------
(* Subtypes. *)

AboveOf(fs) == [c \in DOMAIN fs |-> J!Above(fs, c)]

LEMMA HierarchyIsFounded ==
  ASSUME NEW fs, Hierarchy(fs)
  PROVE  Founded(DOMAIN fs, AboveOf(fs))
BY DEF Hierarchy, Founded, AboveOf

LEMMA HierarchyInduction ==
  ASSUME NEW fs, Hierarchy(fs), NEW S \in SUBSET DOMAIN fs,
         \A c \in DOMAIN fs : J!Above(fs, c) \subseteq S => c \in S
  PROVE  S = DOMAIN fs
<1>1. \A c \in DOMAIN fs : AboveOf(fs)[c] \subseteq S => c \in S
  BY DEF AboveOf
<1> QED
  BY <1>1, HierarchyIsFounded, FoundedInduction

\* The recursion that defines the supertypes of Java is sound.
LEMMA SupertypesUnfold ==
  ASSUME NEW fs, Hierarchy(fs), NEW c \in DOMAIN fs
  PROVE  /\ J!SupertypesIn(fs, c) = {c} \cup UNION {J!SupertypesIn(fs, d) : d \in J!Above(fs, c)}
         /\ J!SupertypesIn(fs, c) \subseteq DOMAIN fs
<1> DEFINE X == DOMAIN fs
           Above(d) == J!Above(fs, d)
           up[d \in X] == {d} \cup UNION {up[e] : e \in Above(d)}
<1>1. \A d \in X : Above(d) \subseteq X /\ AboveOf(fs)[d] = Above(d)
  BY DEF Hierarchy, AboveOf
<1>2. PICK f \in [X -> SUBSET X] : f = [d \in X |-> {d} \cup UNION {f[e] : e \in AboveOf(fs)[d]}]
  BY HierarchyIsFounded, Collected
<1>3. f = [d \in X |-> {d} \cup UNION {f[e] : e \in Above(d)}]
  BY <1>1, <1>2
<1>4. up = [d \in X |-> {d} \cup UNION {up[e] : e \in Above(d)}]
  BY <1>3
<1>5. \A d \in X : J!SupertypesIn(fs, d) = up[d]
  BY DEF J!SupertypesIn
<1> HIDE DEF up
<1>6. J!SupertypesIn(fs, c) = {c} \cup UNION {J!SupertypesIn(fs, e) : e \in Above(c)}
  <2>1. {J!SupertypesIn(fs, e) : e \in Above(c)} = {up[e] : e \in Above(c)}
    BY <1>1, <1>5
  <2> QED
    BY <1>4, <1>5, <2>1
<1>7. \A d \in X : up[d] \subseteq X
  <2> DEFINE S == {d \in X : up[d] \subseteq X}
  <2>1. ASSUME NEW d \in X, Above(d) \subseteq S
        PROVE  d \in S
    <3>1. up[d] = {d} \cup UNION {up[e] : e \in Above(d)}
      BY <1>4
    <3> QED
      BY <2>1, <3>1
  <2>2. S \in SUBSET X
    OBVIOUS
  <2>3. S = X
    <3> HIDE DEF S
    <3> QED
      BY <2>1, <2>2, HierarchyInduction
  <2> QED
    BY <2>3
<1> QED
  BY <1>5, <1>6, <1>7

LEMMA SupertypesOfSupertypes ==
  ASSUME NEW fs, Hierarchy(fs), NEW c \in DOMAIN fs, NEW d \in J!SupertypesIn(fs, c)
  PROVE  J!SupertypesIn(fs, d) \subseteq J!SupertypesIn(fs, c)
<1> DEFINE Up(e) == J!SupertypesIn(fs, e)
           S == {e \in DOMAIN fs : \A g \in Up(e) : Up(g) \subseteq Up(e)}
<1>1. ASSUME NEW e \in DOMAIN fs, J!Above(fs, e) \subseteq S
      PROVE  e \in S
  <2>1. Up(e) = {e} \cup UNION {Up(g) : g \in J!Above(fs, e)}
    BY SupertypesUnfold
  <2> HIDE DEF Up
  <2> QED
    BY <1>1, <2>1
<1>2. S \in SUBSET DOMAIN fs
  OBVIOUS
<1>3. S = DOMAIN fs
  <2> HIDE DEF S
  <2> QED
    BY <1>1, <1>2, HierarchyInduction
<1> QED
  BY <1>3

Types(fs) == Nat \X (DOMAIN fs \cup Primitives)

LEMMA SubtypesOfSubtypes ==
  ASSUME NEW fs, Hierarchy(fs), NEW s \in Types(fs), NEW t \in Types(fs), NEW u \in Types(fs),
         J!SubtypeIn(fs, s, t), J!SubtypeIn(fs, t, u)
  PROVE  J!SubtypeIn(fs, s, u)
<1>1. CASE s = t \/ t = u
  BY <1>1
<1>2. ASSUME s[1] = t[1], s[2] \notin Primitives, t[2] \notin Primitives,
             t[2] \in J!SupertypesIn(fs, s[2]) \cup {Object}, t # u
      PROVE  J!SubtypeIn(fs, s, u)
  <2>1. s[2] \in DOMAIN fs /\ t[2] \in DOMAIN fs /\ Object \in DOMAIN fs
    BY <1>2 DEF Types, Hierarchy
  <2>2. J!SupertypesIn(fs, Object) = {Object}
    BY <2>1, SupertypesUnfold DEF Hierarchy
  <2>3. J!SupertypesIn(fs, t[2]) \subseteq J!SupertypesIn(fs, s[2]) \cup {Object}
    BY <1>2, <2>1, <2>2, SupertypesOfSupertypes
  <2> QED
    BY <1>2, <2>3 DEF J!SubtypeIn
<1>3. ASSUME s[1] > t[1], t[2] \in ArrayInterfaces \cup {Object}, t # u
      PROVE  J!SubtypeIn(fs, s, u)
  <2>1. CASE t[1] = u[1] /\ t[2] \notin Primitives /\ u[2] \in J!SupertypesIn(fs, t[2]) \cup {Object}
    <3>1. t[2] \in DOMAIN fs /\ J!Above(fs, t[2]) \subseteq {Object}
      BY <1>3, <2>1 DEF Types, Hierarchy
    <3>2. J!SupertypesIn(fs, Object) = {Object}
      BY SupertypesUnfold DEF Hierarchy
    <3>3. J!SupertypesIn(fs, t[2]) \subseteq {t[2], Object}
      BY <3>1, <3>2, SupertypesUnfold
    <3> QED
      BY <1>3, <2>1, <3>3 DEF J!SubtypeIn
  <2>2. CASE t[1] > u[1] /\ u[2] \in ArrayInterfaces \cup {Object}
    BY <1>3, <2>2 DEF J!SubtypeIn, Types
  <2> QED
    BY <1>3, <2>1, <2>2 DEF J!SubtypeIn
<1> QED
  BY <1>1, <1>2, <1>3 DEF J!SubtypeIn

-----------------------------------------------------------------------------
(* The tests of the code. *)

\* The classes of the program are loaded, all of them, and none is defined while it runs.
AllLoaded(fs) == files = fs /\ DOMAIN classes = DOMAIN fs /\ DOMAIN runtimeClasses = {}

\* The recursion that defines the superclasses is sound.
LEMMA ChainUnfolds ==
  ASSUME NEW fs, Hierarchy(fs), AllLoaded(fs), NEW c \in DOMAIN fs
  PROVE  /\ SuperChain(c) = <<c>> \o SuperChain(Super(c))
         /\ SuperChain(c) \in Seq(DOMAIN fs) /\ SuperChain(Super(c)) \in Seq(DOMAIN fs)
         /\ Super(c) = NoClass \/ Super(c) \in J!Above(fs, c)
         /\ SuperChain(NoClass) = <<>>
<1> DEFINE X == DOMAIN fs \cup {NoClass}
           V == Seq(DOMAIN fs)
           below == [d \in X |-> IF d = NoClass THEN {} ELSE {fs[d].super}]
           step == [q \in X \X [X -> V] |-> IF q[1] # NoClass THEN <<q[1]>> \o q[2][fs[q[1]].super] ELSE <<>>]
           chain[d \in DOMAIN files \cup {NoClass}] == IF Loaded(d) THEN <<d>> \o chain[Super(d)] ELSE <<>>
<1>1. /\ NoClass \notin DOMAIN fs
      /\ \A d \in X : Loaded(d) <=> d # NoClass
      /\ \A d \in DOMAIN fs : Super(d) = fs[d].super /\ Super(d) \in X /\ (Super(d) = NoClass \/ Super(d) \in J!Above(fs, d))
  BY DEF AllLoaded, Hierarchy, Loaded, Super, J!Above
<1>2. Founded(X, below)
  <2>1. below \in [X -> SUBSET X]
    BY <1>1
  <2>2. ASSUME NEW S \in SUBSET X, S # {}
        PROVE  \E d \in S : below[d] \cap S = {}
    <3>1. CASE NoClass \in S
      BY <3>1
    <3>2. CASE NoClass \notin S
      <4>1. PICK d \in S : J!Above(fs, d) \cap S = {}
        BY <2>2, <3>2 DEF Hierarchy
      <4> QED
        BY <1>1, <3>2, <4>1
    <3> QED
      BY <3>1, <3>2
  <2> QED
    BY <2>1, <2>2 DEF Founded
<1>3. ASSUME NEW d \in X, NEW f \in [X -> V]
      PROVE  /\ step[<<d, f>>] = IF d # NoClass THEN <<d>> \o f[fs[d].super] ELSE <<>>
             /\ step[<<d, f>>] \in V
  <2>1. step[<<d, f>>] = IF d # NoClass THEN <<d>> \o f[fs[d].super] ELSE <<>>
    <3> HIDE DEF X, V
    <3> QED
      OBVIOUS
  <2>2. <<>> \in V
    OBVIOUS
  <2>3. d # NoClass => <<d>> \in V /\ f[fs[d].super] \in V
    BY <1>1
  <2>4. d # NoClass => <<d>> \o f[fs[d].super] \in V
    BY <2>3
  <2> QED
    BY <2>1, <2>2, <2>4
<1>4. Local(X, V, below, step)
  <2>1. step \in [X \X [X -> V] -> V]
    BY <1>3
  <2> HIDE DEF step
  <2>2. ASSUME NEW d \in X, NEW f \in [X -> V], NEW g \in [X -> V], \A e \in below[d] : f[e] = g[e]
        PROVE  step[<<d, f>>] = step[<<d, g>>]
    <3>1. d # NoClass => f[fs[d].super] = g[fs[d].super]
      BY <2>2
    <3> HIDE DEF X, V
    <3> QED
      BY <1>3, <3>1
  <2> HIDE DEF X, V, below
  <2> QED
    BY <2>1, <2>2 DEF Local
<1>5. V # {}
  <2>1. <<>> \in V
    OBVIOUS
  <2> QED
    BY <2>1
<1>6. PICK f \in [X -> V] : \A d \in X : f[d] = step[<<d, f>>]
  <2> HIDE DEF X, V, below, step
  <2>1. Recursive(X, V, step)
    BY <1>2, <1>4, <1>5, FoundedRecursion
  <2> QED
    BY <2>1 DEF Recursive
<1>7. \A d \in X : f[d] = IF Loaded(d) THEN <<d>> \o f[Super(d)] ELSE <<>>
  <2> SUFFICES ASSUME NEW d \in X
               PROVE  f[d] = IF Loaded(d) THEN <<d>> \o f[Super(d)] ELSE <<>>
    OBVIOUS
  <2>1. f[d] = IF d # NoClass THEN <<d>> \o f[fs[d].super] ELSE <<>>
    <3> HIDE DEF X, V, step
    <3> QED
      BY <1>3, <1>6, Zenon
  <2>2. Loaded(d) <=> d # NoClass
    BY <1>1
  <2>3. d # NoClass => Super(d) = fs[d].super
    BY <1>1
  <2> HIDE DEF X
  <2> QED
    BY <2>1, <2>2, <2>3
<1>8. f = [d \in X |-> IF Loaded(d) THEN <<d>> \o f[Super(d)] ELSE <<>>]
  <2>1. f = [d \in X |-> f[d]]
    <3> HIDE DEF X, V
    <3> QED
      BY <1>6, Zenon
  <2>2. [d \in X |-> f[d]] = [d \in X |-> IF Loaded(d) THEN <<d>> \o f[Super(d)] ELSE <<>>]
    <3> HIDE DEF X, V
    <3> QED
      BY <1>7, Zenon
  <2> QED
    BY <2>1, <2>2
<1>9. X = DOMAIN files \cup {NoClass}
  BY Zenon DEF AllLoaded
<1>10. chain = [d \in X |-> IF Loaded(d) THEN <<d>> \o chain[Super(d)] ELSE <<>>]
  BY <1>8, <1>9, Zenon
<1>11. \A d \in X : SuperChain(d) = chain[d]
  BY DEF SuperChain
<1> HIDE DEF chain
<1>12. \A d \in X : chain[d] \in Seq(DOMAIN fs)
  <2> DEFINE S == {d \in X : chain[d] \in Seq(DOMAIN fs)}
  <2>1. ASSUME NEW d \in X, below[d] \subseteq S
        PROVE  d \in S
    <3>1. CASE d = NoClass
      <4>1. chain[d] = <<>>
        BY <1>1, <1>10, <3>1
      <4>2. <<>> \in Seq(DOMAIN fs)
        OBVIOUS
      <4> QED
        BY <4>1, <4>2
    <3>2. CASE d # NoClass
      <4>1. chain[d] = <<d>> \o chain[Super(d)] /\ Super(d) \in S
        BY <1>1, <1>10, <2>1, <3>2
      <4>2. <<d>> \in Seq(DOMAIN fs) /\ chain[Super(d)] \in Seq(DOMAIN fs)
        BY <3>2, <4>1
      <4>3. <<d>> \o chain[Super(d)] \in Seq(DOMAIN fs)
        BY <4>2
      <4> HIDE DEF X
      <4> QED
        BY <4>1, <4>3
    <3> QED
      BY <3>1, <3>2
  <2>2. S \in SUBSET X
    OBVIOUS
  <2>3. S = X
    <3> HIDE DEF S, X, below
    <3> QED
      BY <1>2, <2>1, <2>2, FoundedInduction
  <2> QED
    BY <2>3
<1>13. c \in X /\ Loaded(c) /\ Super(c) \in X
  BY <1>1
<1>14. chain[c] = <<c>> \o chain[Super(c)] /\ chain[NoClass] = <<>>
  BY <1>1, <1>10, <1>13
<1> QED
  BY <1>1, <1>11, <1>12, <1>13, <1>14

LEMMA InterfacesUnfold ==
  ASSUME NEW fs, Hierarchy(fs), AllLoaded(fs), NEW c \in DOMAIN fs
  PROVE  /\ InterfacesAbove(c) = {c} \cup UNION {InterfacesAbove(i) : i \in ToSet(Interfaces(c))}
         /\ ToSet(Interfaces(c)) \subseteq J!Above(fs, c)
<1> DEFINE X == DOMAIN fs
           below == [d \in X |-> ToSet(Interfaces(d))]
           above[d \in DOMAIN files] == {d} \cup (IF Loaded(d) THEN UNION {above[j] : j \in ToSet(Interfaces(d))} ELSE {})
<1>1. /\ DOMAIN files = X
      /\ \A d \in X : Loaded(d) /\ ToSet(Interfaces(d)) \subseteq J!Above(fs, d) /\ J!Above(fs, d) \subseteq X
  <2>1. files = fs /\ DOMAIN classes = DOMAIN fs
    BY DEF AllLoaded
  <2>2. \A d \in X : Loaded(d) /\ Interfaces(d) = fs[d].interfaces
    BY <2>1 DEF Loaded, Interfaces
  <2>3. \A d \in X : ToSet(fs[d].interfaces) \subseteq J!Above(fs, d)
    BY DEF J!Above, J!ToSet, ToSet
  <2>4. \A d \in X : J!Above(fs, d) \subseteq X
    BY DEF Hierarchy
  <2> QED
    BY <2>1, <2>2, <2>3, <2>4
<1>2. PICK under : under = below
  OBVIOUS
<1>3. Founded(X, under)
  <2>1. under \in [X -> SUBSET X]
    BY <1>1, <1>2
  <2>2. \A S \in SUBSET X : S # {} => \E d \in S : under[d] \cap S = {}
    BY <1>1, <1>2 DEF Hierarchy
  <2> QED
    BY <2>1, <2>2 DEF Founded
<1>4. PICK f \in [X -> SUBSET X] : f = [d \in X |-> {d} \cup UNION {f[e] : e \in under[d]}]
  BY <1>3, Collected
<1>5. f = [d \in DOMAIN files |->
             {d} \cup (IF Loaded(d) THEN UNION {f[j] : j \in ToSet(Interfaces(d))} ELSE {})]
  BY <1>1, <1>2, <1>4
<1>6. above = [d \in DOMAIN files |->
                 {d} \cup (IF Loaded(d) THEN UNION {above[j] : j \in ToSet(Interfaces(d))} ELSE {})]
  BY <1>5
<1>7. \A d \in X : InterfacesAbove(d) = above[d]
  BY DEF InterfacesAbove
<1> HIDE DEF above
<1>8. {InterfacesAbove(i) : i \in ToSet(Interfaces(c))} = {above[i] : i \in ToSet(Interfaces(c))}
  BY <1>1, <1>7
<1> QED
  BY <1>1, <1>6, <1>7, <1>8

LEMMA PrefixedSet ==
  ASSUME NEW S, NEW x \in S, NEW s \in Seq(S)
  PROVE  ToSet(<<x>> \o s) = {x} \cup ToSet(s)
<1> DEFINE t == <<x>> \o s
<1>1. /\ DOMAIN t = 1 .. Len(s) + 1 /\ t[1] = x
      /\ \A i \in 2 .. Len(s) + 1 : t[i] = s[i - 1]
  OBVIOUS
<1>2. \A i \in DOMAIN s : i + 1 \in DOMAIN t /\ t[i + 1] = s[i]
  BY <1>1
<1>3. DOMAIN s = 1 .. Len(s)
  OBVIOUS
<1> HIDE DEF t
<1> QED
  BY <1>1, <1>2, <1>3 DEF ToSet

\* What the code takes for supertypes of a class are supertypes of it.
LEMMA InstancesAreSubtypes ==
  ASSUME NEW fs, Hierarchy(fs), AllLoaded(fs), NEW c \in DOMAIN fs
  PROVE  SupertypesOf(c) \subseteq J!SupertypesIn(fs, c)
<1> DEFINE Up(d) == J!SupertypesIn(fs, d)
           S == {d \in DOMAIN fs : ToSet(SuperChain(d)) \subseteq Up(d)}
           I == {d \in DOMAIN fs : InterfacesAbove(d) \subseteq Up(d)}
<1>1. \A d \in DOMAIN fs : Up(d) = {d} \cup UNION {Up(e) : e \in J!Above(fs, d)}
  BY SupertypesUnfold
<1>2. ASSUME NEW d \in DOMAIN fs, J!Above(fs, d) \subseteq S
      PROVE  d \in S
  <2>1. ToSet(SuperChain(d)) = {d} \cup ToSet(SuperChain(Super(d)))
    <3>1. PICK rest \in Seq(DOMAIN fs) : rest = SuperChain(Super(d)) /\ SuperChain(d) = <<d>> \o rest
      BY ChainUnfolds
    <3> QED
      BY <3>1, PrefixedSet
  <2>2. CASE Super(d) = NoClass
    <3>1. ToSet(<<>>) = {}
      BY DEF ToSet
    <3> QED
      BY <1>1, <2>1, <2>2, <3>1, ChainUnfolds
  <2>3. CASE Super(d) \in J!Above(fs, d)
    BY <1>1, <1>2, <2>1, <2>3
  <2> QED
    BY <2>2, <2>3, ChainUnfolds
<1>3. ASSUME NEW d \in DOMAIN fs, J!Above(fs, d) \subseteq I
      PROVE  d \in I
  BY <1>1, <1>3, InterfacesUnfold
<1>4. S = DOMAIN fs /\ I = DOMAIN fs
  <2>1. S \in SUBSET DOMAIN fs /\ I \in SUBSET DOMAIN fs
    OBVIOUS
  <2> PICK S0, I0 : S0 = S /\ I0 = I
    OBVIOUS
  <2> QED
    BY <1>2, <1>3, <2>1, HierarchyInduction
<1>5. ToSet(SuperChain(c)) \subseteq Up(c)
  BY <1>4
<1>6. ASSUME NEW d \in ToSet(SuperChain(c)), NEW i \in ToSet(Interfaces(d))
      PROVE  InterfacesAbove(i) \subseteq Up(c)
  <2>1. d \in DOMAIN fs /\ Up(d) \subseteq Up(c)
    BY <1>5, SupertypesUnfold, SupertypesOfSupertypes
  <2>2. i \in J!Above(fs, d) /\ i \in DOMAIN fs
    BY <2>1, InterfacesUnfold DEF Hierarchy
  <2>3. Up(i) \subseteq Up(d) /\ InterfacesAbove(i) \subseteq Up(i)
    BY <1>1, <1>4, <2>1, <2>2
  <2> QED
    BY <2>1, <2>3
<1> QED
  BY <1>5, <1>6 DEF SupertypesOf

\* So an array that the code lets stand for another one, Java lets too.
LEMMA AssignableIsSubtype ==
  ASSUME NEW fs, Hierarchy(fs), AllLoaded(fs), NEW a \in Types(fs), NEW b \in Types(fs),
         ComponentAssignable(a, b)
  PROVE  J!SubtypeIn(fs, a, b)
<1> DEFINE sub == <<a[1] + 1, a[2]>>
           target == <<b[1] + 1, b[2]>>
<1>1. a[1] \in Nat /\ b[1] \in Nat /\ a = <<a[1], a[2]>> /\ b = <<b[1], b[2]>>
  BY DEF Types
<1>2. \/ sub = target
      \/ sub[1] >= target[1] /\ IsReference(<<sub[1] - target[1], sub[2]>>) /\ target[2] = Object
      \/ /\ sub[1] = target[1] /\ IsReference(<<sub[1] - target[1], sub[2]>>) /\ target[2] \notin Primitives
         /\ IsInstance(sub[2], target[2])
  BY <1>1 DEF ComponentAssignable, ArrayInstanceOf
<1>3. CASE sub = target
  BY <1>1, <1>3 DEF J!SubtypeIn
<1>4. CASE sub[1] >= target[1] /\ IsReference(<<sub[1] - target[1], sub[2]>>) /\ target[2] = Object
  <2>1. Object \notin Primitives
    BY DEF Hierarchy
  <2>2. CASE a[1] > b[1]
    BY <1>4, <2>2 DEF J!SubtypeIn
  <2>3. CASE a[1] = b[1]
    BY <1>1, <1>4, <2>1, <2>3 DEF J!SubtypeIn, IsReference
  <2> QED
    BY <1>1, <1>4, <2>2, <2>3
<1>5. CASE /\ sub[1] = target[1] /\ IsReference(<<sub[1] - target[1], sub[2]>>) /\ target[2] \notin Primitives
           /\ IsInstance(sub[2], target[2])
  <2>1. a[1] = b[1] /\ a[2] \notin Primitives /\ b[2] \notin Primitives /\ IsInstance(a[2], b[2])
    BY <1>1, <1>5 DEF IsReference
  <2>2. a[2] \in DOMAIN fs
    BY <2>1 DEF Types
  <2>3. SupertypesOf(a[2]) \subseteq J!SupertypesIn(fs, a[2])
    BY <2>2, InstancesAreSubtypes
  <2> QED
    BY <2>1, <2>3 DEF J!SubtypeIn, IsInstance
<1> QED
  BY <1>2, <1>3, <1>4, <1>5

-----------------------------------------------------------------------------
(* What a write to the heap, and a larger heap, keep. *)

\* The later heap has every object of the earlier one, of the same type and length.
Grows(h, g) ==
    /\ Len(h) <= Len(g)
    /\ \A o \in DOMAIN h :
          /\ g[o].kind = h[o].kind /\ TypeOf(g[o]) = TypeOf(h[o])
          /\ h[o].kind = "array" => Len(g[o].elements) = Len(h[o].elements)

LEMMA SequenceOfItsValues ==
  ASSUME NEW S, NEW n \in Nat, NEW s \in [1 .. n -> S]
  PROVE  s \in Seq(ToSet(s)) /\ Len(s) = n
<1>1. \A i \in 1 .. n : s[i] \in ToSet(s)
  BY DEF ToSet
<1> PICK T : T = ToSet(s)
  OBVIOUS
<1>2. s \in [1 .. n -> T]
  BY <1>1
<1>3. s \in Seq(T) /\ Len(s) = n
  BY <1>2
<1> QED
  BY <1>3

LEMMA HeapsAreSequences ==
  ASSUME NEW fs, NEW h, Heap(fs, h)
  PROVE  Len(h) \in Nat /\ DOMAIN h = 1 .. Len(h) /\ h = [o \in 1 .. Len(h) |-> h[o]]
<1> PICK S : S = ToSet(h) /\ h \in Seq(S)
  BY DEF Heap
<1> QED
  OBVIOUS

LEMMA ObjectsHaveTypes ==
  ASSUME NEW fs, NEW h, Heap(fs, h), NEW o \in DOMAIN h
  PROVE  TypeOf(h[o]) \in Types(fs)
<1>1. h[o] \in ArrayObjects(fs) \/ HasClass(fs, h[o])
  BY DEF Heap
<1>2. CASE h[o] \in ArrayObjects(fs)
  BY <1>2 DEF ArrayObjects, ArrayTypes, TypeOf, Types
<1>3. CASE HasClass(fs, h[o])
  BY <1>3 DEF HasClass, TypeOf, Types
<1> QED
  BY <1>1, <1>2, <1>3

\* What has the kind of an array is one.
LEMMA ArraysAreTyped ==
  ASSUME NEW fs, NEW h, Heap(fs, h), NEW o \in DOMAIN h, h[o].kind = "array"
  PROVE  /\ h[o] \in ArrayObjects(fs) /\ h[o].type \in ArrayTypes(fs) /\ h[o].elements \in Seq(Slots)
         /\ TypeOf(h[o]) = h[o].type /\ Component(h[o].type) \in Types(fs)
<1>1. h[o] \in ArrayObjects(fs)
  BY DEF Heap, HasClass
<1>2. h[o].type \in ArrayTypes(fs) /\ h[o].elements \in Seq(Slots)
  BY <1>1 DEF ArrayObjects
<1>3. Component(h[o].type) \in Types(fs)
  BY <1>2 DEF ArrayTypes, Component, Types
<1> QED
  BY <1>1, <1>2, <1>3 DEF TypeOf

LEMMA GrownFits ==
  ASSUME NEW fs, NEW h, NEW g, Heap(fs, h), Len(g) \in Nat, Grows(h, g),
         NEW type, NEW slot, Fits(fs, h, type, slot)
  PROVE  Fits(fs, g, type, slot)
<1>1. slot.value \in 0 .. Len(g)
  BY HeapsAreSequences DEF Fits, Grows
<1>2. slot.value # NoReference => TypeOf(g[slot.value]) = TypeOf(h[slot.value])
  BY HeapsAreSequences DEF Fits, Grows, NoReference
<1> QED
  BY <1>1, <1>2 DEF Fits

\* The heap once an element, or a slot of an instance, is written, or an object is added.
WithElement(h, o, i, slot) == [h EXCEPT ![o].elements[i] = slot]
WithSlot(h, o, i, slot) == [h EXCEPT ![o].slots[i] = slot]
WithObject(h, object) == Append(h, object)

LEMMA ElementWritten ==
  ASSUME NEW fs, NEW h, Heap(fs, h), NEW o \in DOMAIN h, h[o].kind = "array",
         NEW i \in DOMAIN h[o].elements, NEW slot \in Slots,
         OfReferences(h[o]) => Fits(fs, h, h[o].type, slot),
         NEW g, g = WithElement(h, o, i, slot)
  PROVE  Heap(fs, g) /\ Grows(h, g)
<1> DEFINE old == h[o].elements
           new == [old EXCEPT ![i] = slot]
<1>1. /\ h[o] \in ArrayObjects(fs) /\ old \in Seq(Slots) /\ h[o].type \in ArrayTypes(fs)
      /\ Len(h) \in Nat /\ DOMAIN h = 1 .. Len(h)
  BY ArraysAreTyped, HeapsAreSequences
<1>2. new \in Seq(Slots) /\ Len(new) = Len(old) /\ DOMAIN new = DOMAIN old
  BY <1>1
<1>3. g[o] = [h[o] EXCEPT !.elements = new]
  BY DEF WithElement
<1>4. /\ g[o] \in ArrayObjects(fs) /\ g[o].kind = "array" /\ g[o].type = h[o].type /\ g[o].elements = new
      /\ "kind" \in DOMAIN g[o]
  BY <1>1, <1>2, <1>3 DEF ArrayObjects
<1>5. DOMAIN g = DOMAIN h /\ \A b \in DOMAIN h \ {o} : g[b] = h[b]
  BY DEF WithElement
<1>6. g \in Seq(ToSet(g)) /\ Len(g) = Len(h)
  <2>1. PICK n, S : n \in Nat /\ n = Len(h) /\ S = {g[b] : b \in DOMAIN g}
    BY <1>1
  <2>2. g \in [1 .. n -> S]
    BY <1>1, <1>5, <2>1 DEF WithElement
  <2> QED
    BY <2>1, <2>2, SequenceOfItsValues
<1>7. Grows(h, g)
  <2>1. TypeOf(g[o]) = TypeOf(h[o])
    BY <1>4 DEF TypeOf
  <2>2. \A b \in DOMAIN h : g[b].kind = h[b].kind /\ TypeOf(g[b]) = TypeOf(h[b])
    BY <1>4, <1>5, <2>1
  <2>3. \A b \in DOMAIN h : Len(g[b].elements) = Len(h[b].elements)
    BY <1>2, <1>4, <1>5
  <2>4. Len(h) <= Len(g)
    BY <1>1, <1>6
  <2> QED
    BY <2>2, <2>3, <2>4, Zenon DEF Grows
<1>8. \A b \in DOMAIN g : "kind" \in DOMAIN g[b] /\ (g[b] \in ArrayObjects(fs) \/ HasClass(fs, g[b]))
  BY <1>4, <1>5 DEF Heap
<1>9. ASSUME NEW b \in DOMAIN g, OfReferences(g[b]), NEW j \in DOMAIN g[b].elements
      PROVE  Fits(fs, g, g[b].type, g[b].elements[j])
  <2>1. CASE b = o
    <3>1. OfReferences(h[o])
      BY <1>4, <1>9, <2>1 DEF OfReferences
    <3>2. Fits(fs, h, h[o].type, new[j])
      BY <1>2, <1>4, <1>9, <2>1, <3>1 DEF Heap
    <3>3. Fits(fs, g, h[o].type, new[j])
      BY <1>1, <1>6, <1>7, <3>2, GrownFits
    <3> QED
      BY <1>4, <2>1, <3>3
  <2>2. CASE b # o
    <3>1. Fits(fs, h, g[b].type, g[b].elements[j])
      BY <1>5, <1>9, <2>2 DEF Heap
    <3> QED
      BY <1>1, <1>6, <1>7, <3>1, GrownFits
  <2> QED
    BY <2>1, <2>2
<1> QED
  BY <1>1, <1>5, <1>6, <1>7, <1>8, <1>9 DEF Heap

LEMMA SlotWritten ==
  ASSUME NEW fs, NEW h, Heap(fs, h), NEW o \in DOMAIN h, h[o].kind # "array", NEW i, NEW slot,
         NEW g, g = WithSlot(h, o, i, slot)
  PROVE  Heap(fs, g) /\ Grows(h, g)
<1>1. PICK slots : g = [h EXCEPT ![o] = [h[o] EXCEPT !.slots = slots]]
  BY DEF WithSlot
<1>2. DOMAIN g = DOMAIN h /\ \A b \in DOMAIN h \ {o} : g[b] = h[b]
  BY <1>1
<1>3. g[o] = [h[o] EXCEPT !.slots = slots]
  BY <1>1
<1>4. HasClass(fs, h[o]) /\ "kind" \in DOMAIN h[o]
  BY DEF Heap, ArrayObjects
<1>5. /\ HasClass(fs, g[o]) /\ "kind" \in DOMAIN g[o] /\ g[o].kind = h[o].kind /\ g[o].kind # "array"
      /\ TypeOf(g[o]) = TypeOf(h[o])
  BY <1>3, <1>4 DEF HasClass, TypeOf
<1>6. g \in Seq(ToSet(g)) /\ Len(g) = Len(h) /\ Len(h) \in Nat /\ DOMAIN h = 1 .. Len(h)
  <2>1. Len(h) \in Nat /\ DOMAIN h = 1 .. Len(h)
    BY HeapsAreSequences
  <2>2. PICK n, S : n \in Nat /\ n = Len(h) /\ S = {g[b] : b \in DOMAIN g}
    BY <2>1
  <2>3. g \in [1 .. n -> S]
    BY <1>1, <1>2, <2>1, <2>2
  <2>4. g \in Seq(ToSet(g)) /\ Len(g) = Len(h)
    BY <2>2, <2>3, SequenceOfItsValues
  <2> QED
    BY <2>1, <2>4
<1>7. Grows(h, g)
  BY <1>2, <1>5, <1>6 DEF Grows
<1>8. \A b \in DOMAIN g : "kind" \in DOMAIN g[b] /\ (g[b] \in ArrayObjects(fs) \/ HasClass(fs, g[b]))
  BY <1>2, <1>5 DEF Heap
<1>9. ASSUME NEW b \in DOMAIN g, OfReferences(g[b]), NEW j \in DOMAIN g[b].elements
      PROVE  Fits(fs, g, g[b].type, g[b].elements[j])
  <2>1. b # o
    BY <1>5, <1>9 DEF OfReferences
  <2>2. Fits(fs, h, g[b].type, g[b].elements[j])
    BY <1>2, <1>9, <2>1 DEF Heap
  <2> QED
    BY <1>6, <1>7, <2>2, GrownFits
<1> QED
  BY <1>2, <1>6, <1>7, <1>8, <1>9 DEF Heap

\* More objects after those there are.
LEMMA ObjectsAdded ==
  ASSUME NEW fs, NEW h, Heap(fs, h), NEW S, NEW n \in Nat, NEW g \in [1 .. n -> S], Len(h) <= n,
         \A o \in DOMAIN h : g[o] = h[o],
         \A o \in DOMAIN g \ DOMAIN h : /\ g[o] \in ArrayObjects(fs)
                                        /\ OfReferences(g[o]) => \A i \in DOMAIN g[o].elements :
                                                                    Fits(fs, g, g[o].type, g[o].elements[i])
  PROVE  Heap(fs, g) /\ Grows(h, g)
<1>1. /\ Len(h) \in Nat /\ DOMAIN h = 1 .. Len(h) /\ DOMAIN g = 1 .. n /\ DOMAIN h \subseteq DOMAIN g
      /\ g \in Seq(ToSet(g)) /\ Len(g) = n
  <2>1. Len(h) \in Nat /\ DOMAIN h = 1 .. Len(h)
    BY HeapsAreSequences
  <2>2. g \in Seq(ToSet(g)) /\ Len(g) = n
    BY SequenceOfItsValues, Zenon
  <2> QED
    BY <2>1, <2>2
<1>2. Grows(h, g)
  BY <1>1 DEF Grows
<1>3. \A o \in DOMAIN g : "kind" \in DOMAIN g[o] /\ (g[o] \in ArrayObjects(fs) \/ HasClass(fs, g[o]))
  BY <1>1 DEF Heap, ArrayObjects
<1>4. ASSUME NEW o \in DOMAIN g, OfReferences(g[o]), NEW i \in DOMAIN g[o].elements
      PROVE  Fits(fs, g, g[o].type, g[o].elements[i])
  <2>1. CASE o \in DOMAIN h
    <3>1. Fits(fs, h, g[o].type, g[o].elements[i])
      BY <1>4, <2>1 DEF Heap
    <3> QED
      BY <1>1, <1>2, <3>1, GrownFits
  <2>2. CASE o \notin DOMAIN h
    BY <1>4, <2>2
  <2> QED
    BY <2>1, <2>2
<1> QED
  BY <1>1, <1>2, <1>3, <1>4 DEF Heap

LEMMA ArrayMade ==
  ASSUME NEW fs, NEW type \in ArrayTypes(fs), NEW n \in Nat
  PROVE  /\ ArrayOf(type, n) \in ArrayObjects(fs)
         /\ OfReferences(ArrayOf(type, n)) =>
              \A i \in DOMAIN ArrayOf(type, n).elements : ArrayOf(type, n).elements[i] = Slot("ref", 0)
<1> DEFINE zero == Slot(SlotType(Component(type)), 0)
           elements == [i \in 1 .. n |-> zero]
<1>1. SlotType(Component(type)) \in {"ref", "int"} \cup Primitives
  BY DEF SlotType, IsReference
<1>2. zero \in Slots
  BY <1>1 DEF Slots, Slot
<1>3. elements \in Seq(Slots)
  <2> HIDE DEF zero
  <2> QED
    BY <1>2
<1>4. ArrayOf(type, n) = [kind |-> "array", type |-> type, elements |-> elements]
  BY DEF ArrayOf
<1>5. OfReferences(ArrayOf(type, n)) => zero = Slot("ref", 0)
  BY <1>4 DEF OfReferences, SlotType
<1> HIDE DEF zero
<1> QED
  BY <1>3, <1>4, <1>5 DEF ArrayObjects

LEMMA ArrayAdded ==
  ASSUME NEW fs, NEW h, Heap(fs, h), NEW type \in ArrayTypes(fs), NEW n \in Nat,
         NEW g, g = WithObject(h, ArrayOf(type, n))
  PROVE  Heap(fs, g) /\ Grows(h, g)
<1> DEFINE a == ArrayOf(type, n)
<1>1. Len(h) \in Nat /\ DOMAIN h = 1 .. Len(h)
  BY HeapsAreSequences
<1> HIDE DEF a
<1>2. /\ Len(g) = Len(h) + 1 /\ DOMAIN g = 1 .. Len(h) + 1 /\ g[Len(h) + 1] = a
      /\ \A o \in DOMAIN h : g[o] = h[o]
      /\ g \in [1 .. Len(h) + 1 -> ToSet(h) \cup {a}]
  <2>1. PICK T : T = ToSet(h) /\ h \in Seq(T)
    BY DEF Heap
  <2>2. PICK S : S = T \cup {a}
    OBVIOUS
  <2>3. h \in Seq(S) /\ a \in S
    BY <1>1, <2>1, <2>2
  <2>4. g = Append(h, a)
    BY DEF a, WithObject
  <2>5. g \in Seq(S) /\ Len(g) = Len(h) + 1 /\ g[Len(h) + 1] = a /\ \A o \in 1 .. Len(h) : g[o] = h[o]
    BY <2>3, <2>4
  <2>6. DOMAIN g = 1 .. Len(g) /\ g \in [1 .. Len(g) -> S]
    BY <2>5
  <2> QED
    BY <1>1, <2>1, <2>2, <2>5, <2>6
<1>3. Fits(fs, g, a.type, Slot("ref", 0))
  BY <1>1, <1>2 DEF Fits, Slot, NoReference
<1>4. \A o \in DOMAIN g \ DOMAIN h : o = Len(h) + 1
  BY <1>1, <1>2
<1>5. ASSUME NEW o \in DOMAIN g \ DOMAIN h
      PROVE  /\ g[o] \in ArrayObjects(fs)
             /\ OfReferences(g[o]) => \A i \in DOMAIN g[o].elements : Fits(fs, g, g[o].type, g[o].elements[i])
  <2>1. g[o] = a
    BY <1>2, <1>4
  <2> QED
    BY <1>3, <2>1, ArrayMade DEF a
<1>6. PICK m, S : m \in Nat /\ m = Len(h) + 1 /\ S = ToSet(h) \cup {a}
  <2>1. Len(h) + 1 \in Nat
    BY <1>1
  <2> QED
    BY <2>1, Zenon
<1>7. g \in [1 .. m -> S] /\ Len(h) <= m /\ \A o \in DOMAIN h : g[o] = h[o]
  BY <1>1, <1>2, <1>6
<1>8. m \in Nat
  BY <1>6
<1> QED
  BY <1>5, <1>7, <1>8, ObjectsAdded

-----------------------------------------------------------------------------
(* Arrays of arrays. *)

\* There is a sequence of a first value, and for each the next one.
Continues(m, V, first, next) ==
    \E f \in [1 .. m -> V] : f = [d \in 1 .. m |-> IF d = 1 THEN first ELSE next[<<d - 1, f[d - 1]>>]]

LEMMA RecursionUpTo ==
  ASSUME NEW m \in Nat, NEW V, NEW first \in V, NEW next \in [(1 .. m) \X V -> V]
  PROVE  Continues(m, V, first, next)
<1> DEFINE X == 1 .. m
           below == [d \in X |-> IF d = 1 THEN {} ELSE {d - 1}]
           step == [q \in X \X [X -> V] |-> IF q[1] = 1 THEN first ELSE next[<<q[1] - 1, q[2][q[1] - 1]>>]]
<1>1. \A d \in X : d # 1 => d - 1 \in X
  OBVIOUS
<1>2. Founded(X, below)
  <2>1. below \in [X -> SUBSET X]
    BY <1>1
  <2>2. ASSUME NEW S \in SUBSET X, S # {}
        PROVE  \E d \in S : below[d] \cap S = {}
    <3>1. S \in SUBSET Nat
      BY <2>2
    <3>2. PICK d \in S : \A e \in S : d <= e
      BY <2>2, <3>1, LeastNumber
    <3>3. d \in X /\ d - 1 \notin S
      BY <3>2
    <3> QED
      BY <3>2, <3>3
  <2> QED
    BY <2>1, <2>2 DEF Founded
<1>3. ASSUME NEW d \in X, NEW f \in [X -> V]
      PROVE  /\ step[<<d, f>>] = IF d = 1 THEN first ELSE next[<<d - 1, f[d - 1]>>]
             /\ step[<<d, f>>] \in V
  <2>1. step[<<d, f>>] = IF d = 1 THEN first ELSE next[<<d - 1, f[d - 1]>>]
    OBVIOUS
  <2>2. d # 1 => f[d - 1] \in V /\ d - 1 \in X
    BY <1>1
  <2>3. d # 1 => next[<<d - 1, f[d - 1]>>] \in V
    BY <2>2
  <2> QED
    BY <2>1, <2>3
<1>4. step \in [X \X [X -> V] -> V]
  BY <1>3
<1> HIDE DEF step
<1>5. ASSUME NEW d \in X, NEW f \in [X -> V], NEW g \in [X -> V], \A e \in below[d] : f[e] = g[e]
      PROVE  step[<<d, f>>] = step[<<d, g>>]
  <2>1. CASE d = 1
    BY <1>3, <2>1
  <2>2. CASE d # 1
    <3>1. f[d - 1] = g[d - 1]
      BY <1>5, <2>2
    <3>2. step[<<d, f>>] = next[<<d - 1, f[d - 1]>>]
      BY <1>3, <2>2
    <3>3. step[<<d, g>>] = next[<<d - 1, g[d - 1]>>]
      BY <1>3, <2>2
    <3> QED
      BY <3>1, <3>2, <3>3
  <2> QED
    BY <2>1, <2>2
<1>6. Local(X, V, below, step)
  <2> HIDE DEF X, below
  <2> QED
    BY <1>4, <1>5 DEF Local
<1>7. V # {}
  OBVIOUS
<1>8. PICK f \in [X -> V] : \A x \in X : f[x] = step[<<x, f>>]
  <2> HIDE DEF X, below
  <2>1. Recursive(X, V, step)
    BY <1>2, <1>6, <1>7, FoundedRecursion
  <2> QED
    BY <2>1 DEF Recursive
<1>9. \A d \in X : f[d] = IF d = 1 THEN first ELSE next[<<d - 1, f[d - 1]>>]
  BY <1>3, <1>8
<1> QED
  BY <1>9 DEF Continues

LEMMA InductionUpTo ==
  ASSUME NEW m \in Nat, NEW S \in SUBSET (1 .. m), m # 0 => 1 \in S, \A d \in S : d # m => d + 1 \in S
  PROVE  S = 1 .. m
<1> SUFFICES ASSUME S # 1 .. m
             PROVE  FALSE
  OBVIOUS
<1> PICK R : R = (1 .. m) \ S
  OBVIOUS
<1>1. PICK d \in R : \A e \in R : d <= e
  <2>1. \E d \in 1 .. m : d \notin S
    OBVIOUS
  <2>2. R \in SUBSET Nat /\ R # {}
    BY <2>1
  <2> QED
    BY <2>2, LeastNumber
<1>2. d # 1 /\ d - 1 \in S
  BY <1>1
<1> QED
  BY <1>1, <1>2

LEMMA Products ==
  ASSUME NEW a \in Nat, NEW b \in Nat
  PROVE  a * b \in Nat
OBVIOUS

LEMMA Rows ==
  ASSUME NEW rows \in Nat, NEW row \in 1 .. rows, NEW columns \in Nat, NEW column \in 1 .. columns
  PROVE  /\ (row - 1) * columns + column \in Nat
         /\ (row - 1) * columns + column \in 1 .. rows * columns
<1>1. (row - 1) * columns \in Nat
  OBVIOUS
<1>2. (rows - row) * columns \in Nat
  OBVIOUS
<1>3. rows * columns = (row - 1) * columns + columns + (rows - row) * columns
  OBVIOUS
<1> QED
  BY <1>1, <1>2, <1>3

\* What multianewarray numbers: so many arrays of every dimension, each after those of the
\* dimensions before it.
Numbered(h, counts, number, before) ==
    LET m == Len(counts) + 1
    IN  /\ number \in [1 .. m -> Nat] /\ before \in [1 .. m -> Nat]
        /\ number[1] = 1 /\ before[1] = Len(h)
        /\ \A d \in 1 .. m - 1 : number[d + 1] = number[d] * counts[d] /\ before[d + 1] = before[d] + number[d]

\* The nth array of the dth dimension, and the heap with all of them.
Made(type, counts, before, d, n) ==
    LET typeOfIt == <<type[1] - d + 1, type[2]>>
    IN  IF d = Len(counts) THEN ArrayOf(typeOfIt, counts[d])
        ELSE [kind |-> "array", type |-> typeOfIt,
              elements |-> [i \in 1 .. counts[d] |-> Slot("ref", before[d + 1] + (n - 1) * counts[d] + i)]]
WithArrays(h, type, counts, before) ==
    [o \in 1 .. before[Len(counts) + 1] |->
        IF o <= Len(h) THEN h[o]
        ELSE LET d == CHOOSE e \in DOMAIN counts : before[e] < o /\ o <= before[e + 1]
             IN  Made(type, counts, before, d, o - before[d])]

LEMMA ArraysAreNumbered ==
  ASSUME NEW h, Len(h) \in Nat, NEW counts \in Seq(Nat), NEW type
  PROVE  \E number, before : /\ Numbered(h, counts, number, before)
                             /\ AllocMulti(h, type, counts) = WithArrays(h, type, counts, before)
<1> DEFINE number[d \in 1 .. Len(counts) + 1] == IF d = 1 THEN 1 ELSE number[d - 1] * counts[d - 1]
           before[d \in 1 .. Len(counts) + 1] == IF d = 1 THEN Len(h) ELSE before[d - 1] + number[d - 1]
<1>1. PICK m \in Nat : m = Len(counts) + 1
  OBVIOUS
<1>2. DOMAIN counts = 1 .. m - 1 /\ \A d \in 1 .. m - 1 : counts[d] \in Nat
  BY <1>1
<1>3. number \in [1 .. m -> Nat] /\ \A d \in 1 .. m : number[d] = IF d = 1 THEN 1 ELSE number[d - 1] * counts[d - 1]
  <2>1. PICK next : next = [q \in (1 .. m) \X Nat |-> IF q[1] = m THEN 0 ELSE q[2] * counts[q[1]]]
    OBVIOUS
  <2>2. \A d \in 1 .. m, x \in Nat : next[<<d, x>>] = (IF d = m THEN 0 ELSE x * counts[d]) /\ next[<<d, x>>] \in Nat
    BY <1>2, <2>1
  <2>3. next \in [(1 .. m) \X Nat -> Nat]
    BY <2>1, <2>2
  <2>4. PICK f \in [1 .. m -> Nat] : f = [d \in 1 .. m |-> IF d = 1 THEN 1 ELSE next[<<d - 1, f[d - 1]>>]]
    <3>1. 1 \in Nat
      OBVIOUS
    <3>2. Continues(m, Nat, 1, next)
      BY <2>3, <3>1, RecursionUpTo
    <3> QED
      BY <3>2 DEF Continues
  <2>5. ASSUME NEW d \in 1 .. m, d # 1
        PROVE  next[<<d - 1, f[d - 1]>>] = f[d - 1] * counts[d - 1]
    <3>1. d - 1 \in 1 .. m /\ d - 1 # m /\ f[d - 1] \in Nat
      BY <2>5
    <3> QED
      BY <2>2, <3>1
  <2>6. f = [d \in 1 .. m |-> IF d = 1 THEN 1 ELSE f[d - 1] * counts[d - 1]]
    BY <2>4, <2>5
  <2>7. number = [d \in 1 .. m |-> IF d = 1 THEN 1 ELSE number[d - 1] * counts[d - 1]]
    BY <1>1, <2>6
  <2> HIDE DEF number
  <2>8. ASSUME NEW d \in 1 .. m, d # m, number[d] \in Nat
        PROVE  number[d + 1] \in Nat
    <3>1. d + 1 \in 1 .. m /\ d + 1 # 1 /\ (d + 1) - 1 = d /\ counts[d] \in Nat
      BY <1>2, <2>8
    <3>2. number[d + 1] = number[d] * counts[d]
      BY <2>7, <3>1
    <3> QED
      BY <2>8, <3>1, <3>2
  <2>9. PICK S : S = {d \in 1 .. m : number[d] \in Nat}
    OBVIOUS
  <2>10. S = 1 .. m
    <3>1. S \in SUBSET (1 .. m) /\ 1 \in S /\ \A d \in S : d # m => d + 1 \in S
      BY <1>1, <2>7, <2>8, <2>9
    <3> QED
      BY <3>1, InductionUpTo
  <2> QED
    BY <2>7, <2>9, <2>10
<1> HIDE DEF number
<1>4. before \in [1 .. m -> Nat] /\ \A d \in 1 .. m : before[d] = IF d = 1 THEN Len(h) ELSE before[d - 1] + number[d - 1]
  <2>1. PICK next : next = [q \in (1 .. m) \X Nat |-> q[2] + number[q[1]]]
    OBVIOUS
  <2>2. \A d \in 1 .. m, x \in Nat : next[<<d, x>>] = x + number[d] /\ next[<<d, x>>] \in Nat
    BY <1>3, <2>1
  <2>3. next \in [(1 .. m) \X Nat -> Nat]
    BY <2>1, <2>2
  <2>4. PICK f \in [1 .. m -> Nat] : f = [d \in 1 .. m |-> IF d = 1 THEN Len(h) ELSE next[<<d - 1, f[d - 1]>>]]
    <3>1. Continues(m, Nat, Len(h), next)
      BY <2>3, RecursionUpTo
    <3> QED
      BY <3>1 DEF Continues
  <2>5. ASSUME NEW d \in 1 .. m, d # 1
        PROVE  next[<<d - 1, f[d - 1]>>] = f[d - 1] + number[d - 1]
    <3>1. d - 1 \in 1 .. m /\ f[d - 1] \in Nat
      BY <2>5
    <3> QED
      BY <2>2, <3>1
  <2>6. f = [d \in 1 .. m |-> IF d = 1 THEN Len(h) ELSE f[d - 1] + number[d - 1]]
    BY <2>4, <2>5
  <2>7. before = [d \in 1 .. m |-> IF d = 1 THEN Len(h) ELSE before[d - 1] + number[d - 1]]
    BY <1>1, <2>6
  <2> HIDE DEF before
  <2>8. ASSUME NEW d \in 1 .. m, d # m, before[d] \in Nat
        PROVE  before[d + 1] \in Nat
    <3>1. d + 1 \in 1 .. m /\ d + 1 # 1 /\ (d + 1) - 1 = d /\ number[d] \in Nat
      BY <1>3, <2>8
    <3>2. before[d + 1] = before[d] + number[d]
      BY <2>7, <3>1
    <3> QED
      BY <2>8, <3>1, <3>2
  <2>9. PICK S : S = {d \in 1 .. m : before[d] \in Nat}
    OBVIOUS
  <2>10. S = 1 .. m
    <3>1. S \in SUBSET (1 .. m) /\ 1 \in S /\ \A d \in S : d # m => d + 1 \in S
      BY <1>1, <2>7, <2>8, <2>9
    <3> QED
      BY <3>1, InductionUpTo
  <2> QED
    BY <2>7, <2>9, <2>10
<1>5. AllocMulti(h, type, counts) = WithArrays(h, type, counts, before)
  BY Zenon DEF AllocMulti, WithArrays, Made, number, before
<1> HIDE DEF before
<1>6. Numbered(h, counts, number, before)
  <2>1. ASSUME NEW d \in 1 .. m - 1
        PROVE  number[d + 1] = number[d] * counts[d] /\ before[d + 1] = before[d] + number[d]
    <3>1. d + 1 \in 1 .. m /\ d + 1 # 1 /\ (d + 1) - 1 = d
      BY <2>1
    <3> QED
      BY <1>3, <1>4, <3>1
  <2>2. number[1] = 1 /\ before[1] = Len(h)
    BY <1>1, <1>3, <1>4
  <2> QED
    BY <1>1, <1>3, <1>4, <2>1, <2>2 DEF Numbered
<1> QED
  BY <1>5, <1>6

Rising(m, before) ==
    before \in [1 .. m -> Nat] /\ \A d \in 1 .. m : d # m => before[d] <= before[d + 1]

LEMMA NumbersRise ==
  ASSUME NEW m \in Nat, NEW before, Rising(m, before), NEW d \in 1 .. m, NEW e \in 1 .. m, d <= e
  PROVE  before[d] <= before[e]
<1>1. PICK S : S = {c \in 1 .. m : d <= c => before[d] <= before[c]}
  OBVIOUS
<1>2. ASSUME NEW c \in S, c # m
      PROVE  c + 1 \in S
  <2>1. c \in 1 .. m /\ c + 1 \in 1 .. m
    BY <1>1, <1>2
  <2>2. before[c] \in Nat /\ before[c + 1] \in Nat /\ before[d] \in Nat /\ before[c] <= before[c + 1]
    BY <1>2, <2>1 DEF Rising
  <2>3. CASE d <= c
    BY <1>1, <2>1, <2>2, <2>3
  <2>4. CASE ~(d <= c)
    <3>1. d <= c + 1 => d = c + 1
      BY <2>1, <2>4
    <3> QED
      BY <1>1, <2>1, <2>2, <3>1
  <2> QED
    BY <2>3, <2>4
<1>3. S \in SUBSET (1 .. m) /\ 1 \in S
  <2>1. d <= 1 => d = 1
    OBVIOUS
  <2>2. before[d] <= before[d]
    BY DEF Rising
  <2> QED
    BY <1>1, <2>1, <2>2
<1>4. S = 1 .. m
  BY <1>2, <1>3, InductionUpTo
<1> QED
  BY <1>1, <1>4

\* The dimension of an object that multianewarray adds.
OfDimension(before, o, d) == before[d] < o /\ o <= before[d + 1]

LEMMA Dimension ==
  ASSUME NEW m \in Nat \ {0}, NEW before, Rising(m, before), NEW o \in Nat, before[1] < o, o <= before[m]
  PROVE  \E d \in 1 .. m - 1 : OfDimension(before, o, d)
<1>1. PICK S : S = {e \in 1 .. m : o <= before[e]}
  OBVIOUS
<1>2. S \in SUBSET Nat /\ m \in S
  BY <1>1
<1>3. PICK f \in S : \A e \in S : f <= e
  BY <1>2, LeastNumber
<1>4. f \in 1 .. m /\ before[1] \in Nat
  BY <1>1, <1>3 DEF Rising
<1>5. f # 1
  BY <1>1, <1>3, <1>4
<1>6. f - 1 \in 1 .. m /\ f - 1 \in 1 .. m - 1 /\ f - 1 \notin S /\ (f - 1) + 1 = f
  BY <1>3, <1>4, <1>5
<1>7. before[f - 1] \in Nat /\ ~(o <= before[f - 1])
  BY <1>1, <1>6 DEF Rising
<1>8. before[f - 1] < o /\ o <= before[(f - 1) + 1]
  BY <1>1, <1>3, <1>6, <1>7
<1> QED
  BY <1>6, <1>8 DEF OfDimension

LEMMA OneDimension ==
  ASSUME NEW m \in Nat \ {0}, NEW before, Rising(m, before), NEW o \in Nat,
         NEW d \in 1 .. m - 1, NEW e \in 1 .. m - 1, OfDimension(before, o, d), OfDimension(before, o, e)
  PROVE  d = e
<1>1. ASSUME NEW b \in 1 .. m - 1, NEW c \in 1 .. m - 1, OfDimension(before, o, b), OfDimension(before, o, c), b < c
      PROVE  FALSE
  <2>1. b + 1 \in 1 .. m /\ c \in 1 .. m /\ b + 1 <= c
    BY <1>1
  <2>2. before[b + 1] <= before[c]
    BY <2>1, NumbersRise
  <2>3. before[b + 1] \in Nat /\ before[c] \in Nat
    BY <2>1 DEF Rising
  <2>4. o <= before[b + 1] /\ before[c] < o
    BY <1>1 DEF OfDimension
  <2> QED
    BY <2>2, <2>3, <2>4
<1> QED
  BY <1>1

Numbering(m, first, counts, number, before) ==
    /\ m \in Nat \ {0} /\ Rising(m, before) /\ before[1] = first /\ number \in [1 .. m -> Nat]
    /\ \A d \in 1 .. m - 1 : /\ counts[d] \in Nat /\ number[d + 1] = number[d] * counts[d]
                           /\ before[d + 1] = before[d] + number[d]

LEMMA NumberedRises ==
  ASSUME NEW h, NEW counts \in Seq(Nat), NEW number, NEW before, Numbered(h, counts, number, before)
  PROVE  Numbering(Len(counts) + 1, Len(h), counts, number, before)
<1>1. PICK m \in Nat \ {0} : m = Len(counts) + 1 /\ DOMAIN counts = 1 .. m - 1
  OBVIOUS
<1>2. /\ number \in [1 .. m -> Nat] /\ before \in [1 .. m -> Nat] /\ before[1] = Len(h)
      /\ \A d \in 1 .. m - 1 : number[d + 1] = number[d] * counts[d] /\ before[d + 1] = before[d] + number[d]
  BY <1>1, Zenon DEF Numbered
<1>3. ASSUME NEW d \in 1 .. m, d # m
      PROVE  before[d] <= before[d + 1]
  <2>1. d \in 1 .. m - 1
    BY <1>3
  <2>2. number[d] \in Nat /\ before[d] \in Nat
    BY <1>2
  <2> QED
    BY <1>2, <2>1, <2>2
<1>4. \A d \in 1 .. m - 1 : counts[d] \in Nat
  BY <1>1
<1>5. Numbering(m, Len(h), counts, number, before)
  BY <1>2, <1>3, <1>4 DEF Rising, Numbering
<1> QED
  BY <1>1, <1>5

LEMMA RowOfDimension ==
  ASSUME NEW m, NEW first \in Nat, NEW counts, NEW number, NEW before, Numbering(m, first, counts, number, before),
         NEW d \in 1 .. m - 1, NEW o \in Nat, OfDimension(before, o, d)
  PROVE  o \in 1 .. before[m] /\ first < o /\ o - before[d] \in 1 .. number[d]
<1>1. /\ m \in Nat \ {0} /\ Rising(m, before) /\ before[1] = first /\ number \in [1 .. m -> Nat]
      /\ before[d + 1] = before[d] + number[d]
  BY DEF Numbering
<1>2. d \in 1 .. m /\ d + 1 \in 1 .. m /\ 1 \in 1 .. m /\ m \in 1 .. m
  BY <1>1
<1>3. before[1] <= before[d]
  BY <1>1, <1>2, NumbersRise
<1>4. before[d + 1] <= before[m]
  BY <1>1, <1>2, NumbersRise
<1>5. before[d] \in Nat /\ before[d + 1] \in Nat /\ before[m] \in Nat /\ number[d] \in Nat
  BY <1>1, <1>2 DEF Rising
<1>6. before[d] < o /\ o <= before[d + 1]
  BY DEF OfDimension
<1> QED
  BY <1>1, <1>3, <1>4, <1>5, <1>6, SMTT(30)

\* What an array of arrays holds are arrays of the next dimension.
LEMMA NextDimension ==
  ASSUME NEW m, NEW first \in Nat, NEW counts, NEW number, NEW before, Numbering(m, first, counts, number, before),
         NEW d \in 1 .. m - 1, d # m - 1, NEW n \in 1 .. number[d], NEW i \in 1 .. counts[d]
  PROVE  /\ d + 1 \in 1 .. m - 1 /\ before[d + 1] + (n - 1) * counts[d] + i \in Nat
         /\ OfDimension(before, before[d + 1] + (n - 1) * counts[d] + i, d + 1)
<1>1. /\ m \in Nat \ {0} /\ Rising(m, before) /\ number \in [1 .. m -> Nat] /\ counts[d] \in Nat
      /\ number[d + 1] = number[d] * counts[d]
      /\ \A e \in 1 .. m - 1 : before[e + 1] = before[e] + number[e]
  BY DEF Numbering
<1>2. d \in 1 .. m /\ d + 1 \in 1 .. m - 1 /\ d + 1 \in 1 .. m /\ (d + 1) + 1 \in 1 .. m
  BY <1>1
<1>3. number[d] \in Nat /\ number[d + 1] \in Nat /\ before[d + 1] \in Nat
  BY <1>1, <1>2 DEF Rising
<1>4. before[(d + 1) + 1] = before[d + 1] + number[d + 1]
  BY <1>1, <1>2
<1>5. (n - 1) * counts[d] + i \in 1 .. number[d] * counts[d] /\ (n - 1) * counts[d] + i \in Nat
  BY <1>1, <1>3, Rows
<1>6. PICK c \in Nat, b \in Nat, l \in Nat : c = (n - 1) * counts[d] /\ b = before[d + 1] /\ l = number[d + 1]
  <2>1. n - 1 \in Nat
    BY <1>3
  <2>2. counts[d] \in Nat
    BY <1>1
  <2>3. (n - 1) * counts[d] \in Nat
    BY <2>1, <2>2, Products, Zenon
  <2> QED
    BY <1>3, <2>3, Zenon
<1>7. i \in Nat /\ c + i \in 1 .. l
  BY <1>1, <1>5, <1>6
<1>8. b + c + i \in Nat /\ b < b + c + i /\ b + c + i <= b + l
  BY <1>7
<1> QED
  BY <1>2, <1>4, <1>6, <1>8 DEF OfDimension

LEMMA MadeIsAnArray ==
  ASSUME NEW fs, NEW type \in ArrayTypes(fs), NEW d \in Nat \ {0}, d <= type[1], NEW counts, NEW before, NEW n
  PROVE  /\ <<type[1] - d + 1, type[2]>> \in ArrayTypes(fs)
         /\ Made(type, counts, before, d, n).type = <<type[1] - d + 1, type[2]>>
         /\ Made(type, counts, before, d, n).kind = "array"
<1>1. type[1] \in Nat \ {0} /\ type[2] \in DOMAIN fs \cup Primitives
  BY DEF ArrayTypes
<1>2. type[1] - d + 1 \in Nat \ {0}
  BY <1>1
<1> QED
  BY <1>1, <1>2 DEF ArrayTypes, Made, ArrayOf

LEMMA ArraysAdded ==
  ASSUME NEW fs, NEW h, Heap(fs, h), NEW type \in ArrayTypes(fs), NEW counts \in Seq(Nat),
         Len(counts) \in 1 .. type[1], NEW g, g = AllocMulti(h, type, counts)
  PROVE  Heap(fs, g) /\ Grows(h, g)
<1>1. Len(h) \in Nat /\ DOMAIN h = 1 .. Len(h)
  BY HeapsAreSequences
<1>2. PICK number, before : Numbered(h, counts, number, before) /\ g = WithArrays(h, type, counts, before)
  BY <1>1, ArraysAreNumbered, Zenon
<1>3. PICK m \in Nat \ {0} : m = Len(counts) + 1 /\ DOMAIN counts = 1 .. m - 1
  OBVIOUS
<1>4. Numbering(m, Len(h), counts, number, before)
  BY <1>2, <1>3, NumberedRises
<1>5. Rising(m, before) /\ before[1] = Len(h) /\ number \in [1 .. m -> Nat] /\ \A d \in 1 .. m - 1 : counts[d] \in Nat
  BY <1>4, Zenon DEF Numbering
<1>6. PICK size \in Nat : size = before[m]
  BY <1>5 DEF Rising
<1>7. Len(h) <= size
  <2>1. 1 \in 1 .. m /\ m \in 1 .. m /\ 1 <= m
    OBVIOUS
  <2> QED
    BY <1>5, <1>6, <2>1, NumbersRise
<1>8. PICK S : S = {g[o] : o \in 1 .. size} /\ g \in [1 .. size -> S]
  <2>1. before[Len(counts) + 1] = size
    BY <1>3, <1>6, Zenon
  <2>2. g = [o \in 1 .. size |-> g[o]]
    BY <1>2, <2>1, Zenon DEF WithArrays
  <2> PICK S : S = {g[o] : o \in 1 .. size}
    OBVIOUS
  <2>3. \A o \in 1 .. size : g[o] \in S
    OBVIOUS
  <2>4. g \in [1 .. size -> S]
    BY <2>2, <2>3, Zenon
  <2> QED
    BY <2>4
<1>9. Len(g) = size
  BY <1>8
<1>10. \A o \in 1 .. Len(h) : g[o] = h[o]
  BY <1>1, <1>2, <1>3, <1>6, <1>7 DEF WithArrays
<1>11. ASSUME NEW d \in 1 .. m - 1
       PROVE  d \in Nat \ {0} /\ d <= type[1]
  BY <1>3 DEF ArrayTypes
<1>12. ASSUME NEW d \in 1 .. m - 1, NEW o \in Nat, OfDimension(before, o, d)
       PROVE  g[o] = Made(type, counts, before, d, o - before[d]) /\ o \in 1 .. size /\ o - before[d] \in 1 .. number[d]
  <2>1. Len(h) \in Nat /\ m = Len(counts) + 1 /\ g = WithArrays(h, type, counts, before)
    BY <1>1, <1>2, <1>3
  <2>2. g[o] = Made(type, counts, before, d, o - before[d])
    <3>1. PICK c : c = CHOOSE e \in DOMAIN counts : before[e] < o /\ o <= before[e + 1]
      OBVIOUS
    <3>2. before[d] < o /\ o <= before[d + 1] /\ d \in DOMAIN counts
      BY <1>3, <1>12, Zenon DEF OfDimension
    <3>3. c \in DOMAIN counts /\ before[c] < o /\ o <= before[c + 1]
      BY <3>1, <3>2, Zenon
    <3>4. c \in 1 .. m - 1 /\ OfDimension(before, o, c)
      BY <1>3, <3>3, Zenon DEF OfDimension
    <3>5. c = d
      BY <1>5, <1>12, <3>4, OneDimension, Zenon
    <3>6. o \in 1 .. before[m] /\ Len(h) < o
      BY <1>4, <1>12, <2>1, RowOfDimension, Zenon
    <3>7. ~(o <= Len(h)) /\ o \in 1 .. before[Len(counts) + 1]
      BY <1>1, <2>1, <3>6
    <3> QED
      BY <2>1, <3>1, <3>5, <3>7, Zenon DEF WithArrays
  <2>3. o \in 1 .. before[m] /\ o - before[d] \in 1 .. number[d]
    BY <1>4, <1>12, <2>1, RowOfDimension, Zenon
  <2> QED
    BY <1>6, <2>2, <2>3
<1>13. ASSUME NEW d \in 1 .. m - 1, d = m - 1, NEW o \in Nat, OfDimension(before, o, d)
       PROVE  /\ g[o] \in ArrayObjects(fs)
              /\ \A i \in DOMAIN g[o].elements : OfReferences(g[o]) => Fits(fs, g, g[o].type, g[o].elements[i])
  <2>1. PICK k, typeOfIt : k = counts[d] /\ typeOfIt = <<type[1] - d + 1, type[2]>>
    OBVIOUS
  <2>2. typeOfIt \in ArrayTypes(fs) /\ k \in Nat
    BY <1>5, <1>11, <2>1, MadeIsAnArray
  <2>3. d = Len(counts)
    BY <1>3, <1>13
  <2>4. g[o] = ArrayOf(typeOfIt, k)
    BY <1>12, <1>13, <2>1, <2>3 DEF Made
  <2>5. Fits(fs, g, typeOfIt, Slot("ref", 0))
    BY <1>9 DEF Fits, Slot, NoReference
  <2>6. g[o].type = typeOfIt
    BY <2>4 DEF ArrayOf
  <2> QED
    BY <2>2, <2>4, <2>5, <2>6, ArrayMade
<1>14. ASSUME NEW d \in 1 .. m - 1, d # m - 1, NEW o \in Nat, OfDimension(before, o, d)
       PROVE  /\ g[o] \in ArrayObjects(fs)
              /\ \A i \in DOMAIN g[o].elements : OfReferences(g[o]) => Fits(fs, g, g[o].type, g[o].elements[i])
  <2>1. PICK n, k, typeOfIt : n = o - before[d] /\ k = counts[d] /\ typeOfIt = <<type[1] - d + 1, type[2]>>
    OBVIOUS
  <2>2. typeOfIt \in ArrayTypes(fs) /\ k \in Nat /\ n \in 1 .. number[d]
    <3>1. typeOfIt \in ArrayTypes(fs)
      BY <1>11, <2>1, MadeIsAnArray
    <3>2. k \in Nat
      BY <1>5, <2>1
    <3>3. n \in 1 .. number[d]
      BY <1>12, <1>14, <2>1
    <3> QED
      BY <3>1, <3>2, <3>3
  <2>3. PICK row : row = [i \in 1 .. k |-> Slot("ref", before[d + 1] + (n - 1) * k + i)]
    OBVIOUS
  <2>4. d # Len(counts)
    <3>1. m - 1 = Len(counts)
      BY <1>3
    <3> QED
      BY <1>14, <3>1
  <2>5. g[o] = [kind |-> "array", type |-> typeOfIt, elements |-> row]
    <3>1. g[o] = Made(type, counts, before, d, n)
      BY <1>12, <1>14, <2>1
    <3> QED
      BY <2>1, <2>3, <2>4, <3>1, Zenon DEF Made
  <2>6. ASSUME NEW i \in 1 .. k
        PROVE  row[i] \in Slots /\ Fits(fs, g, typeOfIt, row[i])
    <3>1. PICK v : v = before[d + 1] + (n - 1) * k + i
      OBVIOUS
    <3>2. d + 1 \in 1 .. m - 1 /\ v \in Nat /\ OfDimension(before, v, d + 1)
      BY <1>1, <1>4, <1>14, <2>1, <2>2, <3>1, NextDimension
    <3>3. g[v] = Made(type, counts, before, d + 1, v - before[d + 1]) /\ v \in 1 .. size
      BY <1>12, <3>2
    <3>4. g[v].type = <<type[1] - (d + 1) + 1, type[2]>> /\ g[v].kind = "array"
      BY <3>3 DEF Made, ArrayOf
    <3>5. type[1] - (d + 1) + 1 = (type[1] - d + 1) - 1
      BY <1>11 DEF ArrayTypes
    <3>6. TypeOf(g[v]) = Component(typeOfIt)
      BY <2>1, <3>4, <3>5 DEF TypeOf, Component
    <3>7. row[i] = Slot("ref", v)
      BY <2>3, <3>1
    <3>8. v \in 0 .. Len(g)
      BY <1>9, <3>3
    <3> QED
      BY <3>2, <3>6, <3>7, <3>8 DEF Fits, J!SubtypeIn, Slots, Slot
  <2>7. DOMAIN row = 1 .. k /\ row \in [1 .. k -> Slots]
    BY <2>3, <2>6
  <2>8. row \in Seq(Slots)
    BY <2>2, <2>7
  <2>9. g[o].type = typeOfIt /\ g[o].elements = row
    BY <2>5
  <2> QED
    BY <2>2, <2>5, <2>6, <2>7, <2>8, <2>9 DEF ArrayObjects
<1>15. ASSUME NEW o \in DOMAIN g \ DOMAIN h
       PROVE  \E d \in 1 .. m - 1 : OfDimension(before, o, d) /\ o \in Nat
  <2>1. o \in Nat /\ before[1] < o /\ o <= before[m]
    BY <1>1, <1>5, <1>6, <1>8
  <2> QED
    BY <1>5, <2>1, Dimension
<1>16. \A o \in DOMAIN g \ DOMAIN h :
          /\ g[o] \in ArrayObjects(fs)
          /\ OfReferences(g[o]) => \A i \in DOMAIN g[o].elements : Fits(fs, g, g[o].type, g[o].elements[i])
  BY <1>13, <1>14, <1>15
<1>17. \A o \in DOMAIN h : g[o] = h[o]
  BY <1>1, <1>10
<1>18. g \in [1 .. size -> S]
  BY <1>8
<1> QED
  BY <1>7, <1>16, <1>17, <1>18, ObjectsAdded, Zenon

-----------------------------------------------------------------------------
(* The invariant, for one of the programs. *)

\* A copy under way is within its arrays, which both hold references or both hold values of
\* primitive types.  Unless it checks each reference, the component of the one array is a
\* subtype of the other's; the slot it has read may be written.
CopiesUnderWay == [done : Nat, slot : Slots \cup {NoSlot}, checks : BOOLEAN,
                   src : Nat, srcPos : Nat, dst : Nat, dstPos : Nat, n : Nat]
CopyIsSound(fs, h, c) ==
    /\ c \in CopiesUnderWay /\ c.src \in DOMAIN h /\ c.dst \in DOMAIN h
    /\ h[c.src].kind = "array" /\ h[c.dst].kind = "array"
    /\ c.done < c.n /\ c.srcPos + c.n <= Len(h[c.src].elements) /\ c.dstPos + c.n <= Len(h[c.dst].elements)
    /\ OfReferences(h[c.src]) <=> OfReferences(h[c.dst])
    /\ OfReferences(h[c.dst]) =>
         /\ c.checks \/ J!SubtypeIn(fs, Component(h[c.src].type), Component(h[c.dst].type))
         /\ c.slot # NoSlot => Fits(fs, h, h[c.dst].type, c.slot)

\* A swap under way is one that the thread may ask for.
SwapIsAsked(asked, s) ==
    \E r \in asked : r.op \in {"swap", "exchange"} /\ s.o = r.o /\ s.type = r.kind /\ s.new = r.v

SoundFor(p) ==
    /\ AllLoaded(p.files) /\ requests = p.requests
    /\ Heap(p.files, heap) /\ Grows(p.heap, heap)
    /\ copying = [t \in Threads |-> copying[t]] /\ swapping = [t \in Threads |-> swapping[t]]
    /\ \A t \in Threads : copying[t] = NoCopy \/ CopyIsSound(p.files, heap, copying[t])
    /\ \A t \in Threads : swapping[t] = NoSwap \/ SwapIsAsked(p.requests[t], swapping[t])
HeapIsSound == \E p \in Programs : SoundFor(p)

-----------------------------------------------------------------------------
(* What every step keeps. *)

LEMMA ArraysStay ==
  ASSUME NEW fs, NEW h, NEW g, Heap(fs, h), Heap(fs, g), Grows(h, g), NEW o \in DOMAIN h, h[o].kind = "array"
  PROVE  /\ o \in DOMAIN g /\ g[o].kind = "array" /\ g[o].type = h[o].type
         /\ Len(g[o].elements) = Len(h[o].elements) /\ OfReferences(g[o]) = OfReferences(h[o])
<1>1. /\ Len(h) \in Nat /\ DOMAIN h = 1 .. Len(h) /\ Len(g) \in Nat /\ DOMAIN g = 1 .. Len(g)
  BY HeapsAreSequences
<1>2. o \in DOMAIN g /\ g[o].kind = h[o].kind /\ TypeOf(g[o]) = TypeOf(h[o]) /\ Len(g[o].elements) = Len(h[o].elements)
  BY <1>1 DEF Grows
<1>3. g[o].type = h[o].type
  BY <1>2 DEF TypeOf
<1> QED
  BY <1>2, <1>3 DEF OfReferences

LEMMA GrowsOn ==
  ASSUME NEW fs, NEW h, NEW g, NEW k, Heap(fs, h), Heap(fs, g), Heap(fs, k), Grows(h, g), Grows(g, k)
  PROVE  Grows(h, k)
<1>1. /\ Len(h) \in Nat /\ DOMAIN h = 1 .. Len(h) /\ Len(g) \in Nat /\ DOMAIN g = 1 .. Len(g)
      /\ Len(k) \in Nat
  BY HeapsAreSequences
<1>2. \A o \in DOMAIN h : o \in DOMAIN g
  BY <1>1 DEF Grows
<1> QED
  BY <1>1, <1>2 DEF Grows

LEMMA GrownCopy ==
  ASSUME NEW fs, NEW h, NEW g, Heap(fs, h), Heap(fs, g), Grows(h, g), NEW c, CopyIsSound(fs, h, c)
  PROVE  CopyIsSound(fs, g, c)
<1>1. c.src \in DOMAIN h /\ c.dst \in DOMAIN h /\ h[c.src].kind = "array" /\ h[c.dst].kind = "array"
  BY DEF CopyIsSound
<1>2. /\ c.src \in DOMAIN g /\ g[c.src].kind = "array" /\ g[c.src].type = h[c.src].type
      /\ Len(g[c.src].elements) = Len(h[c.src].elements) /\ OfReferences(g[c.src]) = OfReferences(h[c.src])
  BY <1>1, ArraysStay
<1>3. /\ c.dst \in DOMAIN g /\ g[c.dst].kind = "array" /\ g[c.dst].type = h[c.dst].type
      /\ Len(g[c.dst].elements) = Len(h[c.dst].elements) /\ OfReferences(g[c.dst]) = OfReferences(h[c.dst])
  BY <1>1, ArraysStay
<1>4. Len(g) \in Nat
  BY HeapsAreSequences
<1>5. Fits(fs, h, h[c.dst].type, c.slot) => Fits(fs, g, h[c.dst].type, c.slot)
  BY <1>4, GrownFits
<1> QED
  BY <1>2, <1>3, <1>5 DEF CopyIsSound

LEMMA GrowsAsItIs ==
  ASSUME NEW h
  PROVE  Len(h) \in Nat => Grows(h, h)
BY DEF Grows

\* No class is defined, whatever becomes of the static fields.
ClassesStay == files' = files /\ DOMAIN classes' = DOMAIN classes /\ DOMAIN runtimeClasses' = DOMAIN runtimeClasses

LEMMA SoundSteps ==
  ASSUME NEW p \in Programs, SoundFor(p), ClassesStay, requests' = requests,
         Heap(p.files, heap'), Grows(heap, heap'),
         copying' = [t \in Threads |-> copying'[t]], swapping' = [t \in Threads |-> swapping'[t]],
         \A t \in Threads : \/ copying'[t] = copying[t] \/ copying'[t] = NoCopy
                            \/ CopyIsSound(p.files, heap', copying'[t]),
         \A t \in Threads : \/ swapping'[t] = swapping[t] \/ swapping'[t] = NoSwap
                            \/ SwapIsAsked(p.requests[t], swapping'[t])
  PROVE  SoundFor(p)'
<1> PICK h, g, fs : h = heap /\ g = heap' /\ fs = p.files
  OBVIOUS
<1>1. Heap(fs, p.heap) /\ Heap(fs, h) /\ Heap(fs, g) /\ Grows(p.heap, h) /\ Grows(h, g)
  BY ProgramsAssumption DEF SoundFor
<1>2. Grows(p.heap, g)
  BY <1>1, GrowsOn
<1>3. AllLoaded(fs)'
  BY DEF SoundFor, AllLoaded, ClassesStay
<1>4. ASSUME NEW t \in Threads
      PROVE  copying'[t] = NoCopy \/ CopyIsSound(fs, g, copying'[t])
  <2>1. CASE copying'[t] = copying[t]
    <3>1. PICK c : c = copying[t]
      OBVIOUS
    <3>2. c = NoCopy \/ CopyIsSound(fs, h, c)
      BY <3>1 DEF SoundFor
    <3>3. c = NoCopy \/ CopyIsSound(fs, g, c)
      BY <1>1, <3>2, GrownCopy
    <3> QED
      BY <2>1, <3>1, <3>3
  <2> QED
    BY <2>1
<1>5. ASSUME NEW t \in Threads
      PROVE  swapping'[t] = NoSwap \/ SwapIsAsked(p.requests[t], swapping'[t])
  BY DEF SoundFor
<1> QED
  BY <1>1, <1>2, <1>3, <1>4, <1>5 DEF SoundFor

\* So a step that leaves copies and swaps alone only has to keep the heap.
LEMMA HeapSteps ==
  ASSUME NEW p \in Programs, SoundFor(p), ClassesStay, requests' = requests, copying' = copying,
         swapping' = swapping, Heap(p.files, heap'), Grows(heap, heap')
  PROVE  SoundFor(p)'
<1>1. /\ copying' = [t \in Threads |-> copying'[t]] /\ swapping' = [t \in Threads |-> swapping'[t]]
      /\ \A t \in Threads : copying'[t] = copying[t] /\ swapping'[t] = swapping[t]
  BY Zenon DEF SoundFor
<1> QED
  BY <1>1, SoundSteps

LEMMA HeapStays ==
  ASSUME NEW p \in Programs, SoundFor(p)
  PROVE  Heap(p.files, heap) /\ Grows(heap, heap)
<1> PICK h, fs : h = heap /\ fs = p.files
  OBVIOUS
<1>1. Heap(fs, h)
  BY DEF SoundFor
<1>2. Len(h) \in Nat
  BY <1>1, HeapsAreSequences
<1> QED
  BY <1>1, <1>2, GrowsAsItIs

LEMMA AnswersAreSound ==
  ASSUME NEW p \in Programs, SoundFor(p), requests' = requests, copying' = copying, swapping' = swapping,
         UNCHANGED <<registryVars, heap>>
  PROVE  SoundFor(p)'
<1>1. ClassesStay
  BY DEF ClassesStay, registryVars
<1>2. Heap(p.files, heap') /\ Grows(heap, heap')
  BY HeapStays
<1> QED
  BY <1>1, <1>2, HeapSteps

\* What a request names is still what it was.
LEMMA NamedObjects ==
  ASSUME NEW p \in Programs, SoundFor(p), NEW o \in 0 .. Len(p.heap), o # NoReference
  PROVE  /\ o \in DOMAIN p.heap /\ o \in DOMAIN heap /\ heap[o].kind = p.heap[o].kind
         /\ heap[o].kind = "array" => /\ heap[o].type = p.heap[o].type
                                      /\ OfReferences(heap[o]) <=> OfReferences(p.heap[o])
         /\ \A type, slot : Fits(p.files, p.heap, type, slot) => Fits(p.files, heap, type, slot)
<1> PICK h, g, fs : h = p.heap /\ g = heap /\ fs = p.files
  OBVIOUS
<1>1. Heap(fs, h) /\ Heap(fs, g) /\ Grows(h, g)
  BY ProgramsAssumption DEF SoundFor
<1>2. Len(h) \in Nat /\ DOMAIN h = 1 .. Len(h) /\ Len(g) \in Nat /\ DOMAIN g = 1 .. Len(g)
  BY <1>1, HeapsAreSequences
<1>3. o \in DOMAIN h /\ o \in DOMAIN g /\ g[o].kind = h[o].kind
  BY <1>1, <1>2 DEF Grows, NoReference
<1>4. ASSUME g[o].kind = "array"
      PROVE  g[o].type = h[o].type /\ (OfReferences(g[o]) <=> OfReferences(h[o]))
  <2>1. h[o].kind = "array"
    BY <1>3, <1>4
  <2>2. g[o].type = h[o].type /\ OfReferences(g[o]) = OfReferences(h[o])
    BY <1>1, <1>3, <2>1, ArraysStay
  <2> QED
    BY <2>2
<1>5. \A type, slot : Fits(fs, h, type, slot) => Fits(fs, g, type, slot)
  BY <1>1, <1>2, GrownFits
<1> QED
  BY <1>3, <1>4, <1>5

LEMMA WhatMayBeHeldFits ==
  ASSUME NEW p \in Programs, SoundFor(p), NEW o \in DOMAIN heap, heap[o].kind = "array",
         NEW slot, slot.type = "ref", slot.value \in 0 .. Len(heap), MayHold(o, slot)
  PROVE  Fits(p.files, heap, heap[o].type, slot)
<1> PICK h, fs, v : h = heap /\ fs = p.files /\ v = slot.value
  OBVIOUS
<1>1. Heap(fs, h) /\ AllLoaded(fs) /\ Hierarchy(fs) /\ h[o].kind = "array" /\ o \in DOMAIN h
  BY ProgramsAssumption DEF SoundFor
<1>2. CASE v = NoReference
  BY <1>2 DEF Fits
<1>3. CASE v # NoReference
  <2>1. v \in DOMAIN h
    BY <1>1, <1>3, HeapsAreSequences DEF NoReference
  <2>2. PICK a, b : a = TypeOf(h[v]) /\ b = Component(h[o].type)
    OBVIOUS
  <2>3. a \in Types(fs) /\ b \in Types(fs)
    BY <1>1, <2>1, <2>2, ObjectsHaveTypes, ArraysAreTyped
  <2>4. ComponentAssignable(a, b)
    BY <1>3, <2>2 DEF MayHold, ObjectType
  <2>5. J!SubtypeIn(fs, a, b)
    BY <1>1, <2>3, <2>4, AssignableIsSubtype
  <2> QED
    BY <2>2, <2>5 DEF Fits
<1> QED
  BY <1>2, <1>3

LEMMA ElementSteps ==
  ASSUME NEW p \in Programs, SoundFor(p), NEW o \in DOMAIN heap, heap[o].kind = "array",
         NEW i \in DOMAIN heap[o].elements, NEW slot \in Slots,
         OfReferences(heap[o]) => Fits(p.files, heap, heap[o].type, slot),
         heap' = WithElement(heap, o, i, slot)
  PROVE  Heap(p.files, heap') /\ Grows(heap, heap')
<1> PICK h, g, fs : h = heap /\ g = heap' /\ fs = p.files
  OBVIOUS
<1>1. /\ Heap(fs, h) /\ o \in DOMAIN h /\ h[o].kind = "array" /\ i \in DOMAIN h[o].elements
      /\ OfReferences(h[o]) => Fits(fs, h, h[o].type, slot)
  BY DEF SoundFor
<1>2. g = WithElement(h, o, i, slot)
  OBVIOUS
<1>3. Heap(fs, g) /\ Grows(h, g)
  BY <1>1, <1>2, ElementWritten
<1> QED
  BY <1>3

LEMMA SlotSteps ==
  ASSUME NEW p \in Programs, SoundFor(p), NEW o \in DOMAIN heap, heap[o].kind # "array",
         NEW i, NEW slot, heap' = WithSlot(heap, o, i, slot)
  PROVE  Heap(p.files, heap') /\ Grows(heap, heap')
<1> PICK h, g, fs : h = heap /\ g = heap' /\ fs = p.files
  OBVIOUS
<1>1. Heap(fs, h) /\ o \in DOMAIN h /\ h[o].kind # "array"
  BY DEF SoundFor
<1>2. g = WithSlot(h, o, i, slot)
  OBVIOUS
<1>3. Heap(fs, g) /\ Grows(h, g)
  BY <1>1, <1>2, SlotWritten
<1> QED
  BY <1>3

\* Indices of the code count from 0, places of the model from 1.
LEMMA Indices ==
  ASSUME NEW p \in Programs, SoundFor(p), NEW o \in DOMAIN heap, heap[o].kind = "array", NEW i
  PROVE  i \in 0 .. ArrayLength(o) - 1 => i + 1 \in DOMAIN heap[o].elements
<1> PICK h, fs : h = heap /\ fs = p.files
  OBVIOUS
<1>1. Heap(fs, h) /\ h[o].kind = "array" /\ o \in DOMAIN h
  BY DEF SoundFor
<1>2. h[o].elements \in Seq(Slots)
  BY <1>1, ArraysAreTyped
<1>3. PICK elements \in Seq(Slots) : elements = h[o].elements
  BY <1>2
<1>4. i \in 0 .. Len(elements) - 1 => i + 1 \in DOMAIN elements
  OBVIOUS
<1> QED
  BY <1>3, <1>4 DEF ArrayLength

-----------------------------------------------------------------------------
(* Each of the steps. *)

LEMMA StoresAreSound ==
  ASSUME NEW p \in Programs, SoundFor(p), NEW t \in Threads, NEW r \in Requests(t, {"store"}),
         Stores(r), requests' = requests, copying' = copying, swapping' = swapping
  PROVE  SoundFor(p)'
<1>1. /\ r.op = "store" /\ Asked(p, r)
  BY ProgramsAssumption DEF Requests, SoundFor
<1>2. ArrayStore(r.o, r.i, r.kind, r.v)
  BY DEF Stores
<1>3. CASE UNCHANGED <<registryVars, heap>>
  BY <1>3, AnswersAreSound
<1>4. CASE ~UNCHANGED <<registryVars, heap>>
  <2> PICK o, i, slot : o = r.o /\ i = r.i /\ slot = Slot(SlotOfKind(r.kind), r.v)
    OBVIOUS
  <2>1. /\ AccessRefused(o, i) = "" /\ MayHold(o, slot)
        /\ heap' = [heap EXCEPT ![o].elements[i + 1] = slot] /\ UNCHANGED registryVars
    BY <1>2, <1>4 DEF ArrayStore, Answers
  <2>2. o # NoReference /\ IsArray(o) /\ i \in 0 .. ArrayLength(o) - 1
    BY <2>1 DEF AccessRefused
  <2>3. /\ o \in DOMAIN heap /\ heap[o].kind = "array" /\ o \in DOMAIN p.heap
        /\ OfReferences(heap[o]) <=> OfReferences(p.heap[o])
    <3>1. o \in 0 .. Len(p.heap)
      BY <1>1 DEF Asked
    <3> QED
      BY <2>2, <3>1, NamedObjects DEF IsArray
  <2>4. i + 1 \in DOMAIN heap[o].elements
    BY <2>2, <2>3, Indices
  <2>5. slot \in Slots
    BY <1>1 DEF Asked, Slots, Slot, SlotOfKind
  <2>6. OfReferences(heap[o]) => Fits(p.files, heap, heap[o].type, slot)
    <3>1. OfReferences(heap[o]) => r.kind = "ref" /\ r.v \in 0 .. Len(p.heap)
      BY <1>1, <2>2, <2>3 DEF Asked
    <3>2. Len(p.heap) <= Len(heap) /\ Len(p.heap) \in Nat /\ Len(heap) \in Nat
      BY ProgramsAssumption, HeapsAreSequences DEF SoundFor, Grows
    <3>3. OfReferences(heap[o]) => slot.type = "ref" /\ slot.value \in 0 .. Len(heap)
      BY <3>1, <3>2 DEF Slot, SlotOfKind
    <3> QED
      BY <2>1, <2>3, <3>3, WhatMayBeHeldFits
  <2>7. Heap(p.files, heap') /\ Grows(heap, heap')
    <3>1. PICK place : place = i + 1
      OBVIOUS
    <3>2. heap' = WithElement(heap, o, place, slot)
      BY <2>1, <3>1 DEF WithElement
    <3> QED
      BY <2>3, <2>4, <2>5, <2>6, <3>1, <3>2, ElementSteps
  <2>8. ClassesStay
    BY <2>1 DEF ClassesStay, registryVars
  <2> QED
    BY <2>7, <2>8, HeapSteps
<1> QED
  BY <1>3, <1>4

LEMMA AllocationsAreSound ==
  ASSUME NEW p \in Programs, SoundFor(p), NEW t \in Threads, NEW r \in Requests(t, {"new"}),
         Allocates(r), requests' = requests, copying' = copying, swapping' = swapping
  PROVE  SoundFor(p)'
<1>1. /\ r.op = "new" /\ Asked(p, r)
  BY ProgramsAssumption DEF Requests, SoundFor
<1>2. r.type \in ArrayTypes(p.files) /\ r.counts \in Seq(Int) /\ Len(r.counts) \in 1 .. r.type[1]
  BY <1>1 DEF Asked
<1>3. IF Len(r.counts) = 1 THEN NewArray(r.type, r.counts[1]) ELSE MultiNewArray(r.type, r.counts)
  BY DEF Allocates
<1> PICK type, counts, fs, h, g : type = r.type /\ counts = r.counts /\ fs = p.files /\ h = heap /\ g = heap'
  OBVIOUS
<1>4. Heap(fs, h) /\ type \in ArrayTypes(fs) /\ counts \in Seq(Int) /\ Len(counts) \in 1 .. type[1]
  BY <1>2 DEF SoundFor
<1>5. CASE UNCHANGED <<registryVars, heap>>
  BY <1>5, AnswersAreSound
<1>6. CASE ~UNCHANGED <<registryVars, heap>>
  <2>1. UNCHANGED registryVars
    BY <1>3, <1>6 DEF NewArray, MultiNewArray, Answers
  <2>2. Heap(fs, g) /\ Grows(h, g)
    <3>1. CASE Len(counts) = 1
      <4>1. PICK n : n = counts[1]
        OBVIOUS
      <4>2. n \in Int /\ ~(n < 0)
        BY <1>3, <1>4, <1>6, <3>1, <4>1 DEF NewArray, Answers
      <4>3. g = WithObject(h, ArrayOf(type, n))
        BY <1>3, <1>6, <3>1, <4>1 DEF NewArray, Answers, WithObject
      <4>4. n \in Nat
        BY <4>2
      <4> QED
        BY <1>4, <4>3, <4>4, ArrayAdded
    <3>2. CASE Len(counts) # 1
      <4>1. g = AllocMulti(h, type, counts) /\ \A i \in DOMAIN counts : ~(counts[i] < 0)
        BY <1>3, <1>6, <3>2 DEF MultiNewArray, Answers
      <4>2. counts \in Seq(Nat)
        <5>1. \A i \in DOMAIN counts : counts[i] \in Nat
          BY <1>4, <4>1
        <5> QED
          BY <1>4, <5>1
      <4> QED
        BY <1>4, <4>1, <4>2, ArraysAdded
    <3> QED
      BY <3>1, <3>2
  <2>3. ClassesStay
    BY <2>1 DEF ClassesStay, registryVars
  <2> QED
    BY <2>2, <2>3, HeapSteps
<1> QED
  BY <1>5, <1>6

\* What only answers: loads, lengths, the get natives.
LEMMA ReadsAreSound ==
  ASSUME NEW p \in Programs, SoundFor(p), NEW r,
         \/ Loads(r) \/ Lengths(r)
         \/ r.op \in {"get", "getVolatile", "getReference"} /\ Gets(r),
         requests' = requests, copying' = copying, swapping' = swapping
  PROVE  SoundFor(p)'
<1>1. CASE Loads(r)
  BY <1>1, AnswersAreSound DEF Loads, ArrayLoad, Answers
<1>2. CASE Lengths(r)
  BY <1>2, AnswersAreSound DEF Lengths, GetArrayLength, Answers
<1>3. CASE r.op \in {"get", "getVolatile", "getReference"} /\ Gets(r)
  <2>1. \/ GetReference(r.o, OffsetOf(r.at)) \/ GetVolatile(r.o, OffsetOf(r.at), r.kind)
        \/ GetInt(r.o, OffsetOf(r.at)) \/ GetBytes(r.o, OffsetOf(r.at), KindWidth(r.kind), r.kind # "char")
    BY <1>3 DEF Gets
  <2>2. UNCHANGED <<registryVars, heap>>
    <3>1. ASSUME GetReference(r.o, OffsetOf(r.at))
          PROVE  UNCHANGED <<registryVars, heap>>
      BY <3>1, Zenon DEF GetReference, GetVolatile, Answers
    <3>2. ASSUME GetVolatile(r.o, OffsetOf(r.at), r.kind)
          PROVE  UNCHANGED <<registryVars, heap>>
      BY <3>2, Zenon DEF GetVolatile, Answers
    <3>3. ASSUME GetBytes(r.o, OffsetOf(r.at), KindWidth(r.kind), r.kind # "char")
          PROVE  UNCHANGED <<registryVars, heap>>
      BY <3>3, Zenon DEF GetBytes, Answers
    <3>4. ASSUME GetInt(r.o, OffsetOf(r.at))
          PROVE  UNCHANGED <<registryVars, heap>>
      BY <3>4, Zenon DEF GetInt, GetBytes, Answers
    <3> QED
      BY <2>1, <3>1, <3>2, <3>3, <3>4, Zenon
  <2> QED
    BY <2>2, AnswersAreSound
<1> QED
  BY <1>1, <1>2, <1>3

\* A whole slot that an array of references may hold is written, or nothing.
LEMMA WholeSlots ==
  ASSUME NEW p \in Programs, SoundFor(p), NEW o \in 0 .. Len(p.heap), NEW offset, NEW slot \in Slots, NEW result,
         o # NoReference /\ OfReferences(p.heap[o]) => Fits(p.files, p.heap, p.heap[o].type, slot),
         WriteSlot(o, offset, slot, result)
  PROVE  ClassesStay /\ Heap(p.files, heap') /\ Grows(heap, heap')
<1>1. UNCHANGED registryVars
  BY DEF WriteSlot, Answers
<1>2. ClassesStay
  BY <1>1 DEF ClassesStay, registryVars
<1>3. CASE heap' = heap
  BY <1>2, <1>3, HeapStays
<1>4. CASE heap' # heap
  <2> PICK place : place = SlotPlace(o, offset)
    OBVIOUS
  <2>1. /\ o # NoReference /\ place # 0
        /\ heap' = IF IsArray(o) THEN [heap EXCEPT ![o].elements[place] = slot] ELSE [heap EXCEPT ![o].slots[place] = slot]
    BY <1>4 DEF WriteSlot, Answers
  <2>2. /\ o \in DOMAIN heap /\ o \in DOMAIN p.heap /\ heap[o].kind = p.heap[o].kind
        /\ heap[o].kind = "array" => /\ heap[o].type = p.heap[o].type
                                     /\ OfReferences(heap[o]) <=> OfReferences(p.heap[o])
        /\ \A type : Fits(p.files, p.heap, type, slot) => Fits(p.files, heap, type, slot)
    BY <2>1, NamedObjects
  <2>3. CASE heap[o].kind = "array"
    <3>1. heap' = WithElement(heap, o, place, slot)
      BY <2>1, <2>3 DEF WithElement, IsArray
    <3>2. PICK i : i = ArrayIndexFromOffset(heap[o].type, offset)
      OBVIOUS
    <3>3. i \in 0 .. ArrayLength(o) - 1 /\ place = i + 1
      BY <2>1, <2>3, <3>2 DEF SlotPlace, IsArray
    <3>4. place \in DOMAIN heap[o].elements
      BY <2>2, <2>3, <3>3, Indices
    <3>5. OfReferences(heap[o]) => Fits(p.files, heap, heap[o].type, slot)
      BY <2>1, <2>2, <2>3
    <3> QED
      BY <1>2, <2>2, <2>3, <3>1, <3>4, <3>5, ElementSteps
  <2>4. CASE heap[o].kind # "array"
    <3>1. heap' = WithSlot(heap, o, place, slot)
      BY <2>1, <2>4 DEF WithSlot, IsArray
    <3> QED
      BY <1>2, <2>2, <2>4, <3>1, SlotSteps
  <2> QED
    BY <2>3, <2>4
<1> QED
  BY <1>3, <1>4

LEMMA StaticSlots ==
  ASSUME NEW o, NEW offset, NEW slot, WriteStaticSlot(o, offset, slot)
  PROVE  ClassesStay /\ heap' = heap
<1>1. CASE Answers(Throws("InternalError"))
  BY <1>1 DEF Answers, ClassesStay, registryVars
<1>2. CASE ~Answers(Throws("InternalError"))
  <2>1. files' = files /\ heap' = heap
    BY <1>2 DEF WriteStaticSlot
  <2>2. \E lc : Put(lc)
    BY <1>2 DEF WriteStaticSlot
  <2>3. DOMAIN classes' = DOMAIN classes /\ DOMAIN runtimeClasses' = DOMAIN runtimeClasses
    BY <2>2 DEF Put
  <2> QED
    BY <2>1, <2>3 DEF ClassesStay
<1> QED
  BY <1>1, <1>2

LEMMA PutsAreSound ==
  ASSUME NEW p \in Programs, SoundFor(p), NEW t \in Threads, NEW r \in Requests(t, {"put", "putByte", "putReference"}),
         Puts(r), requests' = requests, copying' = copying, swapping' = swapping
  PROVE  SoundFor(p)'
<1> PICK o, offset, kind, v : o = r.o /\ offset = OffsetOf(r.at) /\ kind = r.kind /\ v = r.v
  OBVIOUS
<1>1. r.op \in {"put", "putByte", "putReference"} /\ Asked(p, r)
  BY ProgramsAssumption DEF Requests, SoundFor
<1>2. /\ o \in 0 .. Len(p.heap) /\ v \in Int /\ kind \in {"ref", "int"} \cup Primitives
      /\ o # NoReference /\ OfReferences(p.heap[o]) => Fits(p.files, p.heap, p.heap[o].type, Slot(kind, v))
      /\ r.op \in {"putByte", "putReference"} => (r.op = "putReference" <=> kind = "ref")
  BY <1>1 DEF Asked
<1>3. PICK slot : slot = Slot(IF r.op = "putByte" THEN "int" ELSE kind, v)
  OBVIOUS
<1>4. slot \in Slots
  BY <1>2, <1>3 DEF Slots, Slot
<1>5. o # NoReference /\ OfReferences(p.heap[o]) => Fits(p.files, p.heap, p.heap[o].type, slot)
  BY <1>2, <1>3 DEF Fits, Slot
<1>6. \/ r.op = "putReference" /\ kind = "ref" /\ PutReference(o, offset, v)
      \/ r.op = "put" /\ PutVolatile(o, offset, kind, v)
      \/ r.op = "putByte" /\ PutByte(o, offset, v)
  BY <1>1, <1>2 DEF Puts
<1>7. ClassesStay /\ Heap(p.files, heap') /\ Grows(heap, heap')
  <2>1. CASE WriteSlot(o, offset, slot, Value(0))
    <3>1. PICK result : result = Value(0)
      OBVIOUS
    <3>2. WriteSlot(o, offset, slot, result)
      BY <2>1, <3>1
    <3> QED
      BY <1>2, <1>4, <1>5, <3>2, WholeSlots
  <2>2. CASE r.op = "putReference" /\ WriteStaticSlot(o, offset, slot)
    BY <2>2, StaticSlots, HeapStays
  <2>3. CASE r.op = "putByte" /\ PutByte(o, offset, v)
    <3>1. CASE UNCHANGED <<registryVars, heap>>
      BY <3>1, HeapStays DEF ClassesStay, registryVars
    <3>2. CASE ~UNCHANGED <<registryVars, heap>>
      <4> PICK i : i = offset - ArrayBaseOffset
        OBVIOUS
      <4>1. /\ o # NoReference /\ IsArray(o) /\ i \in 0 .. ArrayLength(o) - 1 /\ UNCHANGED registryVars
            /\ heap' = [heap EXCEPT ![o].elements[i + 1] = slot]
        BY <1>3, <2>3, <3>2 DEF PutByte, Answers
      <4>2. /\ o \in DOMAIN heap /\ heap[o].kind = "array" /\ heap[o].type = p.heap[o].type
            /\ OfReferences(heap[o]) <=> OfReferences(p.heap[o])
            /\ \A type : Fits(p.files, p.heap, type, slot) => Fits(p.files, heap, type, slot)
        BY <1>2, <4>1, NamedObjects DEF IsArray
      <4>3. PICK place : place = i + 1
        OBVIOUS
      <4>4. place \in DOMAIN heap[o].elements
        BY <4>1, <4>2, <4>3, Indices
      <4>5. OfReferences(heap[o]) => Fits(p.files, heap, heap[o].type, slot)
        BY <1>5, <4>1, <4>2
      <4>6. heap' = WithElement(heap, o, place, slot)
        BY <4>1, <4>3 DEF WithElement
      <4>7. Heap(p.files, heap') /\ Grows(heap, heap')
        BY <1>4, <4>2, <4>4, <4>5, <4>6, ElementSteps
      <4> QED
        BY <4>1, <4>7 DEF ClassesStay, registryVars
    <3> QED
      BY <3>1, <3>2
  <2> QED
    BY <1>3, <1>6, <2>1, <2>2, <2>3 DEF PutReference, PutVolatile
<1> QED
  BY <1>7, HeapSteps

LEMMA CopyPlaces ==
  ASSUME NEW fs, NEW h, Heap(fs, h), NEW c, CopyIsSound(fs, h, c)
  PROVE  /\ c.srcPos + CopyIndex(c) + 1 \in DOMAIN h[c.src].elements
         /\ c.dstPos + CopyIndex(c) + 1 \in DOMAIN h[c.dst].elements
<1>1. /\ c.done \in Nat /\ c.n \in Nat /\ c.srcPos \in Nat /\ c.dstPos \in Nat /\ c.done < c.n
      /\ c.srcPos + c.n <= Len(h[c.src].elements) /\ c.dstPos + c.n <= Len(h[c.dst].elements)
  BY DEF CopyIsSound, CopiesUnderWay
<1>2. CopyIndex(c) \in 0 .. c.n - 1
  BY <1>1 DEF CopyIndex
<1>3. h[c.src].elements \in Seq(Slots) /\ h[c.dst].elements \in Seq(Slots)
  BY ArraysAreTyped DEF CopyIsSound
<1>4. PICK from, to : from = h[c.src].elements /\ to = h[c.dst].elements
  OBVIOUS
<1>5. PICK i, m, n : i = CopyIndex(c) /\ m = Len(from) /\ n = Len(to)
  OBVIOUS
<1>6. i \in 0 .. c.n - 1 /\ c.srcPos + c.n <= m /\ c.dstPos + c.n <= n /\ m \in Nat /\ n \in Nat
  <2>1. c.srcPos + c.n <= m /\ c.dstPos + c.n <= n
    BY <1>1, <1>4, <1>5, Zenon
  <2>2. m \in Nat /\ n \in Nat
    BY <1>3, <1>4, <1>5
  <2> QED
    BY <1>2, <1>5, <2>1, <2>2
<1>7. c.srcPos + i + 1 \in 1 .. m /\ c.dstPos + i + 1 \in 1 .. n
  <2>1. c.srcPos \in Nat /\ c.dstPos \in Nat /\ c.n \in Nat
    BY <1>1
  <2>2. PICK a \in Nat, b \in Nat, k \in Nat : a = c.srcPos /\ b = c.dstPos /\ k = c.n
    BY <2>1
  <2>3. a + i + 1 \in 1 .. m /\ b + i + 1 \in 1 .. n
    BY <1>6, <2>2
  <2> QED
    BY <2>2, <2>3
<1>8. 1 .. m = DOMAIN from /\ 1 .. n = DOMAIN to
  BY <1>3, <1>4, <1>5
<1> QED
  BY <1>4, <1>5, <1>7, <1>8, Zenon

LEMMA CopiesStart ==
  ASSUME NEW p \in Programs, SoundFor(p), NEW t \in Threads, NEW r \in Requests(t, {"copy"}),
         CopyStarts(t, r), requests' = requests, swapping' = swapping
  PROVE  SoundFor(p)'
<1>1. /\ r.op = "copy" /\ Asked(p, r)
  BY ProgramsAssumption DEF Requests, SoundFor
<1> PICK k, fs, h : k = r.copy /\ fs = p.files /\ h = heap
  OBVIOUS
<1>2. k \in [src : 0 .. Len(p.heap), srcPos : Int, dst : 0 .. Len(p.heap), dstPos : Int, n : Int]
  BY <1>1 DEF Asked
<1>3. CopyBegins(t, k)
  BY DEF CopyStarts
<1>4. UNCHANGED <<registryVars, heap>>
  BY <1>3 DEF CopyBegins, Answers
<1>5. CASE copying' = copying
  BY <1>4, <1>5, AnswersAreSound
<1>6. CASE copying' # copying
  <2>1. PICK b \in BOOLEAN : b = ChecksElements(k)
    BY DEF ChecksElements
  <2>2. PICK c : c = CopyFrom(k)
    OBVIOUS
  <2>3. copying' = [copying EXCEPT ![t] = c] /\ CopyRefused(k) = "" /\ k.n # 0
    BY <1>3, <1>6, <2>2, Zenon DEF CopyBegins
  <2>4. /\ k.src # NoReference /\ k.dst # NoReference /\ IsArray(k.src) /\ IsArray(k.dst)
        /\ IsReference(Component(h[k.src].type)) <=> IsReference(Component(h[k.dst].type))
        /\ ~(k.srcPos < 0) /\ ~(k.dstPos < 0) /\ ~(k.n < 0)
        /\ ~(k.srcPos + k.n > ArrayLength(k.src)) /\ ~(k.dstPos + k.n > ArrayLength(k.dst))
    BY <2>3 DEF CopyRefused
  <2>5. Heap(fs, h) /\ AllLoaded(fs) /\ Hierarchy(fs)
    BY ProgramsAssumption DEF SoundFor
  <2>6. /\ k.src \in DOMAIN h /\ k.dst \in DOMAIN h /\ h[k.src].kind = "array" /\ h[k.dst].kind = "array"
    <3>1. k.src \in 0 .. Len(p.heap) /\ k.dst \in 0 .. Len(p.heap)
      BY <1>2
    <3>2. PICK src, dst : src = k.src /\ dst = k.dst
      OBVIOUS
    <3>3. src \in DOMAIN heap /\ dst \in DOMAIN heap
      BY <2>4, <3>1, <3>2, NamedObjects
    <3> QED
      BY <2>4, <3>2, <3>3 DEF IsArray
  <2>7. /\ h[k.src].elements \in Seq(Slots) /\ h[k.dst].elements \in Seq(Slots)
        /\ Component(h[k.src].type) \in Types(fs) /\ Component(h[k.dst].type) \in Types(fs)
    BY <2>5, <2>6, ArraysAreTyped
  <2>8. k \in [src : Nat, srcPos : Nat, dst : Nat, dstPos : Nat, n : Nat]
    <3>1. k.src \in Nat /\ k.dst \in Nat
      BY <2>5, <2>6, HeapsAreSequences
    <3>2. k.srcPos \in Nat /\ k.dstPos \in Nat /\ k.n \in Nat
      BY <1>2, <2>4
    <3> QED
      BY <1>2, <3>1, <3>2
  <2>9. /\ c \in CopiesUnderWay /\ c.done = 0 /\ c.slot = NoSlot /\ c.checks = b
        /\ c.src = k.src /\ c.srcPos = k.srcPos /\ c.dst = k.dst /\ c.dstPos = k.dstPos /\ c.n = k.n
    BY <2>1, <2>2, <2>8 DEF CopyFrom, CopiesUnderWay
  <2>10. k.n > 0 /\ k.srcPos + k.n <= Len(h[k.src].elements) /\ k.dstPos + k.n <= Len(h[k.dst].elements)
    <3>1. PICK from, to : from = Len(h[k.src].elements) /\ to = Len(h[k.dst].elements)
      OBVIOUS
    <3>2. from \in Nat /\ to \in Nat
      <4>1. \A s \in Seq(Slots) : Len(s) \in Nat
        OBVIOUS
      <4> QED
        BY <2>7, <3>1, <4>1, Zenon
    <3>3. ~(k.srcPos + k.n > from) /\ ~(k.dstPos + k.n > to)
      BY <2>4, <3>1 DEF ArrayLength
    <3>4. k.n > 0 /\ k.srcPos + k.n <= from /\ k.dstPos + k.n <= to
      <4>1. PICK at \in Nat, into \in Nat, n \in Nat : at = k.srcPos /\ into = k.dstPos /\ n = k.n
        BY <2>8
      <4>2. n # 0 /\ ~(at + n > from) /\ ~(into + n > to)
        BY <2>3, <3>3, <4>1, Zenon
      <4>3. n > 0 /\ at + n <= from /\ into + n <= to
        BY <3>2, <4>2
      <4> QED
        BY <4>1, <4>3, Zenon
    <3> QED
      BY <3>1, <3>4, Zenon
  <2>11. OfReferences(h[k.dst]) => b \/ J!SubtypeIn(fs, Component(h[k.src].type), Component(h[k.dst].type))
    <3>1. PICK from, to : from = Component(h[k.src].type) /\ to = Component(h[k.dst].type)
      OBVIOUS
    <3>2. CASE k.src = k.dst
      BY <3>2 DEF J!SubtypeIn
    <3>3. CASE k.src # k.dst /\ OfReferences(h[k.dst]) /\ ~b
      <4>1. ComponentAssignable(from, to)
        BY <2>1, <2>4, <3>1, <3>3 DEF ChecksElements, OfReferences
      <4>2. J!SubtypeIn(fs, from, to)
        BY <2>5, <2>7, <3>1, <4>1, AssignableIsSubtype
      <4> QED
        BY <3>1, <4>2
    <3> QED
      BY <3>2, <3>3
  <2>12. CopyIsSound(fs, h, c)
    BY <2>4, <2>6, <2>9, <2>10, <2>11 DEF CopyIsSound, OfReferences
  <2>13. /\ ClassesStay /\ swapping' = [u \in Threads |-> swapping'[u]]
         /\ copying' = [u \in Threads |-> copying'[u]]
         /\ \A u \in Threads : copying'[u] = IF u = t THEN c ELSE copying[u]
    BY <1>4, <2>3 DEF ClassesStay, registryVars, SoundFor
  <2>14. heap' = h /\ Heap(p.files, heap') /\ Grows(heap, heap')
    BY <1>4, HeapStays
  <2>15. \A u \in Threads : copying'[u] = copying[u] \/ copying'[u] = NoCopy \/ CopyIsSound(p.files, heap', copying'[u])
    BY <2>12, <2>13, <2>14
  <2> QED
    BY <2>13, <2>14, <2>15, SoundSteps
<1> QED
  BY <1>5, <1>6

\* A copy reads on: what it has read, an array of the component's type may hold.
LEMMA CopiesRead ==
  ASSUME NEW p \in Programs, SoundFor(p), NEW t \in Threads, CopyReadsOn(t),
         requests' = requests, swapping' = swapping
  PROVE  SoundFor(p)'
<1> PICK fs, h, c : fs = p.files /\ h = heap /\ c = copying[t]
  OBVIOUS
<1>1. PICK slot : slot = h[c.src].elements[c.srcPos + CopyIndex(c) + 1]
  OBVIOUS
<1>2. PICK refused \in BOOLEAN : refused <=> c.checks /\ ~MayHold(c.dst, slot)
  OBVIOUS
<1>3. /\ c # NoCopy /\ UNCHANGED <<registryVars, heap>>
      /\ copying' = [copying EXCEPT ![t] = IF refused THEN NoCopy ELSE [c EXCEPT !.slot = slot]]
  <2>1. CopyReads(t)
    BY DEF CopyReadsOn
  <2>2. c # NoCopy /\ UNCHANGED <<registryVars, heap>>
    BY <2>1, Zenon DEF CopyReads, Answers
  <2>3. copying' = [copying EXCEPT ![t] = IF refused THEN NoCopy ELSE [c EXCEPT !.slot = slot]]
    BY <1>1, <1>2, <2>1, Zenon DEF CopyReads
  <2> QED
    BY <2>2, <2>3
<1>4. Heap(fs, h) /\ AllLoaded(fs) /\ Hierarchy(fs) /\ CopyIsSound(fs, h, c)
  BY <1>3, ProgramsAssumption DEF SoundFor
<1>5. /\ c \in CopiesUnderWay /\ c.src \in DOMAIN h /\ c.dst \in DOMAIN h
      /\ h[c.src].kind = "array" /\ h[c.dst].kind = "array"
      /\ OfReferences(h[c.src]) <=> OfReferences(h[c.dst])
  BY <1>4, Zenon DEF CopyIsSound
<1>6. PICK i : i = c.srcPos + CopyIndex(c) + 1 /\ i \in DOMAIN h[c.src].elements
  BY <1>4, CopyPlaces
<1>7. slot \in Slots
  BY <1>1, <1>4, <1>5, <1>6, ArraysAreTyped
<1>8. ASSUME OfReferences(h[c.dst]), ~refused
      PROVE  Fits(fs, h, h[c.dst].type, slot)
  <2>1. Fits(fs, h, h[c.src].type, slot)
    BY <1>1, <1>4, <1>5, <1>6, <1>8 DEF Heap
  <2>2. slot.type = "ref" /\ slot.value \in 0 .. Len(h)
    BY <2>1 DEF Fits
  <2>3. CASE c.checks
    <3>1. PICK dst : dst = c.dst
      OBVIOUS
    <3>2. dst \in DOMAIN heap /\ heap[dst].kind = "array" /\ MayHold(dst, slot)
      BY <1>2, <1>5, <1>8, <2>3, <3>1
    <3>3. Fits(p.files, heap, heap[dst].type, slot)
      BY <2>2, <3>2, WhatMayBeHeldFits
    <3> QED
      BY <3>1, <3>3
  <2>4. CASE ~c.checks /\ slot.value # NoReference
    <3>1. PICK v, from, to, type : /\ v = slot.value /\ from = Component(h[c.src].type)
                                   /\ to = Component(h[c.dst].type) /\ type = TypeOf(h[v])
      OBVIOUS
    <3>2. J!SubtypeIn(fs, type, from) /\ J!SubtypeIn(fs, from, to)
      BY <1>4, <1>8, <2>1, <2>4, <3>1 DEF Fits, CopyIsSound
    <3>3. v \in DOMAIN h
      BY <1>4, <2>2, <2>4, <3>1, HeapsAreSequences DEF NoReference
    <3>4. type \in Types(fs) /\ from \in Types(fs) /\ to \in Types(fs)
      BY <1>4, <1>5, <3>1, <3>3, ObjectsHaveTypes, ArraysAreTyped
    <3>5. J!SubtypeIn(fs, type, to)
      BY <1>4, <3>2, <3>4, SubtypesOfSubtypes
    <3> QED
      BY <2>2, <3>1, <3>5 DEF Fits
  <2>5. CASE slot.value = NoReference
    BY <2>2, <2>5 DEF Fits
  <2> QED
    BY <2>3, <2>4, <2>5
<1>9. PICK d : d = [c EXCEPT !.slot = slot]
  OBVIOUS
<1>10. ~refused => CopyIsSound(fs, h, d)
  <2>1. /\ d \in CopiesUnderWay /\ d.slot = slot /\ d.done = c.done /\ d.checks = c.checks /\ d.n = c.n
        /\ d.src = c.src /\ d.srcPos = c.srcPos /\ d.dst = c.dst /\ d.dstPos = c.dstPos
    BY <1>5, <1>7, <1>9 DEF CopiesUnderWay
  <2> QED
    BY <1>4, <1>8, <2>1 DEF CopyIsSound
<1>11. /\ ClassesStay /\ swapping' = [u \in Threads |-> swapping'[u]]
       /\ copying' = [u \in Threads |-> copying'[u]]
       /\ \A u \in Threads : copying'[u] = IF u # t THEN copying[u] ELSE IF refused THEN NoCopy ELSE d
  BY <1>3, <1>9 DEF ClassesStay, registryVars, SoundFor
<1>12. heap' = h /\ Heap(p.files, heap') /\ Grows(heap, heap')
  BY <1>3, HeapStays
<1>13. \A u \in Threads : copying'[u] = copying[u] \/ copying'[u] = NoCopy \/ CopyIsSound(p.files, heap', copying'[u])
  BY <1>10, <1>11, <1>12
<1> QED
  BY <1>11, <1>12, <1>13, SoundSteps

LEMMA CopiesWrite ==
  ASSUME NEW p \in Programs, SoundFor(p), NEW t \in Threads, CopyWritesOn(t),
         requests' = requests, swapping' = swapping
  PROVE  SoundFor(p)'
<1> PICK fs, h, g, c : fs = p.files /\ h = heap /\ g = heap' /\ c = copying[t]
  OBVIOUS
<1>1. PICK o, slot, i : o = c.dst /\ slot = c.slot /\ i = c.dstPos + CopyIndex(c) + 1
  OBVIOUS
<1>2. CopyWrites(t)
  BY DEF CopyWritesOn
<1>3. PICK d : d = [c EXCEPT !.done = @ + 1, !.slot = NoSlot]
  OBVIOUS
<1>4. /\ c # NoCopy /\ slot # NoSlot /\ UNCHANGED registryVars
      /\ heap' = WithElement(heap, o, i, slot)
      /\ copying' = [copying EXCEPT ![t] = IF c.done + 1 = c.n THEN NoCopy ELSE d]
  BY <1>1, <1>2, <1>3 DEF CopyWrites, WithElement
<1>5. Heap(fs, h) /\ CopyIsSound(fs, h, c)
  BY <1>4 DEF SoundFor
<1>6. /\ c \in CopiesUnderWay /\ o \in DOMAIN h /\ h[o].kind = "array" /\ slot \in Slots
      /\ OfReferences(h[o]) => Fits(fs, h, h[o].type, slot)
  BY <1>1, <1>4, <1>5 DEF CopyIsSound, CopiesUnderWay
<1>7. i \in DOMAIN h[o].elements
  BY <1>1, <1>5, CopyPlaces
<1>8. Heap(fs, g) /\ Grows(h, g)
  <2>1. /\ o \in DOMAIN heap /\ heap[o].kind = "array" /\ i \in DOMAIN heap[o].elements
        /\ OfReferences(heap[o]) => Fits(p.files, heap, heap[o].type, slot)
    BY <1>6, <1>7
  <2>2. Heap(p.files, heap') /\ Grows(heap, heap')
    BY <1>4, <1>6, <2>1, ElementSteps
  <2> QED
    BY <2>2
<1>9. CopyIsSound(fs, g, c)
  BY <1>5, <1>8, GrownCopy
<1>10. c.done + 1 # c.n => CopyIsSound(fs, g, d)
  <2>1. PICK done \in Nat, n \in Nat : done = c.done /\ n = c.n
    BY <1>6 DEF CopiesUnderWay
  <2>2. done < n
    BY <1>9, <2>1, Zenon DEF CopyIsSound
  <2>3. done + 1 # n => done + 1 < n
    BY <2>2
  <2>4. /\ d \in CopiesUnderWay /\ d.slot = NoSlot /\ d.done = done + 1 /\ d.checks = c.checks /\ d.n = n
        /\ d.src = c.src /\ d.srcPos = c.srcPos /\ d.dst = c.dst /\ d.dstPos = c.dstPos
    <3>1. PICK k \in Nat : k = done + 1
      OBVIOUS
    <3>2. PICK e : e = [c EXCEPT !.done = k]
      OBVIOUS
    <3>3. d = [e EXCEPT !.slot = NoSlot]
      BY <1>3, <2>1, <3>1, <3>2
    <3>4. e \in CopiesUnderWay /\ e.done = k /\ e.checks = c.checks /\ e.n = c.n
          /\ e.src = c.src /\ e.srcPos = c.srcPos /\ e.dst = c.dst /\ e.dstPos = c.dstPos
      BY <1>6, <3>2 DEF CopiesUnderWay
    <3>5. d \in CopiesUnderWay /\ d.slot = NoSlot /\ d.done = e.done /\ d.checks = e.checks /\ d.n = e.n
          /\ d.src = e.src /\ d.srcPos = e.srcPos /\ d.dst = e.dst /\ d.dstPos = e.dstPos
      BY <3>3, <3>4 DEF CopiesUnderWay
    <3> QED
      BY <2>1, <3>1, <3>4, <3>5
  <2> QED
    BY <1>9, <2>1, <2>3, <2>4 DEF CopyIsSound
<1>11. /\ ClassesStay /\ swapping' = [u \in Threads |-> swapping'[u]]
       /\ copying' = [u \in Threads |-> copying'[u]]
       /\ \A u \in Threads : copying'[u] = IF u # t THEN copying[u] ELSE IF c.done + 1 = c.n THEN NoCopy ELSE d
  BY <1>4 DEF ClassesStay, registryVars, SoundFor
<1>12. Heap(p.files, heap') /\ Grows(heap, heap')
  BY <1>8
<1>13. \A u \in Threads : copying'[u] = copying[u] \/ copying'[u] = NoCopy \/ CopyIsSound(p.files, heap', copying'[u])
  BY <1>10, <1>11
<1> QED
  BY <1>11, <1>12, <1>13, SoundSteps

LEMMA SwapsStart ==
  ASSUME NEW p \in Programs, SoundFor(p), NEW t \in Threads, NEW r \in Requests(t, {"swap", "exchange"}),
         SwapStarts(t, r), requests' = requests, copying' = copying
  PROVE  SoundFor(p)'
<1> PICK s : s = Swap(r)
  OBVIOUS
<1>1. SwapReads(t, s)
  BY DEF SwapStarts
<1>2. UNCHANGED <<registryVars, heap>> /\ (swapping' = swapping \/ swapping' = [swapping EXCEPT ![t] = s])
  <2>1. UNCHANGED <<registryVars, heap>>
    BY <1>1, Zenon DEF SwapReads, Answers
  <2>2. swapping' = swapping \/ swapping' = [swapping EXCEPT ![t] = s]
    BY <1>1, Zenon DEF SwapReads
  <2> QED
    BY <2>1, <2>2
<1>3. SwapIsAsked(p.requests[t], s)
  <2>1. r \in p.requests[t] /\ r.op \in {"swap", "exchange"}
    BY DEF Requests, SoundFor
  <2>2. s.o = r.o /\ s.type = r.kind /\ s.new = r.v
    BY DEF Swap
  <2> QED
    BY <2>1, <2>2 DEF SwapIsAsked
<1>4. /\ ClassesStay /\ swapping' = [u \in Threads |-> swapping'[u]]
      /\ copying' = [u \in Threads |-> copying'[u]]
      /\ \A u \in Threads : copying'[u] = copying[u]
      /\ \A u \in Threads : swapping'[u] = swapping[u] \/ (u = t /\ swapping'[u] = s)
  BY <1>2 DEF ClassesStay, registryVars, SoundFor
<1>5. Heap(p.files, heap') /\ Grows(heap, heap')
  BY <1>2, HeapStays
<1>6. \A u \in Threads : swapping'[u] = swapping[u] \/ SwapIsAsked(p.requests[u], swapping'[u])
  BY <1>3, <1>4
<1> QED
  BY <1>4, <1>5, <1>6, SoundSteps

LEMMA SwapsEnd ==
  ASSUME NEW p \in Programs, SoundFor(p), NEW t \in Threads, SwapEnds(t),
         requests' = requests, copying' = copying
  PROVE  SoundFor(p)'
<1> PICK s : s = swapping[t]
  OBVIOUS
<1>1. SwapWrites(t)
  BY DEF SwapEnds
<1>2. s # NoSwap /\ swapping' = [swapping EXCEPT ![t] = NoSwap]
  BY <1>1 DEF SwapWrites
<1>3. PICK r \in p.requests[t] : r.op \in {"swap", "exchange"} /\ s.o = r.o /\ s.type = r.kind /\ s.new = r.v
  BY <1>2 DEF SoundFor, SwapIsAsked
<1>4. PICK o, offset, slot, result : o = r.o /\ offset = s.offset /\ slot = Slot(r.kind, r.v) /\ result = Witnessed(s)
  OBVIOUS
<1>5. WriteSlot(o, offset, slot, result)
  BY <1>1, <1>3, <1>4 DEF SwapWrites
<1>6. /\ o \in 0 .. Len(p.heap) /\ slot \in Slots
      /\ o # NoReference /\ OfReferences(p.heap[o]) => Fits(p.files, p.heap, p.heap[o].type, slot)
  <2>1. Asked(p, r)
    BY ProgramsAssumption
  <2> QED
    BY <1>3, <1>4, <2>1 DEF Asked, Slots, Slot
<1>7. ClassesStay /\ Heap(p.files, heap') /\ Grows(heap, heap')
  BY <1>5, <1>6, WholeSlots
<1>8. /\ swapping' = [u \in Threads |-> swapping'[u]] /\ copying' = [u \in Threads |-> copying'[u]]
      /\ \A u \in Threads : copying'[u] = copying[u]
      /\ \A u \in Threads : swapping'[u] = swapping[u] \/ swapping'[u] = NoSwap
  BY <1>2 DEF SoundFor
<1> QED
  BY <1>7, <1>8, SoundSteps

-----------------------------------------------------------------------------
(* The theorem. *)

LEMMA SoundAtFirst == Init => HeapIsSound
<1> SUFFICES ASSUME Init
             PROVE  HeapIsSound
  OBVIOUS
<1>1. PICK p \in Programs :
        /\ files = p.files /\ heap = p.heap /\ requests = p.requests /\ budget = p.budget
        /\ classes = [c \in DOMAIN p.files |-> FromClassFile(c)]
  BY DEF Init
<1>2. runtimeClasses = <<>> /\ copying = [t \in Threads |-> NoCopy] /\ swapping = [t \in Threads |-> NoSwap]
  BY DEF Init
<1>3. AllLoaded(p.files)
  BY <1>1, <1>2 DEF AllLoaded
<1>4. Heap(p.files, heap) /\ Grows(p.heap, heap)
  <2>1. Heap(p.files, p.heap)
    BY ProgramsAssumption
  <2>2. Grows(p.heap, p.heap)
    BY <2>1, HeapsAreSequences, GrowsAsItIs
  <2> QED
    BY <1>1, <2>1, <2>2
<1>5. SoundFor(p)
  BY <1>1, <1>2, <1>3, <1>4 DEF SoundFor
<1> QED
  BY <1>5 DEF HeapIsSound

LEMMA SoundStep ==
  ASSUME NEW p \in Programs, SoundFor(p), Next
  PROVE  SoundFor(p)'
<1> PICK t \in Threads :
       \/ \E r \in Requests(t, {"load"})  : Asks(t) /\ Loads(r) /\ UNCHANGED <<copying, swapping, nextThreadId>>
       \/ \E r \in Requests(t, {"store"}) : Asks(t) /\ Stores(r) /\ UNCHANGED <<copying, swapping, nextThreadId>>
       \/ \E r \in Requests(t, {"length"}) : Asks(t) /\ Lengths(r) /\ UNCHANGED <<copying, swapping, nextThreadId>>
       \/ \E r \in Requests(t, {"new"})   : Asks(t) /\ Allocates(r) /\ UNCHANGED <<copying, swapping, nextThreadId>>
       \/ \E r \in Requests(t, {"get", "getVolatile", "getReference"}) :
             Asks(t) /\ Gets(r) /\ UNCHANGED <<copying, swapping, nextThreadId>>
       \/ \E r \in Requests(t, {"put", "putByte", "putReference"}) :
             Asks(t) /\ Puts(r) /\ UNCHANGED <<copying, swapping, nextThreadId>>
       \/ \E r \in Requests(t, {"copy"}) : Asks(t) /\ CopyStarts(t, r) /\ UNCHANGED <<swapping, nextThreadId>>
       \/ CopyReadsOn(t) /\ UNCHANGED <<requests, budget, swapping, nextThreadId>>
       \/ CopyWritesOn(t) /\ UNCHANGED <<requests, budget, swapping, nextThreadId>>
       \/ \E r \in Requests(t, {"swap", "exchange"}) : Asks(t) /\ SwapStarts(t, r) /\ UNCHANGED copying
       \/ SwapEnds(t) /\ UNCHANGED <<requests, budget, copying>>
  BY Zenon DEF Next
<1>1. Asks(t) => requests' = requests
  BY DEF Asks
<1>2. CASE \E r \in Requests(t, {"load"}) : Asks(t) /\ Loads(r) /\ UNCHANGED <<copying, swapping, nextThreadId>>
  BY <1>1, <1>2, ReadsAreSound
<1>3. CASE \E r \in Requests(t, {"store"}) : Asks(t) /\ Stores(r) /\ UNCHANGED <<copying, swapping, nextThreadId>>
  BY <1>1, <1>3, StoresAreSound
<1>4. CASE \E r \in Requests(t, {"length"}) : Asks(t) /\ Lengths(r) /\ UNCHANGED <<copying, swapping, nextThreadId>>
  BY <1>1, <1>4, ReadsAreSound
<1>5. CASE \E r \in Requests(t, {"new"}) : Asks(t) /\ Allocates(r) /\ UNCHANGED <<copying, swapping, nextThreadId>>
  BY <1>1, <1>5, AllocationsAreSound
<1>6. CASE \E r \in Requests(t, {"get", "getVolatile", "getReference"}) :
             Asks(t) /\ Gets(r) /\ UNCHANGED <<copying, swapping, nextThreadId>>
  <2>1. PICK r : /\ r.op \in {"get", "getVolatile", "getReference"} /\ Gets(r)
                 /\ requests' = requests /\ copying' = copying /\ swapping' = swapping
    BY <1>1, <1>6 DEF Requests
  <2> QED
    BY <2>1, ReadsAreSound
<1>7. CASE \E r \in Requests(t, {"put", "putByte", "putReference"}) :
             Asks(t) /\ Puts(r) /\ UNCHANGED <<copying, swapping, nextThreadId>>
  BY <1>1, <1>7, PutsAreSound
<1>8. CASE \E r \in Requests(t, {"copy"}) : Asks(t) /\ CopyStarts(t, r) /\ UNCHANGED <<swapping, nextThreadId>>
  BY <1>1, <1>8, CopiesStart
<1>9. CASE CopyReadsOn(t) /\ UNCHANGED <<requests, budget, swapping, nextThreadId>>
  BY <1>9, CopiesRead
<1>10. CASE CopyWritesOn(t) /\ UNCHANGED <<requests, budget, swapping, nextThreadId>>
  BY <1>10, CopiesWrite
<1>11. CASE \E r \in Requests(t, {"swap", "exchange"}) : Asks(t) /\ SwapStarts(t, r) /\ UNCHANGED copying
  BY <1>1, <1>11, SwapsStart
<1>12. CASE SwapEnds(t) /\ UNCHANGED <<requests, budget, copying>>
  BY <1>12, SwapsEnd
<1> QED
  BY <1>2, <1>3, <1>4, <1>5, <1>6, <1>7, <1>8, <1>9, <1>10, <1>11, <1>12

LEMMA SoundAlways == HeapIsSound /\ [Next]_vars => HeapIsSound'
<1> SUFFICES ASSUME HeapIsSound, [Next]_vars
             PROVE  HeapIsSound'
  OBVIOUS
<1>1. PICK p \in Programs : SoundFor(p)
  BY DEF HeapIsSound
<1>2. CASE Next
  <2>1. SoundFor(p)'
    BY <1>1, <1>2, SoundStep
  <2> QED
    BY <2>1 DEF HeapIsSound
<1>3. CASE UNCHANGED vars
  <2>1. UNCHANGED <<registryVars, heap>> /\ requests' = requests /\ copying' = copying /\ swapping' = swapping
    BY <1>3 DEF vars, unsafeVars, arrayVars, objectVars
  <2>2. SoundFor(p)'
    BY <1>1, <2>1, AnswersAreSound
  <2> QED
    BY <2>2 DEF HeapIsSound
<1> QED
  BY <1>2, <1>3

LEMMA SoundHeapsHold == HeapIsSound => ArraysHoldTheirComponents
<1> SUFFICES ASSUME HeapIsSound
             PROVE  ArraysHoldTheirComponents
  OBVIOUS
<1>1. PICK p \in Programs : SoundFor(p)
  BY DEF HeapIsSound
<1> PICK fs : fs = p.files
  OBVIOUS
<1>2. files = fs /\ Heap(fs, heap)
  BY <1>1 DEF SoundFor, AllLoaded
<1>3. ASSUME NEW o \in DOMAIN heap, IsArray(o), ~IsPrimitiveArray(o), NEW i \in DOMAIN heap[o].elements
      PROVE  JavaMayHold(o, heap[o].elements[i].value)
  <2>1. OfReferences(heap[o])
    BY <1>3 DEF OfReferences, IsArray, IsPrimitiveArray
  <2>2. Fits(fs, heap, heap[o].type, heap[o].elements[i])
    BY <1>2, <2>1 DEF Heap
  <2> QED
    BY <1>2, <2>2 DEF Fits, JavaMayHold, J!Subtype, ObjectType
<1> QED
  BY <1>3 DEF ArraysHoldTheirComponents

\* Whatever threads ask of arrays and of Unsafe, on any heap of any class files, an array of
\* references holds nothing but null and objects of its component type: the checks of
\* aastore (array.rs) and of arraycopy.rs, on values read while other threads write, are
\* enough; and what Unsafe writes (jdk_internal.rs) fits where it was asked to.
THEOREM ArraysHoldComponents == Spec => []ArraysHoldTheirComponents
<1>1. Spec => []HeapIsSound
  BY SoundAtFirst, SoundAlways, PTL DEF Spec
<1> QED
  BY <1>1, SoundHeapsHold, PTL
=============================================================================
