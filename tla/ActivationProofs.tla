-------------------------- MODULE ActivationProofs --------------------------
(***************************************************************************)
(* Theorems about Activation: the interpreter keeps in step with the frame *)
(* of the Java Virtual Machine Specification, for any widths of the        *)
(* numbers, any sizes of the frame and any methods.                        *)
(***************************************************************************)
EXTENDS ActivationLemmas

-----------------------------------------------------------------------------
(* The inductive invariant. *)

\* The frame of the specification is one that the verifier can have let come up.
Verified(j) ==
    /\ j = [stack |-> j.stack, locals |-> j.locals, pc |-> j.pc, outcome |-> Running]
    /\ j.stack \in Seq(JavaValues) /\ Java!SlotsOf(Java!Kinds(j.stack)) <= MaxStack
    /\ j.locals \in [Locals -> Slots]
    /\ j.pc \in 0 .. 3

\* The frame of the program has the same values, slot by slot.
Agrees(f, j) ==
    /\ f = At(Expanded(j.stack), f.locals, <<>>)
    /\ f.locals \in [Locals -> Slots]
    /\ \A i \in Locals : j.locals[i] # Java!Unusable => f.locals[i] = j.locals[i]

InStep ==
    /\ method \in Methods
    /\ outcome = Running => Verified(java) /\ Agrees(frame, java) /\ pc = java.pc
    /\ outcome # Running => Refused \/ outcome = java.outcome

-----------------------------------------------------------------------------
(* The operands of an instruction, and what is below them.                 *)

LEMMA CutInTwo ==
  ASSUME NEW s \in Seq(JavaValues), NEW n \in Nat, n <= Len(s)
  PROVE  /\ Java!Below(s, n) \in Seq(JavaValues) /\ Java!TopOf(s, n) \in Seq(JavaValues)
         /\ s = Java!Below(s, n) \o Java!TopOf(s, n)
         /\ Len(Java!TopOf(s, n)) = n /\ Len(Java!Below(s, n)) = Len(s) - n
<1> DEFINE L == Len(s)
           a == Java!Below(s, n)
           b == Java!TopOf(s, n)
<1>1. L \in Nat /\ L - n \in Nat /\ \A i \in 1 .. L : s[i] \in JavaValues
  BY LenProperties, ElementOfSeq
<1>2. a = SubSeq(s, 1, L - n) /\ b = SubSeq(s, L - n + 1, L)
  BY DEF Java!Below, Java!TopOf
<1> HIDE DEF a, b
<1>3. a \in Seq(JavaValues) /\ Len(a) = L - n /\ \A i \in 1 .. (L - n) : a[i] = s[i]
  <2>1. \A i \in 1 .. (L - n) : s[i] \in JavaValues
    BY <1>1
  <2>2. Len(SubSeq(s, 1, L - n)) = IF 1 <= L - n THEN (L - n) - 1 + 1 ELSE 0
    BY <1>1, <2>1, SubSeqProperties
  <2>3. SubSeq(s, 1, L - n) \in Seq(JavaValues)
    BY <1>1, <2>1, SubSeqProperties
  <2>4. \A i \in 1 .. ((L - n) - 1 + 1) : SubSeq(s, 1, L - n)[i] = s[1 + i - 1]
    BY <1>1, <2>1, SubSeqProperties
  <2>5. Len(SubSeq(s, 1, L - n)) = L - n
    BY <1>1, <2>2
  <2>6. \A i \in 1 .. (L - n) : i \in 1 .. ((L - n) - 1 + 1) /\ 1 + i - 1 = i
    BY <1>1
  <2>7. \A i \in 1 .. (L - n) : SubSeq(s, 1, L - n)[i] = s[i]
    BY <2>4, <2>6, Zenon
  <2> QED
    BY <1>2, <2>3, <2>5, <2>7, Zenon
<1>4. b \in Seq(JavaValues) /\ Len(b) = n /\ \A i \in 1 .. n : b[i] = s[(L - n) + i]
  <2> DEFINE m == L - n + 1
  <2>1. m \in Int /\ L \in Int /\ \A i \in m .. L : s[i] \in JavaValues
    BY <1>1
  <2>2. Len(SubSeq(s, m, L)) = IF m <= L THEN L - m + 1 ELSE 0
    BY <2>1, SubSeqProperties
  <2>3. SubSeq(s, m, L) \in Seq(JavaValues)
    BY <2>1, SubSeqProperties
  <2>4. \A i \in 1 .. (L - m + 1) : SubSeq(s, m, L)[i] = s[m + i - 1]
    BY <2>1, SubSeqProperties
  <2> QED
    BY <1>1, <1>2, <2>2, <2>3, <2>4
<1>5. a \o b \in Seq(JavaValues) /\ Len(a \o b) = L /\ \A i \in 1 .. L : (a \o b)[i] = s[i]
  <2>1. Len(a \o b) = L /\ a \o b \in Seq(JavaValues)
        /\ \A i \in 1 .. L : (a \o b)[i] = IF i <= L - n THEN a[i] ELSE b[i - (L - n)]
    BY <1>1, <1>3, <1>4, ConcatProperties
  <2>2. \A i \in 1 .. L : IF i <= L - n THEN i \in 1 .. (L - n) ELSE i - (L - n) \in 1 .. n /\ (L - n) + (i - (L - n)) = i
    BY <1>1
  <2>3. ASSUME NEW i \in 1 .. L
        PROVE  (a \o b)[i] = s[i]
    <3>1. CASE i <= L - n
      <4>1. i \in 1 .. (L - n) /\ (a \o b)[i] = a[i]
        BY <2>1, <2>2, <3>1, Zenon
      <4> QED
        BY <1>3, <4>1, Zenon
    <3>2. CASE ~(i <= L - n)
      <4>1. i - (L - n) \in 1 .. n /\ (L - n) + (i - (L - n)) = i /\ (a \o b)[i] = b[i - (L - n)]
        BY <2>1, <2>2, <3>2, Zenon
      <4>2. b[i - (L - n)] = s[(L - n) + (i - (L - n))]
        BY <1>4, <4>1, Zenon
      <4> QED
        BY <4>1, <4>2, Zenon
    <3> QED
      BY <3>1, <3>2
  <2> QED
    BY <2>1, <2>3, Zenon
<1>6. s = a \o b
  BY <1>5, SeqEqual
<1> QED
  BY <1>3, <1>4, <1>6 DEF a, b

BelowOf(op) == Java!Below(java.stack, Len(Java!Operands(op)))
TopsOf(op) == Java!TopOf(java.stack, Len(Java!Operands(op)))
Given(op) == ValuesOf(TopsOf(op))

LEMMA OperandsArePopped ==
  ASSUME NEW op, Verified(java), Agrees(frame, java), Java!Admits(op, java), op.code \notin Java!StackCodes,
         Len(Java!Operands(op)) \in Nat
  PROVE  /\ BelowOf(op) \in Seq(JavaValues) /\ TopsOf(op) \in Seq(JavaValues) /\ java.stack = BelowOf(op) \o TopsOf(op)
         /\ Len(TopsOf(op)) = Len(Java!Operands(op)) /\ Java!Kinds(TopsOf(op)) = Java!Operands(op)
         /\ frame = At(Expanded(BelowOf(op) \o TopsOf(op)), frame.locals, <<>>)
         /\ PopAll(frame, Java!Operands(op)) = At(Expanded(BelowOf(op)), frame.locals, Given(op))
<1>1. Len(Java!Operands(op)) <= Len(java.stack) /\ Java!Kinds(TopsOf(op)) = Java!Operands(op)
  BY Zenon DEF Java!Admits, TopsOf
<1>2. java.stack \in Seq(JavaValues)
  BY DEF Verified
<1>3. /\ BelowOf(op) \in Seq(JavaValues) /\ TopsOf(op) \in Seq(JavaValues) /\ java.stack = BelowOf(op) \o TopsOf(op)
      /\ Len(TopsOf(op)) = Len(Java!Operands(op))
  BY <1>1, <1>2, CutInTwo DEF BelowOf, TopsOf
<1>4. frame = At(Expanded(BelowOf(op) \o TopsOf(op)), frame.locals, <<>>)
  BY <1>3 DEF Agrees
<1>5. PopAll(At(Expanded(BelowOf(op) \o TopsOf(op)), frame.locals, <<>>), Java!Kinds(TopsOf(op)))
        = At(Expanded(BelowOf(op)), frame.locals, Given(op))
  BY <1>3, PopsOperands DEF Given
<1> QED
  BY <1>1, <1>3, <1>4, <1>5, Zenon

LEMMA SlotsAtLeastValues ==
  ASSUME NEW s \in Seq(JavaValues)
  PROVE  Len(s) <= Len(Expanded(s))
<1>1. PICK f : Expansion(f, s) /\ Expanded(s) = f[Len(s)]
  BY ExpandedUnfolds
<1> DEFINE T == {n \in 0 .. Len(s) : n <= Len(f[n])}
<1>2. Len(s) \in Nat /\ \A i \in 1 .. Len(s) : s[i] \in JavaValues
  BY LenProperties, ElementOfSeq
<1>3. 0 \in T
  BY <1>1, <1>2, EmptySeq DEF Expansion
<1>4. ASSUME NEW n \in T, n < Len(s)
      PROVE  n + 1 \in T
  <2>1. n \in 0 .. Len(s) /\ n + 1 \in 1 .. Len(s) /\ (n + 1) - 1 = n
    BY <1>2, <1>4
  <2>2. f[n + 1] = f[n] \o SlotsFor(s[n + 1]) /\ f[n] \in Seq(Slots)
    BY <1>1, <2>1 DEF Expansion
  <2>3. SlotsFor(s[n + 1]) \in Seq(Slots) /\ Len(SlotsFor(s[n + 1])) \in {1, 2}
    BY <1>2, <2>1, ValueFacts
  <2>4. Len(f[n + 1]) = Len(f[n]) + Len(SlotsFor(s[n + 1])) /\ Len(f[n]) \in Nat
    BY <2>2, <2>3, ConcatProperties, LenProperties
  <2>5. n <= Len(f[n])
    OBVIOUS
  <2> DEFINE x == Len(f[n])
             y == Len(SlotsFor(s[n + 1]))
             z == Len(f[n + 1])
  <2>6. z = x + y /\ x \in Nat /\ y \in {1, 2} /\ n <= x /\ n \in Nat
    BY <1>2, <2>1, <2>3, <2>4, <2>5
  <2> HIDE DEF x, y, z
  <2>7. n + 1 <= z
    BY <2>6
  <2>8. n + 1 \in 0 .. Len(s)
    BY <1>2, <2>1
  <2> QED
    BY <2>7, <2>8 DEF z
<1>5. \A n \in 0 .. Len(s) : n \in T
  <2> HIDE DEF T
  <2> QED
    BY <1>2, <1>3, <1>4, InductionUpTo
<1> QED
  BY <1>1, <1>2, <1>5

\* A stack that has got shorter still fits: at most one value is pushed, and if it
\* needs two slots at least two values were popped.
LEMMA ShorterFits ==
  ASSUME NEW a \in Seq(JavaValues), NEW b \in Seq(JavaValues), NEW w \in JavaValues,
         Len(a \o <<w>>) < Len(a \o b)
  PROVE  Len(Expanded(a \o <<w>>)) <= Len(Expanded(a \o b))
<1>1. <<w>> \in Seq(JavaValues) /\ Len(<<w>>) = 1
  OBVIOUS
<1>2. Len(b) >= 2
  <2>1. Len(a \o <<w>>) = Len(a) + 1 /\ Len(a \o b) = Len(a) + Len(b) /\ Len(a) \in Nat /\ Len(b) \in Nat
    BY <1>1, ConcatProperties, LenProperties
  <2> QED
    BY <2>1
<1>3. Len(b) <= Len(Expanded(b)) /\ Len(b) \in Nat
  BY SlotsAtLeastValues, LenProperties
<1>4. Expanded(a) \in Seq(Slots) /\ Expanded(b) \in Seq(Slots) /\ SlotsFor(w) \in Seq(Slots) /\ Len(SlotsFor(w)) \in {1, 2}
  BY ExpandedType, ValueFacts
<1>5. Expanded(a \o <<w>>) = Expanded(a) \o SlotsFor(w) /\ Expanded(a \o b) = Expanded(a) \o Expanded(b)
  <2> DEFINE c == <<w>>
  <2>1. c \in Seq(JavaValues) /\ Expanded(c) = SlotsFor(w)
    BY <1>1, ExpandedOfOne
  <2> HIDE DEF c
  <2>2. Expanded(a \o c) = Expanded(a) \o Expanded(c) /\ Expanded(a \o b) = Expanded(a) \o Expanded(b)
    BY <2>1, ExpandedOfConcat, Zenon
  <2> QED
    BY <2>1, <2>2, Zenon DEF c
<1>6. Len(Expanded(a) \o SlotsFor(w)) = Len(Expanded(a)) + Len(SlotsFor(w))
      /\ Len(Expanded(a) \o Expanded(b)) = Len(Expanded(a)) + Len(Expanded(b))
      /\ Len(Expanded(a)) \in Nat /\ Len(Expanded(b)) \in Nat
  BY <1>4, ConcatProperties, LenProperties
<1> DEFINE x == Len(Expanded(a))
           y == Len(Expanded(b))
           z == Len(SlotsFor(w))
           l == Len(b)
<1>7. x \in Nat /\ y \in Nat /\ z \in {1, 2} /\ l >= 2 /\ l <= y /\ l \in Nat
  BY <1>2, <1>3, <1>4, <1>6
<1>8. Len(Expanded(a \o <<w>>)) = x + z /\ Len(Expanded(a \o b)) = x + y
  BY <1>5, <1>6
<1> HIDE DEF x, y, z, l
<1>9. x + z <= x + y
  BY <1>7
<1> QED
  BY <1>8, <1>9

LEMMA BelowFits ==
  ASSUME NEW a \in Seq(JavaValues), NEW b \in Seq(JavaValues)
  PROVE  Len(Expanded(a)) <= Len(Expanded(a \o b))
<1>1. Expanded(a) \in Seq(Slots) /\ Expanded(b) \in Seq(Slots) /\ Expanded(a \o b) = Expanded(a) \o Expanded(b)
  BY ExpandedType, ExpandedOfConcat
<1>2. Len(Expanded(a) \o Expanded(b)) = Len(Expanded(a)) + Len(Expanded(b))
      /\ Len(Expanded(a)) \in Nat /\ Len(Expanded(b)) \in Nat
  BY <1>1, ConcatProperties, LenProperties
<1> QED
  BY <1>1, <1>2

\* The frame of the specification while the activation runs.
JavaAt(s, locals, address) == [stack |-> s, locals |-> locals, pc |-> address, outcome |-> Running]

LEMMA PushedFits ==
  ASSUME NEW op, NEW below, NEW top, NEW w \in JavaValues, NEW locals, NEW address,
         method \in Methods, Verified(java), java.stack = below \o top,
         below \in Seq(JavaValues), top \in Seq(JavaValues),
         java' = JavaAt(below \o <<w>>, locals, address), WithinWindow(op), op.code \notin Java!StackCodes
  PROVE  Len(Expanded(below \o <<w>>)) <= MaxStack
<1> DEFINE r == below \o <<w>>
<1>1. <<w>> \in Seq(JavaValues) /\ r \in Seq(JavaValues)
  BY ConcatProperties
<1>2. java'.stack = r
  BY DEF JavaAt
<1> HIDE DEF r
<1>3. Java!SlotsOf(Java!Kinds(r)) <= method.window \/ Len(r) < Len(java.stack)
  BY <1>2 DEF WithinWindow
<1>4. Java!SlotsOf(Java!Kinds(r)) = Len(Expanded(r)) /\ Len(Expanded(r)) \in Nat
  BY <1>1, SlotsAreCounted
<1>5. CASE Java!SlotsOf(Java!Kinds(r)) <= method.window
  <2>1. method.window \in 0 .. MaxStack /\ MaxStack \in Nat
    BY MethodsAssumption, FramesAssumption
  <2> QED
    BY <1>4, <1>5, <2>1 DEF r
<1>6. CASE Len(r) < Len(java.stack)
  <2>1. Len(Expanded(r)) <= Len(Expanded(java.stack))
    BY <1>6, ShorterFits DEF r
  <2>2. java.stack \in Seq(JavaValues) /\ Java!SlotsOf(Java!Kinds(java.stack)) <= MaxStack
    BY DEF Verified
  <2>3. Len(Expanded(java.stack)) <= MaxStack /\ Len(Expanded(java.stack)) \in Nat /\ MaxStack \in Nat
    BY <2>2, SlotsAreCounted, FramesAssumption
  <2> QED
    BY <1>4, <2>1, <2>3 DEF r
<1> QED
  BY <1>3, <1>5, <1>6

-----------------------------------------------------------------------------
(* How an instruction ends: the activation goes on, or it is over.         *)

SameLocals(L, JL) ==
    /\ L \in [Locals -> Slots] /\ JL \in [Locals -> Slots]
    /\ \A i \in Locals : JL[i] # Java!Unusable => L[i] = JL[i]

LEMMA GoesOn ==
  ASSUME NEW r \in Seq(JavaValues), NEW L, NEW JL, NEW g, NEW target \in Int,
         method \in Methods, method' = method, outcome = Running, SameLocals(L, JL), Len(Expanded(r)) <= MaxStack,
         java' = JavaAt(r, JL, target % 4), Proceed(At(Expanded(r), L, g), target)
  PROVE  InStep'
<1> DEFINE f == At(Expanded(r), L, g)
<1>1. f.ok = TRUE /\ WithGot(f, <<>>) = At(Expanded(r), L, <<>>)
  <2>1. f.ok = TRUE
    BY DEF At
  <2> QED
    BY <2>1, FrameWithGot
<1> HIDE DEF f
<1>2. frame' = WithGot(f, <<>>) /\ pc' = target % 4 /\ outcome' = outcome
  BY <1>1 DEF Proceed, WithGot, f
<1>3. frame' = At(Expanded(r), L, <<>>) /\ pc' = target % 4 /\ outcome' = Running /\ target % 4 \in 0 .. 3
  BY <1>1, <1>2
<1>4. Java!SlotsOf(Java!Kinds(r)) <= MaxStack
  BY SlotsAreCounted
<1>5. Verified(java')
  <2>1. java'.stack = r /\ java'.locals = JL /\ java'.pc = target % 4 /\ java' = JavaAt(r, JL, target % 4)
    BY DEF JavaAt
  <2> QED
    BY <1>3, <1>4, <2>1 DEF Verified, JavaAt, SameLocals
<1>6. Agrees(frame', java')
  <2>1. java'.stack = r /\ java'.locals = JL
    BY DEF JavaAt
  <2>2. frame'.locals = L
    BY <1>3 DEF At
  <2> QED
    BY <1>3, <2>1, <2>2 DEF Agrees, SameLocals
<1>7. java'.pc = target % 4
  BY DEF JavaAt
<1>8. method' \in Methods
  OBVIOUS
<1> QED
  BY <1>3, <1>5, <1>6, <1>7, <1>8 DEF InStep

LEMMA GoesOnPushing ==
  ASSUME NEW op, NEW below \in Seq(JavaValues), NEW top \in Seq(JavaValues), NEW w \in JavaValues,
         NEW L, NEW JL, NEW g, NEW target \in Int,
         method \in Methods, method' = method, outcome = Running, Verified(java), SameLocals(L, JL),
         java.stack = below \o top, WithinWindow(op), op.code \notin Java!StackCodes,
         java' = JavaAt(below \o <<w>>, JL, target % 4),
         Proceed(Push(At(Expanded(below), L, g), w.kind, w.value), target)
  PROVE  InStep'
<1>1. Len(Expanded(below \o <<w>>)) <= MaxStack
  <2> DEFINE address == target % 4
  <2>1. java' = JavaAt(below \o <<w>>, JL, address)
    OBVIOUS
  <2> HIDE DEF address
  <2> QED
    BY <2>1, PushedFits
<1>2. below \o <<w>> = Append(below, w) /\ below \o <<w>> \in Seq(JavaValues)
  BY AppendIsConcat, AppendProperties
<1>3. Push(At(Expanded(below), L, g), w.kind, w.value) = At(Expanded(below \o <<w>>), L, g)
  <2>1. Len(Expanded(Append(below, w))) <= MaxStack
    BY <1>1, <1>2
  <2>2. Push(At(Expanded(below), L, g), w.kind, w.value) = At(Expanded(Append(below, w)), L, g)
    BY <2>1, PushesValue
  <2> QED
    BY <1>2, <2>2
<1> DEFINE r == below \o <<w>>
<1>4. /\ r \in Seq(JavaValues) /\ Len(Expanded(r)) <= MaxStack
      /\ java' = JavaAt(r, JL, target % 4) /\ Proceed(At(Expanded(r), L, g), target)
  BY <1>1, <1>2, <1>3
<1> HIDE DEF r
<1> QED
  BY <1>4, GoesOn

\* What is left below the operands fits.
LEMMA GoesOnBelow ==
  ASSUME NEW below \in Seq(JavaValues), NEW top \in Seq(JavaValues), NEW L, NEW JL, NEW g, NEW target \in Int,
         method \in Methods, method' = method, outcome = Running, Verified(java), SameLocals(L, JL),
         java.stack = below \o top, java' = JavaAt(below, JL, target % 4),
         Proceed(At(Expanded(below), L, g), target)
  PROVE  InStep'
<1>1. java.stack \in Seq(JavaValues) /\ Java!SlotsOf(Java!Kinds(java.stack)) <= MaxStack
  BY DEF Verified
<1>2. Len(Expanded(java.stack)) <= MaxStack /\ Len(Expanded(java.stack)) \in Nat
  BY <1>1, SlotsAreCounted
<1>3. Len(Expanded(below)) <= Len(Expanded(java.stack)) /\ Len(Expanded(below)) \in Nat
  BY BelowFits, SlotsAreCounted
<1>4. Len(Expanded(below)) <= MaxStack
  BY <1>2, <1>3, FramesAssumption
<1> QED
  BY <1>4, GoesOn

LEMMA EndsTogether ==
  ASSUME NEW how, NEW kind, NEW value, method \in Methods, method' = method, how # "running",
         End(how, kind, value), java' = Java!Ended(how, kind, value)
  PROVE  InStep'
<1>1. outcome' = [how |-> how, kind |-> kind, value |-> value] /\ outcome' # Running
  BY DEF End, Running
<1>2. java'.outcome = [how |-> how, kind |-> kind, value |-> value]
  BY DEF Java!Ended
<1> QED
  BY <1>1, <1>2 DEF InStep

LEMMA GivesUp ==
  ASSUME NEW how \in {"UnsupportedOpcode", "BadConstant"}, NEW kind, NEW value, method \in Methods, method' = method,
         End(how, kind, value)
  PROVE  InStep'
<1>1. outcome' = [how |-> how, kind |-> kind, value |-> value] /\ outcome' # Running
  BY DEF End, Running
<1> QED
  BY <1>1 DEF InStep, Refused

\* An exception that has no handler here ends both; one that has leaves only itself on
\* the stack.
LEMMA ThrowsTogether ==
  ASSUME NEW op, NEW exc \in References, NEW below \in Seq(JavaValues), NEW top \in Seq(JavaValues), NEW L, NEW JL, NEW g,
         method \in Methods, method' = method, outcome = Running, Verified(java), SameLocals(L, JL),
         java.stack = below \o top, WithinWindow(op), op.code \notin Java!StackCodes, op.handler = 0,
         java' = IF op.caught THEN JavaAt(<<Java!Value("Ref", exc)>>, JL, op.handler % 4)
                 ELSE Java!Ended("thrown", "Ref", exc),
         ThrowIt(At(Expanded(below), L, g), exc, op)
  PROVE  InStep'
<1> DEFINE f == At(Expanded(below), L, g)
           w == Slot("Ref", exc)
<1>1. f.ok = TRUE /\ Cleared(f) = At(<<>>, L, g)
  <2>1. f.ok = TRUE
    BY DEF At
  <2>2. WithStack(f, <<>>) = At(<<>>, L, g)
    BY FrameWithStack
  <2> QED
    BY <2>1, <2>2 DEF Cleared, WithStack
<1>2. w \in JavaValues /\ Java!Value("Ref", exc) = w /\ w.kind = "Ref" /\ w.value = exc
  BY ValueIs DEF Five
<1> HIDE DEF f
<1>3. CASE op.caught
  <2> DEFINE none == <<>>
             stack == java.stack
             target == 0
  <2>1. java' = JavaAt(<<w>>, JL, 0 % 4)
    BY <1>2, <1>3
  <2>2. Proceed(Push(At(<<>>, L, g), w.kind, w.value), 0)
    BY <1>1, <1>2, <1>3 DEF ThrowIt, f
  <2>3. none \in Seq(JavaValues) /\ none \o <<w>> = <<w>> /\ stack \in Seq(JavaValues) /\ stack = none \o stack
        /\ Expanded(none) = <<>>
    BY <1>2, ExpandedOfNothing, ConcatEmptySeq, EmptySeq DEF Verified
  <2>4. /\ java' = JavaAt(none \o <<w>>, JL, target % 4) /\ target \in Int
        /\ Proceed(Push(At(Expanded(none), L, g), w.kind, w.value), target)
        /\ java.stack = none \o stack
    BY <2>1, <2>2, <2>3
  <2> HIDE DEF none, stack, w, target
  <2> QED
    BY <1>2, <2>3, <2>4, GoesOnPushing
<1>4. CASE ~op.caught
  <2>1. End("thrown", "Ref", exc)
    BY <1>1, <1>4 DEF ThrowIt, f
  <2> QED
    BY <1>4, <2>1, EndsTogether
<1> QED
  BY <1>3, <1>4

-----------------------------------------------------------------------------
(* What the specification does, by the way an instruction ends.            *)

WithStackAndPc(j, stack, address) == [j EXCEPT !.stack = stack, !.pc = address]
WithAll(j, stack, locals, address) == [j EXCEPT !.stack = stack, !.locals = locals, !.pc = address]

LEMMA JavaWith ==
  ASSUME NEW j, Verified(j), NEW s, NEW JL, NEW address
  PROVE  /\ WithStackAndPc(j, s, address) = JavaAt(s, j.locals, address)
         /\ WithAll(j, s, JL, address) = JavaAt(s, JL, address)
<1>1. j = [stack |-> j.stack, locals |-> j.locals, pc |-> j.pc, outcome |-> Running]
  BY DEF Verified
<1> DEFINE a == j.stack
           b == j.locals
           c == j.pc
           d == Running
<1>2. j = [stack |-> a, locals |-> b, pc |-> c, outcome |-> d]
  BY <1>1
<1> HIDE DEF a, b, c, d
<1>3. [[stack |-> a, locals |-> b, pc |-> c, outcome |-> d] EXCEPT !.stack = s] = [stack |-> s, locals |-> b, pc |-> c, outcome |-> d]
  OBVIOUS
<1>4. [[stack |-> s, locals |-> b, pc |-> c, outcome |-> d] EXCEPT !.pc = address] = [stack |-> s, locals |-> b, pc |-> address, outcome |-> d]
  OBVIOUS
<1>5. [[stack |-> s, locals |-> b, pc |-> c, outcome |-> d] EXCEPT !.locals = JL] = [stack |-> s, locals |-> JL, pc |-> c, outcome |-> d]
  OBVIOUS
<1>6. [[stack |-> s, locals |-> JL, pc |-> c, outcome |-> d] EXCEPT !.pc = address] = [stack |-> s, locals |-> JL, pc |-> address, outcome |-> d]
  OBVIOUS
<1>7. WithStackAndPc(j, s, address) = [[j EXCEPT !.stack = s] EXCEPT !.pc = address]
  BY Zenon DEF WithStackAndPc
<1>8. WithAll(j, s, JL, address) = [[[j EXCEPT !.stack = s] EXCEPT !.locals = JL] EXCEPT !.pc = address]
  BY Zenon DEF WithAll
<1>9. WithStackAndPc(j, s, address) = [stack |-> s, locals |-> b, pc |-> address, outcome |-> d]
  BY <1>2, <1>3, <1>4, <1>7, Zenon
<1>10. WithAll(j, s, JL, address) = [stack |-> s, locals |-> JL, pc |-> address, outcome |-> d]
  BY <1>2, <1>3, <1>5, <1>6, <1>8, Zenon
<1> QED
  BY <1>9, <1>10, Zenon DEF JavaAt, b, d

Continued(op) == Java!Continues(op, java, Given(op)) % 4

LEMMA GivenAre ==
  ASSUME NEW op, TopsOf(op) \in Seq(JavaValues)
  PROVE  [i \in DOMAIN TopsOf(op) |-> TopsOf(op)[i].value] = Given(op)
<1>1. DOMAIN TopsOf(op) = 1 .. Len(TopsOf(op))
  BY LenProperties
<1> QED
  BY <1>1 DEF Given, ValuesOf

LEMMA ExecMoves ==
  ASSUME NEW op, Verified(java), op.code \in Java!StackCodes
  PROVE  Java!Exec(op, java) = JavaAt(Java!Moved(op.code, java.stack), java.locals,
             Java!Continues(op, java, [i \in DOMAIN TopsOf(op) |-> TopsOf(op)[i].value]) % 4)
<1>1. Java!Exec(op, java) = WithStackAndPc(java, Java!Moved(op.code, java.stack),
             Java!Continues(op, java, [i \in DOMAIN TopsOf(op) |-> TopsOf(op)[i].value]) % 4)
  BY Zenon DEF Java!Exec, WithStackAndPc, TopsOf
<1> QED
  BY <1>1, JavaWith

LEMMA ExecReturns ==
  ASSUME NEW op, TopsOf(op) \in Seq(JavaValues), op.code \in {"xreturn", "return"}
  PROVE  Java!Exec(op, java) = Java!Ended("returned", op.type, IF op.code = "return" THEN 0 ELSE Given(op)[1])
<1>1. op.code \notin Java!StackCodes
  BY DEF Java!StackCodes
<1> DEFINE v == [i \in DOMAIN TopsOf(op) |-> TopsOf(op)[i].value]
<1>2. Java!Exec(op, java) = Java!Ended("returned", op.type, IF op.code = "return" THEN 0 ELSE v[1])
  BY <1>1, Zenon DEF Java!Exec, TopsOf
<1>3. v = Given(op)
  BY GivenAre
<1> QED
  BY <1>2, <1>3, Zenon

Ordinary(op) == op.code \notin Java!StackCodes /\ op.code \notin {"xreturn", "return"}
ExceptionOf(op) == IF op.code = "athrow" /\ Given(op)[1] # Null THEN Given(op)[1] ELSE NewThrown

LEMMA ExecThrows ==
  ASSUME NEW op, Verified(java), TopsOf(op) \in Seq(JavaValues), Ordinary(op), Java!Throws(op, Given(op))
  PROVE  Java!Exec(op, java) = IF op.caught THEN JavaAt(<<Java!Value("Ref", ExceptionOf(op))>>, java.locals, op.handler % 4)
                               ELSE Java!Ended("thrown", "Ref", ExceptionOf(op))
<1> DEFINE v == [i \in DOMAIN TopsOf(op) |-> TopsOf(op)[i].value]
           exc == IF op.code = "athrow" /\ v[1] # Null THEN v[1] ELSE NewThrown
<1>1. v = Given(op)
  BY GivenAre
<1>2. Java!Throws(op, v)
  BY <1>1, Zenon
<1>3. Java!Exec(op, java) = IF op.caught THEN WithStackAndPc(java, <<Java!Value("Ref", exc)>>, op.handler % 4)
                            ELSE Java!Ended("thrown", "Ref", exc)
  BY <1>2, Zenon DEF Java!Exec, TopsOf, Ordinary, WithStackAndPc
<1>4. exc = ExceptionOf(op)
  BY <1>1, Zenon DEF ExceptionOf
<1>5. WithStackAndPc(java, <<Java!Value("Ref", exc)>>, op.handler % 4) = JavaAt(<<Java!Value("Ref", exc)>>, java.locals, op.handler % 4)
  BY JavaWith
<1> HIDE DEF exc
<1>6. Java!Exec(op, java) = IF op.caught THEN JavaAt(<<Java!Value("Ref", exc)>>, java.locals, op.handler % 4)
                            ELSE Java!Ended("thrown", "Ref", exc)
  BY <1>3, <1>5
<1> QED
  BY <1>4, <1>6, Zenon

LEMMA ExecStores ==
  ASSUME NEW op, Verified(java), TopsOf(op) \in Seq(JavaValues), op.code \in {"store", "store_n"}, ~Java!Throws(op, Given(op))
  PROVE  Java!Exec(op, java) = JavaAt(BelowOf(op), Java!Stored(java.locals, op.index, op.type, Given(op)[1]), Continued(op))
<1> DEFINE v == [i \in DOMAIN TopsOf(op) |-> TopsOf(op)[i].value]
<1>1. v = Given(op)
  BY GivenAre
<1>2. ~Java!Throws(op, v) /\ Ordinary(op)
  BY <1>1, Zenon DEF Ordinary, Java!StackCodes
<1>3. Java!Exec(op, java) = WithAll(java, BelowOf(op), Java!Stored(java.locals, op.index, op.type, v[1]), Java!Continues(op, java, v) % 4)
  BY <1>2, Zenon DEF Java!Exec, TopsOf, BelowOf, Ordinary, WithAll
<1>4. Java!Exec(op, java) = WithAll(java, BelowOf(op), Java!Stored(java.locals, op.index, op.type, Given(op)[1]), Continued(op))
  BY <1>1, <1>3, Zenon DEF Continued
<1>5. WithAll(java, BelowOf(op), Java!Stored(java.locals, op.index, op.type, Given(op)[1]), Continued(op))
        = JavaAt(BelowOf(op), Java!Stored(java.locals, op.index, op.type, Given(op)[1]), Continued(op))
  BY JavaWith
<1> QED
  BY <1>4, <1>5, Zenon

LEMMA ExecPushes ==
  ASSUME NEW op, Verified(java), TopsOf(op) \in Seq(JavaValues), Ordinary(op), ~Java!Throws(op, Given(op)),
         op.code \notin {"store", "store_n", "iinc", "load", "load_n"}
  PROVE  Java!Exec(op, java) = JavaAt(BelowOf(op) \o Java!Pushed(op, Given(op)), java.locals, Continued(op))
<1> DEFINE v == [i \in DOMAIN TopsOf(op) |-> TopsOf(op)[i].value]
<1>1. v = Given(op)
  BY GivenAre
<1>2. ~Java!Throws(op, v) /\ op.code \notin {"store", "store_n"} /\ op.code # "iinc" /\ op.code \notin {"load", "load_n"}
  BY <1>1, Zenon
<1>3. Java!Exec(op, java) = WithStackAndPc(java, BelowOf(op) \o Java!Pushed(op, v), Java!Continues(op, java, v) % 4)
  BY <1>2, Zenon DEF Java!Exec, TopsOf, BelowOf, Ordinary, WithStackAndPc
<1>4. Java!Exec(op, java) = WithStackAndPc(java, BelowOf(op) \o Java!Pushed(op, Given(op)), Continued(op))
  BY <1>1, <1>3, Zenon DEF Continued
<1> QED
  BY <1>4, JavaWith, Zenon

-----------------------------------------------------------------------------
(* A step of both frames.                                                  *)

\* Both run, agree, and execute op.
Ready(op) ==
    /\ InStep /\ outcome = Running
    /\ Encoded(op) /\ Java!Admits(op, java)
    /\ java' = Java!Exec(op, java) /\ WithinWindow(op)
    /\ method' = method

LEMMA Agreement ==
  ASSUME NEW op, Ready(op)
  PROVE  /\ method \in Methods /\ method' = method /\ outcome = Running
         /\ Verified(java) /\ Agrees(frame, java) /\ pc = java.pc /\ pc \in 0 .. 3
         /\ SameLocals(frame.locals, java.locals) /\ WithinWindow(op) /\ Encoded(op)
         /\ java' = Java!Exec(op, java) /\ Java!Admits(op, java)
BY DEF Ready, InStep, Verified, Agrees, SameLocals

\* The operands of an instruction that is not one of the moves.
LEMMA Prepared ==
  ASSUME NEW op, Ready(op), op.code \notin Java!StackCodes, Len(Java!Operands(op)) \in Nat
  PROVE  /\ BelowOf(op) \in Seq(JavaValues) /\ TopsOf(op) \in Seq(JavaValues) /\ java.stack = BelowOf(op) \o TopsOf(op)
         /\ Len(TopsOf(op)) = Len(Java!Operands(op)) /\ Java!Kinds(TopsOf(op)) = Java!Operands(op)
         /\ frame = At(Expanded(BelowOf(op) \o TopsOf(op)), frame.locals, <<>>)
         /\ PopAll(frame, Java!Operands(op)) = At(Expanded(BelowOf(op)), frame.locals, Given(op))
BY Agreement, OperandsArePopped

\* The i-th operand is a value of the kind that the verifier saw.
LEMMA GivenTyped ==
  ASSUME NEW op, TopsOf(op) \in Seq(JavaValues), NEW i \in 1 .. Len(TopsOf(op))
  PROVE  /\ Slot(Java!Kinds(TopsOf(op))[i], Given(op)[i]) \in JavaValues
         /\ Java!Kinds(TopsOf(op))[i] = "Ref" => Given(op)[i] \in References
         /\ Java!Kinds(TopsOf(op))[i] # "Ref" => Given(op)[i] \in Values(Java!Kinds(TopsOf(op))[i])
<1> DEFINE w == TopsOf(op)[i]
<1>1. w \in JavaValues
  BY ElementOfSeq
<1>2. Given(op)[i] = w.value /\ Java!Kinds(TopsOf(op))[i] = w.kind
  BY KindsFacts DEF Given, ValuesOf
<1> HIDE DEF w
<1>3. /\ w = Slot(w.kind, w.value)
      /\ w.kind = "Ref" => w.value \in References
      /\ w.kind # "Ref" => w.value \in Values(w.kind)
  BY <1>1, ValueFacts
<1> QED
  BY <1>1, <1>2, <1>3

Plain(op) == Ordinary(op) /\ op.code \notin {"store", "store_n", "iinc", "load", "load_n"}

LEMMA Pushes ==
  ASSUME NEW op, Ready(op), Plain(op), Len(Java!Operands(op)) \in Nat, ~Java!Throws(op, Given(op)),
         NEW w \in JavaValues, Java!Pushed(op, Given(op)) = <<w>>,
         NEW g, NEW target \in Int, Java!Continues(op, java, Given(op)) = target,
         Proceed(Push(At(Expanded(BelowOf(op)), frame.locals, g), w.kind, w.value), target)
  PROVE  InStep'
<1>1. op.code \notin Java!StackCodes /\ Ordinary(op) /\ op.code \notin {"store", "store_n", "iinc", "load", "load_n"}
  BY DEF Plain, Ordinary
<1>2. /\ method \in Methods /\ method' = method /\ outcome = Running /\ Verified(java)
      /\ SameLocals(frame.locals, java.locals) /\ WithinWindow(op) /\ java' = Java!Exec(op, java)
  BY Agreement
<1>3. BelowOf(op) \in Seq(JavaValues) /\ TopsOf(op) \in Seq(JavaValues) /\ java.stack = BelowOf(op) \o TopsOf(op)
  BY <1>1, Prepared
<1>4. Java!Exec(op, java) = JavaAt(BelowOf(op) \o Java!Pushed(op, Given(op)), java.locals, Continued(op))
  BY <1>1, <1>2, <1>3, ExecPushes
<1>5. java' = JavaAt(BelowOf(op) \o <<w>>, java.locals, target % 4)
  BY <1>2, <1>4 DEF Continued
<1> DEFINE a == BelowOf(op)
           b == TopsOf(op)
           L == frame.locals
           JL == java.locals
<1>6. /\ a \in Seq(JavaValues) /\ b \in Seq(JavaValues) /\ java.stack = a \o b /\ SameLocals(L, JL)
      /\ java' = JavaAt(a \o <<w>>, JL, target % 4)
      /\ Proceed(Push(At(Expanded(a), L, g), w.kind, w.value), target)
  BY <1>2, <1>3, <1>5
<1> HIDE DEF a, b, L, JL
<1> QED
  BY <1>1, <1>2, <1>6, GoesOnPushing

LEMMA Leaves ==
  ASSUME NEW op, Ready(op), Plain(op), Len(Java!Operands(op)) \in Nat, ~Java!Throws(op, Given(op)),
         Java!Pushed(op, Given(op)) = <<>>,
         NEW g, NEW target \in Int, Java!Continues(op, java, Given(op)) = target,
         Proceed(At(Expanded(BelowOf(op)), frame.locals, g), target)
  PROVE  InStep'
<1>1. op.code \notin Java!StackCodes /\ Ordinary(op) /\ op.code \notin {"store", "store_n", "iinc", "load", "load_n"}
  BY DEF Plain, Ordinary
<1>2. /\ method \in Methods /\ method' = method /\ outcome = Running /\ Verified(java)
      /\ SameLocals(frame.locals, java.locals) /\ WithinWindow(op) /\ java' = Java!Exec(op, java)
  BY Agreement
<1>3. BelowOf(op) \in Seq(JavaValues) /\ TopsOf(op) \in Seq(JavaValues) /\ java.stack = BelowOf(op) \o TopsOf(op)
  BY <1>1, Prepared
<1>4. Java!Exec(op, java) = JavaAt(BelowOf(op) \o Java!Pushed(op, Given(op)), java.locals, Continued(op))
  BY <1>1, <1>2, <1>3, ExecPushes
<1>5. BelowOf(op) \o <<>> = BelowOf(op)
  BY <1>3, ConcatEmptySeq
<1>6. java' = JavaAt(BelowOf(op), java.locals, target % 4)
  BY <1>2, <1>4, <1>5 DEF Continued
<1> DEFINE a == BelowOf(op)
           b == TopsOf(op)
           L == frame.locals
           JL == java.locals
<1>7. /\ a \in Seq(JavaValues) /\ b \in Seq(JavaValues) /\ java.stack = a \o b /\ SameLocals(L, JL)
      /\ java' = JavaAt(a, JL, target % 4)
      /\ Proceed(At(Expanded(a), L, g), target)
  BY <1>2, <1>3, <1>6
<1> HIDE DEF a, b, L, JL
<1> QED
  BY <1>1, <1>2, <1>7, GoesOnBelow

\* The frame of the program may still have something of the operands when it throws.
LEMMA ThrowsHere ==
  ASSUME NEW op, Ready(op), Ordinary(op), Len(Java!Operands(op)) \in Nat, Java!Throws(op, Given(op)),
         NEW below \in Seq(JavaValues), NEW top \in Seq(JavaValues), java.stack = below \o top,
         NEW g, NEW exc \in References, exc = ExceptionOf(op),
         ThrowIt(At(Expanded(below), frame.locals, g), exc, op)
  PROVE  InStep'
<1>1. op.code \notin Java!StackCodes
  BY DEF Ordinary
<1>2. /\ method \in Methods /\ method' = method /\ outcome = Running /\ Verified(java) /\ Encoded(op)
      /\ SameLocals(frame.locals, java.locals) /\ WithinWindow(op) /\ java' = Java!Exec(op, java)
  BY Agreement
<1>3. TopsOf(op) \in Seq(JavaValues)
  BY <1>1, Prepared
<1>4. java' = IF op.caught THEN JavaAt(<<Java!Value("Ref", exc)>>, java.locals, op.handler % 4)
              ELSE Java!Ended("thrown", "Ref", exc)
  BY <1>2, <1>3, ExecThrows
<1>5. op.handler = 0
  BY <1>2 DEF Encoded, AnswersEncoded
<1> DEFINE L == frame.locals
           JL == java.locals
<1>6. /\ SameLocals(L, JL) /\ ThrowIt(At(Expanded(below), L, g), exc, op)
      /\ java' = IF op.caught THEN JavaAt(<<Java!Value("Ref", exc)>>, JL, op.handler % 4)
                 ELSE Java!Ended("thrown", "Ref", exc)
  BY <1>2, <1>4
<1> HIDE DEF L, JL
<1> QED
  BY <1>1, <1>2, <1>5, <1>6, ThrowsTogether

LEMMA NoOperands ==
  ASSUME NEW op, Ready(op), op.code \notin Java!StackCodes, Java!Operands(op) = <<>>
  PROVE  Len(Java!Operands(op)) \in Nat /\ frame = At(Expanded(BelowOf(op)), frame.locals, <<>>)
         /\ BelowOf(op) \in Seq(JavaValues) /\ java.stack = BelowOf(op) /\ TopsOf(op) \in Seq(JavaValues)
<1>1. Len(Java!Operands(op)) \in Nat /\ Len(Java!Operands(op)) = 0
  OBVIOUS
<1>2. TopsOf(op) = <<>> /\ BelowOf(op) \in Seq(JavaValues) /\ TopsOf(op) \in Seq(JavaValues)
  <2>1. Len(TopsOf(op)) = 0 /\ BelowOf(op) \in Seq(JavaValues) /\ TopsOf(op) \in Seq(JavaValues)
    BY <1>1, Prepared
  <2> QED
    BY <2>1, EmptySeq
<1>3. frame = At(Expanded(BelowOf(op) \o TopsOf(op)), frame.locals, <<>>) /\ java.stack = BelowOf(op) \o TopsOf(op)
  BY <1>1, Prepared
<1>4. BelowOf(op) \o <<>> = BelowOf(op)
  BY <1>2, ConcatEmptySeq
<1> QED
  BY <1>1, <1>2, <1>3, <1>4, Zenon

LEMMA OneOperand ==
  ASSUME NEW op, Ready(op), op.code \notin Java!StackCodes, NEW k \in Five, Java!Operands(op) = <<k>>
  PROVE  /\ Len(Java!Operands(op)) \in Nat
         /\ Pop(frame, k) = At(Expanded(BelowOf(op)), frame.locals, Given(op))
         /\ PopAll(frame, <<k>>) = At(Expanded(BelowOf(op)), frame.locals, Given(op))
         /\ Pop(frame, k).ok = TRUE /\ Pop(frame, k).got = Given(op)
         /\ PopAll(frame, <<k>>).ok = TRUE /\ PopAll(frame, <<k>>).got = Given(op)
         /\ Slot(k, Given(op)[1]) \in JavaValues
         /\ k = "Ref" => Given(op)[1] \in References
         /\ k # "Ref" => Given(op)[1] \in Values(k)
         /\ BelowOf(op) \in Seq(JavaValues)
<1>1. Len(Java!Operands(op)) \in Nat /\ Len(Java!Operands(op)) = 1 /\ <<k>>[1] = k
  OBVIOUS
<1>2. /\ BelowOf(op) \in Seq(JavaValues) /\ TopsOf(op) \in Seq(JavaValues) /\ Len(TopsOf(op)) = 1 /\ Java!Kinds(TopsOf(op)) = <<k>>
      /\ frame = At(Expanded(BelowOf(op) \o TopsOf(op)), frame.locals, <<>>)
      /\ PopAll(frame, <<k>>) = At(Expanded(BelowOf(op)), frame.locals, Given(op))
  BY <1>1, Prepared
<1> DEFINE w == TopsOf(op)[1]
           a == BelowOf(op)
           b == TopsOf(op)
<1>3. w \in JavaValues /\ w.kind = k /\ TopsOf(op) = <<w>>
  <2>1. w \in JavaValues
    <3>1. 1 \in 1 .. Len(TopsOf(op)) /\ TopsOf(op) \in Seq(JavaValues)
      BY <1>2
    <3> QED
      BY <3>1, ElementOfSeq
  <2>2. Java!Kinds(TopsOf(op))[1] = w.kind
    BY <1>2, KindsFacts
  <2>3. b = <<b[1]>>
    BY <1>2
  <2> QED
    BY <1>1, <1>2, <2>1, <2>2, <2>3
<1>4. Given(op) = <<w.value>> /\ Given(op)[1] = w.value
  <2>1. Given(op) = [i \in 1 .. 1 |-> TopsOf(op)[i].value]
    BY <1>2 DEF Given, ValuesOf
  <2> QED
    BY <2>1
<1>5. Pop(frame, k) = At(Expanded(BelowOf(op)), frame.locals, Given(op))
  <2> HIDE DEF w
  <2>1. a \in Seq(JavaValues) /\ a \o <<w>> = Append(a, w)
    BY <1>2, <1>3, AppendIsConcat
  <2> DEFINE L == frame.locals
             none == <<>>
  <2>2. frame = At(Expanded(Append(a, w)), L, none)
    BY <1>2, <1>3, <2>1
  <2>3. <<w.value>> \o none = <<w.value>>
    OBVIOUS
  <2> HIDE DEF a, L, none
  <2>4. Pop(At(Expanded(Append(a, w)), L, none), w.kind) = At(Expanded(a), L, <<w.value>> \o none)
    BY <1>3, <2>1, PopsValue
  <2> QED
    BY <1>3, <1>4, <2>2, <2>3, <2>4 DEF a, L
<1>6. /\ Slot(k, Given(op)[1]) \in JavaValues
      /\ k = "Ref" => Given(op)[1] \in References
      /\ k # "Ref" => Given(op)[1] \in Values(k)
  <2> HIDE DEF w
  <2> QED
    BY <1>3, <1>4, ValueFacts
<1>7. At(Expanded(BelowOf(op)), frame.locals, Given(op)).ok = TRUE /\ At(Expanded(BelowOf(op)), frame.locals, Given(op)).got = Given(op)
  BY DEF At
<1> QED
  BY <1>1, <1>2, <1>5, <1>6, <1>7

LEMMA TwoOperands ==
  ASSUME NEW op, Ready(op), op.code \notin Java!StackCodes, NEW k \in Five, NEW l \in Five, Java!Operands(op) = <<k, l>>
  PROVE  /\ Len(Java!Operands(op)) \in Nat
         /\ PopAll(frame, <<k, l>>) = At(Expanded(BelowOf(op)), frame.locals, Given(op))
         /\ PopAll(frame, <<k, l>>).ok = TRUE /\ PopAll(frame, <<k, l>>).got = Given(op)
         /\ Slot(k, Given(op)[1]) \in JavaValues /\ Slot(l, Given(op)[2]) \in JavaValues
         /\ k = "Ref" => Given(op)[1] \in References
         /\ k # "Ref" => Given(op)[1] \in Values(k)
         /\ l = "Ref" => Given(op)[2] \in References
         /\ l # "Ref" => Given(op)[2] \in Values(l)
         /\ BelowOf(op) \in Seq(JavaValues)
<1>1. Len(Java!Operands(op)) \in Nat /\ Len(Java!Operands(op)) = 2 /\ <<k, l>>[1] = k /\ <<k, l>>[2] = l
  OBVIOUS
<1>2. /\ BelowOf(op) \in Seq(JavaValues) /\ TopsOf(op) \in Seq(JavaValues) /\ Len(TopsOf(op)) = 2 /\ Java!Kinds(TopsOf(op)) = <<k, l>>
      /\ PopAll(frame, <<k, l>>) = At(Expanded(BelowOf(op)), frame.locals, Given(op))
  BY <1>1, Prepared
<1>3. 1 \in 1 .. Len(TopsOf(op)) /\ 2 \in 1 .. Len(TopsOf(op))
  BY <1>2
<1>4. /\ Slot(k, Given(op)[1]) \in JavaValues
      /\ k = "Ref" => Given(op)[1] \in References
      /\ k # "Ref" => Given(op)[1] \in Values(k)
  BY <1>1, <1>2, <1>3, GivenTyped
<1>5. /\ Slot(l, Given(op)[2]) \in JavaValues
      /\ l = "Ref" => Given(op)[2] \in References
      /\ l # "Ref" => Given(op)[2] \in Values(l)
  BY <1>1, <1>2, <1>3, GivenTyped
<1>6. At(Expanded(BelowOf(op)), frame.locals, Given(op)).ok = TRUE /\ At(Expanded(BelowOf(op)), frame.locals, Given(op)).got = Given(op)
  BY DEF At
<1> QED
  BY <1>1, <1>2, <1>4, <1>5, <1>6

\* Instructions that throw nothing, and those that do not branch.
LEMMA TwoNumbers ==
  ASSUME NEW op, Ready(op), op.code \notin Java!StackCodes, NEW k \in Five \ {"Ref"}, NEW l \in Five \ {"Ref"},
         Java!Operands(op) = <<k, l>>
  PROVE  /\ PopAll(frame, <<k, l>>) = At(Expanded(BelowOf(op)), frame.locals, Given(op))
         /\ PopAll(frame, <<k, l>>).ok = TRUE /\ PopAll(frame, <<k, l>>).got = Given(op)
         /\ Given(op)[1] \in Values(k) /\ Given(op)[2] \in Values(l)
<1>1. k \in Five /\ k # "Ref" /\ l \in Five /\ l # "Ref"
  OBVIOUS
<1> QED
  BY <1>1, TwoOperands, Zenon

LEMMA Calm ==
  ASSUME NEW op, Encoded(op), op.code \notin AnsweredCodes \cup {"checkcast", "athrow"}, NEW v,
         op.code \in {"div", "rem"} /\ op.type \in {"Int", "Long"} => v[2] # 0
  PROVE  ~Java!Throws(op, v)
<1>1. ~op.throws
  BY DEF Encoded, AnswersEncoded
<1>2. ~Java!NeedsObject(op)
  BY DEF Java!NeedsObject, AnsweredCodes, HeapCodes, InvokeCodes
<1> QED
  BY <1>1, <1>2 DEF Java!Throws

Jumps == {"goto", "goto_w", "if", "ifnull", "if_icmp", "if_acmp", "tableswitch", "lookupswitch"}

LEMMA Falls ==
  ASSUME NEW op, op.code \notin Jumps, NEW v, NEW n \in Nat, Java!Table!Length(op.code) = n, java.pc = pc, pc \in 0 .. 3
  PROVE  Java!Continues(op, java, v) = pc + n /\ pc + n \in Int
BY DEF Java!Continues, Jumps

\* What the specification pushes, code by code, when nothing answers.
LEMMA PushedConstants ==
  ASSUME NEW op, NEW v, op.result = "Void"
  PROVE  /\ op.code \in {"iconst", "bipush", "sipush"} => Java!Pushed(op, v) = <<Java!Value("Int", op.value)>>
         /\ op.code \in {"ldc", "ldc_w", "ldc2_w"} => Java!Pushed(op, v) = <<Java!Value(op.constant, op.value)>>
         /\ op.code = "lconst" => Java!Pushed(op, v) = <<Java!Value("Long", op.value)>>
         /\ op.code = "fconst" => Java!Pushed(op, v) = <<Java!Value("Float", op.value)>>
         /\ op.code = "dconst" => Java!Pushed(op, v) = <<Java!Value("Double", op.value)>>
         /\ op.code = "aconst_null" => Java!Pushed(op, v) = <<Java!Value("Ref", Null)>>
<1>1. ASSUME op.code \in {"iconst", "bipush", "sipush"} PROVE Java!Pushed(op, v) = <<Java!Value("Int", op.value)>>
  BY <1>1 DEF Java!Pushed
<1>2. ASSUME op.code \in {"ldc", "ldc_w", "ldc2_w"} PROVE Java!Pushed(op, v) = <<Java!Value(op.constant, op.value)>>
  BY <1>2 DEF Java!Pushed
<1>3. ASSUME op.code = "lconst" PROVE Java!Pushed(op, v) = <<Java!Value("Long", op.value)>>
  BY <1>3 DEF Java!Pushed
<1>4. ASSUME op.code = "fconst" PROVE Java!Pushed(op, v) = <<Java!Value("Float", op.value)>>
  BY <1>4 DEF Java!Pushed
<1>5. ASSUME op.code = "dconst" PROVE Java!Pushed(op, v) = <<Java!Value("Double", op.value)>>
  BY <1>5 DEF Java!Pushed
<1>6. ASSUME op.code = "aconst_null" PROVE Java!Pushed(op, v) = <<Java!Value("Ref", Null)>>
  BY <1>6 DEF Java!Pushed
<1> QED
  BY <1>1, <1>2, <1>3, <1>4, <1>5, <1>6

BinaryCodes == {"add", "sub", "mul", "div", "rem", "and", "or", "xor"}
ShiftCodes == {"shl", "shr", "ushr"}

LEMMA PushedResults ==
  ASSUME NEW op, NEW v, op.result = "Void"
  PROVE  /\ op.code \in BinaryCodes /\ op.type = "Int" =>
               Java!Pushed(op, v) = <<Java!Value("Int", Java!JavaBinary(IntBits, op.code, v[1], v[2]))>>
         /\ op.code \in BinaryCodes /\ op.type = "Long" =>
               Java!Pushed(op, v) = <<Java!Value("Long", Java!JavaBinary(LongBits, op.code, v[1], v[2]))>>
         /\ op.code \in BinaryCodes /\ op.type = "Float" =>
               Java!Pushed(op, v) = <<Java!Value("Float", Java!Ieee(FloatTop, op.code, v[1], v[2]))>>
         /\ op.code \in BinaryCodes /\ op.type = "Double" =>
               Java!Pushed(op, v) = <<Java!Value("Double", Java!Ieee(DoubleTop, op.code, v[1], v[2]))>>
         /\ op.code \in ShiftCodes /\ op.type = "Int" =>
               Java!Pushed(op, v) = <<Java!Value("Int", Java!JavaShift(IntBits, op.code, v[1], v[2]))>>
         /\ op.code \in ShiftCodes /\ op.type = "Long" =>
               Java!Pushed(op, v) = <<Java!Value("Long", Java!JavaShift(LongBits, op.code, v[1], v[2]))>>
         /\ op.code = "neg" /\ op.type = "Int" => Java!Pushed(op, v) = <<Java!Value("Int", Java!Congruent(IntBits, -v[1]))>>
         /\ op.code = "neg" /\ op.type = "Long" => Java!Pushed(op, v) = <<Java!Value("Long", Java!Congruent(LongBits, -v[1]))>>
         /\ op.code = "neg" /\ op.type = "Float" => Java!Pushed(op, v) = <<Java!Value("Float", Java!Negated(FloatTop, v[1]))>>
         /\ op.code = "neg" /\ op.type = "Double" => Java!Pushed(op, v) = <<Java!Value("Double", Java!Negated(DoubleTop, v[1]))>>
<1>1. ASSUME op.code \in BinaryCodes, op.type = "Int"
      PROVE  Java!Pushed(op, v) = <<Java!Value("Int", Java!JavaBinary(IntBits, op.code, v[1], v[2]))>>
  BY <1>1 DEF Java!Pushed, BinaryCodes
<1>2. ASSUME op.code \in BinaryCodes, op.type = "Long"
      PROVE  Java!Pushed(op, v) = <<Java!Value("Long", Java!JavaBinary(LongBits, op.code, v[1], v[2]))>>
  BY <1>2 DEF Java!Pushed, BinaryCodes
<1>3. ASSUME op.code \in BinaryCodes, op.type = "Float"
      PROVE  Java!Pushed(op, v) = <<Java!Value("Float", Java!Ieee(FloatTop, op.code, v[1], v[2]))>>
  BY <1>3 DEF Java!Pushed, BinaryCodes
<1>4. ASSUME op.code \in BinaryCodes, op.type = "Double"
      PROVE  Java!Pushed(op, v) = <<Java!Value("Double", Java!Ieee(DoubleTop, op.code, v[1], v[2]))>>
  BY <1>4 DEF Java!Pushed, BinaryCodes
<1>5. ASSUME op.code \in ShiftCodes, op.type = "Int"
      PROVE  Java!Pushed(op, v) = <<Java!Value("Int", Java!JavaShift(IntBits, op.code, v[1], v[2]))>>
  BY <1>5 DEF Java!Pushed, ShiftCodes
<1>6. ASSUME op.code \in ShiftCodes, op.type = "Long"
      PROVE  Java!Pushed(op, v) = <<Java!Value("Long", Java!JavaShift(LongBits, op.code, v[1], v[2]))>>
  BY <1>6 DEF Java!Pushed, ShiftCodes
<1>7. ASSUME op.code = "neg", op.type \in Numbers
      PROVE  Java!Pushed(op, v) =
                 <<Java!Value(op.type, CASE op.type = "Int" -> Java!Congruent(IntBits, -v[1])
                                         [] op.type = "Long" -> Java!Congruent(LongBits, -v[1])
                                         [] op.type = "Float" -> Java!Negated(FloatTop, v[1])
                                         [] op.type = "Double" -> Java!Negated(DoubleTop, v[1]))>>
  BY <1>7 DEF Java!Pushed
<1>8. op.type \in {"Int", "Long", "Float", "Double"} => op.type \in Numbers
  BY DEF Numbers
<1> QED
  BY <1>1, <1>2, <1>3, <1>4, <1>5, <1>6, <1>7, <1>8

LEMMA PushedOthers ==
  ASSUME NEW op, NEW v, op.result = "Void"
  PROVE  /\ op.code = "cmp" => Java!Pushed(op, v) = <<Java!Value("Int", Java!Sign(v[1] - v[2]))>>
         /\ op.code \in {"cmpl", "cmpg"} => Java!Pushed(op, v) =
               <<Java!Value("Int", IF Java!NaN(IF op.type = "Float" THEN FloatTop ELSE DoubleTop) \notin {v[1], v[2]}
                                   THEN Java!Sign(v[1] - v[2]) ELSE IF op.code = "cmpl" THEN -1 ELSE 1)>>
         /\ op.code = "convert" =>
               Java!Pushed(op, v) = <<Java!Value(CastKind(op.to), Java!JavaConverted(op.type, op.to, v[1]))>>
         /\ op.code = "checkcast" => Java!Pushed(op, v) = <<Java!Value("Ref", v[1])>>
         /\ op.code = "instanceof" => Java!Pushed(op, v) = <<Java!Value("Int", IF v[1] = Null THEN 0 ELSE op.value)>>
<1>1. ASSUME op.code = "cmp" PROVE Java!Pushed(op, v) = <<Java!Value("Int", Java!Sign(v[1] - v[2]))>>
  BY <1>1 DEF Java!Pushed
<1>2. ASSUME op.code \in {"cmpl", "cmpg"}
      PROVE  Java!Pushed(op, v) =
               <<Java!Value("Int", IF Java!NaN(IF op.type = "Float" THEN FloatTop ELSE DoubleTop) \notin {v[1], v[2]}
                                   THEN Java!Sign(v[1] - v[2]) ELSE IF op.code = "cmpl" THEN -1 ELSE 1)>>
  BY <1>2 DEF Java!Pushed
<1>3. ASSUME op.code = "convert"
      PROVE  Java!Pushed(op, v) = <<Java!Value(CastKind(op.to), Java!JavaConverted(op.type, op.to, v[1]))>>
  BY <1>3 DEF Java!Pushed, CastKind
<1>4. ASSUME op.code = "checkcast" PROVE Java!Pushed(op, v) = <<Java!Value("Ref", v[1])>>
  BY <1>4 DEF Java!Pushed
<1>5. ASSUME op.code = "instanceof" PROVE Java!Pushed(op, v) = <<Java!Value("Int", IF v[1] = Null THEN 0 ELSE op.value)>>
  BY <1>5 DEF Java!Pushed
<1> QED
  BY <1>1, <1>2, <1>3, <1>4, <1>5

\* An answered instruction pushes its answer, and those left push nothing.
Silent == {"putfield", "putstatic", "if", "if_icmp", "ifnull", "if_acmp", "goto", "goto_w", "tableswitch", "lookupswitch"}
LEMMA PushedAnswers ==
  ASSUME NEW op, NEW v
  PROVE  /\ op.code \in AnsweredCodes => Java!Pushed(op, v) = IF op.result # "Void" THEN <<Java!Value(op.result, op.value)>> ELSE <<>>
         /\ op.code \in Silent /\ op.result = "Void" => Java!Pushed(op, v) = <<>>
<1>1. ASSUME op.code \in AnsweredCodes, op.result # "Void" PROVE Java!Pushed(op, v) = <<Java!Value(op.result, op.value)>>
  BY <1>1 DEF Java!Pushed, AnsweredCodes, HeapCodes, InvokeCodes
<1>2. ASSUME op.code \in AnsweredCodes, op.result = "Void" PROVE Java!Pushed(op, v) = <<>>
  BY <1>2 DEF Java!Pushed, AnsweredCodes, HeapCodes, InvokeCodes
<1>3. ASSUME op.code \in Silent, op.result = "Void" PROVE Java!Pushed(op, v) = <<>>
  BY <1>3 DEF Java!Pushed, Silent
<1> QED
  BY <1>1, <1>2, <1>3

LEMMA OperandsAre ==
  ASSUME NEW op
  PROVE  /\ op.code \in {"store", "store_n", "neg", "convert", "xreturn", "putstatic"} => Java!Operands(op) = <<op.type>>
         /\ op.code \in BinaryCodes \cup {"cmp", "cmpl", "cmpg"} => Java!Operands(op) = <<op.type, op.type>>
         /\ op.code \in ShiftCodes => Java!Operands(op) = <<op.type, "Int">>
         /\ op.code \in {"if", "tableswitch", "lookupswitch", "newarray", "anewarray"} => Java!Operands(op) = <<"Int">>
         /\ op.code = "if_icmp" => Java!Operands(op) = <<"Int", "Int">>
         /\ op.code \in {"ifnull", "getfield", "arraylength", "checkcast", "instanceof", "monitorenter", "monitorexit", "athrow"}
              => Java!Operands(op) = <<"Ref">>
         /\ op.code = "if_acmp" => Java!Operands(op) = <<"Ref", "Ref">>
         /\ op.code = "putfield" => Java!Operands(op) = <<"Ref", op.type>>
         /\ op.code = "xaload" => Java!Operands(op) = <<"Ref", "Int">>
         /\ op.code = "xastore" => Java!Operands(op) = <<"Ref", "Int", op.type>>
         /\ op.code = "multianewarray" => Java!Operands(op) = [i \in 1 .. op.dims |-> "Int"]
         /\ op.code \in {"invokestatic", "invokedynamic"} => Java!Operands(op) = op.params
         /\ op.code \in {"invokespecial", "invokevirtual", "invokeinterface"} => Java!Operands(op) = <<"Ref">> \o op.params
         /\ op.code \in PushCodes \cup {"load", "load_n", "iinc", "goto", "goto_w", "getstatic", "new", "return"}
              => Java!Operands(op) = <<>>
<1>1. ASSUME op.code \in {"store", "store_n", "neg", "convert", "xreturn", "putstatic"} PROVE Java!Operands(op) = <<op.type>>
  BY <1>1 DEF Java!Operands
<1>2. ASSUME op.code \in BinaryCodes \cup {"cmp", "cmpl", "cmpg"} PROVE Java!Operands(op) = <<op.type, op.type>>
  BY <1>2 DEF Java!Operands, BinaryCodes
<1>3. ASSUME op.code \in ShiftCodes PROVE Java!Operands(op) = <<op.type, "Int">>
  BY <1>3 DEF Java!Operands, ShiftCodes
<1>4. ASSUME op.code \in {"if", "tableswitch", "lookupswitch", "newarray", "anewarray"} PROVE Java!Operands(op) = <<"Int">>
  BY <1>4 DEF Java!Operands
<1>5. ASSUME op.code = "if_icmp" PROVE Java!Operands(op) = <<"Int", "Int">>
  BY <1>5 DEF Java!Operands
<1>6. ASSUME op.code \in {"ifnull", "getfield", "arraylength", "checkcast", "instanceof", "monitorenter", "monitorexit", "athrow"}
      PROVE  Java!Operands(op) = <<"Ref">>
  BY <1>6 DEF Java!Operands
<1>7. ASSUME op.code = "if_acmp" PROVE Java!Operands(op) = <<"Ref", "Ref">>
  BY <1>7 DEF Java!Operands
<1>8. ASSUME op.code = "putfield" PROVE Java!Operands(op) = <<"Ref", op.type>>
  BY <1>8 DEF Java!Operands
<1>9. ASSUME op.code = "xaload" PROVE Java!Operands(op) = <<"Ref", "Int">>
  BY <1>9 DEF Java!Operands
<1>10. ASSUME op.code = "xastore" PROVE Java!Operands(op) = <<"Ref", "Int", op.type>>
  BY <1>10 DEF Java!Operands
<1>11. ASSUME op.code = "multianewarray" PROVE Java!Operands(op) = [i \in 1 .. op.dims |-> "Int"]
  BY <1>11 DEF Java!Operands
<1>12. ASSUME op.code \in {"invokestatic", "invokedynamic"} PROVE Java!Operands(op) = op.params
  BY <1>12 DEF Java!Operands
<1>13. ASSUME op.code \in {"invokespecial", "invokevirtual", "invokeinterface"} PROVE Java!Operands(op) = <<"Ref">> \o op.params
  BY <1>13 DEF Java!Operands
<1>14. ASSUME op.code \in PushCodes \cup {"load", "load_n", "iinc", "goto", "goto_w", "getstatic", "new", "return"}
       PROVE  Java!Operands(op) = <<>>
  BY <1>14 DEF Java!Operands, PushCodes
<1> QED
  BY <1>1, <1>2, <1>3, <1>4, <1>5, <1>6, <1>7, <1>8, <1>9, <1>10, <1>11, <1>12, <1>13, <1>14

\* The instruction pushes x, and goes on after its n bytes.
LEMMA PushesResult ==
  ASSUME NEW op, Ready(op), Plain(op), op.code \notin Jumps, Len(Java!Operands(op)) \in Nat, ~Java!Throws(op, Given(op)),
         NEW k \in Five, NEW x, Slot(k, x) \in JavaValues, Java!Pushed(op, Given(op)) = <<Java!Value(k, x)>>,
         NEW n \in Nat, Java!Table!Length(op.code) = n,
         NEW p, NEW g, p = At(Expanded(BelowOf(op)), frame.locals, g), Step(Push(p, k, x), n)
  PROVE  InStep'
<1> DEFINE w == Slot(k, x)
           target == pc + n
<1>1. w \in JavaValues /\ w.kind = k /\ w.value = x /\ Java!Value(k, x) = w
  BY DEF Slot, Java!Value
<1>2. target \in Int /\ Java!Continues(op, java, Given(op)) = target
  BY Agreement, Falls
<1>3. Proceed(Push(At(Expanded(BelowOf(op)), frame.locals, g), w.kind, w.value), target)
  BY <1>1 DEF Step
<1>4. Java!Pushed(op, Given(op)) = <<w>>
  BY <1>1
<1> HIDE DEF w, target
<1> QED
  BY <1>1, <1>2, <1>3, <1>4, Pushes

\* Nothing is pushed.
LEMMA PushesNothing ==
  ASSUME NEW op, Ready(op), Plain(op), op.code \notin Jumps, Len(Java!Operands(op)) \in Nat, ~Java!Throws(op, Given(op)),
         Java!Pushed(op, Given(op)) = <<>>, NEW n \in Nat, Java!Table!Length(op.code) = n,
         NEW p, NEW g, p = At(Expanded(BelowOf(op)), frame.locals, g), Step(p, n)
  PROVE  InStep'
<1> DEFINE target == pc + n
<1>1. target \in Int /\ Java!Continues(op, java, Given(op)) = target
  BY Agreement, Falls
<1>2. Proceed(At(Expanded(BelowOf(op)), frame.locals, g), target)
  BY DEF Step
<1> HIDE DEF target
<1> QED
  BY <1>1, <1>2, Leaves

LEMMA PushesConstant ==
  ASSUME NEW op, Ready(op), op.code \in PushCodes, NEW k \in Five, NEW x, Slot(k, x) \in JavaValues,
         Java!Pushed(op, Given(op)) = <<Java!Value(k, x)>>,
         NEW n \in Nat, Java!Table!Length(op.code) = n, Step(Push(frame, k, x), n)
  PROVE  InStep'
<1>1. Plain(op) /\ op.code \notin Jumps /\ op.code \notin Java!StackCodes
      /\ op.code \notin AnsweredCodes \cup {"checkcast", "athrow", "div", "rem"}
  BY DEF PushCodes, Plain, Ordinary, Java!StackCodes, Jumps, AnsweredCodes, HeapCodes, InvokeCodes
<1>2. Java!Operands(op) = <<>>
  BY DEF PushCodes, Java!Operands
<1>3. Len(Java!Operands(op)) \in Nat /\ frame = At(Expanded(BelowOf(op)), frame.locals, <<>>)
  BY <1>1, <1>2, NoOperands
<1>4. ~Java!Throws(op, Given(op))
  BY <1>1, Agreement, Calm
<1> DEFINE p == frame
           g == <<>>
<1>5. p = At(Expanded(BelowOf(op)), frame.locals, g) /\ Step(Push(p, k, x), n)
  BY <1>3
<1> HIDE DEF p, g
<1> QED
  BY <1>1, <1>3, <1>4, <1>5, PushesResult

\* No answer comes with an instruction that asks nothing.
LEMMA Nothing ==
  ASSUME NEW op, Ready(op), op.code \notin HeapCodes \cup InvokeCodes \/ op.code \in PushCodes
  PROVE  op.result = "Void"
<1>1. op.code \notin AnsweredCodes
  BY DEF AnsweredCodes, PushCodes, HeapCodes, InvokeCodes
<1> QED
  BY <1>1, Agreement DEF Encoded, AnswersEncoded

LEMMA IntConstantsInStep ==
  ASSUME NEW op, Ready(op), IntConstants(op)
  PROVE  InStep'
<1>1. op.code \in {"iconst", "bipush", "sipush"} /\ op.code \in PushCodes
  BY DEF IntConstants, PushCodes
<1>2. Slot("Int", op.value) \in JavaValues
  BY <1>1, Agreement DEF Encoded, ValuesEncoded
<1>3. Java!Pushed(op, Given(op)) = <<Java!Value("Int", op.value)>>
  <2>1. op.result = "Void"
    BY <1>1, Nothing
  <2> QED
    BY <1>1, <2>1, PushedConstants
<1>4. PICK n \in Nat : Java!Table!Length(op.code) = n /\ Step(Push(frame, "Int", op.value), n)
  BY <1>1, LengthsCounted DEF IntConstants, OneByte, TwoBytes, ThreeBytes
<1> QED
  BY <1>1, <1>2, <1>3, <1>4, PushesConstant DEF Five

LEMMA LoadConstantInStep ==
  ASSUME NEW op, Ready(op), LoadConstant(op)
  PROVE  InStep'
<1>1. op.code \in {"ldc", "ldc_w"} /\ op.code \in PushCodes
  BY DEF LoadConstant, PushCodes
<1>2. CASE op.constant \notin {"Int", "Float", "Ref"}
  <2>1. End("BadConstant", "Void", 0)
    BY <1>2 DEF LoadConstant
  <2> QED
    BY <2>1, Agreement, GivesUp
<1>3. CASE op.constant \in {"Int", "Float", "Ref"}
  <2>1. Slot(op.constant, op.value) \in JavaValues
    BY <1>1, <1>3, Agreement DEF Encoded, ValuesEncoded
  <2>2. op.result = "Void"
    BY <1>1, Nothing
  <2>3. Java!Pushed(op, Given(op)) = <<Java!Value(op.constant, op.value)>>
    BY <1>1, <2>2, PushedConstants
  <2>4. PICK n \in Nat : Java!Table!Length(op.code) = n /\ Step(Push(frame, op.constant, op.value), n)
    BY <1>1, <1>3, LengthsCounted DEF LoadConstant, TwoBytes, ThreeBytes
  <2> DEFINE k == op.constant
             x == op.value
  <2>5. k \in Five /\ Slot(k, x) \in JavaValues /\ Java!Pushed(op, Given(op)) = <<Java!Value(k, x)>> /\ Step(Push(frame, k, x), n)
    BY <1>3, <2>1, <2>3, <2>4 DEF Five
  <2> HIDE DEF k, x
  <2> QED
    BY <1>1, <2>4, <2>5, PushesConstant
<1> QED
  BY <1>2, <1>3

LEMMA WideConstantsInStep ==
  ASSUME NEW op, Ready(op), NEW k \in {"Long", "Float", "Double"}, NEW n \in Nat, Step(Push(frame, k, op.value), n),
         \/ op.code = "lconst" /\ k = "Long" /\ n = 1
         \/ op.code = "fconst" /\ k = "Float" /\ n = 1
         \/ op.code = "dconst" /\ k = "Double" /\ n = 1
         \/ op.code = "ldc2_w" /\ k = op.constant /\ n = 3
  PROVE  InStep'
<1>1. op.code \in PushCodes /\ op.code \in {"lconst", "fconst", "dconst", "ldc2_w"}
  BY DEF PushCodes
<1>2. op.result = "Void"
  BY <1>1, Nothing
<1>3. Slot(k, op.value) \in JavaValues
  BY Agreement DEF Encoded, ValuesEncoded
<1>4. Java!Pushed(op, Given(op)) = <<Java!Value(k, op.value)>>
  BY <1>2, PushedConstants
<1>5. Java!Table!Length(op.code) = n
  BY LengthsCounted DEF OneByte, ThreeBytes
<1> DEFINE x == op.value
<1>6. Slot(k, x) \in JavaValues /\ Java!Pushed(op, Given(op)) = <<Java!Value(k, x)>> /\ Step(Push(frame, k, x), n) /\ k \in Five
  BY <1>3, <1>4 DEF Five
<1> HIDE DEF x
<1> QED
  BY <1>1, <1>5, <1>6, PushesConstant

LEMMA NullInStep ==
  ASSUME NEW op, Ready(op), op.code = "aconst_null", Step(Push(frame, "Ref", Null), 1)
  PROVE  InStep'
<1>1. op.code \in PushCodes /\ op.result = "Void"
  BY Nothing DEF PushCodes
<1>2. Slot("Ref", Null) \in JavaValues
  BY ValueIs DEF Five, References
<1>3. Java!Pushed(op, Given(op)) = <<Java!Value("Ref", Null)>> /\ Java!Table!Length(op.code) = 1
  BY <1>1, PushedConstants, LengthsCounted DEF OneByte
<1> QED
  BY <1>1, <1>2, <1>3, PushesConstant DEF Five

-----------------------------------------------------------------------------
(* Locals: what the frame of the program holds where that of the           *)
(* specification may be read.                                              *)

LEMMA ReadsLocal ==
  ASSUME NEW s, NEW L \in [Locals -> Slots], NEW g, NEW i \in Locals
  PROVE  GetLocal(At(s, L, g), i, L[i].kind) = At(s, L, <<L[i].value>>)
<1>1. At(s, L, g).ok = TRUE /\ At(s, L, g).locals = L
  BY DEF At
<1>2. GetLocal(At(s, L, g), i, L[i].kind) = WithGot(At(s, L, g), <<L[i].value>>)
  BY <1>1, Zenon DEF GetLocal, WithGot
<1> QED
  BY <1>2, FrameWithGot

LEMMA SetsSlot ==
  ASSUME NEW s, NEW L \in [Locals -> Slots], NEW g, NEW i \in Locals, NEW w \in Slots
  PROVE  SetSlot(At(s, L, g), i, w) = At(s, Putting(L, i, w), g) /\ Putting(L, i, w) \in [Locals -> Slots]
<1>1. At(s, L, g).ok = TRUE /\ At(s, L, g).locals = L /\ DOMAIN L = Locals
  BY DEF At
<1>2. SetSlot(At(s, L, g), i, w) = WithLocal(At(s, L, g), i, w)
  <2>1. ~(~At(s, L, g).ok \/ i \notin DOMAIN At(s, L, g).locals)
    BY <1>1, Zenon
  <2> QED
    BY <2>1, Zenon DEF SetSlot, WithLocal
<1>3. WithLocal(At(s, L, g), i, w) = At(s, Putting(L, i, w), g)
  BY FrameWithLocal
<1>4. Putting(L, i, w) \in [Locals -> Slots]
  BY DEF Putting
<1> QED
  BY <1>2, <1>3, <1>4

\* The locals after a store, in the program.
Set(L, i, w) == IF IsCategory2(w.kind) THEN Putting(Putting(L, i + 1, Top), i, w) ELSE Putting(L, i, w)

LEMMA SetsLocal ==
  ASSUME NEW s, NEW L \in [Locals -> Slots], NEW g, NEW i \in Locals, NEW w \in JavaValues,
         i + Java!Category(w.kind) <= MaxLocals
  PROVE  SetLocal(At(s, L, g), i, w.kind, w.value) = At(s, Set(L, i, w), g) /\ Set(L, i, w) \in [Locals -> Slots]
<1>1. Slot(w.kind, w.value) = w /\ w \in Slots /\ Top \in Slots /\ Java!Category(w.kind) = IF IsCategory2(w.kind) THEN 2 ELSE 1
  BY ValueFacts, SlotsKnown
<1>2. CASE IsCategory2(w.kind)
  <2>1. i + 1 \in Locals
    BY <1>1, <1>2, FramesAssumption DEF Locals
  <2> DEFINE M == Putting(L, i + 1, Top)
  <2>2. SetSlot(At(s, L, g), i + 1, Top) = At(s, M, g) /\ M \in [Locals -> Slots]
    BY <1>1, <2>1, SetsSlot
  <2>3. SetLocal(At(s, L, g), i, w.kind, w.value) = SetSlot(At(s, M, g), i, w)
    BY <1>1, <1>2, <2>2, Zenon DEF SetLocal
  <2>4. Set(L, i, w) = Putting(M, i, w)
    BY <1>2 DEF Set
  <2> HIDE DEF M
  <2>5. SetSlot(At(s, M, g), i, w) = At(s, Putting(M, i, w), g) /\ Putting(M, i, w) \in [Locals -> Slots]
    BY <1>1, <2>2, SetsSlot
  <2> QED
    BY <2>3, <2>4, <2>5
<1>3. CASE ~IsCategory2(w.kind)
  <2>1. SetLocal(At(s, L, g), i, w.kind, w.value) = SetSlot(At(s, L, g), i, w)
    BY <1>1, <1>3, Zenon DEF SetLocal
  <2>2. Set(L, i, w) = Putting(L, i, w)
    BY <1>3 DEF Set
  <2> QED
    BY <1>1, <2>1, <2>2, SetsSlot
<1> QED
  BY <1>2, <1>3

LEMMA StoresAgree ==
  ASSUME NEW L, NEW JL, SameLocals(L, JL), NEW i \in Locals, NEW w \in JavaValues, i + Java!Category(w.kind) <= MaxLocals
  PROVE  SameLocals(Set(L, i, w), Java!Stored(JL, i, w.kind, w.value))
<1>1. /\ L \in [Locals -> Slots] /\ JL \in [Locals -> Slots] /\ DOMAIN JL = Locals
      /\ \A k \in Locals : JL[k] # Java!Unusable => L[k] = JL[k]
  BY DEF SameLocals
<1>2. Java!Value(w.kind, w.value) = w /\ w \in Slots /\ Java!Unusable \in Slots
  BY ValueFacts, SlotsKnown DEF Java!Value, Slot
<1>3. Java!Category(w.kind) = IF IsCategory2(w.kind) THEN 2 ELSE 1
  BY ValueFacts
<1> DEFINE S == Java!Stored(JL, i, w.kind, w.value)
<1>4. S = [k \in Locals |-> IF k = i THEN w
                             ELSE IF \/ k = i + 1 /\ Java!Category(w.kind) = 2
                                     \/ k = i - 1 /\ Java!Category(JL[k].kind) = 2 THEN Java!Unusable
                             ELSE JL[k]]
  BY <1>1, <1>2 DEF Java!Stored
<1>5. S \in [Locals -> Slots]
  BY <1>1, <1>2, <1>4
<1>6. Set(L, i, w) \in [Locals -> Slots]
  BY <1>1, <1>2, SlotsKnown DEF Set, Putting
<1>7. ASSUME NEW k \in Locals, S[k] # Java!Unusable
      PROVE  Set(L, i, w)[k] = S[k]
  <2>1. CASE k = i
    BY <1>1, <1>4, <2>1 DEF Set, Putting
  <2>2. CASE k # i
    <3>1. S[k] = JL[k] /\ ~(k = i + 1 /\ Java!Category(w.kind) = 2)
      BY <1>4, <1>7, <2>2
    <3>2. ~(k = i + 1 /\ IsCategory2(w.kind))
      BY <1>3, <3>1
    <3>3. Set(L, i, w)[k] = L[k]
      BY <1>1, <2>2, <3>2 DEF Set, Putting
    <3> QED
      BY <1>1, <1>7, <3>1, <3>3
  <2> QED
    BY <2>1, <2>2
<1> QED
  BY <1>5, <1>6, <1>7 DEF SameLocals

LEMMA ExecLoads ==
  ASSUME NEW op, Verified(java), TopsOf(op) \in Seq(JavaValues), op.code \in {"load", "load_n"}, ~Java!Throws(op, Given(op))
  PROVE  Java!Exec(op, java) = JavaAt(Append(java.stack, java.locals[op.index]), java.locals, Continued(op))
<1> DEFINE v == [i \in DOMAIN TopsOf(op) |-> TopsOf(op)[i].value]
           pushed == Append(java.stack, java.locals[op.index])
<1>1. v = Given(op)
  BY GivenAre
<1>2. ~Java!Throws(op, v) /\ Ordinary(op) /\ op.code \notin {"store", "store_n"} /\ op.code # "iinc"
  <2>1. Ordinary(op) /\ op.code \notin {"store", "store_n"} /\ op.code # "iinc"
    BY DEF Ordinary, Java!StackCodes
  <2> QED
    BY <1>1, <2>1, Zenon
<1>3. Java!Exec(op, java) = WithStackAndPc(java, pushed, Java!Continues(op, java, v) % 4)
  BY <1>2, Zenon DEF Java!Exec, TopsOf, Ordinary, WithStackAndPc
<1> HIDE DEF pushed
<1>4. Java!Exec(op, java) = WithStackAndPc(java, pushed, Continued(op))
  BY <1>1, <1>3, Zenon DEF Continued
<1>5. WithStackAndPc(java, pushed, Continued(op)) = JavaAt(pushed, java.locals, Continued(op))
  BY JavaWith
<1> QED
  BY <1>4, <1>5, Zenon DEF pushed

LEMMA LoadInStep ==
  ASSUME NEW op, Ready(op), op.code \in {"load", "load_n"}, Local(op)
  PROVE  InStep'
<1>1. /\ op.code \notin Java!StackCodes /\ op.code \notin AnsweredCodes \cup {"checkcast", "athrow", "div", "rem"}
      /\ op.code \notin Jumps
  BY DEF Java!StackCodes, AnsweredCodes, HeapCodes, InvokeCodes, Jumps
<1>2. Java!Operands(op) = <<>>
  BY OperandsAre
<1>3. /\ TopsOf(op) \in Seq(JavaValues) /\ java.stack = BelowOf(op) /\ frame = At(Expanded(BelowOf(op)), frame.locals, <<>>)
      /\ BelowOf(op) \in Seq(JavaValues)
  BY <1>1, <1>2, NoOperands
<1>4. /\ method \in Methods /\ method' = method /\ outcome = Running /\ Verified(java) /\ SameLocals(frame.locals, java.locals)
      /\ WithinWindow(op) /\ Encoded(op) /\ java' = Java!Exec(op, java) /\ Java!Admits(op, java) /\ java.pc = pc /\ pc \in 0 .. 3
  BY Agreement
<1>5. op.index \in Locals /\ op.type \in Five
  BY <1>4 DEF Encoded, ValuesEncoded, TypesEncoded
<1>6. java.locals[op.index].kind = op.type
  BY <1>1, <1>4 DEF Java!Admits
<1> DEFINE w == java.locals[op.index]
           i == op.index
           L == frame.locals
           JL == java.locals
           s == java.stack
<1>7. w \in JavaValues /\ w.kind = op.type /\ L[i] = w /\ L \in [Locals -> Slots]
  <2>1. w \in Slots /\ w.kind = op.type
    BY <1>4, <1>5, <1>6 DEF SameLocals
  <2>2. w # Top
    BY <1>5, <1>6 DEF Top, Slot, Five
  <2>3. L[i] = w /\ L \in [Locals -> Slots]
    BY <1>4, <1>5, <2>2, SlotsKnown DEF SameLocals
  <2> QED
    BY <2>1, <2>2, <2>3 DEF Slots
<1>8. java' = JavaAt(s \o <<w>>, JL, Continued(op))
  <2>1. ~Java!Throws(op, Given(op))
    BY <1>1, <1>4, Calm
  <2>2. java' = JavaAt(Append(s, w), JL, Continued(op))
    BY <1>3, <1>4, <2>1, ExecLoads
  <2>3. s \in Seq(JavaValues)
    BY <1>3
  <2> HIDE DEF s, w, JL
  <2>4. Append(s, w) = s \o <<w>>
    BY <1>7, <2>3, AppendIsConcat
  <2> QED
    BY <2>2, <2>4
<1>9. PICK n \in Nat : /\ Java!Table!Length(op.code) = n
                       /\ Step(IF GetLocal(frame, op.index, op.type).ok
                               THEN Push(GetLocal(frame, op.index, op.type), op.type, GetLocal(frame, op.index, op.type).got[1])
                               ELSE GetLocal(frame, op.index, op.type), n)
  <2>1. op.code \notin {"store", "store_n"}
    OBVIOUS
  <2>2. Step(IF GetLocal(frame, op.index, op.type).ok
             THEN Push(GetLocal(frame, op.index, op.type), op.type, GetLocal(frame, op.index, op.type).got[1])
             ELSE GetLocal(frame, op.index, op.type), IF op.code \in {"load", "store"} THEN 2 ELSE 1)
    BY <2>1, Zenon DEF Local
  <2>3. Java!Table!Length(op.code) = IF op.code \in {"load", "store"} THEN 2 ELSE 1
    BY LengthsCounted DEF OneByte, TwoBytes
  <2>4. (IF op.code \in {"load", "store"} THEN 2 ELSE 1) \in Nat
    OBVIOUS
  <2> QED
    BY <2>2, <2>3, <2>4, Zenon
<1>10. GetLocal(frame, op.index, op.type) = At(Expanded(s), L, <<w.value>>)
  <2>1. frame = At(Expanded(s), L, <<>>)
    BY <1>3
  <2> DEFINE e == Expanded(s)
             none == <<>>
  <2>2. frame = At(e, L, none) /\ i \in Locals /\ op.type = L[i].kind /\ w.value = L[i].value
    BY <1>5, <1>7, <2>1
  <2> HIDE DEF e, none, L, s
  <2>3. GetLocal(At(e, L, none), i, L[i].kind) = At(e, L, <<L[i].value>>)
    BY <1>7, <2>2, ReadsLocal
  <2> QED
    BY <2>2, <2>3 DEF e
<1> DEFINE got == <<w.value>>
           f == At(Expanded(s), L, got)
<1>11. f.ok = TRUE /\ f.got[1] = w.value
  BY DEF At
<1>12. Step(Push(f, w.kind, w.value), n)
  <2> HIDE DEF f
  <2>1. Step(IF f.ok THEN Push(f, op.type, f.got[1]) ELSE f, n)
    BY <1>9, <1>10 DEF f
  <2>2. w.kind = op.type
    BY <1>7
  <2> QED
    BY <1>11, <2>1, <2>2, Zenon
<1>13. Java!Continues(op, java, Given(op)) = pc + n /\ pc + n \in Int
  BY <1>1, <1>4, <1>9, Falls
<1> DEFINE target == pc + n
           none == <<>>
<1>14. /\ java' = JavaAt(s \o <<w>>, JL, target % 4) /\ Proceed(Push(At(Expanded(s), L, got), w.kind, w.value), target)
       /\ target \in Int
  BY <1>8, <1>12, <1>13 DEF Continued, Step
<1>15. s \in Seq(JavaValues) /\ none \in Seq(JavaValues) /\ java.stack = s \o none
  BY <1>3, ConcatEmptySeq
<1>16. SameLocals(L, JL)
  BY <1>4
<1> HIDE DEF w, L, JL, s, got, f, target, none, i
<1> QED
  BY <1>1, <1>4, <1>7, <1>14, <1>15, <1>16, GoesOnPushing

LEMMA StoreInStep ==
  ASSUME NEW op, Ready(op), op.code \in {"store", "store_n"}, Local(op)
  PROVE  InStep'
<1>1. /\ op.code \notin Java!StackCodes /\ op.code \notin AnsweredCodes \cup {"checkcast", "athrow", "div", "rem"}
      /\ op.code \notin Jumps /\ op.code \notin {"load", "load_n"}
  BY DEF Java!StackCodes, AnsweredCodes, HeapCodes, InvokeCodes, Jumps
<1>2. /\ method \in Methods /\ method' = method /\ outcome = Running /\ Verified(java) /\ SameLocals(frame.locals, java.locals)
      /\ WithinWindow(op) /\ Encoded(op) /\ java' = Java!Exec(op, java) /\ Java!Admits(op, java) /\ java.pc = pc /\ pc \in 0 .. 3
  BY Agreement
<1>3. op.index \in Locals /\ op.type \in Five
  BY <1>2 DEF Encoded, ValuesEncoded, TypesEncoded
<1>4. Java!Operands(op) = <<op.type>>
  BY OperandsAre
<1> DEFINE k == op.type
           i == op.index
           L == frame.locals
           JL == java.locals
           s == BelowOf(op)
           t == TopsOf(op)
           x == Given(op)[1]
           w == Slot(k, x)
           g == Given(op)
<1>5. /\ Len(Java!Operands(op)) \in Nat /\ Pop(frame, k) = At(Expanded(s), L, g) /\ Pop(frame, k).ok = TRUE /\ Pop(frame, k).got = g
      /\ w \in JavaValues /\ s \in Seq(JavaValues)
  <2>1. k \in Five /\ Java!Operands(op) = <<k>>
    BY <1>3, <1>4
  <2> HIDE DEF k
  <2> QED
    BY <1>1, <2>1, OneOperand
<1>6. t \in Seq(JavaValues) /\ java.stack = s \o t
  BY <1>1, <1>5, Prepared
<1>7. w.kind = k /\ w.value = x
  BY DEF Slot
<1>8. i + Java!Category(w.kind) <= MaxLocals
  BY <1>1, <1>2, <1>7 DEF Java!Admits
<1>9. java' = JavaAt(s, Java!Stored(JL, i, w.kind, w.value), Continued(op))
  <2>1. ~Java!Throws(op, Given(op))
    BY <1>1, <1>2, Calm
  <2> QED
    BY <1>2, <1>6, <1>7, <2>1, ExecStores
<1>10. PICK n \in Nat : /\ Java!Table!Length(op.code) = n
                        /\ Step(IF Pop(frame, op.type).ok THEN SetLocal(Pop(frame, op.type), op.index, op.type, Pop(frame, op.type).got[1])
                                ELSE Pop(frame, op.type), n)
  <2>1. Step(IF Pop(frame, op.type).ok THEN SetLocal(Pop(frame, op.type), op.index, op.type, Pop(frame, op.type).got[1])
             ELSE Pop(frame, op.type), IF op.code \in {"load", "store"} THEN 2 ELSE 1)
    BY <1>1, Zenon DEF Local
  <2>2. Java!Table!Length(op.code) = IF op.code \in {"load", "store"} THEN 2 ELSE 1
    BY LengthsCounted DEF OneByte, TwoBytes
  <2>3. (IF op.code \in {"load", "store"} THEN 2 ELSE 1) \in Nat
    OBVIOUS
  <2> QED
    BY <2>1, <2>2, <2>3, Zenon
<1> DEFINE e == Expanded(s)
           M == Set(L, i, w)
<1>11. Step(SetLocal(At(e, L, g), i, w.kind, w.value), n)
  <2>1. At(e, L, g).ok = TRUE /\ At(e, L, g).got = g /\ Pop(frame, op.type) = At(e, L, g)
    BY <1>5 DEF At
  <2>2. Step(SetLocal(Pop(frame, op.type), op.index, op.type, Pop(frame, op.type).got[1]), n)
    BY <1>10, <2>1, Zenon
  <2>3. Pop(frame, op.type).got[1] = w.value /\ op.type = w.kind
    BY <2>1, <1>7
  <2> QED
    BY <2>1, <2>2, <2>3, Zenon
<1>12. L \in [Locals -> Slots] /\ SameLocals(L, JL) /\ i \in Locals
  BY <1>2, <1>3 DEF SameLocals
<1>13. Java!Continues(op, java, Given(op)) = pc + n /\ pc + n \in Int
  BY <1>1, <1>2, <1>10, Falls
<1> DEFINE target == pc + n
           KL == Java!Stored(JL, i, w.kind, w.value)
<1>14. java' = JavaAt(s, KL, target % 4) /\ Proceed(SetLocal(At(e, L, g), i, w.kind, w.value), target) /\ target \in Int
  BY <1>9, <1>11, <1>13 DEF Continued, Step
<1>15. SameLocals(M, KL) /\ SetLocal(At(e, L, g), i, w.kind, w.value) = At(e, M, g)
  <2> HIDE DEF w, L, JL, e, i, g
  <2>1. SameLocals(Set(L, i, w), Java!Stored(JL, i, w.kind, w.value))
    BY <1>5, <1>8, <1>12, StoresAgree
  <2>2. w \in JavaValues /\ L \in [Locals -> Slots] /\ i \in Locals /\ i + Java!Category(w.kind) <= MaxLocals
    BY <1>5, <1>8, <1>12
  <2>3. SetLocal(At(e, L, g), i, w.kind, w.value) = At(e, Set(L, i, w), g)
    BY <2>2, SetsLocal
  <2> QED
    BY <2>1, <2>3, Zenon
<1>16. Proceed(At(Expanded(s), M, g), target)
  BY <1>14, <1>15
<1> HIDE DEF M, KL, s, t, g, target
<1> QED
  BY <1>2, <1>5, <1>6, <1>14, <1>15, <1>16, GoesOnBelow

WithValue(j, i, x, address) == [j EXCEPT !.locals[i].value = x, !.pc = address]
Valued(w, x) == [w EXCEPT !.value = x]

LEMMA JavaWithValue ==
  ASSUME NEW j, Verified(j), NEW i, NEW x, NEW address
  PROVE  WithValue(j, i, x, address) = JavaAt(j.stack, Putting(j.locals, i, Valued(j.locals[i], x)), address)
<1>1. j = [stack |-> j.stack, locals |-> j.locals, pc |-> j.pc, outcome |-> Running]
  BY DEF Verified
<1> DEFINE a == j.stack
           b == j.locals
           c == j.pc
           d == Running
           w == b[i]
<1>2. j = [stack |-> a, locals |-> b, pc |-> c, outcome |-> d]
  BY <1>1
<1>3. WithValue(j, i, x, address) = [[j EXCEPT !.locals[i].value = x] EXCEPT !.pc = address]
  BY Zenon DEF WithValue
<1> HIDE DEF a, b, c, d, w
<1>4. [[stack |-> a, locals |-> b, pc |-> c, outcome |-> d] EXCEPT !.locals[i].value = x]
         = [stack |-> a, locals |-> [b EXCEPT ![i].value = x], pc |-> c, outcome |-> d]
  OBVIOUS
<1>5. [b EXCEPT ![i].value = x] = [b EXCEPT ![i] = [b[i] EXCEPT !.value = x]]
  OBVIOUS
<1> DEFINE e == [b EXCEPT ![i].value = x]
<1>6. [[stack |-> a, locals |-> b, pc |-> c, outcome |-> d] EXCEPT !.locals[i].value = x]
         = [stack |-> a, locals |-> e, pc |-> c, outcome |-> d]
  BY <1>4
<1>7. e = Putting(b, i, Valued(b[i], x))
  BY <1>5 DEF Putting, Valued
<1> HIDE DEF e
<1>8. [[stack |-> a, locals |-> e, pc |-> c, outcome |-> d] EXCEPT !.pc = address]
         = [stack |-> a, locals |-> e, pc |-> address, outcome |-> d]
  OBVIOUS
<1>9. WithValue(j, i, x, address) = [stack |-> a, locals |-> e, pc |-> address, outcome |-> d]
  BY <1>2, <1>3, <1>6, <1>8, Zenon
<1> QED
  BY <1>7, <1>9, Zenon DEF JavaAt, a, b, d

LEMMA ExecIinc ==
  ASSUME NEW op, Verified(java), TopsOf(op) \in Seq(JavaValues), op.code = "iinc", ~Java!Throws(op, Given(op))
  PROVE  Java!Exec(op, java) = JavaAt(java.stack,
             Putting(java.locals, op.index,
                     Valued(java.locals[op.index], Java!Congruent(IntBits, java.locals[op.index].value + op.delta))), Continued(op))
<1> DEFINE v == [i \in DOMAIN TopsOf(op) |-> TopsOf(op)[i].value]
           x == Java!Congruent(IntBits, java.locals[op.index].value + op.delta)
<1>1. v = Given(op)
  BY GivenAre
<1>2. ~Java!Throws(op, v) /\ Ordinary(op) /\ op.code \notin {"store", "store_n"}
  <2>1. Ordinary(op) /\ op.code \notin {"store", "store_n"}
    BY DEF Ordinary, Java!StackCodes
  <2> QED
    BY <1>1, <2>1, Zenon
<1>3. Java!Exec(op, java) = WithValue(java, op.index, x, Java!Continues(op, java, v) % 4)
  BY <1>2, Zenon DEF Java!Exec, TopsOf, Ordinary, WithValue
<1>4. Java!Exec(op, java) = WithValue(java, op.index, x, Continued(op))
  BY <1>1, <1>3, Zenon DEF Continued
<1> QED
  BY <1>4, JavaWithValue, Zenon

LEMMA IincInStep ==
  ASSUME NEW op, Ready(op), op.code = "iinc",
         Step(IF GetLocal(frame, op.index, "Int").ok
              THEN SetLocal(GetLocal(frame, op.index, "Int"), op.index, "Int",
                            Wrap(IntBits, GetLocal(frame, op.index, "Int").got[1] + op.delta))
              ELSE GetLocal(frame, op.index, "Int"), 3)
  PROVE  InStep'
<1>1. /\ op.code \notin Java!StackCodes /\ op.code \notin AnsweredCodes \cup {"checkcast", "athrow", "div", "rem"}
      /\ op.code \notin Jumps
  BY DEF Java!StackCodes, AnsweredCodes, HeapCodes, InvokeCodes, Jumps
<1>2. Java!Operands(op) = <<>>
  BY OperandsAre
<1>3. /\ TopsOf(op) \in Seq(JavaValues) /\ java.stack = BelowOf(op) /\ frame = At(Expanded(BelowOf(op)), frame.locals, <<>>)
      /\ BelowOf(op) \in Seq(JavaValues)
  BY <1>1, <1>2, NoOperands
<1>4. /\ method \in Methods /\ method' = method /\ outcome = Running /\ Verified(java) /\ SameLocals(frame.locals, java.locals)
      /\ WithinWindow(op) /\ Encoded(op) /\ java' = Java!Exec(op, java) /\ Java!Admits(op, java) /\ java.pc = pc /\ pc \in 0 .. 3
  BY Agreement
<1>5. op.index \in Locals /\ op.delta \in {-1, 1}
  BY <1>4 DEF Encoded, ValuesEncoded
<1>6. java.locals[op.index].kind = "Int"
  BY <1>1, <1>4 DEF Java!Admits
<1> DEFINE w == java.locals[op.index]
           i == op.index
           L == frame.locals
           JL == java.locals
           s == java.stack
           x == Wrap(IntBits, w.value + op.delta)
           u == Slot("Int", x)
<1>7. w \in JavaValues /\ w.kind = "Int" /\ L[i] = w /\ L \in [Locals -> Slots]
  <2>1. w \in Slots /\ w.kind = "Int"
    BY <1>4, <1>5, <1>6 DEF SameLocals
  <2>2. w # Top
    BY <1>6 DEF Top, Slot
  <2>3. L[i] = w /\ L \in [Locals -> Slots]
    BY <1>4, <1>5, <2>2, SlotsKnown DEF SameLocals
  <2> QED
    BY <2>1, <2>2, <2>3 DEF Slots
<1>8. IntBits \in Nat \ {0}
  BY WidthsAssumption
<1>9. w.value \in Int /\ w.value + op.delta \in Int /\ w = Slot("Int", w.value)
  <2> HIDE DEF w
  <2>1. w.value \in Values("Int") /\ w = Slot("Int", w.value)
    BY <1>7, ValueFacts
  <2>2. Values("Int") = Range2(IntBits)
    BY DEF Values
  <2>3. w.value \in Int
    BY <1>8, <2>1, <2>2, WrapKeeps
  <2> QED
    BY <1>5, <2>1, <2>3
<1>10. u \in JavaValues /\ Java!Congruent(IntBits, w.value + op.delta) = x
  <2>1. x \in Range2(IntBits) /\ Java!Congruent(IntBits, w.value + op.delta) = x
    BY <1>8, <1>9, WrapIsCongruent, CongruentIsWrap
  <2>2. x \in Values("Int")
    BY <2>1 DEF Values
  <2> HIDE DEF x
  <2> QED
    BY <2>1, <2>2, ValueIs DEF Five
<1>11. Valued(w, x) = u
  <2> DEFINE y == w.value
  <2>1. w = [kind |-> "Int", value |-> y]
    BY <1>9 DEF Slot
  <2> HIDE DEF y, x, w
  <2>2. [[kind |-> "Int", value |-> y] EXCEPT !.value = x] = [kind |-> "Int", value |-> x]
    OBVIOUS
  <2> QED
    BY <2>1, <2>2, Zenon DEF Valued, Slot
<1>12. java' = JavaAt(s, Putting(JL, i, u), Continued(op))
  <2>1. ~Java!Throws(op, Given(op))
    BY <1>1, <1>4, Calm
  <2>2. java' = JavaAt(s, Putting(JL, i, Valued(w, Java!Congruent(IntBits, w.value + op.delta))), Continued(op))
    BY <1>3, <1>4, <2>1, ExecIinc
  <2> QED
    BY <1>10, <1>11, <2>2, Zenon
<1>13. GetLocal(frame, op.index, "Int") = At(Expanded(s), L, <<w.value>>)
  <2>1. frame = At(Expanded(s), L, <<>>)
    BY <1>3
  <2> DEFINE e == Expanded(s)
             none == <<>>
  <2>2. frame = At(e, L, none) /\ i \in Locals /\ L[i].kind = "Int" /\ w.value = L[i].value
    BY <1>5, <1>7, <2>1
  <2> HIDE DEF e, none, L, s
  <2>3. GetLocal(At(e, L, none), i, L[i].kind) = At(e, L, <<L[i].value>>)
    BY <1>7, <2>2, ReadsLocal
  <2> QED
    BY <2>2, <2>3 DEF e
<1> DEFINE got == <<w.value>>
           f == At(Expanded(s), L, got)
           M == Set(L, i, u)
           KL == Putting(JL, i, u)
<1>14. f.ok = TRUE /\ f.got[1] = w.value
  BY DEF At
<1>15. Step(SetLocal(f, i, u.kind, u.value), 3)
  <2>1. u.kind = "Int" /\ u.value = x
    BY DEF Slot
  <2> HIDE DEF f, u
  <2>2. Step(IF f.ok THEN SetLocal(f, i, "Int", Wrap(IntBits, f.got[1] + op.delta)) ELSE f, 3)
    BY <1>13, Zenon DEF f
  <2>3. Step(SetLocal(f, i, "Int", Wrap(IntBits, f.got[1] + op.delta)), 3)
    BY <1>14, <2>2, Zenon
  <2> QED
    BY <1>14, <2>1, <2>3, Zenon
<1>16. u.kind = "Int" /\ ~IsCategory2(u.kind) /\ i + Java!Category(u.kind) <= MaxLocals /\ M = Putting(L, i, u)
  BY <1>5, FramesAssumption DEF Slot, IsCategory2, Java!Category, Locals, Set
<1>17. SetLocal(f, i, u.kind, u.value) = At(Expanded(s), M, got)
  <2> DEFINE e == Expanded(s)
  <2>1. u \in JavaValues /\ L \in [Locals -> Slots] /\ i \in Locals /\ i + Java!Category(u.kind) <= MaxLocals
    BY <1>5, <1>7, <1>10, <1>16
  <2> HIDE DEF e, L, got, u, i, M
  <2>2. SetLocal(At(e, L, got), i, u.kind, u.value) = At(e, Set(L, i, u), got)
    BY <2>1, SetsLocal
  <2> QED
    BY <2>2, Zenon DEF e, M
<1>18. SameLocals(M, KL)
  <2> HIDE DEF u
  <2>1. u \in Slots
    BY <1>10, SlotsKnown
  <2> QED
    BY <1>4, <1>5, <1>16, <2>1 DEF SameLocals, Putting
<1>19. Java!Continues(op, java, Given(op)) = pc + 3 /\ pc + 3 \in Int
  <2>1. Java!Table!Length(op.code) = 3
    BY LengthsCounted DEF ThreeBytes
  <2> QED
    BY <1>1, <1>4, <2>1, Falls
<1> DEFINE target == pc + 3
           none == <<>>
<1>20. java' = JavaAt(s, KL, target % 4) /\ Proceed(At(Expanded(s), M, got), target) /\ target \in Int
  BY <1>12, <1>15, <1>17, <1>19 DEF Continued, Step
<1>21. s \in Seq(JavaValues) /\ none \in Seq(JavaValues) /\ java.stack = s \o none
  BY <1>3, ConcatEmptySeq
<1> HIDE DEF s, none, M, KL, got, target
<1> QED
  BY <1>4, <1>18, <1>20, <1>21, GoesOnBelow

LEMMA LocalInStep ==
  ASSUME NEW op, Ready(op), Local(op)
  PROVE  InStep'
<1>1. op.code \in {"load", "load_n"} \/ op.code \in {"store", "store_n"}
  BY DEF Local
<1> QED
  BY <1>1, LoadInStep, StoreInStep

-----------------------------------------------------------------------------
(* Results computed from the operands.                                     *)

LEMMA ComputesOne ==
  ASSUME NEW op, Ready(op), Plain(op), op.code \notin Jumps, NEW k \in Five, Java!Operands(op) = <<k>>,
         ~Java!Throws(op, Given(op)), NEW r \in Five, NEW x, Slot(r, x) \in JavaValues,
         Java!Pushed(op, Given(op)) = <<Java!Value(r, x)>>,
         NEW n \in Nat, Java!Table!Length(op.code) = n, NEW p, p = At(Expanded(BelowOf(op)), frame.locals, Given(op)),
         Step(Push(p, r, x), n)
  PROVE  InStep'
<1>1. Len(Java!Operands(op)) \in Nat
  OBVIOUS
<1> DEFINE g == Given(op)
<1>2. p = At(Expanded(BelowOf(op)), frame.locals, g)
  OBVIOUS
<1> HIDE DEF g
<1> QED
  BY <1>1, <1>2, PushesResult

LEMMA ComputesTwo ==
  ASSUME NEW op, Ready(op), Plain(op), op.code \notin Jumps, NEW k \in Five, NEW l \in Five, Java!Operands(op) = <<k, l>>,
         ~Java!Throws(op, Given(op)), NEW r \in Five, NEW x, Slot(r, x) \in JavaValues,
         Java!Pushed(op, Given(op)) = <<Java!Value(r, x)>>,
         NEW n \in Nat, Java!Table!Length(op.code) = n, NEW p, p = At(Expanded(BelowOf(op)), frame.locals, Given(op)),
         Step(Push(p, r, x), n)
  PROVE  InStep'
<1>1. Len(Java!Operands(op)) \in Nat
  OBVIOUS
<1> DEFINE g == Given(op)
<1>2. p = At(Expanded(BelowOf(op)), frame.locals, g)
  OBVIOUS
<1> HIDE DEF g
<1> QED
  BY <1>1, <1>2, PushesResult

\* The exception comes before anything is pushed.
LEMMA ThrowsFromOperands ==
  ASSUME NEW op, Ready(op), Ordinary(op), op.code # "athrow", Len(Java!Operands(op)) \in Nat, Java!Throws(op, Given(op)),
         NEW p, p = At(Expanded(BelowOf(op)), frame.locals, Given(op)), ThrowIt(p, NewThrown, op)
  PROVE  InStep'
<1>1. op.code \notin Java!StackCodes
  BY DEF Ordinary
<1> DEFINE below == BelowOf(op)
           top == TopsOf(op)
           g == Given(op)
           exc == NewThrown
<1>2. below \in Seq(JavaValues) /\ top \in Seq(JavaValues) /\ java.stack = below \o top
  BY <1>1, Prepared
<1>3. exc \in References /\ exc = ExceptionOf(op)
  BY DEF References, ExceptionOf
<1>4. ThrowIt(At(Expanded(below), frame.locals, g), exc, op)
  OBVIOUS
<1> HIDE DEF below, top, g, exc
<1> QED
  BY <1>2, <1>3, <1>4, ThrowsHere

ComputeCodes == BinaryCodes \cup ShiftCodes \cup {"neg", "cmp", "cmpl", "cmpg", "convert"}

LEMMA ComputeFacts ==
  ASSUME NEW op, Ready(op), op.code \in ComputeCodes
  PROVE  /\ Plain(op) /\ Ordinary(op) /\ op.code \notin Jumps /\ op.code \notin Java!StackCodes /\ op.code # "athrow"
         /\ op.result = "Void" /\ Java!Table!Length(op.code) = 1
         /\ Java!Throws(op, Given(op)) <=> op.code \in {"div", "rem"} /\ op.type \in {"Int", "Long"} /\ Given(op)[2] = 0
<1>1. /\ Plain(op) /\ Ordinary(op) /\ op.code \notin Jumps /\ op.code \notin Java!StackCodes /\ op.code # "athrow"
      /\ op.code \notin AnsweredCodes \cup {"checkcast", "athrow"} /\ op.code \in OneByte
  BY DEF ComputeCodes, BinaryCodes, ShiftCodes, Plain, Ordinary, Java!StackCodes, Jumps, AnsweredCodes, HeapCodes,
         InvokeCodes, OneByte
<1>2. op.result = "Void" /\ Java!Table!Length(op.code) = 1
  BY <1>1, Agreement, LengthsCounted DEF Encoded, AnswersEncoded
<1>3. op.code \in {"div", "rem"} /\ op.type \in {"Int", "Long"} /\ Given(op)[2] = 0 => Java!Throws(op, Given(op))
  BY DEF Java!Throws
<1>4. ~(op.code \in {"div", "rem"} /\ op.type \in {"Int", "Long"} /\ Given(op)[2] = 0) => ~Java!Throws(op, Given(op))
  BY <1>1, Agreement, Calm
<1> QED
  BY <1>1, <1>2, <1>3, <1>4

LEMMA BinaryInStep ==
  ASSUME NEW op, Ready(op), op.code \in BinaryCodes, NEW bits \in Nat \ {0},
         \/ op.type = "Int" /\ bits = IntBits
         \/ op.type = "Long" /\ bits = LongBits,
         NEW p, p = PopAll(frame, <<op.type, op.type>>),
         IF p.ok /\ op.code \in {"div", "rem"} /\ p.got[2] = 0 THEN ThrowIt(p, NewThrown, op)
         ELSE Step(IF p.ok THEN Push(p, op.type, Binary(bits, op.code, p.got[1], p.got[2])) ELSE p, 1)
  PROVE  InStep'
<1> DEFINE k == op.type
           v == Given(op)
           x == Binary(bits, op.code, v[1], v[2])
<1>1. /\ op.code \in ComputeCodes /\ k \in Five /\ k \in {"Int", "Long"} /\ k # "Ref"
  BY DEF ComputeCodes, Five
<1>2. /\ Plain(op) /\ Ordinary(op) /\ op.code \notin Jumps /\ op.code \notin Java!StackCodes /\ op.code # "athrow"
      /\ op.result = "Void" /\ Java!Table!Length(op.code) = 1
      /\ Java!Throws(op, v) <=> op.code \in {"div", "rem"} /\ op.type \in {"Int", "Long"} /\ v[2] = 0
  BY <1>1, ComputeFacts
<1>3. Java!Operands(op) = <<k, k>> /\ Len(Java!Operands(op)) \in Nat
  <2>1. Java!Operands(op) = <<op.type, op.type>>
    BY OperandsAre
  <2> QED
    BY <2>1
<1>4. p = At(Expanded(BelowOf(op)), frame.locals, v) /\ p.ok = TRUE /\ p.got = v /\ v[1] \in Values(k) /\ v[2] \in Values(k)
  <2>1. p = PopAll(frame, <<k, k>>)
    OBVIOUS
  <2>2. k \in Five \ {"Ref"} /\ Java!Operands(op) = <<k, k>> /\ op.code \notin Java!StackCodes
    BY <1>1, <1>2, <1>3
  <2> HIDE DEF k, v
  <2>3. /\ PopAll(frame, <<k, k>>) = At(Expanded(BelowOf(op)), frame.locals, Given(op))
        /\ PopAll(frame, <<k, k>>).ok = TRUE /\ PopAll(frame, <<k, k>>).got = Given(op)
        /\ Given(op)[1] \in Values(k) /\ Given(op)[2] \in Values(k)
    BY <2>2, TwoNumbers, Zenon
  <2> QED
    BY <2>1, <2>3, Zenon DEF v
<1>5. v[1] \in Range2(bits) /\ v[2] \in Range2(bits) /\ Values(k) = Range2(bits)
  BY <1>4 DEF Values
<1>6. CASE op.code \in {"div", "rem"} /\ v[2] = 0
  <2>1. Java!Throws(op, Given(op)) /\ ThrowIt(p, NewThrown, op)
    BY <1>1, <1>2, <1>4, <1>6
  <2> QED
    BY <1>2, <1>3, <1>4, <2>1, ThrowsFromOperands
<1>7. CASE ~(op.code \in {"div", "rem"} /\ v[2] = 0)
  <2>1. ~Java!Throws(op, Given(op))
    BY <1>2, <1>7
  <2>2. Java!JavaBinary(bits, op.code, v[1], v[2]) = x /\ x \in Range2(bits)
    <3> DEFINE l == v[1]
               r == v[2]
               code == op.code
    <3>1. l \in Range2(bits) /\ r \in Range2(bits) /\ code \in {"add", "sub", "mul", "div", "rem", "and", "or", "xor"}
          /\ (code \in {"div", "rem"} => r # 0)
      BY <1>5, <1>7 DEF BinaryCodes
    <3> HIDE DEF l, r, code
    <3>2. Java!JavaBinary(bits, code, l, r) = Binary(bits, code, l, r) /\ Binary(bits, code, l, r) \in Range2(bits)
      BY <3>1, BinaryAgrees
    <3> QED
      BY <3>2 DEF l, r, code
  <2>3. Java!Pushed(op, Given(op)) = <<Java!Value(k, x)>>
    BY <1>2, <2>2, PushedResults
  <2>4. Step(Push(p, k, x), 1)
    <3>1. Step(IF p.ok THEN Push(p, op.type, Binary(bits, op.code, p.got[1], p.got[2])) ELSE p, 1)
      BY <1>4, <1>7
    <3> QED
      BY <1>4, <3>1, Zenon
  <2>5. Slot(k, x) \in JavaValues
    <3>1. x \in Values(k)
      BY <1>5, <2>2
    <3> HIDE DEF x, k
    <3> QED
      BY <1>1, <3>1, ValueIs
  <2> HIDE DEF x, k
  <2> QED
    BY <1>1, <1>2, <1>3, <1>4, <2>1, <2>3, <2>4, <2>5, ComputesTwo DEF v
<1> QED
  BY <1>6, <1>7

LEMMA ShiftInStep ==
  ASSUME NEW op, Ready(op), op.code \in ShiftCodes, NEW bits \in Nat \ {0},
         \/ op.type = "Int" /\ bits = IntBits
         \/ op.type = "Long" /\ bits = LongBits,
         NEW p, p = PopAll(frame, <<op.type, "Int">>),
         Step(IF p.ok THEN Push(p, op.type, Shift(bits, op.code, p.got[1], p.got[2])) ELSE p, 1)
  PROVE  InStep'
<1> DEFINE k == op.type
           v == Given(op)
           x == Shift(bits, op.code, v[1], v[2])
<1>1. /\ op.code \in ComputeCodes /\ k \in Five /\ k \in {"Int", "Long"} /\ k # "Ref" /\ op.code \notin {"div", "rem"} /\ "Int" \in Five
  BY DEF ComputeCodes, Five, ShiftCodes
<1>2. /\ Plain(op) /\ op.code \notin Jumps /\ op.code \notin Java!StackCodes
      /\ op.result = "Void" /\ Java!Table!Length(op.code) = 1 /\ ~Java!Throws(op, Given(op))
  BY <1>1, ComputeFacts
<1>3. Java!Operands(op) = <<k, "Int">>
  <2>1. Java!Operands(op) = <<op.type, "Int">>
    BY OperandsAre
  <2> QED
    BY <2>1
<1>4. p = At(Expanded(BelowOf(op)), frame.locals, v) /\ p.ok = TRUE /\ p.got = v /\ v[1] \in Values(k) /\ v[2] \in Values("Int")
  <2>1. p = PopAll(frame, <<k, "Int">>)
    OBVIOUS
  <2>2. k \in Five \ {"Ref"} /\ "Int" \in Five \ {"Ref"} /\ Java!Operands(op) = <<k, "Int">> /\ op.code \notin Java!StackCodes
    BY <1>1, <1>2, <1>3 DEF Five
  <2> HIDE DEF k, v
  <2>3. /\ PopAll(frame, <<k, "Int">>) = At(Expanded(BelowOf(op)), frame.locals, Given(op))
        /\ PopAll(frame, <<k, "Int">>).ok = TRUE /\ PopAll(frame, <<k, "Int">>).got = Given(op)
        /\ Given(op)[1] \in Values(k) /\ Given(op)[2] \in Values("Int")
    BY <2>2, TwoNumbers, Zenon
  <2> QED
    BY <2>1, <2>3, Zenon DEF v
<1>5. v[1] \in Range2(bits) /\ v[2] \in Int /\ Values(k) = Range2(bits)
  <2>1. v[2] \in Range2(IntBits) /\ IntBits \in Nat \ {0}
    BY <1>4, WidthsAssumption DEF Values
  <2>2. v[2] \in Int
    BY <2>1, WrapKeeps
  <2> QED
    BY <1>4, <2>2 DEF Values
<1>6. Java!JavaShift(bits, op.code, v[1], v[2]) = x /\ x \in Range2(bits)
  <2> DEFINE l == v[1]
             s == v[2]
             code == op.code
  <2>1. l \in Range2(bits) /\ s \in Int /\ code \in {"shl", "shr", "ushr"}
    BY <1>5 DEF ShiftCodes
  <2> HIDE DEF l, s, code
  <2>2. Java!JavaShift(bits, code, l, s) = Shift(bits, code, l, s) /\ Shift(bits, code, l, s) \in Range2(bits)
    BY <2>1, ShiftAgrees
  <2> QED
    BY <2>2 DEF l, s, code
<1>7. Java!Pushed(op, Given(op)) = <<Java!Value(k, x)>>
  BY <1>2, <1>6, PushedResults
<1>8. Step(Push(p, k, x), 1)
  BY <1>4, Zenon
<1>9. Slot(k, x) \in JavaValues
  <2>1. x \in Values(k)
    BY <1>5, <1>6
  <2> HIDE DEF x, k
  <2> QED
    BY <1>1, <2>1, ValueIs
<1> HIDE DEF x, k
<1> QED
  BY <1>1, <1>2, <1>3, <1>4, <1>7, <1>8, <1>9, ComputesTwo DEF v

\* The operand of an instruction that has one, and its result.
LEMMA OneInStep ==
  ASSUME NEW op, Ready(op), op.code \in {"neg", "convert"}, op.type \in Five, NEW r \in Five, NEW x, Slot(r, x) \in JavaValues,
         Java!Pushed(op, Given(op)) = <<Java!Value(r, x)>>, Step(Push(Pop(frame, op.type), r, x), 1)
  PROVE  InStep'
<1> DEFINE k == op.type
           p == Pop(frame, op.type)
<1>1. op.code \in ComputeCodes /\ op.code \notin {"div", "rem"} /\ k \in Five
  BY DEF ComputeCodes
<1>2. /\ Plain(op) /\ op.code \notin Jumps /\ op.code \notin Java!StackCodes
      /\ Java!Table!Length(op.code) = 1 /\ ~Java!Throws(op, Given(op))
  BY <1>1, ComputeFacts
<1>3. Java!Operands(op) = <<k>>
  <2>1. Java!Operands(op) = <<op.type>>
    BY OperandsAre
  <2> QED
    BY <2>1
<1>4. p = At(Expanded(BelowOf(op)), frame.locals, Given(op)) /\ Step(Push(p, r, x), 1)
  <2> HIDE DEF k
  <2>1. Pop(frame, k) = At(Expanded(BelowOf(op)), frame.locals, Given(op))
    BY <1>1, <1>2, <1>3, OneOperand
  <2> QED
    BY <2>1 DEF k
<1> HIDE DEF p, k
<1> QED
  BY <1>1, <1>2, <1>3, <1>4, ComputesOne

LEMMA OneGiven ==
  ASSUME NEW op, Ready(op), op.code \in {"neg", "convert"}, op.type \in Numbers
  PROVE  /\ Pop(frame, op.type).ok = TRUE /\ Pop(frame, op.type).got = Given(op) /\ Given(op)[1] \in Values(op.type)
         /\ PopAll(frame, <<op.type>>) = Pop(frame, op.type)
<1> DEFINE k == op.type
<1>1. op.code \notin Java!StackCodes /\ Java!Operands(op) = <<k>> /\ k \in Five /\ k # "Ref"
  BY OperandsAre DEF Java!StackCodes, Numbers, Five
<1> HIDE DEF k
<1>2. PopAll(frame, <<k>>) = Pop(frame, k)
  BY <1>1, OneOperand
<1>3. Pop(frame, k).ok = TRUE /\ Pop(frame, k).got = Given(op)
  BY <1>1, OneOperand
<1>4. Given(op)[1] \in Values(k)
  BY <1>1, OneOperand
<1> QED
  BY <1>2, <1>3, <1>4 DEF k

LEMMA NegInStep ==
  ASSUME NEW op, Ready(op), op.code = "neg", NEW bits \in Nat \ {0},
         \/ op.type = "Int" /\ bits = IntBits
         \/ op.type = "Long" /\ bits = LongBits,
         NEW p, p = Pop(frame, op.type),
         Step(IF p.ok THEN Push(p, op.type, Wrap(bits, -p.got[1])) ELSE p, 1)
  PROVE  InStep'
<1> DEFINE k == op.type
           x == Wrap(bits, -Given(op)[1])
<1>1. op.code \in ComputeCodes /\ k \in Five /\ k \in Numbers /\ k # "Ref"
  BY DEF ComputeCodes, Five, Numbers
<1>2. p.ok = TRUE /\ p.got = Given(op) /\ Given(op)[1] \in Values(k)
  BY <1>1, OneGiven
<1>3. -Given(op)[1] \in Int /\ Values(k) = Range2(bits)
  <2>1. Values(k) = Range2(bits)
    BY DEF Values
  <2>2. Given(op)[1] \in Int
    BY <1>2, <2>1, WrapKeeps
  <2> QED
    BY <2>1, <2>2
<1>4. Java!Congruent(bits, -Given(op)[1]) = x /\ x \in Values(k)
  BY <1>3, WrapIsCongruent, CongruentIsWrap
<1>5. Java!Pushed(op, Given(op)) = <<Java!Value(k, x)>>
  BY <1>1, <1>4, ComputeFacts, PushedResults
<1>6. Step(Push(Pop(frame, k), k, x), 1)
  BY <1>2, Zenon
<1> HIDE DEF x
<1>7. Slot(k, x) \in JavaValues
  BY <1>1, <1>4, ValueIs
<1> QED
  BY <1>1, <1>5, <1>6, <1>7, OneInStep

LEMMA IntegerArithmeticInStep ==
  ASSUME NEW op, Ready(op), NEW bits \in Nat \ {0}, IntegerArithmetic(op, bits),
         \/ op.type = "Int" /\ bits = IntBits
         \/ op.type = "Long" /\ bits = LongBits
  PROVE  InStep'
<1> DEFINE p == PopAll(frame, <<op.type, op.type>>)
           shift == PopAll(frame, <<op.type, "Int">>)
           v == Pop(frame, op.type)
<1>1. \/ /\ op.code \in {"add", "sub", "mul", "and", "or", "xor"}
         /\ Step(IF p.ok THEN Push(p, op.type, Binary(bits, op.code, p.got[1], p.got[2])) ELSE p, 1)
      \/ /\ op.code \in {"div", "rem"}
         /\ IF p.ok /\ p.got[2] = 0 THEN ThrowIt(p, NewThrown, op)
            ELSE Step(IF p.ok THEN Push(p, op.type, Binary(bits, op.code, p.got[1], p.got[2])) ELSE p, 1)
      \/ /\ op.code = "neg"
         /\ Step(IF v.ok THEN Push(v, op.type, Wrap(bits, -v.got[1])) ELSE v, 1)
      \/ /\ op.code \in {"shl", "shr", "ushr"}
         /\ Step(IF shift.ok THEN Push(shift, op.type, Shift(bits, op.code, shift.got[1], shift.got[2])) ELSE shift, 1)
  BY Zenon DEF IntegerArithmetic
<1>2. CASE op.code \in {"add", "sub", "mul", "div", "rem", "and", "or", "xor"}
  <2>1. op.code \in BinaryCodes /\ op.code \notin {"shl", "shr", "ushr"} /\ op.code # "neg"
    BY <1>2 DEF BinaryCodes
  <2> DEFINE a == op.code \in {"div", "rem"}
             b == p.ok
             c == p.got[2] = 0
             thrown == ThrowIt(p, NewThrown, op)
             stepped == Step(IF p.ok THEN Push(p, op.type, Binary(bits, op.code, p.got[1], p.got[2])) ELSE p, 1)
  <2>2. op.code \in {"add", "sub", "mul", "and", "or", "xor"} => ~a
    OBVIOUS
  <2>3. stepped \/ (a /\ IF b /\ c THEN thrown ELSE stepped)
    BY <1>1, <2>1, Zenon
  <2>4. (stepped /\ ~a) \/ (a /\ IF b /\ c THEN thrown ELSE stepped)
    BY <1>1, <2>1, <2>2, Zenon
  <2>5. IF b /\ a /\ c THEN thrown ELSE stepped
    <3> HIDE DEF a, b, c, thrown, stepped
    <3> QED
      BY <2>4, Zenon
  <2> HIDE DEF p
  <2> QED
    BY <2>1, <2>5, BinaryInStep, Zenon DEF p
<1>3. CASE op.code = "neg"
  <2>1. Step(IF v.ok THEN Push(v, op.type, Wrap(bits, -v.got[1])) ELSE v, 1)
    <3>1. op.code \notin {"add", "sub", "mul", "and", "or", "xor"} /\ op.code \notin {"div", "rem"} /\ op.code \notin {"shl", "shr", "ushr"}
      BY <1>3
    <3> QED
      BY <1>1, <3>1, Zenon
  <2> QED
    BY <1>3, <2>1, NegInStep, Zenon
<1>4. CASE op.code \in {"shl", "shr", "ushr"}
  <2>1. op.code \in ShiftCodes /\ Step(IF shift.ok THEN Push(shift, op.type, Shift(bits, op.code, shift.got[1], shift.got[2])) ELSE shift, 1)
    <3>1. op.code \notin {"add", "sub", "mul", "and", "or", "xor"} /\ op.code \notin {"div", "rem"} /\ op.code # "neg"
          /\ op.code \in ShiftCodes
      BY <1>4 DEF ShiftCodes
    <3> QED
      BY <1>1, <3>1, Zenon
  <2> QED
    BY <2>1, ShiftInStep, Zenon
<1> QED
  BY <1>1, <1>2, <1>3, <1>4

LEMMA IntArithmeticInStep ==
  ASSUME NEW op, Ready(op), IntArithmetic(op)
  PROVE  InStep'
<1>1. CASE op.type = "Int" /\ IntegerArithmetic(op, IntBits)
  <2>1. IntBits \in Nat \ {0}
    BY WidthsAssumption
  <2> QED
    BY <1>1, <2>1, IntegerArithmeticInStep
<1>2. CASE ~(op.type = "Int" /\ IntegerArithmetic(op, IntBits))
  BY <1>2, IincInStep, Zenon DEF IntArithmetic
<1> QED
  BY <1>1, <1>2

LEMMA LongArithmeticInStep ==
  ASSUME NEW op, Ready(op), op.type = "Long", IntegerArithmetic(op, LongBits)
  PROVE  InStep'
<1>1. LongBits \in Nat \ {0}
  BY WidthsAssumption
<1> QED
  BY <1>1, IntegerArithmeticInStep

LEMMA SignsAreInts ==
  ASSUME NEW x \in {-1, 0, 1}
  PROVE  Slot("Int", x) \in JavaValues
<1>1. IntBits \in Nat \ {0} /\ IntBits - 2 \in Nat /\ IntBits - 1 = (IntBits - 2) + 1
  BY WidthsAssumption
<1>2. 2 ^ (IntBits - 1) = 2 * 2 ^ (IntBits - 2) /\ 2 ^ (IntBits - 2) \in Nat \ {0}
  BY <1>1, PowerDoubles, PowerIsNatural
<1> DEFINE h == 2 ^ (IntBits - 2)
<1>3. h \in Nat \ {0} /\ 2 ^ (IntBits - 1) = 2 * h
  BY <1>2
<1> HIDE DEF h
<1>4. x \in Range2(IntBits)
  BY <1>3 DEF Range2
<1> QED
  BY <1>4, ValueIs DEF Values, Five

LEMMA TwoGiven ==
  ASSUME NEW op, Ready(op), op.code \in BinaryCodes \cup {"cmp", "cmpl", "cmpg"}, op.type \in Numbers,
         NEW p, p = PopAll(frame, <<op.type, op.type>>)
  PROVE  /\ p.ok = TRUE /\ p.got = Given(op) /\ Given(op)[1] \in Values(op.type) /\ Given(op)[2] \in Values(op.type)
         /\ p = At(Expanded(BelowOf(op)), frame.locals, Given(op))
<1> DEFINE k == op.type
<1>1. op.code \notin Java!StackCodes /\ Java!Operands(op) = <<k, k>> /\ k \in Five /\ k # "Ref"
  <2>1. Java!Operands(op) = <<op.type, op.type>>
    BY OperandsAre
  <2> QED
    BY <2>1 DEF Java!StackCodes, Numbers, Five, BinaryCodes
<1>2. p = PopAll(frame, <<k, k>>)
  OBVIOUS
<1> HIDE DEF k
<1>3. PopAll(frame, <<k, k>>).ok = TRUE /\ PopAll(frame, <<k, k>>).got = Given(op)
  BY <1>1, TwoOperands
<1>4. PopAll(frame, <<k, k>>) = At(Expanded(BelowOf(op)), frame.locals, Given(op))
  BY <1>1, TwoOperands
<1>5. Given(op)[1] \in Values(k) /\ Given(op)[2] \in Values(k)
  BY <1>1, TwoOperands
<1> QED
  BY <1>2, <1>3, <1>4, <1>5, Zenon DEF k

LEMMA TwoInStep ==
  ASSUME NEW op, Ready(op), op.code \in BinaryCodes \cup {"cmp", "cmpl", "cmpg"}, op.type \in Numbers,
         op.code \in {"div", "rem"} => op.type \notin {"Int", "Long"},
         NEW r \in Five, NEW x, Slot(r, x) \in JavaValues, Java!Pushed(op, Given(op)) = <<Java!Value(r, x)>>,
         NEW p, p = PopAll(frame, <<op.type, op.type>>), Step(Push(p, r, x), 1)
  PROVE  InStep'
<1> DEFINE k == op.type
<1>1. op.code \in ComputeCodes /\ k \in Five
  BY DEF ComputeCodes, Numbers, Five
<1>2. /\ Plain(op) /\ op.code \notin Jumps /\ op.code \notin Java!StackCodes
      /\ Java!Table!Length(op.code) = 1 /\ ~Java!Throws(op, Given(op))
  BY <1>1, ComputeFacts
<1>3. Java!Operands(op) = <<k, k>>
  <2>1. Java!Operands(op) = <<op.type, op.type>>
    BY OperandsAre
  <2> QED
    BY <2>1
<1>4. p = At(Expanded(BelowOf(op)), frame.locals, Given(op))
  BY TwoGiven
<1> HIDE DEF k
<1> QED
  BY <1>1, <1>2, <1>3, <1>4, ComputesTwo

LEMMA NaNIs ==
  ASSUME NEW top
  PROVE  Java!NaN(top) = NaN(top)
BY DEF Java!NaN, NaN

LEMMA FloatingFacts ==
  ASSUME NEW op, NEW top, \/ op.type = "Float" /\ top = FloatTop
                          \/ op.type = "Double" /\ top = DoubleTop
  PROVE  top \in Nat /\ Values(op.type) = -top .. NaN(top) /\ op.type \in Five /\ op.type \in Numbers /\ op.type # "Ref"
BY FormatsAssumption DEF Values, Five, Numbers

LEMMA FloatingBinaryInStep ==
  ASSUME NEW op, Ready(op), NEW top, \/ op.type = "Float" /\ top = FloatTop
                                     \/ op.type = "Double" /\ top = DoubleTop,
         op.code \in {"add", "sub", "mul", "div", "rem"}, NEW p, p = PopAll(frame, <<op.type, op.type>>),
         Step(IF p.ok THEN Push(p, op.type, Ieee(top, op.code, p.got[1], p.got[2])) ELSE p, 1)
  PROVE  InStep'
<1> DEFINE v == Given(op)
           x == Ieee(top, op.code, v[1], v[2])
           k == op.type
<1>1. top \in Nat /\ Values(k) = -top .. NaN(top) /\ k \in Five /\ k \in Numbers /\ k # "Ref" /\ op.code \in BinaryCodes
      /\ op.code \in BinaryCodes \cup {"cmp", "cmpl", "cmpg"} /\ op.code \in ComputeCodes
  BY FloatingFacts DEF BinaryCodes, ComputeCodes
<1>2. p.ok = TRUE /\ p.got = v /\ v[1] \in Values(k) /\ v[2] \in Values(k)
  BY <1>1, TwoGiven
<1>3. x \in Values(k)
  <2> DEFINE l == v[1]
             r == v[2]
             code == op.code
  <2>1. l \in -top .. NaN(top) /\ r \in -top .. NaN(top) /\ code \in {"add", "sub", "mul", "div", "rem"}
    BY <1>1, <1>2
  <2> HIDE DEF l, r, code
  <2>2. Ieee(top, code, l, r) \in -top .. NaN(top)
    BY <1>1, <2>1, IeeeStays
  <2> QED
    BY <1>1, <2>2 DEF l, r, code
<1>4. Java!Ieee(top, op.code, v[1], v[2]) = x
  BY Zenon DEF Java!Ieee, Ieee, Java!Infinite, Infinite, Java!NaN, NaN, Java!Clamp, Clamp, Java!Compare, Compare,
     Java!Quotient, Quotient, Java!Magnitude, Magnitude
<1>5. Java!Pushed(op, Given(op)) = <<Java!Value(k, x)>>
  BY <1>1, <1>4, ComputeFacts, PushedResults
<1>6. Step(Push(p, k, x), 1)
  BY <1>2, Zenon
<1> HIDE DEF x
<1>7. Slot(k, x) \in JavaValues
  BY <1>1, <1>3, ValueIs
<1> QED
  BY <1>1, <1>5, <1>6, <1>7, TwoInStep

LEMMA FloatingNegInStep ==
  ASSUME NEW op, Ready(op), NEW top, \/ op.type = "Float" /\ top = FloatTop
                                     \/ op.type = "Double" /\ top = DoubleTop,
         op.code = "neg", NEW p, p = PopAll(frame, <<op.type>>),
         Step(IF p.ok THEN Push(p, op.type, Negated(top, p.got[1])) ELSE p, 1)
  PROVE  InStep'
<1> DEFINE x == Negated(top, Given(op)[1])
           k == op.type
<1>1. top \in Nat /\ Values(k) = -top .. NaN(top) /\ k \in Five /\ k \in Numbers /\ k # "Ref" /\ op.code \in ComputeCodes
  BY FloatingFacts DEF ComputeCodes
<1>2. p.ok = TRUE /\ p.got = Given(op) /\ Given(op)[1] \in Values(k) /\ p = Pop(frame, k)
  BY <1>1, OneGiven
<1>3. x \in Values(k)
  BY <1>1, <1>2 DEF Negated, NaN
<1>4. Java!Negated(top, Given(op)[1]) = x
  BY DEF Java!Negated, Negated, Java!NaN, NaN
<1>5. Java!Pushed(op, Given(op)) = <<Java!Value(k, x)>>
  BY <1>1, <1>4, ComputeFacts, PushedResults
<1>6. Step(Push(Pop(frame, k), k, x), 1)
  BY <1>2, Zenon
<1> HIDE DEF x
<1>7. Slot(k, x) \in JavaValues
  BY <1>1, <1>3, ValueIs
<1> QED
  BY <1>1, <1>5, <1>6, <1>7, OneInStep

LEMMA FloatingCompareInStep ==
  ASSUME NEW op, Ready(op), NEW top, \/ op.type = "Float" /\ top = FloatTop
                                     \/ op.type = "Double" /\ top = DoubleTop,
         op.code \in {"cmpl", "cmpg"}, NEW p, p = PopAll(frame, <<op.type, op.type>>),
         Step(IF p.ok THEN Push(p, "Int", CompareFloat(top, p.got[1], p.got[2], op.code = "cmpg")) ELSE p, 1)
  PROVE  InStep'
<1> DEFINE v == Given(op)
           x == CompareFloat(top, v[1], v[2], op.code = "cmpg")
           k == op.type
           r == "Int"
<1>1. top \in Nat /\ Values(k) = -top .. NaN(top) /\ k \in Five /\ k \in Numbers /\ k # "Ref"
      /\ op.code \in BinaryCodes \cup {"cmp", "cmpl", "cmpg"} /\ op.code \in ComputeCodes /\ op.code \notin {"div", "rem"}
      /\ r \in Five
  BY FloatingFacts DEF ComputeCodes, Five
<1>2. p.ok = TRUE /\ p.got = v /\ v[1] \in Values(k) /\ v[2] \in Values(k)
  BY <1>1, TwoGiven
<1>3. v[1] \in Int /\ v[2] \in Int
  BY <1>1, <1>2, Floats
<1>4. x \in {-1, 0, 1}
  BY <1>3, CompareAgrees DEF CompareFloat
<1>5. (IF op.type = "Float" THEN FloatTop ELSE DoubleTop) = top
  OBVIOUS
<1>6. (IF NaN(top) \notin {v[1], v[2]} THEN Java!Sign(v[1] - v[2]) ELSE IF op.code = "cmpl" THEN -1 ELSE 1) = x
  BY <1>3, CompareAgrees DEF CompareFloat
<1>7. Java!Pushed(op, Given(op)) = <<Java!Value(r, x)>>
  <2>1. op.result = "Void"
    BY <1>1, ComputeFacts
  <2>2. Java!Pushed(op, v) =
           <<Java!Value("Int", IF Java!NaN(IF op.type = "Float" THEN FloatTop ELSE DoubleTop) \notin {v[1], v[2]}
                               THEN Java!Sign(v[1] - v[2]) ELSE IF op.code = "cmpl" THEN -1 ELSE 1)>>
    BY <2>1, PushedOthers
  <2> HIDE DEF x
  <2>3. Java!NaN(top) = NaN(top)
    BY NaNIs
  <2> QED
    BY <1>5, <1>6, <2>2, <2>3, Zenon
<1>8. Step(Push(p, r, x), 1)
  BY <1>2, Zenon
<1>9. Slot(r, x) \in JavaValues
  <2> HIDE DEF x
  <2>1. x \in {-1, 0, 1}
    BY <1>4
  <2> QED
    BY <2>1, SignsAreInts
<1> HIDE DEF x, k, r
<1> QED
  BY <1>1, <1>7, <1>8, <1>9, TwoInStep DEF k

LEMMA FloatingInStep ==
  ASSUME NEW op, Ready(op), NEW top, \/ op.type = "Float" /\ top = FloatTop
                                     \/ op.type = "Double" /\ top = DoubleTop,
         FloatingArithmetic(op, top)
  PROVE  InStep'
<1> DEFINE p == PopAll(frame, <<op.type, op.type>>)
           q == PopAll(frame, <<op.type>>)
<1>1. \/ /\ op.code \in {"add", "sub", "mul", "div", "rem"}
         /\ Step(IF p.ok THEN Push(p, op.type, Ieee(top, op.code, p.got[1], p.got[2])) ELSE p, 1)
      \/ /\ op.code = "neg"
         /\ Step(IF q.ok THEN Push(q, op.type, Negated(top, q.got[1])) ELSE q, 1)
      \/ /\ op.code \in {"cmpl", "cmpg"}
         /\ Step(IF p.ok THEN Push(p, "Int", CompareFloat(top, p.got[1], p.got[2], op.code = "cmpg")) ELSE p, 1)
  BY Zenon DEF FloatingArithmetic, Compute
<1>2. CASE /\ op.code \in {"add", "sub", "mul", "div", "rem"}
           /\ Step(IF p.ok THEN Push(p, op.type, Ieee(top, op.code, p.got[1], p.got[2])) ELSE p, 1)
  BY <1>2, FloatingBinaryInStep, Zenon
<1>3. CASE op.code = "neg" /\ Step(IF q.ok THEN Push(q, op.type, Negated(top, q.got[1])) ELSE q, 1)
  BY <1>3, FloatingNegInStep, Zenon
<1>4. CASE /\ op.code \in {"cmpl", "cmpg"}
           /\ Step(IF p.ok THEN Push(p, "Int", CompareFloat(top, p.got[1], p.got[2], op.code = "cmpg")) ELSE p, 1)
  BY <1>4, FloatingCompareInStep, Zenon
<1> QED
  BY <1>1, <1>2, <1>3, <1>4, Zenon

LEMMA LongCompareInStep ==
  ASSUME NEW op, Ready(op), op.type = "Long", op.code = "cmp",
         Compute(<<"Long", "Long">>, "Int", LAMBDA v : Compare(v[1], v[2]), 1)
  PROVE  InStep'
<1> DEFINE p == PopAll(frame, <<op.type, op.type>>)
           v == Given(op)
           x == Compare(v[1], v[2])
           r == "Int"
<1>1. op.type \in Numbers /\ op.code \in BinaryCodes \cup {"cmp", "cmpl", "cmpg"} /\ op.code \in ComputeCodes
      /\ op.code \notin {"div", "rem"} /\ r \in Five
  BY DEF Numbers, ComputeCodes, Five
<1>2. Step(IF p.ok THEN Push(p, "Int", Compare(p.got[1], p.got[2])) ELSE p, 1)
  BY Zenon DEF Compute
<1>3. p.ok = TRUE /\ p.got = v /\ v[1] \in Values("Long") /\ v[2] \in Values("Long")
  BY <1>1, TwoGiven
<1>4. v[1] \in Int /\ v[2] \in Int
  <2>1. LongBits \in Nat \ {0} /\ Values("Long") = Range2(LongBits)
    BY WidthsAssumption DEF Values
  <2> QED
    BY <1>3, <2>1, WrapKeeps
<1>5. x \in {-1, 0, 1} /\ Java!Sign(v[1] - v[2]) = x
  BY <1>4, CompareAgrees
<1>6. Java!Pushed(op, Given(op)) = <<Java!Value(r, x)>>
  BY <1>1, <1>5, ComputeFacts, PushedOthers
<1>7. Step(Push(p, r, x), 1)
  BY <1>2, <1>3, Zenon
<1> HIDE DEF x
<1>8. Slot(r, x) \in JavaValues
  BY <1>5, SignsAreInts
<1> HIDE DEF r, p
<1> QED
  BY <1>1, <1>6, <1>7, <1>8, TwoInStep DEF p

LEMMA LongBitsAndCompareInStep ==
  ASSUME NEW op, Ready(op), LongBitsAndCompare(op)
  PROVE  InStep'
<1>1. CASE op.type = "Long" /\ IntegerArithmetic(op, LongBits)
  BY <1>1, LongArithmeticInStep
<1>2. CASE op.type = "Long" /\ op.code = "cmp" /\ Compute(<<"Long", "Long">>, "Int", LAMBDA v : Compare(v[1], v[2]), 1)
  BY <1>2, LongCompareInStep
<1> QED
  BY <1>1, <1>2 DEF LongBitsAndCompare

LEMMA ConversionsInStep ==
  ASSUME NEW op, Ready(op), Conversions(op)
  PROVE  InStep'
<1> DEFINE q == PopAll(frame, <<op.type>>)
           r == CastKind(op.to)
           x == Converted(op.type, op.to, Given(op)[1])
<1>1. op.code = "convert" /\ Step(IF q.ok THEN Push(q, r, Converted(op.type, op.to, q.got[1])) ELSE q, 1)
  BY Zenon DEF Conversions, Compute, CastKind
<1>2. <<op.type, op.to>> \in Casts
  BY <1>1, Agreement DEF Encoded, TypesEncoded
<1>3. op.type \in Numbers /\ op.type \in Five /\ r \in Five /\ r # "Ref" /\ op.code \in ComputeCodes
  BY <1>1, <1>2 DEF Casts, Numbers, Five, CastKind, ComputeCodes
<1>4. q = Pop(frame, op.type) /\ q.ok = TRUE /\ q.got = Given(op) /\ Given(op)[1] \in Values(op.type)
  BY <1>1, <1>3, OneGiven
<1>5. x \in Values(r) /\ Java!JavaConverted(op.type, op.to, Given(op)[1]) = x
  BY <1>2, <1>4, CastsAgree
<1>6. Java!Pushed(op, Given(op)) = <<Java!Value(r, x)>>
  BY <1>1, <1>3, <1>5, ComputeFacts, PushedOthers
<1>7. Step(Push(Pop(frame, op.type), r, x), 1)
  BY <1>1, <1>4, Zenon
<1> HIDE DEF x, r
<1>8. Slot(r, x) \in JavaValues
  BY <1>3, <1>5, ValueIs
<1> QED
  BY <1>1, <1>3, <1>6, <1>7, <1>8, OneInStep

-----------------------------------------------------------------------------
(* Branches.                                                               *)

LEMMA HoldsIsTruth ==
  ASSUME NEW condition, NEW a, NEW b,
         \/ condition \in {"eq", "ne", "lt", "ge", "gt", "le"} /\ a \in Int /\ b \in Int
         \/ condition \in {"eq", "ne"}
  PROVE  Holds(condition, a, b) <=> Java!Truth(condition, a, b)
<1>1. CASE condition \in {"eq", "ne"}
  BY <1>1 DEF Holds, Java!Truth
<1>2. CASE condition = "lt" /\ a \in Int /\ b \in Int
  BY <1>2 DEF Holds, Java!Truth
<1>3. CASE condition = "ge" /\ a \in Int /\ b \in Int
  BY <1>3 DEF Holds, Java!Truth
<1>4. CASE condition = "gt" /\ a \in Int /\ b \in Int
  BY <1>4 DEF Holds, Java!Truth
<1>5. CASE condition = "le" /\ a \in Int /\ b \in Int
  BY <1>5 DEF Holds, Java!Truth
<1> QED
  BY <1>1, <1>2, <1>3, <1>4, <1>5

LEMMA JumpFacts ==
  ASSUME NEW op, Ready(op), op.code \in Jumps
  PROVE  /\ op.code \notin Java!StackCodes /\ Plain(op) /\ ~Java!Throws(op, Given(op)) /\ Java!Pushed(op, Given(op)) = <<>>
         /\ op.offset \in Int
<1>1. /\ op.code \notin Java!StackCodes /\ Plain(op) /\ op.code \notin AnsweredCodes \cup {"checkcast", "athrow", "div", "rem"}
      /\ op.code \in Silent
  BY DEF Jumps, Java!StackCodes, Plain, Ordinary, AnsweredCodes, HeapCodes, InvokeCodes, Silent
<1>2. op.result = "Void" /\ op.offset \in Int /\ Encoded(op)
  BY <1>1, Agreement DEF Encoded, AnswersEncoded, BranchesEncoded
<1> QED
  BY <1>1, <1>2, Calm, PushedAnswers

\* Where the two agree on the target, they are in step.
LEMMA JumpInStep ==
  ASSUME NEW op, Ready(op), op.code \in Jumps, Len(Java!Operands(op)) \in Nat,
         NEW p, NEW g, p = At(Expanded(BelowOf(op)), frame.locals, g),
         NEW target \in Int, Java!Continues(op, java, Given(op)) = target, Proceed(p, target)
  PROVE  InStep'
BY JumpFacts, Leaves

LEMMA BranchInStep ==
  ASSUME NEW op, Ready(op), op.code \in {"if", "if_icmp", "ifnull", "if_acmp"}, Len(Java!Operands(op)) \in Nat,
         NEW p, NEW g, p = At(Expanded(BelowOf(op)), frame.locals, g), NEW taken, Branch(p, taken, op),
         taken <=> \/ op.code = "if" /\ Java!Truth(op.condition, Given(op)[1], 0)
                   \/ op.code = "ifnull" /\ Java!Truth(op.condition, Given(op)[1], Null)
                   \/ op.code \in {"if_icmp", "if_acmp"} /\ Java!Truth(op.condition, Given(op)[1], Given(op)[2])
  PROVE  InStep'
<1>1. op.code \in Jumps /\ Java!Table!Length(op.code) = 3
  BY LengthsCounted DEF Jumps, ThreeBytes
<1>2. pc \in Int /\ java.pc = pc /\ op.offset \in Int
  BY <1>1, Agreement, JumpFacts
<1> DEFINE target == IF taken THEN pc + op.offset ELSE pc + 3
<1>3. target \in Int
  BY <1>2
<1>4. Java!Continues(op, java, Given(op)) = target
  BY <1>1, <1>2 DEF Java!Continues
<1>5. Proceed(p, target)
  BY DEF Branch
<1> HIDE DEF target
<1> QED
  BY <1>1, <1>3, <1>4, <1>5, JumpInStep

LEMMA IntBranchesInStep ==
  ASSUME NEW op, Ready(op), IntBranches(op)
  PROVE  InStep'
<1> DEFINE one == Pop(frame, "Int")
           two == PopAll(frame, <<"Int", "Int">>)
           k == "Int"
           v == Given(op)
<1>1. \/ op.code = "if" /\ Branch(one, one.ok /\ Holds(op.condition, one.got[1], 0), op)
      \/ op.code = "if_icmp" /\ Branch(two, two.ok /\ Holds(op.condition, two.got[1], two.got[2]), op)
  BY Zenon DEF IntBranches
<1>2. op.code \in {"if", "if_icmp"} /\ op.code \notin Java!StackCodes /\ k \in Five /\ k # "Ref"
  BY <1>1 DEF Java!StackCodes, Five
<1>3. op.condition \in {"eq", "ne", "lt", "ge", "gt", "le"}
  BY <1>2, Agreement DEF Encoded, BranchesEncoded
<1>4. \A x \in Values("Int") : x \in Int
  BY WidthsAssumption, WrapKeeps DEF Values
<1>5. CASE op.code = "if" /\ Branch(one, one.ok /\ Holds(op.condition, one.got[1], 0), op)
  <2>1. Java!Operands(op) = <<k>> /\ Len(Java!Operands(op)) \in Nat
    <3>1. Java!Operands(op) = <<"Int">>
      BY <1>5, OperandsAre
    <3> QED
      BY <3>1
  <2>2. one = At(Expanded(BelowOf(op)), frame.locals, v) /\ one.ok = TRUE /\ one.got = v /\ v[1] \in Values("Int")
    <3> HIDE DEF k
    <3>1. Pop(frame, k) = At(Expanded(BelowOf(op)), frame.locals, Given(op))
      BY <1>2, <2>1, OneOperand
    <3>2. Pop(frame, k).ok = TRUE /\ Pop(frame, k).got = Given(op)
      BY <1>2, <2>1, OneOperand
    <3>3. Given(op)[1] \in Values(k)
      BY <1>2, <2>1, OneOperand
    <3> QED
      BY <3>1, <3>2, <3>3, Zenon DEF k
  <2> DEFINE taken == one.ok /\ Holds(op.condition, one.got[1], 0)
  <2>3. taken <=> Java!Truth(op.condition, v[1], 0)
    <3>1. taken <=> Holds(op.condition, v[1], 0)
      BY <2>2, Zenon
    <3> QED
      BY <1>3, <1>4, <2>2, <3>1, HoldsIsTruth
  <2>4. Branch(one, taken, op)
    BY <1>5
  <2> HIDE DEF taken, one
  <2> QED
    BY <1>2, <1>5, <2>1, <2>2, <2>3, <2>4, BranchInStep
<1>6. CASE op.code = "if_icmp" /\ Branch(two, two.ok /\ Holds(op.condition, two.got[1], two.got[2]), op)
  <2>1. Java!Operands(op) = <<k, k>> /\ Len(Java!Operands(op)) \in Nat
    <3>1. Java!Operands(op) = <<"Int", "Int">>
      BY <1>6, OperandsAre
    <3> QED
      BY <3>1
  <2>2. two = At(Expanded(BelowOf(op)), frame.locals, v) /\ two.ok = TRUE /\ two.got = v /\ v[1] \in Values("Int") /\ v[2] \in Values("Int")
    <3> HIDE DEF k
    <3>1. PopAll(frame, <<k, k>>) = At(Expanded(BelowOf(op)), frame.locals, Given(op))
      BY <1>2, <2>1, TwoOperands
    <3>2. PopAll(frame, <<k, k>>).ok = TRUE /\ PopAll(frame, <<k, k>>).got = Given(op)
      BY <1>2, <2>1, TwoOperands
    <3>3. Given(op)[1] \in Values(k) /\ Given(op)[2] \in Values(k)
      BY <1>2, <2>1, TwoOperands
    <3> QED
      BY <3>1, <3>2, <3>3, Zenon DEF k
  <2> DEFINE taken == two.ok /\ Holds(op.condition, two.got[1], two.got[2])
  <2>3. taken <=> Java!Truth(op.condition, v[1], v[2])
    <3>1. taken <=> Holds(op.condition, v[1], v[2])
      BY <2>2, Zenon
    <3> QED
      BY <1>3, <1>4, <2>2, <3>1, HoldsIsTruth
  <2>4. Branch(two, taken, op)
    BY <1>6
  <2> HIDE DEF taken, two
  <2> QED
    BY <1>2, <1>6, <2>1, <2>2, <2>3, <2>4, BranchInStep
<1> QED
  BY <1>1, <1>5, <1>6

LEMMA RefBranchesInStep ==
  ASSUME NEW op, Ready(op), RefBranches(op)
  PROVE  InStep'
<1> DEFINE one == Pop(frame, "Ref")
           two == PopAll(frame, <<"Ref", "Ref">>)
           k == "Ref"
           v == Given(op)
<1>1. \/ op.code = "ifnull" /\ Branch(one, one.ok /\ Holds(op.condition, one.got[1], Null), op)
      \/ op.code = "if_acmp" /\ Branch(two, two.ok /\ Holds(op.condition, two.got[1], two.got[2]), op)
  BY Zenon DEF RefBranches
<1>2. op.code \in {"ifnull", "if_acmp"} /\ op.code \notin Java!StackCodes /\ k \in Five
  BY <1>1 DEF Java!StackCodes, Five
<1>3. op.condition \in {"eq", "ne"}
  BY <1>2, Agreement DEF Encoded, BranchesEncoded
<1>4. CASE op.code = "ifnull" /\ Branch(one, one.ok /\ Holds(op.condition, one.got[1], Null), op)
  <2>1. Java!Operands(op) = <<k>> /\ Len(Java!Operands(op)) \in Nat
    <3>1. Java!Operands(op) = <<"Ref">>
      BY <1>4, OperandsAre
    <3> QED
      BY <3>1
  <2>2. one = At(Expanded(BelowOf(op)), frame.locals, v) /\ one.ok = TRUE /\ one.got = v
    <3> HIDE DEF k
    <3>1. Pop(frame, k) = At(Expanded(BelowOf(op)), frame.locals, Given(op))
      BY <1>2, <2>1, OneOperand
    <3>2. Pop(frame, k).ok = TRUE /\ Pop(frame, k).got = Given(op)
      BY <1>2, <2>1, OneOperand
    <3> QED
      BY <3>1, <3>2, Zenon DEF k
  <2> DEFINE taken == one.ok /\ Holds(op.condition, one.got[1], Null)
  <2>3. taken <=> Java!Truth(op.condition, v[1], Null)
    <3>1. taken <=> Holds(op.condition, v[1], Null)
      BY <2>2, Zenon
    <3> QED
      BY <1>3, <2>2, <3>1, HoldsIsTruth
  <2>4. Branch(one, taken, op)
    BY <1>4
  <2> HIDE DEF taken, one
  <2> QED
    BY <1>2, <1>4, <2>1, <2>2, <2>3, <2>4, BranchInStep
<1>5. CASE op.code = "if_acmp" /\ Branch(two, two.ok /\ Holds(op.condition, two.got[1], two.got[2]), op)
  <2>1. Java!Operands(op) = <<k, k>> /\ Len(Java!Operands(op)) \in Nat
    <3>1. Java!Operands(op) = <<"Ref", "Ref">>
      BY <1>5, OperandsAre
    <3> QED
      BY <3>1
  <2>2. two = At(Expanded(BelowOf(op)), frame.locals, v) /\ two.ok = TRUE /\ two.got = v
    <3> HIDE DEF k
    <3>1. PopAll(frame, <<k, k>>) = At(Expanded(BelowOf(op)), frame.locals, Given(op))
      BY <1>2, <2>1, TwoOperands
    <3>2. PopAll(frame, <<k, k>>).ok = TRUE /\ PopAll(frame, <<k, k>>).got = Given(op)
      BY <1>2, <2>1, TwoOperands
    <3> QED
      BY <3>1, <3>2, Zenon DEF k
  <2> DEFINE taken == two.ok /\ Holds(op.condition, two.got[1], two.got[2])
  <2>3. taken <=> Java!Truth(op.condition, v[1], v[2])
    <3>1. taken <=> Holds(op.condition, v[1], v[2])
      BY <2>2, Zenon
    <3> QED
      BY <1>3, <2>2, <3>1, HoldsIsTruth
  <2>4. Branch(two, taken, op)
    BY <1>5
  <2> HIDE DEF taken, two
  <2> QED
    BY <1>2, <1>5, <2>1, <2>2, <2>3, <2>4, BranchInStep
<1> QED
  BY <1>1, <1>4, <1>5

LEMMA GotoInStep ==
  ASSUME NEW op, Ready(op), Goto(op)
  PROVE  InStep'
<1>1. op.code \in {"goto", "goto_w"} /\ Proceed(frame, pc + op.offset)
  BY DEF Goto
<1>2. op.code \in Jumps /\ op.code \notin Java!StackCodes /\ Java!Operands(op) = <<>>
  BY <1>1, OperandsAre DEF Jumps, Java!StackCodes
<1>3. pc \in Int /\ java.pc = pc /\ op.offset \in Int
  BY <1>2, Agreement, JumpFacts
<1> DEFINE target == pc + op.offset
           p == frame
           g == <<>>
<1>4. target \in Int /\ Java!Continues(op, java, Given(op)) = target /\ Proceed(p, target)
  BY <1>1, <1>3 DEF Java!Continues
<1>5. Len(Java!Operands(op)) \in Nat /\ p = At(Expanded(BelowOf(op)), frame.locals, g)
  BY <1>2, NoOperands
<1> HIDE DEF target, p, g
<1> QED
  BY <1>2, <1>4, <1>5, JumpInStep

\* The table of a switch begins at the next multiple of four, whatever the alignment.
LEMMA TableIsAligned ==
  ASSUME pc \in 0 .. 3
  PROVE  (CHOOSE a \in (pc + 1) .. (pc + 4) : a % 4 = 0) = SwitchBase
<1>1. SwitchBase = 4
  BY DEF SwitchBase
<1>2. 4 \in (pc + 1) .. (pc + 4) /\ 4 % 4 = 0 /\ \A a \in (pc + 1) .. (pc + 4) : a % 4 = 0 => a = 4
  BY SMTT(30)
<1>3. (CHOOSE a \in (pc + 1) .. (pc + 4) : a % 4 = 0) = 4
  BY <1>2, Zenon
<1> QED
  BY <1>1, <1>3

LEMMA SwitchWords ==
  ASSUME NEW op, Ready(op), op.code \in {"tableswitch", "lookupswitch"}, NEW n
  PROVE  /\ op.default = 1 /\ op.cases = [v \in {-1, 0} |-> v + 3]
         /\ Word(op, SwitchBase, n) = op.words[n + 1]
         /\ op.words = IF op.code = "tableswitch" THEN <<1, -1, 0, 2, 3>> ELSE <<1, 2, -1, 2, 0, 3>>
<1>1. Encoded(op) /\ pc \in 0 .. 3
  BY Agreement
<1>2. /\ op.default = 1 /\ op.cases = [v \in {-1, 0} |-> v + 3]
      /\ op.words = IF op.code = "tableswitch" THEN <<1, -1, 0, 2, 3>> ELSE <<1, 2, -1, 2, 0, 3>>
      /\ op.tableAt = CHOOSE a \in (pc + 1) .. (pc + 4) : a % 4 = 0
  BY <1>1 DEF Encoded, BranchesEncoded
<1>3. op.tableAt = SwitchBase
  BY <1>1, <1>2, TableIsAligned
<1> QED
  BY <1>2, <1>3 DEF Word

\* Taken on the key on the stack, with the target that the cases give.
LEMMA SwitchInStep ==
  ASSUME NEW op, Ready(op), op.code \in {"tableswitch", "lookupswitch"}, NEW p, p = Pop(frame, "Int"), NEW offset,
         Proceed(p, IF p.ok THEN pc + offset ELSE pc),
         p.got[1] \in Int => offset = IF p.got[1] \in {-1, 0} THEN p.got[1] + 3 ELSE 1
  PROVE  InStep'
<1> DEFINE k == "Int"
<1>1. op.code \in Jumps /\ op.code \notin Java!StackCodes /\ k \in Five /\ k # "Ref"
  BY DEF Jumps, Java!StackCodes, Five
<1>2. Java!Operands(op) = <<k>> /\ Len(Java!Operands(op)) \in Nat
  <2>1. Java!Operands(op) = <<"Int">>
    BY OperandsAre
  <2> QED
    BY <2>1
<1>3. p = At(Expanded(BelowOf(op)), frame.locals, Given(op)) /\ p.ok = TRUE /\ p.got = Given(op) /\ Given(op)[1] \in Values("Int")
  <2> HIDE DEF k
  <2>1. Pop(frame, k) = At(Expanded(BelowOf(op)), frame.locals, Given(op))
    BY <1>1, <1>2, OneOperand
  <2>2. Pop(frame, k).ok = TRUE /\ Pop(frame, k).got = Given(op)
    BY <1>1, <1>2, OneOperand
  <2>3. Given(op)[1] \in Values(k)
    BY <1>1, <1>2, OneOperand
  <2> QED
    BY <2>1, <2>2, <2>3, Zenon DEF k
<1>4. Given(op)[1] \in Int
  BY <1>3, WidthsAssumption, WrapKeeps DEF Values
<1>5. pc \in Int /\ java.pc = pc
  BY Agreement
<1> DEFINE target == pc + offset
           x == Given(op)[1]
           g == Given(op)
<1>6. x \in Int /\ offset = IF x \in {-1, 0} THEN x + 3 ELSE 1
  BY <1>3, <1>4
<1>7. op.default = 1 /\ op.cases = [v \in {-1, 0} |-> v + 3]
  BY SwitchWords
<1>8. Java!Continues(op, java, Given(op)) = target
  <2>1. Java!Continues(op, java, Given(op)) = java.pc + (IF x \in DOMAIN op.cases THEN op.cases[x] ELSE op.default)
    BY DEF Java!Continues
  <2>2. (IF x \in DOMAIN op.cases THEN op.cases[x] ELSE op.default) = offset
    BY <1>6, <1>7
  <2> QED
    BY <1>5, <2>1, <2>2
<1>9. target \in Int /\ Proceed(p, target) /\ p = At(Expanded(BelowOf(op)), frame.locals, g)
  <2>1. offset \in Int
    BY <1>6
  <2>2. Proceed(p, target)
    BY <1>3
  <2> QED
    BY <1>3, <1>5, <2>1, <2>2
<1> HIDE DEF target, g
<1> QED
  BY <1>1, <1>2, <1>8, <1>9, JumpInStep

LEMMA TableSwitchInStep ==
  ASSUME NEW op, Ready(op), TableSwitch(op)
  PROVE  InStep'
<1> DEFINE p == Pop(frame, "Int")
           default == Word(op, SwitchBase, 0)
           low == Word(op, SwitchBase, 1)
           high == Word(op, SwitchBase, 2)
           offset == IF p.got[1] < low \/ p.got[1] > high THEN default ELSE Word(op, SwitchBase, 3 + (p.got[1] - low))
<1>1. op.code = "tableswitch" /\ Proceed(p, IF p.ok THEN pc + offset ELSE pc)
  BY Zenon DEF TableSwitch
<1> DEFINE x == p.got[1]
<1>2. \A n : Word(op, SwitchBase, n) = op.words[n + 1]
  BY <1>1, SwitchWords
<1>3. op.words = <<1, -1, 0, 2, 3>>
  BY <1>1, SwitchWords
<1>4. default = 1 /\ low = -1 /\ high = 0
  BY <1>2, <1>3
<1>5. x \in Int => offset = IF x \in {-1, 0} THEN x + 3 ELSE 1
  <2> HIDE DEF x
  <2>1. ASSUME x \in Int, x \notin {-1, 0} PROVE offset = 1
    BY <1>4, <2>1 DEF x
  <2>2. ASSUME x = -1 PROVE offset = 2
    <3>1. offset = Word(op, SwitchBase, 3)
      BY <1>4, <2>2 DEF x
    <3> QED
      BY <1>2, <1>3, <3>1
  <2>3. ASSUME x = 0 PROVE offset = 3
    <3>1. offset = Word(op, SwitchBase, 4)
      BY <1>4, <2>3 DEF x
    <3> QED
      BY <1>2, <1>3, <3>1
  <2> HIDE DEF offset
  <2> QED
    BY <2>1, <2>2, <2>3
<1> QED
  BY <1>1, <1>5, SwitchInStep

LEMMA LookupSwitchInStep ==
  ASSUME NEW op, Ready(op), LookupSwitch(op)
  PROVE  InStep'
<1> DEFINE p == Pop(frame, "Int")
           default == Word(op, SwitchBase, 0)
           npairs == Word(op, SwitchBase, 1)
           hits == {i \in 0 .. (npairs - 1) : Word(op, SwitchBase, 2 + 2 * i) = p.got[1]}
           offset == IF hits = {} THEN default ELSE Word(op, SwitchBase, 3 + 2 * Min(hits))
           x == p.got[1]
<1>1. op.code = "lookupswitch" /\ Proceed(p, IF p.ok THEN pc + offset ELSE pc)
  BY Zenon DEF LookupSwitch
<1>2. \A n : Word(op, SwitchBase, n) = op.words[n + 1]
  BY <1>1, SwitchWords
<1>3. op.words = <<1, 2, -1, 2, 0, 3>>
  BY <1>1, SwitchWords
<1>4. /\ default = 1 /\ npairs = 2 /\ Word(op, SwitchBase, 2) = -1 /\ Word(op, SwitchBase, 3) = 2
      /\ Word(op, SwitchBase, 4) = 0 /\ Word(op, SwitchBase, 5) = 3
  BY <1>2, <1>3
<1>5. hits = {i \in {0, 1} : Word(op, SwitchBase, 2 + 2 * i) = x}
  <2>1. 0 .. (npairs - 1) = {0, 1}
    BY <1>4
  <2> HIDE DEF npairs, x
  <2> QED
    BY <2>1 DEF x
<1>6. x \in Int => offset = IF x \in {-1, 0} THEN x + 3 ELSE 1
  <2> HIDE DEF x, hits, default
  <2>1. ASSUME x \in Int, x \notin {-1, 0} PROVE offset = 1
    <3>1. hits = {}
      BY <1>4, <1>5, <2>1
    <3> QED
      BY <1>4, <3>1
  <2>2. ASSUME x = -1 PROVE offset = 2
    <3>1. hits = {0}
      BY <1>4, <1>5, <2>2
    <3>2. Min(hits) = 0
      BY <3>1 DEF Min
    <3>3. hits # {}
      BY <3>1
    <3> QED
      BY <1>4, <3>2, <3>3
  <2>3. ASSUME x = 0 PROVE offset = 3
    <3>1. hits = {1}
      BY <1>4, <1>5, <2>3
    <3>2. Min(hits) = 1
      BY <3>1 DEF Min
    <3>3. hits # {}
      BY <3>1
    <3> QED
      BY <1>4, <3>2, <3>3
  <2> HIDE DEF offset
  <2> QED
    BY <2>1, <2>2, <2>3
<1> QED
  BY <1>1, <1>6, SwitchInStep

-----------------------------------------------------------------------------
(* Instructions that the rest of the machine completes.                    *)

LEMMA AnsweredInStep ==
  ASSUME NEW op, Ready(op), op.code \in AnsweredCodes, NEW kinds, kinds = Java!Operands(op), Len(kinds) \in Nat,
         NEW receivers, receivers = IF Java!NeedsObject(op) THEN {1} ELSE {},
         NEW bytes \in Nat, Java!Table!Length(op.code) = bytes, Answered(op, kinds, receivers, bytes)
  PROVE  InStep'
<1> DEFINE p == PopAll(frame, kinds)
           v == Given(op)
<1>1. /\ Plain(op) /\ Ordinary(op) /\ op.code \notin Jumps /\ op.code \notin Java!StackCodes /\ op.code # "athrow"
      /\ op.code \notin {"div", "rem"} /\ op.code # "checkcast"
  BY DEF AnsweredCodes, HeapCodes, InvokeCodes, Plain, Ordinary, Java!StackCodes, Jumps
<1>2. p = At(Expanded(BelowOf(op)), frame.locals, v) /\ Len(Java!Operands(op)) \in Nat
  BY <1>1, Prepared
<1>3. p.ok = TRUE /\ p.got = v
  BY <1>2 DEF At
<1>4. Java!Throws(op, v) <=> op.throws \/ (\E i \in receivers : v[i] = Null)
  <2>1. Java!Throws(op, v) <=> op.throws \/ (Java!NeedsObject(op) /\ v[1] = Null)
    BY <1>1, Zenon DEF Java!Throws
  <2>2. (\E i \in receivers : v[i] = Null) <=> Java!NeedsObject(op) /\ v[1] = Null
    BY Zenon
  <2> QED
    BY <2>1, <2>2, Zenon
<1>5. IF p.ok /\ \E i \in receivers : p.got[i] = Null THEN ThrowIt(p, NewThrown, op)
      ELSE IF op.throws THEN ThrowIt(p, NewThrown, op)
      ELSE Step(IF op.result = "Void" THEN p ELSE Push(p, op.result, op.value), bytes)
  BY Zenon DEF Answered
<1>6. CASE Java!Throws(op, v)
  <2>1. ThrowIt(p, NewThrown, op)
    BY <1>3, <1>4, <1>5, <1>6, Zenon
  <2> HIDE DEF p
  <2> QED
    BY <1>1, <1>2, <1>6, <2>1, ThrowsFromOperands
<1>7. CASE ~Java!Throws(op, v)
  <2>1. Step(IF op.result = "Void" THEN p ELSE Push(p, op.result, op.value), bytes)
    BY <1>3, <1>4, <1>5, <1>7, Zenon
  <2>2. Java!Pushed(op, v) = IF op.result # "Void" THEN <<Java!Value(op.result, op.value)>> ELSE <<>>
    BY PushedAnswers
  <2>3. op.result # "Void" => Slot(op.result, op.value) \in JavaValues
    BY Agreement DEF Encoded, AnswersEncoded
  <2> HIDE DEF p
  <2>4. CASE op.result = "Void"
    <3> DEFINE g == Given(op)
    <3>1. Step(p, bytes) /\ Java!Pushed(op, Given(op)) = <<>> /\ p = At(Expanded(BelowOf(op)), frame.locals, g)
          /\ ~Java!Throws(op, Given(op))
      BY <1>2, <1>7, <2>1, <2>2, <2>4
    <3> HIDE DEF g
    <3> QED
      BY <1>1, <1>2, <3>1, PushesNothing
  <2>5. CASE op.result # "Void"
    <3> DEFINE g == Given(op)
               k == op.result
               x == op.value
    <3>1. /\ Step(Push(p, k, x), bytes) /\ Java!Pushed(op, Given(op)) = <<Java!Value(k, x)>>
          /\ p = At(Expanded(BelowOf(op)), frame.locals, g) /\ ~Java!Throws(op, Given(op)) /\ Slot(k, x) \in JavaValues
      BY <1>2, <1>7, <2>1, <2>2, <2>3, <2>5
    <3>2. k \in Five
      <4> HIDE DEF k, x
      <4>1. Slot(k, x).kind = k /\ Slot(k, x).kind \in Five
        BY <3>1, ValueFacts DEF Slot
      <4> QED
        BY <4>1
    <3> HIDE DEF g, k, x
    <3> QED
      BY <1>1, <1>2, <3>1, <3>2, PushesResult
  <2> QED
    BY <2>4, <2>5
<1> QED
  BY <1>6, <1>7

\* The codes that take an object, and the bytes of the others.
LEMMA AnsweredFacts ==
  ASSUME NEW op
  PROVE  /\ op.code \in {"getfield", "putfield", "arraylength", "xaload", "xastore", "monitorenter", "monitorexit",
                         "invokespecial", "invokevirtual", "invokeinterface"} => Java!NeedsObject(op)
         /\ op.code \in {"new", "getstatic", "putstatic", "newarray", "anewarray", "multianewarray", "invokestatic",
                         "invokedynamic"} => ~Java!NeedsObject(op)
         /\ op.code \in {"new", "getstatic", "putstatic", "getfield", "putfield", "invokestatic", "invokespecial",
                         "invokevirtual", "anewarray"} => Java!Table!Length(op.code) = 3
         /\ op.code \in {"invokeinterface", "invokedynamic"} => Java!Table!Length(op.code) = 5
         /\ op.code = "newarray" => Java!Table!Length(op.code) = 2
         /\ op.code = "multianewarray" => Java!Table!Length(op.code) = 4
         /\ op.code \in {"arraylength", "xaload", "xastore", "monitorenter", "monitorexit"} => Java!Table!Length(op.code) = 1
BY LengthsCounted DEF Java!NeedsObject, OneByte, TwoBytes, ThreeBytes, FourBytes, FiveBytes

LEMMA FieldAccessInStep ==
  ASSUME NEW op, Ready(op), FieldAccess(op)
  PROVE  InStep'
<1>1. CASE op.code \in {"new", "getstatic"} /\ Answered(op, <<>>, {}, 3)
  <2> DEFINE kinds == <<>>
             receivers == {}
  <2>1. op.code \in AnsweredCodes /\ kinds = Java!Operands(op) /\ Len(kinds) \in Nat
    BY <1>1, OperandsAre DEF AnsweredCodes, HeapCodes
  <2>2. receivers = (IF Java!NeedsObject(op) THEN {1} ELSE {}) /\ Java!Table!Length(op.code) = 3
    BY <1>1, AnsweredFacts
  <2>3. Answered(op, kinds, receivers, 3)
    BY <1>1
  <2> HIDE DEF kinds, receivers
  <2> QED
    BY <2>1, <2>2, <2>3, AnsweredInStep
<1>2. CASE op.code = "putstatic" /\ Answered(op, <<op.type>>, {}, 3)
  <2> DEFINE kinds == <<op.type>>
             receivers == {}
  <2>1. op.code \in AnsweredCodes /\ kinds = Java!Operands(op) /\ Len(kinds) \in Nat
    BY <1>2, OperandsAre DEF AnsweredCodes, HeapCodes
  <2>2. receivers = (IF Java!NeedsObject(op) THEN {1} ELSE {}) /\ Java!Table!Length(op.code) = 3
    BY <1>2, AnsweredFacts
  <2>3. Answered(op, kinds, receivers, 3)
    BY <1>2
  <2> HIDE DEF kinds, receivers
  <2> QED
    BY <2>1, <2>2, <2>3, AnsweredInStep
<1>3. CASE op.code = "getfield" /\ Answered(op, <<"Ref">>, {1}, 3)
  <2> DEFINE kinds == <<"Ref">>
             receivers == {1}
  <2>1. op.code \in AnsweredCodes /\ kinds = Java!Operands(op) /\ Len(kinds) \in Nat
    BY <1>3, OperandsAre DEF AnsweredCodes, HeapCodes
  <2>2. receivers = (IF Java!NeedsObject(op) THEN {1} ELSE {}) /\ Java!Table!Length(op.code) = 3
    BY <1>3, AnsweredFacts
  <2>3. Answered(op, kinds, receivers, 3)
    BY <1>3
  <2> HIDE DEF kinds, receivers
  <2> QED
    BY <2>1, <2>2, <2>3, AnsweredInStep
<1>4. CASE op.code = "putfield" /\ Answered(op, <<"Ref", op.type>>, {1}, 3)
  <2> DEFINE kinds == <<"Ref", op.type>>
             receivers == {1}
  <2>1. op.code \in AnsweredCodes /\ kinds = Java!Operands(op) /\ Len(kinds) \in Nat
    BY <1>4, OperandsAre DEF AnsweredCodes, HeapCodes
  <2>2. receivers = (IF Java!NeedsObject(op) THEN {1} ELSE {}) /\ Java!Table!Length(op.code) = 3
    BY <1>4, AnsweredFacts
  <2>3. Answered(op, kinds, receivers, 3)
    BY <1>4
  <2> HIDE DEF kinds, receivers
  <2> QED
    BY <2>1, <2>2, <2>3, AnsweredInStep
<1>5. CASE op.code = "aconst_null" /\ Step(Push(frame, "Ref", Null), 1)
  BY <1>5, NullInStep
<1> QED
  BY <1>1, <1>2, <1>3, <1>4, <1>5, Zenon DEF FieldAccess

LEMMA Parameters ==
  ASSUME NEW op, Ready(op), op.code \in InvokeCodes
  PROVE  op.code \in AnsweredCodes /\ op.params \in Seq(Five) /\ Len(op.params) \in Nat /\ Len(<<"Ref">> \o op.params) \in Nat
<1>1. op.params \in Seq(Five)
  BY Agreement DEF Encoded, TypesEncoded
<1>2. <<"Ref">> \in Seq(Five)
  BY DEF Five
<1>3. <<"Ref">> \o op.params \in Seq(Five)
  BY <1>1, <1>2, ConcatProperties
<1> QED
  BY <1>1, <1>3, LenProperties DEF AnsweredCodes

LEMMA InvocationsInStep ==
  ASSUME NEW op, Ready(op), Invocations(op)
  PROVE  InStep'
<1>1. CASE op.code \in {"invokestatic", "invokedynamic"}
  <2> DEFINE kinds == op.params
             receivers == {}
             bytes == IF op.code = "invokestatic" THEN 3 ELSE 5
  <2>1. op.code \in AnsweredCodes /\ kinds = Java!Operands(op) /\ Len(kinds) \in Nat
    BY <1>1, OperandsAre, Parameters DEF InvokeCodes
  <2>2. receivers = (IF Java!NeedsObject(op) THEN {1} ELSE {}) /\ Java!Table!Length(op.code) = bytes /\ bytes \in Nat
    BY <1>1, AnsweredFacts
  <2>3. Answered(op, kinds, receivers, bytes)
    <3>1. \/ op.code = "invokestatic" /\ Answered(op, op.params, {}, 3)
          \/ op.code = "invokedynamic" /\ Answered(op, op.params, {}, 5)
      BY <1>1 DEF Invocations
    <3> QED
      BY <3>1, Zenon
  <2> HIDE DEF kinds, receivers, bytes
  <2> QED
    BY <2>1, <2>2, <2>3, AnsweredInStep
<1>2. CASE op.code \in {"invokespecial", "invokevirtual", "invokeinterface"}
  <2> DEFINE kinds == <<"Ref">> \o op.params
             receivers == {1}
             bytes == IF op.code = "invokeinterface" THEN 5 ELSE 3
  <2>1. op.code \in AnsweredCodes /\ kinds = Java!Operands(op) /\ Len(kinds) \in Nat
    BY <1>2, OperandsAre, Parameters DEF InvokeCodes
  <2>2. receivers = (IF Java!NeedsObject(op) THEN {1} ELSE {}) /\ Java!Table!Length(op.code) = bytes /\ bytes \in Nat
    BY <1>2, AnsweredFacts
  <2>3. Answered(op, kinds, receivers, bytes)
    <3>1. \/ op.code \in {"invokespecial", "invokevirtual"} /\ Answered(op, <<"Ref">> \o op.params, {1}, 3)
          \/ op.code = "invokeinterface" /\ Answered(op, <<"Ref">> \o op.params, {1}, 5)
      BY <1>2 DEF Invocations
    <3>2. op.code \in {"invokespecial", "invokevirtual"} => op.code # "invokeinterface"
      OBVIOUS
    <3> QED
      BY <3>1, <3>2, Zenon
  <2> HIDE DEF kinds, receivers, bytes
  <2> QED
    BY <2>1, <2>2, <2>3, AnsweredInStep
<1> QED
  BY <1>1, <1>2 DEF Invocations

LEMMA MonitorsInStep ==
  ASSUME NEW op, Ready(op), Monitors(op)
  PROVE  InStep'
<1> DEFINE kinds == <<"Ref">>
           receivers == {1}
<1>1. op.code \in {"monitorenter", "monitorexit"} /\ Answered(op, kinds, receivers, 1)
  BY DEF Monitors
<1>2. op.code \in AnsweredCodes /\ kinds = Java!Operands(op) /\ Len(kinds) \in Nat
  BY <1>1, OperandsAre DEF AnsweredCodes, HeapCodes
<1>3. receivers = (IF Java!NeedsObject(op) THEN {1} ELSE {}) /\ Java!Table!Length(op.code) = 1
  BY <1>1, AnsweredFacts
<1> HIDE DEF kinds, receivers
<1> QED
  BY <1>1, <1>2, <1>3, AnsweredInStep

LEMMA ArraysInStep ==
  ASSUME NEW op, Ready(op),
         \/ op.code = "newarray" /\ Answered(op, <<"Int">>, {}, 2)
         \/ op.code = "anewarray" /\ Answered(op, <<"Int">>, {}, 3)
         \/ op.code = "multianewarray" /\ Answered(op, [i \in 1 .. op.dims |-> "Int"], {}, 4)
         \/ op.code = "arraylength" /\ Answered(op, <<"Ref">>, {1}, 1)
         \/ op.code = "xaload" /\ Answered(op, <<"Ref", "Int">>, {1}, 1)
         \/ op.code = "xastore" /\ Answered(op, <<"Ref", "Int", op.type>>, {1}, 1)
  PROVE  InStep'
<1>1. CASE op.code = "newarray" /\ Answered(op, <<"Int">>, {}, 2)
  <2> DEFINE kinds == <<"Int">>
             receivers == {}
  <2>1. op.code \in AnsweredCodes /\ kinds = Java!Operands(op)
    BY <1>1, OperandsAre DEF AnsweredCodes, HeapCodes
  <2>2. receivers = (IF Java!NeedsObject(op) THEN {1} ELSE {}) /\ Java!Table!Length(op.code) = 2
    BY <1>1, AnsweredFacts
  <2>3. Answered(op, kinds, receivers, 2)
    BY <1>1
  <2>4. Len(kinds) \in Nat
    OBVIOUS
  <2> HIDE DEF kinds, receivers
  <2> QED
    BY <2>1, <2>2, <2>3, <2>4, AnsweredInStep
<1>2. CASE op.code = "anewarray" /\ Answered(op, <<"Int">>, {}, 3)
  <2> DEFINE kinds == <<"Int">>
             receivers == {}
  <2>1. op.code \in AnsweredCodes /\ kinds = Java!Operands(op)
    BY <1>2, OperandsAre DEF AnsweredCodes, HeapCodes
  <2>2. receivers = (IF Java!NeedsObject(op) THEN {1} ELSE {}) /\ Java!Table!Length(op.code) = 3
    BY <1>2, AnsweredFacts
  <2>3. Answered(op, kinds, receivers, 3)
    BY <1>2
  <2>4. Len(kinds) \in Nat
    OBVIOUS
  <2> HIDE DEF kinds, receivers
  <2> QED
    BY <2>1, <2>2, <2>3, <2>4, AnsweredInStep
<1>3. CASE op.code = "multianewarray" /\ Answered(op, [i \in 1 .. op.dims |-> "Int"], {}, 4)
  <2> DEFINE kinds == [i \in 1 .. op.dims |-> "Int"]
             receivers == {}
  <2>1. op.code \in AnsweredCodes /\ kinds = Java!Operands(op)
    BY <1>3, OperandsAre DEF AnsweredCodes, HeapCodes
  <2>2. receivers = (IF Java!NeedsObject(op) THEN {1} ELSE {}) /\ Java!Table!Length(op.code) = 4
    BY <1>3, AnsweredFacts
  <2>3. Answered(op, kinds, receivers, 4)
    BY <1>3
  <2>4. Len(kinds) \in Nat
    <3>1. op.dims \in Nat
      <4>1. op.dims \in {1, 2}
        BY <1>3, Agreement DEF Encoded, TypesEncoded
      <4> QED
        BY <4>1
    <3> QED
      BY <3>1
  <2> HIDE DEF kinds, receivers
  <2> QED
    BY <2>1, <2>2, <2>3, <2>4, AnsweredInStep
<1>4. CASE op.code = "arraylength" /\ Answered(op, <<"Ref">>, {1}, 1)
  <2> DEFINE kinds == <<"Ref">>
             receivers == {1}
  <2>1. op.code \in AnsweredCodes /\ kinds = Java!Operands(op)
    BY <1>4, OperandsAre DEF AnsweredCodes, HeapCodes
  <2>2. receivers = (IF Java!NeedsObject(op) THEN {1} ELSE {}) /\ Java!Table!Length(op.code) = 1
    BY <1>4, AnsweredFacts
  <2>3. Answered(op, kinds, receivers, 1)
    BY <1>4
  <2>4. Len(kinds) \in Nat
    OBVIOUS
  <2> HIDE DEF kinds, receivers
  <2> QED
    BY <2>1, <2>2, <2>3, <2>4, AnsweredInStep
<1>5. CASE op.code = "xaload" /\ Answered(op, <<"Ref", "Int">>, {1}, 1)
  <2> DEFINE kinds == <<"Ref", "Int">>
             receivers == {1}
  <2>1. op.code \in AnsweredCodes /\ kinds = Java!Operands(op)
    BY <1>5, OperandsAre DEF AnsweredCodes, HeapCodes
  <2>2. receivers = (IF Java!NeedsObject(op) THEN {1} ELSE {}) /\ Java!Table!Length(op.code) = 1
    BY <1>5, AnsweredFacts
  <2>3. Answered(op, kinds, receivers, 1)
    BY <1>5
  <2>4. Len(kinds) \in Nat
    OBVIOUS
  <2> HIDE DEF kinds, receivers
  <2> QED
    BY <2>1, <2>2, <2>3, <2>4, AnsweredInStep
<1>6. CASE op.code = "xastore" /\ Answered(op, <<"Ref", "Int", op.type>>, {1}, 1)
  <2> DEFINE kinds == <<"Ref", "Int", op.type>>
             receivers == {1}
  <2>1. op.code \in AnsweredCodes /\ kinds = Java!Operands(op)
    BY <1>6, OperandsAre DEF AnsweredCodes, HeapCodes
  <2>2. receivers = (IF Java!NeedsObject(op) THEN {1} ELSE {}) /\ Java!Table!Length(op.code) = 1
    BY <1>6, AnsweredFacts
  <2>3. Answered(op, kinds, receivers, 1)
    BY <1>6
  <2>4. Len(kinds) \in Nat
    OBVIOUS
  <2> HIDE DEF kinds, receivers
  <2> QED
    BY <2>1, <2>2, <2>3, <2>4, AnsweredInStep
<1> QED
  BY <1>1, <1>2, <1>3, <1>4, <1>5, <1>6, Zenon

\* The operand of an instruction that has one, on the stack of the specification.
LEMMA OneTop ==
  ASSUME NEW op, Ready(op), op.code \notin Java!StackCodes, NEW k \in Five, Java!Operands(op) = <<k>>
  PROVE  Slot(k, Given(op)[1]) \in JavaValues /\ java.stack = Append(BelowOf(op), Slot(k, Given(op)[1]))
<1>1. Len(Java!Operands(op)) \in Nat /\ Len(Java!Operands(op)) = 1 /\ <<k>>[1] = k
  OBVIOUS
<1>2. /\ BelowOf(op) \in Seq(JavaValues) /\ TopsOf(op) \in Seq(JavaValues) /\ Len(TopsOf(op)) = 1 /\ Java!Kinds(TopsOf(op)) = <<k>>
      /\ java.stack = BelowOf(op) \o TopsOf(op)
  BY <1>1, Prepared
<1> DEFINE b == TopsOf(op)
           w == b[1]
<1>3. 1 \in 1 .. Len(b) /\ b \in Seq(JavaValues)
  BY <1>2
<1>4. w \in JavaValues /\ b = <<w>>
  <2>1. w \in JavaValues
    BY <1>3, ElementOfSeq
  <2>2. b = <<b[1]>>
    BY <1>2
  <2> QED
    BY <2>1, <2>2
<1>5. w.kind = k
  <2>1. Java!Kinds(b)[1] = b[1].kind
    BY <1>3, KindsFacts
  <2> QED
    BY <1>1, <1>2, <2>1
<1>6. Given(op)[1] = w.value
  BY <1>3 DEF Given, ValuesOf
<1> HIDE DEF w
<1>7. Slot(k, Given(op)[1]) = w
  BY <1>4, <1>5, <1>6, ValueFacts
<1>8. BelowOf(op) \o <<w>> = Append(BelowOf(op), w)
  BY <1>2, <1>4, AppendIsConcat
<1> QED
  BY <1>2, <1>4, <1>7, <1>8

LEMMA CheckcastInStep ==
  ASSUME NEW op, Ready(op), op.code = "checkcast", NEW r, r = Pop(frame, "Ref"),
         NEW back, back = IF r.ok THEN Push(r, "Ref", r.got[1]) ELSE r,
         IF r.ok /\ r.got[1] # Null /\ op.throws THEN ThrowIt(back, NewThrown, op) ELSE Step(back, 3)
  PROVE  InStep'
<1> DEFINE k == "Ref"
           v == Given(op)
           x == v[1]
           w == Slot(k, x)
           below == BelowOf(op)
<1>1. /\ Plain(op) /\ Ordinary(op) /\ op.code \notin Jumps /\ op.code \notin Java!StackCodes /\ k \in Five /\ op.result = "Void"
      /\ ~Java!NeedsObject(op)
  BY Nothing DEF Plain, Ordinary, Jumps, Java!StackCodes, Five, HeapCodes, InvokeCodes, Java!NeedsObject
<1>2. Java!Operands(op) = <<k>> /\ Len(Java!Operands(op)) \in Nat
  <2>1. Java!Operands(op) = <<"Ref">>
    BY OperandsAre
  <2> QED
    BY <2>1
<1>3. r = At(Expanded(below), frame.locals, v) /\ r.ok = TRUE /\ r.got = v /\ w \in JavaValues /\ below \in Seq(JavaValues)
      /\ java.stack = Append(below, w)
  <2> HIDE DEF k
  <2>1. Pop(frame, k) = At(Expanded(BelowOf(op)), frame.locals, Given(op))
    BY <1>1, <1>2, OneOperand
  <2>2. Pop(frame, k).ok = TRUE /\ Pop(frame, k).got = Given(op)
    BY <1>1, <1>2, OneOperand
  <2>3. w \in JavaValues /\ java.stack = Append(below, w)
    BY <1>1, <1>2, OneTop
  <2>4. below \in Seq(JavaValues)
    BY <1>1, <1>2, OneOperand
  <2> QED
    BY <2>1, <2>2, <2>3, <2>4, Zenon DEF k
<1>4. Java!Throws(op, v) <=> op.throws /\ v[1] # Null
  BY <1>1, Zenon DEF Java!Throws
<1>5. IF v[1] # Null /\ op.throws THEN ThrowIt(Push(r, "Ref", v[1]), NewThrown, op) ELSE Step(Push(r, "Ref", v[1]), 3)
  BY <1>3, Zenon
<1>6. CASE ~Java!Throws(op, v)
  <2>1. Step(Push(r, k, x), 3)
    BY <1>4, <1>5, <1>6, Zenon
  <2>2. Java!Pushed(op, Given(op)) = <<Java!Value(k, x)>>
    BY <1>1, PushedOthers
  <2>3. Java!Table!Length(op.code) = 3 /\ ~Java!Throws(op, Given(op)) /\ r = At(Expanded(BelowOf(op)), frame.locals, Given(op))
    BY <1>3, <1>6, LengthsCounted DEF ThreeBytes
  <2>4. Slot(k, x) \in JavaValues
    BY <1>3
  <2> HIDE DEF k, x
  <2> QED
    BY <1>1, <1>2, <2>1, <2>2, <2>3, <2>4, ComputesOne
<1>7. CASE Java!Throws(op, v)
  <2>1. ThrowIt(Push(r, "Ref", v[1]), NewThrown, op)
    BY <1>4, <1>5, <1>7, Zenon
  <2> DEFINE L == frame.locals
             e == Expanded(Append(below, w))
             s == java.stack
             none == <<>>
             exc == NewThrown
  <2>2. Len(Expanded(Append(below, w))) <= MaxStack /\ s \in Seq(JavaValues)
    <3>1. Verified(java)
      BY Agreement
    <3>2. s \in Seq(JavaValues) /\ Java!SlotsOf(Java!Kinds(s)) <= MaxStack
      BY <3>1 DEF Verified
    <3>3. Java!SlotsOf(Java!Kinds(s)) = Len(Expanded(s))
      BY <3>2, SlotsAreCounted
    <3> QED
      BY <1>3, <3>2, <3>3
  <2>3. w.kind = "Ref" /\ w.value = v[1]
    BY DEF Slot
  <2>4. Push(At(Expanded(below), L, v), w.kind, w.value) = At(e, L, v)
    <3> HIDE DEF w, below, L, v
    <3> QED
      BY <1>3, <2>2, PushesValue
  <2>5. ThrowIt(At(Expanded(s), L, v), exc, op)
    <3>1. Push(r, "Ref", v[1]) = At(e, L, v)
      BY <1>3, <2>3, <2>4, Zenon
    <3> QED
      BY <1>3, <2>1, <3>1, Zenon
  <2>6. s \in Seq(JavaValues) /\ none \in Seq(JavaValues) /\ java.stack = s \o none
    BY <2>2, ConcatEmptySeq
  <2>7. exc \in References /\ exc = ExceptionOf(op)
    BY DEF References, ExceptionOf
  <2>8. Java!Throws(op, Given(op))
    BY <1>7
  <2> HIDE DEF s, none, exc, v
  <2> QED
    BY <1>1, <1>2, <2>5, <2>6, <2>7, <2>8, ThrowsHere
<1> QED
  BY <1>6, <1>7

LEMMA InstanceofInStep ==
  ASSUME NEW op, Ready(op), op.code = "instanceof", NEW r, r = Pop(frame, "Ref"),
         Step(IF r.ok THEN Push(r, "Int", IF r.got[1] = Null THEN 0 ELSE op.value) ELSE r, 3)
  PROVE  InStep'
<1> DEFINE k == "Ref"
           i == "Int"
           x == IF Given(op)[1] = Null THEN 0 ELSE op.value
<1>1. /\ Plain(op) /\ op.code \notin Jumps /\ op.code \notin Java!StackCodes /\ k \in Five /\ i \in Five /\ op.result = "Void"
      /\ op.code \notin AnsweredCodes \cup {"checkcast", "athrow", "div", "rem"}
  BY Nothing DEF Plain, Ordinary, Jumps, Java!StackCodes, Five, HeapCodes, InvokeCodes, AnsweredCodes
<1>2. Java!Operands(op) = <<k>>
  <2>1. Java!Operands(op) = <<"Ref">>
    BY OperandsAre
  <2> QED
    BY <2>1
<1>3. r = At(Expanded(BelowOf(op)), frame.locals, Given(op)) /\ r.ok = TRUE /\ r.got = Given(op)
  <2> HIDE DEF k
  <2>1. Pop(frame, k) = At(Expanded(BelowOf(op)), frame.locals, Given(op))
    BY <1>1, <1>2, OneOperand
  <2>2. Pop(frame, k).ok = TRUE /\ Pop(frame, k).got = Given(op)
    BY <1>1, <1>2, OneOperand
  <2> QED
    BY <2>1, <2>2, Zenon DEF k
<1>4. Step(Push(r, i, x), 3)
  BY <1>3, Zenon
<1>5. Java!Pushed(op, Given(op)) = <<Java!Value(i, x)>>
  BY <1>1, PushedOthers
<1>6. ~Java!Throws(op, Given(op)) /\ Java!Table!Length(op.code) = 3 /\ op.value \in {0, 1}
  BY <1>1, Agreement, Calm, LengthsCounted DEF ThreeBytes, Encoded, ValuesEncoded
<1>7. x \in {0, 1}
  BY <1>6
<1> HIDE DEF x, k, i
<1>8. Slot(i, x) \in JavaValues
  BY <1>1, <1>7, SmallValues
<1> QED
  BY <1>1, <1>2, <1>3, <1>4, <1>5, <1>6, <1>8, ComputesOne

LEMMA ArraysAndTypesInStep ==
  ASSUME NEW op, Ready(op), ArraysAndTypes(op)
  PROVE  InStep'
<1> DEFINE r == Pop(frame, "Ref")
           back == IF r.ok THEN Push(r, "Ref", r.got[1]) ELSE r
<1>1. CASE /\ op.code = "checkcast"
           /\ IF r.ok /\ r.got[1] # Null /\ op.throws THEN ThrowIt(back, NewThrown, op) ELSE Step(back, 3)
  BY <1>1, CheckcastInStep, Zenon
<1>2. CASE /\ op.code = "instanceof"
           /\ Step(IF r.ok THEN Push(r, "Int", IF r.got[1] = Null THEN 0 ELSE op.value) ELSE r, 3)
  BY <1>2, InstanceofInStep, Zenon
<1>3. CASE \/ op.code = "newarray" /\ Answered(op, <<"Int">>, {}, 2)
           \/ op.code = "anewarray" /\ Answered(op, <<"Int">>, {}, 3)
           \/ op.code = "multianewarray" /\ Answered(op, [i \in 1 .. op.dims |-> "Int"], {}, 4)
           \/ op.code = "arraylength" /\ Answered(op, <<"Ref">>, {1}, 1)
           \/ op.code = "xaload" /\ Answered(op, <<"Ref", "Int">>, {1}, 1)
           \/ op.code = "xastore" /\ Answered(op, <<"Ref", "Int", op.type>>, {1}, 1)
  BY <1>3, ArraysInStep, Zenon
<1> QED
  BY <1>1, <1>2, <1>3, Zenon DEF ArraysAndTypes

-----------------------------------------------------------------------------
(* Ends of the activation.                                                 *)

LEMMA ReturnsInStep ==
  ASSUME NEW op, Ready(op), Returns(op)
  PROVE  InStep'
<1> DEFINE v == Pop(frame, op.type)
<1>1. \/ op.code = "return" /\ End("returned", "Void", 0)
      \/ op.code = "xreturn" /\ v.ok /\ End("returned", op.type, v.got[1])
      \/ op.code = "xreturn" /\ ~v.ok /\ Proceed(v, pc)
  BY Zenon DEF Returns
<1>2. op.code \in {"return", "xreturn"} /\ op.code \notin Java!StackCodes
  BY <1>1 DEF Java!StackCodes
<1>3. method \in Methods /\ method' = method /\ java' = Java!Exec(op, java)
  BY Agreement
<1>4. CASE op.code = "return" /\ End("returned", "Void", 0)
  <2>1. Java!Operands(op) = <<>>
    BY <1>4, OperandsAre
  <2>2. TopsOf(op) \in Seq(JavaValues)
    BY <1>2, <2>1, NoOperands
  <2>3. op.type = "Void"
    BY <1>4, Agreement DEF Encoded, TypesEncoded
  <2>4. java' = Java!Ended("returned", "Void", 0)
    BY <1>3, <1>4, <2>2, <2>3, ExecReturns
  <2> QED
    BY <1>3, <1>4, <2>4, EndsTogether
<1>5. CASE op.code = "xreturn"
  <2> DEFINE k == op.type
             x == Given(op)[1]
  <2>1. k \in Five /\ Java!Operands(op) = <<k>> /\ Len(Java!Operands(op)) \in Nat
    <3>1. Java!Operands(op) = <<op.type>> /\ op.type \in Five
      BY <1>5, Agreement, OperandsAre DEF Encoded, TypesEncoded
    <3> QED
      BY <3>1
  <2>2. v.ok = TRUE /\ v.got = Given(op)
    <3> HIDE DEF k
    <3>1. Pop(frame, k).ok = TRUE /\ Pop(frame, k).got = Given(op)
      BY <1>2, <2>1, OneOperand
    <3> QED
      BY <3>1, Zenon DEF k
  <2>3. TopsOf(op) \in Seq(JavaValues)
    BY <1>2, <2>1, Prepared
  <2>4. java' = Java!Ended("returned", k, x)
    BY <1>3, <1>5, <2>3, ExecReturns
  <2>5. End("returned", k, x)
    <3>1. op.code # "return"
      BY <1>5
    <3>2. End("returned", op.type, v.got[1])
      BY <1>1, <1>5, <2>2, <3>1, Zenon
    <3> QED
      BY <2>2, <3>2, Zenon
  <2> HIDE DEF k, x
  <2> QED
    BY <1>3, <2>4, <2>5, EndsTogether
<1> QED
  BY <1>1, <1>4, <1>5

LEMMA AthrowInStep ==
  ASSUME NEW op, Ready(op), Athrow(op)
  PROVE  InStep'
<1> DEFINE r == Pop(frame, "Ref")
           k == "Ref"
           exc == ExceptionOf(op)
           below == BelowOf(op)
           top == TopsOf(op)
           g == Given(op)
<1>1. op.code = "athrow" /\ ThrowIt(r, IF r.ok /\ r.got[1] # Null THEN r.got[1] ELSE NewThrown, op)
  BY Zenon DEF Athrow
<1>2. op.code \notin Java!StackCodes /\ Ordinary(op) /\ k \in Five /\ Java!Throws(op, Given(op))
  BY <1>1 DEF Java!StackCodes, Ordinary, Five, Java!Throws
<1>3. Java!Operands(op) = <<k>> /\ Len(Java!Operands(op)) \in Nat
  <2>1. Java!Operands(op) = <<"Ref">>
    BY <1>1, OperandsAre
  <2> QED
    BY <2>1
<1>4. r = At(Expanded(below), frame.locals, g) /\ r.ok = TRUE /\ r.got = g /\ g[1] \in References
  <2> DEFINE l == k
  <2> HIDE DEF k
  <2>1. Pop(frame, k) = At(Expanded(BelowOf(op)), frame.locals, Given(op))
    BY <1>2, <1>3, OneOperand
  <2>2. Pop(frame, k).ok = TRUE /\ Pop(frame, k).got = Given(op)
    BY <1>2, <1>3, OneOperand
  <2>3. k = "Ref" => Given(op)[1] \in References
    BY <1>2, <1>3, OneOperand
  <2>4. k = "Ref"
    BY DEF k
  <2> QED
    BY <2>1, <2>2, <2>3, <2>4, Zenon
<1>5. exc \in References
  BY <1>4 DEF ExceptionOf, References
<1>6. ThrowIt(At(Expanded(below), frame.locals, g), exc, op)
  <2>1. (IF r.ok /\ r.got[1] # Null THEN r.got[1] ELSE NewThrown) = exc
    BY <1>1, <1>4, Zenon DEF ExceptionOf
  <2> HIDE DEF exc
  <2> QED
    BY <1>1, <1>4, <2>1, Zenon
<1>7. below \in Seq(JavaValues) /\ top \in Seq(JavaValues) /\ java.stack = below \o top
  BY <1>2, <1>3, Prepared
<1>8. exc = ExceptionOf(op)
  OBVIOUS
<1> HIDE DEF exc, below, top, g
<1> QED
  BY <1>2, <1>3, <1>5, <1>6, <1>7, <1>8, ThrowsHere

LEMMA UnsupportedInStep ==
  ASSUME NEW op, Ready(op), Unsupported(op)
  PROVE  InStep'
<1>1. End("UnsupportedOpcode", "Void", 0)
  BY DEF Unsupported
<1> QED
  BY <1>1, Agreement, GivesUp

-----------------------------------------------------------------------------
(* The instructions that move values. *)

\* The form that the verifier found, with the values that it takes.
Finds(op, b, t, form) ==
    /\ form \in Java!Forms[op.code] /\ Taken(form, t) /\ b \in Seq(JavaValues) /\ t \in Seq(JavaValues)
    /\ java.stack = b \o t /\ Java!Moved(op.code, java.stack) = b \o Picked(t, form[2])

LEMMA FormFound ==
  ASSUME NEW op, Ready(op), op.code \in Java!StackCodes
  PROVE  \E b, t, form : Finds(op, b, t, form)
<1> DEFINE s == java.stack
           form == CHOOSE f \in Java!Forms[op.code] : Java!Fits(f, s)
           n == Len(form[1])
           t == Java!TopOf(s, n)
           b == Java!Below(s, n)
<1>1. s \in Seq(JavaValues)
  BY Agreement DEF Verified
<1>2. \E f \in Java!Forms[op.code] : Java!Fits(f, s)
  BY Agreement DEF Java!Admits
<1>3. form \in Java!Forms[op.code] /\ Java!Fits(form, s)
  BY <1>2, Zenon
<1>4. Java!Moved(op.code, s) = b \o Picked(t, form[2])
  BY Zenon DEF Java!Moved, Picked
<1> HIDE DEF s, form
<1>5. n \in Nat /\ DOMAIN form[1] = 1 .. n
  BY <1>3, FormsOfValues
<1>6. n <= Len(s) /\ \A i \in DOMAIN form[1] : Java!Category(t[i].kind) = form[1][i]
  BY <1>3, Zenon DEF Java!Fits
<1>7. b \in Seq(JavaValues) /\ t \in Seq(JavaValues) /\ s = b \o t /\ Len(t) = n
  <2> HIDE DEF n
  <2> QED
    BY <1>1, <1>5, <1>6, CutInTwo
<1>8. Taken(form, t)
  BY <1>5, <1>6, <1>7, Zenon DEF Taken
<1> QED
  BY <1>3, <1>4, <1>7, <1>8, Zenon DEF Finds, s

LEMMA MovedFits ==
  ASSUME NEW op, Ready(op), op.code \in Java!StackCodes, NEW r \in Seq(JavaValues), Java!Moved(op.code, java.stack) = r
  PROVE  Len(Expanded(r)) <= MaxStack
<1>1. Java!SlotsOf(Java!Kinds(r)) <= MaxStack
  BY Agreement, Zenon DEF Java!Admits
<1> QED
  BY <1>1, SlotsAreCounted

LEMMA MovesOn ==
  ASSUME NEW op, Ready(op), op.code \in Java!StackCodes, NEW r \in Seq(JavaValues),
         Java!Moved(op.code, java.stack) = r, NEW h, Proceed(At(Expanded(r), frame.locals, h), pc + 1)
  PROVE  InStep'
<1> DEFINE v == [i \in DOMAIN TopsOf(op) |-> TopsOf(op)[i].value]
           L == frame.locals
           JL == java.locals
           target == pc + 1
<1>1. /\ method \in Methods /\ method' = method /\ outcome = Running /\ Verified(java)
      /\ SameLocals(L, JL) /\ java.pc = pc /\ pc \in 0 .. 3 /\ java' = Java!Exec(op, java)
  BY Agreement
<1>2. op.code \notin Jumps /\ Java!Table!Length(op.code) = 1
  <2>1. op.code \in OneByte
    BY DEF Java!StackCodes, OneByte
  <2> QED
    BY <2>1, LengthsCounted DEF Java!StackCodes, Jumps
<1>3. Java!Continues(op, java, v) = target /\ target \in Int
  BY <1>1, <1>2, Falls
<1>4. java' = JavaAt(r, JL, target % 4)
  <2>1. java' = JavaAt(Java!Moved(op.code, java.stack), JL, Java!Continues(op, java, v) % 4)
    BY <1>1, ExecMoves
  <2> QED
    BY <1>3, <2>1, Zenon
<1>5. Len(Expanded(r)) <= MaxStack /\ Proceed(At(Expanded(r), L, h), target)
  BY MovedFits
<1> HIDE DEF L, JL, target
<1> QED
  BY <1>1, <1>3, <1>4, <1>5, GoesOn

LEMMA ExpandedAround ==
  ASSUME NEW b \in Seq(JavaValues), NEW y \in Seq(JavaValues), NEW x \in Seq(JavaValues)
  PROVE  /\ b \o (x \o (y \o x)) \in Seq(JavaValues)
         /\ Expanded(b \o (y \o x)) = Expanded(b) \o (Expanded(y) \o Expanded(x))
         /\ Expanded(b \o (x \o (y \o x))) = Expanded(b) \o (Expanded(x) \o (Expanded(y) \o Expanded(x)))
<1> DEFINE w == y \o x
<1>1. w \in Seq(JavaValues)
  BY ConcatProperties
<1>2. Expanded(w) = Expanded(y) \o Expanded(x)
  BY ExpandedOfConcat
<1> HIDE DEF w
<1> DEFINE z == x \o w
<1>3. z \in Seq(JavaValues)
  BY <1>1, ConcatProperties
<1>4. Expanded(z) = Expanded(x) \o Expanded(w)
  BY <1>1, ExpandedOfConcat
<1> HIDE DEF z
<1>5. Expanded(b \o w) = Expanded(b) \o Expanded(w) /\ Expanded(b \o z) = Expanded(b) \o Expanded(z)
  BY <1>1, <1>3, ExpandedOfConcat
<1>6. b \o z \in Seq(JavaValues)
  BY <1>3, ConcatProperties
<1> QED
  BY <1>2, <1>4, <1>5, <1>6, Zenon DEF w, z

\* A frame that copies the upper of two blocks below the lower one.
Copies(f, p, q) ==
    \A A, Y, X \in Seq(Slots) :
        Len(Y) = p /\ Len(X) = q /\ frame = At(A \o (Y \o X), frame.locals, <<>>) /\ Len(A \o (X \o (Y \o X))) <= MaxStack
            => \E h : f = At(A \o (X \o (Y \o X)), frame.locals, h)

LEMMA CopiesInStep ==
  ASSUME NEW op, Ready(op), op.code \in Java!StackCodes, NEW b, NEW t, NEW form, Finds(op, b, t, form),
         NEW p, NEW q, Shaped(t, Picked(t, form[2]), p, q), NEW f, Copies(f, p, q), Proceed(f, pc + 1)
  PROVE  InStep'
<1>1. PICK y, x \in Seq(JavaValues) :
          t = y \o x /\ Picked(t, form[2]) = x \o (y \o x) /\ Len(Expanded(y)) = p /\ Len(Expanded(x)) = q
  BY Zenon DEF Shaped
<1>2. b \in Seq(JavaValues) /\ java.stack = b \o t /\ Java!Moved(op.code, java.stack) = b \o Picked(t, form[2])
  BY Zenon DEF Finds
<1> DEFINE A == Expanded(b)
           Y == Expanded(y)
           X == Expanded(x)
           r == b \o (x \o (y \o x))
<1>3. A \in Seq(Slots) /\ Y \in Seq(Slots) /\ X \in Seq(Slots)
  BY <1>2, ExpandedType
<1>4. r \in Seq(JavaValues) /\ Expanded(b \o (y \o x)) = A \o (Y \o X) /\ Expanded(r) = A \o (X \o (Y \o X))
  BY <1>2, ExpandedAround
<1>5. Java!Moved(op.code, java.stack) = r
  BY <1>1, <1>2, Zenon
<1>6. Len(Expanded(r)) <= MaxStack
  <2> HIDE DEF r
  <2> QED
    BY <1>4, <1>5, MovedFits
<1>7. frame = At(Expanded(java.stack), frame.locals, <<>>)
  BY Agreement DEF Agrees
<1>8. frame = At(A \o (Y \o X), frame.locals, <<>>) /\ Len(A \o (X \o (Y \o X))) <= MaxStack
  BY <1>1, <1>2, <1>4, <1>6, <1>7, Zenon
<1>9. PICK h : f = At(A \o (X \o (Y \o X)), frame.locals, h)
  BY <1>1, <1>3, <1>8, Zenon DEF Copies
<1>10. Proceed(At(Expanded(r), frame.locals, h), pc + 1)
  BY <1>4, <1>9, Zenon
<1> QED
  <2> HIDE DEF r
  <2> QED
    BY <1>4, <1>5, <1>10, MovesOn

LEMMA DupX1Copies ==
  Copies(DupX1(frame), 1, 1)
<1> SUFFICES ASSUME NEW A \in Seq(Slots), NEW Y \in Seq(Slots), NEW X \in Seq(Slots), Len(Y) = 1, Len(X) = 1,
                    frame = At(A \o (Y \o X), frame.locals, <<>>), Len(A \o (X \o (Y \o X))) <= MaxStack
             PROVE  \E h : DupX1(frame) = At(A \o (X \o (Y \o X)), frame.locals, h)
  BY Zenon DEF Copies
<1> DEFINE L == frame.locals
<1>1. \E h : DupX1(At(A \o (Y \o X), L, <<>>)) = At(A \o (X \o (Y \o X)), L, h)
  <2> HIDE DEF L
  <2>1. DupX1(At(A \o (Y \o X), L, <<>>)) = At(A \o (X \o (Y \o X)), L, Y)
    BY DupX1Block
  <2> QED
    BY <2>1, Zenon
<1> QED
  BY <1>1, Zenon

LEMMA DupX2Copies ==
  Copies(DupX2(frame), 2, 1)
<1> SUFFICES ASSUME NEW A \in Seq(Slots), NEW Y \in Seq(Slots), NEW X \in Seq(Slots), Len(Y) = 2, Len(X) = 1,
                    frame = At(A \o (Y \o X), frame.locals, <<>>), Len(A \o (X \o (Y \o X))) <= MaxStack
             PROVE  \E h : DupX2(frame) = At(A \o (X \o (Y \o X)), frame.locals, h)
  BY Zenon DEF Copies
<1> DEFINE L == frame.locals
<1>1. \E h : DupX2(At(A \o (Y \o X), L, <<>>)) = At(A \o (X \o (Y \o X)), L, h)
  <2> HIDE DEF L
  <2>1. LeavesBlock(DupX2(At(A \o (Y \o X), L, <<>>)), A \o (X \o (Y \o X)), L)
    BY DupX2Block
  <2> QED
    BY <2>1, Zenon DEF LeavesBlock
<1> QED
  BY <1>1, Zenon

LEMMA Dup2X1Copies ==
  Copies(Dup2X1(frame), 1, 2)
<1> SUFFICES ASSUME NEW A \in Seq(Slots), NEW Y \in Seq(Slots), NEW X \in Seq(Slots), Len(Y) = 1, Len(X) = 2,
                    frame = At(A \o (Y \o X), frame.locals, <<>>), Len(A \o (X \o (Y \o X))) <= MaxStack
             PROVE  \E h : Dup2X1(frame) = At(A \o (X \o (Y \o X)), frame.locals, h)
  BY Zenon DEF Copies
<1> DEFINE L == frame.locals
<1>1. \E h : Dup2X1(At(A \o (Y \o X), L, <<>>)) = At(A \o (X \o (Y \o X)), L, h)
  <2> HIDE DEF L
  <2>1. Dup2X1(At(A \o (Y \o X), L, <<>>)) = At(A \o (X \o (Y \o X)), L, Y)
    BY Dup2X1Block
  <2> QED
    BY <2>1, Zenon
<1> QED
  BY <1>1, Zenon

LEMMA Dup2X2Copies ==
  Copies(Dup2X2(frame), 2, 2)
<1> SUFFICES ASSUME NEW A \in Seq(Slots), NEW Y \in Seq(Slots), NEW X \in Seq(Slots), Len(Y) = 2, Len(X) = 2,
                    frame = At(A \o (Y \o X), frame.locals, <<>>), Len(A \o (X \o (Y \o X))) <= MaxStack
             PROVE  \E h : Dup2X2(frame) = At(A \o (X \o (Y \o X)), frame.locals, h)
  BY Zenon DEF Copies
<1> DEFINE L == frame.locals
<1>1. \E h : Dup2X2(At(A \o (Y \o X), L, <<>>)) = At(A \o (X \o (Y \o X)), L, h)
  <2> HIDE DEF L
  <2>1. LeavesBlock(Dup2X2(At(A \o (Y \o X), L, <<>>)), A \o (X \o (Y \o X)), L)
    BY Dup2X2Block
  <2> QED
    BY <2>1, Zenon DEF LeavesBlock
<1> QED
  BY <1>1, Zenon

LEMMA StackCopies ==
  /\ Copies(DupX1(frame), 1, 1) /\ Copies(DupX2(frame), 2, 1)
  /\ Copies(Dup2X1(frame), 1, 2) /\ Copies(Dup2X2(frame), 2, 2)
BY DupX1Copies, DupX2Copies, Dup2X1Copies, Dup2X2Copies, Zenon

LEMMA CopyingInStep ==
  ASSUME NEW op, Ready(op), op.code \in {"dup_x1", "dup_x2", "dup2_x1", "dup2_x2"}, StackManagement(op)
  PROVE  InStep'
<1>1. op.code \in Java!StackCodes
  BY DEF Java!StackCodes
<1>2. PICK b, t, form : Finds(op, b, t, form)
  BY <1>1, FormFound
<1>3. form \in Java!Forms[op.code] /\ Taken(form, t) /\ t \in Seq(JavaValues)
  BY <1>2, Zenon DEF Finds
<1>4. CASE op.code = "dup_x1"
  <2>1. Proceed(DupX1(frame), pc + 1)
    BY <1>4 DEF StackManagement, Step
  <2>2. Shaped(t, Picked(t, form[2]), 1, 1)
    BY <1>3, <1>4, DupX1Shaped
  <2> QED
    BY <1>1, <1>2, <2>1, <2>2, StackCopies, CopiesInStep
<1>5. CASE op.code = "dup_x2"
  <2>1. Proceed(DupX2(frame), pc + 1)
    BY <1>5 DEF StackManagement, Step
  <2>2. Shaped(t, Picked(t, form[2]), 2, 1)
    BY <1>3, <1>5, DupX2Shaped
  <2> QED
    BY <1>1, <1>2, <2>1, <2>2, StackCopies, CopiesInStep
<1>6. CASE op.code = "dup2_x1"
  <2>1. Proceed(Dup2X1(frame), pc + 1)
    BY <1>6 DEF StackManagement, Step
  <2>2. Shaped(t, Picked(t, form[2]), 1, 2)
    BY <1>3, <1>6, Dup2X1Shaped
  <2> QED
    BY <1>1, <1>2, <2>1, <2>2, StackCopies, CopiesInStep
<1>7. CASE op.code = "dup2_x2"
  <2>1. Proceed(Dup2X2(frame), pc + 1)
    BY <1>7 DEF StackManagement, Step
  <2>2. Shaped(t, Picked(t, form[2]), 2, 2)
    BY <1>3, <1>7, Dup2X2Shaped
  <2> QED
    BY <1>1, <1>2, <2>1, <2>2, StackCopies, CopiesInStep
<1> QED
  BY <1>4, <1>5, <1>6, <1>7

\* What is above b comes off.
LEMMA DropsInStep ==
  ASSUME NEW op, Ready(op), op.code \in Java!StackCodes, NEW b, NEW t, NEW form, Finds(op, b, t, form),
         Picked(t, form[2]) = <<>>, NEW n, Len(Expanded(t)) = n, Proceed(PopN(frame, n), pc + 1)
  PROVE  InStep'
<1>1. b \in Seq(JavaValues) /\ t \in Seq(JavaValues) /\ java.stack = b \o t /\ Java!Moved(op.code, java.stack) = b \o <<>>
  BY Zenon DEF Finds
<1> DEFINE A == Expanded(b)
           X == Expanded(t)
<1>2. A \in Seq(Slots) /\ X \in Seq(Slots) /\ Expanded(b \o t) = A \o X
  BY <1>1, ExpandedType, ExpandedOfConcat
<1>3. frame = At(Expanded(java.stack), frame.locals, <<>>)
  BY Agreement DEF Agrees
<1>4. frame = At(A \o X, frame.locals, <<>>)
  BY <1>1, <1>2, <1>3, Zenon
<1>5. PopN(At(A \o X, frame.locals, <<>>), n) = At(A, frame.locals, X)
  <2> HIDE DEF A, X
  <2>1. Len(X) = n
    BY DEF X
  <2> QED
    BY <1>2, <2>1, PopsBlock
<1>6. Proceed(At(Expanded(b), frame.locals, X), pc + 1)
  BY <1>4, <1>5, Zenon
<1>7. Java!Moved(op.code, java.stack) = b
  BY <1>1, ConcatEmptySeq
<1> HIDE DEF X
<1> QED
  BY <1>1, <1>6, <1>7, MovesOn

\* What is above b is there twice.
Doubles(f, t) ==
    \A A, X \in Seq(Slots) :
        X = Expanded(t) /\ frame = At(A \o X, frame.locals, <<>>) /\ Len(A \o (X \o X)) <= MaxStack
            => \E h : f = At(A \o (X \o X), frame.locals, h)

LEMMA DoublesInStep ==
  ASSUME NEW op, Ready(op), op.code \in Java!StackCodes, NEW b, NEW t, NEW form, Finds(op, b, t, form),
         Picked(t, form[2]) = t \o t, NEW f, Proceed(f, pc + 1),
         Doubles(f, t)
  PROVE  InStep'
<1>1. /\ b \in Seq(JavaValues) /\ t \in Seq(JavaValues) /\ java.stack = b \o t
      /\ Java!Moved(op.code, java.stack) = b \o (t \o t)
  BY Zenon DEF Finds
<1> DEFINE A == Expanded(b)
           X == Expanded(t)
           w == t \o t
           r == b \o w
<1>2. A \in Seq(Slots) /\ X \in Seq(Slots) /\ Expanded(b \o t) = A \o X
  BY <1>1, ExpandedType, ExpandedOfConcat
<1>3. frame = At(Expanded(java.stack), frame.locals, <<>>)
  BY Agreement DEF Agrees
<1>4. frame = At(A \o X, frame.locals, <<>>)
  BY <1>1, <1>2, <1>3, Zenon
<1>5. w \in Seq(JavaValues) /\ Expanded(w) = X \o X
  BY <1>1, ConcatProperties, ExpandedOfConcat
<1>6. r \in Seq(JavaValues) /\ Expanded(r) = A \o (X \o X)
  <2>1. r \in Seq(JavaValues)
    <3> HIDE DEF w
    <3> QED
      BY <1>1, <1>5, ConcatProperties
  <2>2. Expanded(r) = A \o Expanded(w)
    <3> HIDE DEF w
    <3> QED
      BY <1>1, <1>5, ExpandedOfConcat
  <2> QED
    BY <1>5, <2>1, <2>2, Zenon
<1>7. Java!Moved(op.code, java.stack) = r
  BY <1>1
<1>8. Len(Expanded(r)) <= MaxStack
  <2> HIDE DEF r
  <2> QED
    BY <1>6, <1>7, MovedFits
<1>9. PICK h : f = At(A \o (X \o X), frame.locals, h)
  <2>1. Len(A \o (X \o X)) <= MaxStack
    BY <1>6, <1>8, Zenon
  <2> QED
    BY <1>2, <1>4, <2>1, Zenon DEF Doubles
<1>10. Proceed(At(Expanded(r), frame.locals, h), pc + 1)
  BY <1>6, <1>9, Zenon
<1> HIDE DEF r
<1> QED
  BY <1>6, <1>7, <1>10, MovesOn

LEMMA SwapInStep ==
  ASSUME NEW op, Ready(op), op.code = "swap", Proceed(Swap(frame), pc + 1)
  PROVE  InStep'
<1>1. op.code \in Java!StackCodes
  BY DEF Java!StackCodes
<1>2. PICK b, t, form : Finds(op, b, t, form)
  BY <1>1, FormFound
<1>3. /\ form \in Java!Forms[op.code] /\ Taken(form, t) /\ b \in Seq(JavaValues) /\ t \in Seq(JavaValues)
      /\ java.stack = b \o t /\ Java!Moved(op.code, java.stack) = b \o Picked(t, form[2])
  BY <1>2, Zenon DEF Finds
<1>4. PICK y, x \in Seq(JavaValues) :
          t = y \o x /\ Picked(t, form[2]) = x \o y /\ Len(Expanded(y)) = 1 /\ Len(Expanded(x)) = 1
  <2>1. Swapped(t, Picked(t, form[2]))
    BY <1>3, SwapShaped
  <2> QED
    BY <2>1, Zenon DEF Swapped
<1> DEFINE A == Expanded(b)
           Y == Expanded(y)
           X == Expanded(x)
           v == y \o x
           w == x \o y
           r == b \o w
           L == frame.locals
<1>5. A \in Seq(Slots) /\ Y \in Seq(Slots) /\ X \in Seq(Slots)
  BY <1>3, ExpandedType
<1>6. v \in Seq(JavaValues) /\ w \in Seq(JavaValues)
  BY ConcatProperties
<1>7. Expanded(v) = Y \o X /\ Expanded(w) = X \o Y
  BY ExpandedOfConcat
<1>8. Expanded(b \o v) = A \o Expanded(v) /\ Expanded(r) = A \o Expanded(w) /\ r \in Seq(JavaValues)
  <2> HIDE DEF v, w
  <2> QED
    BY <1>3, <1>6, ExpandedOfConcat, ConcatProperties
<1>9. Java!Moved(op.code, java.stack) = r /\ java.stack = b \o v
  BY <1>3, <1>4, Zenon
<1>10. Len(Expanded(r)) <= MaxStack
  <2> HIDE DEF r
  <2> QED
    BY <1>1, <1>8, <1>9, MovedFits
<1>11. frame = At(Expanded(java.stack), L, <<>>)
  BY Agreement DEF Agrees
<1>12. frame = At(A \o (Y \o X), L, <<>>) /\ Len(A \o (X \o Y)) <= MaxStack
  BY <1>7, <1>8, <1>9, <1>10, <1>11, Zenon
<1>13. Swap(At(A \o (Y \o X), L, <<>>)) = At(A \o (X \o Y), L, Y \o X)
  <2> DEFINE g == <<>>
  <2>1. Len(Y) = 1 /\ Len(X) = 1 /\ Len(A \o (X \o Y)) <= MaxStack
    BY <1>4, <1>12
  <2> HIDE DEF g, L, A, X, Y
  <2>2. Swap(At(A \o (Y \o X), L, g)) = At(A \o (X \o Y), L, Y \o X)
    BY <1>5, <2>1, SwapBlock
  <2> QED
    BY <2>2 DEF g
<1>14. Proceed(At(Expanded(r), frame.locals, Y \o X), pc + 1)
  BY <1>7, <1>8, <1>12, <1>13, Zenon
<1> HIDE DEF r, X, Y
<1> QED
  BY <1>1, <1>8, <1>9, <1>14, MovesOn

LEMMA StackManagementInStep ==
  ASSUME NEW op, Ready(op), StackManagement(op)
  PROVE  InStep'
<1>1. op.code \in Java!StackCodes
  BY DEF Java!StackCodes, StackManagement
<1>2. PICK b, t, form : Finds(op, b, t, form)
  BY <1>1, FormFound
<1>3. /\ form \in Java!Forms[op.code] /\ Taken(form, t) /\ t \in Seq(JavaValues)
      /\ b \in Seq(JavaValues) /\ java.stack = b \o t /\ Java!Moved(op.code, java.stack) = b \o Picked(t, form[2])
  BY <1>2, Zenon DEF Finds
<1> DEFINE L == frame.locals
<1>4. CASE op.code = "nop"
  <2>1. Proceed(frame, pc + 1)
    BY <1>4 DEF StackManagement, Step
  <2>2. Picked(t, form[2]) = <<>> /\ t = <<>>
    BY <1>3, <1>4, PopsShaped
  <2>3. b \o <<>> = b
    BY <1>3, ConcatEmptySeq
  <2>4. java.stack = b /\ Java!Moved(op.code, java.stack) = b
    BY <1>3, <2>2, <2>3, Zenon
  <2>5. frame = At(Expanded(java.stack), frame.locals, <<>>)
    BY Agreement DEF Agrees
  <2>6. Proceed(At(Expanded(b), frame.locals, <<>>), pc + 1)
    BY <2>1, <2>4, <2>5, Zenon
  <2> QED
    BY <1>1, <1>3, <2>4, <2>6, MovesOn
<1>5. CASE op.code = "pop"
  <2>1. Proceed(PopN(frame, 1), pc + 1)
    BY <1>5 DEF StackManagement, Step
  <2>2. Picked(t, form[2]) = <<>> /\ Len(Expanded(t)) = 1
    BY <1>3, <1>5, PopsShaped
  <2> QED
    BY <1>1, <1>2, <2>1, <2>2, DropsInStep
<1>6. CASE op.code = "pop2"
  <2>1. Proceed(PopN(frame, 2), pc + 1)
    BY <1>6 DEF StackManagement, Step
  <2>2. Picked(t, form[2]) = <<>> /\ Len(Expanded(t)) = 2
    BY <1>3, <1>6, PopsShaped
  <2> QED
    BY <1>1, <1>2, <2>1, <2>2, DropsInStep
<1>7. CASE op.code = "dup"
  <2>1. Proceed(Dup(frame), pc + 1)
    BY <1>7 DEF StackManagement, Step
  <2>2. Picked(t, form[2]) = t \o t /\ Len(Expanded(t)) = 1
    BY <1>3, <1>7, DupsShaped
  <2>3. ASSUME NEW A \in Seq(Slots), NEW X \in Seq(Slots), X = Expanded(t), frame = At(A \o X, L, <<>>),
               Len(A \o (X \o X)) <= MaxStack
        PROVE  \E h : Dup(frame) = At(A \o (X \o X), L, h)
    <3> DEFINE g == <<>>
    <3>1. Len(X) = 1 /\ frame = At(A \o X, L, g)
      BY <2>2, <2>3
    <3> HIDE DEF g, L
    <3>2. Dup(At(A \o X, L, g)) = At(A \o (X \o X), L, X)
      BY <2>3, <3>1, DupsBlock
    <3> QED
      BY <3>1, <3>2, Zenon
  <2> HIDE DEF L
  <2>4. Doubles(Dup(frame), t)
    BY <2>3, Zenon DEF L, Doubles
  <2> QED
    BY <1>1, <1>2, <2>1, <2>2, <2>4, DoublesInStep
<1>8. CASE op.code = "dup2"
  <2>1. Proceed(Dup2(frame), pc + 1)
    BY <1>8 DEF StackManagement, Step
  <2>2. Picked(t, form[2]) = t \o t /\ Len(Expanded(t)) = 2
    BY <1>3, <1>8, DupsShaped
  <2>3. ASSUME NEW A \in Seq(Slots), NEW X \in Seq(Slots), X = Expanded(t), frame = At(A \o X, L, <<>>),
               Len(A \o (X \o X)) <= MaxStack
        PROVE  \E h : Dup2(frame) = At(A \o (X \o X), L, h)
    <3> DEFINE g == <<>>
    <3>1. Len(X) = 2 /\ frame = At(A \o X, L, g)
      BY <2>2, <2>3
    <3> HIDE DEF g, L
    <3>2. \E h : Dup2(At(A \o X, L, g)) = At(A \o (X \o X), L, h)
      BY <2>3, <3>1, Dup2Block
    <3> QED
      BY <3>1, <3>2, Zenon
  <2> HIDE DEF L
  <2>4. Doubles(Dup2(frame), t)
    BY <2>3, Zenon DEF L, Doubles
  <2> QED
    BY <1>1, <1>2, <2>1, <2>2, <2>4, DoublesInStep
<1>9. CASE op.code \in {"dup_x1", "dup_x2", "dup2_x1", "dup2_x2"}
  BY <1>9, CopyingInStep
<1>10. CASE op.code = "swap"
  <2>1. Proceed(Swap(frame), pc + 1)
    BY <1>10 DEF StackManagement, Step
  <2> QED
    BY <1>10, <2>1, SwapInStep
<1> QED
  BY <1>1, <1>4, <1>5, <1>6, <1>7, <1>8, <1>9, <1>10 DEF Java!StackCodes

-----------------------------------------------------------------------------
(* Every instruction, and every step. *)

LEMMA LongConstantsAndLocalsInStep ==
  ASSUME NEW op, Ready(op), LongConstantsAndLocals(op)
  PROVE  InStep'
<1>1. CASE op.code \in {"lconst"} /\ Step(Push(frame, "Long", op.value), 1)
  <2>1. op.code = "lconst" /\ Step(Push(frame, "Long", op.value), 1)
    BY <1>1
  <2> QED
    BY <2>1, WideConstantsInStep
<1>2. CASE op.code = "ldc2_w" /\ op.constant \in {"Long", "Double"} /\ Step(Push(frame, op.constant, op.value), 3)
  <2> DEFINE k == op.constant
  <2>1. k \in {"Long", "Float", "Double"} /\ k = op.constant /\ Step(Push(frame, k, op.value), 3)
    BY <1>2
  <2> HIDE DEF k
  <2> QED
    BY <1>2, <2>1, WideConstantsInStep
<1>3. CASE op.type = "Long" /\ Local(op)
  BY <1>3, LocalInStep
<1> QED
  BY <1>1, <1>2, <1>3, Zenon DEF LongConstantsAndLocals

LEMMA FloatConstantsAndLocalsInStep ==
  ASSUME NEW op, Ready(op), FloatConstantsAndLocals(op)
  PROVE  InStep'
<1>1. CASE op.code = "fconst" /\ Step(Push(frame, "Float", op.value), 1)
  BY <1>1, WideConstantsInStep
<1>2. CASE op.type = "Float" /\ Local(op)
  BY <1>2, LocalInStep
<1> QED
  BY <1>1, <1>2, Zenon DEF FloatConstantsAndLocals

LEMMA DoubleConstantsAndLocalsInStep ==
  ASSUME NEW op, Ready(op), DoubleConstantsAndLocals(op)
  PROVE  InStep'
<1>1. CASE op.code = "dconst" /\ Step(Push(frame, "Double", op.value), 1)
  BY <1>1, WideConstantsInStep
<1>2. CASE op.type = "Double" /\ Local(op)
  BY <1>2, LocalInStep
<1> QED
  BY <1>1, <1>2, Zenon DEF DoubleConstantsAndLocals

LEMMA ArithmeticInStep ==
  ASSUME NEW op, Ready(op), LongArithmetic(op) \/ FloatArithmetic(op) \/ DoubleArithmetic(op)
  PROVE  InStep'
<1>1. CASE LongArithmetic(op)
  <2>1. op.type = "Long" /\ IntegerArithmetic(op, LongBits)
    BY <1>1, Zenon DEF LongArithmetic
  <2> QED
    BY <2>1, LongArithmeticInStep
<1>2. CASE FloatArithmetic(op)
  <2>1. op.type = "Float" /\ FloatingArithmetic(op, FloatTop)
    BY <1>2, Zenon DEF FloatArithmetic
  <2> QED
    BY <2>1, FloatingInStep
<1>3. CASE DoubleArithmetic(op)
  <2>1. op.type = "Double" /\ FloatingArithmetic(op, DoubleTop)
    BY <1>3, Zenon DEF DoubleArithmetic
  <2> QED
    BY <2>1, FloatingInStep
<1> QED
  BY <1>1, <1>2, <1>3

LEMMA DispatchInStep ==
  ASSUME NEW op, Ready(op), Dispatch(op)
  PROVE  InStep'
<1>1. IntConstants(op) \/ LoadConstant(op) \/ LongConstantsAndLocals(op) => InStep'
  BY IntConstantsInStep, LoadConstantInStep, LongConstantsAndLocalsInStep, Zenon
<1>2. FloatConstantsAndLocals(op) \/ DoubleConstantsAndLocals(op) => InStep'
  BY FloatConstantsAndLocalsInStep, DoubleConstantsAndLocalsInStep, Zenon
<1>3. IntLocals(op) \/ RefLocals(op) => InStep'
  BY LocalInStep, Zenon DEF IntLocals, RefLocals
<1>4. IntArithmetic(op) \/ LongBitsAndCompare(op) \/ Conversions(op) \/ StackManagement(op) => InStep'
  BY IntArithmeticInStep, LongBitsAndCompareInStep, ConversionsInStep, StackManagementInStep, Zenon
<1>5. LongArithmetic(op) \/ FloatArithmetic(op) \/ DoubleArithmetic(op) => InStep'
  BY ArithmeticInStep, Zenon
<1>6. IntBranches(op) \/ RefBranches(op) \/ Goto(op) \/ TableSwitch(op) \/ LookupSwitch(op) => InStep'
  BY IntBranchesInStep, RefBranchesInStep, GotoInStep, TableSwitchInStep, LookupSwitchInStep, Zenon
<1>7. FieldAccess(op) \/ Invocations(op) \/ ArraysAndTypes(op) \/ Monitors(op) => InStep'
  BY FieldAccessInStep, InvocationsInStep, ArraysAndTypesInStep, MonitorsInStep, Zenon
<1>8. Returns(op) \/ Athrow(op) \/ Unsupported(op) => InStep'
  BY ReturnsInStep, AthrowInStep, UnsupportedInStep, Zenon
<1> QED
  BY <1>1, <1>2, <1>3, <1>4, <1>5, <1>6, <1>7, <1>8, Zenon DEF Dispatch

LEMMA StepsInStep ==
  ASSUME InStep, [NextInstruction]_allVars
  PROVE  InStep'
<1>1. CASE NextInstruction
  <2>1. outcome = Running /\ method' = method
    BY <1>1 DEF NextInstruction
  <2>2. PICK op \in Instructions[<<method, pc>>] :
            Java!Admits(op, java) /\ java' = Java!Exec(op, java) /\ WithinWindow(op) /\ Dispatch(op)
    BY <1>1, Zenon DEF NextInstruction
  <2>3. method \in Methods /\ pc \in 0 .. 3
    BY <2>1 DEF InStep, Verified
  <2>4. Encoded(op)
    BY <2>2, <2>3, InstructionsEncoded
  <2>5. Ready(op)
    BY <2>1, <2>2, <2>4, Zenon DEF Ready
  <2> QED
    BY <2>2, <2>5, DispatchInStep
<1>2. CASE UNCHANGED allVars
  <2>1. frame' = frame /\ pc' = pc /\ outcome' = outcome /\ java' = java /\ method' = method
    BY <1>2 DEF allVars, vars
  <2> QED
    BY <2>1, Zenon DEF InStep, Refused, Verified, Agrees
<1> QED
  BY <1>1, <1>2

LEMMA InStepAgrees ==
  InStep => FrameIsJavas /\ StaysOnInstructions
<1> SUFFICES ASSUME InStep
             PROVE  FrameIsJavas /\ StaysOnInstructions
  OBVIOUS
<1>1. CASE outcome = Running
  <2>1. Verified(java) /\ Agrees(frame, java) /\ pc = java.pc
    BY <1>1 DEF InStep
  <2>2. java.outcome = Running /\ java.locals \in [Locals -> Slots]
    <3>1. java = [stack |-> java.stack, locals |-> java.locals, pc |-> java.pc, outcome |-> Running]
      BY <2>1 DEF Verified
    <3> QED
      BY <2>1, <3>1 DEF Verified
  <2>3. frame.ok /\ frame.stack = Expanded(java.stack)
    <3>1. frame = At(Expanded(java.stack), frame.locals, <<>>)
      BY <2>1 DEF Agrees
    <3> QED
      BY <3>1 DEF At
  <2>4. DOMAIN java.locals = Locals
    BY <2>2
  <2>5. \A i \in DOMAIN java.locals : java.locals[i] # Java!Unusable => frame.locals[i] = java.locals[i]
    BY <2>1, <2>4, Zenon DEF Agrees
  <2> QED
    BY <1>1, <2>1, <2>2, <2>3, <2>5, Zenon DEF FrameIsJavas, StaysOnInstructions
<1>2. CASE outcome # Running
  BY <1>2, Zenon DEF InStep, FrameIsJavas, StaysOnInstructions
<1> QED
  BY <1>1, <1>2

-----------------------------------------------------------------------------
(* The beginning of an activation. *)

\* One step of store_arg: the frame, and the slot of the next argument.
Storing(s, a) == [frame |-> SetLocal(s.frame, s.at, a.kind, a.value), at |-> s.at + Len(SlotsFor(a))]

\* The first n arguments stored, n at most two.
Stored(f, args, n) ==
    IF n = 0 THEN [frame |-> f, at |-> 0]
    ELSE IF n = 1 THEN Storing([frame |-> f, at |-> 0], args[1])
    ELSE Storing(Storing([frame |-> f, at |-> 0], args[1]), args[2])

LEMMA StoresArguments ==
  ASSUME NEW f, NEW args, Len(args) \in {0, 1, 2}
  PROVE  StoreArgs(f, 0, args) = Stored(f, args, Len(args)).frame
<1>0. \A n \in 0 .. Len(args) : n # 0 => n - 1 \in 0 .. Len(args) /\ (n = 1 \/ n = 2)
  <2> DEFINE L == Len(args)
  <2>1. L \in {0, 1, 2}
    OBVIOUS
  <2> HIDE DEF L
  <2>2. \A n \in 0 .. L : n # 0 => n - 1 \in 0 .. L /\ (n = 1 \/ n = 2)
    BY <2>1
  <2> QED
    BY <2>2 DEF L
<1> DEFINE h == [n \in 0 .. Len(args) |-> Stored(f, args, n)]
           stored[n \in 0 .. Len(args)] ==
               IF n = 0 THEN [frame |-> f, at |-> 0]
               ELSE [frame |-> SetLocal(stored[n - 1].frame, stored[n - 1].at, args[n].kind, args[n].value),
                     at |-> stored[n - 1].at + Len(SlotsFor(args[n]))]
<1>1. ASSUME NEW n \in 0 .. Len(args), n # 0
      PROVE  h[n] = Storing(h[n - 1], args[n]) /\ h[n] = [frame |-> SetLocal(h[n - 1].frame, h[n - 1].at, args[n].kind, args[n].value),
                                                          at |-> h[n - 1].at + Len(SlotsFor(args[n]))]
  <2>1. n - 1 \in 0 .. Len(args) /\ (n = 1 \/ n = 2)
    BY <1>0, <1>1, Zenon
  <2>2. h[n] = Stored(f, args, n) /\ h[n - 1] = Stored(f, args, n - 1)
    BY <2>1
  <2>3. h[n] = Storing(h[n - 1], args[n])
    <3> HIDE DEF h
    <3>1. CASE n = 1
      <4>1. n - 1 = 0
        BY <3>1
      <4>2. Stored(f, args, 1) = Storing(Stored(f, args, 0), args[1])
        BY DEF Stored
      <4> QED
        BY <2>2, <3>1, <4>1, <4>2
    <3>2. CASE n = 2
      <4>1. n - 1 = 1
        BY <3>2
      <4>2. Stored(f, args, 2) = Storing(Stored(f, args, 1), args[2])
        BY DEF Stored
      <4> QED
        BY <2>2, <3>2, <4>1, <4>2
    <3> QED
      BY <2>1, <3>1, <3>2
  <2> HIDE DEF h
  <2> QED
    BY <2>3, Zenon DEF Storing
<1>2. 0 \in 0 .. Len(args) /\ Len(args) \in 0 .. Len(args)
  OBVIOUS
<1>3. h[0] = [frame |-> f, at |-> 0] /\ h[Len(args)] = Stored(f, args, Len(args))
  BY <1>2 DEF Stored
<1>4. h = [n \in 0 .. Len(args) |-> h[n]]
  OBVIOUS
<1> HIDE DEF h
<1>5. h = [n \in 0 .. Len(args) |->
              IF n = 0 THEN [frame |-> f, at |-> 0]
              ELSE [frame |-> SetLocal(h[n - 1].frame, h[n - 1].at, args[n].kind, args[n].value),
                    at |-> h[n - 1].at + Len(SlotsFor(args[n]))]]
  BY <1>1, <1>3, <1>4, Zenon
<1>6. stored = [n \in 0 .. Len(args) |->
              IF n = 0 THEN [frame |-> f, at |-> 0]
              ELSE [frame |-> SetLocal(stored[n - 1].frame, stored[n - 1].at, args[n].kind, args[n].value),
                    at |-> stored[n - 1].at + Len(SlotsFor(args[n]))]]
  BY <1>5, Zenon
<1>7. StoreArgs(f, 0, args) = stored[Len(args)].frame
  BY Zenon DEF StoreArgs
<1> HIDE DEF stored
<1>8. stored[0] = h[0]
  BY <1>2, <1>3, <1>6, Zenon
<1>9. ASSUME NEW n \in 1 .. Len(args), stored[n - 1] = h[n - 1]
      PROVE  stored[n] = h[n]
  <2>1. n \in 0 .. Len(args) /\ n # 0
    BY <1>9
  <2>2. stored[n] = [frame |-> SetLocal(stored[n - 1].frame, stored[n - 1].at, args[n].kind, args[n].value),
                     at |-> stored[n - 1].at + Len(SlotsFor(args[n]))]
    BY <1>6, <2>1, Zenon
  <2> QED
    BY <1>1, <1>9, <2>1, <2>2, Zenon
<1>10. stored[Len(args)] = h[Len(args)]
  <2>1. CASE Len(args) = 0
    BY <1>8, <2>1
  <2>2. Len(args) \in {1, 2} => stored[1] = h[1]
    <3>1. Len(args) \in {1, 2} => 1 \in 1 .. Len(args) /\ 1 - 1 = 0
      OBVIOUS
    <3> QED
      BY <1>8, <1>9, <3>1
  <2>3. Len(args) = 2 => stored[2] = h[2]
    <3>1. Len(args) = 2 => 2 \in 1 .. Len(args) /\ 2 - 1 = 1
      OBVIOUS
    <3> QED
      BY <1>9, <2>2, <3>1
  <2> QED
    BY <2>1, <2>2, <2>3
<1> QED
  BY <1>3, <1>7, <1>10, Zenon

LEMMA ArgumentsAre ==
  ASSUME NEW m \in Methods, NEW args \in Arguments(m)
  PROVE  \/ args = <<>>
         \/ \E v \in JavaValues : args = <<v>> /\ Java!Category(v.kind) <= MaxLocals
         \/ \E v \in JavaValues, w \in JavaValues :
                args = <<v, w>> /\ Java!Category(v.kind) + Java!Category(w.kind) <= MaxLocals
<1>1. m.kinds \subseteq Five /\ m.locals \in Nat /\ m.locals <= MaxLocals /\ MaxLocals \in Nat
  BY MethodsAssumption, FramesAssumption DEF Five
<1>2. \/ args = <<>>
      \/ \E p \in UNION {{k} \X Constants(k, m) : k \in {x \in m.kinds : Java!Category(x) <= m.locals}} :
             args = <<Java!Value(p[1], p[2])>>
      \/ \E p \in {q \in m.kinds \X m.kinds : Java!SlotsOf(q) <= m.locals} :
             args = <<Java!Value(p[1], 1), Java!Value(p[2], 0)>>
  BY DEF Arguments
<1>3. ASSUME NEW p \in UNION {{k} \X Constants(k, m) : k \in {x \in m.kinds : Java!Category(x) <= m.locals}},
             args = <<Java!Value(p[1], p[2])>>
      PROVE  \E v \in JavaValues : args = <<v>> /\ Java!Category(v.kind) <= MaxLocals
  <2>1. PICK k \in {x \in m.kinds : Java!Category(x) <= m.locals} : p \in {k} \X Constants(k, m)
    OBVIOUS
  <2>2. p[1] = k /\ p[2] \in Constants(k, m) /\ k \in Five
    BY <1>1, <2>1
  <2> DEFINE v == Slot(k, p[2])
  <2>3. v \in JavaValues
    BY <2>2, ConstantsAreValues
  <2>4. v.kind = k /\ args = <<v>>
    BY <1>3, <2>2 DEF Slot, Java!Value
  <2>5. Java!Category(k) <= MaxLocals
    BY <1>1, <2>1 DEF Java!Category
  <2> QED
    BY <2>3, <2>4, <2>5
<1>4. ASSUME NEW p \in {q \in m.kinds \X m.kinds : Java!SlotsOf(q) <= m.locals},
             args = <<Java!Value(p[1], 1), Java!Value(p[2], 0)>>
      PROVE  \E v \in JavaValues, w \in JavaValues :
                args = <<v, w>> /\ Java!Category(v.kind) + Java!Category(w.kind) <= MaxLocals
  <2> DEFINE v == Slot(p[1], 1)
             w == Slot(p[2], 0)
             ks == Java!Kinds(<<v, w>>)
  <2>1. p[1] \in Five /\ p[2] \in Five /\ p = <<p[1], p[2]>> /\ Java!SlotsOf(p) <= m.locals
    BY <1>1
  <2>2. v \in JavaValues /\ w \in JavaValues
    BY <2>1, SmallValues
  <2>3. v.kind = p[1] /\ w.kind = p[2] /\ args = <<v, w>>
    BY <1>4, <2>1 DEF Slot, Java!Value
  <2> HIDE DEF v, w
  <2>4. ks = p
    <3>1. ks = [i \in 1 .. 2 |-> <<v, w>>[i].kind]
      BY DEF Java!Kinds
    <3>2. <<v, w>>[1].kind = v.kind /\ <<v, w>>[2].kind = w.kind
      OBVIOUS
    <3>3. ks = <<v.kind, w.kind>>
      BY <3>1, <3>2
    <3> QED
      BY <2>1, <2>3, <3>3
  <2>5. Java!SlotsOf(ks) = Java!Category(v.kind) + Java!Category(w.kind)
    <3> HIDE DEF ks
    <3>1. <<v, w>> \in Seq(JavaValues) /\ Len(Expanded(<<v, w>>)) = Java!Category(v.kind) + Java!Category(w.kind)
      BY <2>2, CountsTwo
    <3>2. Java!SlotsOf(Java!Kinds(<<v, w>>)) = Len(Expanded(<<v, w>>))
      BY <3>1, SlotsAreCounted
    <3> QED
      BY <3>1, <3>2 DEF ks
  <2>6. Java!Category(v.kind) + Java!Category(w.kind) <= MaxLocals
    <3>1. Java!Category(v.kind) \in Nat /\ Java!Category(w.kind) \in Nat
      BY DEF Java!Category
    <3>2. Java!Category(v.kind) + Java!Category(w.kind) <= m.locals
      BY <2>1, <2>4, <2>5
    <3> QED
      BY <1>1, <3>1, <3>2
  <2> QED
    BY <2>2, <2>3, <2>6
<1> QED
  BY <1>2, <1>3, <1>4

\* The frame an activation begins with.
Begins(args) ==
    \E L \in [Locals -> Slots] :
        /\ StoreArgs(NewFrame, 0, args) = At(<<>>, L, <<>>)
        /\ ArgumentLocals(args) \in [Locals -> Slots]
        /\ \A i \in Locals : ArgumentLocals(args)[i] # Java!Unusable => L[i] = ArgumentLocals(args)[i]

Empty == [i \in Locals |-> Top]

LEMMA NewFrameIsEmpty ==
  NewFrame = At(<<>>, Empty, <<>>) /\ Empty \in [Locals -> Slots] /\ \A i \in Locals : Empty[i] = Top
<1>1. NewFrame = At(<<>>, Empty, <<>>)
  BY DEF NewFrame, At, Empty, Locals
<1>2. Empty \in [Locals -> Slots] /\ \A i \in Locals : Empty[i] = Top
  BY SlotsKnown DEF Empty
<1> QED
  BY <1>1, <1>2

LEMMA BeginsWithNothing ==
  Begins(<<>>)
<1>1. StoreArgs(NewFrame, 0, <<>>) = NewFrame
  <2>1. Len(<<>>) = 0
    BY EmptySeq
  <2>2. StoreArgs(NewFrame, 0, <<>>) = Stored(NewFrame, <<>>, 0).frame
    BY <2>1, StoresArguments
  <2>3. Stored(NewFrame, <<>>, 0) = [frame |-> NewFrame, at |-> 0]
    BY DEF Stored
  <2> QED
    BY <2>2, <2>3
<1>2. ArgumentLocals(<<>>) = [k \in Locals |-> Java!Unusable]
  BY DEF ArgumentLocals, Locals
<1>3. ArgumentLocals(<<>>) = Empty
  BY <1>2, SlotsKnown, Zenon DEF Empty
<1> QED
  BY <1>1, <1>3, NewFrameIsEmpty, Zenon DEF Begins

\* No method of the model has more than two arguments.
Short(args) == Len(args) \in {0, 1, 2}

LEMMA StoresShort ==
  ASSUME NEW f, NEW args, Short(args)
  PROVE  StoreArgs(f, 0, args) = Stored(f, args, Len(args)).frame
BY StoresArguments DEF Short

LEMMA StoresFirst ==
  ASSUME NEW v \in JavaValues, Java!Category(v.kind) <= MaxLocals, NEW a, Storing([frame |-> NewFrame, at |-> 0], v) = a
  PROVE  /\ a.frame = At(<<>>, Set(Empty, 0, v), <<>>) /\ Set(Empty, 0, v) \in [Locals -> Slots]
         /\ a.at = Java!Category(v.kind)
<1>1. Java!Category(v.kind) \in {1, 2} /\ MaxLocals \in Nat /\ Len(SlotsFor(v)) = Java!Category(v.kind)
  BY ValueFacts, FramesAssumption DEF Java!Category
<1>2. 0 \in Locals /\ 0 + Java!Category(v.kind) <= MaxLocals
  BY <1>1 DEF Locals
<1>3. /\ SetLocal(At(<<>>, Empty, <<>>), 0, v.kind, v.value) = At(<<>>, Set(Empty, 0, v), <<>>)
      /\ Set(Empty, 0, v) \in [Locals -> Slots]
  BY <1>2, NewFrameIsEmpty, SetsLocal
<1>4. Storing([frame |-> NewFrame, at |-> 0], v) =
        [frame |-> SetLocal(NewFrame, 0, v.kind, v.value), at |-> 0 + Len(SlotsFor(v))]
  BY DEF Storing
<1>5. a.frame = SetLocal(NewFrame, 0, v.kind, v.value) /\ a.at = 0 + Len(SlotsFor(v))
  BY <1>4
<1> QED
  BY <1>1, <1>3, <1>5, NewFrameIsEmpty

LEMMA BeginsWithOne ==
  ASSUME NEW v \in JavaValues, Java!Category(v.kind) <= MaxLocals
  PROVE  Begins(<<v>>)
<1> DEFINE L == Set(Empty, 0, v)
           J == ArgumentLocals(<<v>>)
           a == Storing([frame |-> NewFrame, at |-> 0], v)
<1>1. a.frame = At(<<>>, L, <<>>) /\ L \in [Locals -> Slots]
  BY StoresFirst
<1>2. StoreArgs(NewFrame, 0, <<v>>) = a.frame
  <2>1. Len(<<v>>) = 1 /\ <<v>>[1] = v
    OBVIOUS
  <2>2. StoreArgs(NewFrame, 0, <<v>>) = Stored(NewFrame, <<v>>, 1).frame
    <3> DEFINE args == <<v>>
    <3>1. Len(args) = 1
      BY <2>1
    <3> HIDE DEF args
    <3>2. Short(args)
      BY <3>1 DEF Short
    <3>3. StoreArgs(NewFrame, 0, args) = Stored(NewFrame, args, Len(args)).frame
      BY <3>2, StoresShort, Zenon
    <3> QED
      BY <3>1, <3>3, Zenon DEF args
  <2>3. Stored(NewFrame, <<v>>, 1) = Storing([frame |-> NewFrame, at |-> 0], <<v>>[1])
    BY DEF Stored
  <2> QED
    BY <2>1, <2>2, <2>3
<1>3. J = [k \in Locals |-> IF k = 0 THEN v ELSE Java!Unusable]
  <2> DEFINE args == <<v>>
             at(i) == Java!SlotsOf(Java!Kinds(SubSeq(args, 1, i - 1)))
  <2>1. DOMAIN args = {1} /\ args[1] = v
    OBVIOUS
  <2>2. at(1) = 0
    <3>1. SubSeq(args, 1, 1 - 1) = <<>>
      OBVIOUS
    <3>2. Java!SlotsOf(Java!Kinds(<<>>)) = Len(Expanded(<<>>)) /\ Len(<<>>) = 0
      BY SlotsAreCounted, EmptySeq
    <3> QED
      BY <3>1, <3>2, ExpandedOfNothing
  <2>3. J = [k \in Locals |-> IF \E i \in DOMAIN args : at(i) = k THEN args[CHOOSE i \in DOMAIN args : at(i) = k]
                              ELSE Java!Unusable]
    BY Zenon DEF ArgumentLocals, Locals
  <2> HIDE DEF args, at, J
  <2>4. ASSUME NEW k \in Locals
        PROVE  (IF \E i \in DOMAIN args : at(i) = k THEN args[CHOOSE i \in DOMAIN args : at(i) = k] ELSE Java!Unusable)
               = IF k = 0 THEN v ELSE Java!Unusable
    <3>1. CASE k = 0
      <4>1. \E i \in DOMAIN args : at(i) = k
        BY <2>1, <2>2, <3>1
      <4>2. (CHOOSE i \in DOMAIN args : at(i) = k) \in DOMAIN args
        BY <4>1, Zenon
      <4> QED
        BY <2>1, <3>1, <4>1, <4>2
    <3>2. CASE k # 0
      BY <2>1, <2>2, <3>2
    <3> QED
      BY <3>1, <3>2
  <2> QED
    BY <2>3, <2>4, Zenon
<1>4. v \in Slots /\ Java!Unusable = Top /\ Top \in Slots
  BY SlotsKnown
<1>5. J \in [Locals -> Slots]
  BY <1>3, <1>4
<1>6. ASSUME NEW k \in Locals, J[k] # Java!Unusable
      PROVE  L[k] = J[k]
  <2>1. k = 0 /\ J[k] = v
    BY <1>3, <1>6
  <2>2. \A g \in [Locals -> Slots] : Putting(g, 0, v)[0] = v
    BY <2>1 DEF Putting
  <2>3. 0 + 1 = 1 /\ 0 \in Locals
    BY <2>1
  <2>4. L[0] = v
    BY <2>1, NewFrameIsEmpty DEF Set, Putting
  <2> QED
    BY <2>1, <2>4
<1> HIDE DEF L, J, a
<1> QED
  BY <1>1, <1>2, <1>5, <1>6, Zenon DEF Begins, J, L

LEMMA BeginsWithTwo ==
  ASSUME NEW v \in JavaValues, NEW w \in JavaValues, Java!Category(v.kind) + Java!Category(w.kind) <= MaxLocals
  PROVE  Begins(<<v, w>>)
<1> DEFINE c == Java!Category(v.kind)
           L1 == Set(Empty, 0, v)
           L == Set(L1, c, w)
           J == ArgumentLocals(<<v, w>>)
           a == Storing([frame |-> NewFrame, at |-> 0], v)
           b == Storing(a, w)
<1>1. c \in {1, 2} /\ Java!Category(w.kind) \in {1, 2} /\ MaxLocals \in Nat /\ c <= MaxLocals
  BY FramesAssumption DEF Java!Category
<1>2. a.frame = At(<<>>, L1, <<>>) /\ L1 \in [Locals -> Slots] /\ a.at = c
  BY <1>1, StoresFirst
<1>3. b.frame = SetLocal(a.frame, a.at, w.kind, w.value)
  <2> HIDE DEF a
  <2> QED
    BY DEF Storing
<1>4. c \in Locals /\ 0 \in Locals /\ c + Java!Category(w.kind) <= MaxLocals
  BY <1>1 DEF Locals
<1>5. b.frame = At(<<>>, L, <<>>) /\ L \in [Locals -> Slots]
  <2> HIDE DEF a, b, c, L1
  <2>1. SetLocal(At(<<>>, L1, <<>>), c, w.kind, w.value) = At(<<>>, Set(L1, c, w), <<>>) /\ Set(L1, c, w) \in [Locals -> Slots]
    BY <1>2, <1>4, SetsLocal
  <2> QED
    BY <1>2, <1>3, <2>1
<1>6. StoreArgs(NewFrame, 0, <<v, w>>) = b.frame
  <2>1. Len(<<v, w>>) = 2 /\ <<v, w>>[1] = v /\ <<v, w>>[2] = w
    OBVIOUS
  <2>2. StoreArgs(NewFrame, 0, <<v, w>>) = Stored(NewFrame, <<v, w>>, 2).frame
    <3> DEFINE args == <<v, w>>
    <3>1. Len(args) = 2
      BY <2>1
    <3> HIDE DEF args
    <3>2. Short(args)
      BY <3>1 DEF Short
    <3>3. StoreArgs(NewFrame, 0, args) = Stored(NewFrame, args, Len(args)).frame
      BY <3>2, StoresShort, Zenon
    <3> QED
      BY <3>1, <3>3, Zenon DEF args
  <2>3. Stored(NewFrame, <<v, w>>, 2) = Storing(Storing([frame |-> NewFrame, at |-> 0], <<v, w>>[1]), <<v, w>>[2])
    BY DEF Stored
  <2> QED
    BY <2>1, <2>2, <2>3
<1>7. J = [k \in Locals |-> IF k = 0 THEN v ELSE IF k = c THEN w ELSE Java!Unusable]
  <2> DEFINE args == <<v, w>>
             at(i) == Java!SlotsOf(Java!Kinds(SubSeq(args, 1, i - 1)))
  <2>1. DOMAIN args = {1, 2} /\ args[1] = v /\ args[2] = w
    OBVIOUS
  <2>2. at(1) = 0
    <3>1. SubSeq(args, 1, 1 - 1) = <<>>
      OBVIOUS
    <3>2. Java!SlotsOf(Java!Kinds(<<>>)) = Len(Expanded(<<>>)) /\ Len(<<>>) = 0
      BY SlotsAreCounted, EmptySeq
    <3> QED
      BY <3>1, <3>2, ExpandedOfNothing
  <2>3. at(2) = c
    <3>1. SubSeq(args, 1, 2 - 1) = <<v>>
      <4>1. args \in Seq(JavaValues) /\ Len(args) = 2 /\ args[1] = v
        BY CountsTwo, <2>1
      <4> DEFINE t == SubSeq(args, 1, 1)
      <4>2. t \in Seq(JavaValues) /\ Len(t) = 1 /\ t[1] = v
        <5> HIDE DEF args
        <5> QED
          BY <4>1, SubSeqProperties
      <4> HIDE DEF t
      <4>3. t = <<v>>
        BY <4>2
      <4> QED
        BY <4>3 DEF t
    <3>2. <<v>> \in Seq(JavaValues) /\ Len(Expanded(<<v>>)) = c
      BY CountsOne
    <3>3. Java!SlotsOf(Java!Kinds(<<v>>)) = Len(Expanded(<<v>>))
      BY <3>2, SlotsAreCounted
    <3> QED
      BY <3>1, <3>2, <3>3
  <2>4. J = [k \in Locals |-> IF \E i \in DOMAIN args : at(i) = k THEN args[CHOOSE i \in DOMAIN args : at(i) = k]
                              ELSE Java!Unusable]
    BY Zenon DEF ArgumentLocals, Locals
  <2> HIDE DEF args, at, J, c
  <2>5. ASSUME NEW k \in Locals
        PROVE  (IF \E i \in DOMAIN args : at(i) = k THEN args[CHOOSE i \in DOMAIN args : at(i) = k] ELSE Java!Unusable)
               = IF k = 0 THEN v ELSE IF k = c THEN w ELSE Java!Unusable
    <3> DEFINE i0 == CHOOSE i \in DOMAIN args : at(i) = k
    <3>1. CASE k = 0
      <4>1. \E i \in DOMAIN args : at(i) = k
        BY <2>1, <2>2, <3>1
      <4>2. i0 \in DOMAIN args /\ at(i0) = k
        BY <4>1, Zenon
      <4> HIDE DEF i0
      <4>3. i0 = 1
        BY <1>1, <2>1, <2>3, <3>1, <4>2
      <4> QED
        BY <2>1, <3>1, <4>1, <4>3 DEF i0
    <3>2. CASE k = c
      <4>1. \E i \in DOMAIN args : at(i) = k
        BY <2>1, <2>3, <3>2
      <4>2. i0 \in DOMAIN args /\ at(i0) = k
        BY <4>1, Zenon
      <4> HIDE DEF i0
      <4>3. i0 = 2 /\ k # 0
        BY <1>1, <2>1, <2>2, <3>2, <4>2
      <4> QED
        BY <2>1, <3>2, <4>1, <4>3 DEF i0
    <3>3. CASE k # 0 /\ k # c
      BY <2>1, <2>2, <2>3, <3>3
    <3> QED
      BY <3>1, <3>2, <3>3
  <2> QED
    BY <2>4, <2>5, Zenon
<1>8. v \in Slots /\ w \in Slots /\ Java!Unusable = Top /\ Top \in Slots
  BY SlotsKnown
<1>9. J \in [Locals -> Slots]
  BY <1>7, <1>8
<1>10. ASSUME NEW k \in Locals, J[k] # Java!Unusable
       PROVE  L[k] = J[k]
  <2>1. L1[0] = v
    BY <1>4, NewFrameIsEmpty DEF Set, Putting
  <2> HIDE DEF L1, c, J
  <2>2. L[c] = w /\ L[0] = L1[0]
    BY <1>1, <1>2, <1>4 DEF Set, Putting
  <2> QED
    BY <1>7, <1>10, <2>1, <2>2
<1> HIDE DEF L, J, a, b, c
<1> QED
  BY <1>5, <1>6, <1>9, <1>10, Zenon DEF Begins, J, L

LEMMA InitInStep ==
  InitActivation => InStep
<1> SUFFICES ASSUME InitActivation
             PROVE  InStep
  OBVIOUS
<1>1. method \in Methods
  BY DEF InitActivation
<1>2. PICK args \in Arguments(method) :
        Init(args) /\ java = [stack |-> <<>>, locals |-> ArgumentLocals(args), pc |-> 0, outcome |-> Running]
  BY DEF InitActivation
<1>3. frame = StoreArgs(NewFrame, 0, args) /\ pc = 0 /\ outcome = Running
  BY <1>2 DEF Init
<1>4. Begins(args)
  BY <1>1, ArgumentsAre, BeginsWithNothing, BeginsWithOne, BeginsWithTwo
<1>5. PICK L \in [Locals -> Slots] :
        /\ StoreArgs(NewFrame, 0, args) = At(<<>>, L, <<>>)
        /\ ArgumentLocals(args) \in [Locals -> Slots]
        /\ \A i \in Locals : ArgumentLocals(args)[i] # Java!Unusable => L[i] = ArgumentLocals(args)[i]
  BY <1>4, Zenon DEF Begins
<1>6. java.stack = <<>> /\ java.locals = ArgumentLocals(args) /\ java.pc = 0
  BY <1>2
<1>7. <<>> \in Seq(JavaValues) /\ Java!SlotsOf(Java!Kinds(<<>>)) <= MaxStack
  <2>1. <<>> \in Seq(JavaValues) /\ Len(<<>>) = 0
    BY EmptySeq
  <2>2. Java!SlotsOf(Java!Kinds(<<>>)) = Len(Expanded(<<>>))
    BY <2>1, SlotsAreCounted
  <2> QED
    BY <2>1, <2>2, ExpandedOfNothing, FramesAssumption
<1>8. Verified(java)
  <2>1. java = [stack |-> java.stack, locals |-> java.locals, pc |-> java.pc, outcome |-> Running]
    BY <1>2, <1>6
  <2>2. java.pc \in 0 .. 3
    BY <1>6
  <2> QED
    BY <1>5, <1>6, <1>7, <2>1, <2>2, Zenon DEF Verified
<1>9. Agrees(frame, java)
  <2>1. frame = At(<<>>, L, <<>>)
    BY <1>3, <1>5
  <2>2. frame.locals = L
    BY <2>1 DEF At
  <2> QED
    BY <1>5, <1>6, <2>1, <2>2, ExpandedOfNothing, Zenon DEF Agrees
<1> QED
  BY <1>1, <1>3, <1>6, <1>8, <1>9, Zenon DEF InStep

-----------------------------------------------------------------------------
(* The theorems. *)

LEMMA AlwaysInStep ==
  Spec => []InStep
<1>1. InitActivation => InStep
  BY InitInStep
<1>2. InStep /\ [NextInstruction]_allVars => InStep'
  BY StepsInStep
<1> QED
  BY <1>1, <1>2, PTL DEF Spec

\* Whatever instructions a verified method executes, with operands and locals of any
\* number of slots and integers of any widths, the frame of the interpreter is the frame
\* of the Java Virtual Machine Specification: the operand stack of frame.rs holds the
\* values slot by slot and every local that may be read holds its value, and the
\* handlers of mod.rs return, throw and go on as the instruction says.
THEOREM FrameIsAlwaysJavas ==
  Spec => []FrameIsJavas
<1>1. InStep => FrameIsJavas
  BY InStepAgrees
<1> QED
  BY <1>1, AlwaysInStep, PTL

\* `dispatch' always leaves the program counter on the instruction that follows the one
\* it executed: no handler counts too few or too many bytes of its operands, takes the
\* wrong branch, or reads the entries of a switch from the wrong alignment.
THEOREM AlwaysOnInstructions ==
  Spec => []StaysOnInstructions
<1>1. InStep => StaysOnInstructions
  BY InStepAgrees
<1> QED
  BY <1>1, AlwaysInStep, PTL
=============================================================================
