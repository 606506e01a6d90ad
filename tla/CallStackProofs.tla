-------------------------- MODULE CallStackProofs --------------------------
(***************************************************************************)
(* Proofs about CallStack, for any methods, exception tables and limits.    *)
(***************************************************************************)
EXTENDS CallStack, FiniteSetTheorems, SequenceTheorems, WellFoundedInduction, TLAPS

-----------------------------------------------------------------------------
(* Counting activations. *)

\* A count is a natural number.
LEMMA CountType ==
  ASSUME NEW s, NEW i \in Nat, NEW K
  PROVE  CountTo(s, i, K) \in Nat
<1>1. IsFiniteSet(1..i)
  BY FS_Interval
<1>2. IsFiniteSet({j \in 1..i : s[j].kind \in K})
  BY <1>1, FS_Subset
<1> QED
  BY <1>2, FS_CardinalityType DEF CountTo

\* It depends on the activations counted alone.
LEMMA CountSame ==
  ASSUME NEW s, NEW t, NEW i \in Nat, NEW K,
         \A j \in 1..i : s[j].kind = t[j].kind
  PROVE  CountTo(s, i, K) = CountTo(t, i, K)
<1>1. {j \in 1..i : s[j].kind \in K} = {j \in 1..i : t[j].kind \in K}
  OBVIOUS
<1> QED
  BY <1>1 DEF CountTo

\* One more activation.
LEMMA CountNext ==
  ASSUME NEW s, NEW i \in Nat, NEW K
  PROVE  CountTo(s, i + 1, K) =
           CountTo(s, i, K) + (IF s[i + 1].kind \in K THEN 1 ELSE 0)
<1> DEFINE S == {j \in 1..i : s[j].kind \in K}
           T == {j \in 1..i + 1 : s[j].kind \in K}
<1>1. IsFiniteSet(S) /\ Cardinality(S) \in Nat
  <2>1. IsFiniteSet(1..i)
    BY FS_Interval
  <2>2. IsFiniteSet(S)
    BY <2>1, FS_Subset
  <2> QED
    BY <2>2, FS_CardinalityType
<1> HIDE DEF S, T
<1>0. CountTo(s, i, K) = Cardinality(S) /\ CountTo(s, i + 1, K) = Cardinality(T)
  BY DEF CountTo, S, T
<1>2. CASE s[i + 1].kind \in K
  <2>1. T = S \cup {i + 1} /\ i + 1 \notin S
    BY <1>2 DEF S, T
  <2>2. Cardinality(T) = Cardinality(S) + 1
    BY <1>1, <2>1, FS_AddElement
  <2> QED
    BY <1>0, <1>2, <2>2
<1>3. CASE s[i + 1].kind \notin K
  <2>1. T = S
    BY <1>3 DEF S, T
  <2> QED
    BY <1>0, <1>1, <1>3, <2>1
<1> QED
  BY <1>2, <1>3

\* There are no more among fewer.
LEMMA CountMonotone ==
  ASSUME NEW s, NEW i \in Nat, NEW k \in Nat, i <= k, NEW K
  PROVE  CountTo(s, i, K) <= CountTo(s, k, K)
<1> DEFINE S == {j \in 1..i : s[j].kind \in K}
           T == {j \in 1..k : s[j].kind \in K}
<1>1. IsFiniteSet(1..k)
  BY FS_Interval
<1>2. IsFiniteSet(T)
  BY <1>1, FS_Subset
<1>3. S \in SUBSET T
  OBVIOUS
<1>4. Cardinality(S) <= Cardinality(T)
  BY <1>2, <1>3, FS_Subset
<1> QED
  BY <1>4 DEF CountTo

\* The activations counted have different numbers, in order, starting from 1.
LEMMA CountOrder ==
  ASSUME NEW s, NEW i \in Nat, NEW k \in Nat, i < k, NEW K, s[k].kind \in K
  PROVE  CountTo(s, i, K) < CountTo(s, k, K)
<1>1. CountTo(s, k, K) = CountTo(s, k - 1, K) + 1
  <2>1. k - 1 \in Nat /\ (k - 1) + 1 = k
    OBVIOUS
  <2> QED
    BY <2>1, CountNext
<1>2. CountTo(s, i, K) <= CountTo(s, k - 1, K)
  BY CountMonotone
<1>3. CountTo(s, i, K) \in Nat /\ CountTo(s, k - 1, K) \in Nat
  BY CountType
<1> QED
  BY <1>1, <1>2, <1>3

-----------------------------------------------------------------------------
(* What the actions do to the two stacks. *)

Frames == [kind : Kinds, method : Methods, pc : Pcs]

\* The frames s, the topmost at p.
FramesAt(s, p) == [s EXCEPT ![Len(s)].pc = p]

\* The pc of the last frame of a sequence changes, nothing else.
LEMMA FramePcSet ==
  ASSUME NEW s \in Seq(Frames), s # <<>>, NEW p \in Pcs, NEW t, t = FramesAt(s, p)
  PROVE  /\ t \in Seq(Frames)
         /\ Len(t) = Len(s)
         /\ \A i \in 1..Len(s) : t[i].kind = s[i].kind /\ t[i].method = s[i].method
<1> DEFINE e == [s[Len(s)] EXCEPT !.pc = p]
<1>1. Len(s) \in 1..Len(s)
  OBVIOUS
<1>2. s[Len(s)] \in Frames
  BY <1>1
<1>3. e \in Frames /\ e.kind = s[Len(s)].kind /\ e.method = s[Len(s)].method
  BY <1>2 DEF Frames
<1> HIDE DEF e
<1>4. t = [s EXCEPT ![Len(s)] = e]
  BY DEF e, FramesAt
<1> QED
  BY <1>1, <1>3, <1>4

\* The same for entries of the call stack, where there may be none.
LEMMA EntryPcSet ==
  ASSUME NEW s \in Seq(Entries), NEW p \in Pcs, NEW t, t = SetTopFramePc(s, p)
  PROVE  /\ t \in Seq(Entries)
         /\ Len(t) = Len(s)
         /\ \A i \in 1..Len(s) : t[i].method = s[i].method
         /\ \A i \in 1..Len(s) - 1 : t[i] = s[i]
<1>1. CASE s = <<>>
  BY <1>1 DEF SetTopFramePc
<1>2. CASE s # <<>>
  <2> DEFINE e == [s[Len(s)] EXCEPT !.pc = p]
  <2>1. Len(s) \in 1..Len(s)
    BY <1>2
  <2>2. s[Len(s)] \in Entries
    BY <2>1
  <2>3. e \in Entries /\ e.method = s[Len(s)].method
    BY <2>2 DEF Entries
  <2> HIDE DEF e
  <2>4. t = [s EXCEPT ![Len(s)] = e]
    BY <1>2 DEF e, SetTopFramePc
  <2> QED
    BY <2>1, <2>3, <2>4
<1> QED
  BY <1>1, <1>2

\* Dropping the last element.
LEMMA FrontElements ==
  ASSUME NEW S, NEW s \in Seq(S), s # <<>>
  PROVE  /\ Front(s) \in Seq(S)
         /\ Len(Front(s)) = Len(s) - 1
         /\ \A i \in 1..Len(s) - 1 : Front(s)[i] = s[i]
<1> DEFINE k == Len(s) - 1
<1>1. k \in Nat /\ k + 1 = Len(s)
  BY EmptySeq
<1>2. \A i \in 1..k : s[i] \in S
  BY <1>1
<1> HIDE DEF k
<1>3. /\ SubSeq(s, 1, k) \in Seq(S)
      /\ Len(SubSeq(s, 1, k)) = IF 1 <= k THEN k - 1 + 1 ELSE 0
      /\ \A i \in 1..k - 1 + 1 : SubSeq(s, 1, k)[i] = s[1 + i - 1]
  <2>1. k \in Int /\ 1 \in Int
    BY <1>1
  <2> QED
    BY <1>2, <2>1, SubSeqProperties
<1>4. Front(s) = SubSeq(s, 1, k)
  BY DEF Front, k
<1>5. Len(Front(s)) = k
  BY <1>1, <1>3, <1>4
<1>6. ASSUME NEW i \in 1..k
      PROVE  Front(s)[i] = s[i]
  <2>1. i \in 1..k - 1 + 1 /\ 1 + i - 1 = i
    BY <1>1
  <2>2. SubSeq(s, 1, k)[i] = s[1 + i - 1]
    BY <1>3, <2>1
  <2> QED
    BY <1>4, <2>1, <2>2
<1> QED
  BY <1>3, <1>4, <1>5, <1>6 DEF k

-----------------------------------------------------------------------------
(* Frames, call stack and depth agree, whatever becomes of the frames.      *)

Agree(f, c, d) ==
  /\ Len(c) = CountTo(f, Len(f), Named)
  /\ \A i \in 1..Len(f) : f[i].kind \in Named =>
       c[CountTo(f, i, Named)].method = f[i].method
  /\ d = CountTo(f, Len(f), Counted)

\* A frame with a name has an entry: its number is that of an entry.
LEMMA NumberOfFrame ==
  ASSUME NEW f \in Seq(Frames), NEW K, NEW i \in 1..Len(f), f[i].kind \in K
  PROVE  CountTo(f, i, K) \in 1..CountTo(f, Len(f), K)
<1>1. CountTo(f, 0, K) < CountTo(f, i, K)
  BY CountOrder
<1>2. CountTo(f, i, K) <= CountTo(f, Len(f), K)
  BY CountMonotone
<1> QED
  BY <1>1, <1>2, CountType

\* Frames that differ in their pcs, and entries that do, agree as before.
LEMMA AgreeSame ==
  ASSUME NEW f \in Seq(Frames), NEW c \in Seq(Entries), NEW d, Agree(f, c, d),
         NEW g \in Seq(Frames), Len(g) = Len(f),
         \A i \in 1..Len(f) : g[i].kind = f[i].kind /\ g[i].method = f[i].method,
         NEW b \in Seq(Entries), Len(b) = Len(c),
         \A i \in 1..Len(c) : b[i].method = c[i].method
  PROVE  Agree(g, b, d)
<1>1. ASSUME NEW K, NEW i \in 0..Len(f)
      PROVE  CountTo(g, i, K) = CountTo(f, i, K)
  <2>1. i \in Nat /\ \A j \in 1..i : g[j].kind = f[j].kind
    OBVIOUS
  <2> QED
    BY <2>1, CountSame
<1>2. Len(b) = CountTo(g, Len(g), Named)
  BY <1>1 DEF Agree
<1>3. d = CountTo(g, Len(g), Counted)
  BY <1>1 DEF Agree
<1>4. ASSUME NEW i \in 1..Len(g), g[i].kind \in Named
      PROVE  b[CountTo(g, i, Named)].method = g[i].method
  <2>1. f[i].kind \in Named /\ i \in 1..Len(f)
    BY <1>4
  <2>2. CountTo(f, i, Named) \in 1..Len(c)
    BY <2>1, NumberOfFrame DEF Agree
  <2>3. c[CountTo(f, i, Named)].method = f[i].method
    BY <2>1 DEF Agree
  <2> QED
    BY <1>1, <2>1, <2>2, <2>3
<1> QED
  BY <1>2, <1>3, <1>4 DEF Agree

\* Entering an activation: what Push does to the two stacks ...
PushedFrames(f, kind, m) == Append(f, [kind |-> kind, method |-> m, pc |-> 0])
PushedCalls(c, kind, m) ==
  IF kind \in Named THEN Append(c, [method |-> m, pc |-> 0]) ELSE SetTopFramePc(c, 0)

\* A push leaves what is below, and puts the new activation on top.
LEMMA PushedFramesShape ==
  ASSUME NEW f \in Seq(Frames), NEW kind \in Kinds, NEW m \in Methods, 0 \in Pcs
  PROVE  LET g == PushedFrames(f, kind, m)
         IN /\ g \in Seq(Frames) /\ Len(g) = Len(f) + 1
            /\ \A i \in 1..Len(f) : g[i] = f[i]
            /\ g[Len(f) + 1].kind = kind /\ g[Len(f) + 1].method = m
<1> DEFINE x == [kind |-> kind, method |-> m, pc |-> 0]
<1>1. x \in Frames /\ x.kind = kind /\ x.method = m
  BY DEF Frames
<1>2. PushedFrames(f, kind, m) = Append(f, x)
  BY DEF PushedFrames
<1> HIDE DEF x
<1> QED
  BY <1>1, <1>2

\* A push adds an entry for an activation with a name, above the entries there are.
LEMMA PushedCallsShape ==
  ASSUME NEW c \in Seq(Entries), NEW kind \in Kinds, NEW m \in Methods, 0 \in Pcs
  PROVE  LET b == PushedCalls(c, kind, m)
         IN /\ b \in Seq(Entries)
            /\ Len(b) = Len(c) + (IF kind \in Named THEN 1 ELSE 0)
            /\ \A i \in 1..Len(c) : b[i].method = c[i].method
            /\ \A i \in 1..Len(c) - 1 : b[i] = c[i]
            /\ kind \in Named => b[Len(c) + 1].method = m
<1> DEFINE y == [method |-> m, pc |-> 0]
<1>1. y \in Entries /\ y.method = m
  BY DEF Entries
<1>2. PushedCalls(c, kind, m) = IF kind \in Named THEN Append(c, y) ELSE SetTopFramePc(c, 0)
  BY DEF PushedCalls
<1> HIDE DEF y
<1>3. CASE kind \in Named
  BY <1>1, <1>2, <1>3
<1>4. CASE kind \notin Named
  BY <1>2, <1>4, EntryPcSet
<1> QED
  BY <1>3, <1>4

\* ... keeps them in agreement.
LEMMA AgreePush ==
  ASSUME NEW f \in Seq(Frames), NEW c \in Seq(Entries), NEW d \in Nat, Agree(f, c, d),
         NEW g \in Seq(Frames), Len(g) = Len(f) + 1,
         \A i \in 1..Len(f) : g[i] = f[i],
         NEW kind, g[Len(f) + 1].kind = kind, NEW m, g[Len(f) + 1].method = m,
         NEW b \in Seq(Entries), Len(b) = Len(c) + (IF kind \in Named THEN 1 ELSE 0),
         \A i \in 1..Len(c) : b[i].method = c[i].method,
         kind \in Named => b[Len(c) + 1].method = m
  PROVE  Agree(g, b, IF kind \in Counted THEN d + 1 ELSE d)
<1> DEFINE n == Len(f)
           e == IF kind \in Counted THEN d + 1 ELSE d
<1>1. n \in Nat
  OBVIOUS
<1>3. ASSUME NEW K, NEW i \in 0..n
      PROVE  CountTo(g, i, K) = CountTo(f, i, K)
  <2>1. i \in Nat /\ \A j \in 1..i : g[j].kind = f[j].kind
    OBVIOUS
  <2> QED
    BY <2>1, CountSame
<1>4. ASSUME NEW K
      PROVE  CountTo(g, n + 1, K) = CountTo(f, n, K) + (IF kind \in K THEN 1 ELSE 0)
  <2>1. CountTo(g, n + 1, K) = CountTo(g, n, K) + (IF g[n + 1].kind \in K THEN 1 ELSE 0)
    BY <1>1, CountNext
  <2>2. CountTo(g, n, K) = CountTo(f, n, K)
    BY <1>1, <1>3
  <2> QED
    BY <2>1, <2>2
<1>6. Len(b) = CountTo(g, Len(g), Named)
  BY <1>1, <1>4, CountType DEF Agree
<1>7. e = CountTo(g, Len(g), Counted)
  <2>1. CountTo(f, n, Counted) \in Nat
    BY <1>1, CountType
  <2> QED
    BY <1>4, <2>1 DEF Agree
<1>8. ASSUME NEW i \in 1..Len(g), g[i].kind \in Named
      PROVE  b[CountTo(g, i, Named)].method = g[i].method
  <2>1. CASE i = n + 1
    <3>1. kind \in Named /\ g[i].method = m
      BY <1>8, <2>1
    <3>2. CountTo(g, i, Named) = Len(c) + 1
      BY <1>4, <2>1, <3>1 DEF Agree
    <3> QED
      BY <3>1, <3>2
  <2>2. CASE i \in 1..n
    <3>1. CountTo(g, i, Named) = CountTo(f, i, Named) /\ f[i] = g[i]
      BY <1>3, <2>2
    <3>2. CountTo(f, i, Named) \in 1..Len(c)
      BY <1>8, <2>2, <3>1, NumberOfFrame DEF Agree
    <3>3. c[CountTo(f, i, Named)].method = f[i].method
      BY <1>8, <2>2, <3>1 DEF Agree
    <3> QED
      BY <3>1, <3>2, <3>3
  <2>3. i = n + 1 \/ i \in 1..n
    BY <1>1
  <2> QED
    BY <2>1, <2>2, <2>3
<1> QED
  BY <1>6, <1>7, <1>8 DEF Agree

\* Leaving one: there is an entry to pop if it had a name, and a level to give
\* back if it was counted.
LEMMA AgreePop ==
  ASSUME NEW f \in Seq(Frames), f # <<>>, NEW c \in Seq(Entries), NEW d, Agree(f, c, d),
         NEW kind, kind = f[Len(f)].kind,
         NEW b, b = IF kind \in Named THEN Front(c) ELSE c,
         NEW e, e = IF kind \in Counted THEN d - 1 ELSE d
  PROVE  /\ Front(f) \in Seq(Frames)
         /\ b \in Seq(Entries)
         /\ Len(b) <= Len(c)
         /\ \A i \in 1..Len(b) : b[i] = c[i]
         /\ e \in Nat /\ e <= d
         /\ Agree(Front(f), b, e)
<1> DEFINE g == Front(f)
           n == Len(f) - 1
<1>1. /\ n \in Nat /\ Len(f) = n + 1 /\ Len(g) = n
      /\ g \in Seq(Frames)
      /\ \A i \in 1..n : g[i] = f[i]
  BY FrontElements, EmptySeq
<1> HIDE DEF g, n
<1>2. ASSUME NEW K, NEW i \in 0..n
      PROVE  CountTo(g, i, K) = CountTo(f, i, K)
  <2>1. i \in Nat /\ \A j \in 1..i : g[j].kind = f[j].kind
    BY <1>1
  <2> QED
    BY <2>1, CountSame
<1>3. ASSUME NEW K
      PROVE  CountTo(f, n + 1, K) = CountTo(g, n, K) + (IF kind \in K THEN 1 ELSE 0)
  <2>1. CountTo(f, n + 1, K) = CountTo(f, n, K) + (IF f[n + 1].kind \in K THEN 1 ELSE 0)
    BY <1>1, CountNext
  <2>2. CountTo(g, n, K) = CountTo(f, n, K)
    BY <1>1, <1>2
  <2> QED
    BY <1>1, <2>1, <2>2
<1>4. ASSUME NEW K
      PROVE  CountTo(g, n, K) \in Nat
  BY <1>1, CountType
<1>5. /\ b \in Seq(Entries)
      /\ Len(b) = CountTo(g, n, Named)
      /\ Len(b) <= Len(c)
      /\ \A i \in 1..Len(b) : b[i] = c[i]
  <2>1. CASE kind \in Named
    <3>1. Len(c) = CountTo(g, n, Named) + 1
      BY <1>1, <1>3, <2>1 DEF Agree
    <3>2. c # <<>>
      BY <1>4, <3>1
    <3>3. b = Front(c)
      BY <2>1
    <3>4. /\ Front(c) \in Seq(Entries)
          /\ Len(Front(c)) = Len(c) - 1
          /\ \A i \in 1..Len(c) - 1 : Front(c)[i] = c[i]
      BY <3>2, FrontElements
    <3>5. CountTo(g, n, Named) \in Nat
      BY <1>4
    <3> QED
      BY <3>1, <3>3, <3>4, <3>5
  <2>2. CASE kind \notin Named
    <3>1. Len(c) = CountTo(g, n, Named)
      BY <1>1, <1>3, <1>4, <2>2 DEF Agree
    <3> QED
      BY <2>2, <3>1
  <2> QED
    BY <2>1, <2>2
<1>6. e = CountTo(g, n, Counted) /\ e \in Nat /\ e <= d
  BY <1>1, <1>3, <1>4 DEF Agree
<1>7. ASSUME NEW i \in 1..n, g[i].kind \in Named
      PROVE  b[CountTo(g, i, Named)].method = g[i].method
  <2>1. CountTo(g, i, Named) \in 1..Len(b)
    BY <1>1, <1>5, <1>7, NumberOfFrame
  <2>2. CountTo(g, i, Named) = CountTo(f, i, Named) /\ g[i] = f[i] /\ i \in 1..Len(f)
    BY <1>1, <1>2
  <2>3. c[CountTo(f, i, Named)].method = f[i].method
    BY <1>7, <2>2 DEF Agree
  <2> QED
    BY <1>5, <2>1, <2>2, <2>3
<1> QED
  BY <1>1, <1>5, <1>6, <1>7 DEF Agree, g

\* The invariant is inductive only with what the popping needs: that there is
\* something to pop.
Consistent == TypeOK /\ StacksAgree

\* Without activations the stacks agree.
LEMMA InitConsistent ==
  ASSUME CallStackAssumption, Init
  PROVE  Consistent
<1>1. CountTo(<<>>, 0, Named) = 0 /\ CountTo(<<>>, 0, Counted) = 0
  <2>1. {j \in 1..0 : <<>>[j].kind \in Named} = {} /\ {j \in 1..0 : <<>>[j].kind \in Counted} = {}
    OBVIOUS
  <2> QED
    BY <2>1, FS_EmptySet DEF CountTo
<1>2. TypeOK
  BY DEF Init, TypeOK, CallStackAssumption
<1>3. StacksAgree
  BY <1>1 DEF Init, StacksAgree
<1> QED
  BY <1>2, <1>3 DEF Consistent

\* What Push does to both stacks.
LEMMA Pushed ==
  ASSUME CallStackAssumption, Consistent, NEW kind \in Kinds, NEW m \in Methods, Push(kind, m)
  PROVE  /\ frames' \in Seq(Frames) /\ Len(frames') = Len(frames) + 1
         /\ \A i \in 1..Len(frames) : frames'[i] = frames[i]
         /\ frames'[Len(frames) + 1].kind = kind /\ frames'[Len(frames) + 1].method = m
         /\ callStack' \in Seq(Entries)
         /\ Len(callStack') = Len(callStack) + (IF kind \in Named THEN 1 ELSE 0)
         /\ \A i \in 1..Len(callStack) : callStack'[i].method = callStack[i].method
         /\ \A i \in 1..Len(callStack) - 1 : callStack'[i] = callStack[i]
         /\ kind \in Named => callStack'[Len(callStack) + 1].method = m
<1> DEFINE g == PushedFrames(frames, kind, m)
           b == PushedCalls(callStack, kind, m)
<1>1. frames \in Seq(Frames) /\ callStack \in Seq(Entries) /\ 0 \in Pcs
  BY DEF Consistent, TypeOK, Frames, CallStackAssumption
<1>2. frames' = g /\ callStack' = b
  BY DEF Push, PushedFrames, PushedCalls
<1>3. /\ g \in Seq(Frames) /\ Len(g) = Len(frames) + 1
      /\ \A i \in 1..Len(frames) : g[i] = frames[i]
      /\ g[Len(frames) + 1].kind = kind /\ g[Len(frames) + 1].method = m
  BY <1>1, PushedFramesShape, Zenon
<1>4. /\ b \in Seq(Entries)
      /\ Len(b) = Len(callStack) + (IF kind \in Named THEN 1 ELSE 0)
      /\ \A i \in 1..Len(callStack) : b[i].method = callStack[i].method
      /\ \A i \in 1..Len(callStack) - 1 : b[i] = callStack[i]
      /\ kind \in Named => b[Len(callStack) + 1].method = m
  BY <1>1, PushedCallsShape, Zenon
<1> QED
  BY <1>2, <1>3, <1>4

\* A push keeps the stacks in agreement, the depth counting the activation if its kind is counted.
LEMMA PushConsistent ==
  ASSUME CallStackAssumption, Consistent, NEW kind \in Kinds, NEW m \in Methods,
         Push(kind, m), depth' = (IF kind \in Counted THEN depth + 1 ELSE depth),
         kind \in Counted => depth < StackLimit
  PROVE  Consistent'
<1>1. /\ frames \in Seq(Frames) /\ callStack \in Seq(Entries) /\ depth \in Nat
      /\ Agree(frames, callStack, depth)
  BY DEF Consistent, TypeOK, StacksAgree, Agree, Frames, CallStackAssumption
<1>2. /\ frames' \in Seq(Frames) /\ Len(frames') = Len(frames) + 1
      /\ \A i \in 1..Len(frames) : frames'[i] = frames[i]
      /\ frames'[Len(frames) + 1].kind = kind /\ frames'[Len(frames) + 1].method = m
  BY Pushed
<1>3. /\ callStack' \in Seq(Entries)
      /\ Len(callStack') = Len(callStack) + (IF kind \in Named THEN 1 ELSE 0)
      /\ \A i \in 1..Len(callStack) : callStack'[i].method = callStack[i].method
      /\ kind \in Named => callStack'[Len(callStack) + 1].method = m
  BY Pushed
<1>4. Agree(frames', callStack', depth')
  BY <1>1, <1>2, <1>3, AgreePush
<1>5. depth' \in 0..StackLimit
  BY DEF Consistent, TypeOK, CallStackAssumption
<1>6. /\ signal' \in Exceptions \cup {Quiet, Fault}
      /\ held' \in [by : 1..Len(frames'), exception : Exceptions] \cup {NothingHeld}
  <2>1. signal' = signal /\ held' = held
    BY DEF Push
  <2>2. 1..Len(frames) \subseteq 1..Len(frames')
    BY <1>1, <1>2
  <2> QED
    BY <2>1, <2>2 DEF Consistent, TypeOK
<1> QED
  BY <1>2, <1>3, <1>4, <1>5, <1>6 DEF Consistent, TypeOK, StacksAgree, Agree, Frames

\* The pc of the topmost activation moves.
MovedTo(p) ==
  /\ frames' = [frames EXCEPT ![Len(frames)].pc = p]
  /\ callStack' = SetTopFramePc(callStack, p)

\* The topmost pc moves, and methods and kinds stay.
LEMMA Moved ==
  ASSUME Consistent, frames # <<>>, NEW p \in Pcs, MovedTo(p)
  PROVE  /\ frames' \in Seq(Frames) /\ Len(frames') = Len(frames)
         /\ \A i \in 1..Len(frames) : /\ frames'[i].kind = frames[i].kind
                                      /\ frames'[i].method = frames[i].method
         /\ callStack' \in Seq(Entries) /\ Len(callStack') = Len(callStack)
         /\ \A i \in 1..Len(callStack) : callStack'[i].method = callStack[i].method
         /\ \A i \in 1..Len(callStack) - 1 : callStack'[i] = callStack[i]
<1>1. frames \in Seq(Frames) /\ callStack \in Seq(Entries)
  BY DEF Consistent, TypeOK, Frames
<1>2. frames' = FramesAt(frames, p) /\ callStack' = SetTopFramePc(callStack, p)
  BY DEF MovedTo, FramesAt
<1>3. /\ frames' \in Seq(Frames) /\ Len(frames') = Len(frames)
      /\ \A i \in 1..Len(frames) : /\ frames'[i].kind = frames[i].kind
                                   /\ frames'[i].method = frames[i].method
  BY <1>1, <1>2, FramePcSet
<1>4. /\ callStack' \in Seq(Entries) /\ Len(callStack') = Len(callStack)
      /\ \A i \in 1..Len(callStack) : callStack'[i].method = callStack[i].method
      /\ \A i \in 1..Len(callStack) - 1 : callStack'[i] = callStack[i]
  BY <1>1, <1>2, EntryPcSet
<1> QED
  BY <1>3, <1>4

\* A step within the topmost activation keeps the stacks in agreement.
LEMMA MoveConsistent ==
  ASSUME CallStackAssumption, Consistent, frames # <<>>, NEW p \in Pcs,
         MovedTo(p), depth' = depth,
         signal' \in Exceptions \cup {Quiet, Fault},
         held' \in [by : 1..Len(frames), exception : Exceptions] \cup {NothingHeld}
  PROVE  Consistent'
<1>1. frames \in Seq(Frames) /\ callStack \in Seq(Entries) /\ Agree(frames, callStack, depth)
  BY DEF Consistent, TypeOK, StacksAgree, Agree, Frames
<1>2. /\ frames' \in Seq(Frames) /\ Len(frames') = Len(frames)
      /\ \A i \in 1..Len(frames) : /\ frames'[i].kind = frames[i].kind
                                   /\ frames'[i].method = frames[i].method
  BY Moved
<1>3. /\ callStack' \in Seq(Entries) /\ Len(callStack') = Len(callStack)
      /\ \A i \in 1..Len(callStack) : callStack'[i].method = callStack[i].method
  BY Moved
<1>4. Agree(frames', callStack', depth')
  BY <1>1, <1>2, <1>3, AgreeSame
<1> QED
  BY <1>2, <1>3, <1>4 DEF Consistent, TypeOK, StacksAgree, Agree, Frames

\* The topmost activation ends.
LEMMA Ended ==
  ASSUME CallStackAssumption, Consistent, End
  PROVE  /\ frames' \in Seq(Frames) /\ Len(frames') = Len(frames) - 1
         /\ \A i \in 1..Len(frames) - 1 : frames'[i] = frames[i]
         /\ callStack' \in Seq(Entries) /\ Len(callStack') <= Len(callStack)
         /\ \A i \in 1..Len(callStack') : callStack'[i] = callStack[i]
         /\ depth' \in Nat /\ depth' <= depth
         /\ Agree(frames', callStack', depth')
<1>1. /\ frames \in Seq(Frames) /\ frames # <<>> /\ callStack \in Seq(Entries)
      /\ Agree(frames, callStack, depth)
  BY DEF Consistent, TypeOK, StacksAgree, Agree, Frames, End
<1>2. /\ frames' = Front(frames)
      /\ callStack' = IF frames[Len(frames)].kind \in Named THEN Front(callStack) ELSE callStack
      /\ depth' = IF frames[Len(frames)].kind \in Counted THEN depth - 1 ELSE depth
  BY DEF End, Popped, DepthAfter, Top, Last
<1>3. /\ frames' \in Seq(Frames) /\ callStack' \in Seq(Entries)
      /\ Len(callStack') <= Len(callStack)
      /\ \A i \in 1..Len(callStack') : callStack'[i] = callStack[i]
      /\ depth' \in Nat /\ depth' <= depth
      /\ Agree(frames', callStack', depth')
  BY <1>1, <1>2, AgreePop
<1>4. Len(frames') = Len(frames) - 1 /\ \A i \in 1..Len(frames) - 1 : frames'[i] = frames[i]
  BY <1>1, <1>2, FrontElements
<1> QED
  BY <1>3, <1>4

\* An exception that leaves goes on, or gives way to a new one.
LEMMA PassedOn ==
  ASSUME End
  PROVE  signal' \in {signal, Thrown("InvocationTargetException", callStack'),
                              Thrown("ExceptionInInitializerError", callStack')}
BY DEF End, Passed, WrapInInvocationTarget, WrapInInitializerError

\* So does the end of an activation, by return, exception or fault.
LEMMA EndConsistent ==
  ASSUME CallStackAssumption, Consistent, End
  PROVE  Consistent'
<1>1. frames \in Seq(Frames) /\ frames # <<>>
  BY DEF Consistent, TypeOK, Frames, End
<1>3. /\ frames' \in Seq(Frames) /\ Len(frames') = Len(frames) - 1
      /\ callStack' \in Seq(Entries)
      /\ depth' \in Nat /\ depth' <= depth
      /\ Agree(frames', callStack', depth')
  BY Ended
<1>4. depth' \in 0..StackLimit
  BY <1>3 DEF Consistent, TypeOK, CallStackAssumption
<1>5. signal' \in Exceptions \cup {Quiet, Fault}
  <2>1. \A c \in Classes : Thrown(c, callStack') \in Exceptions
    BY <1>3 DEF Thrown, Exceptions
  <2>2. "InvocationTargetException" \in Classes /\ "ExceptionInInitializerError" \in Classes
    BY DEF Classes
  <2> QED
    BY <2>1, <2>2, PassedOn DEF Consistent, TypeOK
<1>6. held' \in [by : 1..Len(frames'), exception : Exceptions] \cup {NothingHeld}
  <2>1. Len(frames') = Len(frames) - 1 /\ Len(frames) \in Nat
    BY <1>1, <1>3
  <2>2. CASE held.by = Len(frames) \/ held = NothingHeld
    BY <2>2 DEF End
  <2>3. CASE held.by # Len(frames) /\ held # NothingHeld
    <3>1. held' = held /\ held \in [by : 1..Len(frames), exception : Exceptions]
      BY <2>3 DEF End, Consistent, TypeOK
    <3>2. held.by \in 1..Len(frames')
      BY <2>1, <2>3, <3>1
    <3> QED
      BY <3>1, <3>2
  <2> QED
    BY <2>2, <2>3
<1> QED
  BY <1>3, <1>4, <1>5, <1>6 DEF Consistent, TypeOK, StacksAgree, Agree, Frames

\* The others leave the activations, the call stack and the depth alone.
LEMMA SignalConsistent ==
  ASSUME Consistent, UNCHANGED <<frames, callStack, depth, held>>,
         signal' \in Exceptions \cup {Quiet, Fault}
  PROVE  Consistent'
BY DEF Consistent, TypeOK, StacksAgree

\* A handler is an instruction.
LEMMA HandlerInMethod ==
  ASSUME CallStackAssumption, Consistent, frames # <<>>, NEW i \in Matching
  PROVE  Table[Top.method][i].handler \in Pcs
<1>1. frames \in Seq(Frames) /\ Len(frames) \in 1..Len(frames)
  BY EmptySeq DEF Consistent, TypeOK, Frames
<1>2. Top \in Frames
  BY <1>1 DEF Top, Last
<1>3. Table[Top.method] \in Seq(Handlers)
  BY <1>2 DEF Frames, CallStackAssumption
<1>4. i \in 1..Len(Table[Top.method])
  BY DEF Matching
<1>5. Table[Top.method][i] \in Handlers
  BY <1>3, <1>4
<1> QED
  BY <1>5 DEF Handlers

\* Every step keeps Consistent: one push, one move or one end.
LEMMA NextConsistent ==
  ASSUME CallStackAssumption, Consistent, [Next]_vars
  PROVE  Consistent'
<1>1. \A c \in Classes : Thrown(c, callStack) \in Exceptions
  BY DEF Thrown, Exceptions, Consistent, TypeOK
<1>2. ASSUME NEW m \in Methods, Enter(m) PROVE Consistent'
  <2>1. "entry" \in Kinds /\ "entry" \notin Counted /\ Push("entry", m) /\ depth' = depth
    BY <1>2 DEF Enter, Kinds, Counted
  <2> QED
    BY <2>1, PushConsistent
<1>3. ASSUME NEW m \in Methods, Invoke(m) PROVE Consistent'
  <2>1. /\ "method" \in Kinds /\ "method" \in Counted /\ Push("method", m)
        /\ depth' = depth + 1 /\ depth < StackLimit
    BY <1>3 DEF Invoke, Kinds, Counted
  <2> QED
    BY <2>1, PushConsistent
<1>4. ASSUME NEW m \in Methods, InvokeNative(m) PROVE Consistent'
  <2>1. "native" \in Kinds /\ "native" \notin Counted /\ Push("native", m) /\ depth' = depth
    BY <1>4 DEF InvokeNative, Kinds, Counted
  <2> QED
    BY <2>1, PushConsistent
<1>5. ASSUME NEW m \in Methods, InvokeReflected(m) PROVE Consistent'
  <2>1. /\ "reflected" \in Kinds /\ "reflected" \notin Counted
        /\ Push("reflected", m) /\ depth' = depth
    BY <1>5 DEF InvokeReflected, Kinds, Counted
  <2> QED
    BY <2>1, PushConsistent
<1>6. ASSUME NEW m \in Methods, InvokeHandle(m) PROVE Consistent'
  <2>1. "handle" \in Kinds /\ "handle" \notin Counted /\ Push("handle", m) /\ depth' = depth
    BY <1>6 DEF InvokeHandle, Kinds, Counted
  <2> QED
    BY <2>1, PushConsistent
<1>7. ASSUME NEW m \in Methods, RunClinit(m) PROVE Consistent'
  <2>1. /\ "clinit" \in Kinds /\ "clinit" \in Counted /\ Push("clinit", m)
        /\ depth' = depth + 1 /\ depth < StackLimit
    BY <1>7 DEF RunClinit, Kinds, Counted
  <2> QED
    BY <2>1, PushConsistent
<1>8. ASSUME NEW p \in Pcs, Execute(p) PROVE Consistent'
  <2>1. frames # <<>> /\ MovedTo(p) /\ UNCHANGED <<depth, signal, held>>
    BY <1>8 DEF Execute, Interpreting, MovedTo
  <2>2. /\ signal' \in Exceptions \cup {Quiet, Fault}
        /\ held' \in [by : 1..Len(frames), exception : Exceptions] \cup {NothingHeld}
    BY <2>1 DEF Consistent, TypeOK
  <2> QED
    BY <2>1, <2>2, MoveConsistent
<1>9. ASSUME NEW c \in {"Exception", "NoClassDefFoundError"}, Throw(c) PROVE Consistent'
  <2>1. signal' \in Exceptions /\ UNCHANGED <<frames, callStack, depth, held>>
    BY <1>1, <1>9 DEF Throw, Classes
  <2> QED
    BY <2>1, SignalConsistent
<1>10. ASSUME OverflowInvoke \/ OverflowClinit PROVE Consistent'
  <2>1. signal' \in Exceptions /\ UNCHANGED <<frames, callStack, depth, held>>
    BY <1>1, <1>10 DEF OverflowInvoke, OverflowClinit, Classes
  <2> QED
    BY <2>1, SignalConsistent
<1>11. ASSUME Rethrow PROVE Consistent'
  <2>1. UNCHANGED <<frames, callStack, depth, held>> /\ held.by = Len(frames) /\ frames # <<>>
    BY <1>11 DEF Rethrow, Interpreting
  <2>2. Len(frames) # 0
    BY <2>1, EmptySeq DEF Consistent, TypeOK
  <2>3. held.exception \in Exceptions
    BY <2>1, <2>2 DEF Consistent, TypeOK, NothingHeld
  <2> QED
    BY <1>11, <2>1, <2>3, SignalConsistent DEF Rethrow
<1>12. ASSUME Fail \/ Report PROVE Consistent'
  <2>1. signal' \in {Quiet, Fault} /\ UNCHANGED <<frames, callStack, depth, held>>
    BY <1>12 DEF Fail, Report
  <2> QED
    BY <2>1, SignalConsistent
<1>13. ASSUME Catch PROVE Consistent'
  <2>1. PICK i \in Matching : MovedTo(Table[Top.method][i].handler)
    BY <1>13 DEF Catch, MovedTo
  <2>2. Table[Top.method][i].handler \in Pcs
    BY <1>13, HandlerInMethod DEF Catch
  <2>3. /\ frames # <<>> /\ signal' = Quiet /\ depth' = depth
        /\ held' = [by |-> Len(frames), exception |-> signal] /\ signal \in Exceptions
    BY <1>13 DEF Catch
  <2>4. Len(frames) \in 1..Len(frames)
    BY <2>3, EmptySeq DEF Consistent, TypeOK
  <2>5. /\ signal' \in Exceptions \cup {Quiet, Fault}
        /\ held' \in [by : 1..Len(frames), exception : Exceptions] \cup {NothingHeld}
    BY <2>3, <2>4
  <2> QED
    BY <2>1, <2>2, <2>3, <2>5, MoveConsistent
<1>14. ASSUME UNCHANGED vars PROVE Consistent'
  BY <1>14 DEF vars, Consistent, TypeOK, StacksAgree
<1> QED
  BY <1>2, <1>3, <1>4, <1>5, <1>6, <1>7, <1>8, <1>9, <1>10, <1>11, <1>12, <1>13, <1>14,
     EndConsistent DEF Next

-----------------------------------------------------------------------------
\* The stacks agree and have their types in every reachable state.
LEMMA AlwaysConsistent == Spec => []Consistent
<1>1. Init => Consistent
  BY InitConsistent, CallStackAssumption
<1>2. Consistent /\ [Next]_vars => Consistent'
  BY NextConsistent, CallStackAssumption
<1> QED
  BY <1>1, <1>2, PTL DEF Spec

\* Whatever is called, thrown and caught, the variables keep their types; the
\* depth, which stands for the native stack, stays between 0 and its limit.
THEOREM TypeCorrect == Spec => []TypeOK
<1>1. Consistent => TypeOK
  BY DEF Consistent
<1> QED
  BY <1>1, AlwaysConsistent, PTL

\* The call stack lists the activations with a name, in order, and the depth
\* counts those let in by run_with_depth, for any exception tables and any nesting.
THEOREM StacksAlwaysAgree == Spec => []StacksAgree
<1>1. Consistent => StacksAgree
  BY DEF Consistent
<1> QED
  BY <1>1, AlwaysConsistent, PTL

-----------------------------------------------------------------------------
(* Traces.                                                                   *)

\* The trace tr names the first n entries of c, and where they are but for the
\* last of them.
Carries(tr, c, n) ==
  /\ n <= Len(tr)
  /\ \A i \in 1..n : tr[i].method = c[i].method
  /\ \A i \in 1..n - 1 : tr[i] = c[i]

\* TraceHasTheCallers speaks of the exception on its way out.  A handler may
\* throw the one it caught again, much later: it still has the callers of the
\* activation that holds it.
TracesKept ==
  /\ signal \in Exceptions => Carries(signal.trace, callStack, Len(callStack))
  /\ held # NothingHeld =>
       Carries(held.exception.trace, callStack, CountTo(frames, held.by, Named))

\* A trace carries fewer entries, of a call stack that has those.
LEMMA CarriesFewer ==
  ASSUME NEW tr \in Seq(Entries), NEW c \in Seq(Entries), NEW n \in 0..Len(c), Carries(tr, c, n),
         NEW b \in Seq(Entries), NEW k \in 0..n,
         \A i \in 1..k : b[i].method = c[i].method, \A i \in 1..k - 1 : b[i] = c[i]
  PROVE  Carries(tr, b, k)
BY DEF Carries

\* The number of what is held is that of an entry.
LEMMA HeldCount ==
  ASSUME Consistent, held # NothingHeld
  PROVE  /\ held.by \in 1..Len(frames)
         /\ held.exception.trace \in Seq(Entries)
         /\ CountTo(frames, held.by, Named) \in 0..Len(callStack)
<1>1. held.by \in 1..Len(frames) /\ held.exception \in Exceptions
  BY DEF Consistent, TypeOK
<1>2. frames \in Seq(Frames) /\ Len(callStack) = CountTo(frames, Len(frames), Named)
  BY DEF Consistent, TypeOK, StacksAgree, Frames
<1>3. held.by \in Nat /\ Len(frames) \in Nat /\ held.by <= Len(frames)
  BY <1>1, <1>2
<1>4. /\ CountTo(frames, held.by, Named) \in Nat
      /\ CountTo(frames, held.by, Named) <= Len(callStack)
  BY <1>2, <1>3, CountType, CountMonotone
<1> QED
  BY <1>1, <1>2, <1>3, <1>4, CountType DEF Exceptions

\* A step that leaves the kinds of the activations alone, and of the entries
\* changes none but the topmost, and in that the pc.
LEMMA CarriesOn ==
  ASSUME NEW f \in Seq(Frames), NEW g \in Seq(Frames),
         \A i \in 1..Len(f) : g[i].kind = f[i].kind,
         NEW c \in Seq(Entries), NEW b \in Seq(Entries),
         \A i \in 1..Len(c) : b[i].method = c[i].method,
         \A i \in 1..Len(c) - 1 : b[i] = c[i],
         NEW by \in 1..Len(f), NEW tr \in Seq(Entries),
         CountTo(f, by, Named) \in 0..Len(c),
         Carries(tr, c, CountTo(f, by, Named))
  PROVE  Carries(tr, b, CountTo(g, by, Named))
<1>1. by \in Nat /\ \A j \in 1..by : g[j].kind = f[j].kind
  OBVIOUS
<1>2. CountTo(g, by, Named) = CountTo(f, by, Named)
  BY <1>1, CountSame
<1> DEFINE n == CountTo(f, by, Named)
<1>3. n \in 0..Len(c) /\ Carries(tr, c, n)
  OBVIOUS
<1> HIDE DEF n
<1>4. /\ n \in 0..n
      /\ \A i \in 1..n : b[i].method = c[i].method
      /\ \A i \in 1..n - 1 : b[i] = c[i]
  BY <1>3
<1>5. Carries(tr, b, n)
  BY <1>3, <1>4, CarriesFewer
<1> QED
  BY <1>2, <1>5 DEF n

\* Such a step keeps what is held ...
LEMMA HeldCarriesOn ==
  ASSUME Consistent, TracesKept, held # NothingHeld,
         frames' \in Seq(Frames), \A i \in 1..Len(frames) : frames'[i].kind = frames[i].kind,
         callStack' \in Seq(Entries),
         \A i \in 1..Len(callStack) : callStack'[i].method = callStack[i].method,
         \A i \in 1..Len(callStack) - 1 : callStack'[i] = callStack[i]
  PROVE  Carries(held.exception.trace, callStack', CountTo(frames', held.by, Named))
<1>1. frames \in Seq(Frames) /\ callStack \in Seq(Entries)
  BY DEF Consistent, TypeOK, Frames
<1>2. /\ held.by \in 1..Len(frames) /\ held.exception.trace \in Seq(Entries)
      /\ CountTo(frames, held.by, Named) \in 0..Len(callStack)
  BY HeldCount
<1>3. Carries(held.exception.trace, callStack, CountTo(frames, held.by, Named))
  BY DEF TracesKept
<1> QED
  BY <1>1, <1>2, <1>3, CarriesOn

\* ... and what is caught.
LEMMA CaughtCarriesOn ==
  ASSUME Consistent, TracesKept, signal \in Exceptions, frames # <<>>,
         frames' \in Seq(Frames), \A i \in 1..Len(frames) : frames'[i].kind = frames[i].kind,
         callStack' \in Seq(Entries),
         \A i \in 1..Len(callStack) : callStack'[i].method = callStack[i].method,
         \A i \in 1..Len(callStack) - 1 : callStack'[i] = callStack[i]
  PROVE  Carries(signal.trace, callStack', CountTo(frames', Len(frames), Named))
<1>1. /\ frames \in Seq(Frames) /\ callStack \in Seq(Entries)
      /\ Len(callStack) = CountTo(frames, Len(frames), Named)
  BY DEF Consistent, TypeOK, StacksAgree, Frames
<1>2. /\ Len(frames) \in 1..Len(frames) /\ signal.trace \in Seq(Entries)
      /\ CountTo(frames, Len(frames), Named) \in 0..Len(callStack)
  BY <1>1, EmptySeq DEF Exceptions
<1>3. Carries(signal.trace, callStack, CountTo(frames, Len(frames), Named))
  BY <1>1 DEF TracesKept
<1> QED
  BY <1>1, <1>2, <1>3, CarriesOn

\* A call leaves the held exception with the callers of its holder.
LEMMA PushKeepsTraces ==
  ASSUME CallStackAssumption, Consistent, TracesKept, NEW kind \in Kinds, NEW m \in Methods,
         Push(kind, m), signal = Quiet
  PROVE  TracesKept'
<1>1. /\ frames' \in Seq(Frames) /\ \A i \in 1..Len(frames) : frames'[i] = frames[i]
      /\ callStack' \in Seq(Entries)
      /\ \A i \in 1..Len(callStack) : callStack'[i].method = callStack[i].method
      /\ \A i \in 1..Len(callStack) - 1 : callStack'[i] = callStack[i]
  BY Pushed
<1>2. signal' = Quiet /\ held' = held
  BY DEF Push
<1>3. Quiet \notin Exceptions
  BY DEF Quiet, Exceptions, Classes
<1>4. held # NothingHeld =>
        Carries(held.exception.trace, callStack', CountTo(frames', held.by, Named))
  BY <1>1, HeldCarriesOn
<1> QED
  BY <1>2, <1>3, <1>4 DEF TracesKept

\* The topmost activation goes on, or catches what came out of it.
LEMMA MoveKeepsTraces ==
  ASSUME Consistent, TracesKept, frames # <<>>, NEW p \in Pcs, MovedTo(p), signal' = Quiet,
         \/ held' = held
         \/ signal \in Exceptions /\ held' = [by |-> Len(frames), exception |-> signal]
  PROVE  TracesKept'
<1>1. /\ frames' \in Seq(Frames) /\ \A i \in 1..Len(frames) : frames'[i].kind = frames[i].kind
      /\ callStack' \in Seq(Entries)
      /\ \A i \in 1..Len(callStack) : callStack'[i].method = callStack[i].method
      /\ \A i \in 1..Len(callStack) - 1 : callStack'[i] = callStack[i]
  BY Moved
<1>2. Quiet \notin Exceptions
  BY DEF Quiet, Exceptions, Classes
<1>3. CASE held' = held
  <2>1. held # NothingHeld =>
          Carries(held.exception.trace, callStack', CountTo(frames', held.by, Named))
    BY <1>1, HeldCarriesOn
  <2> QED
    BY <1>2, <1>3, <2>1 DEF TracesKept
<1>4. CASE signal \in Exceptions /\ held' = [by |-> Len(frames), exception |-> signal]
  <2>1. Carries(signal.trace, callStack', CountTo(frames', Len(frames), Named))
    BY <1>1, <1>4, CaughtCarriesOn
  <2>2. held'.by = Len(frames) /\ held'.exception = signal
    BY <1>4
  <2> QED
    BY <1>2, <2>1, <2>2 DEF TracesKept
<1> QED
  BY <1>3, <1>4

\* A new trace carries everything there is.
LEMMA NewTrace ==
  ASSUME NEW c \in Seq(Entries), NEW class
  PROVE  Carries(Thrown(class, c).trace, c, Len(c))
BY DEF Carries, Thrown

\* What an activation holds loses none of its callers while it is there.
LEMMA CarriesPopped ==
  ASSUME NEW f \in Seq(Frames), NEW g \in Seq(Frames),
         \A i \in 1..Len(g) : g[i] = f[i],
         NEW c \in Seq(Entries), NEW b \in Seq(Entries),
         Len(b) = CountTo(g, Len(g), Named),
         \A i \in 1..Len(b) : b[i] = c[i],
         NEW by \in 1..Len(g), NEW tr \in Seq(Entries),
         CountTo(f, by, Named) \in 0..Len(c),
         Carries(tr, c, CountTo(f, by, Named))
  PROVE  Carries(tr, b, CountTo(g, by, Named))
<1>0. by \in Nat /\ by <= Len(g) /\ Len(g) \in Nat
  OBVIOUS
<1>1. \A j \in 1..by : g[j].kind = f[j].kind
  <2>1. \A j \in 1..by : j \in 1..Len(g)
    BY <1>0
  <2> QED
    BY <2>1
<1>2. CountTo(g, by, Named) = CountTo(f, by, Named)
  BY <1>0, <1>1, CountSame
<1>3. CountTo(g, by, Named) <= Len(b)
  BY <1>0, CountMonotone
<1> DEFINE n == CountTo(f, by, Named)
<1>4. n \in 0..Len(c) /\ Carries(tr, c, n) /\ n <= Len(b)
  BY <1>2, <1>3
<1> HIDE DEF n
<1>5. /\ n \in 0..n
      /\ \A i \in 1..n : b[i].method = c[i].method
      /\ \A i \in 1..n - 1 : b[i] = c[i]
  BY <1>4
<1>6. Carries(tr, b, n)
  BY <1>4, <1>5, CarriesFewer
<1> QED
  BY <1>2, <1>6 DEF n

\* What ends is above the holder, or is the holder itself.
LEMMA EndKeepsTraces ==
  ASSUME CallStackAssumption, Consistent, TracesKept, End
  PROVE  TracesKept'
<1>1. frames \in Seq(Frames) /\ callStack \in Seq(Entries)
  BY DEF Consistent, TypeOK, Frames
<1>2. /\ frames' \in Seq(Frames) /\ Len(frames') = Len(frames) - 1
      /\ \A i \in 1..Len(frames) - 1 : frames'[i] = frames[i]
      /\ callStack' \in Seq(Entries) /\ Len(callStack') <= Len(callStack)
      /\ \A i \in 1..Len(callStack') : callStack'[i] = callStack[i]
      /\ Len(callStack') = CountTo(frames', Len(frames'), Named)
  BY Ended DEF Agree
<1> HIDE DEF End
<1>3. ASSUME signal' \in Exceptions
      PROVE  Carries(signal'.trace, callStack', Len(callStack'))
  <2>1. CASE signal' = signal
    <3>1. signal.trace \in Seq(Entries) /\ Carries(signal.trace, callStack, Len(callStack))
      BY <1>3, <2>1 DEF TracesKept, Exceptions
    <3>2. /\ Len(callStack) \in 0..Len(callStack)
          /\ Len(callStack') \in 0..Len(callStack)
          /\ \A i \in 1..Len(callStack') : callStack'[i].method = callStack[i].method
          /\ \A i \in 1..Len(callStack') - 1 : callStack'[i] = callStack[i]
      BY <1>1, <1>2
    <3>3. Carries(signal.trace, callStack', Len(callStack'))
      BY <1>1, <1>2, <3>1, <3>2, CarriesFewer
    <3> QED
      BY <2>1, <3>3
  <2>2. CASE signal' = Thrown("InvocationTargetException", callStack')
    BY <1>2, <2>2, NewTrace
  <2>3. CASE signal' = Thrown("ExceptionInInitializerError", callStack')
    BY <1>2, <2>3, NewTrace
  <2> QED
    BY <2>1, <2>2, <2>3, PassedOn
<1>4. ASSUME held' # NothingHeld
      PROVE  Carries(held'.exception.trace, callStack', CountTo(frames', held'.by, Named))
  <2>1. held' = held /\ held # NothingHeld /\ held.by # Len(frames)
    BY <1>4 DEF End
  <2>2. /\ held.by \in 1..Len(frames) /\ held.exception.trace \in Seq(Entries)
        /\ CountTo(frames, held.by, Named) \in 0..Len(callStack)
    BY <2>1, HeldCount
  <2>3. Carries(held.exception.trace, callStack, CountTo(frames, held.by, Named))
    BY <2>1 DEF TracesKept
  <2>4. held.by \in 1..Len(frames')
    BY <1>1, <1>2, <2>1, <2>2
  <2>5. \A i \in 1..Len(frames') : frames'[i] = frames[i]
    BY <1>2
  <2>6. Carries(held.exception.trace, callStack', CountTo(frames', held.by, Named))
    BY <1>1, <1>2, <2>2, <2>3, <2>4, <2>5, CarriesPopped
  <2> QED
    BY <2>1, <2>6
<1> QED
  BY <1>3, <1>4 DEF TracesKept

\* An exception created here, or none, on its way out.
LEMMA SignalKeepsTraces ==
  ASSUME Consistent, TracesKept, UNCHANGED <<frames, callStack, held>>,
         signal' \in Exceptions => Carries(signal'.trace, callStack, Len(callStack))
  PROVE  TracesKept'
BY DEF TracesKept

\* Every step keeps TracesKept.
LEMMA NextKeepsTraces ==
  ASSUME CallStackAssumption, Consistent, TracesKept, [Next]_vars
  PROVE  TracesKept'
<1>1. callStack \in Seq(Entries)
  BY DEF Consistent, TypeOK
<1>2. Quiet \notin Exceptions /\ Fault \notin Exceptions
  BY DEF Quiet, Fault, Exceptions, Classes
<1>3. ASSUME NEW kind \in Kinds, NEW m \in Methods, Push(kind, m), signal = Quiet
      PROVE  TracesKept'
  BY <1>3, PushKeepsTraces
<1>4. ASSUME NEW m \in Methods,
             \/ Enter(m) \/ Invoke(m) \/ InvokeNative(m)
             \/ InvokeReflected(m) \/ InvokeHandle(m) \/ RunClinit(m)
      PROVE  TracesKept'
  <2>1. /\ signal = Quiet
        /\ \E kind \in Kinds : Push(kind, m)
    BY <1>4 DEF Enter, Invoke, InvokeNative, InvokeReflected, InvokeHandle, RunClinit,
                Interpreting, Kinds
  <2> QED
    BY <1>3, <2>1
<1>5. ASSUME NEW p \in Pcs, Execute(p) PROVE TracesKept'
  <2>1. frames # <<>> /\ MovedTo(p) /\ signal' = Quiet /\ held' = held
    BY <1>5 DEF Execute, Interpreting, MovedTo
  <2> QED
    BY <2>1, MoveKeepsTraces
<1>6. ASSUME NEW class, signal' = Thrown(class, callStack),
             UNCHANGED <<frames, callStack, held>>
      PROVE  TracesKept'
  BY <1>1, <1>6, NewTrace, SignalKeepsTraces
<1>7. ASSUME OverflowInvoke \/ OverflowClinit \/ \E c \in Classes : Throw(c) PROVE TracesKept'
  BY <1>6, <1>7 DEF OverflowInvoke, OverflowClinit, Throw
<1>8. ASSUME Rethrow PROVE TracesKept'
  <2>1. /\ held.by = Len(frames) /\ frames # <<>> /\ signal' = held.exception
        /\ UNCHANGED <<frames, callStack, held>>
    BY <1>8 DEF Rethrow, Interpreting
  <2>2. held # NothingHeld
    BY <2>1, EmptySeq DEF Consistent, TypeOK, NothingHeld
  <2>3. Carries(held.exception.trace, callStack, Len(callStack))
    BY <2>1, <2>2 DEF TracesKept, Consistent, StacksAgree
  <2> QED
    BY <2>1, <2>3, SignalKeepsTraces
<1>9. ASSUME Fail \/ Report PROVE TracesKept'
  BY <1>2, <1>9, SignalKeepsTraces DEF Fail, Report
<1>10. ASSUME Catch PROVE TracesKept'
  <2>1. PICK i \in Matching : MovedTo(Table[Top.method][i].handler)
    BY <1>10 DEF Catch, MovedTo
  <2>2. /\ frames # <<>> /\ signal' = Quiet /\ signal \in Exceptions
        /\ held' = [by |-> Len(frames), exception |-> signal]
    BY <1>10 DEF Catch
  <2>3. Table[Top.method][i].handler \in Pcs
    BY <1>10, <2>1, HandlerInMethod DEF Catch
  <2> QED
    BY <2>1, <2>2, <2>3, MoveKeepsTraces
<1>11. ASSUME UNCHANGED vars PROVE TracesKept'
  BY <1>11 DEF vars, TracesKept
<1> QED
  BY <1>4, <1>5, <1>7, <1>8, <1>9, <1>10, <1>11, EndKeepsTraces DEF Next, Classes

-----------------------------------------------------------------------------
\* However many handlers caught it and threw it again, an exception that leaves
\* an activation has the callers of that activation in its trace, where they are.
THEOREM TracesAlwaysHaveTheCallers == Spec => []TraceHasTheCallers
<1>1. Init => TracesKept
  BY DEF Init, TracesKept, Quiet, Exceptions, Classes
<1>2. Consistent /\ TracesKept /\ [Next]_vars => TracesKept'
  BY NextKeepsTraces, CallStackAssumption
<1>3. TracesKept => TraceHasTheCallers
  BY DEF TracesKept, Carries, TraceHasTheCallers
<1> QED
  BY <1>1, <1>2, <1>3, AlwaysConsistent, PTL DEF Spec
-----------------------------------------------------------------------------
(* Where an exception lands. *)

\* The class an activation of this kind passes on.
PassedClass(kind, c) ==
  IF kind = "reflected" THEN "InvocationTargetException"
  ELSE IF kind = "clinit" /\ ~IsInitFailure(c) THEN "ExceptionInInitializerError"
  ELSE c

Least(B) == CHOOSE i \in B : \A j \in B : i <= j

\* Every nonempty set of naturals has a least member.
LEMMA LeastIs ==
  ASSUME NEW B, B \subseteq Nat, B # {}
  PROVE  Least(B) \in B /\ \A j \in B : Least(B) <= j
<1>1. \E i \in B : \A j \in B : i <= j
  <2>1. PICK i \in B : \A j \in B : ~(<<j, i>> \in OpToRel(<, Nat))
    BY NatLessThanWellFounded, WFMin
  <2>2. ASSUME NEW j \in B PROVE i <= j
    <3>1. ~(j < i) /\ i \in Nat /\ j \in Nat
      BY <2>1 DEF OpToRel
    <3> QED
      BY <3>1
  <2> QED
    BY <2>2
<1> QED
  BY <1>1 DEF Least

\* A later element does not matter to it.
LEMMA LeastOfMore ==
  ASSUME NEW B, NEW n \in Nat, B \subseteq 0..n - 1
  PROVE  Least(B \cup {n}) = IF B = {} THEN n ELSE Least(B)
<1> DEFINE A == B \cup {n}
<1>1. A \subseteq Nat /\ A # {} /\ B \subseteq Nat
  OBVIOUS
<1>2. Least(A) \in A /\ \A j \in A : Least(A) <= j
  BY <1>1, LeastIs
<1>3. CASE B = {}
  BY <1>2, <1>3
<1>4. CASE B # {}
  <2>1. Least(B) \in B /\ \A j \in B : Least(B) <= j
    BY <1>1, <1>4, LeastIs
  <2>2. Least(A) <= Least(B) /\ Least(B) \in 0..n - 1
    BY <1>2, <2>1
  <2>3. Least(A) \in B
    BY <1>2, <2>2
  <2>4. Least(B) <= Least(A) /\ Least(A) \in Nat /\ Least(B) \in Nat
    BY <1>1, <2>1, <2>3
  <2> HIDE DEF A
  <2>5. Least(A) = Least(B)
    BY <2>2, <2>4
  <2> QED
    BY <1>4, <2>5 DEF A
<1> QED
  BY <1>3, <1>4

\* The boundaries below the topmost activation are those it leaves behind.
LEMMA BoundariesOfFront ==
  ASSUME NEW s \in Seq(Frames), s # <<>>, NEW k \in 1..Len(s) - 1
  PROVE  /\ Java!Boundaries(Front(s), k) \subseteq 0..Len(s) - 1
         /\ \A i \in Java!Boundaries(Front(s), k) : Front(s)[i] = s[i]
         /\ Java!Boundaries(s, k) =
              IF s[Len(s)].kind \in {"clinit", "reflected"}
              THEN Java!Boundaries(Front(s), k) \cup {Len(s)}
              ELSE Java!Boundaries(Front(s), k)
<1>1. /\ Len(s) \in Nat /\ Len(Front(s)) = Len(s) - 1
      /\ \A i \in 1..Len(s) - 1 : Front(s)[i] = s[i]
  BY FrontElements
<1>2. k + 1..Len(s) = (k + 1..Len(s) - 1) \cup {Len(s)}
  BY <1>1
<1>3. Java!Boundaries(Front(s), k) = {i \in k + 1..Len(s) - 1 : s[i].kind \in {"clinit", "reflected"}}
  BY <1>1 DEF Java!Boundaries
<1>4. Java!Boundaries(s, k) = {i \in (k + 1..Len(s) - 1) \cup {Len(s)} : s[i].kind \in {"clinit", "reflected"}}
  BY <1>2 DEF Java!Boundaries
<1>5. Java!Boundaries(Front(s), k) \subseteq 0..Len(s) - 1
  BY <1>1, <1>3
<1>6. \A i \in Java!Boundaries(Front(s), k) : Front(s)[i] = s[i]
  BY <1>1, <1>3
<1> QED
  BY <1>3, <1>4, <1>5, <1>6

\* An exception arrives below the topmost activation as the one that passes on.
LEMMA ArrivingFromFront ==
  ASSUME NEW s \in Seq(Frames), s # <<>>, NEW k \in 1..Len(s) - 1, NEW c \in Classes
  PROVE  Java!Arriving(s, k, c) =
           Java!Arriving(Front(s), k, PassedClass(s[Len(s)].kind, c))
<1> DEFINE n == Len(s)
           f == Front(s)
           kind == s[n].kind
           d == PassedClass(kind, c)
           A == Java!Boundaries(s, k)
           B == Java!Boundaries(f, k)
<1>1. /\ n \in Nat /\ B \subseteq 0..n - 1 /\ \A i \in B : f[i] = s[i]
      /\ A = IF kind \in {"clinit", "reflected"} THEN B \cup {n} ELSE B
  BY BoundariesOfFront
<1>2. Java!Arriving(s, k, c) =
        IF A = {} THEN c
        ELSE IF s[Least(A)].kind = "reflected" THEN "InvocationTargetException"
        ELSE IF c = "NoClassDefFoundError" /\ \A i \in A : s[i].kind = "clinit" THEN c
        ELSE "ExceptionInInitializerError"
  BY DEF Java!Arriving, Least
<1>3. Java!Arriving(f, k, d) =
        IF B = {} THEN d
        ELSE IF f[Least(B)].kind = "reflected" THEN "InvocationTargetException"
        ELSE IF d = "NoClassDefFoundError" /\ \A i \in B : f[i].kind = "clinit" THEN d
        ELSE "ExceptionInInitializerError"
  BY DEF Java!Arriving, Least
<1>4. B # {} => f[Least(B)] = s[Least(B)]
  <2>1. B # {} => Least(B) \in B
    BY <1>1, LeastIs
  <2> QED
    BY <1>1, <2>1
<1>5. \A i \in B : s[i].kind \in {"clinit", "reflected"}
  BY <1>1 DEF Java!Boundaries
<1> HIDE DEF n, f, kind, d, A, B
<1>6. Least(B \cup {n}) = IF B = {} THEN n ELSE Least(B)
  BY <1>1, LeastOfMore
<1> SUFFICES Java!Arriving(s, k, c) = Java!Arriving(f, k, d)
  BY DEF n, f, kind, d
<1>7. CASE kind \notin {"clinit", "reflected"}
  <2>1. A = B /\ d = c
    BY <1>1, <1>7 DEF d, PassedClass
  <2> QED
    BY <1>1, <1>2, <1>3, <1>4, <2>1
<1>8. CASE kind = "reflected"
  <2>1. A = B \cup {n} /\ d = "InvocationTargetException" /\ s[n].kind = "reflected"
    BY <1>1, <1>8 DEF d, kind, PassedClass
  <2>2. CASE B = {}
    BY <1>2, <1>3, <1>6, <2>1, <2>2
  <2>3. CASE B # {}
    <3>1. Least(A) = Least(B) /\ n \in A /\ f[Least(B)] = s[Least(B)]
      BY <1>4, <1>6, <2>1, <2>3
    <3>2. ~(\A i \in A : s[i].kind = "clinit")
      BY <2>1, <3>1
    <3> QED
      BY <1>2, <1>3, <2>1, <2>3, <3>1, <3>2
  <2> QED
    BY <2>2, <2>3
<1>9. CASE kind = "clinit"
  <2>1. /\ A = B \cup {n}
        /\ d = IF IsInitFailure(c) THEN c ELSE "ExceptionInInitializerError"
    BY <1>1, <1>9 DEF d, PassedClass
  <2>2. CASE B = {}
    <3>1. A = {n} /\ Least(A) = n /\ s[n].kind = "clinit"
      BY <1>6, <1>9, <2>1, <2>2 DEF kind
    <3> QED
      BY <1>2, <1>3, <2>1, <2>2, <3>1 DEF IsInitFailure
  <2>3. CASE B # {}
    <3>1. Least(A) = Least(B) /\ A # {} /\ f[Least(B)] = s[Least(B)]
      BY <1>4, <1>6, <2>1, <2>3
    <3>2. (\A i \in A : s[i].kind = "clinit") <=> (\A i \in B : f[i].kind = "clinit")
      <4>1. s[n].kind = "clinit"
        BY <1>9 DEF kind
      <4> QED
        BY <1>1, <2>1, <4>1
    <3> QED
      BY <1>2, <1>3, <2>1, <2>3, <3>1, <3>2 DEF IsInitFailure
  <2> QED
    BY <2>2, <2>3
<1> QED
  BY <1>7, <1>8, <1>9

\* s as a handler of its k-th activation finds it.
CaughtAt(s, k, c) ==
  [SubSeq(s, 1, k) EXCEPT
     ![k].pc = Java!HandlerOf(s[k].method, s[k].pc, Java!Arriving(s, k, c))]

\* Landed, with the handler's activation named.
LEMMA LandedIs ==
  ASSUME NEW s, NEW c
  PROVE  Java!Landed(s, c) =
           LET C == Java!Catchers(s, c) IN
           IF C = {} THEN <<>> ELSE [k \in C |-> CaughtAt(s, k, c)][Java!Max(C)]
BY DEF Java!Landed, CaughtAt

\* An exception arrives where it is thrown as it was thrown.
LEMMA ArrivingOnTop ==
  ASSUME NEW s \in Seq(Frames), NEW c
  PROVE  Java!Arriving(s, Len(s), c) = c
<1>1. Java!Boundaries(s, Len(s)) = {}
  <2>1. Len(s) + 1..Len(s) = {}
    OBVIOUS
  <2> QED
    BY <2>1 DEF Java!Boundaries
<1> QED
  BY <1>1 DEF Java!Arriving

\* The topmost activation catches nothing: the exception it passes on lands
\* where the one thrown in it does.
LEMMA LandedPassed ==
  ASSUME NEW s \in Seq(Frames), s # <<>>, NEW c \in Classes,
         s[Len(s)].kind # "native" => Java!Matching(s[Len(s)].method, s[Len(s)].pc, c) = {}
  PROVE  Java!Landed(s, c) = Java!Landed(Front(s), PassedClass(s[Len(s)].kind, c))
<1> DEFINE n == Len(s)
           f == Front(s)
           d == PassedClass(s[n].kind, c)
<1>1. /\ n \in Nat \ {0} /\ f \in Seq(Frames) /\ Len(f) = n - 1
      /\ \A i \in 1..n - 1 : f[i] = s[i]
  BY FrontElements, EmptySeq
<1>2. \A k \in 1..n - 1 : Java!Arriving(s, k, c) = Java!Arriving(f, k, d)
  BY ArrivingFromFront
<1>3. Java!Arriving(s, n, c) = c
  BY ArrivingOnTop
<1>4. s[n].kind # "native" => Java!Matching(s[n].method, s[n].pc, c) = {}
  OBVIOUS
<1>5. \A k \in 1..n - 1 : SubSeq(s, 1, k) = SubSeq(f, 1, k)
  <2> SUFFICES ASSUME NEW k \in 1..n - 1 PROVE SubSeq(s, 1, k) = SubSeq(f, 1, k)
    OBVIOUS
  <2>1. SubSeq(s, 1, k) = [i \in 1..k |-> s[i]] /\ SubSeq(f, 1, k) = [i \in 1..k |-> f[i]]
    BY <1>1
  <2> QED
    BY <1>1, <2>1
<1> HIDE DEF n, f, d
<1>6. Java!Catchers(s, c) = Java!Catchers(f, d)
  <2>1. Java!Catchers(s, c) =
          {k \in 1..n : /\ s[k].kind # "native"
                        /\ Java!Matching(s[k].method, s[k].pc, Java!Arriving(s, k, c)) # {}}
    BY DEF Java!Catchers, n
  <2>2. Java!Catchers(f, d) =
          {k \in 1..n - 1 : /\ f[k].kind # "native"
                            /\ Java!Matching(f[k].method, f[k].pc, Java!Arriving(f, k, d)) # {}}
    BY <1>1 DEF Java!Catchers
  <2>3. 1..n = (1..n - 1) \cup {n}
    BY <1>1
  <2> QED
    BY <1>1, <1>2, <1>3, <1>4, <2>1, <2>2, <2>3
<1> DEFINE C == Java!Catchers(f, d)
<1>7. C \subseteq 1..n - 1
  BY <1>1 DEF Java!Catchers
<1> HIDE DEF C
<1>8. [k \in C |-> CaughtAt(s, k, c)] = [k \in C |-> CaughtAt(f, k, d)]
  <2>1. ASSUME NEW k \in C PROVE CaughtAt(s, k, c) = CaughtAt(f, k, d)
    <3>1. k \in 1..n - 1
      BY <1>7
    <3>2. /\ s[k] = f[k] /\ SubSeq(s, 1, k) = SubSeq(f, 1, k)
          /\ Java!Arriving(s, k, c) = Java!Arriving(f, k, d)
      BY <1>1, <1>2, <1>5, <3>1
    <3> QED
      BY <3>2 DEF CaughtAt
  <2> QED
    BY <2>1
<1>9. Java!Landed(s, c) = IF C = {} THEN <<>> ELSE [k \in C |-> CaughtAt(s, k, c)][Java!Max(C)]
  <2>1. C = Java!Catchers(s, c)
    BY <1>6 DEF C
  <2> HIDE DEF C
  <2>2. Java!Landed(s, c) =
          IF Java!Catchers(s, c) = {} THEN <<>>
          ELSE [k \in Java!Catchers(s, c) |-> CaughtAt(s, k, c)][Java!Max(Java!Catchers(s, c))]
    BY LandedIs
  <2> QED
    BY <2>1, <2>2
<1>10. Java!Landed(f, d) = IF C = {} THEN <<>> ELSE [k \in C |-> CaughtAt(f, k, d)][Java!Max(C)]
  BY LandedIs DEF C
<1>11. Java!Landed(s, c) = Java!Landed(f, d)
  BY <1>8, <1>9, <1>10
<1> QED
  BY <1>11 DEF n, f, d

\* The topmost activation catches it: it lands there, in its first handler.
LEMMA LandedOnTop ==
  ASSUME NEW s \in Seq(Frames), s # <<>>, NEW c \in Classes, s[Len(s)].kind # "native",
         NEW i \in Java!Matching(s[Len(s)].method, s[Len(s)].pc, c),
         \A j \in Java!Matching(s[Len(s)].method, s[Len(s)].pc, c) : i <= j
  PROVE  Java!Landed(s, c) = [s EXCEPT ![Len(s)].pc = Table[s[Len(s)].method][i].handler]
<1> DEFINE n == Len(s)
           C == Java!Catchers(s, c)
           M == Java!Matching(s[n].method, s[n].pc, c)
<1>1. n \in Nat \ {0}
  BY EmptySeq
<1>2. Java!Arriving(s, n, c) = c
  BY ArrivingOnTop
<1>3. i \in M /\ \A j \in M : i <= j
  OBVIOUS
<1>4. M \subseteq Nat
  BY DEF Java!Matching
<1> HIDE DEF M
<1>5. C \subseteq 1..n /\ n \in C
  BY <1>1, <1>2, <1>3 DEF Java!Catchers, M
<1> HIDE DEF n, C
<1>6. Java!Max(C) = n
  <2>1. \A y \in C : n >= y
    BY <1>1, <1>5
  <2>2. \A x \in C : (\A y \in C : x >= y) => x = n
    BY <1>1, <1>5
  <2> QED
    BY <1>5, <2>1, <2>2 DEF Java!Max
<1>7. SubSeq(s, 1, n) = s
  BY SubSeqFull DEF n
<1>8. Java!HandlerOf(s[n].method, s[n].pc, c) = Table[s[n].method][i].handler
  <2>1. i = CHOOSE j \in M : \A k \in M : j <= k
    <3>1. \A j \in M : (\A k \in M : j <= k) => j = i
      BY <1>3, <1>4
    <3> QED
      BY <1>3, <3>1
  <2> QED
    BY <2>1 DEF Java!HandlerOf, M
<1>9. Java!Landed(s, c) = CaughtAt(s, n, c)
  <2>1. Java!Landed(s, c) = [k \in C |-> CaughtAt(s, k, c)][n]
    BY <1>5, <1>6, LandedIs DEF C
  <2> QED
    BY <1>5, <2>1
<1>10. CaughtAt(s, n, c) = [s EXCEPT ![n].pc = Table[s[n].method][i].handler]
  BY <1>2, <1>7, <1>8 DEF CaughtAt
<1> QED
  BY <1>9, <1>10 DEF n

\* Without activations an exception lands nowhere.
LEMMA LandedNowhere ==
  ASSUME NEW c
  PROVE  Java!Landed(<<>>, c) = <<>>
<1>1. Java!Catchers(<<>>, c) = {}
  BY DEF Java!Catchers
<1> QED
  BY <1>1, LandedIs

-----------------------------------------------------------------------------
(* Every step is one of JavaUnwinding or leaves what Java sees.             *)

\* Both instances of JavaUnwinding mean the same by Landed, for it does not read the stack.
LEMMA LandedAlike ==
  ASSUME NEW s, NEW c
  PROVE  Unwinding!Landed(s, c) = Java!Landed(s, c)
BY DEF Unwinding!Landed, Unwinding!Catchers, Unwinding!Arriving, Unwinding!Boundaries,
       Unwinding!Matching, Unwinding!HandlerOf, Unwinding!Max,
       Java!Landed, Java!Catchers, Java!Arriving, Java!Boundaries,
       Java!Matching, Java!HandlerOf, Java!Max

\* The three kinds of signal differ, and what is thrown is an exception of its class.
LEMMA SignalKinds ==
  /\ Quiet \notin Exceptions /\ Fault \notin Exceptions /\ Quiet # Fault
  /\ \A e \in Exceptions : e.class \in Classes
  /\ \A c \in Classes, tr \in Seq(Entries) :
       Thrown(c, tr) \in Exceptions /\ Thrown(c, tr).class = c
<1>1. Quiet.class = "none" /\ Fault.class = "fault"
  BY DEF Quiet, Fault
<1>2. "none" \notin Classes /\ "fault" \notin Classes
  BY DEF Classes
<1>3. \A e \in Exceptions : e.class \in Classes
  BY DEF Exceptions
<1>4. \A c \in Classes, tr \in Seq(Entries) :
        Thrown(c, tr) \in Exceptions /\ Thrown(c, tr).class = c
  BY DEF Thrown, Exceptions
<1> QED
  BY <1>1, <1>2, <1>3, <1>4

\* The stack Java sees, by what is on its way.
LEMMA StackOf ==
  /\ signal = Quiet => JavaStack = frames
  /\ signal = Fault => JavaStack = <<>>
  /\ signal \in Exceptions => JavaStack = Java!Landed(frames, signal.class)
BY SignalKinds DEF JavaStack

\* The same after the step.
LEMMA StackOfNext ==
  /\ signal' = Quiet => JavaStack' = frames'
  /\ signal' = Fault => JavaStack' = <<>>
  /\ signal' \in Exceptions => JavaStack' = Java!Landed(frames', signal'.class)
BY SignalKinds DEF JavaStack

\* Initial states map to initial states.
LEMMA UnwindingInit == Init => Unwinding!Init
BY StackOf DEF Init, Unwinding!Init

\* A call is a Call of JavaUnwinding.
LEMMA CallUnwinds ==
  ASSUME signal = Quiet, NEW kind, NEW m \in Methods, Push(kind, m),
         kind \in Unwinding!MayCall
  PROVE  Unwinding!Next
<1>1. /\ JavaStack = frames /\ JavaStack' = frames'
      /\ frames' = Append(frames, [kind |-> kind, method |-> m, pc |-> 0])
  BY StackOf, StackOfNext DEF Push
<1>2. Unwinding!Call
  BY <1>1 DEF Unwinding!Call
<1> QED
  BY <1>2 DEF Unwinding!Next

\* An exception thrown on top is a Throw, however long it then takes to land.
LEMMA ThrowUnwinds ==
  ASSUME signal = Quiet, NEW e \in Exceptions, signal' = e, frames' = frames
  PROVE  Unwinding!Next
<1>1. /\ JavaStack = frames /\ JavaStack' = Java!Landed(frames, e.class)
      /\ e.class \in Classes
  BY StackOf, StackOfNext, SignalKinds
<1>2. CASE frames = <<>>
  <2>1. JavaStack' = JavaStack
    BY <1>1, <1>2, LandedNowhere
  <2> QED
    BY <2>1 DEF Unwinding!Next
<1>3. CASE frames # <<>>
  <2>1. Unwinding!Throw(e.class)
    BY <1>1, <1>3, LandedAlike DEF Unwinding!Throw
  <2> QED
    BY <1>1, <2>1 DEF Unwinding!Next
<1> QED
  BY <1>2, <1>3

\* A search that ends: what Java sees has happened when the exception was thrown.
LEMMA CatchUnwinds ==
  ASSUME Consistent, Catch
  PROVE  Unwinding!Next
<1>1. /\ frames \in Seq(Frames) /\ frames # <<>> /\ signal \in Exceptions /\ signal' = Quiet
      /\ signal.class \in Classes
  BY SignalKinds DEF Catch, Consistent, TypeOK, Frames
<1>2. PICK i \in Matching :
        /\ \A j \in Matching : i <= j
        /\ frames' = [frames EXCEPT ![Len(frames)].pc = Table[Top.method][i].handler]
  BY DEF Catch
<1>3. /\ Top = frames[Len(frames)]
      /\ Top.kind # "native"
      /\ Matching = Java!Matching(Top.method, Top.pc, signal.class)
  BY <1>2 DEF Top, Last, Matching, Java!Matching
<1>4. Java!Landed(frames, signal.class) = frames'
  BY <1>1, <1>2, <1>3, LandedOnTop
<1>5. JavaStack' = JavaStack
  BY <1>1, <1>4, StackOf, StackOfNext
<1> QED
  BY <1>5 DEF Unwinding!Next

\* The end of an activation is a Return, or a stutter when an exception passes it.
LEMMA EndUnwinds ==
  ASSUME Consistent, End
  PROVE  Unwinding!Next
<1>1. /\ frames \in Seq(Frames) /\ frames # <<>> /\ frames' = Front(frames)
      /\ signal \in Exceptions \cup {Quiet, Fault}
      /\ signal' = Passed(Top.kind, callStack')
  BY DEF End, Consistent, TypeOK, Frames
<1>2. CASE signal = Quiet
  <2>1. signal' = Quiet
    BY <1>1, <1>2, SignalKinds DEF Passed
  <2>2. JavaStack = frames /\ JavaStack' = SubSeq(frames, 1, Len(frames) - 1)
    BY <1>1, <1>2, <2>1, StackOf, StackOfNext DEF Front
  <2>3. Unwinding!Return
    BY <1>1, <2>2 DEF Unwinding!Return
  <2> QED
    BY <2>3 DEF Unwinding!Next
<1>3. CASE signal = Fault
  <2>1. signal' = Fault
    BY <1>1, <1>3, SignalKinds DEF Passed
  <2> QED
    BY <1>3, <2>1, StackOf, StackOfNext DEF Unwinding!Next
<1>4. CASE signal \in Exceptions
  <2> DEFINE c == signal.class
             n == Len(frames)
  <2>1. c \in Classes /\ Matching = {} /\ Top = frames[n]
    BY <1>4, SignalKinds DEF End, Top, Last
  <2>2. Top.kind # "native" => Java!Matching(Top.method, Top.pc, c) = {}
    BY <2>1 DEF Matching, Java!Matching
  <2>3. Java!Landed(frames, c) = Java!Landed(frames', PassedClass(Top.kind, c))
    BY <1>1, <2>1, <2>2, LandedPassed
  <2>4. callStack' \in Seq(Entries)
    BY Ended, CallStackAssumption
  <2>5. signal' \in Exceptions /\ signal'.class = PassedClass(Top.kind, c)
    BY <1>1, <1>4, <2>1, <2>4, SignalKinds
       DEF Passed, PassedClass, WrapInInvocationTarget, WrapInInitializerError, Classes
  <2>6. JavaStack' = JavaStack
    BY <1>4, <2>3, <2>5, StackOf, StackOfNext
  <2> QED
    BY <2>6 DEF Unwinding!Next
<1> QED
  BY <1>1, <1>2, <1>3, <1>4

\* Every step maps to a step of JavaUnwinding or leaves the stack Java sees alone.
LEMMA UnwindingStep ==
  ASSUME Consistent, [Next]_vars
  PROVE  Unwinding!Next
<1>0. JavaStack' = JavaStack => Unwinding!Next
  BY DEF Unwinding!Next
<1>1. ASSUME NEW m \in Methods,
             Enter(m) \/ Invoke(m) \/ InvokeNative(m) \/ InvokeReflected(m) \/ InvokeHandle(m)
      PROVE  Unwinding!Next
  <2>1. signal = Quiet /\ JavaStack = frames
    BY <1>1, StackOf DEF Enter, Invoke, InvokeNative, InvokeReflected, InvokeHandle, Interpreting
  <2>2. PICK kind : Push(kind, m) /\ kind \in Unwinding!MayCall
    BY <1>1, <2>1 DEF Enter, Invoke, InvokeNative, InvokeReflected, InvokeHandle, Interpreting,
                      Top, Last, Unwinding!MayCall, Unwinding!Top
  <2> QED
    BY <2>1, <2>2, CallUnwinds
<1>2. ASSUME NEW m \in Methods, RunClinit(m) PROVE Unwinding!Next
  <2>1. signal = Quiet /\ Push("clinit", m) /\ "clinit" \in Unwinding!MayCall
    BY <1>2 DEF RunClinit, Unwinding!MayCall
  <2> QED
    BY <2>1, CallUnwinds
<1>3. ASSUME NEW p \in Pcs, Execute(p) PROVE Unwinding!Next
  <2>1. /\ JavaStack = frames /\ JavaStack' = frames' /\ frames # <<>>
        /\ frames[Len(frames)].kind # "native"
        /\ frames' = [frames EXCEPT ![Len(frames)].pc = p]
    BY <1>3, StackOf, StackOfNext DEF Execute, Interpreting, Top, Last
  <2>2. Unwinding!Run
    BY <2>1 DEF Unwinding!Run, Unwinding!Top
  <2> QED
    BY <2>2 DEF Unwinding!Next
<1>4. callStack \in Seq(Entries) /\ held \in [by : 1..Len(frames), exception : Exceptions] \cup {NothingHeld}
  BY DEF Consistent, TypeOK
<1>5. ASSUME OverflowInvoke \/ OverflowClinit \/ \E c \in {"Exception", "NoClassDefFoundError"} : Throw(c)
      PROVE  Unwinding!Next
  <2>1. PICK c \in Classes : signal = Quiet /\ signal' = Thrown(c, callStack) /\ frames' = frames
    BY <1>5 DEF OverflowInvoke, OverflowClinit, Throw, Interpreting, Classes
  <2> QED
    BY <1>4, <2>1, SignalKinds, ThrowUnwinds
<1>6. ASSUME Rethrow PROVE Unwinding!Next
  <2>1. /\ signal = Quiet /\ signal' = held.exception /\ frames' = frames
        /\ held.by = Len(frames) /\ frames # <<>>
    BY <1>6 DEF Rethrow, Interpreting
  <2>2. held # NothingHeld
    BY <2>1, EmptySeq DEF Consistent, TypeOK, NothingHeld
  <2>3. held.exception \in Exceptions
    BY <1>4, <2>2
  <2> QED
    BY <2>1, <2>3, ThrowUnwinds
<1>7. ASSUME Fail PROVE Unwinding!Next
  <2>1. Unwinding!Abort
    BY <1>7, StackOf, StackOfNext DEF Fail, Unwinding!Abort
  <2> QED
    BY <2>1 DEF Unwinding!Next
<1>8. ASSUME Report PROVE Unwinding!Next
  <2>1. frames = <<>> /\ frames' = <<>> /\ signal \in Exceptions \cup {Quiet, Fault} /\ signal' = Quiet
    BY <1>8 DEF Report, Consistent, TypeOK
  <2>2. JavaStack = <<>> /\ JavaStack' = <<>>
    BY <2>1, StackOf, StackOfNext, LandedNowhere
  <2> QED
    BY <1>0, <2>2
<1>9. ASSUME UNCHANGED vars PROVE Unwinding!Next
  BY <1>0, <1>9 DEF vars, JavaStack
<1> QED
  BY <1>1, <1>2, <1>3, <1>5, <1>6, <1>7, <1>8, <1>9, CatchUnwinds, EndUnwinds DEF Next

\* Frame by frame and with the class converted on the way, an exception lands
\* where Java says, for any methods, exception tables and nesting of calls.
THEOREM CallStackImplementsUnwinding == Spec => ImplementsUnwinding
<1>1. Consistent /\ [Next]_vars => [Unwinding!Next]_JavaStack
  BY UnwindingStep
<1> QED
  BY <1>1, UnwindingInit, AlwaysConsistent, PTL DEF Spec, ImplementsUnwinding, Unwinding!Spec
=============================================================================
