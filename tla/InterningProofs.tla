--------------------------- MODULE InterningProofs ---------------------------
(***************************************************************************)
(* Theorems about Interning, for any threads, keys and parts.              *)
(***************************************************************************)
EXTENDS Interning, FiniteSetTheorems, TLAPS

Frames == [key : Keys, ref : Nat \cup {None}, next : Nat]

Typed ==
  /\ table \in [Keys -> Nat \cup {None}]
  /\ heap \in Seq(Keys)
  /\ filled \in Seq(Nat)
  /\ Len(filled) = Len(heap)
  /\ stack \in [Threads -> Seq(Frames)]
  /\ given \in [Keys -> SUBSET Nat]
  /\ raced \subseteq Keys

\* The frames of a stack.
Under(s) == {s[i] : i \in DOMAIN s}

\* r is an object that was built for k.
BuiltFor(r, k) == r \in 1..Len(heap) /\ heap[r] = k

Fitting(f) ==
  /\ f.ref # None => BuiltFor(f.ref, f.key)
  /\ f.ref = None => f.next = 0
  /\ f.next <= Len(Parts[f.key]) + 1

\* A frame below another waits for one of its parts.
Waits(f) == f.ref # None /\ f.next \in 1..Len(Parts[f.key])

Calls == \A t \in Threads :
  /\ \A f \in Under(stack[t]) : Fitting(f)
  /\ stack[t] # <<>> => \A f \in Under(Tail(stack[t])) : Waits(f)
Entries == \A k \in Keys : table[k] # None => BuiltFor(table[k], k)

Kept == Typed /\ Calls /\ Entries

-----------------------------------------------------------------------------
\* Stacks.
LEMMA UnderPushed ==
  ASSUME NEW a \in Frames, NEW s \in Seq(Frames)
  PROVE  LET p == <<a>> \o s IN
         /\ p \in Seq(Frames) /\ p # <<>> /\ Head(p) = a /\ Tail(p) = s
         /\ Under(p) = {a} \cup Under(s)
<1> DEFINE p == <<a>> \o s
<1>1. /\ p \in Seq(Frames) /\ p # <<>> /\ Head(p) = a /\ Tail(p) = s
  OBVIOUS
<1>2. /\ DOMAIN p = 1..(Len(s) + 1)
      /\ p[1] = a
      /\ \A i \in DOMAIN s : i + 1 \in DOMAIN p /\ p[i + 1] = s[i]
      /\ DOMAIN s = 1..Len(s) /\ Len(s) \in Nat
  OBVIOUS
<1>3. \A i \in DOMAIN p : i = 1 \/ (i - 1 \in DOMAIN s /\ p[i] = s[i - 1])
  BY <1>2
<1> HIDE DEF p
<1>4. Under(p) \subseteq {a} \cup Under(s)
  BY <1>2, <1>3 DEF Under
<1>5. {a} \cup Under(s) \subseteq Under(p)
  BY <1>2 DEF Under
<1> QED
  BY <1>1, <1>4, <1>5 DEF p

\* Nothing is under the empty stack.
LEMMA UnderNone == Under(<<>>) = {}
BY DEF Under

\* The calls of a stack are the innermost and those under it.
LEMMA UnderPeeled ==
  ASSUME NEW s \in Seq(Frames), s # <<>>
  PROVE  /\ Head(s) \in Frames /\ Tail(s) \in Seq(Frames)
         /\ Under(s) = {Head(s)} \cup Under(Tail(s))
         /\ Under(s) \subseteq Frames
<1> DEFINE h == Head(s)
           below == Tail(s)
<1>1. h \in Frames /\ below \in Seq(Frames) /\ s = <<h>> \o below
  OBVIOUS
<1>2. Under(s) \subseteq Frames
  BY DEF Under
<1> HIDE DEF h, below
<1>3. Under(s) = {h} \cup Under(below)
  BY <1>1, UnderPushed
<1> QED
  BY <1>1, <1>2, <1>3 DEF h, below

\* The call a thread is in.
LEMMA Innermost ==
  ASSUME Kept, NEW t \in Threads, InCall(t)
  PROVE  /\ stack[t] \in Seq(Frames) /\ stack[t] # <<>>
         /\ Top(t) \in Frames /\ Tail(stack[t]) \in Seq(Frames)
         /\ Under(stack[t]) = {Top(t)} \cup Under(Tail(stack[t]))
         /\ Fitting(Top(t)) /\ Top(t) \in Under(stack[t])
         /\ \A f \in Under(Tail(stack[t])) : f \in Frames /\ Fitting(f) /\ Waits(f)
         /\ Top(t).key \in Keys /\ Top(t).next \in Nat /\ Top(t).ref \in Nat \cup {None}
         /\ Len(Parts[Top(t).key]) \in Nat
<1>1. stack[t] \in Seq(Frames) /\ stack[t] # <<>>
  BY DEF Kept, Typed, InCall
<1>2. /\ Top(t) \in Frames /\ Tail(stack[t]) \in Seq(Frames)
      /\ Under(stack[t]) = {Top(t)} \cup Under(Tail(stack[t]))
      /\ Under(stack[t]) \subseteq Frames
  BY <1>1, UnderPeeled DEF Top
<1>3. Top(t).key \in Keys /\ Top(t).next \in Nat /\ Top(t).ref \in Nat \cup {None}
  BY <1>2 DEF Frames
<1>4. Len(Parts[Top(t).key]) \in Nat
  BY <1>3, InterningAssumption
<1> QED
  BY <1>1, <1>2, <1>3, <1>4 DEF Kept, Calls

\* What a thread asks for next.
LEMMA PartIsKey ==
  ASSUME Kept, NEW t \in Threads, Filling(t)
  PROVE  NextPart(t) \in Keys /\ Frame(NextPart(t)) \in Frames
<1>1. Parts[Top(t).key] \in Seq(Keys) /\ Top(t).next \in 1..Len(Parts[Top(t).key])
  BY Innermost, InterningAssumption DEF Filling
<1> QED
  BY <1>1 DEF NextPart, Frame, Frames

-----------------------------------------------------------------------------
\* A thread's innermost frame becomes f.
LEMMA TopBecomes ==
  ASSUME Kept, NEW t \in Threads, InCall(t), NEW f \in Frames, SetTop(t, f)
  PROVE  /\ stack' \in [Threads -> Seq(Frames)]
         /\ stack'[t] # <<>> /\ Head(stack'[t]) = f /\ Tail(stack'[t]) = Tail(stack[t])
         /\ Under(stack'[t]) = {f} \cup Under(Tail(stack[t]))
         /\ \A u \in Threads \ {t} : stack'[u] = stack[u]
<1> DEFINE T == Tail(stack[t])
<1>1. T \in Seq(Frames)
  BY Innermost
<1>2. /\ stack'[t] = <<f>> \o T
      /\ stack' = [stack EXCEPT ![t] = <<f>> \o T]
      /\ \A u \in Threads \ {t} : stack'[u] = stack[u]
  BY DEF SetTop, Kept, Typed
<1> HIDE DEF T
<1>3. /\ stack'[t] \in Seq(Frames) /\ stack'[t] # <<>>
      /\ Head(stack'[t]) = f /\ Tail(stack'[t]) = T
      /\ Under(stack'[t]) = {f} \cup Under(T)
  BY <1>1, <1>2, UnderPushed
<1> QED
  BY <1>2, <1>3 DEF T, Kept, Typed

\* A thread begins a call, from another or from none.
LEMMA CallBegins ==
  ASSUME Kept, NEW t \in Threads, NEW f \in Frames,
         stack' = [stack EXCEPT ![t] = <<f>> \o @]
  PROVE  /\ stack' \in [Threads -> Seq(Frames)]
         /\ stack'[t] # <<>> /\ Head(stack'[t]) = f /\ Tail(stack'[t]) = stack[t]
         /\ Under(stack'[t]) = {f} \cup Under(stack[t])
         /\ \A u \in Threads \ {t} : stack'[u] = stack[u]
<1>1. /\ stack'[t] = <<f>> \o stack[t] /\ stack[t] \in Seq(Frames)
      /\ \A u \in Threads \ {t} : stack'[u] = stack[u]
  BY DEF Kept, Typed
<1>2. /\ stack'[t] \in Seq(Frames) /\ stack'[t] # <<>>
      /\ Head(stack'[t]) = f /\ Tail(stack'[t]) = stack[t]
      /\ Under(stack'[t]) = {f} \cup Under(stack[t])
  BY <1>1, UnderPushed
<1> QED
  BY <1>1, <1>2 DEF Kept, Typed

\* The first call of a thread is one from none.
LEMMA FirstCall ==
  ASSUME Kept, NEW t \in Threads, NEW k \in Keys, InternMiss(t, k)
  PROVE  /\ Frame(k) \in Frames
         /\ stack' = [stack EXCEPT ![t] = <<Frame(k)>> \o @]
<1>1. Frame(k) \in Frames
  BY DEF Frame, Frames
<1>2. stack[t] = <<>> /\ stack' = [stack EXCEPT ![t] = <<Frame(k)>>]
  BY DEF InternMiss, InCall
<1>3. <<Frame(k)>> \o <<>> = <<Frame(k)>>
  BY <1>1
<1> QED
  BY <1>1, <1>2, <1>3

\* The innermost call returns to another, or to none.
LEMMA CallEnds ==
  ASSUME Kept, NEW t \in Threads, InCall(t), PopAndFill(t)
  PROVE  LET callers == Tail(stack[t])
             g == Head(callers)
             g2 == [g EXCEPT !.next = @ + 1]
         IN
         /\ stack' \in [Threads -> Seq(Frames)]
         /\ \A u \in Threads \ {t} : stack'[u] = stack[u]
         /\ callers = <<>> => stack'[t] = <<>> /\ Under(stack'[t]) = {} /\ filled' = filled
         /\ callers # <<>> =>
              /\ g \in Under(callers) /\ g \in Frames /\ g2 \in Frames
              /\ stack'[t] # <<>> /\ Head(stack'[t]) = g2 /\ Tail(stack'[t]) = Tail(callers)
              /\ Under(callers) = {g} \cup Under(Tail(callers))
              /\ Under(stack'[t]) = {g2} \cup Under(Tail(callers))
              /\ filled' = [filled EXCEPT ![g.ref] = @ + 1]
<1> DEFINE callers == Tail(stack[t])
           g == Head(callers)
           g2 == [g EXCEPT !.next = @ + 1]
           below == Tail(callers)
<1>1. callers \in Seq(Frames) /\ stack \in [Threads -> Seq(Frames)]
  BY Innermost DEF Kept, Typed
<1>2. CASE callers = <<>>
  <2>1. stack' = [stack EXCEPT ![t] = <<>>] /\ filled' = filled
    BY <1>2 DEF PopAndFill
  <2>2. <<>> \in Seq(Frames)
    OBVIOUS
  <2> QED
    BY <1>1, <1>2, <2>1, <2>2, UnderNone
<1>3. CASE callers # <<>>
  <2>1. /\ stack' = [stack EXCEPT ![t] = <<g2>> \o below]
        /\ filled' = [filled EXCEPT ![g.ref] = @ + 1]
    BY <1>3 DEF PopAndFill
  <2> HIDE DEF callers
  <2>2. g \in Frames /\ below \in Seq(Frames) /\ Under(callers) = {g} \cup Under(below)
    BY <1>1, <1>3, UnderPeeled
  <2>3. g2 \in Frames
    BY <2>2 DEF Frames
  <2> HIDE DEF g2, below
  <2>4. stack'[t] = <<g2>> \o below /\ \A u \in Threads \ {t} : stack'[u] = stack[u]
    BY <1>1, <2>1
  <2>5. /\ stack'[t] \in Seq(Frames) /\ stack'[t] # <<>>
        /\ Head(stack'[t]) = g2 /\ Tail(stack'[t]) = below
        /\ Under(stack'[t]) = {g2} \cup Under(below)
    BY <2>2, <2>3, <2>4, UnderPushed
  <2>6. stack' \in [Threads -> Seq(Frames)]
    BY <1>1, <2>1, <2>5
  <2> QED
    BY <1>3, <2>1, <2>2, <2>3, <2>4, <2>5, <2>6 DEF callers, g2, below
<1> QED
  BY <1>2, <1>3

-----------------------------------------------------------------------------
\* Initially there are no entries and no calls.
LEMMA KeptInit == Init => Kept
<1> SUFFICES ASSUME Init PROVE Kept
  OBVIOUS
<1>1. Typed
  BY DEF Init, Typed
<1> QED
  BY <1>1, UnderNone DEF Init, Kept, Calls, Entries

\* Building allots a new object and changes no other.
LEMMA Built ==
  ASSUME Kept, NEW t \in Threads, Build(t)
  PROVE  /\ heap' \in Seq(Keys) /\ filled' \in Seq(Nat)
         /\ Len(heap') = Len(heap) + 1 /\ Len(filled') = Len(heap')
         /\ heap'[Len(heap) + 1] = Top(t).key
         /\ filled'[Len(heap) + 1] = 0
         /\ \A r \in 1..Len(heap) : heap'[r] = heap[r] /\ filled'[r] = filled[r]
         /\ Len(heap) \in Nat
<1>1. Top(t).key \in Keys
  BY Innermost DEF Build
<1>2. heap \in Seq(Keys) /\ filled \in Seq(Nat) /\ Len(filled) = Len(heap)
  BY DEF Kept, Typed
<1>3. heap' = Append(heap, Top(t).key) /\ filled' = Append(filled, 0)
  BY DEF Build
<1> QED
  BY <1>1, <1>2, <1>3

\* A lookup only adds to what was raced for.
LEMMA LookUpType ==
  ASSUME Kept, NEW t, NEW k \in Keys, LookUp(t, k)
  PROVE  raced' \subseteq Keys /\ raced \subseteq raced'
BY DEF LookUp, Kept, Typed

\* The steps that leave the heap and the tables as they are.
LEMMA NoNewObject ==
  ASSUME Kept, UNCHANGED <<table, heap>>, filled' \in Seq(Nat), Len(filled') = Len(filled),
         stack' \in [Threads -> Seq(Frames)], given' \in [Keys -> SUBSET Nat],
         raced' \subseteq Keys, Calls'
  PROVE  Kept'
BY DEF Kept, Typed, Entries, BuiltFor

\* Filling a part counts it for its object alone.
LEMMA FilledMore ==
  ASSUME Kept, NEW r \in 1..Len(heap), filled' = [filled EXCEPT ![r] = @ + 1]
  PROVE  /\ filled' \in Seq(Nat) /\ Len(filled') = Len(filled)
         /\ filled'[r] = filled[r] + 1
         /\ \A q \in 1..Len(heap) \ {r} : filled'[q] = filled[q]
<1>1. filled \in Seq(Nat) /\ Len(filled) = Len(heap)
  BY DEF Kept, Typed
<1>2. DOMAIN filled = 1..Len(heap) /\ filled[r] \in Nat
  BY <1>1
<1> QED
  BY <1>1, <1>2

\* Every step keeps Kept.
LEMMA KeptStep == Kept /\ [Next]_vars => Kept'
<1> SUFFICES ASSUME Kept, [Next]_vars PROVE Kept'
  OBVIOUS
<1> USE DEF BuiltFor
<1>1. ASSUME NEW t \in Threads, NEW k \in Keys, InternHit(t, k) PROVE Kept'
  <2>1. table[k] \in Nat /\ UNCHANGED <<table, heap, filled, stack>>
    BY <1>1 DEF InternHit, Miss, Kept, Typed
  <2>2. given' \in [Keys -> SUBSET Nat]
    BY <1>1, <2>1 DEF InternHit, Give, Kept, Typed
  <2>3. raced' \subseteq Keys
    BY <1>1, LookUpType DEF InternHit
  <2> QED
    BY <2>1, <2>2, <2>3 DEF Kept, Typed, Calls, Entries, Fitting
<1>2. ASSUME NEW t \in Threads, NEW k \in Keys, InternMiss(t, k) PROVE Kept'
  <2>1. Frame(k) \in Frames /\ stack[t] = <<>>
    BY <1>2, FirstCall DEF InternMiss, InCall
  <2>2. /\ stack' \in [Threads -> Seq(Frames)]
        /\ stack'[t] # <<>> /\ Tail(stack'[t]) = <<>>
        /\ Under(stack'[t]) = {Frame(k)}
        /\ \A u \in Threads \ {t} : stack'[u] = stack[u]
    BY <1>2, <2>1, FirstCall, CallBegins, UnderNone
  <2>3. Fitting(Frame(k))'
    BY InterningAssumption DEF Fitting, Frame
  <2>4. UNCHANGED <<table, heap, filled, given>> /\ raced' \subseteq Keys
    BY <1>2, LookUpType DEF InternMiss
  <2>5. Calls'
    BY <2>2, <2>3, <2>4, UnderNone DEF Kept, Calls, Fitting
  <2> QED
    BY <2>2, <2>4, <2>5 DEF Kept, Typed, Entries
<1>3. ASSUME NEW t \in Threads, Build(t) PROVE Kept'
  <2> DEFINE f == [Top(t) EXCEPT !.ref = Len(heap) + 1]
  <2>1. InCall(t) /\ Top(t).ref = None /\ SetTop(t, f) /\ UNCHANGED <<table, given, raced>>
    BY <1>3 DEF Build
  <2>2. /\ Top(t) \in Frames /\ Fitting(Top(t)) /\ Len(Parts[Top(t).key]) \in Nat
        /\ \A g \in Under(Tail(stack[t])) : g \in Frames /\ Fitting(g) /\ Waits(g)
    BY <2>1, Innermost
  <2>3. f \in Frames /\ f.key = Top(t).key /\ f.ref = Len(heap) + 1 /\ f.next = 0
    BY <1>3, <2>1, <2>2, Built DEF Frames, Fitting
  <2> HIDE DEF f
  <2>4. /\ stack' \in [Threads -> Seq(Frames)]
        /\ Tail(stack'[t]) = Tail(stack[t])
        /\ Under(stack'[t]) = {f} \cup Under(Tail(stack[t]))
        /\ \A u \in Threads \ {t} : stack'[u] = stack[u]
    BY <2>1, <2>3, TopBecomes
  <2>5. \A r, k : BuiltFor(r, k) => BuiltFor(r, k)'
    BY <1>3, Built
  <2>6. \A g : Fitting(g) => Fitting(g)'
    BY <2>5 DEF Fitting
  <2>7. \A g : g = f => Fitting(g)'
    <3> SUFFICES ASSUME NEW g, g.key = Top(t).key, g.ref = Len(heap) + 1, g.next = 0
                 PROVE  Fitting(g)'
      BY <2>3
    <3>1. Len(heap) + 1 \in 1..Len(heap') /\ heap'[Len(heap) + 1] = Top(t).key
      BY <1>3, Built
    <3>2. g.ref # None /\ 0 <= Len(Parts[g.key]) + 1
      BY <1>3, <2>2, Built, InterningAssumption
    <3> QED
      BY <3>1, <3>2 DEF Fitting
  <2>8. Calls'
    <3>1. ASSUME NEW u \in Threads, u # t
          PROVE  /\ \A g \in Under(stack'[u]) : Fitting(g)'
                 /\ stack'[u] # <<>> => \A g \in Under(Tail(stack'[u])) : Waits(g)
      BY <2>4, <2>6, <3>1 DEF Kept, Calls
    <3>2. /\ \A g \in Under(stack'[t]) : Fitting(g)'
          /\ \A g \in Under(Tail(stack'[t])) : Waits(g)
      BY <2>2, <2>4, <2>6, <2>7
    <3> QED
      BY <3>1, <3>2 DEF Calls
  <2>9. Typed' /\ Entries'
    BY <1>3, <2>1, <2>4, <2>5, Built DEF Kept, Typed, Entries
  <2> QED
    BY <2>8, <2>9 DEF Kept
<1>4. ASSUME NEW t \in Threads, Insert(t) PROVE Kept'
  <2> DEFINE f == [Top(t) EXCEPT !.next = 1]
  <2>1. /\ InCall(t) /\ Top(t).ref # None /\ SetTop(t, f)
        /\ table' = [table EXCEPT ![Top(t).key] = Top(t).ref]
        /\ UNCHANGED <<heap, filled, given, raced>>
    BY <1>4 DEF Insert
  <2>2. /\ Top(t) \in Frames /\ Fitting(Top(t)) /\ Len(Parts[Top(t).key]) \in Nat
        /\ Top(t).key \in Keys /\ Top(t).ref \in Nat
        /\ \A g \in Under(Tail(stack[t])) : g \in Frames /\ Fitting(g) /\ Waits(g)
    BY <2>1, Innermost
  <2>3. f \in Frames /\ f.key = Top(t).key /\ f.ref = Top(t).ref /\ f.next = 1
    BY <2>2 DEF Frames
  <2> HIDE DEF f
  <2>4. /\ stack' \in [Threads -> Seq(Frames)]
        /\ Tail(stack'[t]) = Tail(stack[t])
        /\ Under(stack'[t]) = {f} \cup Under(Tail(stack[t]))
        /\ \A u \in Threads \ {t} : stack'[u] = stack[u]
    BY <2>1, <2>3, TopBecomes
  <2>5. Fitting(f)
    BY <2>1, <2>2, <2>3 DEF Fitting
  <2>6. Calls'
    BY <2>1, <2>2, <2>4, <2>5 DEF Kept, Calls, Fitting
  <2>7. Entries'
    BY <2>1, <2>2 DEF Kept, Typed, Entries, Fitting
  <2> QED
    BY <2>1, <2>2, <2>4, <2>6, <2>7 DEF Kept, Typed
<1>5. ASSUME NEW t \in Threads, FillHit(t) PROVE Kept'
  <2> DEFINE f == [Top(t) EXCEPT !.next = @ + 1]
  <2>1. /\ InCall(t) /\ SetTop(t, f) /\ Top(t).next \in 1..Len(Parts[Top(t).key])
        /\ NextPart(t) \in Keys /\ LookUp(t, NextPart(t)) /\ table[NextPart(t)] # None
        /\ Give(NextPart(t), table[NextPart(t)])
        /\ filled' = [filled EXCEPT ![Top(t).ref] = @ + 1]
        /\ UNCHANGED <<table, heap>>
    BY <1>5, PartIsKey DEF FillHit, Filling, Miss
  <2>2. /\ Top(t) \in Frames /\ Fitting(Top(t)) /\ Len(Parts[Top(t).key]) \in Nat
        /\ \A g \in Under(Tail(stack[t])) : g \in Frames /\ Fitting(g) /\ Waits(g)
    BY <2>1, Innermost
  <2>3. f \in Frames /\ f.key = Top(t).key /\ f.ref = Top(t).ref /\ f.next = Top(t).next + 1
    BY <2>2 DEF Frames
  <2> HIDE DEF f
  <2>4. /\ stack' \in [Threads -> Seq(Frames)]
        /\ Tail(stack'[t]) = Tail(stack[t])
        /\ Under(stack'[t]) = {f} \cup Under(Tail(stack[t]))
        /\ \A u \in Threads \ {t} : stack'[u] = stack[u]
    BY <2>1, <2>3, TopBecomes
  <2>5. Fitting(f) /\ Top(t).ref \in 1..Len(heap)
    BY <2>1, <2>2, <2>3 DEF Fitting
  <2>6. Calls'
    BY <2>1, <2>2, <2>4, <2>5 DEF Kept, Calls, Fitting
  <2>7. filled' \in Seq(Nat) /\ Len(filled') = Len(filled)
    BY <2>1, <2>5, FilledMore
  <2>8. given' \in [Keys -> SUBSET Nat] /\ raced' \subseteq Keys
    BY <2>1, LookUpType DEF Give, Kept, Typed
  <2> QED
    BY <2>1, <2>4, <2>6, <2>7, <2>8, NoNewObject
<1>6. ASSUME NEW t \in Threads, FillMiss(t) PROVE Kept'
  <2> DEFINE f == Frame(NextPart(t))
  <2>1. /\ InCall(t) /\ Top(t).next \in 1..Len(Parts[Top(t).key])
        /\ f \in Frames /\ NextPart(t) \in Keys /\ LookUp(t, NextPart(t))
        /\ stack' = [stack EXCEPT ![t] = <<f>> \o @]
        /\ UNCHANGED <<table, heap, filled, given>>
    BY <1>6, PartIsKey DEF FillMiss, Filling
  <2>2. /\ Fitting(Top(t)) /\ Under(stack[t]) = {Top(t)} \cup Under(Tail(stack[t]))
        /\ \A g \in Under(Tail(stack[t])) : Fitting(g) /\ Waits(g)
    BY <2>1, Innermost
  <2>3. Fitting(f)
    BY <2>1, InterningAssumption DEF Fitting, Frame
  <2>4. Waits(Top(t))
    BY <2>1, <2>2 DEF Waits, Fitting
  <2> HIDE DEF f
  <2>5. /\ stack' \in [Threads -> Seq(Frames)]
        /\ Tail(stack'[t]) = stack[t]
        /\ Under(stack'[t]) = {f} \cup Under(stack[t])
        /\ \A u \in Threads \ {t} : stack'[u] = stack[u]
    BY <2>1, CallBegins
  <2>6. Calls'
    BY <2>1, <2>2, <2>3, <2>4, <2>5 DEF Kept, Calls, Fitting
  <2>7. raced' \subseteq Keys
    BY <2>1, LookUpType
  <2> QED
    BY <2>1, <2>5, <2>6, <2>7 DEF Kept, Typed, Entries
<1>7. ASSUME NEW t \in Threads, InternReturns(t) PROVE Kept'
  <2> DEFINE callers == Tail(stack[t])
             g == Head(callers)
             g2 == [g EXCEPT !.next = @ + 1]
  <2>1. /\ InCall(t) /\ Top(t).next > Len(Parts[Top(t).key])
        /\ Give(Top(t).key, Top(t).ref) /\ PopAndFill(t)
        /\ UNCHANGED <<table, heap, raced>>
    BY <1>7 DEF InternReturns, Complete
  <2>2. /\ Top(t) \in Frames /\ Fitting(Top(t)) /\ Len(Parts[Top(t).key]) \in Nat
        /\ Top(t).key \in Keys
        /\ \A f \in Under(callers) : f \in Frames /\ Fitting(f) /\ Waits(f)
    BY <2>1, Innermost
  <2>3. Top(t).ref \in Nat
    BY <2>1, <2>2 DEF Fitting, Frames
  <2>4. given' \in [Keys -> SUBSET Nat]
    BY <2>1, <2>2, <2>3 DEF Give, Kept, Typed
  <2>5. /\ stack' \in [Threads -> Seq(Frames)]
        /\ \A u \in Threads \ {t} : stack'[u] = stack[u]
        /\ callers = <<>> => stack'[t] = <<>> /\ Under(stack'[t]) = {} /\ filled' = filled
        /\ callers # <<>> =>
             /\ g \in Under(callers) /\ g \in Frames
             /\ Tail(stack'[t]) = Tail(callers)
             /\ Under(callers) = {g} \cup Under(Tail(callers))
             /\ Under(stack'[t]) = {g2} \cup Under(Tail(callers))
             /\ filled' = [filled EXCEPT ![g.ref] = @ + 1]
    BY <2>1, CallEnds
  <2> HIDE DEF callers
  <2>6. CASE callers = <<>>
    <3>1. Calls'
      BY <2>1, <2>5, <2>6 DEF Kept, Calls, Fitting
    <3> QED
      BY <2>1, <2>4, <2>5, <2>6, <3>1 DEF Kept, Typed, Entries
  <2>7. CASE callers # <<>>
    <3>1. g \in Frames /\ Fitting(g) /\ Waits(g)
      BY <2>2, <2>5, <2>7
    <3>2. g2.key = g.key /\ g2.ref = g.ref /\ g2.next = g.next + 1 /\ g.ref \in 1..Len(heap)
      BY <3>1 DEF Frames, Fitting, Waits
    <3>3. Len(Parts[g.key]) \in Nat /\ g.next \in Nat
      BY <3>1, InterningAssumption DEF Frames
    <3> HIDE DEF g, g2
    <3>4. Fitting(g2)
      BY <3>1, <3>2, <3>3 DEF Fitting, Waits
    <3>5. Calls'
      BY <2>1, <2>2, <2>5, <2>7, <3>4 DEF Kept, Calls, Fitting
    <3>6. filled' \in Seq(Nat) /\ Len(filled') = Len(filled)
      BY <2>5, <2>7, <3>2, FilledMore
    <3>7. raced' \subseteq Keys
      BY <2>1 DEF Kept, Typed
    <3> QED
      BY <2>1, <2>4, <2>5, <3>5, <3>6, <3>7, NoNewObject
  <2> QED
    BY <2>6, <2>7
<1>8. CASE UNCHANGED vars
  BY <1>8 DEF vars, Kept, Typed, Calls, Entries, Fitting
<1> QED
  BY <1>1, <1>2, <1>3, <1>4, <1>5, <1>6, <1>7, <1>8 DEF Next, Continue

\* Whatever is found under a key was built for it.
THEOREM EntriesAreAlwaysOfTheirKey == Spec => []EntriesAreOfTheirKey
<1>1. Kept => EntriesAreOfTheirKey
  BY DEF Kept, Entries, BuiltFor, EntriesAreOfTheirKey
<1> QED
  BY <1>1, KeptInit, KeptStep, PTL DEF Spec

-----------------------------------------------------------------------------
\* No call of a stack is about to replace the object of k.
Quiet(s, k) == \A f \in Under(s) : f.key = k => f.next # 0

\* A key is being raced for when some thread has yet to insert its object.
LEMMA RacingIsNotQuiet ==
  ASSUME Kept, NEW k
  PROVE  Racing(k) <=> \E t \in Threads : ~Quiet(stack[t], k)
<1>1. \A t \in Threads : DOMAIN stack[t] = 1..Len(stack[t])
  BY DEF Kept, Typed
<1> QED
  BY <1>1 DEF Racing, Quiet, Under

\* The same after the step.
LEMMA RacingIsNotQuietNext ==
  ASSUME Kept', NEW k
  PROVE  Racing(k)' <=> \E t \in Threads : ~Quiet(stack'[t], k)
<1>1. \A t \in Threads : DOMAIN stack'[t] = 1..Len(stack'[t])
  BY DEF Kept, Typed
<1> QED
  BY <1>1 DEF Racing, Quiet, Under

\* A step leaves the object of a settled key, and begins no call that misses it.
LEMMA SettledStep ==
  ASSUME Kept, [Next]_vars, NEW k \in Keys, table[k] # None,
         \A t \in Threads : Quiet(stack[t], k)
  PROVE  table'[k] = table[k] /\ \A t \in Threads : Quiet(stack'[t], k)
<1>1. ASSUME NEW t \in Threads, NEW j \in Keys, InternHit(t, j)
      PROVE  table'[k] = table[k] /\ \A u \in Threads : Quiet(stack'[u], k)
  BY <1>1 DEF InternHit
<1>2. ASSUME NEW t \in Threads, NEW j \in Keys, InternMiss(t, j)
      PROVE  table'[k] = table[k] /\ \A u \in Threads : Quiet(stack'[u], k)
  <2>1. Frame(j).key = j /\ j # k /\ table' = table /\ stack[t] = <<>>
    BY <1>2 DEF InternMiss, Miss, Frame, InCall
  <2>2. /\ Under(stack'[t]) = {Frame(j)} \cup Under(stack[t])
        /\ \A u \in Threads \ {t} : stack'[u] = stack[u]
    BY <1>2, FirstCall, CallBegins
  <2> QED
    BY <2>1, <2>2 DEF Quiet
<1>3. ASSUME NEW t \in Threads, Build(t)
      PROVE  table'[k] = table[k] /\ \A u \in Threads : Quiet(stack'[u], k)
  <2> DEFINE f == [Top(t) EXCEPT !.ref = Len(heap) + 1]
  <2>1. InCall(t) /\ SetTop(t, f) /\ table' = table
    BY <1>3 DEF Build
  <2>2. Top(t) \in Frames /\ Under(stack[t]) = {Top(t)} \cup Under(Tail(stack[t]))
    BY <2>1, Innermost
  <2>3. f \in Frames /\ f.key = Top(t).key /\ f.next = Top(t).next
    BY <1>3, <2>2, Built DEF Frames
  <2> HIDE DEF f
  <2>4. /\ Under(stack'[t]) = {f} \cup Under(Tail(stack[t]))
        /\ \A u \in Threads \ {t} : stack'[u] = stack[u]
    BY <2>1, <2>3, TopBecomes
  <2> QED
    BY <2>1, <2>2, <2>3, <2>4 DEF Quiet
<1>4. ASSUME NEW t \in Threads, Insert(t)
      PROVE  table'[k] = table[k] /\ \A u \in Threads : Quiet(stack'[u], k)
  <2> DEFINE f == [Top(t) EXCEPT !.next = 1]
  <2>1. /\ InCall(t) /\ SetTop(t, f) /\ Top(t).next = 0
        /\ table' = [table EXCEPT ![Top(t).key] = Top(t).ref]
    BY <1>4 DEF Insert
  <2>2. Top(t) \in Frames /\ Under(stack[t]) = {Top(t)} \cup Under(Tail(stack[t]))
    BY <2>1, Innermost
  <2>3. f \in Frames /\ f.key = Top(t).key /\ f.next = 1
    BY <2>2 DEF Frames
  <2> HIDE DEF f
  <2>4. /\ Under(stack'[t]) = {f} \cup Under(Tail(stack[t]))
        /\ \A u \in Threads \ {t} : stack'[u] = stack[u]
    BY <2>1, <2>3, TopBecomes
  <2>5. Top(t).key # k
    BY <2>1, <2>2 DEF Quiet
  <2>6. table'[k] = table[k]
    BY <2>1, <2>5 DEF Kept, Typed
  <2> QED
    BY <2>2, <2>3, <2>4, <2>6 DEF Quiet
<1>5. ASSUME NEW t \in Threads, FillHit(t)
      PROVE  table'[k] = table[k] /\ \A u \in Threads : Quiet(stack'[u], k)
  <2> DEFINE f == [Top(t) EXCEPT !.next = @ + 1]
  <2>1. InCall(t) /\ SetTop(t, f) /\ table' = table
    BY <1>5 DEF FillHit, Filling
  <2>2. Top(t) \in Frames /\ Under(stack[t]) = {Top(t)} \cup Under(Tail(stack[t]))
    BY <2>1, Innermost
  <2>3. f \in Frames /\ f.key = Top(t).key /\ f.next # 0
    BY <2>2 DEF Frames
  <2> HIDE DEF f
  <2>4. /\ Under(stack'[t]) = {f} \cup Under(Tail(stack[t]))
        /\ \A u \in Threads \ {t} : stack'[u] = stack[u]
    BY <2>1, <2>3, TopBecomes
  <2> QED
    BY <2>1, <2>2, <2>3, <2>4 DEF Quiet
<1>6. ASSUME NEW t \in Threads, FillMiss(t)
      PROVE  table'[k] = table[k] /\ \A u \in Threads : Quiet(stack'[u], k)
  <2> DEFINE f == Frame(NextPart(t))
  <2>1. /\ f \in Frames /\ f.key # k /\ table' = table
        /\ stack' = [stack EXCEPT ![t] = <<f>> \o @]
    BY <1>6, PartIsKey DEF FillMiss, Miss, Frame
  <2> HIDE DEF f
  <2>2. /\ Under(stack'[t]) = {f} \cup Under(stack[t])
        /\ \A u \in Threads \ {t} : stack'[u] = stack[u]
    BY <2>1, CallBegins
  <2> QED
    BY <2>1, <2>2 DEF Quiet
<1>7. ASSUME NEW t \in Threads, InternReturns(t)
      PROVE  table'[k] = table[k] /\ \A u \in Threads : Quiet(stack'[u], k)
  <2> DEFINE callers == Tail(stack[t])
             g == Head(callers)
             g2 == [g EXCEPT !.next = @ + 1]
  <2>1. InCall(t) /\ PopAndFill(t) /\ table' = table
    BY <1>7 DEF InternReturns, Complete
  <2>2. Under(callers) \subseteq Under(stack[t])
    BY <2>1, Innermost
  <2>3. /\ \A u \in Threads \ {t} : stack'[u] = stack[u]
        /\ callers = <<>> => Under(stack'[t]) = {}
        /\ callers # <<>> =>
             /\ g \in Frames
             /\ Under(callers) = {g} \cup Under(Tail(callers))
             /\ Under(stack'[t]) = {g2} \cup Under(Tail(callers))
    BY <2>1, CallEnds
  <2> HIDE DEF callers, g
  <2>4. g \in Frames => g2.next # 0
    BY DEF Frames
  <2> HIDE DEF g2
  <2> QED
    BY <2>1, <2>2, <2>3, <2>4 DEF Quiet
<1>8. CASE UNCHANGED vars
  BY <1>8 DEF vars
<1> QED
  BY <1>1, <1>2, <1>3, <1>4, <1>5, <1>6, <1>7, <1>8 DEF Next, Continue

\* An object that no call is racing for is the object of its key for good,
\* whatever the calls of other threads do.
THEOREM ObjectsSettle == Spec => SettledForGood
<1>1. ASSUME Kept, Kept', [Next]_vars
      PROVE  \A k \in Keys : table[k] # None /\ ~Racing(k) =>
               table'[k] = table[k] /\ ~Racing(k)'
  <2> SUFFICES ASSUME NEW k \in Keys, table[k] # None, ~Racing(k)
               PROVE  table'[k] = table[k] /\ ~Racing(k)'
    OBVIOUS
  <2>1. \A t \in Threads : Quiet(stack[t], k)
    BY <1>1, RacingIsNotQuiet
  <2>2. table'[k] = table[k] /\ \A t \in Threads : Quiet(stack'[t], k)
    BY <1>1, <2>1, SettledStep
  <2> QED
    BY <1>1, <2>2, RacingIsNotQuietNext
<1> QED
  BY <1>1, KeptInit, KeptStep, PTL DEF Spec, SettledForGood

-----------------------------------------------------------------------------
\* An object asks for objects of a lower rank only: the mirror of an array
\* class for that of its component, any mirror for its Module, a Module for
\* its name.
Ranked(rank) ==
  /\ rank \in [Keys -> Nat]
  /\ \A k \in Keys : \A i \in 1..Len(Parts[k]) : rank[Parts[k][i]] < rank[k]

Descending(rank, s) ==
  \A i, j \in DOMAIN s : i < j => rank[s[i].key] < rank[s[j].key]

Busy(s, k) == \E f \in Under(s) : f.key = k

\* The object of a call that no other call interferes with.
InProgress(f) ==
  /\ given[f.key] = {}
  /\ f.next = 0 => table[f.key] = None /\ (f.ref # None => filled[f.ref] = 0)
  /\ f.next # 0 => table[f.key] = f.ref /\ filled[f.ref] = f.next - 1

Settled(k) ==
  /\ table[k] = None => given[k] = {}
  /\ table[k] # None => given[k] \subseteq {table[k]} /\ filled[table[k]] = Len(Parts[k])

Sound(rank) ==
  /\ \A t \in Threads : Descending(rank, stack[t])
  /\ \A k \in Keys \ raced : \A t, u \in Threads :
       Busy(stack[t], k) /\ Busy(stack[u], k) => t = u
  /\ \A t \in Threads : \A f \in Under(stack[t]) : f.key \notin raced => InProgress(f)
  /\ \A k \in Keys \ raced : (\A t \in Threads : ~Busy(stack[t], k)) => Settled(k)

\* A call of lower rank than all others keeps ranks descending.
LEMMA DescendingPushed ==
  ASSUME NEW rank, NEW a \in Frames, NEW s \in Seq(Frames)
  PROVE  Descending(rank, <<a>> \o s) <=>
           Descending(rank, s) /\ \A f \in Under(s) : rank[a.key] < rank[f.key]
<1> DEFINE p == <<a>> \o s
<1>1. /\ DOMAIN p = 1..(Len(s) + 1) /\ p[1] = a
      /\ DOMAIN s = 1..Len(s) /\ Len(s) \in Nat
      /\ \A i \in DOMAIN s : i + 1 \in DOMAIN p /\ p[i + 1] = s[i]
  OBVIOUS
<1>2. \A i \in DOMAIN p : i = 1 \/ (i > 1 /\ i - 1 \in DOMAIN s /\ p[i] = s[i - 1])
  BY <1>1
<1> HIDE DEF p
<1>3. ASSUME Descending(rank, p) PROVE Descending(rank, s)
  <2> SUFFICES ASSUME NEW i \in DOMAIN s, NEW j \in DOMAIN s, i < j
               PROVE  rank[s[i].key] < rank[s[j].key]
    BY DEF Descending
  <2>1. i + 1 < j + 1
    BY <1>1
  <2> QED
    BY <1>1, <1>3, <2>1 DEF Descending
<1>4. ASSUME Descending(rank, p) PROVE \A f \in Under(s) : rank[a.key] < rank[f.key]
  <2> SUFFICES ASSUME NEW i \in DOMAIN s PROVE rank[a.key] < rank[s[i].key]
    BY DEF Under
  <2>1. 1 \in DOMAIN p /\ 1 < i + 1
    BY <1>1
  <2> QED
    BY <1>1, <1>4, <2>1 DEF Descending
<1>5. ASSUME Descending(rank, s), \A f \in Under(s) : rank[a.key] < rank[f.key]
      PROVE  Descending(rank, p)
  <2> SUFFICES ASSUME NEW i \in DOMAIN p, NEW j \in DOMAIN p, i < j
               PROVE  rank[p[i].key] < rank[p[j].key]
    BY DEF Descending
  <2>1. j > 1 /\ j - 1 \in DOMAIN s /\ p[j] = s[j - 1]
    BY <1>1, <1>2
  <2>2. CASE i = 1
    BY <1>1, <1>5, <2>1, <2>2 DEF Under
  <2>3. CASE i # 1
    <3>1. i - 1 \in DOMAIN s /\ p[i] = s[i - 1] /\ i - 1 < j - 1
      BY <1>1, <1>2, <2>3
    <3> QED
      BY <1>5, <2>1, <3>1 DEF Descending
  <2> QED
    BY <2>2, <2>3
<1> QED
  BY <1>3, <1>4, <1>5 DEF p

\* Ranks descend below the innermost call, and it is the lowest.
LEMMA DescendingPeeled ==
  ASSUME NEW rank, NEW s \in Seq(Frames), s # <<>>, Descending(rank, s)
  PROVE  /\ Descending(rank, Tail(s))
         /\ \A f \in Under(Tail(s)) : rank[Head(s).key] < rank[f.key]
<1>1. Head(s) \in Frames /\ Tail(s) \in Seq(Frames) /\ s = <<Head(s)>> \o Tail(s)
  OBVIOUS
<1> QED
  BY <1>1, DescendingPushed

\* Ranks depend on the keys alone: progress of a call does not change them.
LEMMA DescendingRekeyed ==
  ASSUME NEW rank, NEW s \in Seq(Frames), NEW p \in Seq(Frames), s # <<>>, p # <<>>,
         Head(p).key = Head(s).key, Tail(p) = Tail(s), Descending(rank, s)
  PROVE  Descending(rank, p)
<1>1. /\ Head(p) \in Frames /\ Tail(p) \in Seq(Frames) /\ p = <<Head(p)>> \o Tail(p)
  OBVIOUS
<1>2. /\ Descending(rank, Tail(p))
      /\ \A f \in Under(Tail(p)) : rank[Head(p).key] < rank[f.key]
  BY DescendingPeeled
<1> QED
  BY <1>1, <1>2, DescendingPushed

\* No other call of the thread is for the key of its innermost one.
LEMMA OwnKey ==
  ASSUME Kept, NEW rank, Ranked(rank), Sound(rank), NEW t \in Threads, InCall(t)
  PROVE  /\ Descending(rank, Tail(stack[t])) /\ Descending(rank, stack[t])
         /\ \A f \in Under(Tail(stack[t])) :
              f.key # Top(t).key /\ rank[Top(t).key] < rank[f.key]
<1>1. stack[t] \in Seq(Frames) /\ stack[t] # <<>> /\ Descending(rank, stack[t])
  BY Innermost DEF Sound
<1>2. /\ Descending(rank, Tail(stack[t]))
      /\ \A f \in Under(Tail(stack[t])) : rank[Top(t).key] < rank[f.key]
  BY <1>1, DescendingPeeled DEF Top
<1>3. rank[Top(t).key] \in Nat
  BY Innermost DEF Ranked
<1> QED
  BY <1>1, <1>2, <1>3

\* A part of the object being filled ranks below every call of the thread.
LEMMA PartIsNew ==
  ASSUME Kept, NEW rank, Ranked(rank), Sound(rank), NEW t \in Threads, Filling(t)
  PROVE  /\ NextPart(t) # Top(t).key
         /\ \A f \in Under(stack[t]) : rank[NextPart(t)] < rank[f.key]
         /\ ~Busy(stack[t], NextPart(t))
<1>1. InCall(t) /\ Top(t).key \in Keys /\ NextPart(t) \in Keys
  BY Innermost, PartIsKey DEF Filling
<1>2. rank[NextPart(t)] < rank[Top(t).key]
  BY <1>1 DEF Ranked, Filling, NextPart
<1>3. ASSUME NEW f \in Under(stack[t]) PROVE rank[NextPart(t)] < rank[f.key]
  <2>1. f = Top(t) \/ (f \in Frames /\ rank[Top(t).key] < rank[f.key])
    BY <1>1, <1>3, Innermost, OwnKey
  <2>2. CASE f = Top(t)
    BY <1>2, <2>2
  <2>3. CASE f \in Frames /\ rank[Top(t).key] < rank[f.key]
    <3>1. /\ rank[NextPart(t)] \in Nat /\ rank[Top(t).key] \in Nat /\ rank[f.key] \in Nat
      BY <1>1, <2>3 DEF Ranked, Frames
    <3> QED
      BY <1>2, <2>3, <3>1
  <2> QED
    BY <2>1, <2>2, <2>3
<1>4. rank[NextPart(t)] \in Nat
  BY <1>1 DEF Ranked
<1>5. \A f \in Under(stack[t]) : f.key # NextPart(t)
  BY <1>3, <1>4
<1> QED
  BY <1>1, <1>2, <1>3, <1>4, <1>5 DEF Busy

\* Who looks up a key another thread is busy with has raced for it.
LEMMA LookedUp ==
  ASSUME Kept, NEW t \in Threads, NEW k, LookUp(t, k)
  PROVE  /\ raced \subseteq raced'
         /\ k \notin raced' => \A u \in Threads \ {t} : ~Busy(stack[u], k)
<1>1. \A u \in Threads : DOMAIN stack[u] = 1..Len(stack[u])
  BY DEF Kept, Typed
<1> QED
  BY <1>1 DEF LookUp, Busy, Under

\* A key no other call interferes with is in the calls of one thread.
LEMMA Exclusive ==
  ASSUME Kept, NEW rank, Sound(rank), NEW t \in Threads,
         NEW f \in Under(stack[t]), f.key \in Keys \ raced
  PROVE  InProgress(f) /\ \A u \in Threads \ {t} : ~Busy(stack[u], f.key)
BY DEF Sound, Busy

\* A step does nothing to the object of k.
Untouched(k) ==
  /\ table'[k] = table[k]
  /\ given'[k] = given[k]
  /\ \A r \in 1..Len(heap) : heap[r] = k => filled'[r] = filled[r]

\* A call is as far as it was when the step touches nothing of its key.
LEMMA UntouchedCall ==
  ASSUME NEW f \in Frames, Fitting(f), Untouched(f.key), InProgress(f)
  PROVE  InProgress(f)'
BY DEF Fitting, BuiltFor, Untouched, InProgress

\* A settled key stays settled when the step touches nothing of it.
LEMMA UntouchedKey ==
  ASSUME Kept, NEW k \in Keys, Untouched(k), Settled(k)
  PROVE  Settled(k)'
BY DEF Kept, Entries, BuiltFor, Untouched, Settled

\* A step of t that touches the objects of the keys J only.
LEMMA SoundAfter ==
  ASSUME Kept, NEW rank, Sound(rank), NEW t \in Threads, NEW J,
         \A u \in Threads \ {t} : stack'[u] = stack[u],
         raced \subseteq raced',
         \A k \in Keys \ J : Untouched(k),
         Descending(rank, stack'[t]),
         \A k \in Keys \ J : Busy(stack'[t], k) <=> Busy(stack[t], k),
         \A k \in J \ raced' : \A u \in Threads \ {t} : ~Busy(stack[u], k),
         \A f \in Under(stack'[t]) : f.key \notin J => f \in Under(stack[t]),
         \A f \in Under(stack'[t]) : f.key \in J \ raced' => InProgress(f)',
         \A k \in J \ raced' : ~Busy(stack'[t], k) => Settled(k)'
  PROVE  Sound(rank)'
<1>1. \A u \in Threads : Descending(rank, stack'[u])
  BY DEF Sound
<1>2. ASSUME NEW k \in Keys \ raced', NEW u \in Threads, NEW w \in Threads,
             Busy(stack'[u], k), Busy(stack'[w], k)
      PROVE  u = w
  <2>1. CASE k \in J
    BY <1>2, <2>1
  <2>2. CASE k \notin J
    BY <1>2, <2>2 DEF Sound
  <2> QED
    BY <2>1, <2>2
<1>3. ASSUME NEW u \in Threads, NEW f \in Under(stack'[u]), f.key \notin raced'
      PROVE  InProgress(f)'
  <2>1. CASE f.key \in J
    BY <1>3, <2>1 DEF Busy
  <2>2. CASE f.key \notin J
    <3>1. f \in Under(stack[u])
      BY <1>3, <2>2
    <3>2. f \in Frames /\ Fitting(f) /\ InProgress(f)
      BY <1>3, <3>1 DEF Kept, Typed, Calls, Under, Sound
    <3>3. Untouched(f.key)
      BY <2>2, <3>2 DEF Frames
    <3> QED
      BY <3>2, <3>3, UntouchedCall
  <2> QED
    BY <2>1, <2>2
<1>4. ASSUME NEW k \in Keys \ raced', \A u \in Threads : ~Busy(stack'[u], k)
      PROVE  Settled(k)'
  <2>1. CASE k \in J
    BY <1>4, <2>1
  <2>2. CASE k \notin J
    <3>1. \A u \in Threads : ~Busy(stack[u], k)
      BY <1>4, <2>2
    <3>2. Settled(k)
      BY <3>1 DEF Sound
    <3> QED
      BY <2>2, <3>2, UntouchedKey
  <2> QED
    BY <2>1, <2>2
<1> QED
  BY <1>1, <1>2, <1>3, <1>4 DEF Sound

\* A step of t that touches the object of one key only, the key of f, which is
\* its innermost call afterwards.
LEMMA SoundAfterCall ==
  ASSUME Kept, NEW rank, Sound(rank), NEW t \in Threads, NEW f,
         \A u \in Threads \ {t} : stack'[u] = stack[u],
         raced \subseteq raced',
         \A k \in Keys \ {f.key} : Untouched(k),
         Descending(rank, stack'[t]),
         \A k : k # f.key => (Busy(stack'[t], k) <=> Busy(stack[t], k)),
         Busy(stack'[t], f.key),
         \A g \in Under(stack'[t]) : g = f \/ (g.key # f.key /\ g \in Under(stack[t])),
         f.key \notin raced' =>
           InProgress(f)' /\ \A u \in Threads \ {t} : ~Busy(stack[u], f.key)
  PROVE  Sound(rank)'
<1> DEFINE J == {f.key}
<1>1. \A k \in Keys \ J : Untouched(k) /\ (Busy(stack'[t], k) <=> Busy(stack[t], k))
  OBVIOUS
<1>2. \A k \in J \ raced' : \A u \in Threads \ {t} : ~Busy(stack[u], k)
  OBVIOUS
<1>3. \A g \in Under(stack'[t]) : g.key \notin J => g \in Under(stack[t])
  OBVIOUS
<1>4. \A g \in Under(stack'[t]) : g.key \in J \ raced' => InProgress(g)'
  <2>1. \A g \in Under(stack'[t]) : g.key \in J \ raced' => g = f /\ f.key \notin raced'
    OBVIOUS
  <2> QED
    BY <2>1
<1>5. \A k \in J \ raced' : ~Busy(stack'[t], k) => Settled(k)'
  OBVIOUS
<1> HIDE DEF J
<1> QED
  BY <1>1, <1>2, <1>3, <1>4, <1>5, SoundAfter

\* A step that changes how far the innermost call of t is.
LEMMA TopRefreshed ==
  ASSUME Kept, NEW rank, Ranked(rank), Sound(rank), NEW t \in Threads, InCall(t),
         NEW f \in Frames, f.key = Top(t).key, SetTop(t, f)
  PROVE  /\ \A u \in Threads \ {t} : stack'[u] = stack[u]
         /\ Descending(rank, stack'[t])
         /\ \A k : Busy(stack'[t], k) <=> Busy(stack[t], k)
         /\ Busy(stack'[t], f.key)
         /\ \A g \in Under(stack'[t]) : g = f \/ (g.key # f.key /\ g \in Under(stack[t]))
<1>1. /\ stack'[t] \in Seq(Frames) /\ stack'[t] # <<>>
      /\ Head(stack'[t]) = f /\ Tail(stack'[t]) = Tail(stack[t])
      /\ Under(stack'[t]) = {f} \cup Under(Tail(stack[t]))
      /\ \A u \in Threads \ {t} : stack'[u] = stack[u]
  BY TopBecomes
<1>2. /\ stack[t] \in Seq(Frames) /\ stack[t] # <<>>
      /\ Under(stack[t]) = {Top(t)} \cup Under(Tail(stack[t]))
  BY Innermost
<1>3. /\ Descending(rank, stack[t])
      /\ \A g \in Under(Tail(stack[t])) : g.key # Top(t).key
  BY OwnKey
<1>4. Descending(rank, stack'[t])
  BY <1>1, <1>2, <1>3, DescendingRekeyed DEF Top
<1> QED
  BY <1>1, <1>2, <1>3, <1>4 DEF Busy

Lower(rank, f, s) == \A g \in Under(s) : g.key # f.key /\ rank[f.key] < rank[g.key]

\* A step that begins a call below which there are the others.
LEMMA CallBegun ==
  ASSUME Kept, NEW rank, Sound(rank), NEW t \in Threads, NEW f \in Frames,
         stack' = [stack EXCEPT ![t] = <<f>> \o @],
         Lower(rank, f, stack[t])
  PROVE  /\ \A u \in Threads \ {t} : stack'[u] = stack[u]
         /\ Descending(rank, stack'[t])
         /\ \A k : k # f.key => (Busy(stack'[t], k) <=> Busy(stack[t], k))
         /\ Busy(stack'[t], f.key)
         /\ \A g \in Under(stack'[t]) : g = f \/ (g.key # f.key /\ g \in Under(stack[t]))
<1>1. /\ Under(stack'[t]) = {f} \cup Under(stack[t])
      /\ \A u \in Threads \ {t} : stack'[u] = stack[u]
  BY CallBegins
<1>2. stack'[t] = <<f>> \o stack[t] /\ stack[t] \in Seq(Frames)
  BY DEF Kept, Typed
<1>3. Descending(rank, stack'[t])
  BY <1>2, DescendingPushed DEF Sound, Lower
<1> QED
  BY <1>1, <1>3 DEF Busy, Lower

\* The objects other than those of the heap that a step fills.
LEMMA OthersUntouched ==
  ASSUME Kept, NEW k \in Keys, NEW r \in 1..Len(heap), heap[r] # k,
         table'[k] = table[k], given'[k] = given[k],
         filled' = [filled EXCEPT ![r] = @ + 1]
  PROVE  Untouched(k)
<1>1. \A q \in 1..Len(heap) \ {r} : filled'[q] = filled[q]
  BY FilledMore
<1> QED
  BY <1>1 DEF Untouched

\* Initially no call is under way.
LEMMA SoundInit == ASSUME NEW rank, Init PROVE Sound(rank)
<1>1. \A t \in Threads : Descending(rank, stack[t]) /\ Under(stack[t]) = {}
  BY UnderNone DEF Init, Descending
<1> QED
  BY <1>1 DEF Init, Sound, Busy, Settled

\* A lookup that finds the entry keeps Sound.
LEMMA SoundHit ==
  ASSUME Kept, NEW rank, Sound(rank),
         NEW t \in Threads, NEW j \in Keys, InternHit(t, j)
  PROVE  Sound(rank)'
<1>1. /\ stack' = stack /\ table' = table /\ filled' = filled /\ stack[t] = <<>>
      /\ given' = [given EXCEPT ![j] = @ \cup {table[j]}] /\ table[j] # None
  BY DEF InternHit, Give, Miss, InCall
<1>2. /\ raced \subseteq raced'
      /\ j \notin raced' => \A u \in Threads \ {t} : ~Busy(stack[u], j)
  BY LookedUp DEF InternHit
<1>3. Under(stack[t]) = {} /\ Descending(rank, stack[t])
  BY <1>1, UnderNone DEF Sound
<1>4. \A k \in Keys \ {j} : Untouched(k)
  BY <1>1 DEF Untouched, Kept, Typed
<1>5. ASSUME j \notin raced' PROVE Settled(j)'
  <2>1. Settled(j)
    BY <1>2, <1>3, <1>5 DEF Sound, Busy
  <2> QED
    BY <1>1, <2>1 DEF Settled, Kept, Typed
<1> QED
  BY <1>1, <1>2, <1>3, <1>4, <1>5, SoundAfter

\* A lookup that misses begins a call for its key.
LEMMA SoundMiss ==
  ASSUME Kept, NEW rank, Sound(rank),
         NEW t \in Threads, NEW j \in Keys, InternMiss(t, j)
  PROVE  Sound(rank)'
<1>1. UNCHANGED <<table, given, filled>> /\ stack[t] = <<>> /\ table[j] = None
  BY DEF InternMiss, Miss, InCall
<1>2. /\ raced \subseteq raced'
      /\ j \notin raced' => \A u \in Threads \ {t} : ~Busy(stack[u], j)
  BY LookedUp DEF InternMiss
<1>3. Under(stack[t]) = {}
  BY <1>1, UnderNone
<1>4. PICK f \in Frames :
        /\ f.key = j /\ f.ref = None /\ f.next = 0
        /\ stack' = [stack EXCEPT ![t] = <<f>> \o @]
  BY FirstCall DEF Frame
<1>5. /\ \A u \in Threads \ {t} : stack'[u] = stack[u]
      /\ Descending(rank, stack'[t])
      /\ \A k : k # f.key => (Busy(stack'[t], k) <=> Busy(stack[t], k))
      /\ Busy(stack'[t], f.key)
      /\ \A g \in Under(stack'[t]) : g = f \/ (g.key # f.key /\ g \in Under(stack[t]))
  BY <1>3, <1>4, CallBegun DEF Lower
<1>6. \A k \in Keys : Untouched(k)
  BY <1>1 DEF Untouched
<1>7. ASSUME j \notin raced' PROVE InProgress(f)'
  <2>1. Settled(j)
    BY <1>2, <1>3, <1>7 DEF Sound, Busy
  <2> QED
    BY <1>1, <1>4, <2>1 DEF Settled, InProgress
<1> QED
  BY <1>2, <1>4, <1>5, <1>6, <1>7, SoundAfterCall

\* The object a call builds is nobody else's.
LEMMA SoundBuild ==
  ASSUME Kept, NEW rank, Ranked(rank), Sound(rank), NEW t \in Threads, Build(t)
  PROVE  Sound(rank)'
<1>1. /\ InCall(t) /\ Top(t).ref = None /\ UNCHANGED <<table, given, raced>>
      /\ SetTop(t, [Top(t) EXCEPT !.ref = Len(heap) + 1])
  BY DEF Build
<1>2. Top(t) \in Frames /\ Top(t) \in Under(stack[t]) /\ Fitting(Top(t))
  BY <1>1, Innermost
<1>3. PICK f \in Frames :
        /\ f.key = Top(t).key /\ f.ref = Len(heap) + 1 /\ f.next = 0
        /\ SetTop(t, f)
  <2>1. Len(heap) + 1 \in Nat
    BY Built
  <2> QED
    BY <1>1, <1>2, <2>1 DEF Frames, Fitting
<1>4. /\ \A u \in Threads \ {t} : stack'[u] = stack[u]
      /\ Descending(rank, stack'[t])
      /\ \A k : Busy(stack'[t], k) <=> Busy(stack[t], k)
      /\ Busy(stack'[t], f.key)
      /\ \A g \in Under(stack'[t]) : g = f \/ (g.key # f.key /\ g \in Under(stack[t]))
  BY <1>1, <1>3, TopRefreshed
<1>5. \A k \in Keys : Untouched(k)
  BY <1>1, Built DEF Untouched
<1>6. ASSUME f.key \notin raced'
      PROVE  InProgress(f)' /\ \A u \in Threads \ {t} : ~Busy(stack[u], f.key)
  <2>1. InProgress(Top(t)) /\ \A u \in Threads \ {t} : ~Busy(stack[u], f.key)
    BY <1>1, <1>2, <1>3, <1>6, Exclusive DEF Frames
  <2>2. given[f.key] = {} /\ table[f.key] = None
    BY <1>1, <1>2, <1>3, <2>1 DEF InProgress, Fitting
  <2>3. filled'[f.ref] = 0
    BY <1>3, Built
  <2> QED
    BY <1>1, <1>3, <2>1, <2>2, <2>3 DEF InProgress
<1>7. raced \subseteq raced'
  BY <1>1
<1> QED
  BY <1>4, <1>5, <1>6, <1>7, SoundAfterCall

\* A key inserted twice was raced for; any other insert settles its own object.
LEMMA SoundInsert ==
  ASSUME Kept, NEW rank, Ranked(rank), Sound(rank), NEW t \in Threads, Insert(t)
  PROVE  Sound(rank)'
<1>1. /\ InCall(t) /\ Top(t).ref # None /\ Top(t).next = 0
      /\ UNCHANGED <<heap, filled, given, raced>>
      /\ table' = [table EXCEPT ![Top(t).key] = Top(t).ref]
      /\ SetTop(t, [Top(t) EXCEPT !.next = 1])
  BY DEF Insert
<1>2. Top(t) \in Frames /\ Top(t) \in Under(stack[t]) /\ Top(t).key \in Keys
  BY <1>1, Innermost
<1>3. PICK f \in Frames :
        /\ f.key = Top(t).key /\ f.ref = Top(t).ref /\ f.next = 1
        /\ SetTop(t, f)
  BY <1>1, <1>2 DEF Frames
<1>4. /\ \A u \in Threads \ {t} : stack'[u] = stack[u]
      /\ Descending(rank, stack'[t])
      /\ \A k : Busy(stack'[t], k) <=> Busy(stack[t], k)
      /\ Busy(stack'[t], f.key)
      /\ \A g \in Under(stack'[t]) : g = f \/ (g.key # f.key /\ g \in Under(stack[t]))
  BY <1>1, <1>3, TopRefreshed
<1>5. \A k \in Keys \ {f.key} : Untouched(k)
  BY <1>1, <1>3 DEF Untouched, Kept, Typed
<1>6. ASSUME f.key \notin raced'
      PROVE  InProgress(f)' /\ \A u \in Threads \ {t} : ~Busy(stack[u], f.key)
  <2>1. InProgress(Top(t)) /\ \A u \in Threads \ {t} : ~Busy(stack[u], f.key)
    BY <1>1, <1>2, <1>3, <1>6, Exclusive
  <2>2. given[f.key] = {} /\ filled[f.ref] = 0
    BY <1>1, <1>2, <1>3, <2>1 DEF InProgress
  <2>3. table'[f.key] = f.ref
    BY <1>1, <1>2, <1>3 DEF Kept, Typed
  <2> QED
    BY <1>1, <1>3, <2>1, <2>2, <2>3 DEF InProgress
<1>7. raced \subseteq raced'
  BY <1>1
<1> QED
  BY <1>4, <1>5, <1>6, <1>7, SoundAfterCall

\* A part that is found is filled in the object of the innermost call.
LEMMA SoundFillHit ==
  ASSUME Kept, NEW rank, Ranked(rank), Sound(rank), NEW t \in Threads, FillHit(t)
  PROVE  Sound(rank)'
<1>0. PICK p : p = NextPart(t)
  OBVIOUS
<1>1. /\ InCall(t) /\ Filling(t) /\ Top(t).next \in 1..Len(Parts[Top(t).key])
      /\ LookUp(t, p) /\ table[p] # None /\ table' = table /\ heap' = heap
      /\ given' = [given EXCEPT ![p] = @ \cup {table[p]}]
      /\ filled' = [filled EXCEPT ![Top(t).ref] = @ + 1]
      /\ SetTop(t, [Top(t) EXCEPT !.next = @ + 1])
  BY <1>0 DEF FillHit, Filling, Miss, Give
<1>2. /\ Top(t) \in Frames /\ Top(t) \in Under(stack[t]) /\ Top(t).key \in Keys
      /\ Fitting(Top(t)) /\ Top(t).next \in Nat \ {0}
  BY <1>1, Innermost
<1>3. PICK f \in Frames :
        /\ f.key = Top(t).key /\ f.ref = Top(t).ref /\ f.next = Top(t).next + 1
        /\ SetTop(t, f)
  BY <1>1, <1>2 DEF Frames
<1>4. /\ \A u \in Threads \ {t} : stack'[u] = stack[u]
      /\ Descending(rank, stack'[t])
      /\ \A k : Busy(stack'[t], k) <=> Busy(stack[t], k)
      /\ Busy(stack'[t], f.key)
      /\ \A g \in Under(stack'[t]) : g = f \/ (g.key # f.key /\ g \in Under(stack[t]))
  BY <1>1, <1>3, TopRefreshed
<1>5. /\ raced \subseteq raced'
      /\ p \notin raced' => \A u \in Threads \ {t} : ~Busy(stack[u], p)
  BY <1>1, LookedUp
<1>6. p \in Keys /\ p # f.key /\ ~Busy(stack[t], p) /\ ~Busy(stack'[t], p)
  BY <1>0, <1>1, <1>3, <1>4, PartIsKey, PartIsNew
<1>7. f.ref \in 1..Len(heap) /\ heap[f.ref] = f.key /\ f.ref # None
  BY <1>1, <1>2, <1>3 DEF Fitting, BuiltFor
<1>8. /\ filled'[f.ref] = filled[f.ref] + 1 /\ filled[f.ref] \in Nat
      /\ \A q \in 1..Len(heap) \ {f.ref} : filled'[q] = filled[q]
  BY <1>1, <1>3, <1>7, FilledMore DEF Kept, Typed
<1> DEFINE J == {f.key, p}
<1>9. \A k \in Keys \ {p} : given'[k] = given[k]
  BY <1>1 DEF Kept, Typed
<1>10. \A k \in Keys \ J : Untouched(k)
  BY <1>1, <1>3, <1>7, <1>8, <1>9 DEF Untouched
<1>11. ASSUME f.key \notin raced'
       PROVE  InProgress(f)' /\ \A u \in Threads \ {t} : ~Busy(stack[u], f.key)
  <2>1. InProgress(Top(t)) /\ \A u \in Threads \ {t} : ~Busy(stack[u], f.key)
    BY <1>2, <1>3, <1>5, <1>11, Exclusive
  <2>2. given[f.key] = {} /\ table[f.key] = f.ref /\ filled[f.ref] = Top(t).next - 1
    BY <1>2, <1>3, <2>1 DEF InProgress
  <2>3. given'[f.key] = {} /\ table'[f.key] = f.ref
    BY <1>1, <1>3, <1>6, <1>9, <2>2 DEF Frames
  <2>4. filled'[f.ref] = f.next - 1 /\ f.next # 0
    BY <1>2, <1>3, <1>8, <2>2
  <2> QED
    BY <2>1, <2>3, <2>4 DEF InProgress
<1>12. ASSUME p \notin raced' PROVE Settled(p)'
  <2>1. Settled(p)
    <3>1. p \notin raced
      BY <1>5, <1>12
    <3> QED
      BY <1>5, <1>6, <1>12, <3>1 DEF Sound
  <2>2. given'[p] \subseteq {table[p]}
    BY <1>1, <1>6, <2>1 DEF Settled, Kept, Typed
  <2>3. filled'[table[p]] = filled[table[p]]
    BY <1>1, <1>6, <1>7, <1>8 DEF Kept, Entries, BuiltFor
  <2> QED
    BY <1>1, <2>1, <2>2, <2>3 DEF Settled
<1>13. \A k \in J \ raced' : \A u \in Threads \ {t} : ~Busy(stack[u], k)
  BY <1>3, <1>5, <1>11
<1>14. \A g \in Under(stack'[t]) : g.key \notin J => g \in Under(stack[t])
  BY <1>3, <1>4
<1>15. \A g \in Under(stack'[t]) : g.key \in J \ raced' => InProgress(g)'
  <2>1. \A g \in Under(stack'[t]) : g.key \in J \ raced' => g = f /\ f.key \notin raced'
    BY <1>3, <1>4, <1>6 DEF Busy
  <2> QED
    BY <1>11, <2>1
<1>16. \A k \in J \ raced' : ~Busy(stack'[t], k) => Settled(k)'
  <2>1. ASSUME NEW k \in J \ raced', ~Busy(stack'[t], k) PROVE k = p /\ p \notin raced'
    BY <1>3, <1>4, <2>1
  <2> QED
    BY <1>12, <2>1
<1> HIDE DEF J
<1> QED
  BY <1>4, <1>5, <1>10, <1>13, <1>14, <1>15, <1>16, SoundAfter

\* A part that is missing is a call of lower rank.
LEMMA SoundFillMiss ==
  ASSUME Kept, NEW rank, Ranked(rank), Sound(rank), NEW t \in Threads, FillMiss(t)
  PROVE  Sound(rank)'
<1>0. PICK p : p = NextPart(t)
  OBVIOUS
<1>1. /\ InCall(t) /\ Filling(t) /\ LookUp(t, p) /\ table[p] = None
      /\ UNCHANGED <<table, heap, filled, given>>
      /\ stack' = [stack EXCEPT ![t] = <<Frame(p)>> \o @]
  BY <1>0 DEF FillMiss, Filling, Miss
<1>2. p \in Keys /\ Frame(p) \in Frames /\ ~Busy(stack[t], p)
      /\ \A f \in Under(stack[t]) : rank[p] < rank[f.key]
  BY <1>0, <1>1, PartIsKey, PartIsNew
<1>3. /\ raced \subseteq raced'
      /\ p \notin raced' => \A u \in Threads \ {t} : ~Busy(stack[u], p)
  BY <1>1, LookedUp
<1>4. PICK f \in Frames :
        /\ f.key = p /\ f.ref = None /\ f.next = 0
        /\ stack' = [stack EXCEPT ![t] = <<f>> \o @]
  BY <1>1, <1>2 DEF Frame
<1>5. /\ \A u \in Threads \ {t} : stack'[u] = stack[u]
      /\ Descending(rank, stack'[t])
      /\ \A k : k # f.key => (Busy(stack'[t], k) <=> Busy(stack[t], k))
      /\ Busy(stack'[t], f.key)
      /\ \A g \in Under(stack'[t]) : g = f \/ (g.key # f.key /\ g \in Under(stack[t]))
  <2>1. Lower(rank, f, stack[t])
    BY <1>2, <1>4 DEF Busy, Lower
  <2>2. f \in Frames /\ stack' = [stack EXCEPT ![t] = <<f>> \o @]
    BY <1>4
  <2> QED
    BY <2>1, <2>2, CallBegun
<1>6. \A k \in Keys : Untouched(k)
  BY <1>1 DEF Untouched
<1>7. ASSUME p \notin raced' PROVE InProgress(f)'
  <2>1. Settled(p)
    <3>1. p \notin raced
      BY <1>3, <1>7
    <3> QED
      BY <1>2, <1>3, <1>7, <3>1 DEF Sound
  <2> QED
    BY <1>1, <1>4, <2>1 DEF Settled, InProgress
<1> QED
  BY <1>3, <1>4, <1>5, <1>6, <1>7, SoundAfterCall

\* The call that ends leaves its key settled.
LEMMA ReturnSettles ==
  ASSUME Kept, NEW rank, Sound(rank), NEW t \in Threads, InternReturns(t),
         Top(t).key \notin raced,
         filled'[Top(t).ref] = filled[Top(t).ref]
  PROVE  \A k : k = Top(t).key =>
           Settled(k)' /\ \A u \in Threads \ {t} : ~Busy(stack[u], k)
<1>1. /\ InCall(t) /\ Top(t).next > Len(Parts[Top(t).key]) /\ table' = table
      /\ given' = [given EXCEPT ![Top(t).key] = @ \cup {Top(t).ref}]
  BY DEF InternReturns, Complete, Give
<1>2. /\ Top(t).key \in Keys /\ Top(t) \in Under(stack[t]) /\ Fitting(Top(t))
      /\ Top(t).next \in Nat /\ Len(Parts[Top(t).key]) \in Nat
  BY <1>1, Innermost
<1>3. InProgress(Top(t)) /\ \A u \in Threads \ {t} : ~Busy(stack[u], Top(t).key)
  BY <1>2, Exclusive
<1>4. Top(t).next # 0 /\ Top(t).next - 1 = Len(Parts[Top(t).key]) /\ Top(t).ref # None
  BY <1>1, <1>2 DEF Fitting
<1>5. /\ given[Top(t).key] = {} /\ table[Top(t).key] = Top(t).ref
      /\ filled[Top(t).ref] = Len(Parts[Top(t).key])
  BY <1>3, <1>4 DEF InProgress
<1>6. given'[Top(t).key] = {Top(t).ref}
  BY <1>1, <1>2, <1>5 DEF Kept, Typed
<1> QED
  BY <1>1, <1>3, <1>4, <1>5, <1>6 DEF Settled

\* An outermost call that returns leaves a complete object.
LEMMA SoundReturnsToNone ==
  ASSUME Kept, NEW rank, Ranked(rank), Sound(rank), NEW t \in Threads,
         InternReturns(t), Tail(stack[t]) = <<>>
  PROVE  Sound(rank)'
<1>0. PICK j : j = Top(t).key
  OBVIOUS
<1> DEFINE J == {j}
<1>1. /\ InCall(t) /\ PopAndFill(t) /\ UNCHANGED <<table, raced>>
      /\ given' = [given EXCEPT ![j] = @ \cup {Top(t).ref}]
  BY <1>0 DEF InternReturns, Complete, Give
<1>2. /\ stack'[t] = <<>> /\ Under(stack'[t]) = {} /\ filled' = filled
      /\ \A u \in Threads \ {t} : stack'[u] = stack[u]
  BY <1>1, CallEnds
<1>3. \A f \in Under(stack[t]) : f.key = j
  BY <1>0, <1>1, Innermost, UnderNone
<1>4. \A k \in Keys \ J : Untouched(k)
  BY <1>1, <1>2 DEF Untouched, Kept, Typed
<1>5. \A k \in Keys \ J : Busy(stack'[t], k) <=> Busy(stack[t], k)
  BY <1>2, <1>3 DEF Busy
<1>6. \A k \in J \ raced' : Settled(k)' /\ \A u \in Threads \ {t} : ~Busy(stack[u], k)
  <2>1. filled'[Top(t).ref] = filled[Top(t).ref] /\ raced' = raced
    BY <1>1, <1>2
  <2>2. ASSUME j \notin raced
        PROVE  Settled(j)' /\ \A u \in Threads \ {t} : ~Busy(stack[u], j)
    BY <1>0, <2>1, <2>2, ReturnSettles
  <2>3. \A k \in J \ raced' : k = j /\ j \notin raced
    BY <2>1
  <2> QED
    BY <2>2, <2>3
<1>7. Descending(rank, stack'[t])
  BY <1>2 DEF Descending
<1>8. raced \subseteq raced'
  BY <1>1
<1> HIDE DEF J
<1> QED
  BY <1>2, <1>4, <1>5, <1>6, <1>7, <1>8, SoundAfter

\* An inner call that returns leaves a complete object, and a part filled in the one below.
LEMMA SoundReturnsToCall ==
  ASSUME Kept, NEW rank, Ranked(rank), Sound(rank), NEW t \in Threads,
         InternReturns(t), Tail(stack[t]) # <<>>
  PROVE  Sound(rank)'
<1>1. /\ InCall(t) /\ PopAndFill(t) /\ UNCHANGED <<table, heap, raced>>
      /\ given' = [given EXCEPT ![Top(t).key] = @ \cup {Top(t).ref}]
  BY DEF InternReturns, Complete, Give
<1>2. /\ Top(t).key \in Keys /\ Fitting(Top(t)) /\ Top(t).next \in Nat
      /\ Tail(stack[t]) \in Seq(Frames)
      /\ Under(stack[t]) = {Top(t)} \cup Under(Tail(stack[t]))
      /\ \A f \in Under(Tail(stack[t])) : f \in Frames /\ Fitting(f) /\ Waits(f)
      /\ Len(Parts[Top(t).key]) \in Nat
  BY <1>1, Innermost
<1>3. PICK j, r : j = Top(t).key /\ r = Top(t).ref
  OBVIOUS
<1>4. PICK g, h : g = Head(Tail(stack[t])) /\ h = [g EXCEPT !.next = @ + 1]
  OBVIOUS
<1>5. /\ \A u \in Threads \ {t} : stack'[u] = stack[u]
      /\ g \in Under(Tail(stack[t])) /\ g \in Frames /\ h \in Frames
      /\ stack'[t] # <<>> /\ Head(stack'[t]) = h
      /\ Tail(stack'[t]) = Tail(Tail(stack[t]))
      /\ Under(Tail(stack[t])) = {g} \cup Under(Tail(Tail(stack[t])))
      /\ Under(stack'[t]) = {h} \cup Under(Tail(Tail(stack[t])))
      /\ filled' = [filled EXCEPT ![g.ref] = @ + 1]
      /\ stack' \in [Threads -> Seq(Frames)]
  BY <1>1, <1>4, CallEnds
<1>6. h.key = g.key /\ h.ref = g.ref /\ h.next = g.next + 1 /\ g.next \in Nat /\ g.key \in Keys
  BY <1>4, <1>5 DEF Frames
<1>7. /\ Fitting(g) /\ Waits(g) /\ g \in Under(stack[t])
      /\ g.ref \in 1..Len(heap) /\ heap[g.ref] = g.key /\ g.next # 0
  BY <1>2, <1>5, <1>6 DEF Fitting, Waits, BuiltFor
<1>8. /\ filled'[g.ref] = filled[g.ref] + 1 /\ filled[g.ref] \in Nat
      /\ \A q \in 1..Len(heap) \ {g.ref} : filled'[q] = filled[q]
  BY <1>5, <1>7, FilledMore DEF Kept, Typed
<1>9. g.key # j /\ Descending(rank, Tail(stack[t])) /\ \A f \in Under(Tail(stack[t])) : f.key # j
  BY <1>1, <1>3, <1>5, OwnKey
<1>10. Descending(rank, stack'[t])
  BY <1>2, <1>4, <1>5, <1>6, <1>9, DescendingRekeyed
<1>11. \A f \in Under(Tail(Tail(stack[t]))) : f.key # g.key
  <2>1. \A f \in Under(Tail(Tail(stack[t]))) : rank[g.key] < rank[f.key]
    BY <1>2, <1>4, <1>9, DescendingPeeled
  <2> QED
    BY <1>6, <2>1 DEF Ranked
<1> DEFINE J == {j, g.key}
<1>12. \A k \in Keys \ J : Untouched(k)
  BY <1>1, <1>3, <1>7, <1>8 DEF Untouched, Kept, Typed
<1>13. \A k \in Keys \ J : Busy(stack'[t], k) <=> Busy(stack[t], k)
  BY <1>2, <1>3, <1>5, <1>6 DEF Busy
<1>14. ASSUME g.key \notin raced
       PROVE  InProgress(h)' /\ \A u \in Threads \ {t} : ~Busy(stack[u], g.key)
  <2>1. InProgress(g) /\ \A u \in Threads \ {t} : ~Busy(stack[u], g.key)
    BY <1>6, <1>7, <1>14, Exclusive
  <2>2. given[g.key] = {} /\ table[g.key] = g.ref /\ filled[g.ref] = g.next - 1
    BY <1>7, <2>1 DEF InProgress
  <2>3. given'[g.key] = {} /\ table'[g.key] = g.ref
    BY <1>1, <1>3, <1>9, <2>2 DEF Kept, Typed
  <2>4. filled'[g.ref] = h.next - 1 /\ h.next # 0
    BY <1>6, <1>8, <2>2
  <2> QED
    BY <1>6, <2>1, <2>3, <2>4 DEF InProgress
<1>15. ASSUME j \notin raced
       PROVE  Settled(j)' /\ \A u \in Threads \ {t} : ~Busy(stack[u], j)
  <2>1. r \in 1..Len(heap) /\ heap[r] = j
    BY <1>1, <1>2, <1>3 DEF InternReturns, Complete, Fitting, BuiltFor
  <2>2. filled'[r] = filled[r]
    BY <1>7, <1>8, <1>9, <2>1
  <2> QED
    BY <1>3, <1>15, <2>2, ReturnSettles
<1>16. raced' = raced /\ raced \subseteq raced'
  BY <1>1
<1>17. \A k \in J \ raced' : \A u \in Threads \ {t} : ~Busy(stack[u], k)
  BY <1>14, <1>15, <1>16
<1>18. \A f \in Under(stack'[t]) : f.key \notin J => f \in Under(stack[t])
  BY <1>2, <1>5, <1>6
<1>19. \A f \in Under(stack'[t]) : f.key \in J \ raced' => InProgress(f)'
  <2>1. \A f \in Under(stack'[t]) : f.key \in J \ raced' => f = h /\ g.key \notin raced
    BY <1>5, <1>6, <1>9, <1>11, <1>16
  <2> QED
    BY <1>14, <2>1
<1>20. \A k \in J \ raced' : ~Busy(stack'[t], k) => Settled(k)'
  <2>1. \A k \in J \ raced' : ~Busy(stack'[t], k) => k = j /\ j \notin raced
    BY <1>5, <1>6, <1>16 DEF Busy
  <2> QED
    BY <1>15, <2>1
<1>21. /\ \A u \in Threads \ {t} : stack'[u] = stack[u]
       /\ raced \subseteq raced'
  BY <1>5, <1>16
<1> HIDE DEF J
<1> QED
  BY <1>10, <1>12, <1>13, <1>17, <1>18, <1>19, <1>20, <1>21, SoundAfter

\* Every step keeps Sound, of keys that can be ranked.
LEMMA SoundStep ==
  ASSUME Kept, NEW rank, Ranked(rank), Sound(rank), [Next]_vars
  PROVE  Sound(rank)'
<1>1. CASE UNCHANGED vars
  BY <1>1 DEF vars, Sound, InProgress, Settled
<1>2. CASE Next
  BY <1>2, SoundHit, SoundMiss, SoundBuild, SoundInsert, SoundFillHit, SoundFillMiss,
     SoundReturnsToNone, SoundReturnsToCall DEF Next, Continue
<1> QED
  BY <1>1, <1>2

\* A key no two threads interned at once has one object, under which it is
\* found, and which is complete when it is given to anybody, for any threads
\* and keys whose parts do not ask for each other in a circle.
THEOREM SoundWhereNotRaced ==
  ASSUME NEW rank, Ranked(rank)
  PROVE  Spec => []SoundUnlessRaced
<1>1. Init => Kept /\ Sound(rank)
  BY KeptInit, SoundInit
<1>2. Kept /\ Sound(rank) /\ [Next]_vars => (Kept /\ Sound(rank))'
  BY KeptStep, SoundStep
<1>3. Kept /\ Sound(rank) => SoundUnlessRaced
  <2> SUFFICES ASSUME Kept, Sound(rank), NEW k \in Keys \ raced
               PROVE  /\ Cardinality(given[k]) <= 1
                      /\ \A r \in given[k] : table[k] = r /\ filled[r] = Len(Parts[k])
    BY DEF SoundUnlessRaced
  <2>1. /\ given[k] = {} \/ given[k] = {table[k]}
        /\ given[k] # {} => filled[table[k]] = Len(Parts[k])
    <3>1. CASE \A t \in Threads : ~Busy(stack[t], k)
      <4>1. Settled(k)
        BY <3>1 DEF Sound
      <4> QED
        BY <4>1 DEF Settled
    <3>2. CASE \E t \in Threads : Busy(stack[t], k)
      <4>1. PICK t \in Threads : \E f \in Under(stack[t]) : f.key = k
        BY <3>2 DEF Busy
      <4> QED
        BY <4>1 DEF Sound, InProgress
    <3> QED
      BY <3>1, <3>2
  <2>2. Cardinality(given[k]) <= 1
    <3>1. Cardinality({}) = 0 /\ Cardinality({table[k]}) = 1
      BY FS_EmptySet, FS_Singleton
    <3>2. Cardinality(given[k]) \in {0, 1}
      BY <2>1, <3>1
    <3> QED
      BY <3>2
  <2> QED
    BY <2>1, <2>2
<1> QED
  BY <1>1, <1>2, <1>3, PTL DEF Spec
=============================================================================
