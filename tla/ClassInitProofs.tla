--------------------------- MODULE ClassInitProofs ---------------------------
(***************************************************************************)
(* Theorems about ClassInit, for any threads, hierarchy and uses: classes  *)
(* whose initializers use each other in circles are included, except in    *)
(* the last theorem, which says so.                                        *)
(***************************************************************************)
EXTENDS ClassInit, FiniteSetTheorems, SequenceTheorems, TLAPS

Results == {"ok", "NCDFE", "thrown", "EIIE", "panic"}
Returning == {"superReturns", "useReturns"}
Labels == {"check", "blocked", "notify"} \cup Winning
Activations == [cls : Classes, at : Labels, todo : Seq(Classes), res : Results]

Typed ==
  /\ state \in [Classes -> {"NotStarted", "InProgress", "Done", "Failed"}]
  /\ initOwner \in [Classes -> Threads \cup {None}]
  /\ statics \in [Classes -> {"default", "constants", "initialized"}]
  /\ stack \in [Threads -> Seq(Activations)]
  /\ ret \in [Threads -> Results]

\* What a stack s tells of the classes that its activations initialize.
Wins(a, c) == a.cls = c /\ a.at \in Winning
Has(s, c) == \E i \in DOMAIN s : Wins(s[i], c)
Once(s) == \A c : \A i, j \in DOMAIN s : Wins(s[i], c) /\ Wins(s[j], c) => i = j
AllReturning(s) == \A i \in DOMAIN s : s[i].at \in Returning

\* An activation below another waits for the call it made.
Nesting == \A t \in Threads : stack[t] # <<>> => AllReturning(Tail(stack[t]))

\* A class is in progress while one activation of its owner has won it.
Ownership ==
  /\ \A c \in Classes : state[c] = "InProgress" <=> \E t \in Threads : Has(stack[t], c)
  /\ \A t \in Threads : Once(stack[t])
  /\ \A t \in Threads, c \in Classes : Has(stack[t], c) => initOwner[c] = t

\* The state that is published is the one of the fields.
Earned(a) ==
  /\ a.at = "publish" /\ a.res = "ok" => statics[a.cls] = "initialized"
  /\ a.at = "notify" /\ a.res = "ok" => state[a.cls] = "Done"

Outcomes ==
  /\ \A c \in Classes : state[c] = "Done" => statics[c] = "initialized"
  /\ \A t \in Threads : stack[t] # <<>> => Earned(Head(stack[t]))

Initialization == Typed /\ Nesting /\ Ownership /\ Outcomes

-----------------------------------------------------------------------------
\* Stacks.
LEMMA Pushed ==
  ASSUME NEW a \in Activations, NEW s \in Seq(Activations)
  PROVE  LET p == <<a>> \o s IN
         /\ p \in Seq(Activations) /\ p # <<>>
         /\ Head(p) = a /\ Tail(p) = s
         /\ Len(p) = Len(s) + 1
         /\ \A c : Has(p, c) <=> Wins(a, c) \/ Has(s, c)
         /\ Once(p) <=> Once(s) /\ (\A c : ~(Wins(a, c) /\ Has(s, c)))
         /\ AllReturning(p) <=> a.at \in Returning /\ AllReturning(s)
<1> DEFINE p == <<a>> \o s
<1>1. /\ p \in Seq(Activations) /\ p # <<>> /\ Head(p) = a /\ Tail(p) = s
      /\ Len(p) = Len(s) + 1
  OBVIOUS
<1>2. /\ DOMAIN p = 1..(Len(s) + 1)
      /\ p[1] = a
      /\ \A i \in DOMAIN s : i + 1 \in DOMAIN p /\ p[i + 1] = s[i]
      /\ DOMAIN s = 1..Len(s) /\ Len(s) \in Nat
  OBVIOUS
<1>3. \A i \in DOMAIN p : i = 1 \/ (i - 1 \in DOMAIN s /\ p[i] = s[i - 1])
  BY <1>2
<1> HIDE DEF p
<1>4. \A c : Has(p, c) <=> Wins(a, c) \/ Has(s, c)
  <2> SUFFICES ASSUME NEW c PROVE Has(p, c) <=> Wins(a, c) \/ Has(s, c)
    OBVIOUS
  <2>1. ASSUME Has(p, c) PROVE Wins(a, c) \/ Has(s, c)
    BY <1>2, <1>3, <2>1 DEF Has
  <2>2. ASSUME Wins(a, c) PROVE Has(p, c)
    BY <1>2, <2>2 DEF Has
  <2>3. ASSUME Has(s, c) PROVE Has(p, c)
    BY <1>2, <2>3 DEF Has
  <2> QED
    BY <2>1, <2>2, <2>3
<1>5. ASSUME Once(p) PROVE Once(s) /\ (\A c : ~(Wins(a, c) /\ Has(s, c)))
  <2>1. ASSUME NEW c, NEW i \in DOMAIN s, NEW j \in DOMAIN s, Wins(s[i], c), Wins(s[j], c)
        PROVE  i = j
    <3>1. i + 1 = j + 1
      BY <1>2, <1>5, <2>1 DEF Once
    <3> QED
      BY <1>2, <3>1
  <2>2. ASSUME NEW c, Wins(a, c), NEW i \in DOMAIN s, Wins(s[i], c)
        PROVE  FALSE
    <3>1. 1 = i + 1
      BY <1>2, <1>5, <2>2 DEF Once
    <3> QED
      BY <1>2, <3>1
  <2> QED
    BY <2>1, <2>2 DEF Once, Has
<1>6. ASSUME Once(s), \A c : ~(Wins(a, c) /\ Has(s, c)) PROVE Once(p)
  <2> SUFFICES ASSUME NEW c, NEW i \in DOMAIN p, NEW j \in DOMAIN p,
                      Wins(p[i], c), Wins(p[j], c)
               PROVE  i = j
    BY DEF Once
  <2>1. CASE i = 1 /\ j = 1
    BY <2>1
  <2>2. CASE i = 1 /\ j # 1
    BY <1>2, <1>3, <1>6, <2>2 DEF Has
  <2>3. CASE i # 1 /\ j = 1
    BY <1>2, <1>3, <1>6, <2>3 DEF Has
  <2>4. CASE i # 1 /\ j # 1
    <3>1. i - 1 = j - 1
      BY <1>3, <1>6, <2>4 DEF Once
    <3> QED
      BY <1>2, <3>1
  <2> QED
    BY <2>1, <2>2, <2>3, <2>4
<1>7. AllReturning(p) <=> a.at \in Returning /\ AllReturning(s)
  <2>1. ASSUME AllReturning(p) PROVE a.at \in Returning /\ AllReturning(s)
    BY <1>2, <2>1 DEF AllReturning
  <2>2. ASSUME a.at \in Returning, AllReturning(s) PROVE AllReturning(p)
    BY <1>2, <1>3, <2>2 DEF AllReturning
  <2> QED
    BY <2>1, <2>2
<1> QED
  BY <1>1, <1>4, <1>5, <1>6, <1>7 DEF p

\* A nonempty stack is its innermost activation on top of the others.
LEMMA Split ==
  ASSUME NEW s \in Seq(Activations), s # <<>>
  PROVE  /\ Head(s) \in Activations
         /\ Tail(s) \in Seq(Activations)
         /\ s = <<Head(s)>> \o Tail(s)
         /\ Len(Tail(s)) = Len(s) - 1
         /\ Len(s) \in Nat \ {0}
OBVIOUS

\* What a stack has won is what its innermost activation and the others have won.
LEMMA Peeled ==
  ASSUME NEW s \in Seq(Activations), s # <<>>
  PROVE  /\ \A c : Has(s, c) <=> Wins(Head(s), c) \/ Has(Tail(s), c)
         /\ Once(s) <=> /\ Once(Tail(s))
                        /\ \A c : ~(Wins(Head(s), c) /\ Has(Tail(s), c))
<1> DEFINE h == Head(s)
           below == Tail(s)
<1>1. h \in Activations /\ below \in Seq(Activations) /\ s = <<h>> \o below
  BY Split
<1> HIDE DEF h, below
<1>2. /\ \A c : Has(s, c) <=> Wins(h, c) \/ Has(below, c)
      /\ Once(s) <=> Once(below) /\ \A c : ~(Wins(h, c) /\ Has(below, c))
  BY <1>1, Pushed
<1> QED
  BY <1>2 DEF h, below

\* Whatever is left of a stack below its innermost activation.
LEMMA ReturningBelow ==
  ASSUME NEW s \in Seq(Activations), s # <<>>, AllReturning(s)
  PROVE  Head(s).at \in Returning /\ AllReturning(Tail(s))
<1>1. /\ \A i \in DOMAIN Tail(s) : i + 1 \in DOMAIN s /\ Tail(s)[i] = s[i + 1]
      /\ 1 \in DOMAIN s /\ Head(s) = s[1]
  OBVIOUS
<1> QED
  BY <1>1 DEF AllReturning

\* The empty stack has won nothing and nobody waits in it.
LEMMA Empty == (\A c : ~Has(<<>>, c)) /\ Once(<<>>) /\ AllReturning(<<>>)
BY DEF Has, Once, AllReturning

\* The stack of t, taken apart.
LEMMA Innermost ==
  ASSUME Initialization, NEW t \in Threads, stack[t] # <<>>
  PROVE  /\ Head(stack[t]) \in Activations /\ Tail(stack[t]) \in Seq(Activations)
         /\ Cls(t) \in Classes
         /\ \A c : Has(stack[t], c) <=> Wins(Head(stack[t]), c) \/ Has(Tail(stack[t]), c)
         /\ Once(Tail(stack[t]))
         /\ \A c : ~(Wins(Head(stack[t]), c) /\ Has(Tail(stack[t]), c))
         /\ AllReturning(Tail(stack[t]))
<1>1. stack[t] \in Seq(Activations)
  BY DEF Initialization, Typed
<1>2. /\ Head(stack[t]) \in Activations
      /\ Tail(stack[t]) \in Seq(Activations)
      /\ stack[t] = <<Head(stack[t])>> \o Tail(stack[t])
  BY <1>1, Split
<1>3. Cls(t) \in Classes
  BY <1>2 DEF Cls, Activations
<1>4. Once(stack[t]) /\ AllReturning(Tail(stack[t]))
  BY DEF Initialization, Ownership, Nesting
<1> QED
  BY <1>2, <1>3, <1>4, Pushed

-----------------------------------------------------------------------------
\* No step but Win and Publish changes who has won what.
LEMMA NobodyWins ==
  ASSUME Ownership, UNCHANGED <<state, initOwner>>,
         \A u \in Threads :
           /\ Once(stack'[u])
           /\ \A c : Has(stack'[u], c) <=> Has(stack[u], c)
  PROVE  Ownership'
BY DEF Ownership

\* A thread's innermost activation goes on, perhaps writing the fields of its class.
LEMMA GoesOn ==
  ASSUME Initialization, NEW t \in Threads, stack[t] # <<>>,
         NEW b \in Activations, Become(t, b), b.cls = Cls(t),
         b.at \in Winning <=> Head(stack[t]).at \in Winning,
         UNCHANGED <<state, initOwner, ret>>,
         statics' \in [Classes -> {"default", "constants", "initialized"}],
         \A c \in Classes : statics'[c] # statics[c] =>
                              c = Cls(t) /\ Head(stack[t]).at \in Winning,
         b.at = "publish" /\ b.res = "ok" => statics'[b.cls] = "initialized",
         b.at = "notify" /\ b.res = "ok" => state[b.cls] = "Done"
  PROVE  Initialization'
<1> DEFINE T == Tail(stack[t])
<1>1. /\ T \in Seq(Activations) /\ Cls(t) \in Classes
      /\ \A c : Has(stack[t], c) <=> Wins(Head(stack[t]), c) \/ Has(T, c)
      /\ Once(T) /\ AllReturning(T)
      /\ \A c : ~(Wins(Head(stack[t]), c) /\ Has(T, c))
  BY Innermost
<1>2. /\ stack'[t] = <<b>> \o T
      /\ stack' = [stack EXCEPT ![t] = <<b>> \o T]
      /\ \A u \in Threads \ {t} : stack'[u] = stack[u]
  BY DEF Become, Initialization, Typed
<1>3. \A c : Wins(b, c) <=> Wins(Head(stack[t]), c)
  BY DEF Wins, Cls
<1>4. /\ stack'[t] \in Seq(Activations) /\ stack'[t] # <<>>
      /\ Head(stack'[t]) = b /\ Tail(stack'[t]) = T
      /\ \A c : Has(stack'[t], c) <=> Has(stack[t], c)
      /\ Once(stack'[t])
  <2> HIDE DEF T
  <2> QED
    BY <1>1, <1>2, <1>3, Pushed
<1> HIDE DEF T
<1>5. Typed'
  BY <1>2, <1>4 DEF Initialization, Typed
<1>6. Nesting'
  BY <1>1, <1>2, <1>4 DEF Initialization, Nesting
<1>7. Ownership'
  <2>1. \A u \in Threads : Once(stack'[u]) /\ \A c : Has(stack'[u], c) <=> Has(stack[u], c)
    BY <1>2, <1>4 DEF Initialization, Ownership
  <2> QED
    BY <2>1, NobodyWins DEF Initialization
<1>8. \A c \in Classes : statics'[c] # statics[c] =>
        /\ state[c] = "InProgress"
        /\ initOwner[c] = t
  <2> SUFFICES ASSUME NEW c \in Classes, statics'[c] # statics[c]
               PROVE  Has(stack[t], c)
    BY DEF Initialization, Ownership
  <2>1. Wins(Head(stack[t]), c)
    BY DEF Wins, Cls
  <2> QED
    BY <1>1, <2>1
<1>9. Outcomes'
  <2>1. ASSUME NEW c \in Classes, state'[c] = "Done" PROVE statics'[c] = "initialized"
    BY <1>8, <2>1 DEF Initialization, Outcomes
  <2>2. ASSUME NEW u \in Threads, u # t, stack'[u] # <<>> PROVE Earned(Head(stack[u]))'
    <3>1. stack[u] # <<>> /\ stack'[u] = stack[u] /\ Earned(Head(stack[u]))
      BY <1>2, <2>2 DEF Initialization, Outcomes
    <3>2. Cls(u) \in Classes /\ \A c : Wins(Head(stack[u]), c) => Has(stack[u], c)
      BY <3>1, Innermost
    <3>3. Head(stack[u]).at = "publish" => initOwner[Cls(u)] = u
      BY <3>2 DEF Wins, Winning, Initialization, Ownership, Cls
    <3>4. Head(stack[u]).at = "publish" => statics'[Cls(u)] = statics[Cls(u)]
      BY <1>8, <2>2, <3>2, <3>3
    <3> QED
      BY <3>1, <3>4 DEF Earned, Cls
  <2>3. Earned(Head(stack[t]))'
    BY <1>4 DEF Earned
  <2> QED
    BY <2>1, <2>2, <2>3 DEF Outcomes
<1> QED
  BY <1>5, <1>6, <1>7, <1>9 DEF Initialization

\* A new activation begins with the check.
LEMMA NewActivationType ==
  ASSUME NEW c \in Classes
  PROVE  NewActivation(c) \in Activations /\ NewActivation(c).at = "check"
BY DEF NewActivation, Activations, Labels, Results

\* An activation that has won its class calls another.
LEMMA CallsAnother ==
  ASSUME Initialization, NEW t \in Threads, stack[t] # <<>>,
         NEW a \in Activations, NEW c \in Classes, CallFrom(t, a, c),
         a.cls = Cls(t), a.at \in Returning, Head(stack[t]).at \in Winning,
         UNCHANGED <<state, initOwner, statics, ret>>
  PROVE  Initialization'
<1> DEFINE T == Tail(stack[t])
           n == NewActivation(c)
           below == <<a>> \o T
<1>1. /\ T \in Seq(Activations)
      /\ \A d : Has(stack[t], d) <=> Wins(Head(stack[t]), d) \/ Has(T, d)
      /\ Once(T) /\ AllReturning(T)
      /\ \A d : ~(Wins(Head(stack[t]), d) /\ Has(T, d))
  BY Innermost
<1>2. n \in Activations /\ n.at = "check"
  BY NewActivationType
<1>3. /\ stack'[t] = <<n, a>> \o T
      /\ stack' = [stack EXCEPT ![t] = <<n, a>> \o T]
      /\ \A u \in Threads \ {t} : stack'[u] = stack[u]
  BY DEF CallFrom, Initialization, Typed
<1> HIDE DEF T, n
<1>4. stack'[t] = <<n>> \o below
  BY <1>1, <1>2, <1>3
<1>5. /\ \A d : Wins(a, d) <=> Wins(Head(stack[t]), d)
      /\ \A d : ~Wins(n, d)
  BY <1>2 DEF Wins, Cls, Returning, Winning
<1>6. /\ below \in Seq(Activations)
      /\ \A d : Has(below, d) <=> Has(stack[t], d)
      /\ Once(below)
      /\ AllReturning(below)
  BY <1>1, <1>5, Pushed
<1> HIDE DEF below
<1>7. /\ stack'[t] \in Seq(Activations) /\ stack'[t] # <<>>
      /\ Head(stack'[t]) = n /\ Tail(stack'[t]) = below
      /\ \A d : Has(stack'[t], d) <=> Has(stack[t], d)
      /\ Once(stack'[t])
  BY <1>2, <1>4, <1>5, <1>6, Pushed
<1>8. Typed'
  BY <1>3, <1>7 DEF Initialization, Typed
<1>9. Nesting'
  BY <1>3, <1>6, <1>7 DEF Initialization, Nesting
<1>10. Ownership'
  <2>1. \A u \in Threads : Once(stack'[u]) /\ \A d : Has(stack'[u], d) <=> Has(stack[u], d)
    BY <1>3, <1>7 DEF Initialization, Ownership
  <2> QED
    BY <2>1, NobodyWins DEF Initialization
<1>11. Outcomes'
  <2>1. Earned(n)'
    BY <1>2 DEF Earned
  <2> QED
    BY <1>3, <1>7, <2>1 DEF Initialization, Outcomes, Earned
<1> QED
  BY <1>8, <1>9, <1>10, <1>11 DEF Initialization

-----------------------------------------------------------------------------
\* The innermost activation of t ends; the one below, or the code that called,
\* goes on.
LEMMA Returns ==
  ASSUME Initialization, NEW t \in Threads, stack[t] # <<>>,
         Head(stack[t]).at = "check", NEW r \in Results, Return(t, r)
  PROVE  Initialization'
<1>1. /\ Tail(stack[t]) \in Seq(Activations)
      /\ \A c : Has(stack[t], c) <=> Wins(Head(stack[t]), c) \/ Has(Tail(stack[t]), c)
      /\ Once(Tail(stack[t])) /\ AllReturning(Tail(stack[t]))
  BY Innermost
<1>2. /\ stack'[t] = Tail(stack[t])
      /\ stack' \in [Threads -> Seq(Activations)]
      /\ \A u \in Threads \ {t} : stack'[u] = stack[u]
      /\ ret' \in [Threads -> Results]
      /\ UNCHANGED <<state, initOwner, statics>>
  BY <1>1 DEF Return, Initialization, Typed
<1>3. \A u \in Threads : Once(stack'[u]) /\ \A c : Has(stack'[u], c) <=> Has(stack[u], c)
  <2>1. \A c : ~Wins(Head(stack[t]), c)
    BY DEF Wins, Winning
  <2>2. Once(stack'[t]) /\ \A c : Has(stack'[t], c) <=> Has(stack[t], c)
    BY <1>1, <1>2, <2>1
  <2>3. \A u \in Threads : Once(stack[u])
    BY DEF Initialization, Ownership
  <2> QED
    BY <1>2, <2>2, <2>3
<1>4. Ownership'
  BY <1>2, <1>3, NobodyWins DEF Initialization
<1>5. stack'[t] # <<>> => AllReturning(Tail(stack'[t])) /\ Head(stack'[t]).at \in Returning
  BY <1>1, <1>2, ReturningBelow
<1>6. Nesting' /\ Outcomes'
  BY <1>2, <1>5 DEF Initialization, Nesting, Outcomes, Earned, Returning
<1> QED
  BY <1>2, <1>4, <1>6 DEF Initialization, Typed

-----------------------------------------------------------------------------
\* Code outside any <clinit> uses a class.
LEMMA CallKeeps ==
  ASSUME Initialization, NEW t \in Threads, NEW c \in Classes, Call(t, c)
  PROVE  Initialization'
<1> DEFINE n == NewActivation(c)
           none == <<>>
<1>1. n \in Activations /\ n.at = "check"
  BY NewActivationType
<1>2. /\ stack[t] = <<>>
      /\ stack' = [stack EXCEPT ![t] = <<n>>]
      /\ UNCHANGED <<state, initOwner, statics, ret>>
  BY DEF Call
<1> HIDE DEF n
<1>3. /\ stack'[t] = <<n>> \o none
      /\ \A u \in Threads \ {t} : stack'[u] = stack[u]
  BY <1>1, <1>2 DEF Initialization, Typed
<1>4. \A d : ~Wins(n, d)
  BY <1>1 DEF Wins, Winning
<1>5. /\ stack'[t] \in Seq(Activations) /\ stack'[t] # <<>>
      /\ Head(stack'[t]) = n /\ Tail(stack'[t]) = <<>>
      /\ \A d : ~Has(stack'[t], d)
      /\ Once(stack'[t])
  <2>1. none \in Seq(Activations) /\ (\A d : ~Has(none, d)) /\ Once(none) /\ none = <<>>
    BY Empty
  <2> HIDE DEF none
  <2> QED
    BY <1>1, <1>3, <1>4, <2>1, Pushed
<1>6. \A u \in Threads : Once(stack'[u]) /\ \A d : Has(stack'[u], d) <=> Has(stack[u], d)
  BY <1>2, <1>3, <1>5, Empty DEF Initialization, Ownership
<1>7. Ownership'
  BY <1>2, <1>6, NobodyWins DEF Initialization
<1>8. Typed'
  BY <1>2, <1>5 DEF Initialization, Typed
<1>9. Nesting'
  BY <1>3, <1>5, Empty DEF Initialization, Nesting
<1>10. Outcomes'
  BY <1>1, <1>2, <1>3, <1>5 DEF Initialization, Outcomes, Earned
<1> QED
  BY <1>7, <1>8, <1>9, <1>10 DEF Initialization

\* An activation wins its class, which nobody had.
LEMMA WinKeeps ==
  ASSUME Initialization, NEW t \in Threads, Win(t)
  PROVE  Initialization'
<1> DEFINE T == Tail(stack[t])
           b == [Head(stack[t]) EXCEPT !.at = "super"]
           c == Cls(t)
<1>1. stack[t] # <<>> /\ Head(stack[t]).at = "check" /\ state[c] = "NotStarted"
  BY DEF Win, At, Winnable
<1>2. /\ T \in Seq(Activations) /\ c \in Classes /\ Head(stack[t]) \in Activations
      /\ \A d : Has(stack[t], d) <=> Wins(Head(stack[t]), d) \/ Has(T, d)
      /\ Once(T) /\ AllReturning(T)
  BY <1>1, Innermost
<1>3. b \in Activations /\ b.at = "super" /\ b.cls = c
  BY <1>2 DEF Activations, Labels, Winning, Cls
<1>4. /\ state' = [state EXCEPT ![c] = "InProgress"]
      /\ initOwner' = [initOwner EXCEPT ![c] = t]
      /\ stack' = [stack EXCEPT ![t] = <<b>> \o T]
      /\ UNCHANGED <<statics, ret>>
  BY DEF Win, GoTo, Become
<1> HIDE DEF T, b
<1>5. /\ stack'[t] = <<b>> \o T
      /\ \A u \in Threads \ {t} : stack'[u] = stack[u]
  BY <1>4 DEF Initialization, Typed
<1>6. /\ \A d : Wins(b, d) <=> d = c
      /\ \A d : ~Wins(Head(stack[t]), d)
  BY <1>1, <1>3 DEF Wins, Winning
<1>7. \A u \in Threads : ~Has(stack[u], c)
  BY <1>1, <1>2 DEF Initialization, Ownership
<1>8. /\ stack'[t] \in Seq(Activations) /\ stack'[t] # <<>>
      /\ Head(stack'[t]) = b /\ Tail(stack'[t]) = T
      /\ \A d : Has(stack'[t], d) <=> d = c \/ Has(stack[t], d)
      /\ Once(stack'[t])
  BY <1>2, <1>3, <1>5, <1>6, <1>7, Pushed
<1> HIDE DEF c
<1>9. Typed'
  BY <1>4, <1>8 DEF Initialization, Typed
<1>10. Nesting'
  BY <1>2, <1>5, <1>8 DEF Initialization, Nesting
<1>11. Ownership'
  BY <1>2, <1>4, <1>5, <1>7, <1>8 DEF Initialization, Ownership, Typed
<1>12. Outcomes'
  <2>1. ASSUME NEW u \in Threads, u # t, stack[u] # <<>>
        PROVE  Earned(Head(stack[u]))'
    <3>1. Cls(u) \in Classes /\ Earned(Head(stack[u]))
      BY <2>1, Innermost DEF Initialization, Outcomes
    <3> QED
      BY <1>1, <1>2, <1>4, <1>5, <2>1, <3>1 DEF Earned, Cls, Initialization, Typed
  <2>2. Earned(Head(stack[t]))'
    BY <1>3, <1>8 DEF Earned
  <2>3. \A d \in Classes : state'[d] = "Done" => statics'[d] = "initialized"
    BY <1>2, <1>4 DEF Initialization, Outcomes, Typed
  <2> QED
    BY <1>5, <2>1, <2>2, <2>3 DEF Outcomes
<1> QED
  BY <1>9, <1>10, <1>11, <1>12 DEF Initialization

\* The activation that had won its class publishes how it went.
LEMMA PublishKeeps ==
  ASSUME Initialization, NEW t \in Threads, Publish(t)
  PROVE  Initialization'
<1> DEFINE T == Tail(stack[t])
           b == [Head(stack[t]) EXCEPT !.at = "notify"]
           c == Cls(t)
           outcome == IF Head(stack[t]).res = "ok" THEN "Done" ELSE "Failed"
<1>1. stack[t] # <<>> /\ Head(stack[t]).at = "publish"
  BY DEF Publish, At
<1>2. /\ T \in Seq(Activations) /\ c \in Classes /\ Head(stack[t]) \in Activations
      /\ \A d : Has(stack[t], d) <=> Wins(Head(stack[t]), d) \/ Has(T, d)
      /\ \A d : ~(Wins(Head(stack[t]), d) /\ Has(T, d))
      /\ Once(T) /\ AllReturning(T)
  BY <1>1, Innermost
<1>3. b \in Activations /\ b.at = "notify" /\ b.cls = c /\ b.res = Head(stack[t]).res
  BY <1>2 DEF Activations, Labels, Winning, Cls
<1>4. /\ state' = [state EXCEPT ![c] = outcome]
      /\ initOwner' = [initOwner EXCEPT ![c] = None]
      /\ stack' = [stack EXCEPT ![t] = <<b>> \o T]
      /\ UNCHANGED <<statics, ret>>
      /\ outcome \in {"Done", "Failed"}
      /\ outcome = "Done" <=> Head(stack[t]).res = "ok"
  BY DEF Publish, GoTo, Become
<1>5. outcome = "Done" => statics[c] = "initialized"
  BY <1>1 DEF Initialization, Outcomes, Earned, Cls
<1>6. /\ stack'[t] = <<b>> \o T
      /\ \A u \in Threads \ {t} : stack'[u] = stack[u]
  BY <1>4 DEF Initialization, Typed
<1>7. /\ \A d : ~Wins(b, d)
      /\ \A d : Wins(Head(stack[t]), d) <=> d = c
  BY <1>1, <1>3 DEF Wins, Winning, Cls
<1> HIDE DEF T, b, c, outcome
<1>8. /\ Has(stack[t], c)
      /\ \A u \in Threads \ {t} : ~Has(stack[u], c)
  BY <1>2, <1>7 DEF Initialization, Ownership
<1>9. /\ stack'[t] \in Seq(Activations) /\ stack'[t] # <<>>
      /\ Head(stack'[t]) = b /\ Tail(stack'[t]) = T
      /\ \A d : Has(stack'[t], d) <=> d # c /\ Has(stack[t], d)
      /\ Once(stack'[t])
  BY <1>2, <1>3, <1>6, <1>7, Pushed
<1>10. Typed'
  BY <1>4, <1>9 DEF Initialization, Typed
<1>11. Nesting'
  BY <1>2, <1>6, <1>9 DEF Initialization, Nesting
<1>12. Ownership'
  <2>1. /\ \A d \in Classes \ {c} : state'[d] = state[d] /\ initOwner'[d] = initOwner[d]
        /\ state'[c] # "InProgress"
    BY <1>2, <1>4 DEF Initialization, Typed
  <2>2. \A u \in Threads : \A d : Has(stack'[u], d) <=> d # c /\ Has(stack[u], d)
    BY <1>6, <1>8, <1>9
  <2>3. \A u \in Threads : Once(stack'[u])
    BY <1>6, <1>9 DEF Initialization, Ownership
  <2> QED
    BY <2>1, <2>2, <2>3 DEF Initialization, Ownership
<1>13. Outcomes'
  <2>1. ASSUME NEW u \in Threads, u # t, stack[u] # <<>>
        PROVE  Earned(Head(stack[u]))'
    <3>1. Cls(u) \in Classes /\ Earned(Head(stack[u]))
      BY <2>1, Innermost DEF Initialization, Outcomes
    <3>2. state[c] = "InProgress"
      BY <1>2, <1>8 DEF Initialization, Ownership
    <3> QED
      BY <1>2, <1>4, <1>6, <2>1, <3>1, <3>2 DEF Earned, Cls, Initialization, Typed
  <2>2. Earned(Head(stack[t]))'
    BY <1>2, <1>3, <1>4, <1>9 DEF Earned, Initialization, Typed
  <2>3. \A d \in Classes : state'[d] = "Done" => statics'[d] = "initialized"
    BY <1>2, <1>4, <1>5 DEF Initialization, Outcomes, Typed
  <2> QED
    BY <1>6, <2>1, <2>2, <2>3 DEF Outcomes
<1> QED
  BY <1>10, <1>11, <1>12, <1>13 DEF Initialization

-----------------------------------------------------------------------------
\* What NotifyWaiters does to the stack of another thread ...
LEMMA Woken ==
  ASSUME Initialization, NEW u \in Threads, NEW c, NEW X, X = Awake(u, c)
  PROVE  /\ X \in Seq(Activations)
         /\ X # <<>> <=> stack[u] # <<>>
         /\ X # <<>> => Tail(X) = Tail(stack[u])
         /\ X # <<>> => Head(X) = Head(stack[u]) \/ Head(X).at = "check"
         /\ \A d : Has(X, d) <=> Has(stack[u], d)
         /\ Once(X)
<1>1. stack[u] \in Seq(Activations) /\ Once(stack[u])
  BY DEF Initialization, Typed, Ownership
<1>2. CASE ~(At(u, "blocked") /\ Cls(u) = c)
  BY <1>1, <1>2 DEF Awake
<1>3. CASE At(u, "blocked") /\ Cls(u) = c
  <2> DEFINE b == [Head(stack[u]) EXCEPT !.at = "check"]
             T == Tail(stack[u])
  <2>1. stack[u] # <<>> /\ Head(stack[u]).at = "blocked"
    BY <1>3 DEF At
  <2>2. /\ T \in Seq(Activations) /\ Head(stack[u]) \in Activations
        /\ \A d : Has(stack[u], d) <=> Wins(Head(stack[u]), d) \/ Has(T, d)
        /\ Once(T)
    BY <2>1, Innermost
  <2>3. b \in Activations /\ b.at = "check"
    BY <2>2 DEF Activations, Labels
  <2>4. X = <<b>> \o T
    BY <1>3 DEF Awake
  <2> HIDE DEF b, T
  <2>5. \A d : ~Wins(b, d) /\ ~Wins(Head(stack[u]), d)
    BY <2>1, <2>3 DEF Wins, Winning
  <2>6. /\ X \in Seq(Activations) /\ X # <<>> /\ Head(X) = b /\ Tail(X) = T
        /\ \A d : Has(X, d) <=> Has(stack[u], d)
        /\ Once(X)
    BY <2>2, <2>3, <2>4, <2>5, Pushed
  <2> QED
    BY <2>1, <2>3, <2>6 DEF T
<1> QED
  BY <1>2, <1>3

\* A panic passes to the activation below.
LEMMA PanicPasses ==
  ASSUME NEW t \in Threads, stack[t] \in Seq(Activations), Len(stack[t]) > 1
  PROVE  LET T == Tail(stack[t]) IN
         /\ T # <<>>
         /\ Unwound(t, "panic") =
              <<[Head(T) EXCEPT !.at = "publish", !.res = "panic"]>> \o Tail(T)
<1> DEFINE T == Tail(stack[t])
<1>1. T \in Seq(Activations)
  OBVIOUS
<1>2. T = SubSeq(stack[t], 2, Len(stack[t])) /\ Len(stack[t]) \in Nat
  BY TailIsSubSeq
<1>3. 2 \in 1..Len(stack[t]) /\ Len(stack[t]) \in 2..Len(stack[t])
  BY <1>2
<1>4. T # <<>>
  <2>1. Len(T) = Len(stack[t]) - 1 /\ Len(stack[t]) \in Nat /\ Len(T) \in Nat
    BY Split
  <2> DEFINE below == Len(T)
             height == Len(stack[t])
  <2>2. below = height - 1 /\ height \in Nat /\ height > 1
    BY <2>1
  <2> HIDE DEF T, below, height
  <2>3. below # 0
    BY <2>2
  <2>4. T = <<>> => below = 0
    BY DEF below
  <2> QED
    BY <2>3, <2>4
<1> HIDE DEF T
<1>5. Head(T) = stack[t][2] /\ Tail(T) = SubSeq(stack[t], 3, Len(stack[t]))
  BY <1>1, <1>2, <1>3, <1>4, HeadTailOfSubSeq
<1>6. Unwound(t, "panic") = <<[Head(T) EXCEPT !.at = "publish", !.res = "panic"]>> \o Tail(T)
  BY <1>5 DEF Unwound
<1> QED
  BY <1>4, <1>6 DEF T

\* ... and to that of its own.
LEMMA UnwoundStack ==
  ASSUME Initialization, NEW t \in Threads, stack[t] # <<>>,
         Head(stack[t]).at \notin Winning, NEW r, NEW X, X = Unwound(t, r)
  PROVE  /\ X \in Seq(Activations)
         /\ X # <<>> => /\ AllReturning(Tail(X))
                        /\ Head(X).at = "publish" => Head(X).res = "panic"
                        /\ Head(X).at # "notify"
         /\ \A d : Has(X, d) <=> Has(stack[t], d)
         /\ Once(X)
         /\ r # "panic" => X = Tail(stack[t])
<1> DEFINE T == Tail(stack[t])
<1>1. /\ stack[t] \in Seq(Activations) /\ T \in Seq(Activations)
      /\ \A d : Has(stack[t], d) <=> Wins(Head(stack[t]), d) \/ Has(T, d)
      /\ Once(T) /\ AllReturning(T)
  BY Innermost DEF Initialization, Typed
<1>2. \A d : Has(stack[t], d) <=> Has(T, d)
  BY <1>1 DEF Wins
<1>3. CASE ~(r = "panic" /\ Len(stack[t]) > 1)
  <2>1. X = T
    BY <1>3 DEF Unwound
  <2>2. T # <<>> => Head(T).at \in Returning /\ AllReturning(Tail(T))
    BY <1>1, ReturningBelow
  <2> HIDE DEF T
  <2>3. T # <<>> => Head(T).at \notin {"publish", "notify"}
    BY <2>2 DEF Returning
  <2> QED
    BY <1>1, <1>2, <2>1, <2>2, <2>3 DEF T
<1>4. CASE r = "panic" /\ Len(stack[t]) > 1
  <2> DEFINE b == [Head(T) EXCEPT !.at = "publish", !.res = "panic"]
             B == Tail(T)
  <2>1. T # <<>> /\ Unwound(t, r) = <<b>> \o B
    BY <1>1, <1>4, PanicPasses
  <2>2. X = <<b>> \o B
    BY <2>1
  <2>3. Head(T) \in Activations /\ B \in Seq(Activations) /\ T = <<Head(T)>> \o B
    BY <1>1, <2>1, Split
  <2>4. Head(T).at \in Returning /\ AllReturning(B)
    BY <1>1, <2>1, ReturningBelow
  <2>5. /\ b \in Activations /\ b.at = "publish" /\ b.res = "panic"
        /\ b.cls = Head(T).cls
    BY <2>3 DEF Activations, Labels, Winning, Results
  <2>6. \A d : Wins(b, d) <=> Wins(Head(T), d)
    BY <2>4, <2>5 DEF Wins, Returning, Winning
  <2>7. /\ \A d : Has(T, d) <=> Wins(Head(T), d) \/ Has(B, d)
        /\ Once(B) /\ \A d : ~(Wins(Head(T), d) /\ Has(B, d))
    BY <1>1, <2>1, Peeled
  <2> HIDE DEF T, b, B
  <2>8. /\ X \in Seq(Activations) /\ X # <<>> /\ Head(X) = b /\ Tail(X) = B
        /\ \A d : Has(X, d) <=> Has(T, d)
        /\ Once(X)
    BY <2>2, <2>3, <2>5, <2>6, <2>7, Pushed
  <2> QED
    BY <1>2, <1>4, <2>4, <2>5, <2>8
<1> QED
  BY <1>3, <1>4

\* The waiters of the class are woken and the activation ends.
LEMMA NotifyKeeps ==
  ASSUME Initialization, NEW t \in Threads, NotifyWaiters(t)
  PROVE  Initialization'
<1> DEFINE r == Wrapped(Head(stack[t]).res)
<1>1. /\ stack[t] # <<>> /\ Head(stack[t]).at = "notify"
      /\ stack' = [u \in Threads |-> IF u = t THEN Unwound(t, r) ELSE Awake(u, Cls(t))]
      /\ ret' = [ret EXCEPT ![t] = r]
      /\ UNCHANGED <<state, initOwner, statics>>
  BY DEF NotifyWaiters, At
<1>2. r \in Results
  <2>1. Head(stack[t]) \in Activations
    BY <1>1, Innermost
  <2> QED
    BY <2>1 DEF Activations, Results, Wrapped
<1>3. stack'[t] = Unwound(t, r) /\ \A u \in Threads \ {t} : stack'[u] = Awake(u, Cls(t))
  BY <1>1
<1> HIDE DEF r
<1>4. Head(stack[t]).at \notin Winning
  BY <1>1 DEF Winning
<1>5. /\ stack'[t] \in Seq(Activations)
      /\ stack'[t] # <<>> => /\ AllReturning(Tail(stack'[t]))
                             /\ Head(stack'[t]).at = "publish" => Head(stack'[t]).res = "panic"
                             /\ Head(stack'[t]).at # "notify"
      /\ \A d : Has(stack'[t], d) <=> Has(stack[t], d)
      /\ Once(stack'[t])
  BY <1>1, <1>3, <1>4, UnwoundStack
<1>6. ASSUME NEW u \in Threads, u # t
      PROVE  /\ stack'[u] \in Seq(Activations)
             /\ stack'[u] # <<>> <=> stack[u] # <<>>
             /\ stack'[u] # <<>> => Tail(stack'[u]) = Tail(stack[u])
             /\ stack'[u] # <<>> =>
                  Head(stack'[u]) = Head(stack[u]) \/ Head(stack'[u]).at = "check"
             /\ \A d : Has(stack'[u], d) <=> Has(stack[u], d)
             /\ Once(stack'[u])
  BY <1>3, <1>6, Woken
<1>7. Typed'
  <2>1. stack' \in [Threads -> Seq(Activations)]
    BY <1>1, <1>5, <1>6
  <2> QED
    BY <1>1, <1>2, <2>1 DEF Initialization, Typed
<1>8. Nesting'
  BY <1>5, <1>6 DEF Initialization, Nesting
<1>9. Ownership'
  BY <1>1, <1>5, <1>6, NobodyWins DEF Initialization
<1>10. Outcomes'
  <2>1. ASSUME NEW u \in Threads, stack'[u] # <<>> PROVE Earned(Head(stack[u]))'
    <3>1. CASE u = t
      BY <1>5, <2>1, <3>1 DEF Earned
    <3>2. CASE u # t
      BY <1>1, <1>6, <2>1, <3>2 DEF Earned, Initialization, Outcomes
    <3> QED
      BY <3>1, <3>2
  <2> QED
    BY <1>1, <2>1 DEF Initialization, Outcomes
<1> QED
  BY <1>7, <1>8, <1>9, <1>10 DEF Initialization

-----------------------------------------------------------------------------
\* Initially nobody has won anything.
LEMMA InitializationInit == Init => Initialization
<1> SUFFICES ASSUME Init PROVE Initialization
  OBVIOUS
<1>1. \A t \in Threads : stack[t] = <<>>
  BY DEF Init
<1>2. Typed
  BY ClassInitAssumption DEF Init, Typed, Results
<1>3. Ownership
  BY <1>1, Empty DEF Init, Ownership
<1> QED
  BY <1>1, <1>2, <1>3 DEF Initialization, Nesting, Outcomes, Init

\* Every step keeps Initialization: each is a push, a pop or a change on top.
LEMMA InitializationStep == Initialization /\ [Next]_vars => Initialization'
<1> SUFFICES ASSUME Initialization, [Next]_vars PROVE Initialization'
  OBVIOUS
<1> DEFINE h(t) == Head(stack[t])
<1>1. ASSUME NEW t \in Threads, stack[t] # <<>>
      PROVE  /\ h(t) \in Activations /\ Cls(t) = h(t).cls /\ Cls(t) \in Classes
             /\ h(t).cls \in Classes /\ h(t).todo \in Seq(Classes) /\ ret[t] \in Results
  BY <1>1, Innermost DEF Cls, Activations, Initialization, Typed
<1>2. statics \in [Classes -> {"default", "constants", "initialized"}]
  BY DEF Initialization, Typed
<1> USE DEF At, InternalStep
<1>3. ASSUME NEW t \in Threads, NEW l \in Labels, stack[t] # <<>>, GoTo(t, l),
             l \in Winning <=> h(t).at \in Winning, l \notin {"publish", "notify"},
             UNCHANGED <<state, initOwner, statics, ret>>
      PROVE  Initialization'
  <2> DEFINE b == [h(t) EXCEPT !.at = l]
  <2>1. b \in Activations /\ b.cls = Cls(t) /\ b.at = l
    BY <1>1, <1>3 DEF Activations, Labels
  <2>2. Become(t, b)
    BY <1>3 DEF GoTo
  <2> HIDE DEF b
  <2> QED
    BY <1>2, <1>3, <2>1, <2>2, GoesOn
<1>4. ASSUME NEW t \in Threads, NEW r \in Results \ {"ok"}, stack[t] # <<>>, Fail(t, r),
             h(t).at \in Winning, UNCHANGED <<state, initOwner, statics, ret>>
      PROVE  Initialization'
  <2> DEFINE b == [h(t) EXCEPT !.at = "publish", !.res = r]
  <2>1. b \in Activations /\ b.cls = Cls(t) /\ b.at = "publish" /\ b.res = r
    BY <1>1, <1>4 DEF Activations, Labels, Winning
  <2>2. Become(t, b)
    BY <1>4 DEF Fail
  <2>3. b.at \in Winning
    BY <2>1 DEF Winning
  <2> HIDE DEF b
  <2> QED
    BY <1>2, <1>4, <2>1, <2>2, <2>3, GoesOn
<1>5. ASSUME NEW t \in Threads, FindDone(t) \/ FindFailed(t) \/ Reenter(t)
      PROVE  Initialization'
  BY <1>5, Returns DEF FindDone, FindFailed, Reenter, Results
<1>6. ASSUME NEW t \in Threads, WaitForOther(t) \/ SpuriousWakeup(t)
      PROVE  Initialization'
  BY <1>3, <1>6 DEF WaitForOther, SpuriousWakeup, Labels, Winning
<1>7. ASSUME NEW t \in Threads, InitSuper(t)
      PROVE  Initialization'
  <2>1. stack[t] # <<>> /\ h(t).at = "super" /\ UNCHANGED <<state, initOwner, statics, ret>>
    BY <1>7 DEF InitSuper
  <2>2. CASE Super[Cls(t)] = None
    BY <1>3, <1>7, <2>1, <2>2 DEF InitSuper, Labels, Winning
  <2>3. CASE Super[Cls(t)] # None
    <3> DEFINE a == [h(t) EXCEPT !.at = "superReturns"]
    <3>1. Super[Cls(t)] \in Classes
      BY <1>1, <2>1, <2>3, ClassInitAssumption
    <3>2. a \in Activations /\ a.cls = Cls(t) /\ a.at \in Returning
      BY <1>1, <2>1 DEF Activations, Labels, Winning, Returning
    <3>3. CallFrom(t, a, Super[Cls(t)])
      BY <1>7, <2>3 DEF InitSuper
    <3>4. h(t).at \in Winning
      BY <2>1 DEF Winning
    <3> HIDE DEF a
    <3> QED
      BY <2>1, <3>1, <3>2, <3>3, <3>4, CallsAnother
  <2> QED
    BY <2>2, <2>3
<1>8. ASSUME NEW t \in Threads, SuperReturns(t)
      PROVE  Initialization'
  <2>1. /\ stack[t] # <<>> /\ h(t).at = "superReturns"
        /\ UNCHANGED <<state, initOwner, statics, ret>>
        /\ GoTo(t, "constants") \/ (ret[t] # "ok" /\ Fail(t, ret[t]))
    BY <1>8 DEF SuperReturns
  <2> QED
    BY <1>1, <1>3, <1>4, <2>1 DEF Labels, Winning
<1>9. ASSUME NEW t \in Threads, UseReturns(t)
      PROVE  Initialization'
  <2>1. /\ stack[t] # <<>> /\ h(t).at = "useReturns"
        /\ UNCHANGED <<state, initOwner, statics, ret>>
        /\ GoTo(t, "clinit") \/ (ret[t] # "ok" /\ Fail(t, ret[t]))
    BY <1>9 DEF UseReturns
  <2> QED
    BY <1>1, <1>3, <1>4, <2>1 DEF Labels, Winning
<1>10. ASSUME NEW t \in Threads, ApplyConstantValues(t)
       PROVE  Initialization'
  <2> DEFINE b == [h(t) EXCEPT !.at = "clinit", !.todo = Uses[Cls(t)]]
  <2>1. /\ stack[t] # <<>> /\ h(t).at = "constants"
        /\ UNCHANGED <<state, initOwner, ret>>
        /\ statics' = [statics EXCEPT ![Cls(t)] = "constants"]
        /\ Become(t, b)
    BY <1>10 DEF ApplyConstantValues
  <2>2. b \in Activations /\ b.cls = Cls(t) /\ b.at = "clinit"
    BY <1>1, <2>1, ClassInitAssumption DEF Activations, Labels, Winning
  <2>3. b.at \in Winning /\ h(t).at \in Winning
    BY <2>1, <2>2 DEF Winning
  <2> HIDE DEF b
  <2> QED
    BY <1>1, <1>2, <2>1, <2>2, <2>3, GoesOn
<1>11. ASSUME NEW t \in Threads, ClinitUses(t)
       PROVE  Initialization'
  <2> DEFINE a == [h(t) EXCEPT !.at = "useReturns", !.todo = Tail(@)]
             c == Head(h(t).todo)
  <2>1. /\ stack[t] # <<>> /\ h(t).at = "clinit" /\ h(t).todo # <<>>
        /\ UNCHANGED <<state, initOwner, statics, ret>>
        /\ CallFrom(t, a, c)
    BY <1>11 DEF ClinitUses
  <2>2. c \in Classes /\ Tail(h(t).todo) \in Seq(Classes)
    BY <1>1, <2>1
  <2>3. a \in Activations /\ a.cls = Cls(t) /\ a.at \in Returning
    BY <1>1, <2>1, <2>2 DEF Activations, Labels, Winning, Returning
  <2>4. h(t).at \in Winning
    BY <2>1 DEF Winning
  <2> HIDE DEF a, c
  <2> QED
    BY <2>1, <2>2, <2>3, <2>4, CallsAnother
<1>12. ASSUME NEW t \in Threads, ClinitThrows(t) \/ ClinitPanics(t)
       PROVE  Initialization'
  BY <1>4, <1>12 DEF ClinitThrows, ClinitPanics, Results, Winning
<1>13. ASSUME NEW t \in Threads, ClinitCompletes(t)
       PROVE  Initialization'
  <2> DEFINE b == [h(t) EXCEPT !.at = "publish"]
  <2>1. /\ stack[t] # <<>> /\ h(t).at = "clinit"
        /\ UNCHANGED <<state, initOwner, ret>>
        /\ statics' = [statics EXCEPT ![Cls(t)] = "initialized"]
        /\ Become(t, b)
    BY <1>13 DEF ClinitCompletes, GoTo
  <2>2. b \in Activations /\ b.cls = Cls(t) /\ b.at = "publish"
    BY <1>1, <2>1 DEF Activations, Labels, Winning
  <2>3. b.at \in Winning /\ h(t).at \in Winning
    BY <2>1, <2>2 DEF Winning
  <2>4. statics'[Cls(t)] = "initialized"
    BY <1>1, <1>2, <2>1
  <2> HIDE DEF b
  <2> QED
    BY <1>1, <1>2, <2>1, <2>2, <2>3, <2>4, GoesOn
<1>14. CASE UNCHANGED vars
  BY <1>14 DEF vars, Initialization, Typed, Nesting, Ownership, Outcomes, Earned
<1> QED
  BY <1>5, <1>6, <1>7, <1>8, <1>9, <1>10, <1>11, <1>12, <1>13, <1>14,
     CallKeeps, WinKeeps, PublishKeeps, NotifyKeeps DEF Next, Continue

-----------------------------------------------------------------------------
\* One owner per class in progress makes one initializer per class.
LEMMA OneWinner == Initialization => OneInitializer
<1> SUFFICES ASSUME Initialization PROVE OneInitializer
  OBVIOUS
<1>1. \A t \in Threads, c \in Classes : Initializing(t, c) <=> Has(stack[t], c)
  BY DEF Initializing, Has, Wins
<1>2. ASSUME NEW c \in Classes PROVE Cardinality(Winners(c)) <= 1
  <2>1. ASSUME NEW p \in Winners(c), NEW q \in Winners(c) PROVE p = q
    <3>1. PICK t \in Threads : \E i \in DOMAIN stack[t] : p = <<t, i>> /\ Wins(stack[t][i], c)
      BY DEF Winners, Wins
    <3>2. PICK i \in DOMAIN stack[t] : p = <<t, i>> /\ Wins(stack[t][i], c)
      BY <3>1
    <3>3. PICK u \in Threads : \E j \in DOMAIN stack[u] : q = <<u, j>> /\ Wins(stack[u][j], c)
      BY DEF Winners, Wins
    <3>4. PICK j \in DOMAIN stack[u] : q = <<u, j>> /\ Wins(stack[u][j], c)
      BY <3>3
    <3>5. t = u
      BY <3>2, <3>4 DEF Initialization, Ownership, Has
    <3>6. i = j
      BY <3>2, <3>4, <3>5 DEF Once, Initialization, Ownership
    <3> QED
      BY <3>2, <3>4, <3>5, <3>6
  <2>2. CASE Winners(c) = {}
    BY <2>2, FS_EmptySet
  <2>3. CASE Winners(c) # {}
    <3>1. PICK p : Winners(c) = {p}
      BY <2>1, <2>3
    <3> QED
      BY <3>1, FS_Singleton
  <2> QED
    BY <2>2, <2>3
<1> QED
  BY <1>1, <1>2 DEF OneInitializer, Initialization, Ownership

\* Only one thread, once, initializes a class, whatever uses whatever.
THEOREM OnlyOneInitializes == Spec => []OneInitializer
BY OneWinner, InitializationInit, InitializationStep, PTL DEF Spec

\* A class that is Done or Failed has no winner, and only its winner publishes.
LEMMA FinalStep ==
  Initialization /\ [Next]_vars =>
    [\A c \in Classes : state[c] \in {"Done", "Failed"} => state'[c] = state[c]]_vars
<1> SUFFICES ASSUME Initialization, Next, NEW c \in Classes,
                    state[c] \in {"Done", "Failed"}
             PROVE  state'[c] = state[c]
  OBVIOUS
<1>1. ASSUME NEW t \in Threads, Win(t) PROVE state'[c] = state[c]
  BY <1>1 DEF Win, Winnable, Initialization, Typed
<1>2. ASSUME NEW t \in Threads, Publish(t) PROVE state'[c] = state[c]
  <2>1. stack[t] # <<>> /\ Head(stack[t]).at = "publish"
    BY <1>2 DEF Publish, At
  <2>2. Cls(t) \in Classes /\ \A d : Wins(Head(stack[t]), d) => Has(stack[t], d)
    BY <2>1, Innermost
  <2>3. Wins(Head(stack[t]), Cls(t))
    BY <2>1 DEF Wins, Winning, Cls
  <2>4. state[Cls(t)] = "InProgress"
    BY <2>2, <2>3 DEF Initialization, Ownership
  <2> QED
    BY <1>2, <2>2, <2>4 DEF Publish, Initialization, Typed
<1>3. ASSUME NEW t \in Threads, ~Win(t), ~Publish(t),
             (\E d \in Classes : Call(t, d)) \/ Continue(t) \/ SpuriousWakeup(t)
      PROVE  state' = state
  BY <1>3 DEF Continue, Call, FindDone, FindFailed, Reenter, Return, WaitForOther,
     InitSuper, SuperReturns, ApplyConstantValues, ClinitUses, UseReturns,
     ClinitThrows, ClinitCompletes, ClinitPanics, NotifyWaiters, SpuriousWakeup,
     InternalStep
<1> QED
  BY <1>1, <1>2, <1>3 DEF Next

\* The outcome of an initialization is final.
THEOREM OutcomesAreFinal == Spec => OutcomeIsFinal
BY InitializationInit, InitializationStep, FinalStep, PTL DEF Spec, OutcomeIsFinal

-----------------------------------------------------------------------------
\* What a use finds when it returns normally.
LEMMA FoundDone ==
  ASSUME Initialization, NEW t \in Threads, stack[t] # <<>>, state[Cls(t)] = "Done"
  PROVE  InitializedFor(t, Cls(t))
BY Innermost DEF InitializedFor, Initialization, Outcomes

\* A thread that finds itself the owner is initializing the class.
LEMMA FoundOneself ==
  ASSUME Initialization, NEW t \in Threads, Reenter(t)
  PROVE  InitializedFor(t, Cls(t))
<1>1. /\ stack[t] # <<>> /\ Head(stack[t]).at = "check"
      /\ state[Cls(t)] = "InProgress" /\ initOwner[Cls(t)] = t
  BY DEF Reenter, At
<1>2. /\ Cls(t) \in Classes /\ stack[t] \in Seq(Activations)
  BY <1>1, Innermost DEF Initialization, Typed
<1>3. Has(stack[t], Cls(t))
  BY <1>1, <1>2 DEF Initialization, Ownership
<1>4. PICK i \in DOMAIN stack[t] : Wins(stack[t][i], Cls(t))
  BY <1>3 DEF Has
<1>5. i # 1
  BY <1>1, <1>2, <1>4 DEF Wins, Winning
<1> QED
  BY <1>2, <1>4, <1>5 DEF InitializedFor, Wins

\* Only these steps take an activation off a stack and return normally.
LEMMA WhoSucceeds ==
  ASSUME Initialization, Next, NEW u \in Threads, UseSucceeds(u)
  PROVE  FindDone(u) \/ Reenter(u) \/ (NotifyWaiters(u) /\ ret'[u] = "ok")
<1> DEFINE T == Tail(stack[u])
<1>1. /\ stack[u] # <<>> /\ stack'[u] = T /\ ret'[u] = "ok"
      /\ T \in Seq(Activations) /\ stack[u] \in Seq(Activations)
      /\ Head(stack[u]) \in Activations
      /\ Len(stack[u]) = Len(T) + 1 /\ Len(T) \in Nat
      /\ stack \in [Threads -> Seq(Activations)]
      /\ ret \in [Threads -> Results]
  <2>1. stack[u] \in Seq(Activations) /\ stack[u] # <<>>
    BY DEF UseSucceeds, Initialization, Typed
  <2> QED
    BY <2>1, Split DEF UseSucceeds, Initialization, Typed
<1>2. stack'[u] # stack[u]
  <2> HIDE DEF T
  <2> QED
    BY <1>1
<1>3. ASSUME NEW b PROVE <<b>> \o T # T
  <2>1. Len(<<b>> \o T) = Len(T) + 1
    BY <1>1
  <2> HIDE DEF T
  <2> QED
    BY <1>1, <2>1
<1>4. ASSUME NEW a, NEW b PROVE <<a, b>> \o T # T
  <2>1. Len(<<a, b>> \o T) = Len(T) + 2
    BY <1>1
  <2> HIDE DEF T
  <2> QED
    BY <1>1, <2>1
<1>5. ASSUME NEW t \in Threads, NEW b PROVE ~Become(t, b)
  <2>1. CASE t = u
    BY <1>1, <1>3, <2>1 DEF Become
  <2>2. CASE t # u
    BY <1>1, <1>2, <2>2 DEF Become
  <2> QED
    BY <2>1, <2>2
<1>6. ASSUME NEW t \in Threads, NEW a, NEW c PROVE ~CallFrom(t, a, c)
  <2>1. CASE t = u
    <3>1. CallFrom(t, a, c) => stack'[u] = <<NewActivation(c), a>> \o T
      BY <1>1, <2>1 DEF CallFrom
    <3>2. <<NewActivation(c), a>> \o T # T
      BY <1>4
    <3> QED
      BY <1>1, <3>1, <3>2
  <2>2. CASE t # u
    BY <1>1, <1>2, <2>2 DEF CallFrom
  <2> QED
    BY <2>1, <2>2
<1>7. ASSUME NEW t \in Threads, NEW r, Return(t, r) PROVE t = u /\ r = "ok"
  <2>1. t = u
    BY <1>1, <1>2, <1>7 DEF Return
  <2> QED
    BY <1>1, <1>7, <2>1 DEF Return
<1>8. ASSUME NEW t \in Threads, NEW c, Call(t, c) PROVE FALSE
  BY <1>1, <1>2, <1>8 DEF Call
<1>9. ASSUME NEW t \in Threads, NotifyWaiters(t) PROVE t = u
  <2> SUFFICES ASSUME t # u PROVE FALSE
    OBVIOUS
  <2>1. stack'[u] = Awake(u, Cls(t))
    BY <1>9 DEF NotifyWaiters
  <2> QED
    BY <1>1, <1>2, <1>3, <2>1 DEF Awake
<1> HIDE DEF T
<1>10. PICK t \in Threads : (\E c \in Classes : Call(t, c)) \/ Continue(t) \/ SpuriousWakeup(t)
  BY DEF Next
<1>11. FindDone(t) \/ FindFailed(t) \/ Reenter(t) \/ NotifyWaiters(t)
  BY <1>5, <1>6, <1>8, <1>10 DEF Continue, WaitForOther, Win, InitSuper, SuperReturns,
     ApplyConstantValues, ClinitUses, UseReturns, ClinitThrows, ClinitCompletes,
     ClinitPanics, Publish, SpuriousWakeup, GoTo, Fail
<1>12. ~FindFailed(t)
  BY <1>7 DEF FindFailed
<1> QED
  BY <1>1, <1>7, <1>9, <1>11, <1>12 DEF FindDone, Reenter

\* Whenever a use succeeds, the class is initialized for its thread.
LEMMA SucceedsWhenInitialized ==
  ASSUME Initialization, Next, NEW t \in Threads, UseSucceeds(t)
  PROVE  InitializedFor(t, Cls(t))
<1>1. CASE FindDone(t)
  BY <1>1, FoundDone DEF FindDone, At
<1>2. CASE Reenter(t)
  BY <1>2, FoundOneself
<1>3. CASE NotifyWaiters(t) /\ ret'[t] = "ok"
  <2>1. stack[t] # <<>> /\ Head(stack[t]).at = "notify"
    BY <1>3 DEF NotifyWaiters, At
  <2>2. Head(stack[t]).res = "ok"
    BY <1>3 DEF NotifyWaiters, Wrapped, Initialization, Typed
  <2> QED
    BY <2>1, <2>2, FoundDone DEF Initialization, Outcomes, Earned, Cls
<1> QED
  BY <1>1, <1>2, <1>3, WhoSucceeds

\* Nobody sees a class that is half initialized, but its own initializer.
THEOREM UsersAlwaysSeeInitializedClass == Spec => UsersSeeInitializedClass
<1>1. Initialization /\ [Next]_vars =>
        [\A t \in Threads : UseSucceeds(t) => InitializedFor(t, Cls(t))]_vars
  BY SucceedsWhenInitialized
<1> QED
  BY <1>1, InitializationInit, InitializationStep, PTL DEF Spec, UsersSeeInitializedClass

-----------------------------------------------------------------------------
(* Superclasses.  Past its superclass, an activation has found it          *)
(* initialized, or being initialized by an activation below.               *)

BeforeConstants == {"super", "superReturns", "constants"}
Past(a) ==
  a.at \in {"constants", "clinit", "useReturns"} \/ (a.at = "publish" /\ a.res = "ok")

\* The activations of s, when d are the states and f the fields of the classes.
Nested(d, f, s) ==
  \A i \in DOMAIN s :
    /\ s[i].at \in BeforeConstants => f[s[i].cls] # "initialized"
    /\ Past(s[i]) => \/ Super[s[i].cls] = None \/ d[Super[s[i].cls]] = "Done"
                     \/ \E j \in DOMAIN s : j >= i /\ Wins(s[j], Super[s[i].cls])
    /\ s[i].at = "superReturns" => /\ Super[s[i].cls] \in Classes
                                   /\ i > 1 => s[i - 1].cls = Super[s[i].cls]

\* What that asks of an activation a on top of s.
OnTop(d, f, a, s) ==
  /\ a.at \in BeforeConstants => f[a.cls] # "initialized"
  /\ Past(a) => \/ Super[a.cls] = None \/ d[Super[a.cls]] = "Done"
                \/ Wins(a, Super[a.cls]) \/ Has(s, Super[a.cls])
  /\ a.at = "superReturns" => Super[a.cls] \in Classes
  /\ s # <<>> /\ Head(s).at = "superReturns" => a.cls = Super[Head(s).cls]

\* The use of its superclass that the innermost activation of t made has succeeded.
SuperFound(t) ==
  \/ state[Super[Cls(t)]] = "Done"
  \/ Has(stack[t], Super[Cls(t)])

\* What is left of a <clinit> are uses of its class.
Pending(a) == \A k \in DOMAIN a.todo : \E m \in DOMAIN Uses[a.cls] : a.todo[k] = Uses[a.cls][m]

\* An activation is of a class to which those below lead.
Led(s) ==
  /\ \A i \in DOMAIN s : Pending(s[i])
  /\ \A Z \in SUBSET Classes : ClosedUnderUse(Z) =>
       \A i, j \in DOMAIN s : i <= j /\ s[j].cls \in Z => s[i].cls \in Z

Follows(a, s) ==
  s # <<>> => \A Z \in SUBSET Classes : ClosedUnderUse(Z) /\ Head(s).cls \in Z => a.cls \in Z

Fits(d, f, s) == Nested(d, f, s) /\ Led(s)
FitsOn(d, f, a, s) == OnTop(d, f, a, s) /\ Pending(a) /\ Follows(a, s)

Hierarchy ==
  /\ \A c \in Classes : state[c] = "NotStarted" => statics[c] # "initialized"
  /\ \A t \in Threads : Fits(state, statics, stack[t])
  /\ \A t \in Threads : At(t, "superReturns") /\ ret[t] = "ok" => SuperFound(t)

\* An activation more, or one less.
LEMMA NestedPushed ==
  ASSUME NEW d, NEW f, NEW a \in Activations, NEW s \in Seq(Activations)
  PROVE  Nested(d, f, <<a>> \o s) <=> Nested(d, f, s) /\ OnTop(d, f, a, s)
<1> DEFINE p == <<a>> \o s
<1>1. /\ DOMAIN p = 1..(Len(s) + 1) /\ DOMAIN s = 1..Len(s) /\ Len(s) \in Nat
      /\ p[1] = a /\ \A i \in DOMAIN s : p[i + 1] = s[i]
      /\ s # <<>> => 1 \in DOMAIN s /\ Head(s) = s[1]
  OBVIOUS
<1>2. \A i \in DOMAIN p : i = 1 \/ (i - 1 \in DOMAIN s /\ p[i] = s[i - 1])
  BY <1>1
<1>3. \A i \in DOMAIN s : i + 1 \in DOMAIN p /\ i \in Nat \ {0}
  BY <1>1
<1> HIDE DEF p
<1>4. ASSUME Nested(d, f, p) PROVE Nested(d, f, s) /\ OnTop(d, f, a, s)
  <2>1. ASSUME NEW i \in DOMAIN s, Past(s[i]), Super[s[i].cls] # None,
               d[Super[s[i].cls]] # "Done"
        PROVE  \E j \in DOMAIN s : j >= i /\ Wins(s[j], Super[s[i].cls])
    <3>1. PICK k \in DOMAIN p : k >= i + 1 /\ Wins(p[k], Super[p[i + 1].cls])
      BY <1>1, <1>3, <1>4, <2>1 DEF Nested
    <3>2. k - 1 \in DOMAIN s /\ p[k] = s[k - 1] /\ k - 1 >= i
      BY <1>1, <1>2, <1>3, <3>1
    <3> QED
      BY <1>1, <3>1, <3>2
  <2>2. ASSUME NEW i \in DOMAIN s, s[i].at = "superReturns"
        PROVE  Super[s[i].cls] \in Classes /\ (i > 1 => s[i - 1].cls = Super[s[i].cls])
    <3>1. /\ Super[p[i + 1].cls] \in Classes /\ i + 1 \in DOMAIN p
          /\ i + 1 > 1 => p[i + 1 - 1].cls = Super[p[i + 1].cls]
      BY <1>1, <1>3, <1>4, <2>2 DEF Nested
    <3>2. i > 1 => i - 1 \in DOMAIN s /\ p[i - 1 + 1] = s[i - 1] /\ i - 1 + 1 = i
      BY <1>1
    <3> QED
      BY <1>1, <1>3, <3>1, <3>2
  <2>3. \A i \in DOMAIN s : s[i].at \in BeforeConstants => f[s[i].cls] # "initialized"
    BY <1>1, <1>3, <1>4 DEF Nested
  <2>4. Nested(d, f, s)
    BY <2>1, <2>2, <2>3 DEF Nested
  <2>5. 1 \in DOMAIN p
    BY <1>1
  <2>6. ASSUME Past(a) PROVE \/ Super[a.cls] = None \/ d[Super[a.cls]] = "Done"
                             \/ Wins(a, Super[a.cls]) \/ Has(s, Super[a.cls])
    <3> SUFFICES ASSUME NEW k \in DOMAIN p, Wins(p[k], Super[a.cls])
                 PROVE  Wins(a, Super[a.cls]) \/ Has(s, Super[a.cls])
      BY <1>1, <1>4, <2>5, <2>6 DEF Nested
    <3> QED
      BY <1>1, <1>2 DEF Has
  <2>7. s # <<>> /\ Head(s).at = "superReturns" => a.cls = Super[Head(s).cls]
    <3> SUFFICES ASSUME s # <<>>, Head(s).at = "superReturns" PROVE a.cls = Super[Head(s).cls]
      OBVIOUS
    <3>1. 2 \in DOMAIN p /\ p[2] = Head(s) /\ 2 > 1 /\ p[2 - 1] = a
      BY <1>1, <1>3
    <3> QED
      BY <1>4, <3>1 DEF Nested
  <2>8. /\ a.at \in BeforeConstants => f[a.cls] # "initialized"
        /\ a.at = "superReturns" => Super[a.cls] \in Classes
    BY <1>1, <1>4, <2>5 DEF Nested
  <2> QED
    BY <2>4, <2>6, <2>7, <2>8 DEF OnTop
<1>5. ASSUME Nested(d, f, s), OnTop(d, f, a, s) PROVE Nested(d, f, p)
  <2> SUFFICES ASSUME NEW i \in DOMAIN p
               PROVE  /\ p[i].at \in BeforeConstants => f[p[i].cls] # "initialized"
                      /\ Past(p[i]) => \/ Super[p[i].cls] = None \/ d[Super[p[i].cls]] = "Done"
                                       \/ \E j \in DOMAIN p : j >= i /\ Wins(p[j], Super[p[i].cls])
                      /\ p[i].at = "superReturns" => /\ Super[p[i].cls] \in Classes
                                                     /\ i > 1 => p[i - 1].cls = Super[p[i].cls]
    BY DEF Nested
  <2>1. CASE i = 1
    <3>1. Has(s, Super[a.cls]) => \E j \in DOMAIN p : j >= 1 /\ Wins(p[j], Super[a.cls])
      <4> SUFFICES ASSUME NEW k \in DOMAIN s, Wins(s[k], Super[a.cls])
                   PROVE  \E j \in DOMAIN p : j >= 1 /\ Wins(p[j], Super[a.cls])
        BY DEF Has
      <4>1. k + 1 \in DOMAIN p /\ k + 1 >= 1 /\ p[k + 1] = s[k]
        BY <1>1, <1>3
      <4> QED
        BY <4>1
    <3>2. Wins(a, Super[a.cls]) => \E j \in DOMAIN p : j >= 1 /\ Wins(p[j], Super[a.cls])
      BY <1>1, <2>1
    <3> QED
      BY <1>1, <1>5, <2>1, <3>1, <3>2 DEF OnTop
  <2>2. CASE i # 1
    <3>1. i - 1 \in DOMAIN s /\ p[i] = s[i - 1]
      BY <1>2, <2>2
    <3>2. (\E j \in DOMAIN s : j >= i - 1 /\ Wins(s[j], Super[p[i].cls]))
            => \E j \in DOMAIN p : j >= i /\ Wins(p[j], Super[p[i].cls])
      <4> SUFFICES ASSUME NEW k \in DOMAIN s, k >= i - 1, Wins(s[k], Super[p[i].cls])
                   PROVE  \E j \in DOMAIN p : j >= i /\ Wins(p[j], Super[p[i].cls])
        OBVIOUS
      <4>1. k + 1 \in DOMAIN p /\ k + 1 >= i /\ p[k + 1] = s[k]
        BY <1>1, <1>3
      <4> QED
        BY <4>1
    <3>3. p[i].at = "superReturns" => p[i - 1].cls = Super[p[i].cls]
      <4>1. CASE i - 1 = 1
        <5>1. s # <<>> /\ p[i - 1] = a /\ p[i] = Head(s)
          BY <1>1, <3>1, <4>1
        <5> QED
          BY <1>5, <5>1 DEF OnTop
      <4>2. CASE i - 1 # 1
        <5>1. i - 1 > 1 /\ i - 2 \in DOMAIN s /\ p[i - 2 + 1] = s[i - 2] /\ i - 2 + 1 = i - 1 /\ i - 1 - 1 = i - 2
          BY <1>1, <3>1, <4>2
        <5> QED
          BY <1>5, <3>1, <5>1 DEF Nested
      <4> QED
        BY <4>1, <4>2
    <3> QED
      BY <1>5, <3>1, <3>2, <3>3 DEF Nested
  <2> QED
    BY <2>1, <2>2
<1> QED
  BY <1>4, <1>5 DEF p

\* The same for the classes that lead to each other.
LEMMA LedPushed ==
  ASSUME NEW a \in Activations, NEW s \in Seq(Activations)
  PROVE  Led(<<a>> \o s) <=> Led(s) /\ Pending(a) /\ Follows(a, s)
<1> DEFINE p == <<a>> \o s
<1>1. /\ DOMAIN p = 1..(Len(s) + 1) /\ DOMAIN s = 1..Len(s) /\ Len(s) \in Nat
      /\ p[1] = a /\ \A i \in DOMAIN s : p[i + 1] = s[i]
      /\ s # <<>> => 1 \in DOMAIN s /\ Head(s) = s[1]
      /\ s = <<>> => DOMAIN s = {}
  OBVIOUS
<1>2. \A i \in DOMAIN p : i = 1 \/ (i - 1 \in DOMAIN s /\ p[i] = s[i - 1])
  BY <1>1
<1>3. /\ \A i \in DOMAIN s : i + 1 \in DOMAIN p /\ i \in Nat \ {0}
      /\ 1 \in DOMAIN p
  BY <1>1
<1> HIDE DEF p
<1>4. ASSUME Led(p) PROVE Led(s) /\ Pending(a) /\ Follows(a, s)
  <2>1. ASSUME NEW Z \in SUBSET Classes, ClosedUnderUse(Z), NEW i \in DOMAIN s, NEW j \in DOMAIN s,
               i <= j, s[j].cls \in Z
        PROVE  s[i].cls \in Z
    <3>1. i + 1 <= j + 1 /\ p[j + 1].cls \in Z
      BY <1>1, <1>3, <2>1
    <3> QED
      BY <1>1, <1>3, <1>4, <2>1, <3>1 DEF Led
  <2>2. Follows(a, s)
    <3> SUFFICES ASSUME s # <<>>, NEW Z \in SUBSET Classes, ClosedUnderUse(Z), Head(s).cls \in Z
                 PROVE  a.cls \in Z
      BY DEF Follows
    <3>1. 2 \in DOMAIN p /\ p[2] = Head(s) /\ 1 <= 2
      BY <1>1, <1>3
    <3> QED
      BY <1>1, <1>3, <1>4, <3>1 DEF Led
  <2>3. Pending(a) /\ \A i \in DOMAIN s : Pending(s[i])
    BY <1>1, <1>3, <1>4 DEF Led
  <2> QED
    BY <2>1, <2>2, <2>3 DEF Led
<1>5. ASSUME Led(s), Pending(a), Follows(a, s) PROVE Led(p)
  <2>1. \A i \in DOMAIN p : Pending(p[i])
    BY <1>1, <1>2, <1>5 DEF Led
  <2>2. ASSUME NEW Z \in SUBSET Classes, ClosedUnderUse(Z), NEW i \in DOMAIN p, NEW j \in DOMAIN p,
               i <= j, p[j].cls \in Z
        PROVE  p[i].cls \in Z
    <3>1. CASE j = 1
      BY <1>1, <2>2, <3>1
    <3>2. CASE j # 1 /\ i = 1
      <4>1. j - 1 \in DOMAIN s /\ p[j] = s[j - 1] /\ 1 <= j - 1 /\ s # <<>>
        BY <1>1, <1>2, <3>2
      <4>2. Head(s).cls \in Z
        BY <1>1, <1>5, <2>2, <4>1 DEF Led
      <4> QED
        BY <1>1, <1>5, <2>2, <3>2, <4>1, <4>2 DEF Follows
    <3>3. CASE j # 1 /\ i # 1
      <4>1. /\ j - 1 \in DOMAIN s /\ p[j] = s[j - 1]
            /\ i - 1 \in DOMAIN s /\ p[i] = s[i - 1] /\ i - 1 <= j - 1
        BY <1>1, <1>2, <2>2, <3>3
      <4> QED
        BY <1>5, <2>2, <4>1 DEF Led
    <3> QED
      BY <3>1, <3>2, <3>3
  <2> QED
    BY <2>1, <2>2 DEF Led
<1> QED
  BY <1>4, <1>5 DEF p

\* Both together.
LEMMA FitsPushed ==
  ASSUME NEW d, NEW f, NEW a \in Activations, NEW s \in Seq(Activations)
  PROVE  Fits(d, f, <<a>> \o s) <=> Fits(d, f, s) /\ FitsOn(d, f, a, s)
<1>1. /\ Nested(d, f, <<a>> \o s) <=> Nested(d, f, s) /\ OnTop(d, f, a, s)
      /\ Led(<<a>> \o s) <=> Led(s) /\ Pending(a) /\ Follows(a, s)
  BY NestedPushed, LedPushed
<1> QED
  BY <1>1 DEF Fits, FitsOn

\* The empty stack asks nothing.
LEMMA FitsEmpty == ASSUME NEW d, NEW f PROVE Fits(d, f, <<>>)
BY DEF Fits, Nested, Led

\* What a step of t leaves alone: final states, classes nobody has begun to
\* initialize, and the fields of the classes that t does not initialize.
Tidy(t) ==
  /\ \A c \in Classes : state[c] = "Done" => state'[c] = "Done"
  /\ \A c \in Classes : state'[c] = "NotStarted" => state[c] = "NotStarted"
  /\ \A c \in Classes : statics'[c] # statics[c] =>
       stack[t] # <<>> /\ Wins(Head(stack[t]), c)

\* A stack still fits when the fields of the classes it initializes stay.
LEMMA FitsLater ==
  ASSUME NEW t \in Threads, Tidy(t), NEW s \in Seq(Activations), Fits(state, statics, s),
         \A c \in Classes : Has(s, c) => statics'[c] = statics[c]
  PROVE  Fits(state', statics', s)
<1>1. ASSUME NEW i \in DOMAIN s
      PROVE  /\ s[i].cls \in Classes
             /\ s[i].at \in BeforeConstants => statics'[s[i].cls] = statics[s[i].cls]
             /\ Super[s[i].cls] = None \/ Super[s[i].cls] \in Classes
  <2>1. s[i] \in Activations
    OBVIOUS
  <2>2. s[i].at \in BeforeConstants => Has(s, s[i].cls)
    BY DEF Has, Wins, BeforeConstants, Winning
  <2> QED
    BY <2>1, <2>2, ClassInitAssumption DEF Activations
<1> QED
  BY <1>1 DEF Tidy, Fits, Nested

\* Below the innermost activation of the thread that steps.
LEMMA FitsBelow ==
  ASSUME Initialization, Hierarchy, NEW t \in Threads, Tidy(t), stack[t] # <<>>
  PROVE  /\ Fits(state', statics', Tail(stack[t]))
         /\ FitsOn(state, statics, Head(stack[t]), Tail(stack[t]))
<1> DEFINE T == Tail(stack[t])
           h == Head(stack[t])
<1>1. /\ h \in Activations /\ T \in Seq(Activations)
      /\ \A c : ~(Wins(h, c) /\ Has(T, c))
      /\ Fits(state, statics, stack[t])
  BY Innermost DEF Hierarchy
<1>2. stack[t] = <<h>> \o T
  BY Split DEF Initialization, Typed
<1>3. \A c \in Classes : Has(T, c) => statics'[c] = statics[c]
  BY <1>1 DEF Tidy
<1> HIDE DEF h, T
<1>4. Fits(state, statics, T) /\ FitsOn(state, statics, h, T)
  BY <1>1, <1>2, FitsPushed
<1>5. Fits(state', statics', T)
  BY <1>1, <1>3, <1>4, FitsLater
<1> QED
  BY <1>4, <1>5 DEF h, T

\* The stack of another thread, whose head may wake up.
LEMMA FitsOthers ==
  ASSUME Initialization, Hierarchy, NEW t \in Threads, Tidy(t), NEW u \in Threads \ {t},
         NEW c, NEW X, X = stack[u] \/ X = Awake(u, c)
  PROVE  Fits(state', statics', X)
<1>1. stack[u] \in Seq(Activations) /\ Fits(state, statics, stack[u])
  BY DEF Initialization, Typed, Hierarchy
<1>2. \A d \in Classes : Has(stack[u], d) => statics'[d] = statics[d]
  <2> SUFFICES ASSUME NEW d \in Classes, Has(stack[u], d), statics'[d] # statics[d] PROVE FALSE
    OBVIOUS
  <2>1. Has(stack[t], d)
    BY Innermost DEF Tidy
  <2> QED
    BY <2>1 DEF Initialization, Ownership
<1>3. Fits(state', statics', stack[u])
  BY <1>1, <1>2, FitsLater
<1>4. CASE At(u, "blocked") /\ Cls(u) = c /\ X = Awake(u, c)
  <2> DEFINE T == Tail(stack[u])
             h == Head(stack[u])
             b == [h EXCEPT !.at = "check"]
  <2>1. h \in Activations /\ T \in Seq(Activations) /\ stack[u] = <<h>> \o T
    BY <1>1, <1>4, Split DEF At
  <2>2. b \in Activations /\ b.cls = h.cls /\ b.todo = h.todo /\ b.at = "check"
    BY <2>1 DEF Activations, Labels
  <2>3. X = <<b>> \o T
    BY <1>4 DEF Awake
  <2> HIDE DEF h, T, b
  <2>4. Fits(state', statics', T) /\ FitsOn(state', statics', h, T)
    BY <1>3, <2>1, FitsPushed
  <2>5. FitsOn(state', statics', b, T)
    BY <2>2, <2>4 DEF FitsOn, OnTop, Pending, Follows, BeforeConstants, Past
  <2> QED
    BY <2>1, <2>2, <2>3, <2>4, <2>5, FitsPushed
<1> QED
  BY <1>3, <1>4 DEF Awake

\* So a step keeps Hierarchy when it keeps what Hierarchy says of its thread.
LEMMA HierarchyAfter ==
  ASSUME Initialization, Hierarchy, NEW t \in Threads, Tidy(t),
         \A u \in Threads \ {t} :
           ret'[u] = ret[u] /\ \E c : stack'[u] \in {stack[u], Awake(u, c)},
         Fits(state', statics', stack'[t]),
         At(t, "superReturns")' /\ ret'[t] = "ok" => SuperFound(t)'
  PROVE  Hierarchy'
<1>1. ASSUME NEW c \in Classes, state'[c] = "NotStarted"
      PROVE  statics'[c] # "initialized"
  <2>1. state[c] = "NotStarted"
    BY <1>1 DEF Tidy
  <2>2. ~Has(stack[t], c)
    BY <2>1 DEF Initialization, Ownership
  <2>3. statics'[c] = statics[c]
    BY <2>2, Innermost DEF Tidy
  <2> QED
    BY <2>1, <2>3 DEF Hierarchy
<1>2. \A u \in Threads \ {t} : Fits(state', statics', stack'[u])
  BY FitsOthers
<1>3. ASSUME NEW u \in Threads \ {t}, At(u, "superReturns")', ret'[u] = "ok"
      PROVE  SuperFound(u)'
  <2>1. stack'[u] = stack[u]
    <3> SUFFICES ASSUME NEW c, stack'[u] = Awake(u, c), At(u, "blocked") PROVE FALSE
      BY DEF Awake
    <3> DEFINE T == Tail(stack[u])
               b == [Head(stack[u]) EXCEPT !.at = "check"]
    <3>1. /\ T \in Seq(Activations) /\ b \in Activations /\ b.at = "check"
      BY Innermost DEF At, Activations, Labels
    <3>2. stack'[u] = <<b>> \o T \/ stack'[u] = stack[u]
      BY DEF Awake
    <3> HIDE DEF b, T
    <3>3. Head(<<b>> \o T) = b
      BY <3>1, Pushed
    <3> QED
      BY <1>3, <3>1, <3>2, <3>3 DEF At
  <2>2. At(u, "superReturns") /\ SuperFound(u)
    BY <1>3, <2>1 DEF Hierarchy, At
  <2>3. Head(stack[u]) \in Activations /\ Fits(state, statics, stack[u]) /\ 1 \in DOMAIN stack[u]
        /\ Head(stack[u]) = stack[u][1]
    BY <2>2 DEF At, Hierarchy, Initialization, Typed
  <2>4. Super[Cls(u)] \in Classes
    BY <2>2, <2>3 DEF At, Cls, Fits, Nested
  <2> QED
    BY <2>1, <2>2, <2>4 DEF SuperFound, Cls, Tidy
<1> QED
  BY <1>1, <1>2, <1>3 DEF Hierarchy

\* A thread's innermost activation goes on, with the same class.
LEMMA HierarchyGoesOn ==
  ASSUME Initialization, Hierarchy, NEW t \in Threads, Tidy(t), stack[t] # <<>>,
         NEW b \in Activations, Become(t, b), ret' = ret, b.cls = Cls(t),
         b.at # "superReturns", Pending(b),
         b.at \in BeforeConstants => statics'[Cls(t)] # "initialized",
         Past(b) => \/ Past(Head(stack[t])) \/ Super[Cls(t)] = None \/ SuperFound(t)
  PROVE  Hierarchy'
<1> DEFINE T == Tail(stack[t])
           h == Head(stack[t])
<1>1. /\ h \in Activations /\ T \in Seq(Activations) /\ Cls(t) \in Classes
      /\ \A c : Has(stack[t], c) <=> Wins(h, c) \/ Has(T, c)
  BY Innermost
<1>2. /\ Fits(state', statics', T)
      /\ FitsOn(state, statics, h, T)
  BY FitsBelow
<1>3. /\ stack'[t] = <<b>> \o T
      /\ \A u \in Threads \ {t} : stack'[u] = stack[u]
  BY DEF Become, Initialization, Typed
<1>4. h.cls = Cls(t)
  BY DEF Cls
<1> HIDE DEF T, h
<1>5. FitsOn(state', statics', b, T)
  <2>1. ASSUME Past(b)
        PROVE  \/ Super[b.cls] = None \/ state'[Super[b.cls]] = "Done"
               \/ Wins(b, Super[b.cls]) \/ Has(T, Super[b.cls])
    <3>1. \/ Super[b.cls] = None \/ state[Super[b.cls]] = "Done"
          \/ Wins(h, Super[b.cls]) \/ Has(T, Super[b.cls])
      BY <1>1, <1>2, <1>4, <2>1 DEF FitsOn, OnTop, SuperFound, h
    <3>2. Wins(h, Super[b.cls]) => Wins(b, Super[b.cls])
      BY <1>4, <2>1 DEF Wins, Past, Winning
    <3>3. Super[b.cls] = None \/ Super[b.cls] \in Classes
      BY <1>1, ClassInitAssumption
    <3> QED
      BY <3>1, <3>2, <3>3 DEF Tidy
  <2> QED
    BY <1>2, <1>4, <2>1 DEF FitsOn, OnTop, Follows
<1>6. Fits(state', statics', stack'[t])
  BY <1>1, <1>2, <1>3, <1>5, FitsPushed
<1>7. ~At(t, "superReturns")'
  BY <1>1, <1>3, Pushed DEF At
<1> QED
  BY <1>3, <1>6, <1>7, HierarchyAfter

\* An activation that has won its class calls another.
LEMMA HierarchyCalls ==
  ASSUME Initialization, Hierarchy, NEW t \in Threads, Tidy(t), stack[t] # <<>>,
         NEW a \in Activations, NEW c \in Classes, CallFrom(t, a, c), ret' = ret,
         a.cls = Cls(t), a.at \in Returning, Pending(a),
         a.at = "superReturns" => c = Super[Cls(t)],
         a.at = "superReturns" => statics'[Cls(t)] # "initialized",
         a.at = "useReturns" => Past(Head(stack[t])),
         \A Z \in SUBSET Classes : ClosedUnderUse(Z) /\ Cls(t) \in Z => c \in Z
  PROVE  Hierarchy'
<1> DEFINE T == Tail(stack[t])
           h == Head(stack[t])
           n == NewActivation(c)
           below == <<a>> \o T
<1>1. h \in Activations /\ T \in Seq(Activations) /\ Cls(t) \in Classes
  BY Innermost
<1>2. Fits(state', statics', T) /\ FitsOn(state, statics, h, T)
  BY FitsBelow
<1>3. /\ stack'[t] = <<n, a>> \o T
      /\ \A u \in Threads \ {t} : stack'[u] = stack[u]
  BY DEF CallFrom, Initialization, Typed
<1>4. n \in Activations /\ n.at = "check" /\ n.cls = c /\ n.todo = <<>>
  BY NewActivationType DEF NewActivation
<1>5. h.cls = Cls(t)
  BY DEF Cls
<1> HIDE DEF T, h, n
<1>6. stack'[t] = <<n>> \o below
  BY <1>1, <1>3, <1>4
<1>7. FitsOn(state', statics', a, T)
  <2>1. ASSUME Past(a)
        PROVE  \/ Super[a.cls] = None \/ state'[Super[a.cls]] = "Done"
               \/ Wins(a, Super[a.cls]) \/ Has(T, Super[a.cls])
    <3>1. a.at = "useReturns"
      BY <2>1 DEF Past, Returning
    <3>2. \/ Super[a.cls] = None \/ state[Super[a.cls]] = "Done"
          \/ Wins(h, Super[a.cls]) \/ Has(T, Super[a.cls])
      BY <1>2, <1>5, <3>1 DEF FitsOn, OnTop, h
    <3>3. Wins(h, Super[a.cls]) => Wins(a, Super[a.cls])
      BY <1>5, <3>1 DEF Wins, Winning
    <3>4. Super[a.cls] = None \/ Super[a.cls] \in Classes
      BY <1>1, ClassInitAssumption
    <3> QED
      BY <3>2, <3>3, <3>4 DEF Tidy
  <2>2. a.at \in BeforeConstants => a.at = "superReturns"
    BY DEF BeforeConstants, Returning
  <2> QED
    BY <1>2, <1>5, <2>1, <2>2 DEF FitsOn, OnTop, Follows
<1>8. /\ Fits(state', statics', below)
      /\ below \in Seq(Activations) /\ below # <<>> /\ Head(below) = a
  BY <1>1, <1>2, <1>7, FitsPushed, Pushed
<1> HIDE DEF below
<1>9. FitsOn(state', statics', n, below)
  BY <1>4, <1>8 DEF FitsOn, OnTop, Pending, Follows, BeforeConstants, Past
<1>10. Fits(state', statics', stack'[t])
  BY <1>4, <1>6, <1>8, <1>9, FitsPushed
<1>11. ~At(t, "superReturns")'
  BY <1>4, <1>6, <1>8, Pushed DEF At
<1> QED
  BY <1>3, <1>10, <1>11, HierarchyAfter

\* The use of its superclass of the activation below has succeeded.
LEMMA SuperWasFound ==
  ASSUME Initialization, Hierarchy, NEW t \in Threads, Tidy(t), stack[t] # <<>>,
         Head(stack[t]).at \notin Winning, stack'[t] = Tail(stack[t]),
         ret'[t] = "ok" => InitializedFor(t, Cls(t)),
         At(t, "superReturns")', ret'[t] = "ok"
  PROVE  SuperFound(t)'
<1> DEFINE T == Tail(stack[t])
           h == Head(stack[t])
<1>1. /\ h \in Activations /\ T \in Seq(Activations) /\ Cls(t) \in Classes
      /\ \A c : Has(stack[t], c) <=> Wins(h, c) \/ Has(T, c)
  BY Innermost
<1>2. FitsOn(state, statics, h, T)
  BY FitsBelow
<1>3. T # <<>> /\ Head(T).at = "superReturns"
  BY DEF At
<1>4. Super[Head(T).cls] = Cls(t)
  BY <1>2, <1>3 DEF FitsOn, OnTop, Cls
<1>5. state[Cls(t)] = "Done" \/ Has(stack[t], Cls(t))
  BY DEF InitializedFor, Has, Wins
<1>6. state'[Cls(t)] = "Done" \/ Has(T, Cls(t))
  BY <1>1, <1>5 DEF Wins, Tidy
<1> QED
  BY <1>4, <1>6 DEF SuperFound, Cls

\* The innermost activation ends.
LEMMA HierarchyReturns ==
  ASSUME Initialization, Hierarchy, NEW t \in Threads, stack[t] # <<>>,
         Head(stack[t]).at \notin Winning, UNCHANGED <<state, statics>>,
         \A u \in Threads \ {t} :
           ret'[u] = ret[u] /\ \E c : stack'[u] \in {stack[u], Awake(u, c)},
         stack'[t] = Tail(stack[t]),
         ret'[t] = "ok" => InitializedFor(t, Cls(t))
  PROVE  Hierarchy'
<1>1. Tidy(t)
  BY DEF Tidy
<1>2. Fits(state', statics', stack'[t])
  BY <1>1, FitsBelow
<1>3. At(t, "superReturns")' /\ ret'[t] = "ok" => SuperFound(t)'
  BY <1>1, SuperWasFound
<1> QED
  BY <1>1, <1>2, <1>3, HierarchyAfter

\* The waiters wake up, and the activation ends or passes its panic on.
LEMMA HierarchyNotify ==
  ASSUME Initialization, Hierarchy, NEW t \in Threads, NotifyWaiters(t)
  PROVE  Hierarchy'
<1> DEFINE r == Wrapped(Head(stack[t]).res)
           T == Tail(stack[t])
<1>1. /\ stack[t] # <<>> /\ Head(stack[t]).at = "notify"
      /\ stack' = [u \in Threads |-> IF u = t THEN Unwound(t, r) ELSE Awake(u, Cls(t))]
      /\ ret' = [ret EXCEPT ![t] = r]
      /\ UNCHANGED <<state, initOwner, statics>>
  BY DEF NotifyWaiters, At
<1>2. \A u \in Threads \ {t} :
        ret'[u] = ret[u] /\ \E c : stack'[u] \in {stack[u], Awake(u, c)}
  BY <1>1 DEF Initialization, Typed
<1>3. stack'[t] = Unwound(t, r) /\ ret'[t] = r
  BY <1>1 DEF Initialization, Typed
<1>4. Head(stack[t]).at \notin Winning
  BY <1>1 DEF Winning
<1>5. CASE ~(r = "panic" /\ Len(stack[t]) > 1)
  <2>1. stack'[t] = Tail(stack[t])
    BY <1>3, <1>5 DEF Unwound
  <2>2. r = "ok" => Head(stack[t]).res = "ok"
    BY DEF Wrapped
  <2>3. r = "ok" => InitializedFor(t, Cls(t))
    BY <1>1, <2>2, FoundDone DEF Initialization, Outcomes, Earned, Cls
  <2> HIDE DEF r
  <2> QED
    BY <1>1, <1>2, <1>3, <1>4, <2>1, <2>3, HierarchyReturns
<1>6. CASE r = "panic" /\ Len(stack[t]) > 1
  <2> DEFINE b == [Head(T) EXCEPT !.at = "publish", !.res = "panic"]
             B == Tail(T)
  <2>1. stack[t] \in Seq(Activations) /\ T \in Seq(Activations)
    BY <1>1, Innermost DEF Initialization, Typed
  <2>2. T # <<>> /\ stack'[t] = <<b>> \o B
    BY <1>3, <1>6, <2>1, PanicPasses
  <2>3. Head(T) \in Activations /\ B \in Seq(Activations) /\ T = <<Head(T)>> \o B
    BY <2>1, <2>2, Split
  <2>4. /\ b \in Activations /\ b.at = "publish" /\ b.res = "panic"
        /\ b.cls = Head(T).cls /\ b.todo = Head(T).todo
    BY <2>3 DEF Activations, Labels, Winning, Results
  <2>5. Tidy(t) /\ Fits(state', statics', T)
    <3>1. Tidy(t)
      BY <1>1 DEF Tidy
    <3> QED
      BY <1>1, <3>1, FitsBelow
  <2> HIDE DEF T, b, B, r
  <2>6. Fits(state', statics', B) /\ FitsOn(state', statics', Head(T), B)
    BY <2>3, <2>5, FitsPushed
  <2>7. FitsOn(state', statics', b, B)
    BY <2>4, <2>6 DEF FitsOn, OnTop, Pending, Follows, BeforeConstants, Past
  <2>8. Fits(state', statics', stack'[t])
    BY <2>2, <2>3, <2>4, <2>6, <2>7, FitsPushed
  <2>9. ~At(t, "superReturns")'
    BY <2>2, <2>3, <2>4, Pushed DEF At
  <2> QED
    BY <1>2, <2>5, <2>8, <2>9, HierarchyAfter
<1> QED
  BY <1>5, <1>6

\* Code outside any <clinit> uses a class.
LEMMA HierarchyCall ==
  ASSUME Initialization, Hierarchy, NEW t \in Threads, NEW c \in Classes, Call(t, c)
  PROVE  Hierarchy'
<1> DEFINE n == NewActivation(c)
           none == <<>>
<1>1. n \in Activations /\ n.at = "check" /\ n.todo = <<>>
  BY NewActivationType DEF NewActivation
<1>2. /\ stack' = [stack EXCEPT ![t] = <<n>>]
      /\ UNCHANGED <<state, initOwner, statics, ret>>
  BY DEF Call
<1> HIDE DEF n
<1>3. /\ stack'[t] = <<n>> \o none
      /\ \A u \in Threads \ {t} : stack'[u] = stack[u]
  BY <1>1, <1>2 DEF Initialization, Typed
<1>4. Fits(state', statics', none) /\ none \in Seq(Activations)
  BY FitsEmpty
<1>5. FitsOn(state', statics', n, none)
  BY <1>1 DEF FitsOn, OnTop, Pending, Follows, BeforeConstants, Past
<1> HIDE DEF none
<1>6. Fits(state', statics', stack'[t])
  BY <1>1, <1>3, <1>4, <1>5, FitsPushed
<1>7. ~At(t, "superReturns")'
  BY <1>1, <1>3, <1>4, Pushed DEF At
<1>8. Tidy(t)
  BY <1>2 DEF Tidy
<1> QED
  BY <1>2, <1>3, <1>6, <1>7, <1>8, HierarchyAfter

\* Initially there is nothing on the stacks.
LEMMA HierarchyInit == Init => Hierarchy
BY FitsEmpty DEF Init, Hierarchy, At

\* What Hierarchy says of an innermost activation.
LEMMA HeadFits ==
  ASSUME Initialization, Hierarchy, NEW t \in Threads, stack[t] # <<>>
  PROVE  /\ Head(stack[t]) \in Activations /\ Cls(t) = Head(stack[t]).cls /\ Cls(t) \in Classes
         /\ FitsOn(state, statics, Head(stack[t]), Tail(stack[t]))
<1>1. /\ Head(stack[t]) \in Activations /\ Tail(stack[t]) \in Seq(Activations)
      /\ stack[t] = <<Head(stack[t])>> \o Tail(stack[t])
      /\ Fits(state, statics, stack[t])
  BY Split DEF Initialization, Typed, Hierarchy
<1>2. FitsOn(state, statics, Head(stack[t]), Tail(stack[t]))
  BY <1>1, FitsPushed
<1> QED
  BY <1>1, <1>2, Innermost DEF Cls

\* Every step keeps Hierarchy.
LEMMA HierarchyStep == Initialization /\ Hierarchy /\ [Next]_vars => Hierarchy'
<1> SUFFICES ASSUME Initialization, Hierarchy, [Next]_vars PROVE Hierarchy'
  OBVIOUS
<1> DEFINE h(t) == Head(stack[t])
<1>1. ASSUME NEW t \in Threads, stack[t] # <<>>
      PROVE  /\ h(t) \in Activations /\ Cls(t) = h(t).cls /\ Cls(t) \in Classes
             /\ h(t).todo \in Seq(Classes) /\ h(t).res \in Results /\ ret[t] \in Results
             /\ Pending(h(t))
             /\ h(t).at \in BeforeConstants => statics[Cls(t)] # "initialized"
             /\ h(t).at = "superReturns" /\ ret[t] = "ok" => SuperFound(t)
  BY <1>1, HeadFits DEF Activations, Initialization, Typed, FitsOn, OnTop, Hierarchy, At
<1>2. ASSUME NEW t \in Threads, UNCHANGED <<state, statics>> PROVE Tidy(t)
  BY <1>2 DEF Tidy
<1> USE DEF At, InternalStep
<1>3. ASSUME NEW t \in Threads, NEW l \in Labels, stack[t] # <<>>, GoTo(t, l),
             l # "superReturns", UNCHANGED <<state, statics, ret>>,
             l \in BeforeConstants => statics[Cls(t)] # "initialized",
             Past([h(t) EXCEPT !.at = l]) =>
               Past(h(t)) \/ Super[Cls(t)] = None \/ SuperFound(t)
      PROVE  Hierarchy'
  <2> DEFINE b == [h(t) EXCEPT !.at = l]
  <2>1. b \in Activations /\ b.cls = Cls(t) /\ b.at = l /\ b.todo = h(t).todo
    BY <1>1, <1>3 DEF Activations, Labels
  <2>2. Become(t, b) /\ (Past(b) => Past(h(t)) \/ Super[Cls(t)] = None \/ SuperFound(t))
    BY <1>3 DEF GoTo
  <2>3. Pending(b)
    BY <1>1, <1>3, <2>1 DEF Pending
  <2>4. Tidy(t)
    BY <1>2, <1>3
  <2>5. ret' = ret /\ statics' = statics
    BY <1>3
  <2> HIDE DEF b
  <2> QED
    BY <1>3, <2>1, <2>2, <2>3, <2>4, <2>5, HierarchyGoesOn
<1>4. ASSUME NEW t \in Threads, NEW r \in Results \ {"ok"}, stack[t] # <<>>, Fail(t, r),
             UNCHANGED <<state, statics, ret>>
      PROVE  Hierarchy'
  <2> DEFINE b == [h(t) EXCEPT !.at = "publish", !.res = r]
  <2>1. /\ b \in Activations /\ b.cls = Cls(t) /\ b.at = "publish" /\ b.res = r
        /\ b.todo = h(t).todo
    BY <1>1, <1>4 DEF Activations, Labels, Winning
  <2>2. Become(t, b)
    BY <1>4 DEF Fail
  <2>3. Pending(b)
    BY <1>1, <1>4, <2>1 DEF Pending
  <2>4. Tidy(t)
    BY <1>2, <1>4
  <2>5. b.at # "superReturns" /\ b.at \notin BeforeConstants /\ ~Past(b)
    BY <2>1 DEF BeforeConstants, Past
  <2> HIDE DEF b
  <2> QED
    BY <1>4, <2>1, <2>2, <2>3, <2>4, <2>5, HierarchyGoesOn
<1>5. ASSUME NEW t \in Threads, FindDone(t) \/ FindFailed(t) \/ Reenter(t)
      PROVE  Hierarchy'
  <2>1. PICK r : stack[t] # <<>> /\ h(t).at = "check" /\ Return(t, r)
    BY <1>5 DEF FindDone, FindFailed, Reenter
  <2>2. /\ stack'[t] = Tail(stack[t]) /\ ret'[t] = r /\ UNCHANGED <<state, statics>>
        /\ \A u \in Threads \ {t} : stack'[u] = stack[u] /\ ret'[u] = ret[u]
    BY <2>1 DEF Return, Initialization, Typed
  <2>3. h(t).at \notin Winning
    BY <2>1 DEF Winning
  <2>4. ret'[t] = "ok" => InitializedFor(t, Cls(t))
    <3>1. CASE FindDone(t)
      BY <2>1, <3>1, FoundDone DEF FindDone
    <3>2. CASE Reenter(t)
      BY <3>2, FoundOneself
    <3>3. CASE FindFailed(t)
      <4>1. ret'[t] = "NCDFE"
        BY <3>3 DEF FindFailed, Return, Initialization, Typed
      <4> QED
        BY <4>1
    <3> QED
      BY <1>5, <3>1, <3>2, <3>3
  <2> QED
    BY <2>1, <2>2, <2>3, <2>4, HierarchyReturns
<1>6. ASSUME NEW t \in Threads, WaitForOther(t) \/ SpuriousWakeup(t)
      PROVE  Hierarchy'
  <2>1. PICK l \in {"blocked", "check"} : stack[t] # <<>> /\ GoTo(t, l)
    BY <1>6 DEF WaitForOther, SpuriousWakeup
  <2>2. l \in Labels /\ l \notin BeforeConstants /\ ~Past([h(t) EXCEPT !.at = l])
    BY <1>1, <2>1 DEF Labels, BeforeConstants, Past, Activations
  <2> QED
    BY <1>3, <1>6, <2>1, <2>2 DEF WaitForOther, SpuriousWakeup
<1>7. ASSUME NEW t \in Threads, Win(t) PROVE Hierarchy'
  <2> DEFINE b == [h(t) EXCEPT !.at = "super"]
             c == Cls(t)
  <2>1. /\ stack[t] # <<>> /\ h(t).at = "check" /\ state[c] = "NotStarted"
        /\ state' = [state EXCEPT ![c] = "InProgress"]
        /\ Become(t, b) /\ UNCHANGED <<statics, ret>>
    BY <1>7 DEF Win, Winnable, GoTo
  <2>2. b \in Activations /\ b.cls = c /\ b.at = "super" /\ b.todo = h(t).todo
    BY <1>1, <2>1 DEF Activations, Labels, Winning
  <2>3. Tidy(t)
    BY <1>1, <2>1 DEF Tidy, Initialization, Typed
  <2>4. statics'[c] # "initialized"
    BY <1>1, <2>1 DEF Hierarchy
  <2>5. Pending(b)
    BY <1>1, <2>1, <2>2 DEF Pending
  <2>6. b.at # "superReturns" /\ ~Past(b)
    BY <2>2 DEF Past
  <2> HIDE DEF b
  <2> QED
    BY <2>1, <2>2, <2>3, <2>4, <2>5, <2>6, HierarchyGoesOn
<1>8. ASSUME NEW t \in Threads, InitSuper(t) PROVE Hierarchy'
  <2>1. stack[t] # <<>> /\ h(t).at = "super" /\ UNCHANGED <<state, statics, ret>>
    BY <1>8 DEF InitSuper
  <2>2. statics[Cls(t)] # "initialized"
    BY <1>1, <2>1 DEF BeforeConstants
  <2>3. CASE Super[Cls(t)] = None
    BY <1>3, <1>8, <2>1, <2>2, <2>3 DEF InitSuper, Labels, Winning
  <2>4. CASE Super[Cls(t)] # None
    <3> DEFINE a == [h(t) EXCEPT !.at = "superReturns"]
               c == Super[Cls(t)]
    <3>1. c \in Classes
      BY <1>1, <2>1, <2>4, ClassInitAssumption
    <3>2. /\ a \in Activations /\ a.cls = Cls(t) /\ a.at = "superReturns"
          /\ a.todo = h(t).todo
      BY <1>1, <2>1 DEF Activations, Labels, Winning
    <3>3. CallFrom(t, a, c)
      BY <1>8, <2>4 DEF InitSuper
    <3>4. Pending(a)
      BY <1>1, <2>1, <3>2 DEF Pending
    <3>5. \A Z \in SUBSET Classes : ClosedUnderUse(Z) /\ Cls(t) \in Z => c \in Z
      BY <2>4 DEF ClosedUnderUse
    <3>6. Tidy(t) /\ a.at \in Returning
      BY <1>2, <2>1, <3>2 DEF Returning
    <3> HIDE DEF a
    <3> QED
      BY <2>1, <2>2, <3>1, <3>2, <3>3, <3>4, <3>5, <3>6, HierarchyCalls
  <2> QED
    BY <2>3, <2>4
<1>9. ASSUME NEW t \in Threads, SuperReturns(t) PROVE Hierarchy'
  <2>1. /\ stack[t] # <<>> /\ h(t).at = "superReturns" /\ UNCHANGED <<state, statics, ret>>
        /\ (ret[t] = "ok" /\ GoTo(t, "constants")) \/ (ret[t] # "ok" /\ Fail(t, ret[t]))
    BY <1>9 DEF SuperReturns
  <2>2. statics[Cls(t)] # "initialized" /\ (ret[t] = "ok" => SuperFound(t))
    BY <1>1, <2>1 DEF BeforeConstants
  <2> QED
    BY <1>1, <1>3, <1>4, <2>1, <2>2 DEF Labels, Winning
<1>10. ASSUME NEW t \in Threads, ApplyConstantValues(t) PROVE Hierarchy'
  <2> DEFINE b == [h(t) EXCEPT !.at = "clinit", !.todo = Uses[Cls(t)]]
  <2>1. /\ stack[t] # <<>> /\ h(t).at = "constants"
        /\ UNCHANGED <<state, ret>>
        /\ statics' = [statics EXCEPT ![Cls(t)] = "constants"]
        /\ Become(t, b)
    BY <1>10 DEF ApplyConstantValues
  <2>2. b \in Activations /\ b.cls = Cls(t) /\ b.at = "clinit" /\ b.todo = Uses[Cls(t)]
    BY <1>1, <2>1, ClassInitAssumption DEF Activations, Labels, Winning
  <2>3. Past(h(t)) /\ Wins(h(t), Cls(t))
    BY <1>1, <2>1 DEF Past, Wins, Winning
  <2>4. Tidy(t)
    BY <1>1, <2>1, <2>3 DEF Tidy, Initialization, Typed
  <2>5. Pending(b) /\ b.at # "superReturns" /\ b.at \notin BeforeConstants
    BY <2>2 DEF Pending, BeforeConstants
  <2> HIDE DEF b
  <2> QED
    BY <2>1, <2>2, <2>3, <2>4, <2>5, HierarchyGoesOn
<1>11. ASSUME NEW t \in Threads, ClinitUses(t) PROVE Hierarchy'
  <2> DEFINE a == [h(t) EXCEPT !.at = "useReturns", !.todo = Tail(@)]
             c == Head(h(t).todo)
  <2>1. /\ stack[t] # <<>> /\ h(t).at = "clinit" /\ h(t).todo # <<>>
        /\ UNCHANGED <<state, statics, ret>>
        /\ CallFrom(t, a, c)
    BY <1>11 DEF ClinitUses
  <2>2. /\ c \in Classes /\ Tail(h(t).todo) \in Seq(Classes)
        /\ 1 \in DOMAIN h(t).todo /\ c = h(t).todo[1]
        /\ \A k \in DOMAIN Tail(h(t).todo) :
             k + 1 \in DOMAIN h(t).todo /\ Tail(h(t).todo)[k] = h(t).todo[k + 1]
    BY <1>1, <2>1
  <2>3. /\ a \in Activations /\ a.cls = Cls(t) /\ a.at = "useReturns"
        /\ a.todo = Tail(h(t).todo)
    BY <1>1, <2>1, <2>2 DEF Activations, Labels, Winning
  <2>4. Pending(a)
    BY <1>1, <2>1, <2>2, <2>3 DEF Pending
  <2>5. \A Z \in SUBSET Classes : ClosedUnderUse(Z) /\ Cls(t) \in Z => c \in Z
    BY <1>1, <2>1, <2>2 DEF ClosedUnderUse, Pending
  <2>6. Tidy(t) /\ a.at \in Returning /\ Past(h(t))
    BY <1>2, <2>1, <2>3 DEF Returning, Past
  <2> HIDE DEF a, c
  <2> QED
    BY <2>1, <2>2, <2>3, <2>4, <2>5, <2>6, HierarchyCalls
<1>12. ASSUME NEW t \in Threads, UseReturns(t) PROVE Hierarchy'
  <2>1. /\ stack[t] # <<>> /\ h(t).at = "useReturns" /\ UNCHANGED <<state, statics, ret>>
        /\ GoTo(t, "clinit") \/ (ret[t] # "ok" /\ Fail(t, ret[t]))
    BY <1>12 DEF UseReturns
  <2>2. Past(h(t))
    BY <2>1 DEF Past
  <2> QED
    BY <1>1, <1>3, <1>4, <2>1, <2>2 DEF Labels, Winning, BeforeConstants
<1>13. ASSUME NEW t \in Threads, ClinitThrows(t) \/ ClinitPanics(t) PROVE Hierarchy'
  BY <1>4, <1>13 DEF ClinitThrows, ClinitPanics, Results
<1>14. ASSUME NEW t \in Threads, ClinitCompletes(t) PROVE Hierarchy'
  <2> DEFINE b == [h(t) EXCEPT !.at = "publish"]
  <2>1. /\ stack[t] # <<>> /\ h(t).at = "clinit"
        /\ UNCHANGED <<state, ret>>
        /\ statics' = [statics EXCEPT ![Cls(t)] = "initialized"]
        /\ Become(t, b)
    BY <1>14 DEF ClinitCompletes, GoTo
  <2>2. b \in Activations /\ b.cls = Cls(t) /\ b.at = "publish" /\ b.todo = h(t).todo
    BY <1>1, <2>1 DEF Activations, Labels, Winning
  <2>3. Past(h(t)) /\ Wins(h(t), Cls(t))
    BY <1>1, <2>1 DEF Past, Wins, Winning
  <2>4. Tidy(t)
    BY <1>1, <2>1, <2>3 DEF Tidy, Initialization, Typed
  <2>5. Pending(b)
    BY <1>1, <2>1, <2>2 DEF Pending
  <2>6. b.at # "superReturns" /\ b.at \notin BeforeConstants
    BY <2>2 DEF BeforeConstants
  <2> HIDE DEF b
  <2> QED
    BY <2>1, <2>2, <2>3, <2>4, <2>5, <2>6, HierarchyGoesOn
<1>15. ASSUME NEW t \in Threads, Publish(t) PROVE Hierarchy'
  <2> DEFINE b == [h(t) EXCEPT !.at = "notify"]
             outcome == IF h(t).res = "ok" THEN "Done" ELSE "Failed"
  <2>1. /\ stack[t] # <<>> /\ h(t).at = "publish"
        /\ UNCHANGED <<statics, ret>>
        /\ state' = [state EXCEPT ![Cls(t)] = outcome]
        /\ Become(t, b)
    BY <1>15 DEF Publish, GoTo
  <2>2. b \in Activations /\ b.cls = Cls(t) /\ b.at = "notify" /\ b.todo = h(t).todo
    BY <1>1, <2>1 DEF Activations, Labels
  <2>3. state[Cls(t)] = "InProgress"
    BY <1>1, <2>1, Innermost DEF Initialization, Ownership, Wins, Winning
  <2>4. Tidy(t)
    BY <1>1, <2>1, <2>3 DEF Tidy, Initialization, Typed
  <2>5. Pending(b)
    BY <1>1, <2>1, <2>2 DEF Pending
  <2>6. b.at # "superReturns" /\ b.at \notin BeforeConstants /\ ~Past(b)
    BY <2>2 DEF BeforeConstants, Past
  <2> HIDE DEF b, outcome
  <2> QED
    BY <2>1, <2>2, <2>4, <2>5, <2>6, HierarchyGoesOn
<1>16. CASE UNCHANGED vars
  BY <1>16 DEF vars, Hierarchy, SuperFound, Cls
<1> QED
  BY <1>5, <1>6, <1>7, <1>8, <1>9, <1>10, <1>11, <1>12, <1>13, <1>14, <1>15, <1>16,
     HierarchyCall, HierarchyNotify DEF Next, Continue

\* Only two steps write fields, past the superclass of their class.
LEMMA SuperFirstStep ==
  Initialization /\ Hierarchy /\ [Next]_vars =>
    [\A c \in Classes :
       /\ statics[c] = "initialized" => statics'[c] = "initialized"
       /\ statics[c] # statics'[c] /\ Super[c] # None =>
            \/ state[Super[c]] = "Done"
            \/ \E t \in Threads : Initializing(t, c) /\ Initializing(t, Super[c])]_vars
<1> SUFFICES ASSUME Initialization, Hierarchy, Next, NEW c \in Classes, statics[c] # statics'[c]
             PROVE  /\ statics[c] # "initialized" \/ statics'[c] = "initialized"
                    /\ \/ Super[c] = None \/ state[Super[c]] = "Done"
                       \/ \E t \in Threads : Initializing(t, c) /\ Initializing(t, Super[c])
  OBVIOUS
<1>1. PICK t \in Threads : ApplyConstantValues(t) \/ ClinitCompletes(t)
  BY DEF Next, Continue, Call, FindDone, FindFailed, Reenter, Return, WaitForOther, Win,
     InitSuper, SuperReturns, ClinitUses, UseReturns, ClinitThrows, ClinitPanics, Publish,
     NotifyWaiters, SpuriousWakeup, InternalStep
<1>2. /\ stack[t] # <<>> /\ Head(stack[t]).at \in {"constants", "clinit"}
      /\ Cls(t) = c
      /\ ApplyConstantValues(t) => Head(stack[t]).at = "constants"
      /\ ClinitCompletes(t) => statics'[c] = "initialized"
  BY <1>1 DEF ApplyConstantValues, ClinitCompletes, At, Initialization, Typed
<1>3. /\ FitsOn(state, statics, Head(stack[t]), Tail(stack[t]))
      /\ Head(stack[t]).cls = c
      /\ \A d : Has(stack[t], d) <=> Wins(Head(stack[t]), d) \/ Has(Tail(stack[t]), d)
  BY <1>2, HeadFits, Innermost
<1>4. statics[c] # "initialized" \/ statics'[c] = "initialized"
  BY <1>1, <1>2, <1>3 DEF FitsOn, OnTop, BeforeConstants
<1>5. Past(Head(stack[t])) /\ Wins(Head(stack[t]), c)
  BY <1>2, <1>3 DEF Past, Wins, Winning
<1>6. Has(stack[t], c) /\ \/ Super[c] = None \/ state[Super[c]] = "Done"
                          \/ Has(stack[t], Super[c])
  BY <1>3, <1>5 DEF FitsOn, OnTop
<1>7. \A d : Has(stack[t], d) => Initializing(t, d)
  BY DEF Has, Wins, Initializing
<1> QED
  BY <1>4, <1>6, <1>7

\* Whatever uses whatever, the fields of a class are written once, after those
\* of its superclass, unless its initialization is nested in the superclass's.
THEOREM SuperAlwaysBeforeSub == Spec => SuperBeforeSub
BY InitializationInit, HierarchyInit, InitializationStep, HierarchyStep, SuperFirstStep, PTL
DEF Spec, SuperBeforeSub

-----------------------------------------------------------------------------
(* Superclasses that do not lead to their subclasses.                      *)

SupersDone ==
  \A c \in Classes : state[c] = "Done" => Super[c] = None \/ state[Super[c]] = "Done"

\* The superclass of a class on a stack is not in progress below it.
LEMMA SuperNotBelow ==
  ASSUME SupersFirst, Initialization, Hierarchy, NEW t \in Threads,
         NEW i \in DOMAIN stack[t], NEW j \in DOMAIN stack[t], i <= j,
         Super[stack[t][i].cls] # None
  PROVE  stack[t][j].cls # Super[stack[t][i].cls]
<1>1. stack[t][i].cls \in Classes /\ Led(stack[t])
  <2>1. stack[t] \in Seq(Activations) /\ Led(stack[t])
    BY DEF Initialization, Typed, Hierarchy, Fits
  <2>2. stack[t][i] \in Activations
    BY <2>1
  <2> QED
    BY <2>1, <2>2 DEF Activations
<1> DEFINE c == stack[t][i].cls
<1>2. PICK Z \in SUBSET Classes : Super[c] \in Z /\ c \notin Z /\ ClosedUnderUse(Z)
  BY <1>1 DEF SupersFirst
<1> QED
  BY <1>1, <1>2 DEF Led

\* So a class is Done after its superclass.
LEMMA SupersDoneStep ==
  ASSUME SupersFirst, Initialization, Hierarchy, SupersDone, [Next]_vars
  PROVE  SupersDone'
<1> SUFFICES ASSUME NEW c \in Classes, state'[c] = "Done", Super[c] # None
             PROVE  state'[Super[c]] = "Done"
  BY DEF SupersDone
<1>1. Super[c] \in Classes
  BY ClassInitAssumption
<1>2. state[Super[c]] = "Done" => state'[Super[c]] = "Done"
  <2>1. CASE UNCHANGED vars
    BY <2>1 DEF vars
  <2>2. CASE ~UNCHANGED vars
    BY <1>1, <2>2, FinalStep
  <2> QED
    BY <2>1, <2>2
<1>3. CASE state[c] = "Done"
  BY <1>2, <1>3 DEF SupersDone
<1>4. CASE state[c] # "Done"
  <2>1. PICK t \in Threads : Publish(t) \/ Win(t)
    BY <1>4 DEF vars, Next, Continue, Call, FindDone, FindFailed, Reenter, Return, WaitForOther,
       InitSuper, SuperReturns, ApplyConstantValues, ClinitUses, UseReturns, ClinitThrows,
       ClinitCompletes, ClinitPanics, NotifyWaiters, SpuriousWakeup, InternalStep
  <2>2. ~Win(t)
    BY <1>4 DEF Win, Initialization, Typed
  <2>3. /\ stack[t] # <<>> /\ Head(stack[t]).at = "publish" /\ Cls(t) = c
        /\ Head(stack[t]).res = "ok"
    BY <1>4, <2>1, <2>2 DEF Publish, At, Initialization, Typed
  <2>4. Head(stack[t]).cls = c /\ FitsOn(state, statics, Head(stack[t]), Tail(stack[t]))
        /\ \A d : Has(stack[t], d) <=> Wins(Head(stack[t]), d) \/ Has(Tail(stack[t]), d)
    BY <2>3, HeadFits, Innermost
  <2>5. state[Super[c]] = "Done" \/ Has(stack[t], Super[c])
    BY <2>3, <2>4 DEF FitsOn, OnTop, Past
  <2>6. ~Has(stack[t], Super[c])
    <3>1. /\ 1 \in DOMAIN stack[t] /\ stack[t][1].cls = c
          /\ \A j \in DOMAIN stack[t] : j \in Nat /\ 1 <= j
      BY <2>3, <2>4 DEF Initialization, Typed
    <3> QED
      BY <3>1, SuperNotBelow DEF Has, Wins
  <2> QED
    BY <1>2, <2>5, <2>6
<1> QED
  BY <1>3, <1>4

\* The superclasses of a class are Done when its own superclass is.
LEMMA AllSupersDone ==
  ASSUME Initialization, SupersDone, NEW c \in Classes,
         Super[c] = None \/ state[Super[c]] = "Done",
         NEW d \in Supers(c)
  PROVE  d \in Classes /\ state[d] = "Done" /\ statics[d] = "initialized"
<1> DEFINE Z == {e \in Classes : state[e] = "Done"}
<1>1. Super[c] \in Z \cup {None} /\ \A e \in Z : Super[e] \in Z \cup {None}
  BY ClassInitAssumption DEF SupersDone
<1>2. d \in Classes /\ d \in Z
  BY <1>1 DEF Supers
<1> QED
  BY <1>2 DEF Initialization, Outcomes

\* A use that returns normally finds the superclasses initialized.
LEMMA SucceedsWithSupers ==
  ASSUME SupersFirst, Initialization, Hierarchy, SupersDone, Next,
         NEW t \in Threads, UseSucceeds(t), NEW d \in Supers(Cls(t))
  PROVE  InitializedFor(t, d)
<1>1. stack[t] # <<>> /\ Cls(t) \in Classes /\ stack[t] \in Seq(Activations)
  BY Innermost DEF UseSucceeds, Initialization, Typed
<1>2. InitializedFor(t, Cls(t))
  BY SucceedsWhenInitialized
<1>3. Super[Cls(t)] = None \/ state[Super[Cls(t)]] = "Done"
  <2>1. CASE state[Cls(t)] = "Done"
    BY <1>1, <2>1 DEF SupersDone
  <2>2. CASE state[Cls(t)] # "Done"
    <3>1. PICK i \in DOMAIN stack[t] :
            i > 1 /\ stack[t][i].cls = Cls(t) /\ stack[t][i].at \in Winning
      BY <1>2, <2>2 DEF InitializedFor
    <3>2. /\ i - 1 \in DOMAIN stack[t] /\ 1 \in DOMAIN stack[t] /\ i \in Nat /\ 1 <= i - 1
          /\ i - 1 \in DOMAIN Tail(stack[t]) /\ Tail(stack[t])[i - 1] = stack[t][i]
          /\ stack[t][1].cls = Cls(t)
      BY <1>1, <3>1 DEF Cls
    <3>3. stack[t][i].at \in Returning
      BY <1>1, <3>2, Innermost DEF AllReturning
    <3>4. stack[t][i].at # "superReturns"
      <4> SUFFICES ASSUME stack[t][i].at = "superReturns" PROVE FALSE
        OBVIOUS
      <4>1. Super[Cls(t)] \in Classes /\ stack[t][i - 1].cls = Super[Cls(t)]
        BY <3>1 DEF Hierarchy, Fits, Nested
      <4>2. Super[stack[t][1].cls] # None
        BY <3>2, <4>1, ClassInitAssumption
      <4> QED
        BY <3>2, <4>1, <4>2, SuperNotBelow
    <3>5. Past(stack[t][i])
      BY <3>3, <3>4 DEF Past, Returning
    <3>6. ASSUME NEW j \in DOMAIN stack[t], j >= i, Wins(stack[t][j], Super[Cls(t)]),
                 Super[Cls(t)] # None
          PROVE  FALSE
      <4>1. i <= j /\ Super[stack[t][i].cls] # None
        BY <1>1, <3>1, <3>2, <3>6
      <4> QED
        BY <3>1, <3>6, <4>1, SuperNotBelow DEF Wins
    <3> QED
      BY <3>1, <3>5, <3>6 DEF Hierarchy, Fits, Nested
  <2> QED
    BY <2>1, <2>2
<1> QED
  BY <1>1, <1>3, AllSupersDone DEF InitializedFor

\* When no superclass leads to its subclass, whoever uses a class normally has
\* all its superclasses initialized, whatever fails and however threads race.
THEOREM UsersAlwaysSeeInitializedSupers ==
  ASSUME SupersFirst
  PROVE  Spec => UsersSeeInitializedSupers
<1>1. Init => SupersDone
  BY DEF Init, SupersDone
<1>2. Initialization /\ Hierarchy /\ SupersDone /\ [Next]_vars => SupersDone'
  BY SupersDoneStep
<1>3. Initialization /\ Hierarchy /\ SupersDone /\ [Next]_vars =>
        [\A t \in Threads : UseSucceeds(t) =>
           \A c \in Supers(Cls(t)) : InitializedFor(t, c)]_vars
  BY SucceedsWithSupers
<1> QED
  BY <1>1, <1>2, <1>3, InitializationInit, HierarchyInit, InitializationStep, HierarchyStep, PTL
  DEF Spec, UsersSeeInitializedSupers
=============================================================================
